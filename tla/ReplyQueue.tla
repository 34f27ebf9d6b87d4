----------------------------- MODULE ReplyQueue -----------------------------
(***************************************************************************)
(* What a chat may rely on, whatever fails in between: replies are         *)
(* delivered at least once or dropped, each is decided before the next one *)
(* is shown, and what is decided never shows up again.                     *)
(***************************************************************************)
EXTENDS Naturals

CONSTANT Replies    \* numbers, in the order in which they are queued

VARIABLES
    place,        \* "none", "queued", "delivered" or "dropped"
    copies        \* how many copies of a reply the chat shows

queueVars == <<place, copies>>

Decided(i) == place[i] \in {"delivered", "dropped"}

\* It is i's turn: i is queued and everything before it is decided.
AtHead(i) ==
    /\ place[i] = "queued"
    /\ \A j \in Replies : j < i => Decided(j)

Init ==
    /\ place = [i \in Replies |-> "none"]
    /\ copies = [i \in Replies |-> 0]

Enqueue(i) ==
    /\ \A j \in Replies : place[j] = "none" <=> i <= j
    /\ place' = [place EXCEPT ![i] = "queued"]
    /\ UNCHANGED copies

ShowCopy(i) ==
    /\ AtHead(i)
    /\ copies' = [copies EXCEPT ![i] = @ + 1]
    /\ UNCHANGED place

Deliver(i) ==
    /\ AtHead(i)
    /\ copies[i] > 0
    /\ place' = [place EXCEPT ![i] = "delivered"]
    /\ UNCHANGED copies

Drop(i) ==
    /\ AtHead(i)
    /\ place' = [place EXCEPT ![i] = "dropped"]
    /\ UNCHANGED copies

Next == \E i \in Replies : Enqueue(i) \/ ShowCopy(i) \/ Deliver(i) \/ Drop(i)

Spec == Init /\ [][Next]_queueVars

-----------------------------------------------------------------------------
(* What follows for the chat. *)

\* Replies are shown in the order in which they were queued: when one is in
\* the chat, all before it are decided, and "delivered" is never said of one
\* that the chat does not show.
ShownInOrder ==
    \A i \in Replies :
        /\ place[i] = "delivered" => copies[i] > 0
        /\ copies[i] > 0 => \A j \in Replies : j < i => Decided(j)

\* What is decided stays so and gets no further copy.
DecidedStays ==
    \A i \in Replies :
        Decided(i) => place'[i] = place[i] /\ copies'[i] = copies[i]

DecidedForGood == [][DecidedStays]_queueVars
=============================================================================
