---------------------------- MODULE CodexProofs ----------------------------
(***************************************************************************)
(* Proofs about CodexTurn, for any sessions, any turns, any number of      *)
(* messages of the server, and any output of the agent in any chunks.      *)
(*                                                                         *)
(* Inv is the inductive invariant of a compaction: what the pipe says of   *)
(* the server is so.  StreamInv is that of a message's run: what was read  *)
(* is the text up to Offset, and Done, its short lines up to there, have   *)
(* been parsed; the buffer holds the line at hand.                         *)
(***************************************************************************)
EXTENDS CodexTurn, FiniteSetTheorems, SequenceTheorems, WellFoundedInduction, TLAPS

-----------------------------------------------------------------------------
(* The inductive invariant of a compaction. *)

Kinds == {"reply", "compacted", "ended", "error", "junk"}
Whats == {"ours", "foreign", "completed", "failed", "retry", "final", "junk"}
            \cup (Requests \X {"ok", "error", "other"})
Messages == [kind : Kinds, turn : Turns \cup {NoTurn}, what : Whats]

\* What a message in the pipe says is so.
Truthful(m) ==
    /\ \A i \in Requests :
          m = Message("reply", NoTurn, <<i, "ok">>) => answered[i] = "ok"
    /\ m.kind = "compacted" /\ m.what # "foreign" => m.turn \in really

PipeOK == pipe \in Seq(Messages) /\ \A k \in DOMAIN pipe : Truthful(pipe[k])

\* What the client has noted is so.
NotedOK ==
    /\ acknowledged => answered[3] = "ok"
    /\ compacted \subseteq really
    /\ at = "compact" => answered[2] = "ok"

Real == answered[2] = "ok" /\ answered[3] = "ok" /\ really # {}

EndOK ==
    /\ verdict = "ok" => Real
    /\ result.ok => Real

Places == Exchanging \cup {"idle", "started", "ending", "done"}

ServerOK ==
    /\ at \in Places
    /\ at = "idle" => proc = "none"
    /\ at = "done" => proc # "alive"

CompactInv ==
    /\ answered \in [Requests -> {"no", "ok", "error", "other"}]
    /\ PipeOK
    /\ NotedOK
    /\ EndOK
    /\ ServerOK

\* A message's run says nothing of the server.
Inv == op \in {"message", "compact"} /\ (op = "compact" => CompactInv)

LEMMA InvInit == Init => Inv
<1> SUFFICES ASSUME Init PROVE Inv
  OBVIOUS
<1>1. /\ pipe \in Seq(Messages) /\ DOMAIN pipe = {}
      /\ answered \in [Requests -> {"no", "ok", "error", "other"}]
  BY DEF Init
<1>2. NotedOK /\ EndOK
  BY DEF Init, StreamInit, NotedOK, EndOK, NoResult
<1>3. ServerOK
  BY DEF Init, StreamInit, ServerOK, Places
<1> QED
  BY <1>1, <1>2, <1>3 DEF Init, Inv, CompactInv, PipeOK

-----------------------------------------------------------------------------
(* The pipe. *)

\* Answers and compactions are never taken back.
Grows ==
    /\ \A i \in Requests : answered[i] = "ok" => answered'[i] = "ok"
    /\ really \subseteq really'

LEMMA SentOK ==
  ASSUME PipeOK, Grows, NEW m \in Messages, Sends(m), Truthful(m)'
  PROVE  PipeOK'
<1>1. pipe' = Append(pipe, m) /\ pipe' \in Seq(Messages)
  BY DEF PipeOK, Sends
<1>2. ASSUME NEW k \in DOMAIN pipe'
      PROVE  Truthful(pipe[k])'
  <2>1. CASE k \in DOMAIN pipe
    <3>1. pipe'[k] = pipe[k]
      BY <1>1, <2>1 DEF PipeOK
    <3>2. Truthful(pipe[k])
      BY <2>1 DEF PipeOK
    <3> QED
      BY <3>1, <3>2 DEF Truthful, Grows
  <2>2. CASE k \notin DOMAIN pipe
    <3>1. pipe'[k] = m
      BY <1>1, <1>2, <2>2 DEF PipeOK
    <3> QED
      BY <3>1 DEF Truthful
  <2> QED
    BY <2>1, <2>2
<1> QED
  BY <1>1, <1>2 DEF PipeOK

LEMMA ReceivedOK ==
  ASSUME PipeOK, pipe # <<>>, pipe' = Tail(pipe), UNCHANGED <<answered, really>>
  PROVE  PipeOK' /\ Received \in Messages /\ Truthful(Received)
<1>1. /\ Received = pipe[1] /\ 1 \in DOMAIN pipe /\ Received \in Messages
      /\ pipe' \in Seq(Messages)
  BY DEF PipeOK, Received
<1>2. ASSUME NEW k \in DOMAIN pipe'
      PROVE  Truthful(pipe[k])'
  <2>1. k + 1 \in DOMAIN pipe /\ pipe'[k] = pipe[k + 1]
    BY <1>2 DEF PipeOK
  <2>2. Truthful(pipe[k + 1])
    BY <2>1 DEF PipeOK
  <2> QED
    BY <2>1, <2>2 DEF Truthful
<1>3. Truthful(Received)
  BY <1>1 DEF PipeOK
<1> QED
  BY <1>1, <1>2, <1>3 DEF PipeOK

-----------------------------------------------------------------------------
(* The server. *)

LEMMA ServerStep ==
  ASSUME CompactInv, Server
  PROVE  CompactInv'
<1>a. /\ answered \in [Requests -> {"no", "ok", "error", "other"}]
      /\ PipeOK /\ NotedOK /\ EndOK /\ ServerOK
  BY DEF CompactInv
<1>b. /\ UNCHANGED <<at, proc, result, acknowledged, compacted, completed, verdict>>
  BY DEF Server, procVars, clientVars
<1>1. /\ Grows /\ answered' \in [Requests -> {"no", "ok", "error", "other"}]
      /\ \E m \in Messages : Sends(m) /\ Truthful(m)'
  <2>1. ASSUME NEW i \in Requests, Answers(i)
        PROVE  /\ Grows /\ answered' \in [Requests -> {"no", "ok", "error", "other"}]
               /\ \E m \in Messages : Sends(m) /\ Truthful(m)'
    <3>1. PICK a \in {"ok", "error", "other"} :
            /\ answered' = [answered EXCEPT ![i] = a]
            /\ Sends(Message("reply", NoTurn, <<i, a>>))
      BY <2>1 DEF Answers
    <3>2. answered[i] = "no" /\ really' = really
      BY <2>1 DEF Answers
    <3> DEFINE m == Message("reply", NoTurn, <<i, a>>)
    <3>3. m \in Messages
      BY DEF Message, Messages, Kinds, Whats
    <3>4. Truthful(m)'
      BY <1>a, <3>1 DEF Truthful, Message
    <3>5. Grows
      BY <1>a, <3>1, <3>2 DEF Grows
    <3>6. answered' \in [Requests -> {"no", "ok", "error", "other"}]
      BY <1>a, <3>1
    <3> QED
      BY <3>1, <3>3, <3>4, <3>5, <3>6
  <2>2. ASSUME NEW t \in Turns, Compacts(t)
        PROVE  /\ Grows /\ answered' = answered
               /\ \E m \in Messages : Sends(m) /\ Truthful(m)'
    <3> DEFINE m == Message("compacted", t, "ours")
    <3>1. Sends(m) /\ really' = really \cup {t} /\ answered' = answered
      BY <2>2 DEF Compacts
    <3>2. m \in Messages
      BY DEF Message, Messages, Kinds, Whats
    <3>3. Truthful(m)'
      BY <3>1 DEF Truthful, Message
    <3> QED
      BY <3>1, <3>2, <3>3 DEF Grows
  <2>3. ASSUME NEW t \in Turns, EndsTurn(t)
        PROVE  /\ Grows /\ answered' = answered
               /\ \E m \in Messages : Sends(m) /\ Truthful(m)'
    <3>1. PICK how \in {"completed", "failed"} : Sends(Message("ended", t, how))
      BY <2>3 DEF EndsTurn
    <3> DEFINE m == Message("ended", t, how)
    <3>2. m \in Messages /\ Truthful(m)'
      BY DEF Truthful, Message, Messages, Kinds, Whats
    <3> QED
      BY <2>3, <3>1, <3>2 DEF EndsTurn, Grows
  <2>4. ASSUME Noise
        PROVE  /\ Grows /\ answered' = answered
               /\ \E m \in Messages : Sends(m) /\ Truthful(m)'
    <3>1. answered' = answered /\ really' = really
      BY <2>4 DEF Noise
    <3>2. ASSUME NEW t \in Turns
          PROVE  LET m == Message("compacted", t, "foreign")
                 IN  m \in Messages /\ Truthful(m)'
      BY DEF Truthful, Message, Messages, Kinds, Whats
    <3>3. ASSUME NEW what \in {"retry", "final"}
          PROVE  LET m == Message("error", NoTurn, what)
                 IN  m \in Messages /\ Truthful(m)'
      BY DEF Truthful, Message, Messages, Kinds, Whats
    <3>4. LET m == Message("junk", NoTurn, "junk")
          IN  m \in Messages /\ Truthful(m)'
      BY DEF Truthful, Message, Messages, Kinds, Whats
    <3> QED
      BY <2>4, <3>1, <3>2, <3>3, <3>4 DEF Noise, Grows
  <2> QED
    BY <1>a, <2>1, <2>2, <2>3, <2>4 DEF Server
<1>2. PipeOK'
  BY <1>a, <1>1, SentOK
<1>3. NotedOK' /\ EndOK'
  BY <1>a, <1>b, <1>1 DEF NotedOK, EndOK, Real, Grows, Requests
<1>4. ServerOK'
  BY <1>a, <1>b DEF ServerOK
<1> QED
  BY <1>1, <1>2, <1>3, <1>4 DEF CompactInv

-----------------------------------------------------------------------------
(* The client. *)

\* The exchange ends as the messages say.
LEMMA ReceiveStep ==
  ASSUME CompactInv, Receive
  PROVE  CompactInv'
<1>a. /\ answered \in [Requests -> {"no", "ok", "error", "other"}]
      /\ PipeOK /\ NotedOK /\ EndOK /\ ServerOK
  BY DEF CompactInv
<1>b. /\ UNCHANGED <<answered, really, proc, result>>
      /\ at \in Exchanging /\ pipe # <<>> /\ pipe' = Tail(pipe)
  BY DEF Receive, procVars, serverVars
<1>1. PipeOK' /\ Truthful(Received)
  BY <1>a, <1>b, ReceivedOK
<1>2. CASE \E i \in {1, 2} : \E next \in {"resume", "compact"} :
              /\ AwaitReply(i, next) /\ (next = "compact" => i = 2)
  <2>1. PICK i \in {1, 2}, next \in {"resume", "compact"} :
              /\ AwaitReply(i, next) /\ (next = "compact" => i = 2)
    BY <1>2
  <2>2. /\ acknowledged' = acknowledged /\ compacted' = compacted
        /\ \/ Reply(i, "ok") /\ at' = next /\ verdict' = verdict
           \/ Gives("error")
           \/ at' = at /\ verdict' = verdict
    <3>1. UNCHANGED clientVars
      BY <2>1 DEF AwaitReply
    <3>2. \/ Reply(i, "ok") /\ at' = next /\ verdict' = verdict
          \/ Gives("error")
          \/ at' = at /\ verdict' = verdict
      BY <2>1, Zenon DEF AwaitReply
    <3> QED
      BY <3>1, <3>2 DEF clientVars
  <2>3. CASE Reply(i, "ok") /\ at' = next /\ verdict' = verdict
    <3>1. answered[i] = "ok"
      BY <1>1, <2>3 DEF Reply, Truthful, Requests
    <3>2. at' = "compact" => answered[2] = "ok"
      BY <2>1, <2>3, <3>1
    <3>3. NotedOK'
      BY <1>a, <1>b, <2>2, <3>2 DEF NotedOK
    <3>4. EndOK'
      BY <1>a, <1>b, <2>3 DEF EndOK, Real
    <3>5. ServerOK'
      BY <1>a, <1>b, <2>1, <2>3 DEF ServerOK, Places, Exchanging
    <3> QED
      BY <1>a, <1>b, <1>1, <3>3, <3>4, <3>5 DEF CompactInv
  <2>4. CASE Gives("error")
    <3>1. at' = "ending" /\ verdict' = "error"
      BY <2>4 DEF Gives
    <3>2. NotedOK' /\ EndOK'
      BY <1>a, <1>b, <2>2, <3>1 DEF NotedOK, EndOK, Real
    <3>3. ServerOK'
      BY <1>a, <1>b, <3>1 DEF ServerOK, Places
    <3> QED
      BY <1>a, <1>b, <1>1, <3>2, <3>3 DEF CompactInv
  <2>5. CASE at' = at /\ verdict' = verdict
    <3>1. NotedOK' /\ EndOK'
      BY <1>a, <1>b, <2>2, <2>5 DEF NotedOK, EndOK, Real
    <3>2. ServerOK'
      BY <1>a, <1>b, <2>5 DEF ServerOK, Places
    <3> QED
      BY <1>a, <1>b, <1>1, <3>1, <3>2 DEF CompactInv
  <2> QED
    BY <2>2, <2>3, <2>4, <2>5
<1>3. CASE at = "compact" /\ Heeds(Received)
  <2>1. acknowledged' => answered[3] = "ok"
    <3>1. Reply(3, "ok") => answered[3] = "ok"
      BY <1>1 DEF Reply, Truthful, Requests
    <3>2. acknowledged' = (acknowledged \/ Reply(3, "ok"))
      BY <1>3 DEF Heeds
    <3>3. acknowledged => answered[3] = "ok"
      BY <1>a DEF NotedOK
    <3> QED
      BY <3>1, <3>2, <3>3
  <2>2. compacted' \subseteq really
    BY <1>a, <1>1, <1>3 DEF Heeds, NotedOK, Ours, Truthful
  <2>3. answered[2] = "ok"
    BY <1>a, <1>3 DEF NotedOK
  <2>4. \/ Gives("error")
        \/ Gives("ok") /\ acknowledged /\ compacted' # {}
        \/ UNCHANGED <<at, verdict>>
    BY <1>3 DEF Heeds
  <2>5. NotedOK'
    BY <1>b, <2>1, <2>2, <2>3 DEF NotedOK
  <2>6. EndOK'
    BY <1>a, <1>b, <2>2, <2>3, <2>4 DEF Gives, EndOK, Real, NotedOK
  <2>7. ServerOK'
    BY <1>a, <1>b, <1>3, <2>4 DEF Gives, ServerOK, Places
  <2> QED
    BY <1>a, <1>b, <1>1, <2>5, <2>6, <2>7 DEF CompactInv
<1> QED
  BY <1>b, <1>2, <1>3 DEF Receive, Exchanging

LEMMA CompactionStep ==
  ASSUME CompactInv, Compaction
  PROVE  CompactInv'
<1>a. /\ answered \in [Requests -> {"no", "ok", "error", "other"}]
      /\ PipeOK /\ NotedOK /\ EndOK /\ ServerOK
  BY DEF CompactInv
<1>1. CASE Receive
  BY <1>1, ReceiveStep
<1>2. ASSUME UNCHANGED <<pipe, answered, really, acknowledged, compacted>>,
             EndOK', ServerOK', at' # "compact" \/ at = "compact"
      PROVE  CompactInv'
  BY <1>a, <1>2 DEF CompactInv, PipeOK, Truthful, NotedOK
<1>3. CASE NothingToCompact \/ StartServer
  <2>1. /\ UNCHANGED <<pipe, answered, really, acknowledged, compacted, verdict>>
        /\ at = "idle" /\ at' \in {"started", "done"}
        /\ at' = "done" => proc' = proc
        /\ result'.ok => result.ok
    BY <1>3 DEF NothingToCompact, StartServer, serverVars, clientVars, procVars, Starts, Raised
  <2>2. EndOK' /\ ServerOK'
    BY <1>a, <2>1 DEF EndOK, Real, ServerOK, Places
  <2> QED
    BY <1>2, <2>1, <2>2
<1>4. CASE ServerPid \/ GracePasses \/ DeadlinePasses \/ Breaks
  <2>1. /\ UNCHANGED <<pipe, answered, really, acknowledged, compacted, result>>
        /\ at \in Exchanging \cup {"started"}
        /\ at' \in {"initialize", "ending"}
        /\ \/ verdict' \in {verdict, "raised", "timeout", "error"}
           \/ at = "compact" /\ compacted # {} /\ acknowledged
    BY <1>4 DEF ServerPid, GracePasses, DeadlinePasses, Breaks, Gives, serverVars, clientVars,
       Exchanging
  <2>2. EndOK'
    BY <1>a, <2>1 DEF EndOK, Real, NotedOK
  <2>3. ServerOK'
    BY <1>a, <2>1 DEF ServerOK, Places, Exchanging
  <2> QED
    BY <1>2, <2>1, <2>2, <2>3
<1>5. CASE Kill
  <2>1. /\ UNCHANGED <<pipe, answered, really, acknowledged, compacted, verdict, result, at>>
        /\ at = "ending" /\ proc' = "killed"
    BY <1>5 DEF Kill, serverVars, clientVars
  <2>2. EndOK' /\ ServerOK'
    BY <1>a, <2>1 DEF EndOK, Real, ServerOK, Places
  <2> QED
    BY <1>2, <2>1, <2>2
<1>6. CASE Leave
  <2>1. /\ UNCHANGED <<pipe, answered, really, acknowledged, compacted, verdict, proc>>
        /\ at' = "done" /\ proc # "alive"
    BY <1>6 DEF Leave, serverVars, clientVars, procVars
  <2>2. result'.ok => verdict = "ok"
    <3>1. CASE result' = Raised
      BY <3>1 DEF Raised
    <3>2. CASE result' \in Told
      <4>1. verdict # "raised" /\ result' = [ok |-> verdict = "ok", session |-> claimed, by |-> "agent"]
        BY <3>2 DEF Told
      <4> QED
        BY <4>1
    <3> QED
      BY <1>6, <3>1, <3>2 DEF Leave
  <2>3. EndOK'
    BY <1>a, <2>1, <2>2 DEF EndOK, Real
  <2>4. ServerOK'
    BY <1>a, <2>1 DEF ServerOK, Places
  <2> QED
    BY <1>2, <2>1, <2>3, <2>4
<1> QED
  BY <1>1, <1>3, <1>4, <1>5, <1>6 DEF Compaction

-----------------------------------------------------------------------------
(* The invariant and the theorems. *)

LEMMA InvStep == Inv /\ [Next]_vars => Inv'
<1> SUFFICES ASSUME Inv, [Next]_vars PROVE Inv'
  OBVIOUS
<1>1. op' = op
  BY DEF Next, Execute, Server, Same, Compaction, NothingToCompact, StartServer, ServerPid,
     Receive, GracePasses, DeadlinePasses, Breaks, Kill, Leave, compactVars, vars
<1>2. ASSUME op = "compact"
      PROVE  CompactInv'
  <2>a. CompactInv
    BY <1>2 DEF Inv
  <2>1. CASE Compaction
    BY <2>a, <2>1, CompactionStep
  <2>2. CASE Server
    BY <2>a, <2>2, ServerStep
  <2>3. CASE UNCHANGED <<at, result, compactVars>> /\ proc' \in {proc, "exited"}
                /\ (at = "idle" => proc' = proc)
    <3>1. UNCHANGED <<at, result, pipe, answered, really, acknowledged, compacted, verdict>>
      BY <2>3 DEF compactVars, serverVars, clientVars
    <3>2. PipeOK'
      BY <2>a, <3>1 DEF CompactInv, PipeOK, Truthful
    <3>3. NotedOK' /\ EndOK'
      BY <2>a, <3>1 DEF CompactInv, NotedOK, EndOK, Real
    <3>4. ServerOK'
      BY <2>a, <2>3, <3>1 DEF CompactInv, ServerOK
    <3> QED
      BY <2>a, <3>1, <3>2, <3>3, <3>4 DEF CompactInv
  <2>4. CASE (ProcEnds \/ HelperEnds) /\ UNCHANGED compactVars
    BY <2>a, <2>3, <2>4 DEF ProcEnds, HelperEnds, CompactInv, ServerOK
  <2>5. CASE UNCHANGED vars
    BY <2>3, <2>5 DEF vars, procVars
  <2> QED
    BY <1>2, <2>1, <2>2, <2>4, <2>5 DEF Next, Execute
<1> QED
  BY <1>1, <1>2 DEF Inv

LEMMA Invariance == Spec => []Inv
<1>1. Init => Inv
  BY InvInit
<1>2. Inv /\ [Next]_vars => Inv'
  BY InvStep
<1> QED
  BY <1>1, <1>2, PTL DEF Spec

\* agents/compact.py reports a success only of a session that the server took
\* up and has in truth compacted, whatever order its messages come in.
THEOREM CompactionIsReal == Spec => []SuccessIsReal
<1>1. Inv => SuccessIsReal
  BY DEF Inv, CompactInv, EndOK, Real, SuccessIsReal
<1> QED
  BY <1>1, Invariance, PTL

\* The finally clause of agents/compact.py leaves no server behind, however
\* the exchange ends.
THEOREM ServerIsGone == Spec => []NoServerLeft
<1>1. Inv => NoServerLeft
  BY DEF Inv, CompactInv, ServerOK, NoServerLeft
<1> QED
  BY <1>1, Invariance, PTL

-----------------------------------------------------------------------------
(* The lines of a text. *)

Bytes == Ids \cup {NL}

\* Every set of numbers has a least one.
LEMMA Least ==
  ASSUME NEW T, T \subseteq Nat, T # {}
  PROVE  \E x \in T : \A y \in T : x <= y
<1> DEFINE R == {ss \in Nat \X Nat : ss[1] < ss[2]}
<1>1. IsWellFoundedOn(R, Nat)
  BY NatLessThanWellFounded DEF OpToRel
<1>2. \A a, b \in Nat : a < b => <<a, b>> \in R
  OBVIOUS
<1> HIDE DEF R
<1>3. PICK x \in T : \A y \in T : ~ (<<y, x>> \in R)
  BY <1>1, WFMin
<1>4. ASSUME NEW y \in T PROVE x <= y
  <2>1. ~ (y < x)
    BY <1>2, <1>3
  <2> QED
    BY <2>1
<1> QED
  BY <1>4

\* find(b"\n") finds the first one.
LEMMA NewlineIsFirst ==
  ASSUME NEW s \in Seq(Bytes), HasNewline(s)
  PROVE  /\ Newline(s) \in 1 .. Len(s) /\ s[Newline(s)] = NL
         /\ \A j \in 1 .. Newline(s) - 1 : s[j] # NL
<1> DEFINE T == {i \in DOMAIN s : s[i] = NL}
<1>1. T \subseteq Nat /\ T # {} /\ DOMAIN s = 1 .. Len(s)
  BY DEF HasNewline
<1>2. PICK x \in T : \A y \in T : x <= y
  BY <1>1, Least
<1>3. x \in DOMAIN s /\ s[x] = NL /\ \A j \in 1 .. x - 1 : s[j] # NL
  BY <1>1, <1>2
<1>4. /\ Newline(s) \in DOMAIN s /\ s[Newline(s)] = NL
      /\ \A j \in 1 .. Newline(s) - 1 : s[j] # NL
  BY <1>3 DEF Newline
<1> QED
  BY <1>1, <1>4

\* The lines of the first bytes do not depend on the bytes that follow.
LEMMA SameLines ==
  ASSUME NEW s, NEW t, NEW n \in Nat, \A i \in 1 .. n : s[i] = t[i]
  PROVE  LinesTo(s, n) = LinesTo(t, n)
<1>1. ASSUME NEW line \in [from : 1 .. n, end : 1 .. n]
      PROVE  /\ s[line.end] = t[line.end]
             /\ Undivided(s, line) <=> Undivided(t, line)
  BY DEF Undivided
<1> QED
  BY <1>1 DEF LinesTo

LEMMA SameContent ==
  ASSUME NEW s, NEW t, NEW line, line.from \in Nat, line.end \in Nat,
         \A i \in line.from .. line.end - 1 : s[i] = t[i]
  PROVE  Content(s, line) = Content(t, line)
<1> DEFINE m == line.from
           n == line.end - 1
           S == {s[i] : i \in m .. n}
           u == SubSeq(s, m, n)
           v == SubSeq(t, m, n)
<1>1. m \in Int /\ n \in Int /\ \A i \in m .. n : s[i] \in S /\ t[i] \in S
  OBVIOUS
<1> HIDE DEF m, n, S
<1>2. /\ u \in Seq(S) /\ Len(u) = IF m <= n THEN n - m + 1 ELSE 0
      /\ \A i \in 1 .. n - m + 1 : u[i] = s[m + i - 1]
  BY <1>1, SubSeqProperties
<1>3. /\ v \in Seq(S) /\ Len(v) = IF m <= n THEN n - m + 1 ELSE 0
      /\ \A i \in 1 .. n - m + 1 : v[i] = t[m + i - 1]
  BY <1>1, SubSeqProperties
<1>4. \A i \in 1 .. n - m + 1 : s[m + i - 1] = t[m + i - 1]
  BY <1>1 DEF m, n
<1> HIDE DEF u, v
<1>5. Len(u) = Len(v) /\ \A i \in 1 .. Len(u) : u[i] = v[i]
  <2>1. Len(u) = Len(v) /\ \A i \in 1 .. Len(u) : i \in 1 .. n - m + 1
    BY <1>1, <1>2, <1>3
  <2>2. ASSUME NEW i \in 1 .. n - m + 1 PROVE u[i] = v[i]
    BY <1>2, <1>3, <1>4
  <2> QED
    BY <2>1, <2>2
<1>6. u = v
  BY <1>2, <1>3, <1>5, SeqEqual
<1> QED
  BY <1>6 DEF Content, u, v, m, n

\* Bytes that end no line add none.
LEMMA NoNewLine ==
  ASSUME NEW s, NEW p \in Nat, NEW q \in Nat, p <= q,
         \A i \in p + 1 .. q : s[i] # NL
  PROVE  LinesTo(s, q) = LinesTo(s, p)
<1>1. ASSUME NEW line \in LinesTo(s, q) PROVE line \in LinesTo(s, p)
  <2>1. /\ line \in [from : 1 .. q, end : 1 .. q]
        /\ line.from <= line.end /\ s[line.end] = NL
    BY DEF LinesTo
  <2>2. line.end <= p
    BY <2>1
  <2>3. line \in [from : 1 .. p, end : 1 .. p]
    BY <2>1, <2>2
  <2> QED
    BY <2>3 DEF LinesTo
<1>2. ASSUME NEW line \in LinesTo(s, p) PROVE line \in LinesTo(s, q)
  BY DEF LinesTo
<1> QED
  BY <1>1, <1>2

\* A newline ends the line at hand and no other.
LEMMA NextLine ==
  ASSUME NEW s, NEW a \in Nat \ {0}, NEW p \in Nat, NEW q \in Nat,
         a <= p + 1, p < q, a = 1 \/ s[a - 1] = NL,
         \A i \in a .. q - 1 : s[i] # NL, s[q] = NL
  PROVE  LinesTo(s, q) = LinesTo(s, p) \cup {[from |-> a, end |-> q]}
<1> DEFINE new == [from |-> a, end |-> q]
<1>1. new \in LinesTo(s, q)
  BY DEF LinesTo, Undivided
<1>2. ASSUME NEW line \in LinesTo(s, p) PROVE line \in LinesTo(s, q)
  BY DEF LinesTo
<1>3. ASSUME NEW line \in LinesTo(s, q), line \notin LinesTo(s, p)
      PROVE  line = new
  <2>1. /\ line \in [from : 1 .. q, end : 1 .. q]
        /\ line.from <= line.end /\ s[line.end] = NL /\ Undivided(s, line)
    BY DEF LinesTo
  <2>2. line.end > p
    <3> SUFFICES ASSUME line.end <= p PROVE FALSE
      BY <2>1
    <3>1. line \in [from : 1 .. p, end : 1 .. p]
      BY <2>1
    <3> QED
      BY <1>3, <2>1, <3>1 DEF LinesTo
  <2>3. line.end = q
    BY <2>1, <2>2
  <2>4. ~ (line.from < a) /\ ~ (line.from > a)
    BY <2>1, <2>3 DEF Undivided
  <2>5. line.from = a
    BY <2>1, <2>4
  <2> QED
    BY <2>1, <2>3, <2>5
<1> QED
  BY <1>1, <1>2, <1>3

\* The last piece is what is at hand when the text is over.
LEMMA TextIsOver ==
  ASSUME NEW s \in Seq(Bytes), NEW a \in 1 .. Len(s) + 1, a = 1 \/ s[a - 1] = NL,
         \A i \in a .. Len(s) : s[i] # NL
  PROVE  LastPiece(s) =
            IF a <= Len(s) THEN {[from |-> a, end |-> Len(s) + 1]} ELSE {}
<1>1. ASSUME NEW line \in LastPiece(s)
      PROVE  line = [from |-> a, end |-> Len(s) + 1] /\ a <= Len(s)
  <2>1. /\ line \in [from : 1 .. Len(s), end : {Len(s) + 1}]
        /\ Undivided(s, line)
    BY DEF LastPiece
  <2>2. ~ (line.from < a) /\ ~ (line.from > a)
    BY <2>1 DEF Undivided
  <2>3. line.from = a
    BY <2>1, <2>2
  <2> QED
    BY <2>1, <2>3
<1>2. a <= Len(s) => [from |-> a, end |-> Len(s) + 1] \in LastPiece(s)
  BY DEF LastPiece, Undivided
<1> QED
  BY <1>1, <1>2

LEMMA LinesAreFinite ==
  ASSUME NEW s, NEW n \in Nat
  PROVE  /\ IsFiniteSet(LinesTo(s, n))
         /\ IsFiniteSet(Short(LinesTo(s, n)))
         /\ \A line \in LinesTo(s, n) : line.from \in Nat /\ line.end \in 1 .. n
<1> DEFINE Pairs == (1 .. n) \X (1 .. n)
<1>1. IsFiniteSet(Pairs)
  <2>1. IsFiniteSet(1 .. n)
    BY FS_Interval
  <2> QED
    BY <2>1, FS_Product
<1>2. IsFiniteSet(LinesTo(s, n))
  <2> DEFINE f == [pair \in Pairs |-> [from |-> pair[1], end |-> pair[2]]]
  <2>1. [from : 1 .. n, end : 1 .. n] \subseteq {f[pair] : pair \in Pairs}
    <3> SUFFICES ASSUME NEW line \in [from : 1 .. n, end : 1 .. n]
                 PROVE  \E pair \in Pairs : line = f[pair]
      OBVIOUS
    <3>1. <<line.from, line.end>> \in Pairs
      OBVIOUS
    <3>2. line = f[<<line.from, line.end>>]
      BY <3>1
    <3> QED
      BY <3>1, <3>2
  <2>2. IsFiniteSet({f[pair] : pair \in Pairs})
    <3> HIDE DEF Pairs
    <3>1. f \in Surjection(Pairs, {f[pair] : pair \in Pairs})
      BY DEF Surjection
    <3> QED
      BY <1>1, <3>1, FS_Surjection
  <2>3. LinesTo(s, n) \subseteq {f[pair] : pair \in Pairs}
    BY <2>1 DEF LinesTo
  <2> QED
    BY <2>2, <2>3, FS_Subset
<1>3. Short(LinesTo(s, n)) \subseteq LinesTo(s, n)
  BY DEF Short
<1>4. IsFiniteSet(Short(LinesTo(s, n)))
  BY <1>2, <1>3, FS_Subset
<1> QED
  BY <1>2, <1>4 DEF LinesTo

-----------------------------------------------------------------------------
(* The lines that have been parsed. *)

\* A line parsed after the others comes after them.
LEMMA OneMoreInOrder ==
  ASSUME NEW s, NEW p \in Seq(Seq(Bytes)), NEW lines, IsFiniteSet(lines), NEW new,
         new.end \in Nat, \A line \in lines : line.end \in Nat /\ line.end < new.end,
         Content(s, new) \in Seq(Bytes), InOrder(p, s, lines)
  PROVE  InOrder(Append(p, Content(s, new)), s, lines \cup {new})
<1> DEFINE more == lines \cup {new}
           q == Append(p, Content(s, new))
<1>1. /\ q \in Seq(Seq(Bytes)) /\ Len(q) = Len(p) + 1 /\ q[Len(p) + 1] = Content(s, new)
      /\ \A k \in 1 .. Len(p) : q[k] = p[k]
  OBVIOUS
<1>2. new \notin lines /\ Cardinality(more) = Cardinality(lines) + 1 /\ IsFiniteSet(more)
  BY FS_AddElement
<1>3. Len(p) = Cardinality(lines)
  BY DEF InOrder
<1>4. ASSUME NEW line \in more
      PROVE  q[Cardinality(UpTo(line, more))] = Content(s, line)
  <2>1. CASE line = new
    <3>1. UpTo(line, more) = more
      BY <2>1 DEF UpTo
    <3> QED
      BY <1>1, <1>2, <1>3, <2>1, <3>1
  <2>2. CASE line \in lines
    <3> DEFINE k == Cardinality(UpTo(line, lines))
    <3>1. UpTo(line, more) = UpTo(line, lines)
      BY <2>2 DEF UpTo
    <3>2. UpTo(line, lines) \subseteq lines /\ UpTo(line, lines) # {}
      BY <2>2 DEF UpTo
    <3>3. IsFiniteSet(UpTo(line, lines)) /\ k <= Cardinality(lines)
      BY <3>2, FS_Subset
    <3>4. k \in Nat /\ k # 0
      BY <3>2, <3>3, FS_EmptySet, FS_CardinalityType
    <3>5. k \in 1 .. Len(p)
      BY <1>3, <3>3, <3>4
    <3>6. p[k] = Content(s, line)
      BY <2>2 DEF InOrder
    <3> QED
      BY <1>1, <3>1, <3>5, <3>6
  <2> QED
    BY <2>1, <2>2
<1> QED
  BY <1>1, <1>2, <1>3, <1>4 DEF InOrder

\* Lines made of bytes that two texts have in common.
LEMMA SameText ==
  ASSUME NEW s, NEW t, NEW lines,
         \A line \in lines :
            /\ line.from \in Nat /\ line.end \in Nat
            /\ \A i \in line.from .. line.end - 1 : s[i] = t[i]
  PROVE  /\ \A p : InOrder(p, s, lines) => InOrder(p, t, lines)
         /\ \A line \in lines : Names(s, line) = Names(t, line)
         /\ Naming(s, lines) = Naming(t, lines)
<1>1. \A line \in lines : Content(s, line) = Content(t, line)
  BY SameContent
<1> QED
  BY <1>1 DEF InOrder, Names, Naming

\* What has come of the sessions that these lines of the text name.
SessionOf(lines) ==
    LET naming == Naming(text, lines) IN
    /\ claimed # NoSession \/ naming = {} => stored = <<>> /\ session = claimed
    /\ claimed = NoSession /\ naming # {} =>
          \E line \in naming :
             /\ IsFirst(line, naming)
             /\ session = Names(text, line)
             /\ stored = <<session>>
    /\ ~ clash => \A line \in naming : Names(text, line) = session

LEMMA OneMoreSession ==
  ASSUME NEW lines, NEW new, new.end \in Nat,
         \A line \in lines : line.end \in Nat /\ line.end < new.end,
         SessionOf(lines), Parse(Content(text, new)), UNCHANGED <<claimed, text>>
  PROVE  SessionOf(lines \cup {new})'
<1> DEFINE more == lines \cup {new}
           id == Names(text, new)
<1>1. /\ clash' = (clash \/ (id # NoSession /\ Clashes(id)))
      /\ session' = IF Opens(id) THEN id ELSE session
      /\ stored' = IF Opens(id) THEN Append(stored, id) ELSE stored
  BY DEF Parse, Names
<1>2. \A line : Names(text, line)' = Names(text, line)
  BY DEF Names, Content
<1>3. (Naming(text, more))' = Naming(text, more)
  BY <1>2 DEF Naming
<1>4. Naming(text, more) = Naming(text, lines) \cup (IF id = NoSession THEN {} ELSE {new})
  BY DEF Naming
<1>5. Naming(text, lines) \subseteq lines /\ new \notin lines
  BY DEF Naming
<1> DEFINE old == Naming(text, lines)
           now == Naming(text, more)
<1>6. /\ claimed # NoSession \/ old = {} => stored = <<>> /\ session = claimed
      /\ claimed = NoSession /\ old # {} =>
            \E line \in old : IsFirst(line, old) /\ session = Names(text, line) /\ stored = <<session>>
      /\ ~ clash => \A line \in old : Names(text, line) = session
  BY DEF SessionOf
<1>7. \A line \in old : Names(text, line) # NoSession
  BY DEF Naming
<1>8. SUFFICES
      /\ claimed # NoSession \/ now = {} => stored' = <<>> /\ session' = claimed
      /\ claimed = NoSession /\ now # {} =>
            \E line \in now : IsFirst(line, now) /\ session' = Names(text, line) /\ stored' = <<session'>>
      /\ ~ clash' => \A line \in now : Names(text, line) = session'
  BY <1>2, <1>3 DEF SessionOf
<1> HIDE DEF old, now, id
<1>9. CASE id = NoSession
  <2>1. /\ now = old /\ session' = session /\ stored' = stored
        /\ ~ clash' => ~ clash
    BY <1>1, <1>4, <1>9 DEF old, now, Opens
  <2> QED
    BY <1>6, <2>1
<1>10. CASE id # NoSession /\ session = NoSession
  <2>1. claimed = NoSession /\ old = {}
    BY <1>6, <1>7, <1>10
  <2>2. now = {new} /\ session' = id /\ stored' = <<id>>
    <3>1. now = {new}
      BY <1>4, <1>10, <2>1 DEF old, now
    <3>2. stored = <<>>
      BY <1>6, <2>1
    <3> QED
      BY <1>1, <1>10, <3>1, <3>2 DEF Opens
  <2> QED
    BY <2>1, <2>2 DEF IsFirst, id
<1>11. CASE id # NoSession /\ session # NoSession
  <2>1. /\ now = old \cup {new} /\ session' = session /\ stored' = stored
        /\ clash' = (clash \/ id # session)
    BY <1>1, <1>4, <1>11 DEF old, now, Opens, Clashes
  <2>2. claimed = NoSession => old # {}
    BY <1>6, <1>11
  <2>3. ASSUME NEW line \in old, IsFirst(line, old) PROVE line \in now /\ IsFirst(line, now)
    BY <1>5, <2>1, <2>3 DEF IsFirst, old
  <2>4. ~ clash' => \A line \in now : Names(text, line) = session'
    BY <1>6, <2>1 DEF id
  <2> QED
    BY <1>6, <2>1, <2>2, <2>3, <2>4
<1> QED
  BY <1>9, <1>10, <1>11

-----------------------------------------------------------------------------
(* Reading. *)

Offset == Len(text) - Len(remaining)
Done == Short(LinesTo(text, Offset))

\* What is left of the chunk is what is left of the text.
ChunkOK ==
    /\ text \in Seq(Bytes) /\ remaining \in Seq(Bytes)
    /\ Len(remaining) <= Len(text)
    /\ \A i \in 1 .. Len(remaining) : remaining[i] = text[Offset + i]

\* The line at hand starts at a, and the buffer holds all of it so far unless
\* that is too much already.
AtHand(a) ==
    /\ a \in 1 .. Offset + 1
    /\ a = 1 \/ text[a - 1] = NL
    /\ \A i \in a .. Offset : text[i] # NL
    /\ discarding <=> Offset - a + 1 > MaxLine
    /\ buffer = IF discarding THEN <<>> ELSE SubSeq(text, a, Offset)

ParsedOK(lines) ==
    /\ parsed \in Seq(Seq(Bytes))
    /\ InOrder(parsed, text, lines)
    /\ SessionOf(lines)

ReadingOK ==
    /\ ChunkOK
    /\ \E a \in 1 .. Offset + 1 : AtHand(a)
    /\ ParsedOK(Done)

LEMMA OffsetType ==
  ASSUME ChunkOK
  PROVE  Offset \in 0 .. Len(text) /\ Len(text) \in Nat /\ Len(remaining) \in Nat
BY DEF ChunkOK, Offset

\* Nothing was parsed and nothing is.
LEMMA SameParsed ==
  ASSUME NEW lines, ParsedOK(lines), UNCHANGED <<claimed, text, eventVars>>
  PROVE  ParsedOK(lines)'
BY DEF ParsedOK, InOrder, SessionOf, eventVars, Naming, Names, Content, UpTo, IsFirst

LEMMA StillParsed ==
  ASSUME ParsedOK(Done), Done' = Done, UNCHANGED <<claimed, text, eventVars>>
  PROVE  ParsedOK(Done)'
BY DEF ParsedOK, InOrder, SessionOf, eventVars, Naming, Names, Content, UpTo, IsFirst

LEMMA ReadChunkOK ==
  ASSUME ReadingOK, ReadChunk
  PROVE  ReadingOK'
<1>1. PICK n \in 1 .. MaxText - Len(text) : \E chunk \in [1 .. n -> Bytes] :
         text' = text \o chunk /\ remaining' = chunk
  BY DEF ReadChunk, Bytes
<1>2. PICK chunk \in [1 .. n -> Bytes] : text' = text \o chunk /\ remaining' = chunk
  BY <1>1
<1>3. /\ ChunkOK /\ remaining = <<>> /\ Offset = Len(text) /\ Len(text) \in Nat
      /\ UNCHANGED <<claimed, buffer, discarding, eventVars>>
  BY DEF ReadingOK, ChunkOK, Offset, ReadChunk
<1>4. chunk \in Seq(Bytes) /\ Len(chunk) = n /\ n \in Nat
  BY <1>1, <1>3, StreamAssumption
<1>5. /\ text' \in Seq(Bytes) /\ Len(text') = Len(text) + n
      /\ \A i \in 1 .. Len(text) : text'[i] = text[i]
      /\ \A i \in 1 .. n : chunk[i] = text'[Len(text) + i]
  <2>1. text \in Seq(Bytes)
    BY <1>3 DEF ChunkOK
  <2>2. text' \in Seq(Bytes) /\ Len(text') = Len(text) + n
    <3>1. /\ text \o chunk \in Seq(Bytes)
          /\ Len(text \o chunk) = Len(text) + Len(chunk)
      BY <1>4, <2>1
    <3> QED
      BY <1>2, <1>4, <3>1
  <2>3. \A i \in 1 .. Len(text) : text'[i] = text[i]
    BY <1>2, <1>3, <1>4, <2>1
  <2>4. \A i \in 1 .. n : chunk[i] = text'[Len(text) + i]
    BY <1>2, <1>3, <1>4, <2>1
  <2> QED
    BY <2>2, <2>3, <2>4
<1>6. Offset' = Len(text)
  BY <1>2, <1>3, <1>4, <1>5 DEF Offset
<1>7. ChunkOK'
  BY <1>2, <1>3, <1>4, <1>5, <1>6 DEF ChunkOK
<1>8. \E a \in 1 .. Offset' + 1 : AtHand(a)'
  <2>1. PICK a \in 1 .. Offset + 1 : AtHand(a)
    BY DEF ReadingOK
  <2>2. SubSeq(text', a, Len(text)) = SubSeq(text, a, Len(text))
    BY <1>3, <1>5, <2>1
  <2>3. a \in 1 .. Offset' + 1
    BY <1>3, <1>6, <2>1
  <2>4. AtHand(a)'
    BY <1>3, <1>5, <1>6, <2>1, <2>2 DEF AtHand
  <2> QED
    BY <2>3, <2>4
<1>9. ParsedOK(Done)'
  <2>1. PICK lines : lines = Done
    OBVIOUS
  <2>2. Done' = lines
    BY <1>3, <1>5, <1>6, <2>1, SameLines DEF Done, Short
  <2>3. \A line \in lines : line.from \in 1 .. Len(text) /\ line.end \in 1 .. Len(text)
    BY <1>3, <2>1 DEF Done, Short, LinesTo
  <2>4. /\ \A p : InOrder(p, text, lines) => InOrder(p, text', lines)
        /\ \A line \in lines : Names(text, line) = Names(text', line)
        /\ Naming(text, lines) = Naming(text', lines)
    <3>1. PICK s, t : s = text /\ t = text'
      OBVIOUS
    <3>2. \A line \in lines :
             /\ line.from \in Nat /\ line.end \in Nat
             /\ \A i \in line.from .. line.end - 1 : s[i] = t[i]
      BY <1>3, <1>5, <2>3, <3>1
    <3>5. /\ \A p : InOrder(p, s, lines) => InOrder(p, t, lines)
          /\ \A line \in lines : Names(s, line) = Names(t, line)
          /\ Naming(s, lines) = Naming(t, lines)
      BY <3>2, SameText
    <3> QED
      BY <3>1, <3>5
  <2>5. Naming(text, lines) \subseteq lines
    BY DEF Naming
  <2>6. ParsedOK(lines)
    BY <2>1 DEF ReadingOK
  <2>7. parsed' = parsed /\ session' = session /\ clash' = clash /\ stored' = stored
        /\ claimed' = claimed
    BY <1>3 DEF eventVars
  <2>8. SessionOf(lines)'
    BY <2>4, <2>5, <2>6, <2>7 DEF ParsedOK, SessionOf
  <2>9. InOrder(parsed', text', lines)
    BY <2>4, <2>6, <2>7 DEF ParsedOK
  <2> QED
    BY <2>2, <2>6, <2>7, <2>8, <2>9 DEF ParsedOK
<1> QED
  BY <1>7, <1>8, <1>9 DEF ReadingOK

\* No newline in the rest of the chunk.
LEMMA RestOK ==
  ASSUME ReadingOK, ~ HasNewline(remaining), remaining' = <<>>, text' = text,
         claimed' = claimed, UNCHANGED eventVars,
         NEW a, AtHand(a),
         discarding' <=> Len(text) - a + 1 > MaxLine,
         buffer' = IF discarding' THEN <<>> ELSE SubSeq(text, a, Len(text))
  PROVE  ReadingOK'
<1>a. /\ ChunkOK /\ Offset \in 0 .. Len(text) /\ Len(text) \in Nat
      /\ Len(remaining) \in Nat
  BY OffsetType DEF ReadingOK
<1>1. Offset' = Len(text)
  BY <1>a DEF Offset
<1>2. \A i \in Offset + 1 .. Len(text) : text[i] # NL
  <2> SUFFICES ASSUME NEW i \in Offset + 1 .. Len(text) PROVE text[i] # NL
    OBVIOUS
  <2>1. i - Offset \in 1 .. Len(remaining)
    BY <1>a DEF Offset
  <2>2. remaining[i - Offset] = text[i] /\ i - Offset \in DOMAIN remaining
    BY <1>a, <2>1 DEF ChunkOK
  <2> QED
    BY <2>2 DEF HasNewline
<1>3. ChunkOK'
  BY <1>a, <1>1 DEF ChunkOK
<1>4. AtHand(a)'
  BY <1>a, <1>1, <1>2 DEF AtHand
<1>5. Done' = Done
  BY <1>a, <1>1, <1>2, NoNewLine DEF Done, Short
<1>6. ParsedOK(Done)'
  BY <1>5, StillParsed DEF ReadingOK
<1>7. a \in 1 .. Offset' + 1
  BY <1>4 DEF AtHand
<1> QED
  BY <1>3, <1>4, <1>6, <1>7 DEF ReadingOK

\* The next newline of the chunk, and what follows it.
LEMMA AfterNewlineOK ==
  ASSUME ReadingOK, HasNewline(remaining), NEW a, AtHand(a),
         remaining' = AfterNewline(remaining), text' = text
  PROVE  /\ Newline(remaining) \in 1 .. Len(remaining)
         /\ Offset' = Offset + Newline(remaining)
         /\ ChunkOK'
         /\ text[Offset'] = NL /\ \A i \in a .. Offset' - 1 : text[i] # NL
<1>a. /\ ChunkOK /\ Offset \in 0 .. Len(text) /\ Len(text) \in Nat
      /\ Len(remaining) \in Nat /\ remaining \in Seq(Bytes)
  BY OffsetType DEF ReadingOK, ChunkOK
<1> DEFINE n == Newline(remaining)
<1>1. /\ n \in 1 .. Len(remaining) /\ remaining[n] = NL
      /\ \A j \in 1 .. n - 1 : remaining[j] # NL
  BY <1>a, NewlineIsFirst
<1> HIDE DEF n
<1>2. /\ remaining' \in Seq(Bytes) /\ Len(remaining') = Len(remaining) - n
      /\ \A i \in 1 .. Len(remaining) - n : remaining'[i] = remaining[n + i]
  BY <1>a, <1>1 DEF AfterNewline, n
<1>3. Offset' = Offset + n
  BY <1>a, <1>1, <1>2 DEF Offset
<1>4. ChunkOK'
  <2>1. \A i \in 1 .. Len(remaining) - n : remaining'[i] = text[Offset + n + i]
    <3> SUFFICES ASSUME NEW i \in 1 .. Len(remaining) - n
                 PROVE  remaining'[i] = text[Offset + n + i]
      OBVIOUS
    <3>1. n + i \in 1 .. Len(remaining) /\ Offset + (n + i) = Offset + n + i
      BY <1>a, <1>1
    <3>2. remaining[n + i] = text[Offset + (n + i)]
      BY <1>a, <3>1 DEF ChunkOK
    <3> QED
      BY <1>2, <3>1, <3>2
  <2> QED
    BY <1>a, <1>1, <1>2, <1>3, <2>1 DEF ChunkOK
<1>5. text[Offset + n] = NL
  BY <1>a, <1>1 DEF ChunkOK
<1>6. ASSUME NEW i \in a .. Offset + n - 1 PROVE text[i] # NL
  <2>1. CASE i <= Offset
    BY <1>a, <2>1 DEF AtHand
  <2>2. CASE i > Offset
    <3>1. i - Offset \in 1 .. n - 1
      BY <1>a, <1>1, <2>2 DEF AtHand
    <3>2. remaining[i - Offset] = text[i]
      BY <1>a, <1>1, <3>1 DEF ChunkOK, AtHand
    <3> QED
      BY <1>1, <3>1, <3>2
  <2> QED
    BY <1>a, <2>1, <2>2 DEF AtHand
<1> QED
  <2>1. text[Offset'] = NL
    BY <1>3, <1>5
  <2>2. \A i \in a .. Offset' - 1 : text[i] # NL
    BY <1>a, <1>1, <1>3, <1>6
  <2> QED
    BY <1>1, <1>3, <1>4, <2>1, <2>2 DEF n

\* A line parsed after the others.
LEMMA ParseOK ==
  ASSUME NEW lines, IsFiniteSet(lines), ParsedOK(lines),
         NEW new, new.end \in Nat, \A l \in lines : l.end \in Nat /\ l.end < new.end,
         Content(text, new) \in Seq(Bytes), Parse(Content(text, new)),
         UNCHANGED <<claimed, text>>
  PROVE  ParsedOK(lines \cup {new})'
<1>1. PICK s, p, line : s = text /\ p = parsed /\ line = Content(text, new)
  OBVIOUS
<1>2. parsed' = Append(p, line)
  BY <1>1 DEF Parse
<1>3. p \in Seq(Seq(Bytes)) /\ InOrder(p, s, lines)
  BY <1>1 DEF ParsedOK
<1>4. InOrder(Append(p, line), s, lines \cup {new})
  BY <1>1, <1>3, OneMoreInOrder
<1>5. parsed' \in Seq(Seq(Bytes)) /\ InOrder(parsed', text', lines \cup {new})
  BY <1>1, <1>2, <1>3, <1>4
<1>6. SessionOf(lines \cup {new})'
  BY OneMoreSession DEF ParsedOK
<1> QED
  BY <1>5, <1>6 DEF ParsedOK

-----------------------------------------------------------------------------
(* The steps that read. *)

\* After a newline no byte is at hand.
LEMMA NothingAtHand ==
  ASSUME Offset' \in Nat, Offset' > 0, text'[Offset'] = NL,
         ~ discarding', buffer' = <<>>
  PROVE  AtHand(Offset + 1)'
<1>1. ASSUME NEW q \in Nat, q > 0, NEW k, k = q + 1
      PROVE  /\ k \in 1 .. q + 1 /\ k - 1 = q
             /\ \A i \in k .. q : FALSE
             /\ ~ (q - k + 1 > MaxLine)
             /\ \A s : SubSeq(s, k, q) = <<>>
  <2>1. k \in Int /\ q \in Int /\ q < k
    BY <1>1
  <2>2. ASSUME NEW s PROVE SubSeq(s, k, q) = <<>>
    BY <2>1, SubSeqEmpty
  <2>3. ~ (q - k + 1 > MaxLine)
    BY <1>1, StreamAssumption
  <2> QED
    BY <1>1, <2>2, <2>3
<1>2. PICK q, k : q = Offset' /\ k = q + 1
  OBVIOUS
<1>3. q \in Nat /\ q > 0
  BY <1>2
<1>4. /\ k \in 1 .. q + 1 /\ k - 1 = q
      /\ \A i \in k .. q : FALSE
      /\ ~ (q - k + 1 > MaxLine)
      /\ \A s : SubSeq(s, k, q) = <<>>
  BY <1>1, <1>2, <1>3
<1>5. SubSeq(text', k, q) = <<>>
  BY <1>4
<1>6. text'[k - 1] = NL
  BY <1>2, <1>4
<1>7. AtHand(k)'
  BY <1>2, <1>4, <1>5, <1>6 DEF AtHand
<1> QED
  BY <1>2, <1>7

LEMMA SkipRestOK ==
  ASSUME ReadingOK, SkipRest
  PROVE  ReadingOK'
<1>1. PICK a \in 1 .. Offset + 1 : AtHand(a)
  BY DEF ReadingOK
<1>2. /\ text' = text /\ buffer' = buffer /\ claimed' = claimed /\ UNCHANGED eventVars
      /\ discarding /\ discarding' = ~ HasNewline(remaining) /\ buffer = <<>>
      /\ remaining' = IF discarding' THEN <<>> ELSE AfterNewline(remaining)
  BY <1>1 DEF SkipRest, AtHand
<1>3. Offset \in 0 .. Len(text) /\ Len(text) \in Nat /\ MaxLine \in Nat
  BY OffsetType, StreamAssumption DEF ReadingOK
<1>4. a \in 1 .. Offset + 1 /\ Offset - a + 1 > MaxLine
  BY <1>1, <1>2 DEF AtHand
<1>5. CASE ~ HasNewline(remaining)
  <2>1. Len(text) - a + 1 > MaxLine
    <3>1. PICK p, l : p = Offset /\ l = Len(text)
      OBVIOUS
    <3> QED
      BY <1>3, <1>4, <3>1
  <2> QED
    BY <1>1, <1>2, <1>5, <2>1, RestOK
<1>6. CASE HasNewline(remaining)
  <2>1. PICK n, q : n = Newline(remaining) /\ q = Offset'
    OBVIOUS
  <2>2. /\ n \in Nat \ {0} /\ q = Offset + n
        /\ ChunkOK' /\ text[q] = NL /\ \A i \in a .. q - 1 : text[i] # NL
    <3>1. Len(remaining) \in Nat
      BY OffsetType DEF ReadingOK
    <3>2. remaining' = AfterNewline(remaining)
      BY <1>2, <1>6
    <3>3. /\ n \in 1 .. Len(remaining) /\ q = Offset + n
          /\ ChunkOK' /\ text[q] = NL /\ \A i \in a .. q - 1 : text[i] # NL
      BY <1>1, <1>2, <1>6, <2>1, <3>2, AfterNewlineOK
    <3>4. n \in Nat \ {0}
      BY <3>1, <3>3
    <3> QED
      BY <3>3, <3>4
  <2>3. AtHand(q + 1)'
    <3>1. q \in Nat /\ q > 0
      BY <1>3, <2>2
    <3> QED
      BY <1>2, <1>6, <2>1, <2>2, <3>1, NothingAtHand
  <2>4. Done' = Done
    <3>1. LinesTo(text, q) = LinesTo(text, Offset) \cup {[from |-> a, end |-> q]}
      BY <1>1, <1>3, <1>4, <2>2, NextLine DEF AtHand
    <3>2. ~ (q - a <= MaxLine)
      BY <1>3, <1>4, <2>2
    <3> QED
      BY <1>2, <2>1, <3>1, <3>2 DEF Done, Short
  <2>5. ParsedOK(Done)'
    BY <1>2, <2>4, StillParsed DEF ReadingOK
  <2>6. q + 1 \in 1 .. Offset' + 1
    BY <1>3, <2>1, <2>2
  <2> QED
    BY <2>2, <2>3, <2>5, <2>6 DEF ReadingOK
<1> QED
  BY <1>5, <1>6

\* A line at hand: the buffer, and what follows it in the chunk.
LEMMA LineAtHand ==
  ASSUME ReadingOK, ~ discarding, NEW a, AtHand(a), NEW m \in 0 .. Len(remaining)
  PROVE  LET line == buffer \o SubSeq(remaining, 1, m) IN
         /\ line = SubSeq(text, a, Offset + m)
         /\ line \in Seq(Bytes) /\ Len(line) = Offset + m - a + 1
<1>a. /\ ChunkOK /\ Offset \in 0 .. Len(text) /\ Len(text) \in Nat
      /\ Len(remaining) \in Nat /\ text \in Seq(Bytes) /\ remaining \in Seq(Bytes)
      /\ a \in 1 .. Offset + 1
  BY OffsetType DEF ReadingOK, ChunkOK, AtHand
<1>b. Offset + m <= Len(text)
  BY <1>a DEF Offset
<1>1. PICK p : p = Offset
  OBVIOUS
<1>2. PICK s : s = text
  OBVIOUS
<1>3. PICK r : r = remaining
  OBVIOUS
<1> DEFINE u == SubSeq(s, a, p)
           w == SubSeq(r, 1, m)
           v == SubSeq(s, a, p + m)
<1>4. /\ s \in Seq(Bytes) /\ r \in Seq(Bytes) /\ p \in Nat /\ m \in 0 .. Len(r)
      /\ p + m <= Len(s) /\ a \in 1 .. p + 1 /\ Len(s) \in Nat /\ Len(r) \in Nat
      /\ \A i \in 1 .. Len(r) : r[i] = s[p + i]
  BY <1>a, <1>b, <1>1, <1>2, <1>3 DEF ChunkOK
<1>5. buffer = u
  BY <1>1, <1>2 DEF AtHand
<1>6. /\ u \in Seq(Bytes) /\ Len(u) = p - a + 1
      /\ \A i \in 1 .. p - a + 1 : u[i] = s[a + i - 1]
  BY <1>4
<1>7. /\ w \in Seq(Bytes) /\ Len(w) = m
      /\ \A i \in 1 .. m : w[i] = r[i]
  BY <1>4
<1>8. /\ v \in Seq(Bytes) /\ Len(v) = p + m - a + 1
      /\ \A i \in 1 .. p + m - a + 1 : v[i] = s[a + i - 1]
  BY <1>4
<1> HIDE DEF u, v, w
<1>c. p \in Int /\ m \in Int /\ a \in Int
  BY <1>4
<1>9. /\ u \o w \in Seq(Bytes) /\ Len(u \o w) = p + m - a + 1
      /\ \A i \in 1 .. p + m - a + 1 :
            (u \o w)[i] = IF i <= p - a + 1 THEN u[i] ELSE w[i - (p - a + 1)]
  <2>1. /\ u \o w \in Seq(Bytes) /\ Len(u \o w) = Len(u) + Len(w)
        /\ \A i \in 1 .. Len(u) + Len(w) :
              (u \o w)[i] = IF i <= Len(u) THEN u[i] ELSE w[i - Len(u)]
    BY <1>6, <1>7, ConcatProperties
  <2>2. (p - a + 1) + m = p + m - a + 1
    BY <1>c
  <2> QED
    BY <1>6, <1>7, <2>1, <2>2
<1>10. ASSUME NEW i \in 1 .. p + m - a + 1 PROVE (u \o w)[i] = v[i]
  <2>1. CASE i <= p - a + 1
    <3>1. (u \o w)[i] = u[i]
      BY <1>9, <2>1
    <3> QED
      BY <1>4, <1>6, <1>8, <2>1, <3>1
  <2>2. CASE i > p - a + 1
    <3>1. PICK j : j = i - (p - a + 1)
      OBVIOUS
    <3>2. j \in 1 .. m /\ p + j = a + i - 1
      BY <1>c, <2>2, <3>1
    <3>3. (u \o w)[i] = w[j]
      BY <1>c, <1>9, <2>2, <3>1
    <3>4. w[j] = s[p + j]
      <4>1. j \in 1 .. Len(r)
        <5>1. PICK l : l = Len(r)
          OBVIOUS
        <5> QED
          BY <1>4, <3>2, <5>1
      <4> QED
        BY <1>4, <1>7, <3>2, <4>1
    <3> QED
      BY <1>8, <3>2, <3>3, <3>4
  <2>3. i \in Int /\ p - a + 1 \in Int
    BY <1>c
  <2>4. i <= p - a + 1 \/ i > p - a + 1
    BY <2>3
  <2> QED
    BY <2>1, <2>2, <2>4
<1>11. u \o w = v
  BY <1>8, <1>9, <1>10, SeqEqual
<1> QED
  BY <1>1, <1>2, <1>3, <1>4, <1>5, <1>8, <1>11 DEF v, w

LEMMA KeepRestOK ==
  ASSUME ReadingOK, KeepRest
  PROVE  ReadingOK'
<1>1. PICK a \in 1 .. Offset + 1 : AtHand(a)
  BY DEF ReadingOK
<1>2. /\ text' = text /\ claimed' = claimed /\ UNCHANGED eventVars
      /\ ~ discarding /\ ~ HasNewline(remaining) /\ remaining' = <<>>
      /\ discarding' = (Len(buffer) + Len(remaining) > MaxLine)
      /\ buffer' = IF discarding' THEN <<>> ELSE buffer \o remaining
  BY DEF KeepRest
<1>3. /\ Offset \in 0 .. Len(text) /\ Len(text) \in Nat /\ Len(remaining) \in Nat
      /\ remaining \in Seq(Bytes) /\ a \in 1 .. Offset + 1
  BY <1>1, OffsetType DEF ReadingOK, ChunkOK, AtHand
<1>4. SubSeq(remaining, 1, Len(remaining)) = remaining
  BY <1>3
<1>5. Offset + Len(remaining) = Len(text)
  BY <1>3 DEF Offset
<1>6. buffer \o remaining = SubSeq(text, a, Len(text))
  <2>1. Len(remaining) \in 0 .. Len(remaining)
    BY <1>3
  <2> QED
    BY <1>1, <1>2, <1>4, <1>5, <2>1, LineAtHand
<1>7. Len(buffer) = Offset - a + 1
  <2>1. 0 \in 0 .. Len(remaining)
    BY <1>3
  <2>2. Len(SubSeq(text, a, Offset)) = Offset - a + 1
    BY <1>3 DEF ReadingOK, ChunkOK
  <2> QED
    BY <1>1, <1>2, <2>2 DEF AtHand
<1>8. discarding' <=> Len(text) - a + 1 > MaxLine
  <2>1. PICK p, l, r, b : p = Offset /\ l = Len(text) /\ r = Len(remaining) /\ b = Len(buffer)
    OBVIOUS
  <2>2. b + r = l - a + 1
    BY <1>3, <1>5, <1>7, <2>1
  <2> QED
    BY <1>2, <2>1, <2>2
<1> QED
  BY <1>1, <1>2, <1>6, <1>8, RestOK

LEMMA TakeLineOK ==
  ASSUME ReadingOK, TakeLine
  PROVE  ReadingOK'
<1>1. PICK a \in 1 .. Offset + 1 : AtHand(a)
  BY DEF ReadingOK
<1>2. PICK n, p, q : n = Newline(remaining) /\ p = Offset /\ q = Offset'
  OBVIOUS
<1> DEFINE line == buffer \o SubSeq(remaining, 1, n - 1)
           new == [from |-> a, end |-> q]
<1>3. /\ text' = text /\ claimed' = claimed
      /\ ~ discarding /\ discarding' = discarding /\ HasNewline(remaining)
      /\ buffer' = <<>> /\ remaining' = AfterNewline(remaining)
      /\ IF Len(line) <= MaxLine THEN Parse(line) ELSE UNCHANGED eventVars
  BY <1>2 DEF TakeLine
<1>4. /\ p \in 0 .. Len(text) /\ Len(text) \in Nat /\ Len(remaining) \in Nat
      /\ a \in 1 .. p + 1 /\ a \in Nat \ {0} /\ MaxLine \in Nat \ {0}
      /\ a = 1 \/ text[a - 1] = NL
  BY <1>1, <1>2, OffsetType, StreamAssumption DEF ReadingOK, AtHand
<1>5. /\ n \in 1 .. Len(remaining) /\ q = p + n
      /\ ChunkOK' /\ text[q] = NL /\ \A i \in a .. q - 1 : text[i] # NL
  BY <1>1, <1>2, <1>3, AfterNewlineOK
<1>6. AtHand(q + 1)'
  <2>1. q \in Nat /\ q > 0
    BY <1>4, <1>5
  <2> QED
    BY <1>2, <1>3, <1>5, <2>1, NothingAtHand
<1>7. q + 1 \in 1 .. Offset' + 1
  BY <1>2, <1>4, <1>5
<1>8. /\ line = Content(text, new) /\ line \in Seq(Bytes) /\ Len(line) = q - a
  <2>1. n - 1 \in 0 .. Len(remaining)
    BY <1>4, <1>5
  <2>2. /\ line = SubSeq(text, a, p + (n - 1)) /\ line \in Seq(Bytes)
        /\ Len(line) = p + (n - 1) - a + 1
    BY <1>1, <1>2, <1>3, <2>1, LineAtHand
  <2>3. p + (n - 1) = q - 1 /\ p + (n - 1) - a + 1 = q - a
    BY <1>4, <1>5
  <2> QED
    BY <2>2, <2>3 DEF Content
<1> HIDE DEF line
<1>9. LinesTo(text, q) = LinesTo(text, p) \cup {new}
  BY <1>4, <1>5, NextLine
<1>10. Done' = Short(LinesTo(text, q)) /\ Done = Short(LinesTo(text, p))
  BY <1>2, <1>3 DEF Done
<1>11. CASE ~ (Len(line) <= MaxLine)
  <2>1. Done' = Done
    BY <1>8, <1>9, <1>10, <1>11 DEF Short
  <2> QED
    BY <1>3, <1>5, <1>6, <1>7, <1>11, <2>1, StillParsed DEF ReadingOK
<1>12. CASE Len(line) <= MaxLine
  <2>1. PICK lines : lines = Done
    OBVIOUS
  <2>2. Done' = lines \cup {new}
    BY <1>8, <1>9, <1>10, <1>12, <2>1 DEF Short
  <2>3. /\ IsFiniteSet(lines)
        /\ \A l \in lines : l.end \in Nat /\ l.end < q
    <3>1. p \in Nat
      BY <1>4
    <3>2. /\ IsFiniteSet(lines)
          /\ \A l \in LinesTo(text, p) : l.from \in Nat /\ l.end \in 1 .. p
      BY <1>10, <2>1, <3>1, LinesAreFinite
    <3>3. lines \subseteq LinesTo(text, p)
      BY <1>10, <2>1 DEF Short
    <3> QED
      BY <1>4, <1>5, <3>2, <3>3
  <2>4. new.end \in Nat /\ new.end = q
    BY <1>4, <1>5
  <2>5. ParsedOK(lines)
    BY <2>1 DEF ReadingOK
  <2>6. Parse(Content(text, new)) /\ Content(text, new) \in Seq(Bytes)
    BY <1>3, <1>8, <1>12
  <2>7. ParsedOK(lines \cup {new})'
    BY <1>3, <2>3, <2>4, <2>5, <2>6, ParseOK
  <2>8. ParsedOK(Done)'
    BY <2>2, <2>7 DEF ParsedOK
  <2> QED
    BY <1>5, <1>6, <1>7, <2>8 DEF ReadingOK
<1> QED
  BY <1>11, <1>12

\* The output is over and all of it has been parsed.
OverOK == text \in Seq(Bytes) /\ ParsedOK(Events(text, TRUE))

LEMMA EofOK ==
  ASSUME ReadingOK, Eof
  PROVE  OverOK'
<1>1. PICK a \in 1 .. Offset + 1 : AtHand(a)
  BY DEF ReadingOK
<1>2. /\ text' = text /\ claimed' = claimed /\ remaining = <<>>
      /\ IF buffer # <<>> /\ ~ discarding THEN Parse(buffer) ELSE UNCHANGED eventVars
  BY DEF Eof, chunkVars
<1>3. PICK n, lines : n = Len(text) /\ lines = Done
  OBVIOUS
<1>4. Offset = n /\ n \in Nat /\ text \in Seq(Bytes)
  BY <1>2, <1>3 DEF ReadingOK, ChunkOK, Offset
<1>5. /\ a \in 1 .. n + 1 /\ MaxLine \in Nat
      /\ a = 1 \/ text[a - 1] = NL
      /\ \A i \in a .. n : text[i] # NL
      /\ discarding <=> n - a + 1 > MaxLine
      /\ ~ discarding => buffer = SubSeq(text, a, n)
  BY <1>1, <1>4, StreamAssumption DEF AtHand
<1> DEFINE new == [from |-> a, end |-> n + 1]
<1>6. LastPiece(text) = IF a <= n THEN {new} ELSE {}
  BY <1>3, <1>4, <1>5, TextIsOver
<1>7. Events(text, TRUE) = lines \cup Short(IF a <= n THEN {new} ELSE {})
  BY <1>3, <1>4, <1>6 DEF Events, Done, Short
<1>b. /\ new.from = a /\ new.end = n + 1 /\ n + 1 - 1 = n
      /\ Content(text, new) = SubSeq(text, a, n)
      /\ Short({new}) = IF n + 1 - a <= MaxLine THEN {new} ELSE {}
      /\ Short({}) = {}
  <2>1. /\ new.from = a /\ new.end = n + 1 /\ new.end - 1 = n
        /\ n + 1 - 1 = n /\ new.end - new.from = n + 1 - a
    BY <1>4
  <2> HIDE DEF new
  <2>2. Content(text, new) = SubSeq(text, a, n)
    BY <2>1 DEF Content
  <2>3. Short({new}) = {line \in {new} : n + 1 - a <= MaxLine}
    BY <2>1 DEF Short
  <2>4. Short({}) = {}
    BY DEF Short
  <2> QED
    BY <2>1, <2>2, <2>3, <2>4
<1> HIDE DEF new
<1>8. ParsedOK(lines)
  BY <1>3 DEF ReadingOK
<1>9. CASE buffer # <<>> /\ ~ discarding
  <2>1. a <= n
    <3> SUFFICES ASSUME n < a PROVE FALSE
      BY <1>4, <1>5
    <3>1. \A t : SubSeq(t, a, n) = <<>>
      BY <1>4, <1>5, SubSeqEmpty
    <3> QED
      BY <1>5, <1>9, <3>1
  <2>2. Events(text, TRUE) = lines \cup {new}
    <3>1. n + 1 - a <= MaxLine
      BY <1>4, <1>5, <1>9
    <3> QED
      BY <1>7, <1>b, <2>1, <3>1
  <2>3. /\ IsFiniteSet(lines)
        /\ \A l \in lines : l.end \in Nat /\ l.end < n + 1
    <3>1. /\ IsFiniteSet(lines)
          /\ \A l \in LinesTo(text, n) : l.from \in Nat /\ l.end \in 1 .. n
      BY <1>3, <1>4, LinesAreFinite DEF Done
    <3>2. lines \subseteq LinesTo(text, n)
      BY <1>3, <1>4 DEF Done, Short
    <3> QED
      BY <1>4, <3>1, <3>2
  <2>4. buffer = Content(text, new)
    BY <1>5, <1>9, <1>b
  <2>5. Content(text, new) \in Seq(Bytes)
    <3>1. \A s \in Seq(Bytes) : Len(s) = n => SubSeq(s, a, n) \in Seq(Bytes)
      BY <1>4, <1>5
    <3> QED
      BY <1>3, <1>4, <1>5, <1>9, <2>4, <3>1
  <2>6. new.end \in Nat /\ \A l \in lines : l.end \in Nat /\ l.end < new.end
    BY <1>4, <1>b, <2>3
  <2>7. ParsedOK(lines \cup {new})'
    BY <1>2, <1>8, <1>9, <2>3, <2>4, <2>5, <2>6, ParseOK
  <2>8. Events(text', TRUE) = lines \cup {new}
    BY <1>2, <2>2
  <2>9. ParsedOK(Events(text, TRUE))'
    BY <2>7, <2>8 DEF ParsedOK
  <2> QED
    BY <1>2, <1>4, <2>9 DEF OverOK
<1>10. CASE ~ (buffer # <<>> /\ ~ discarding)
  <2>1. Events(text, TRUE) = lines
    <3>1. CASE discarding
      <4>1. ~ (n + 1 - a <= MaxLine)
        BY <1>4, <1>5, <3>1
      <4> QED
        BY <1>7, <1>b, <4>1
    <3>2. CASE ~ discarding
      <4>1. SubSeq(text, a, n) = <<>>
        BY <1>5, <1>10, <3>2
      <4>2. ~ (a <= n)
        <5>1. \A s \in Seq(Bytes) : Len(s) = n /\ a <= n => Len(SubSeq(s, a, n)) = n - a + 1
          BY <1>4, <1>5
        <5>2. a <= n => n - a + 1 # 0
          BY <1>4, <1>5
        <5>3. Len(<<>>) = 0
          OBVIOUS
        <5> QED
          BY <1>3, <1>4, <4>1, <5>1, <5>2, <5>3
      <4> QED
        BY <1>7, <1>b, <4>2
    <3> QED
      BY <3>1, <3>2
  <2>2. ParsedOK(lines)'
    BY <1>2, <1>8, <1>10, SameParsed
  <2>3. Events(text', TRUE) = lines
    BY <1>2, <2>1
  <2>4. ParsedOK(Events(text, TRUE))'
    BY <2>2, <2>3 DEF ParsedOK
  <2> QED
    BY <1>2, <1>4, <2>4 DEF OverOK
<1> QED
  BY <1>9, <1>10

\* Nothing has been read.
Fresh ==
    /\ text = <<>> /\ remaining = <<>> /\ buffer = <<>> /\ discarding = FALSE
    /\ parsed = <<>> /\ session = claimed /\ clash = FALSE /\ stored = <<>>

LEMMA NoLines == LinesTo(<<>>, 0) = {} /\ Events(<<>>, TRUE) = {} /\ Short({}) = {}
<1>1. LinesTo(<<>>, 0) = {}
  <2> SUFFICES ASSUME NEW line \in LinesTo(<<>>, 0) PROVE FALSE
    OBVIOUS
  <2>1. line.from \in 1 .. 0
    BY DEF LinesTo
  <2> QED
    BY <2>1
<1>2. LastPiece(<<>>) = {}
  <2> SUFFICES ASSUME NEW line \in LastPiece(<<>>) PROVE FALSE
    OBVIOUS
  <2>1. line.from \in 1 .. 0
    BY DEF LastPiece
  <2> QED
    BY <2>1
<1>3. Len(<<>>) = 0
  OBVIOUS
<1> QED
  BY <1>1, <1>2, <1>3 DEF Events, Short

LEMMA FreshOK ==
  ASSUME Fresh
  PROVE  ReadingOK
<1>1. /\ text = <<>> /\ remaining = <<>> /\ Offset = 0 /\ <<>> \in Seq(Bytes)
      /\ Len(<<>>) = 0
  BY DEF Fresh, Offset
<1>2. ChunkOK
  BY <1>1 DEF ChunkOK
<1>3. AtHand(1)
  <2>1. /\ 1 \in 1 .. 0 + 1 /\ \A i \in 1 .. 0 : FALSE
        /\ ~ (0 - 1 + 1 > MaxLine)
    BY StreamAssumption
  <2>2. \A s : SubSeq(s, 1, 0) = <<>>
    BY SubSeqEmpty
  <2> QED
    BY <1>1, <2>1, <2>2 DEF AtHand, Fresh
<1>4. Done = {} /\ Cardinality({}) = 0
  BY <1>1, NoLines, FS_EmptySet DEF Done
<1>5. SessionOf({}) /\ InOrder(parsed, text, {}) /\ parsed \in Seq(Seq(Bytes))
  BY <1>1, <1>4 DEF SessionOf, InOrder, Naming, Fresh
<1> QED
  BY <1>1, <1>2, <1>3, <1>4, <1>5 DEF ReadingOK, ParsedOK

-----------------------------------------------------------------------------
(* The inductive invariant of a message's run. *)

\* A result says what the session variables of the run say.
ResultOK ==
    /\ op = "message" =>
          /\ SessionOf(Events(text, TRUE))
          /\ result.session = session /\ (result.ok => ~ clash)
    /\ op = "compact" => result.session = claimed

StreamInv ==
    /\ op = "message" => at \in {"idle", "spawned", "reading", "eof", "done"}
    /\ op = "compact" \/ at \in {"idle", "spawned"} => Fresh
    /\ op = "message" /\ at = "reading" => ReadingOK
    /\ op = "message" /\ at = "eof" => OverOK
    /\ result.by = "agent" => at = "done" /\ ResultOK

LEMMA StreamInvInit == Init => StreamInv
<1> SUFFICES ASSUME Init PROVE StreamInv
  OBVIOUS
<1>1. Fresh /\ at = "idle" /\ result.by = "nobody"
  BY DEF Init, StreamInit, Fresh, NoResult
<1> QED
  BY <1>1 DEF StreamInv

\* What a step that reads nothing keeps.
LEMMA SameReading ==
  ASSUME UNCHANGED <<claimed, chunkVars, eventVars>>
  PROVE  /\ Fresh => Fresh'
         /\ ReadingOK => ReadingOK'
         /\ OverOK => OverOK'
         /\ SessionOf(Events(text, TRUE)) => SessionOf(Events(text, TRUE))'
<1>1. Fresh => Fresh'
  BY DEF Fresh, chunkVars, eventVars
<1>2. ASSUME NEW lines, SessionOf(lines) PROVE SessionOf(lines)'
  BY <1>2 DEF SessionOf, Naming, Names, Content, IsFirst, chunkVars, eventVars
<1>3. Events(text', TRUE) = Events(text, TRUE)
  BY DEF chunkVars
<1>4. SessionOf(Events(text, TRUE)) => SessionOf(Events(text, TRUE))'
  <2>1. PICK lines : lines = Events(text, TRUE)
    OBVIOUS
  <2> QED
    BY <1>2, <1>3, <2>1 DEF SessionOf
<1>5. OverOK => OverOK'
  <2>1. PICK lines : lines = Events(text, TRUE)
    OBVIOUS
  <2>2. ParsedOK(lines) => ParsedOK(lines)'
    BY SameParsed DEF chunkVars
  <2> QED
    BY <1>3, <2>1, <2>2 DEF OverOK, ParsedOK, chunkVars
<1>6. ReadingOK => ReadingOK'
  <2> SUFFICES ASSUME ReadingOK PROVE ReadingOK'
    OBVIOUS
  <2>1. Offset' = Offset /\ Done' = Done
    BY DEF Offset, Done, chunkVars
  <2>2. ChunkOK' /\ \E a \in 1 .. Offset' + 1 : AtHand(a)'
    BY <2>1 DEF ReadingOK, ChunkOK, AtHand, chunkVars
  <2>3. ParsedOK(Done)'
    BY <2>1, StillParsed DEF ReadingOK, chunkVars
  <2> QED
    BY <2>2, <2>3 DEF ReadingOK
<1> QED
  BY <1>1, <1>4, <1>5, <1>6

LEMMA MessageStep ==
  ASSUME StreamInv, op = "message", StreamNext, UNCHANGED compactVars
  PROVE  StreamInv'
<1>a. op' = op /\ op' = "message"
  BY DEF compactVars
<1>b. ASSUME result.by = "agent" PROVE at = "done"
  BY <1>b DEF StreamInv
<1>1. CASE CannotStart \/ Raise
  <2>1. at' = "done" /\ result'.by \in {"scheduler", "adapter"}
    BY <1>1 DEF CannotStart, Raise, Raised
  <2> QED
    BY <1>a, <2>1 DEF StreamInv
<1>2. CASE Spawn \/ RecordPid
  <2>1. /\ at \in {"idle", "spawned"} /\ at' \in {"spawned", "reading"}
        /\ result' = result /\ UNCHANGED <<claimed, chunkVars, eventVars>>
    BY <1>2 DEF Spawn, RecordPid
  <2>2. Fresh' /\ result'.by # "agent"
    BY <1>b, <2>1, SameReading DEF StreamInv
  <2>3. at' = "reading" => ReadingOK'
    <3>1. ReadingOK
      BY <2>1, FreshOK DEF StreamInv
    <3> QED
      BY <2>1, <3>1, SameReading
  <2> QED
    BY <1>a, <2>1, <2>2, <2>3 DEF StreamInv
<1>3. CASE ReadChunk \/ SkipRest \/ KeepRest \/ TakeLine
  <2>1. at = "reading" /\ at' = "reading" /\ result' = result
    BY <1>3 DEF ReadChunk, SkipRest, KeepRest, TakeLine
  <2>2. ReadingOK
    BY <2>1 DEF StreamInv
  <2>3. ReadingOK'
    BY <1>3, <2>2, ReadChunkOK, SkipRestOK, KeepRestOK, TakeLineOK
  <2> QED
    BY <1>a, <1>b, <2>1, <2>3 DEF StreamInv
<1>4. CASE Eof
  <2>1. at = "reading" /\ at' = "eof" /\ result' = result
    BY <1>4 DEF Eof
  <2>2. OverOK'
    BY <1>4, <2>1, EofOK DEF StreamInv
  <2> QED
    BY <1>a, <1>b, <2>1, <2>2 DEF StreamInv
<1>5. CASE Collect
  <2>1. /\ at = "eof" /\ at' = "done" /\ UNCHANGED <<claimed, chunkVars, eventVars>>
        /\ \E ok \in {FALSE, clean /\ ~ clash} :
              result' = [ok |-> ok, session |-> session, by |-> "agent"]
    BY <1>5 DEF Collect
  <2>2. SessionOf(Events(text, TRUE))
    BY <2>1 DEF StreamInv, OverOK, ParsedOK
  <2>3. SessionOf(Events(text, TRUE))'
    BY <2>1, <2>2, SameReading
  <2>4. session' = session /\ clash' = clash
    BY <2>1 DEF eventVars
  <2>5. ResultOK'
    <3>1. PICK ok \in {FALSE, clean /\ ~ clash} :
            result' = [ok |-> ok, session |-> session, by |-> "agent"]
      BY <2>1
    <3>2. result'.session = session /\ result'.ok = ok
      BY <3>1
    <3>3. ~ (ok /\ clash)
      BY <3>1
    <3>4. result'.session = session' /\ (result'.ok => ~ clash')
      BY <2>4, <3>2, <3>3
    <3> QED
      BY <1>a, <2>3, <3>4 DEF ResultOK
  <2> QED
    BY <1>a, <2>1, <2>5 DEF StreamInv
<1> QED
  BY <1>1, <1>2, <1>3, <1>4, <1>5 DEF StreamNext

LEMMA CompactStep ==
  ASSUME StreamInv, op = "compact", Compaction \/ Server
  PROVE  StreamInv'
<1>1. op' = op /\ UNCHANGED <<claimed, chunkVars, eventVars>>
  BY DEF Same, Server, Compaction, NothingToCompact, StartServer, ServerPid,
     Receive, GracePasses, DeadlinePasses, Breaks, Kill, Leave
<1>2. Fresh'
  BY <1>1, SameReading DEF StreamInv
<1>3. at # "done" /\ (result' = result \/ (at' = "done" /\ result'.session = claimed))
  <2>1. CASE NothingToCompact \/ StartServer
    BY <2>1 DEF NothingToCompact, StartServer, Raised
  <2>2. CASE Leave
    <3>1. CASE result' = Raised
      BY <2>2, <3>1 DEF Leave, Raised
    <3>2. CASE result' \in Told
      BY <2>2, <3>2 DEF Leave, Told
    <3> QED
      BY <2>2, <3>1, <3>2 DEF Leave
  <2>3. CASE Server \/ ServerPid \/ Receive \/ GracePasses \/ DeadlinePasses \/ Breaks \/ Kill
    BY <2>3 DEF Server, ServerPid, Receive, GracePasses, DeadlinePasses, Breaks, Kill, Exchanging
  <2> QED
    BY <2>1, <2>2, <2>3 DEF Compaction
<1> QED
  BY <1>1, <1>2, <1>3 DEF StreamInv, ResultOK

LEMMA StreamInvStep == Inv /\ StreamInv /\ [Next]_vars => StreamInv'
<1> SUFFICES ASSUME Inv, StreamInv, [Next]_vars PROVE StreamInv'
  OBVIOUS
<1>1. ASSUME UNCHANGED <<op, claimed, at, chunkVars, eventVars, result>>
      PROVE  StreamInv'
  <2>1. /\ Fresh => Fresh'
        /\ ReadingOK => ReadingOK'
        /\ OverOK => OverOK'
        /\ SessionOf(Events(text, TRUE)) => SessionOf(Events(text, TRUE))'
    BY <1>1, SameReading
  <2>2. session' = session /\ clash' = clash
    BY <1>1 DEF eventVars
  <2> QED
    BY <1>1, <2>1, <2>2 DEF StreamInv, ResultOK
<1>2. CASE op = "message" /\ StreamNext /\ UNCHANGED compactVars
  BY <1>2, MessageStep
<1>3. CASE op = "compact" /\ Compaction
  BY <1>3, CompactStep
<1>4. CASE Server
  <2>1. op = "compact"
    BY <1>4 DEF Inv, Server, Exchanging, StreamInv
  <2> QED
    BY <1>4, <2>1, CompactStep
<1>5. CASE (ProcEnds \/ HelperEnds) /\ UNCHANGED compactVars
  BY <1>1, <1>5 DEF ProcEnds, HelperEnds, compactVars
<1>6. CASE UNCHANGED vars
  BY <1>1, <1>6 DEF vars, compactVars
<1> QED
  BY <1>2, <1>3, <1>4, <1>5, <1>6 DEF Next, Execute

LEMMA StreamInvariance == Spec => [](Inv /\ StreamInv)
<1>1. Spec => []Inv
  BY Invariance
<1>2. Init => StreamInv
  BY StreamInvInit
<1>3. Inv /\ StreamInv /\ [Next]_vars => StreamInv'
  BY StreamInvStep
<1> QED
  BY <1>1, <1>2, <1>3, PTL DEF Spec

\* agents/base.py: however the output is cut into chunks, the events are the
\* lines of the whole output that are short enough, in their order.
THEOREM LinesAreRight == Spec => []LinesAreParsed
<1>1. Inv /\ StreamInv => LinesAreParsed
  <2> SUFFICES ASSUME Inv, StreamInv, at \in {"reading", "eof"}, remaining = <<>>
               PROVE  InOrder(parsed, text, Events(text, at = "eof"))
    BY DEF LinesAreParsed
  <2>1. op = "message"
    BY DEF Inv, CompactInv, ServerOK, Places, Exchanging
  <2>2. CASE at = "reading"
    <3>1. ReadingOK
      BY <2>1, <2>2 DEF StreamInv
    <3>2. Offset = Len(text)
      BY <3>1 DEF ReadingOK, ChunkOK, Offset
    <3>3. Events(text, FALSE) = Done
      BY <3>2 DEF Events, Done
    <3>4. (at = "eof") = FALSE
      BY <2>2
    <3> QED
      BY <3>1, <3>3, <3>4 DEF ReadingOK, ParsedOK
  <2>3. CASE at = "eof"
    <3>1. (at = "eof") = TRUE
      BY <2>3
    <3> QED
      BY <2>1, <2>3, <3>1 DEF StreamInv, OverOK, ParsedOK
  <2> QED
    BY <2>2, <2>3
<1> QED
  BY <1>1, StreamInvariance, PTL

\* agents/base.py: a run tells the store of at most one session, carries the
\* first of the output or the resumed one, and succeeds with no other named.
THEOREM OneSessionPerRun == Spec => []OneSession
<1>1. Inv /\ StreamInv => OneSession
  <2> SUFFICES ASSUME Inv, StreamInv, result.by = "agent" PROVE OneSession
    BY DEF OneSession
  <2>1. PICK lines : lines = Events(text, TRUE)
    OBVIOUS
  <2>2. at = "done" /\ ResultOK
    BY DEF StreamInv
  <2>3. CASE op = "message"
    <3>1. SessionOf(lines) /\ result.session = session /\ (result.ok => ~ clash)
      BY <2>1, <2>2, <2>3 DEF ResultOK
    <3> QED
      BY <2>1, <3>1 DEF OneSession, SessionOf
  <2>4. CASE op = "compact"
    <3>1. Fresh /\ result.session = claimed
      BY <2>2, <2>4 DEF StreamInv, ResultOK
    <3>2. Naming(text, Events(text, TRUE)) = {} /\ stored = <<>>
      BY <3>1, NoLines DEF Naming, Fresh
    <3> QED
      BY <3>1, <3>2 DEF OneSession
  <2> QED
    BY <2>3, <2>4 DEF Inv
<1> QED
  BY <1>1, StreamInvariance, PTL
=============================================================================
