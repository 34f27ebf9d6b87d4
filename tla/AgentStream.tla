----------------------------- MODULE AgentStream -----------------------------
(***************************************************************************)
(* agents/base.py: one execution of the agent for a message, from the      *)
(* start of its process to the AgentResult.  The agent writes one JSON     *)
(* event per line; what is read is a chunk of any length, so a line may    *)
(* come in pieces and a chunk may hold many lines.  Lines longer than      *)
(* MaxLine are skipped.  The first event that names a session gives the    *)
(* run its session, unless it resumes one; later ones must agree.          *)
(*                                                                         *)
(* The run goes "idle" -> "spawned" -> "reading" (pid recorded, log open)  *)
(* -> "eof" (the output ended) -> "done".  An error of the log or of the   *)
(* store is raised out of execute; the scheduler then makes the result.    *)
(*                                                                         *)
(* A byte is the end of a line, or one of Ids.  A line of one byte is an   *)
(* event that names that session; every other line names none.             *)
(***************************************************************************)
EXTENDS Integers, Sequences, FiniteSets

CONSTANTS
    Ids,        \* sessions, and the bytes of lines
    MaxLine,    \* _MAX_PARSED_JSON_LINE_BYTES
    MaxText     \* bound: bytes that the agent writes

ASSUME StreamAssumption == MaxLine \in Nat \ {0} /\ MaxText \in Nat

NL == "\n"
NoSession == "no session"

VARIABLES
    claimed,     \* the session the claim found in the task's row
    at,          \* where execute is
    proc,        \* the agent process: "none", "alive", "exited" or "killed"
    clean,       \* its exit code is zero
    helper,      \* a descendant in a group of its own holds the output open
    text,        \* all bytes read so far
    remaining,   \* what is left of the chunk at hand
    buffer,      \* the piece of a line at hand
    discarding,  \* skipping the rest of a line that is too long
    parsed,      \* the lines given to process_json_line
    session,     \* session_id in execute
    clash,       \* protocol_error: an event named another session
    stored,      \* the calls of on_session
    result       \* the AgentResult

procVars == <<proc, clean, helper>>
chunkVars == <<text, remaining, buffer, discarding>>
eventVars == <<parsed, session, clash, stored>>

NoResult == [ok |-> FALSE, session |-> NoSession, by |-> "nobody"]
Raised == [ok |-> FALSE, session |-> claimed, by |-> "scheduler"]

StreamInit ==
    /\ claimed \in Ids \cup {NoSession}
    /\ at = "idle"
    /\ proc = "none" /\ clean = FALSE /\ helper = FALSE
    /\ text = <<>> /\ remaining = <<>> /\ buffer = <<>> /\ discarding = FALSE
    /\ parsed = <<>> /\ session = claimed /\ clash = FALSE /\ stored = <<>>
    /\ result = NoResult

-----------------------------------------------------------------------------
(* The process. *)

\* It may have started something that outlives it.
Starts == proc' = "alive" /\ helper' \in BOOLEAN /\ UNCHANGED clean

\* By itself, or of a signal of /stop.
ProcEnds ==
    /\ proc = "alive"
    /\ proc' = "exited" /\ clean' \in BOOLEAN
    /\ UNCHANGED <<claimed, at, helper, chunkVars, eventVars, result>>

HelperEnds ==
    /\ helper
    /\ helper' = FALSE
    /\ UNCHANGED <<claimed, at, proc, clean, chunkVars, eventVars, result>>

-----------------------------------------------------------------------------
(* AgentAdapter.execute *)

\* No executable, or no process: a result without one.
CannotStart ==
    /\ at = "idle"
    /\ at' = "done"
    /\ result' \in {Raised, [Raised EXCEPT !.by = "adapter"]}
    /\ UNCHANGED <<claimed, procVars, chunkVars, eventVars>>

Spawn ==
    /\ at = "idle"
    /\ at' = "spawned"
    /\ Starts
    /\ UNCHANGED <<claimed, chunkVars, eventVars, result>>

\* on_pid, then the log is opened.
RecordPid ==
    /\ at = "spawned"
    /\ at' = "reading"
    /\ UNCHANGED <<claimed, procVars, chunkVars, eventVars, result>>

\* on_pid or on_session fails in the store, the log cannot be opened or
\* written, or the file of the last message not be read: nobody looks after the
\* process any more.
Raise ==
    /\ at \in {"spawned", "reading", "eof"}
    /\ at' = "done"
    /\ result' = Raised
    /\ UNCHANGED <<claimed, procVars, chunkVars, eventVars>>

ReadChunk ==
    /\ at = "reading" /\ remaining = <<>>
    /\ \E n \in 1 .. MaxText - Len(text) : \E chunk \in [1 .. n -> Ids \cup {NL}] :
         /\ text' = text \o chunk
         /\ remaining' = chunk
    /\ UNCHANGED <<claimed, at, procVars, buffer, discarding, eventVars, result>>

HasNewline(s) == \E i \in DOMAIN s : s[i] = NL
Newline(s) == CHOOSE i \in DOMAIN s : s[i] = NL /\ \A j \in 1 .. i - 1 : s[j] # NL
AfterNewline(s) == SubSeq(s, Newline(s) + 1, Len(s))

SkipRest ==
    /\ at = "reading" /\ remaining # <<>> /\ discarding
    /\ discarding' = ~ HasNewline(remaining)
    /\ remaining' = IF discarding' THEN <<>> ELSE AfterNewline(remaining)
    /\ UNCHANGED <<claimed, at, procVars, text, buffer, eventVars, result>>

\* Mutation of KeepRest: the pieces kept so far are not counted.
KeepRestUncounted ==
    /\ at = "reading" /\ remaining # <<>> /\ ~ discarding /\ ~ HasNewline(remaining)
    /\ discarding' = (Len(remaining) > MaxLine)
    /\ buffer' = IF discarding' THEN <<>> ELSE buffer \o remaining
    /\ remaining' = <<>>
    /\ UNCHANGED <<claimed, at, procVars, text, eventVars, result>>

KeepRest ==
    /\ at = "reading" /\ remaining # <<>> /\ ~ discarding /\ ~ HasNewline(remaining)
    /\ discarding' = (Len(buffer) + Len(remaining) > MaxLine)
    /\ buffer' = IF discarding' THEN <<>> ELSE buffer \o remaining
    /\ remaining' = <<>>
    /\ UNCHANGED <<claimed, at, procVars, text, eventVars, result>>

Named(line) == IF Len(line) = 1 THEN line[1] ELSE NoSession

\* Mutation of Clashes: compared with the session of the claim.
ClashesWithClaim(id) == claimed # NoSession /\ id # claimed

Clashes(id) == session # NoSession /\ id # session

Opens(id) == id # NoSession /\ session = NoSession

\* process_json_line; the callbacks it leaves are awaited before the next line.
Parse(line) ==
    LET id == Named(line) IN
    /\ parsed' = Append(parsed, line)
    /\ clash' = (clash \/ (id # NoSession /\ Clashes(id)))
    /\ session' = IF Opens(id) THEN id ELSE session
    /\ stored' = IF Opens(id) THEN Append(stored, id) ELSE stored

TakeLine ==
    LET end == Newline(remaining)
        line == buffer \o SubSeq(remaining, 1, end - 1)
    IN
    /\ at = "reading" /\ remaining # <<>> /\ ~ discarding /\ HasNewline(remaining)
    /\ IF Len(line) <= MaxLine THEN Parse(line) ELSE UNCHANGED eventVars
    /\ buffer' = <<>>
    /\ remaining' = AfterNewline(remaining)
    /\ UNCHANGED <<claimed, at, procVars, text, discarding, result>>

\* Nobody holds the output any more; a last line needs no end.  The agent may
\* close its output before it exits, a helper may keep it open after that.
Eof ==
    /\ at = "reading" /\ remaining = <<>> /\ ~ helper
    /\ at' = "eof"
    /\ IF buffer # <<>> /\ ~ discarding THEN Parse(buffer) ELSE UNCHANGED eventVars
    /\ UNCHANGED <<claimed, procVars, chunkVars, result>>

\* The agent's last event may report an error, be missing, or come twice.
Collect ==
    /\ at = "eof" /\ proc # "alive"
    /\ at' = "done"
    /\ \E ok \in {FALSE, clean /\ ~ clash} :
          result' = [ok |-> ok, session |-> session, by |-> "agent"]
    /\ UNCHANGED <<claimed, procVars, chunkVars, eventVars>>

StreamNext ==
    \/ CannotStart \/ Spawn \/ RecordPid \/ Raise
    \/ ReadChunk \/ SkipRest \/ KeepRest \/ TakeLine \/ Eof \/ Collect

-----------------------------------------------------------------------------
(* What the stream means, read as a whole. *)

\* A line of a text goes from its first byte to its end, which is no part of it.
Content(s, line) == SubSeq(s, line.from, line.end - 1)
Undivided(s, line) ==
    /\ line.from = 1 \/ s[line.from - 1] = NL
    /\ \A i \in line.from .. line.end - 1 : s[i] # NL

\* The lines that end in the first n bytes of s.
LinesTo(s, n) ==
    {line \in [from : 1 .. n, end : 1 .. n] :
        line.from <= line.end /\ s[line.end] = NL /\ Undivided(s, line)}

\* What comes after the last of them ends with the text.
LastPiece(s) ==
    {line \in [from : 1 .. Len(s), end : {Len(s) + 1}] : Undivided(s, line)}

Short(lines) == {line \in lines : line.end - line.from <= MaxLine}

Events(s, over) ==
    Short(LinesTo(s, Len(s)) \cup (IF over THEN LastPiece(s) ELSE {}))

UpTo(line, lines) == {l \in lines : l.end <= line.end}

\* The sequence p is these lines of s, in their order.
InOrder(p, s, lines) ==
    /\ Len(p) = Cardinality(lines)
    /\ \A line \in lines : p[Cardinality(UpTo(line, lines))] = Content(s, line)

Names(s, line) == Named(Content(s, line))
Naming(s, lines) == {line \in lines : Names(s, line) # NoSession}
IsFirst(line, lines) == \A l \in lines : line.end <= l.end

\* base.py cuts the output into chunks of any size: whatever the cuts, the
\* events parsed are the lines of the whole text that are short enough, and a
\* line that is too long neither hides nor damages its neighbours.
LinesAreParsed ==
    at \in {"reading", "eof"} /\ remaining = <<>> =>
        InOrder(parsed, text, Events(text, at = "eof"))

\* The store is told of at most one session per run, never for a resumed one;
\* the result carries the first session of the output or the resumed one, and
\* it is no success if any event of the output named another.
OneSession ==
    at = "done" /\ result.by = "agent" =>
       LET naming == Naming(text, Events(text, TRUE)) IN
       /\ claimed # NoSession \/ naming = {} =>
             stored = <<>> /\ result.session = claimed
       /\ claimed = NoSession /\ naming # {} =>
             \E line \in naming :
                /\ IsFirst(line, naming)
                /\ result.session = Names(text, line)
                /\ stored = <<result.session>>
       /\ result.ok => \A line \in naming : Names(text, line) = result.session
=============
