--------------------------- MODULE SessionStreams ---------------------------
(***************************************************************************)
(* What the session event queue promises to the desktop, without producers,*)
(* turns, chunks, budgets, watermarks or notifications: every session is a *)
(* stream of bytes with control events ("marks") at places of the stream.  *)
(* Bytes and marks are appended at the end of the stream of a session that *)
(* is neither cancelled nor closed, and taken from its front, in order and *)
(* once, by the consumer the session is assigned to; a cancel drops what   *)
(* has not been taken.  A consumer takes a batch: nothing else happens     *)
(* between its steps.                                                      *)
(***************************************************************************)
EXTENDS Integers

CONSTANTS Sessions, Consumers, Anyone, NoConsumer, ChunkLimit

VARIABLES
    clock,      \* events appended so far, to all sessions
    appended,   \* appended[s]: the length of the stream of s
    taken,      \* taken[s]: how much of it was taken, or dropped by a cancel
    marks,      \* marks[s]: the control events of s that are not yet taken
    cancelled,
    closed,
    owner,      \* owner[s]: the consumer s is assigned to
    drainer     \* the consumer in the middle of a batch

vars == <<clock, appended, taken, marks, cancelled, closed, owner, drainer>>

Init ==
    /\ clock = 0
    /\ appended = [s \in Sessions |-> 0]
    /\ taken = [s \in Sessions |-> 0]
    /\ marks = [s \in Sessions |-> {}]
    /\ cancelled = {}
    /\ closed = FALSE
    /\ owner = [s \in Sessions |-> NoConsumer]
    /\ drainer = NoConsumer

Idle == drainer = NoConsumer

Accepts(s) == Idle /\ ~closed /\ s \notin cancelled

AppendBytes(s, n) ==
    /\ Accepts(s)
    /\ clock' = clock + 1
    /\ appended' = [appended EXCEPT ![s] = @ + n]
    /\ UNCHANGED <<taken, marks, cancelled, closed, owner, drainer>>

AppendMark(s) ==
    /\ Accepts(s)
    /\ clock' = clock + 1
    /\ marks' = [marks EXCEPT ![s] = @ \cup {[at |-> clock, lo |-> appended[s]]}]
    /\ UNCHANGED <<appended, taken, cancelled, closed, owner, drainer>>

\* An event that is in no stream: the diagnostic of a failed cleanup.
AppendDiagnostic ==
    /\ Idle /\ ~closed
    /\ clock' = clock + 1
    /\ UNCHANGED <<appended, taken, marks, cancelled, closed, owner, drainer>>

Cancel(s) ==
    /\ Idle
    /\ cancelled' = cancelled \cup {s}
    /\ taken' = [taken EXCEPT ![s] = appended[s]]
    /\ marks' = [marks EXCEPT ![s] = {}]
    /\ owner' = [owner EXCEPT ![s] = NoConsumer]
    /\ UNCHANGED <<clock, appended, closed, drainer>>

Resume(s) ==
    /\ Idle
    /\ cancelled' = cancelled \ {s}
    /\ UNCHANGED <<clock, appended, taken, marks, closed, owner, drainer>>

Assign(s, c) ==
    /\ Idle
    /\ owner' = [owner EXCEPT ![s] = c]
    /\ UNCHANGED <<clock, appended, taken, marks, cancelled, closed, drainer>>

Close ==
    /\ Idle
    /\ closed' = TRUE
    /\ UNCHANGED <<clock, appended, taken, marks, cancelled, owner, drainer>>

BeginBatch(c) ==
    /\ Idle
    /\ drainer' = c
    /\ UNCHANGED <<clock, appended, taken, marks, cancelled, closed, owner>>

MayTake(s) == ~Idle /\ (drainer = Anyone \/ owner[s] = drainer)

\* n more bytes, none of them behind a mark.
TakeBytes(s, n) ==
    /\ MayTake(s)
    /\ \A m \in marks[s] : taken[s] + n <= m.lo
    /\ taken' = [taken EXCEPT ![s] = @ + n]
    /\ UNCHANGED <<clock, appended, marks, cancelled, closed, owner, drainer>>

\* The first mark, once every byte before it was taken.
TakeMark(s, m) ==
    /\ MayTake(s)
    /\ m.lo = taken[s]
    /\ \A k \in marks[s] : m.at <= k.at
    /\ marks' = [marks EXCEPT ![s] = @ \ {m}]
    /\ UNCHANGED <<clock, appended, taken, cancelled, closed, owner, drainer>>

EndBatch ==
    /\ ~Idle
    /\ drainer' = NoConsumer
    /\ UNCHANGED <<clock, appended, taken, marks, cancelled, closed, owner>>

Stream(s) ==
    \/ \E n \in 1 .. ChunkLimit : AppendBytes(s, n)
    \/ \E n \in 1 .. (appended[s] - taken[s]) : TakeBytes(s, n)
    \/ AppendMark(s)
    \/ \E m \in marks[s] : TakeMark(s, m)
    \/ Cancel(s)
    \/ Resume(s)
    \/ \E c \in Consumers \cup {NoConsumer} : Assign(s, c)

Next ==
    \/ \E s \in Sessions : Stream(s)
    \/ \E c \in Consumers \cup {Anyone} : BeginBatch(c)
    \/ EndBatch
    \/ AppendDiagnostic
    \/ Close

Spec == Init /\ [][Next]_vars
=============================================================================
