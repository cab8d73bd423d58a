-------------------------- MODULE TerminalExecution --------------------------
(***************************************************************************)
(* Commands an agent runs in a terminal the user also sees:                *)
(* features/capability_runtime/terminal_execution.rs, its jobs.rs, the     *)
(* idempotency ledger, and the capture of nyaterm-terminal                 *)
(* agent_capture.rs.                                                       *)
(*                                                                         *)
(* A command is typed into the shell between two markers that carry a      *)
(* fresh identifier.  The output of the session arrives later, as a stream;*)
(* a boundary in it tells where the capture begins.  A command whose end   *)
(* was not seen in time leaves a recovery guard, which keeps other commands*)
(* out of the shell, and a retired filter that looks for its late end.     *)
(*                                                                         *)
(* One session: the maps of TerminalExecutionState are keyed by session.   *)
(* The handlers run on the UI thread, each is one action.  The shell and   *)
(* the user are the environment.                                           *)
(***************************************************************************)
EXTENDS Integers, Sequences, FiniteSets, SequencesExt

CONSTANTS
    Keys,           \* owner, tool and idempotency key
    NoKey, None,
    Offers,         \* what clients ask for: [key, kind, caller]
    MaxRetired,     \* filters kept for a session (8)
    MaxRequests,    \* bound: requests
    MaxDisturbances \* bound: lines the user types, interrupts and gaps in the output

VARIABLES
    x,          \* TerminalExecutionState, the ledger and the replies
    armed,      \* clock_armed
    connected,  \* the session is
    stream,     \* output of the session the UI has not processed
    shell,      \* what the shell runs and what was typed ahead
    keyOf,      \* the key of every command that was started, for the properties
    confirmed,  \* commands the user declared recovered
    lost,       \* commands whose end was not printed, or was in a gap
    requests, disturbances

history == <<keyOf, confirmed, lost>>
vars == <<x, armed, connected, stream, shell, history, requests, disturbances>>

User == 0                       \* a line the user typed
Requests == 1 .. MaxRequests    \* a request that starts has its number as marker identifier

\* The kinds of a command: marked (a Posix, PowerShell or Cmd profile), raw (SendOnly,
\* no markers), background (a channel of its own, policy.background).  The callers:
\* native (the built-in agent), shared (terminal_execute of MCP clients, which may
\* wait for the same command), async (terminal_start).

\* An event of the stream: a boundary, a marker, or text of the command `id'.
Event(type, id, code) == [type |-> type, id |-> id, code |-> code]

Kinds == {"marked", "raw", "background"}
Callers == {"native", "shared", "async"}
Phases == {"wait", "capturing", "prompt", "post", "gone"}
Statuses == {"starting", "running", "cancelling", "completed", "failed", "timedOut",
             "cancelled", "disconnected", "unknown"}

\* TerminalTask, TerminalJob, a retired filter, a line in the shell, the stream
Tasks == [id : Requests, kind : Kinds, caller : Callers, begun : BOOLEAN,
          phase : Phases, cancelled : BOOLEAN]
Jobs == [kind : Kinds, status : Statuses,
         process : {"notStarted", "active", "exited", "unknown"}, finished : BOOLEAN,
         takeover : BOOLEAN, stopping : BOOLEAN, output : SUBSET (Requests \cup {User})]
Filters == [id : Requests, phase : Phases, observing : BOOLEAN]
Commands == [id : Requests, kind : {"marked", "raw"}] \cup [id : {User}, kind : {"raw"}]
Events == [type : {"boundary", "start", "text", "end", "prompt"},
           id : Requests \cup {User}, code : {0, 130, None}]

ASSUME ExecutionConstants ==
    /\ NoKey \notin Keys
    /\ \A o \in Offers :
          /\ o.key \in Keys \cup {NoKey} /\ o.kind \in Kinds /\ o.caller \in Callers
          /\ o.caller = "async" => o.kind = "marked"     \* dispatch_terminal_start
          /\ \A q \in Offers : o.key = q.key /\ o.key # NoKey => o = q   \* fingerprint
    /\ MaxRetired \in Nat \ {0} /\ MaxRequests \in Nat /\ MaxDisturbances \in Nat
    /\ None \notin Keys /\ None \notin Nat /\ None \notin Tasks /\ None \notin Commands

-----------------------------------------------------------------------------
(* Jobs: TerminalJob.                                                      *)

NewJob(kind) ==
    [kind |-> kind, status |-> "starting", process |-> "notStarted", finished |-> FALSE,
     takeover |-> FALSE, stopping |-> FALSE, output |-> {}]

\* Outcomes a late end does not change.
Settled(status) == status \in {"timedOut", "cancelled", "disconnected"}

\* exited
Exited(j, code, interrupted) ==
    [j EXCEPT !.process = "exited", !.finished = TRUE,
              !.status = IF Settled(@) THEN @
                         ELSE IF interrupted THEN "cancelled"
                         ELSE IF code # 0 THEN "failed" ELSE "completed"]

\* unknown
Unknown(j, status) ==
    [j EXCEPT !.status = status, !.finished = TRUE,
              !.process = IF @ = "exited" THEN @ ELSE "unknown"]

\* observe_late_job_end
LateEnd(jobs, id, code) ==
    IF id \in DOMAIN jobs
    THEN [jobs EXCEPT ![id] = Exited(@, code, @.stopping /\ code = 130)]
    ELSE jobs

\* append_job_output
AppendOutput(jobs, id, from) ==
    IF id \in DOMAIN jobs /\ ~jobs[id].takeover
    THEN [jobs EXCEPT ![id].output = @ \cup {from}] ELSE jobs

-----------------------------------------------------------------------------
(* The end of an execution: finish and finish_terminal_execution.          *)

Answer(s, rs) == [s EXCEPT !.open = @ \ rs]

\* Variant of Conclude: the clients that joined later are forgotten.
ConcludeFirst(s, op, rs) ==
    [Answer(s, rs \cup {op}) EXCEPT
        !.waiters = Restrict(@, DOMAIN @ \ {op}),
        !.result[op] = IF @ = "pending" THEN "complete" ELSE @]

\* ledger.finish and complete_waiters, and the reply of the task itself
Conclude(s, op, rs) ==
    LET waiting == IF op \in DOMAIN s.waiters THEN s.waiters[op] ELSE {}
    IN [Answer(s, rs \cup waiting) EXCEPT
           !.waiters = Restrict(@, DOMAIN @ \ {op}),
           !.result[op] = IF @ = "pending" THEN "complete" ELSE @]

\* Variant of Retire: the newest filter gives way.
RetireOldest(filters, f) ==
    IF Cardinality(filters) = MaxRetired THEN filters ELSE filters \cup {f}

\* Filters are retired in the order of their identifiers.
Oldest(filters) == CHOOSE f \in filters : \A g \in filters : f.id <= g.id

\* The newest observer always carries the current recovery guard.
Retire(filters, f) ==
    (IF Cardinality(filters) = MaxRetired THEN filters \ {Oldest(filters)} ELSE filters) \cup {f}

\* The command may still run in the shell.
NeedsRecovery(t, confirmedEnd, status) ==
    t.kind # "background" /\ ~confirmedEnd /\ status \notin {"completed", "disconnected"}

Finish(s, id, reported, code) ==
    IF s.task = None \/ s.task.id # id THEN s
    ELSE LET t == s.task
             confirmedEnd == reported = "completed" /\ code # None
             status == IF t.cancelled THEN "cancelled" ELSE reported
             marked == t.kind = "marked"
             ended == IF status = "completed" /\ code # None
                      THEN Exited(s.jobs[id], code, s.jobs[id].stopping /\ code = 130)
                      ELSE Unknown(s.jobs[id], IF status = "completed" THEN "unknown" ELSE status)
             jobs == [s.jobs EXCEPT ![id] = ended]
             over == [s EXCEPT
                !.task = None,
                !.recovery = IF NeedsRecovery(t, confirmedEnd, status) THEN id ELSE @,
                !.draining = IF marked /\ status = "completed" /\ t.phase = "post" THEN id ELSE @,
                !.retired = IF marked /\ status # "completed"
                            THEN Retire(@, [id |-> id, phase |-> t.phase, observing |-> TRUE])
                            ELSE @,
                !.jobs = IF status = "cancelled" /\ confirmedEnd
                         THEN LateEnd(jobs, id, code) ELSE jobs]
         IN IF t.caller = "async" THEN over
            ELSE Conclude(over, id, IF t.caller = "native" THEN {id} ELSE {})

-----------------------------------------------------------------------------
(* The output: process_output, begin_capture.                              *)

\* Variant of Carries: any marker will do.
CarriesAny(e, id) == e.type \in {"start", "end"}

\* The marker of the command, which has a fresh identifier in it.
Carries(e, id) == e.type \in {"start", "end"} /\ e.id = id

\* The retired filters: they take their markers out of the text; the one of the
\* recovery guard goes on observing, until the user takes over.
AfterFilters(s, e) ==
    LET Own(f) == s.recovery = f.id /\ f.id \in DOMAIN s.jobs /\ ~s.jobs[f.id].takeover
        Seen(f) == [f EXCEPT !.observing = @ /\ Own(f),
                             !.phase = IF Carries(e, f.id) /\ e.type = "start"
                                       THEN "capturing" ELSE @]
        Ends(f) == Carries(e, f.id) /\ e.type = "end"
        observed == \E f \in s.retired : /\ f.observing /\ Own(f)
                                         /\ f.phase = "capturing" /\ e.type = "text"
        ended == \E f \in s.retired : Ends(f) /\ s.recovery = f.id
        jobs == IF observed THEN AppendOutput(s.jobs, s.recovery, e.id) ELSE s.jobs
    IN [s EXCEPT !.retired = {Seen(f) : f \in {g \in @ : ~Ends(g)}},
                 !.recovery = IF ended THEN None ELSE @,
                 !.jobs = IF ended THEN LateEnd(jobs, s.recovery, e.code) ELSE jobs]

Hidden(s, e) == \E f \in s.retired : Carries(e, f.id)

\* Variant of FirstPhase: the boundary is taken for the start marker.
CaptureAtOnce == "capturing"

FirstPhase == "wait"

\* The capture of the running execution; `prompt' in the chunk of the end marker
\* leaves nothing to wait for.
Captured(s, e, prompt) ==
    LET id == s.task.id
        phase == s.task.phase
    IN IF phase = "wait" /\ Carries(e, id) /\ e.type = "start"
       THEN [s EXCEPT !.task.phase = "capturing",
                      !.jobs[id].process = "active",
                      !.jobs[id].status = IF s.jobs[id].stopping THEN @ ELSE "running"]
       ELSE IF phase = "capturing" /\ Carries(e, id) /\ e.type = "end"
       THEN Finish([s EXCEPT !.task.phase = IF prompt THEN "gone" ELSE "post"],
                   id, "completed", e.code)
       ELSE IF phase = "capturing" THEN [s EXCEPT !.jobs = AppendOutput(@, id, e.id)]
       ELSE s

\* process_output with the completions it reports.
Processed(s, e, prompt) ==
    LET f == AfterFilters(s, e)
        begun == f.task # None /\ f.task.begun
    IN IF Hidden(s, e) THEN f
       ELSE IF begun /\ f.task.kind = "raw"
       THEN [f EXCEPT !.task.phase = IF e.type = "prompt" THEN "prompt" ELSE "wait"]
       ELSE IF begun /\ f.task.kind = "marked" THEN Captured(f, e, prompt)
       ELSE [f EXCEPT !.draining = None]

\* begin_capture
Begun(s, id) ==
    IF s.task # None /\ s.task.id = id /\ ~s.task.begun
    THEN [s EXCEPT !.task.begun = TRUE, !.draining = None] ELSE s

-----------------------------------------------------------------------------
(* What keeps others out.                                                  *)

\* Variant of Busy: a command that timed out is over.
BusyWithTask(s) == s.task # None

Busy(s) == s.task # None \/ s.recovery # None

Capturing(s) == (s.task # None /\ s.task.kind # "background") \/ s.draining # None

\* note_manual_takeover
TakenOver(s) ==
    LET ids == ({s.recovery} \cup (IF s.task = None THEN {} ELSE {s.task.id})) \cap DOMAIN s.jobs
    IN [s EXCEPT !.jobs = [i \in DOMAIN @ |-> [s.jobs[i] EXCEPT !.takeover = @ \/ i \in ids]],
                 !.task = IF @ = None THEN @ ELSE [@ EXCEPT !.cancelled = TRUE]]

\* What keeps the clock armed.
Running(s) ==
    \/ s.task # None \/ s.draining # None \/ DOMAIN s.jobs # {}
    \/ \E op \in Requests : s.result[op] = "complete"

-----------------------------------------------------------------------------
(* The shell: it runs one line at a time; a line typed ahead waits.        *)

Text(type, c) == Event(type, c.id, None)

\* The next line begins: the shell, and what it prints.  It prompts when nothing
\* was typed ahead.
Begins(queue) ==
    IF queue = <<>> THEN [running |-> None, queue |-> <<>>]
    ELSE [running |-> Head(queue), queue |-> Tail(queue)]

Beginning(queue) ==
    IF queue = <<>> THEN <<>>
    ELSE LET c == Head(queue)
         IN IF c.kind = "marked" THEN <<Text("start", c), Text("text", c)>> ELSE <<Text("text", c)>>

Ending(c, code, queue) ==
    (IF c.kind = "marked" /\ code # None THEN <<Event("end", c.id, code)>> ELSE <<>>)
    \o (IF queue = <<>> THEN <<Text("prompt", c)>> ELSE Beginning(queue))

\* A line reaches the shell, after `before' in the stream.
Type(c, before) ==
    IF shell.running = None
    THEN shell' = Begins(<<c>>) /\ stream' = stream \o before \o Beginning(<<c>>)
    ELSE shell' = [shell EXCEPT !.queue = Append(@, c)] /\ stream' = stream \o before

-----------------------------------------------------------------------------
(* Requests: dispatch_shared_terminal_execute, dispatch_terminal_start,    *)
(* start_terminal_execution.                                               *)

\* Variant of Replayable: the result expired, so the command may run again.
ReplayableExpired(s, key) ==
    IF s.keys[key] = None THEN TRUE ELSE s.result[s.keys[key]] = "expired"

\* begin: whether the request is a new operation.
Replayable(s, key) == s.keys[key] = None

Refused(s) == ~connected \/ Busy(s)

Inserted(s, r, kind, caller) ==
    [s EXCEPT !.jobs = [i \in DOMAIN @ \cup {r} |-> IF i = r THEN NewJob(kind) ELSE @[i]],
              !.task = [id |-> r, kind |-> kind, caller |-> caller, begun |-> FALSE,
                        phase |-> FirstPhase, cancelled |-> FALSE]]

Registered(s, r, key, caller) ==
    [s EXCEPT !.keys = IF key = NoKey THEN @ ELSE [@ EXCEPT ![key] = r],
              !.result[r] = IF key = NoKey THEN "none" ELSE "pending",
              !.waiters = IF caller # "shared" THEN @
                          ELSE [op \in DOMAIN @ \cup {r} |-> IF op = r THEN {r} ELSE @[op]]]

\* A request for an operation that is known: it gets the result, or waits for
\* it with the others, or is told that it is pending.
Join(s, r, op) ==
    IF s.result[op] = "pending" /\ op \in DOMAIN s.waiters
    THEN [s EXCEPT !.waiters[op] = @ \cup {r}]
    ELSE Answer(s, {r})

\* A request; `written' tells whether the shell's input takes the command.
Execute(o, written) ==
    LET r == requests + 1
        s == [x EXCEPT !.open = @ \cup {r}]
        new == Registered(s, r, o.key, o.caller)
        inserted == Inserted(new, r, o.kind, o.caller)
        after == IF written THEN inserted ELSE Finish(inserted, r, "failed", None)
        runs == Replayable(s, o.key) /\ ~Refused(s)
        inline == o.kind # "background"
        boundary == <<Event("boundary", r, None)>>
    IN /\ requests < MaxRequests
       /\ requests' = r
       /\ ~written => inline /\ runs
       /\ IF ~Replayable(s, o.key)
          THEN x' = Join(s, r, s.keys[o.key]) /\ UNCHANGED armed
          ELSE /\ x' = IF Refused(s) THEN Conclude(new, r, {r})
                       ELSE IF o.caller = "async" THEN Conclude(after, r, {r})
                       ELSE after
               /\ armed' = TRUE
       /\ IF runs /\ inline /\ written THEN Type([id |-> r, kind |-> o.kind], boundary)
          ELSE stream' = (IF runs /\ inline THEN stream \o boundary ELSE stream)
               /\ UNCHANGED shell
       /\ keyOf' = IF runs THEN [keyOf EXCEPT ![r] = o.key] ELSE keyOf
       /\ lost' = IF runs /\ (~written \/ o.kind = "raw") THEN lost \cup {r} ELSE lost
       /\ UNCHANGED <<connected, confirmed, disturbances>>

\* A client cancels its request, or goes away.  A native caller's command is no
\* longer waited for (forget_owner, too); a command other clients asked for goes on.
\* prune_waiters drops the waiter at the next tick, until then complete_waiters
\* skips it.
CancelRequest(r) ==
    /\ r \in x.open
    /\ x' = [x EXCEPT !.open = @ \ {r},
                      !.task = IF @ # None /\ @.id = r /\ @.caller = "native"
                               THEN [@ EXCEPT !.cancelled = TRUE] ELSE @,
                      !.waiters = [op \in DOMAIN @ |-> @[op] \ {r}]]
    /\ UNCHANGED <<armed, connected, stream, shell, history, requests, disturbances>>

\* The worker of a background command returns.
BackgroundResult ==
    /\ x.task # None /\ x.task.kind = "background"
    /\ \E o \in {<<"completed", 0>>, <<"completed", None>>, <<"failed", None>>, <<"timedOut", None>>} :
          x' = Finish(x, x.task.id, o[1], o[2])
    /\ UNCHANGED <<armed, connected, stream, shell, history, requests, disturbances>>

-----------------------------------------------------------------------------
(* The UI: events of the session, and the clock.                           *)

ProcessEvent ==
    /\ stream # <<>>
    /\ stream' = Tail(stream)
    /\ LET e == Head(stream)
       IN IF e.type = "boundary" THEN x' = Begun(x, e.id)
          ELSE \E prompt \in IF e.type = "end" THEN BOOLEAN ELSE {FALSE} : x' = Processed(x, e, prompt)
    /\ UNCHANGED <<armed, connected, shell, history, requests, disturbances>>

\* Output was dropped on the way: note_terminal_execution_output_dropped.
DropOutput ==
    /\ stream # <<>> /\ Head(stream).type # "boundary"
    /\ disturbances < MaxDisturbances
    /\ disturbances' = disturbances + 1
    /\ stream' = Tail(stream)
    /\ x' = IF x.task = None THEN x ELSE Finish(x, x.task.id, "failed", None)
    /\ lost' = IF Head(stream).type = "end" THEN lost \cup {Head(stream).id} ELSE lost
    /\ UNCHANGED <<armed, connected, shell, keyOf, confirmed, requests>>

\* How the clock may find the execution; time passes as it likes.
Outcomes(s) ==
    LET id == s.task.id
    IN IF s.task = None THEN {s}
       ELSE IF s.task.cancelled THEN {Finish(s, id, "cancelled", None)}
       ELSE {s, Finish(s, id, "timedOut", None)}
            \cup (IF s.task.kind # "raw" \/ ~s.task.begun THEN {}
                  ELSE IF s.task.phase = "prompt" THEN {Finish(s, id, "completed", None)}
                  ELSE {Finish(s, id, "failed", None)})

\* poll_terminal_jobs: two seconds after a stop that nobody confirmed, and ten
\* minutes after the end of a job or an operation.  An operation is pinned while
\* its job is open.
Stale(s) ==
    [s EXCEPT !.jobs = [i \in DOMAIN @ |-> IF @[i].status = "cancelling"
                                          THEN [@[i] EXCEPT !.status = "unknown"] ELSE @[i]]]

Expired(s) ==
    LET alive == {i \in DOMAIN s.jobs : ~s.jobs[i].finished}
    IN [s EXCEPT !.jobs = [i \in alive |-> @[i]],
                 !.result = [op \in Requests |->
                                IF @[op] = "complete" /\ op \notin alive THEN "expired" ELSE @[op]]]

Ages(s) == {s, Stale(s), Expired(s), Expired(Stale(s))}

\* poll_terminal_executions on the clock, which stops when nothing is left.
Poll(due) ==
    /\ armed
    /\ \E s \in Ages(x), drained \in BOOLEAN :
          \E t \in Outcomes(s) :
             /\ due => t.task = None
             /\ x' = IF drained THEN [t EXCEPT !.draining = None] ELSE t
             /\ armed' = Running(x')
    /\ UNCHANGED <<connected, stream, shell, history, requests, disturbances>>

\* stop_terminal_job.  An inline command is interrupted only when the shell is
\* known to run it, and the write may fail.  The poll_terminal_jobs at its end finds
\* what the clock's does.
Stop(id, sent) ==
    LET j == x.jobs[id]
        inline == j.kind # "background"
        send == connected /\ ~j.stopping /\ j.process # "exited" /\ ~j.finished
        safe == /\ ~j.takeover /\ x.task # None /\ x.task.id = id
                /\ x.task.kind = "marked" /\ x.task.phase # "wait"
                /\ x.recovery = None
        asked == [x EXCEPT !.jobs[id].stopping = TRUE]
    IN /\ id \in DOMAIN x.jobs
       /\ sent => send /\ inline /\ safe
       /\ x' \in Ages(IF ~send THEN asked
                         ELSE IF inline /\ ~safe
                         THEN Finish([asked EXCEPT !.jobs[id] = Unknown(@, "unknown")],
                                     id, "failed", None)
                         ELSE [asked EXCEPT !.jobs[id].status = "cancelling"])
       /\ UNCHANGED <<armed, connected, keyOf, confirmed, requests, disturbances>>

\* close_terminal_executions_for_session: the session's last event, or its tab is
\* closed and what it printed since is not read.
Disconnect ==
    /\ connected
    /\ connected' = FALSE
    /\ LET s == IF x.task = None THEN x ELSE Finish(x, x.task.id, "disconnected", None)
       IN x' = [s EXCEPT !.draining = None, !.retired = {}, !.recovery = None,
                         !.jobs = [i \in DOMAIN @ |-> IF @[i].finished THEN @[i]
                                                      ELSE Unknown(@[i], "disconnected")]]
    /\ stream' = <<>> /\ shell' = [running |-> None, queue |-> <<>>]
    /\ UNCHANGED <<armed, history, requests, disturbances>>

ShellEnds ==
    /\ shell.running # None
    /\ stream' = stream \o Ending(shell.running, 0, shell.queue)
    /\ shell' = Begins(shell.queue)
    /\ UNCHANGED <<x, armed, connected, history, requests, disturbances>>

\* An interrupt reaches the shell.  The line may still print its end marker; what
\* was typed ahead may be discarded.
Interrupted ==
    IF shell.running = None THEN UNCHANGED <<shell, stream, lost>>
    ELSE \E code \in {130, None}, queue \in {shell.queue, <<>>} :
            LET c == shell.running
                gone == {q.id : q \in ToSet(shell.queue) \ ToSet(queue)}
                        \cup (IF code = None THEN {c.id} ELSE {})
            IN /\ shell' = Begins(queue)
               /\ stream' = stream \o Ending(c, code, queue)
               /\ lost' = lost \cup (gone \ {User})

StopJob(id) ==
    \/ Stop(id, FALSE) /\ UNCHANGED <<stream, shell, lost>>
    \/ Stop(id, TRUE) /\ Interrupted

-----------------------------------------------------------------------------
(* The user.                                                               *)

\* write_guarded_terminal_input: refused during a capture, except an interrupt.
TypeLine ==
    /\ connected /\ ~Capturing(x)
    /\ disturbances < MaxDisturbances
    /\ disturbances' = disturbances + 1
    /\ x' = TakenOver(x)
    /\ Type([id |-> User, kind |-> "raw"], <<>>)
    /\ UNCHANGED <<armed, connected, history, requests>>

PressInterrupt ==
    /\ connected
    /\ disturbances < MaxDisturbances
    /\ disturbances' = disturbances + 1
    /\ x' = TakenOver(x)
    /\ Interrupted
    /\ UNCHANGED <<armed, connected, keyOf, confirmed, requests>>

\* confirm_recovered, from the menu of the tab
ConfirmRecovered ==
    /\ connected /\ x.recovery # None
    /\ confirmed' = confirmed \cup {x.recovery}
    /\ x' = [x EXCEPT !.recovery = None]
    /\ UNCHANGED <<armed, connected, stream, shell, keyOf, lost, requests, disturbances>>

-----------------------------------------------------------------------------
Init ==
    /\ x = [task |-> None, draining |-> None, retired |-> {}, recovery |-> None,
            jobs |-> [i \in {} |-> NewJob("marked")],
            keys |-> [key \in Keys \cup {NoKey} |-> None], result |-> [op \in Requests |-> "none"],
            waiters |-> [op \in {} |-> {}], open |-> {}]
    /\ armed = FALSE /\ connected = TRUE
    /\ stream = <<>>
    /\ shell = [running |-> None, queue |-> <<>>]
    /\ keyOf = [r \in Requests |-> None]
    /\ confirmed = {} /\ lost = {}
    /\ requests = 0 /\ disturbances = 0

Client ==
    \/ \E o \in Offers, written \in BOOLEAN : Execute(o, written)
    \/ \E r \in Requests : CancelRequest(r)
    \/ \E id \in Requests : StopJob(id)

Next ==
    \/ Client \/ BackgroundResult \/ ProcessEvent \/ DropOutput \/ Poll(FALSE) \/ Disconnect
    \/ ShellEnds
    \/ TypeLine \/ PressInterrupt \/ ConfirmRecovered

\* The clock ticks every 50 ms while it is armed, and a timeout comes due.
Fairness == WF_vars(Poll(TRUE))

Spec == Init /\ [][Next]_vars /\ Fairness

-----------------------------------------------------------------------------
(* Properties.                                                             *)

WellTyped(s) ==
    /\ s \in [task : Tasks \cup {None}, draining : Requests \cup {None},
              retired : SUBSET Filters, recovery : Requests \cup {None},
              jobs : [DOMAIN s.jobs -> Jobs], keys : [Keys \cup {NoKey} -> Requests \cup {None}],
              result : [Requests -> {"none", "pending", "complete", "expired"}],
              waiters : [DOMAIN s.waiters -> SUBSET Requests], open : SUBSET Requests]
    /\ DOMAIN s.jobs \subseteq Requests /\ DOMAIN s.waiters \subseteq Requests

TypeOK ==
    /\ WellTyped(x) /\ armed \in BOOLEAN /\ connected \in BOOLEAN
    /\ stream \in Seq(Events)
    /\ shell \in [running : Commands \cup {None}, queue : Seq(Commands)]
    /\ keyOf \in [Requests -> Keys \cup {NoKey, None}]
    /\ confirmed \subseteq Requests /\ lost \subseteq Requests
    /\ requests \in 0 .. MaxRequests /\ disturbances \in 0 .. MaxDisturbances

InShell == {q.id : q \in ToSet(shell.queue)}
           \cup (IF shell.running = None THEN {} ELSE {shell.running.id})

\* The agents' commands never pile up in the shell: a command is typed only when
\* the one before it has ended, whatever timed out, failed or was cancelled in
\* between, or the user has declared the shell recovered (busy, the recovery
\* guard of finish).
OneCommandInShell == Cardinality(InShell \ (confirmed \cup {User})) <= 1

\* A job that reports a confirmed exit has ended in the shell: no marker of
\* another command, however late, counts as its end (process_output,
\* RetiredCaptureFilter).
ExitIsReal ==
    \A id \in DOMAIN x.jobs :
        x.jobs[id].kind # "background" /\ x.jobs[id].process = "exited" => id \notin InShell

\* A recovery guard does not outlive its command: it stays only while the end of
\* the command is still to come, or was never printed or got lost, for then only
\* the user can tell (Retire, AfterFilters).
GuardNotStuck ==
    \/ x.recovery \in {None} \cup lost \cup InShell
    \/ \E i \in DOMAIN stream : stream[i].type = "end" /\ stream[i].id = x.recovery

\* The output of a job is its command's: nothing of an earlier command that was
\* given up, of the next one, or of what the user runs gets into it
\* (begin_capture, the retired filters, note_manual_takeover).
OutputIsOwn == \A id \in DOMAIN x.jobs : x.jobs[id].output \subseteq {id}

\* A key starts one command, however often the request is repeated: after a
\* refusal, while it runs, when it is done, and when its result has expired
\* (IdempotencyLedger).
OncePerKey ==
    \A key \in Keys : Cardinality({r \in Requests : keyOf[r] = key}) <= 1

\* Every request is answered, or its client has gone: nobody waits for ever for
\* a command, and the clock does not stop before (ensure_terminal_execution_clock,
\* complete_waiters).
EveryoneAnswered == \A r \in Requests : []<>(r \notin x.open)
=============================================================================
