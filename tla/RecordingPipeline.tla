-------------------------- MODULE RecordingPipeline --------------------------
(***************************************************************************)
(* Recording of one terminal session: nyaterm-recording pipeline.rs and the *)
(* part of recording.rs its writer thread calls, with the desktop around it *)
(* (features/recording/state.rs, recording_runtime.rs, the event drain of   *)
(* terminal_search_runtime.rs).                                            *)
(*                                                                         *)
(* Three kinds of threads share the handle: a producer of output, the UI    *)
(* thread and its job threads, and the writer, which takes commands from    *)
(* one unbounded channel.  A reconnect gives the session a new id; ids are  *)
(* 1, 2, ... in that order.  All payloads are raw output: the other kinds   *)
(* differ in the test of the policy and in formatting.  A file is the       *)
(* number of the request that started it, its content the numbers of the   *)
(* accepted payloads.                                                      *)
(*                                                                         *)
(* The manager belongs to the writer alone, so a step of the writer is one  *)
(* access to shared state with everything private around it.               *)
(***************************************************************************)
EXTENDS Integers, Sequences, SequencesExt, FiniteSets

CONSTANTS
    MaxIds,         \* bound: ids of the session, one more than reconnects
    ByteLimit,      \* RECORDING_WRITE_QUEUE_BYTE_LIMIT
    CommandLimit,   \* RECORDING_WRITE_QUEUE_COMMAND_LIMIT
    Sizes,          \* bytes of a payload
    MaxStarts,      \* bound: requests to start
    MaxPayloads,    \* bound: payloads offered
    MaxFaults       \* bound: failures of file operations

ASSUME PipelineConstants ==
    /\ MaxIds \in Nat \ {0} /\ ByteLimit \in Nat /\ CommandLimit \in Nat \ {0}
    /\ Sizes \subseteq Nat \ {0} /\ IsFiniteSet(Sizes)
    /\ MaxStarts \in Nat /\ MaxPayloads \in Nat /\ MaxFaults \in Nat

VARIABLES
    ui,        \* the desktop: current id, stage, busy actions, statuses shown
    channel,   \* commands on their way to the writer
    queue,     \* QueueState and queued_bytes
    producer,  \* the payload a producer is about to enqueue or report
    dropped,   \* DroppedPayloads
    policies,  \* the ids whose capture policy is raw
    writer,    \* whether the writer is between two shared accesses
    rekeyed,   \* rekeyed[id]: "no", "moved" to id + 1, or "gone"
    manager,   \* manager[id]: SessionCaptureState
    files,     \* files[f]: first payload after the request, and the content
    out,       \* StatusPublisher, its mailbox and the events for the UI
    used,      \* what the bounds count
    lost       \* history: the recordings that ran when a payload was refused

vars == <<ui, channel, queue, producer, dropped, policies, writer,
          rekeyed, manager, files, out, used, lost>>

Ids == 1 .. MaxIds
Files == 1 .. MaxStarts
Health == {"recording", "degraded", "failed"}

Idle == [stage |-> "idle"]
NoState == [file |-> -1]
NoStatus == [health |-> "none", file |-> 0]
Unreported == [bytes |-> 0, pending |-> FALSE]

Init ==
    /\ ui = [cur |-> 1, stage |-> "registering", disconnected |-> FALSE,
             busy |-> [i \in Ids |-> FALSE], shown |-> [i \in Ids |-> NoStatus],
             job |-> 0]
    /\ channel = <<>>
    /\ queue = [count |-> 0, bytes |-> 0]
    /\ producer = Idle
    /\ dropped = [i \in Ids |-> Unreported]
    /\ policies = {}
    /\ writer = Idle
    /\ rekeyed = [i \in Ids |-> "no"]
    /\ manager = [i \in Ids |-> NoState]
    /\ files = [f \in Files |-> [from |-> 0, content |-> <<>>]]
    /\ out = [sent |-> [i \in Ids |-> NoStatus],
              mailbox |-> [k \in Ids \X Health |-> NoStatus], events |-> <<>>]
    /\ used = [starts |-> 0, offered |-> 0, accepted |-> 0, faults |-> 0]
    /\ lost = {}

Alive == writer.stage # "ended"

\* Sending fails once the writer has dropped its end of the channel.
Send(commands) == channel' = IF Alive THEN channel \o commands ELSE channel

\* Variant of Current: commands go to the id they name.
CurrentUnresolved(id) == IF rekeyed[id] = "gone" THEN 0 ELSE id

\* current_recording_id; 0 when the session was cleaned up.
Current(id) ==
    LET last == CHOOSE i \in id .. MaxIds :
                    rekeyed[i] # "moved" /\ \A h \in id .. i - 1 : rekeyed[h] = "moved"
    IN  IF rekeyed[last] = "gone" THEN 0 ELSE last

\* current_recording_id(..).unwrap_or(&session_id)
CurrentOr(id) == IF Current(id) = 0 THEN id ELSE Current(id)

IsRecording(m, id) == m[id].file > 0

-----------------------------------------------------------------------------
(* StatusPublisher and the receiver of its events                          *)

StatusOf(m, id) ==
    IF IsRecording(m, id) THEN [health |-> m[id].health, file |-> m[id].file] ELSE NoStatus

Announce(o, event) == [o EXCEPT !.events = Append(@, event)]

\* StatusPublisher::status.  A status of the same state and file is sent again
\* when `again': its byte counts changed and the interval has passed.
Publish(o, m, id, again) ==
    LET status == StatusOf(m, id)
        key == <<id, status.health>>
        skip == status = NoStatus \/ (status = o.sent[id] /\ ~again)
        stored == [o EXCEPT !.sent[id] = status, !.mailbox[key] = status]
    IN  IF skip THEN o
        ELSE IF o.mailbox[key] # NoStatus THEN stored
        ELSE Announce(stored, [event |-> "status", id |-> id, health |-> status.health])

\* StatusPublisher::removed
Removed(o, id) ==
    Announce([o EXCEPT !.sent[id] = NoStatus,
                       !.mailbox = [k \in DOMAIN o.mailbox |->
                                        IF k[1] = id THEN NoStatus ELSE o.mailbox[k]]],
             [event |-> "removed", id |-> id])

\* What the caller of a start or a stop receives.  The main thread runs its
\* tasks in the order they were woken, so the events sent before it come first.
Reply(o, kind, id, ok) == Announce(o, [event |-> "reply", kind |-> kind, id |-> id, ok |-> ok])

-----------------------------------------------------------------------------
(* RecordingManager                                                        *)

Fresh == [file |-> 0, health |-> "recording", early |-> <<>>]

Entry(id) == IF manager[id] = NoState THEN Fresh ELSE manager[id]

\* SessionCaptureState::report_dropped
MarkDropped(m, id) ==
    IF m[id] = NoState \/ m[id].health = "failed" THEN m
    ELSE [m EXCEPT ![id].health = "degraded"]

\* RecordingManager::rekey_session and absorb_early_state
Rekeyed(m, id) ==
    IF m[id] = NoState THEN m
    ELSE [m EXCEPT ![id] = NoState, ![id + 1] = m[id]]

\* What absorb_early_state appends to the file that moves.
EarlyOutput(id) ==
    IF IsRecording(manager, id) /\ manager[id + 1] # NoState THEN manager[id + 1].early
    ELSE <<>>

-----------------------------------------------------------------------------
(* A producer of output                                                    *)

\* Events of the session reach the bridge once they are claimed, at the end of
\* the registration; those of an earlier id may come late.
Speaks(id) == id < ui.cur \/ (id = ui.cur /\ ui.stage # "registering")

\* write_raw_output: capture_policy is read before the queue is locked.
Capture(id, size) ==
    /\ producer = Idle
    /\ Speaks(id)
    /\ used.offered < MaxPayloads
    /\ id \in policies
    /\ producer' = [stage |-> "enqueue", id |-> id, size |-> size]
    /\ used' = [used EXCEPT !.offered = @ + 1]
    /\ UNCHANGED <<ui, channel, queue, dropped, policies, writer, rekeyed,
                   manager, files, out, lost>>

Fits(size) == queue.count < CommandLimit /\ queue.bytes + size <= ByteLimit

\* enqueue_payload, under the lock of the queue.
Enqueue ==
    /\ producer.stage = "enqueue"
    /\ Fits(producer.size)
    /\ Send(<<[op |-> "payload", id |-> producer.id, size |-> producer.size,
               n |-> used.accepted + 1]>>)
    /\ queue' = IF Alive
                THEN [queue EXCEPT !.count = @ + 1, !.bytes = @ + producer.size]
                ELSE queue
    /\ used' = [used EXCEPT !.accepted = @ + (IF Alive THEN 1 ELSE 0)]
    /\ producer' = Idle
    /\ UNCHANGED <<ui, dropped, policies, writer, rekeyed, manager, files,
                   out, lost>>

\* The recordings that run and miss a payload refused now; one that is about to be
\* stopped or replaced is left out.
Missing(id) ==
    {manager[i].file : i \in {j \in Ids : j = Current(id) /\ IsRecording(manager, j)
                              /\ \A c \in Range(channel) :
                                    c.op \notin {"start", "stop", "cleanup"}}}

Refuse ==
    /\ producer.stage = "enqueue"
    /\ ~Fits(producer.size)
    /\ producer' = [producer EXCEPT !.stage = "report"]
    /\ lost' = lost \cup Missing(producer.id)
    /\ UNCHANGED <<ui, channel, queue, dropped, policies, writer, rekeyed,
                   manager, files, out, used>>

\* report_dropped_payload, under the lock of the dropped payloads.
Report ==
    /\ producer.stage = "report"
    /\ LET id == producer.id
       IN  /\ dropped' = [dropped EXCEPT ![id] =
                            [bytes |-> @.bytes + producer.size, pending |-> TRUE]]
           /\ Send(IF dropped[id].pending THEN <<>> ELSE <<[op |-> "report", id |-> id]>>)
    /\ producer' = Idle
    /\ UNCHANGED <<ui, queue, policies, writer, rekeyed, manager, files, out,
                   used, lost>>

-----------------------------------------------------------------------------
(* The UI thread and its jobs.  Once the pipeline is shut down the desktop  *)
(* only finishes what it began.                                            *)

Live == ui.stage = "live"

\* send_start: the policy is inserted unless there is one, then the command sent.
SendStart(auto) ==
    /\ used.starts < MaxStarts
    /\ LET f == used.starts + 1
       IN  /\ used' = [used EXCEPT !.starts = f]
           /\ files' = [files EXCEPT ![f].from = used.accepted + 1]
           /\ Send(<<[op |-> "start", id |-> ui.cur, auto |-> auto, file |-> f]>>)
    /\ policies' = policies \cup {ui.cur}

\* The end of register_session_for_start and register_session_for_reconnect:
\* queue_auto_recording, then the events are claimed.
Register ==
    /\ ui.stage = "registering"
    /\ \/ SendStart(TRUE)
       \/ UNCHANGED <<used, files, channel, policies>>
    /\ ui' = [ui EXCEPT !.stage = "live"]
    /\ UNCHANGED <<queue, producer, dropped, writer, rekeyed, manager, out,
                   lost>>

\* start_recording_with_profile
StartRecording ==
    /\ Live /\ ~ui.disconnected /\ ~ui.busy[ui.cur]
    /\ SendStart(FALSE)
    /\ ui' = [ui EXCEPT !.busy[ui.cur] = TRUE]
    /\ UNCHANGED <<queue, producer, dropped, writer, rekeyed, manager, out,
                   lost>>

\* stop_recording_for_session; a job thread waits for the output first.
StopRecording ==
    /\ Live /\ ~ui.busy[ui.cur] /\ ui.shown[ui.cur] # NoStatus
    /\ ui' = [ui EXCEPT !.busy[ui.cur] = TRUE, !.job = ui.cur]
    /\ UNCHANGED <<channel, queue, producer, dropped, policies, writer,
                   rekeyed, manager, files, out, used, lost>>

\* RecordingWriteHandle::stop_complete, on the job thread.
StopComplete ==
    /\ ui.job # 0
    /\ ui' = [ui EXCEPT !.job = 0]
    /\ Send(<<[op |-> "stop", id |-> ui.job]>>)
    /\ out' = IF Alive THEN out ELSE Reply(out, "stop", ui.job, FALSE)
    /\ UNCHANGED <<queue, producer, dropped, policies, writer, rekeyed,
                   manager, files, used, lost>>

Disconnect ==
    /\ Live /\ ~ui.disconnected
    /\ ui' = [ui EXCEPT !.disconnected = TRUE]
    /\ Send(<<[op |-> "disconnect", id |-> ui.cur]>>)
    /\ UNCHANGED <<queue, producer, dropped, policies, writer, rekeyed,
                   manager, files, out, used, lost>>

\* The policy of the old id becomes that of the new one.
MovedPolicies ==
    IF ui.cur \in policies THEN (policies \ {ui.cur}) \cup {ui.cur + 1} ELSE policies

\* rekey_session of the desktop and of the pipeline.
Reconnect ==
    /\ Live /\ ui.disconnected /\ ui.cur < MaxIds
    /\ ui' = [ui EXCEPT !.cur = @ + 1, !.stage = "registering", !.disconnected = FALSE,
                        !.busy = [ui.busy EXCEPT ![ui.cur + 1] = ui.busy[ui.cur],
                                                 ![ui.cur] = FALSE]]
    /\ policies' = MovedPolicies
    /\ Send(<<[op |-> "rekey", id |-> ui.cur]>>)
    /\ UNCHANGED <<queue, producer, dropped, writer, rekeyed, manager, files,
                   out, used, lost>>

\* cleanup_session of the desktop and of the pipeline.
Close ==
    /\ Live
    /\ ui' = [ui EXCEPT !.stage = "closed", !.busy[ui.cur] = FALSE,
                        !.shown[ui.cur] = NoStatus]
    /\ policies' = policies \ {ui.cur}
    /\ Send(<<[op |-> "cleanup", id |-> ui.cur]>>)
    /\ UNCHANGED <<queue, producer, dropped, writer, rekeyed, manager, files,
                   out, used, lost>>

\* take_shutdown
Shutdown ==
    /\ ui.stage \in {"live", "closed"}
    /\ ui' = [ui EXCEPT !.stage = "quit"]
    /\ Send(<<[op |-> "shutdown", id |-> ui.cur]>>)
    /\ UNCHANGED <<queue, producer, dropped, policies, writer, rekeyed,
                   manager, files, out, used, lost>>

Received(kind) == out.events # <<>> /\ Head(out.events).event = kind

Consumed == [out EXCEPT !.events = Tail(@)]

\* RecordingEventReceiver::resolve takes the newest status of that state.
ApplyStatus ==
    /\ Received("status")
    /\ LET e == Head(out.events)
           key == <<e.id, e.health>>
       IN  /\ out' = [Consumed EXCEPT !.mailbox[key] = NoStatus]
           /\ ui' = IF out.mailbox[key] = NoStatus THEN ui
                    ELSE [ui EXCEPT !.shown[e.id] = out.mailbox[key]]
    /\ UNCHANGED <<channel, queue, producer, dropped, policies, writer,
                   rekeyed, manager, files, used, lost>>

RemoveStatus ==
    /\ Received("removed")
    /\ out' = Consumed
    /\ ui' = [ui EXCEPT !.shown[Head(out.events).id] = NoStatus]
    /\ UNCHANGED <<channel, queue, producer, dropped, policies, writer,
                   rekeyed, manager, files, used, lost>>

\* finish_action, under the id the session has now.
FinishAction == [ui EXCEPT !.busy[ui.cur] = FALSE]

\* A recording that started too late is ended by cleanup_writer_session.
ApplyReply ==
    /\ Received("reply")
    /\ out' = Consumed
    /\ LET e == Head(out.events)
           late == e.kind = "start" /\ e.ok /\ (ui.disconnected \/ ui.stage = "closed")
       IN  /\ ui' = FinishAction
           /\ policies' = IF late THEN policies \ {ui.cur} ELSE policies
           /\ Send(IF late THEN <<[op |-> "cleanup", id |-> ui.cur]>> ELSE <<>>)
    /\ UNCHANGED <<queue, producer, dropped, writer, rekeyed, manager, files,
                   used, lost>>

-----------------------------------------------------------------------------
(* The writer: run_recording_writer                                        *)

Takes(op) == writer = Idle /\ channel # <<>> /\ Head(channel).op = op

Command == Head(channel)

\* A command that touches shared state twice continues in a second step, with the
\* id it was resolved to and whether it succeeds.
Continue(id, ok) == writer' = [stage |-> Command.op, cmd |-> Command, id |-> id, ok |-> ok]
Done == writer' = Idle

Faults(n) == used.faults + n <= MaxFaults /\ used' = [used EXCEPT !.faults = @ + n]

\* Variant of Accepts: a recording that failed is tried again.
AcceptsAgain(state) == state.file > 0

\* A recording that failed takes no more.
Accepts(state) == state.file > 0 /\ state.health # "failed"

\* manager.write_raw_output; a failing write ends the recording's content.
WritePayload ==
    /\ Takes("payload")
    /\ channel' = Tail(channel)
    /\ LET id == Current(Command.id)
       IN  \E again \in BOOLEAN, fault \in {0, 1} :
             /\ Faults(fault)
             /\ fault = 1 => id # 0 /\ IsRecording(manager, id) /\ manager[id].health # "failed"
             /\ IF id = 0 THEN UNCHANGED <<manager, files, out>>
                ELSE LET f == Entry(id).file
                         m == [manager EXCEPT ![id] =
                                 IF f = 0 THEN [Entry(id) EXCEPT !.early = Append(@, Command.n)]
                                 ELSE IF fault = 1 THEN [Entry(id) EXCEPT !.health = "failed"]
                                 ELSE Entry(id)]
                     IN  /\ manager' = m
                         /\ files' = IF fault = 0 /\ Accepts(Entry(id))
                                     THEN [files EXCEPT ![f].content = Append(@, Command.n)]
                                     ELSE files
                         /\ out' = Publish(out, m, id, again)
    /\ Continue(Command.id, TRUE)
    /\ UNCHANGED <<ui, queue, producer, dropped, policies, rekeyed, lost>>

\* release_payload
ReleasePayload ==
    /\ writer.stage = "payload"
    /\ queue' = [count |-> queue.count - 1, bytes |-> queue.bytes - writer.cmd.size]
    /\ Done
    /\ UNCHANGED <<ui, channel, producer, dropped, policies, rekeyed, manager,
                   files, out, used, lost>>

\* start_with_profile, or the recording an automatic start finds; the policy
\* follows the manager.
BeginStart ==
    /\ Takes("start")
    /\ channel' = Tail(channel)
    /\ LET id == Current(Command.id)
           target == CurrentOr(Command.id)
           active == IsRecording(manager, target)
       IN  \E fault \in {0, 1} :
             /\ Faults(fault)
             /\ fault = 1 => id # 0 /\ ~active
             /\ manager' = IF id = 0 \/ active \/ fault = 1 THEN manager
                           ELSE [manager EXCEPT ![id] = [Fresh EXCEPT !.file = Command.file]]
             /\ policies' = IF IsRecording(manager', target) THEN policies \cup {target}
                            ELSE policies \ {target}
             /\ Continue(target, id # 0 /\ fault = 0 /\ (active => Command.auto))
    /\ UNCHANGED <<ui, queue, producer, dropped, rekeyed, files, out, lost>>

\* The caller of an automatic start does not wait for its reply.
EndStart ==
    /\ writer.stage = "start"
    /\ LET o == IF IsRecording(manager, writer.id) THEN Publish(out, manager, writer.id, TRUE)
                ELSE Removed(out, writer.id)
       IN  out' = IF writer.cmd.auto THEN o ELSE Reply(o, "start", writer.cmd.id, writer.ok)
    /\ Done
    /\ UNCHANGED <<ui, channel, queue, producer, dropped, policies, rekeyed,
                   manager, files, used, lost>>

Stopped(m, id) == IF IsRecording(m, id) THEN [m EXCEPT ![id].file = 0] ELSE m

BeginStop ==
    /\ Takes("stop")
    /\ channel' = Tail(channel)
    /\ LET id == CurrentOr(Command.id)
       IN  /\ manager' = Stopped(manager, id)
           /\ policies' = policies \ {id}
           /\ Continue(id, IsRecording(manager, id))
    /\ UNCHANGED <<ui, queue, producer, dropped, rekeyed, files, out, used,
                   lost>>

EndStop ==
    /\ writer.stage = "stop"
    /\ out' = Reply(Removed(out, writer.id), "stop", writer.cmd.id, writer.ok)
    /\ Done
    /\ UNCHANGED <<ui, channel, queue, producer, dropped, policies, rekeyed,
                   manager, files, used, lost>>

\* take_dropped_payloads
Taken(d, id) == [d EXCEPT ![id].bytes = 0, ![id].pending = FALSE]

BeginReport ==
    /\ Takes("report")
    /\ channel' = Tail(channel)
    /\ dropped' = Taken(dropped, Command.id)
    /\ LET id == CurrentOr(Command.id)
       IN  /\ manager' = MarkDropped(manager, id)
           /\ out' = Publish(out, manager', id, FALSE)
           /\ Continue(id, TRUE)
    /\ UNCHANGED <<ui, queue, producer, policies, rekeyed, files, used, lost>>

\* remove_dropped_payloads, when nothing is being recorded.
EndReport ==
    /\ writer.stage = "report"
    /\ dropped' = IF IsRecording(manager, writer.id) THEN dropped
                  ELSE [dropped EXCEPT ![writer.cmd.id] = Unreported]
    /\ Done
    /\ UNCHANGED <<ui, channel, queue, producer, policies, rekeyed, manager,
                   files, out, used, lost>>

\* A session that has moved on keeps its redirection.
Gone(id) == IF rekeyed[id] = "moved" THEN rekeyed ELSE [rekeyed EXCEPT ![id] = "gone"]

CleanupSession ==
    /\ Takes("cleanup")
    /\ channel' = Tail(channel)
    /\ LET id == Command.id
       IN  /\ manager' = [manager EXCEPT ![id] = NoState]
           /\ rekeyed' = Gone(id)
           /\ dropped' = [dropped EXCEPT ![id] = Unreported]
           /\ out' = Removed(out, id)
    /\ UNCHANGED <<ui, queue, producer, policies, writer, files, used, lost>>

\* manager.disconnect_session flushes the file.
DisconnectSession ==
    /\ Takes("disconnect")
    /\ channel' = Tail(channel)
    /\ LET id == Current(Command.id)
       IN  \E fault \in {0, 1} :
             /\ Faults(fault)
             /\ fault = 1 => id # 0 /\ IsRecording(manager, id)
             /\ manager' = IF fault = 1 THEN [manager EXCEPT ![id].health = "failed"]
                           ELSE manager
             /\ out' = IF id = 0 THEN out ELSE Publish(out, manager', id, FALSE)
    /\ UNCHANGED <<ui, queue, producer, dropped, policies, writer, rekeyed,
                   files, lost>>

BeginRekey ==
    /\ Takes("rekey")
    /\ channel' = Tail(channel)
    /\ LET id == Command.id
           m == Rekeyed(manager, id)
       IN  /\ files' = IF EarlyOutput(id) = <<>> THEN files
                       ELSE [files EXCEPT ![manager[id].file].content = @ \o EarlyOutput(id)]
           /\ manager' = IF dropped[id].bytes > 0 THEN MarkDropped(m, id + 1) ELSE m
           /\ rekeyed' = [rekeyed EXCEPT ![id] = "moved"]
           /\ dropped' = Taken(dropped, id)
           /\ Continue(id, TRUE)
    /\ UNCHANGED <<ui, queue, producer, policies, out, used, lost>>

\* Variant of MovedStatus: the status of the old id is not taken back.
AddedStatus(id) == Publish(out, manager, id + 1, TRUE)

MovedStatus(id) == Publish(Removed(out, id), manager, id + 1, TRUE)

EndRekey ==
    /\ writer.stage = "rekey"
    /\ LET id == writer.cmd.id
       IN  /\ dropped' = [dropped EXCEPT ![id] = Unreported]
           /\ out' = MovedStatus(id)
    /\ Done
    /\ UNCHANGED <<ui, channel, queue, producer, policies, rekeyed, manager,
                   files, used, lost>>

\* The periodic pass over the statuses.
Tick(id) ==
    /\ writer = Idle
    /\ out' = Publish(out, manager, id, FALSE)
    /\ out' # out
    /\ UNCHANGED <<ui, channel, queue, producer, dropped, policies, writer,
                   rekeyed, manager, files, used, lost>>

\* flush_recordings
FlushFails(id) ==
    /\ writer = Idle
    /\ IsRecording(manager, id) /\ manager[id].health # "failed"
    /\ Faults(1)
    /\ manager' = [manager EXCEPT ![id].health = "failed"]
    /\ UNCHANGED <<ui, channel, queue, producer, dropped, policies, writer,
                   rekeyed, files, out, lost>>

\* The callers whose commands are dropped with the channel.
Unanswered ==
    LET waits == SelectSeq(channel, LAMBDA c : c.op = "stop" \/ (c.op = "start" /\ ~c.auto))
    IN  [i \in 1 .. Len(waits) |->
            [event |-> "reply", kind |-> waits[i].op, id |-> waits[i].id, ok |-> FALSE]]

\* finish_all, and the channel is closed.
Finish ==
    /\ Takes("shutdown")
    /\ manager' = [i \in Ids |-> Stopped(manager, i)[i]]
    /\ out' = [out EXCEPT !.events = @ \o Unanswered]
    /\ channel' = <<>>
    /\ writer' = [stage |-> "ended"]
    /\ UNCHANGED <<ui, queue, producer, dropped, policies, rekeyed, files,
                   used, lost>>

-----------------------------------------------------------------------------
Produce ==
    \/ \E id \in Ids, size \in Sizes : Capture(id, size)
    \/ Enqueue
    \/ Refuse
    \/ Report

Desktop ==
    \/ Register
    \/ StartRecording
    \/ StopRecording
    \/ Disconnect
    \/ Reconnect
    \/ Close
    \/ Shutdown

ApplyEvent ==
    \/ ApplyStatus
    \/ RemoveStatus
    \/ ApplyReply

Write ==
    \/ WritePayload
    \/ ReleasePayload
    \/ BeginStart
    \/ EndStart
    \/ BeginStop
    \/ EndStop
    \/ BeginReport
    \/ EndReport
    \/ CleanupSession
    \/ DisconnectSession
    \/ BeginRekey
    \/ EndRekey
    \/ Finish

Next ==
    \/ Produce
    \/ Desktop
    \/ StopComplete
    \/ ApplyEvent
    \/ Write
    \/ \E id \in Ids : Tick(id) \/ FlushFails(id)

Spec == Init /\ [][Next]_vars

-----------------------------------------------------------------------------
(* Properties                                                              *)

Reporting ==
    \/ producer.stage = "report"
    \/ \E c \in Range(channel) : c.op = "report"

\* report_dropped_payload: a recording that ran when a payload was refused is
\* degraded or failed, or the report of it is on its way, across coalesced
\* reports and reconnects.
RunningGapsShown ==
    \A i \in Ids :
        IsRecording(manager, i) /\ manager[i].file \in lost =>
            manager[i].health # "recording" \/ Reporting

\* A recording holds the accepted payloads of its session from its request on,
\* in order and without a hole, across a reconnect and late output of the old id.
RecordedWithoutHole ==
    \A f \in Files :
        files[f].content =
            [i \in 1 .. Len(files[f].content) |-> files[f].from + i - 1]

Settled ==
    /\ channel = <<>> /\ writer = Idle /\ out.events = <<>>
    /\ \A id \in Ids : StatusOf(manager, id) \in {NoStatus, out.sent[id]}

\* The coalesced statuses: once all events are applied, what the desktop shows is
\* a recording that runs, with its file and under its current id, whatever was
\* stopped, moved or cleaned up meanwhile (StatusPublisher, resolve).
ShownIsRunning ==
    Settled => \A id \in Ids : ui.shown[id].file \in {0, StatusOf(manager, id).file}
=============================================================================
