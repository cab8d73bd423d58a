# A TLA+ model of NyaTerm

NyaTerm is a desktop terminal: local shells, SSH, Telnet, serial lines and tmux
control mode, file transfers, remote desktops, agents that run commands in
terminals, settings that synchronize between machines. This directory models
the parts that keep state under concurrency, failure or restart: how the output
of many sessions reaches the windows, how one SSH channel in tmux control mode
is split into the sessions of many panes, how agents run commands in a shell the
user types into, how devices synchronize their configuration, and how the
program replaces itself.

Contents: [inventory](#inventory) - [plan](#plan) - [modules](#modules) -
[runs](#runs) - [fairness](#fairness) - [proofs](#proofs) -
[findings](#findings) - [not modelled](#not-modelled) -
[limits of the project](#limits-of-the-project).

## Inventory

Paths are relative to `src/crates/`.

**Session event queue** (`nyaterm-transport/src/session_event_queue.rs`,
`session_types.rs`). One queue carries the events of every session (output,
notices, working directories, pane states, exits) from reader threads and SSH
tasks to one consumer per window.
- State, under one mutex: the events, `queued_output_bytes`, the backpressure
  latch, the producer turn, the cancelled sessions, the consumer of each
  session, `closed`. Four ways to be woken: the condition variables `order`,
  `space`, `ready`, and a tokio `Notify` for tasks.
- Operations: `push`, `push_async`, `cancel_session`, `resume_session`,
  `assign_consumer`, `clear_consumer`, `close`, `push_cleanup_failure`, waits,
  drains for one consumer or for all, with a budget of events and bytes.
- Hard: lost wakeups (threads and tasks wait differently), chunks of one event
  appended in several critical sections, events split by a drain that runs out
  of budget, sessions cancelled, resumed and moved while producers are parked.
- Correct if: the limit holds, every byte is counted once, streams keep their
  order without gap or copy, nobody waits for nothing, nothing of a cancelled
  session remains.

**Session event bridge** (`nyaterm-desktop/src/models/session_event_bridge.rs`,
`features/session/state/mod.rs`, `features/shell/event_pump/`,
`features/session/zmodem_runtime.rs`, `features/tab_transfer.rs`;
`nyaterm-transport/src/zmodem/runtime.rs`). A thread per window drains the queue
and sends output directly to the frame worker of the terminal, or into the
window's own queue when a detector of file transfers wants to see it.
- State: the sessions owned, routed to the window or held for it
  (`pending_ui_sessions`), the consumers of transfers, the window's queue and
  `events.pending`, the detector's withheld bytes, the runtime of a transfer.
- Operations: drain and route, the window's drain and its end, detection, fence
  and hand-off to the transfer, its end, detach and attach of a moving session,
  a move that is given up.
- Hard: two routes to the same terminal; an owner that changes while a thread,
  a queue and a half-finished drain hold pieces of the stream.
- Correct if: every event arrives once, at one owner, and output keeps its
  order, also around control events.

**tmux panes as sessions** (`nyaterm-transport/src/tmux/session.rs`,
`session.rs`, `nyaterm-desktop/src/features/tmux.rs`). The SSH worker follows
the panes of the remote session, registers each as a session, and emits states;
the desktop applies these later and closes the sessions it misses in them.
- State: `ControlSession` of the worker (panes, windows with layouts, exit
  mode, last state emitted), the registry of `SessionManager`, the cancelled
  sessions of the queue, `TmuxHostState` of the desktop.
- Operations: one handler per notification, `reconcile_panes`, `spawn_pane`,
  `drop_pane`, `teardown`, `emit_state`, detach, close of the host, and the
  desktop's `handle_session_tmux_state_event`.
- Hard: three owners of the same fact (worker, registry, desktop) that learn of
  it at different times; pane ids that come back; a close that joins a worker
  parked on a pane's output; a pane that moves between windows.
- Correct if: panes are dropped only when they left, no session is orphaned or
  left mute, closing a host ends its worker.

**tmux pane seeding and flow control** (`tmux/session.rs`). A pane is painted
from `capture-pane` and then follows `%output`; tmux pauses a pane whose client
lags.
- State: `VirtualPane` (seeding, reseed, generation, captured seed, held
  output), `paused_panes`, the retry timer, lines to send, answers expected.
- Operations: `seed_pane`, `invalidate_seed`, `route_output`, `response_kind`,
  `handle_block`, `continue_paused`, `retry_paused_seed`.
- Hard: answers correlated by their order although a line of commands stops at
  its first error; output older and newer than a snapshot told apart by
  estimated times; retries that meet a seed under way.
- Correct if: answers are matched, nothing is lost, a paused pane recovers.

**tmux command mailbox and key input** (`tmux/mailbox.rs`, `tmux/input.rs`,
`tmux/session.rs`, `session.rs`). Callers of all panes share one budget; the
worker batches the input into `send-keys` lines.
- State: bytes and items in use, generation, `suspended`, `stopped`, the detach
  and close requests, the channel; input buffers and the permits they hold, the
  queue of lines, the line being sent, `close_requested` of each pane.
- Operations: `reserve`, `write`, `enqueue`, `send`, `resume`,
  `discard_pending`, `Control::recv`, `buffer_pane_input`, `flush_input`,
  `queue_batch`, `start_send`, `request_detach`, `tmux_close_pane`.
- Hard: permits given back on many ways out; a caller that holds one across a
  detach and a reattach; a queue whose overflow ends the session.
- Correct if: input is paid for until it is sent, arrives whole and in order or
  not at all, nothing of an earlier attachment runs, closes and detaches come to
  an end.

**Terminal execution for agents**
(`nyaterm-desktop/src/features/capability_runtime/terminal_execution.rs`,
`terminal_execution/jobs.rs`, `idempotency.rs`;
`nyaterm-terminal/src/agent_capture.rs`). An agent's command is typed into the
shell of a session, wrapped in markers; what comes between them is its output.
- State: the task of a session, retired filters, recovery guards, jobs, the
  ledger of idempotent requests and those who wait for them, the clock.
- Operations: execute, join, start, stop, cancel, process output, note dropped
  output, poll, disconnect, the user's input and confirmation.
- Hard: a command that ends after it was given up; a shell that is still busy; a
  bounded list of filters; one request made several times; a clock that stops
  when it finds nothing to do.
- Correct if: one command at a time is in the shell, an exit code and an output
  belong to the command they are reported for, a guard is lifted in the end, a
  key runs once, everyone is answered.

**Cloud sync** (`nyaterm-sync/src/engine.rs`, `protocol.rs`;
`nyaterm-store/src/storage/cloud_sync_v4.rs`, `sync_v4.rs`;
`nyaterm-desktop/src/features/sync/`). Devices keep replicas (Automerge) of the
configuration and exchange them as immutable publications of a writer, numbered.
- State: the business data with its edit journal and generation, the record of a
  destination (replica, baseline, writer, next number, pending publication,
  observed ones), the preview a user looks at, the remote directory.
- Operations: prepare, resolve, confirm, apply in one transaction, reserve,
  upload, verify, register, acknowledge; automatic sync.
- Hard: edits between preview and apply; a crash or a failed write between any
  two steps; databases restored from a copy; concurrent values.
- Correct if: an edit is never lost silently, a number names one publication,
  damage is repaired, devices converge, and what an apply wrote is not taken for
  an edit.

**Updater** (`nyaterm-updater/src/install.rs`, `install/portable.rs`). A helper
replaces the files of the installation and starts the program.
- State: the files in the installation, the backup and the work directory.
- Operations: moves to the backup and into place, rollback, the installer, the
  bundle's moves, start, clean-up.
- Hard: any step may fail, the rollback too, and the helper may die at any step.
- Correct if: the old version remains until the new one is complete, and no
  mixture is started.

**Recording pipeline** (`nyaterm-recording/src/pipeline.rs`, `recording.rs`;
`nyaterm-desktop/src/features/recording/state.rs`,
`features/session/recording_runtime.rs`,
`features/terminal/terminal_search_runtime.rs`). Threads that see the output of a
session hand it to a writer thread, which keeps transcripts and writes files.
- State: the command channel with its budget of bytes and commands, the dropped
  payloads by session, capture policies, redirections of ids, the captured
  sessions, the mailboxes of statuses and search results, and what the desktop
  shows and waits for.
- Operations: write output, start, stop, disconnect, rekey, clean up, search,
  shut down; the writer's handling of each; the desktop's handling of the events.
- Hard: three kinds of threads with four locks; ids that change while commands
  under the old id are queued; reports, statuses and results that are coalesced.
- Correct if: a gap in a recording is shown, a file has no other hole, and the
  desktop shows what runs.

How they interact. The worker of an SSH session pushes the output of each pane
and its states into the event queue and may park there. `spawn_pane` resumes the
pane's id in the queue, `drop_pane` cancels it. `SessionManager` holds the
registry lock while it looks a session up and writes into its mailbox, and
`close_detached` cancels the host and its panes in the queue before a reaper
thread joins the worker. The bridge of a window is the consumer of the queue; a
transfer becomes another one. The window hands the output it drains to the
terminal executions before the terminal shows it. The frame worker also hands it
to the recording writer, whose sessions the desktop moves to a new id on a
reconnect. Sync, store and updater are apart from these. Each module keeps of its
neighbours what its own properties need: `SessionBridge` a queue of one session with an owner, as `SessionStreams`
promises it; `TerminalExecution` output that arrives in order or is dropped;
`TmuxPanes` the cancelled sessions and the states queued; `TmuxInput` which
panes exist.

`PROJECT.json` lists every component with its status, and under `hazards` what
is hard to test in them, with the properties that watch it.

## Plan

1. `SessionEventQueue`, `SessionStreams` and the refinement, with proofs. *Done.*
2. `TmuxPanes`, with proofs: who owns a pane. *Done.*
3. `TmuxSeed`: what a pane shows. *Done for a pane that is not dropped.* To
   come: respawn under the same id, user commands and their barrier.
4. `TmuxInput`, with proofs: what is typed. *Done.*
5. `SessionBridge`: the consumer of the queue. *Done for one session.*
6. `TerminalExecution` with jobs and idempotent requests. *Done for one
   session.* To come: quotas, approvals, `session_open`.
7. `CloudSync`. *Done for one resource with one field.*
8. `AppUpdate`. *Done.*
9. `RecordingPipeline`. *Done for raw output of one session.* To come: searches
   of the history, transcripts and the recording of commands.
10. Proofs of the safety properties. *Done:* update, sync with `Converged`,
    execution, `ChunksNotInterleaved`, recording, `BlocksMatchRequests`. To come:
    `OutputInOrder`.
11. `WriteMailbox` (writer and SSH mailboxes, with the reaper); `StoreRuntime`;
    the heartbeat of remote desktops.

## Modules

Every definition that models code has its lines in `PROJECT.json` under `map`.
Definitions introduced as a variant of another, just before it, are plausible
mistakes; `PROJECT.json` lists under `mutants` which property catches each.

### SessionEventQueue, SessionStreams

An action is one critical section of the mutex. A drain takes a step per event
with `draining` naming who holds the mutex, so the bounded loop is explicit.
Notifications are issued after the mutex is released and travel on their own
(`notify`, `NotifyAll`), and a condition variable may wake spuriously. The queue
is a set of events with the ticket of their `push_back`. An output event is an
interval of the stream of its session, which makes "no gap, no copy, in order"
a statement about intervals. Producers loop through `Push`, `TakeTurn` or
`WaitForTurn`, `PushChunk` or `WaitForSpace`, `ReleaseTurn` and give up with
`RefuseTurn` and `AbandonEvent`. `CancelSession` includes the clean-up that the
close of a local session starts (`reaping`, `CleanupFailure`). Left out: lock
poisoning and the counters of `SessionDrain`.

`SessionStreams` is what the queue promises: per session a stream with control
events at places of it, appended at the end, taken from the front by the
consumer it is assigned to, dropped by a cancel. `SessionEventQueue` instances it
(`Streams`): the length of a stream is what was appended, its marks are the
control events queued (`MarksOf`), its clock the next ticket. Everything else of
the queue is hidden; `ImplementsStreams` is checked and proved.

### SessionBridge

One session, two windows, one transfer at a time. The stream is a sequence of
numbered events: output, output that begins a transfer, control events. The
bridge thread drains under the gate (`DrainSource`), routes one event per step
(`RouteDirect`, `RouteToUi`) and flushes; the window starts a drain, pops,
inspects, releases what the detectors withheld, and finishes, which is when
`pending_ui_sessions` may be cleared (`StillHeld`). `StartTransfer` is
`process_zmodem_output` with the fence: what is queued or in the window's drain
goes to the transfer. The runtime drains, steps, and publishes its remains,
which the window receives. `Detach` and `Attach` are a move, which asks nothing of
the detectors; when the frame worker may leave a move unanswered (`FrameMayStall`),
`Detach` includes `resume_sessions_after_failed_transfer`. A tab the other window
refuses is attached again where it came from. The configuration of the bridge and the
routing of its sessions are set together (`SyncPolicy`) or the former alone
(`SyncConfig`). Two histories mark what a detector held at a move and what a failed
move gave back, so that an event that is overtaken can be traced to the move:
`OutputInOrder` excepts the former and nothing else, and `MovesKeepAnOrder` is what the
comments promise of both.

### TmuxPanes

tmux is a server with panes in windows (`remote`) and a channel of messages in
order (`wire`). A handler of the worker starts with one action (`LayoutChange`,
`WindowsRefresh`, ...) that leaves a `task`: the panes to drop and to spawn and
what comes last. Each drop and spawn is a step of its own because the registry
lock is taken for each, and a drop or a close by the desktop is two steps:
out of the registry, then cancelled in the queue. `EmitState` suppresses a
state equal to the last one, as the code does. The desktop takes a state,
closes the panes it misses one at a time and adopts the others. Window trees,
names and focus are left out. Requests to kill a pane act through tmux and are
covered by `PaneGoes`.

### TmuxSeed

The output of a pane is numbered; a snapshot is the number of chunks written.
`Write`, `NotifyHeld`, `PausePane`, `RunSeed` and `RunQuery` are tmux: output may
be held back and then carries its age, a pause discards it, a line of commands
stops at its first failure. The client is the seeding state machine of the code,
one action per message and timer. `Steady` says whether all messages take the
same time; the code's comparison of times is exact only then.

### TmuxInput

A byte is the number of the permit it came with and its place in that input, so
properties can follow it and tell the order of any two bytes.
Callers hold the registry lock from the lookup to the end of the call (`hand`),
which is why the worker neither maps nor drops a pane meanwhile; between
`Reserve` and `Enqueue` it may do all the rest, a whole detach and reattach
included. A batch is cut at `BatchBytes`, or after a key that begins before
(`batch_len`), and becomes one line (text) or one line per byte (keys), the two
extremes of `split_input`. `OtherLine` stands for every line the worker queues
without asking for room. The module has the handshake before an attachment,
because `tmux_active` is already set then, and both steps of `discard_pending`.
Which bytes are keys, and input typed into the host session and routed to the
active pane, are left out. `drop_pane` releases the permits of a pane whose
first lines may still wait in the queue.

### TerminalExecution

One session. The shell (external) runs the lines typed into it one after the
other; its output is a stream of events, text of a line or a marker, that the
window processes in order or loses (`DropOutput`). `Execute` is
`start_terminal_execution` and `dispatch_terminal_start` with their refusals, for
the four ways a command is run: marked and waited for, marked as a job, raw
(ended by the prompt), in the background. `Processed` runs an event through the
retired filters and the capture as `process_output` does; `Finish` is `finish`
with guards, filters, jobs, ledger and waiters. `Poll(due)` is a tick of the
clock, at which time limits may have come due. A request that is answered and
one whose client has gone both leave `x.open`. The retired filters are a set:
commands run one at a time and have ascending identifiers, so the oldest filter of
the code's list is the one with the least.

### CloudSync

A replica is a set of operations that name the ones they overwrite; merging is
union, candidates are the operations nobody overwrote. One resource with a
presence and one field stands for the catalogue. A publication is the replica
it carries, so equal bytes are equal identities. Writers are `<<device,
process>>`, as `PROCESS_ACTOR` makes them. An operation holds the operation lock
from `AutoSync` or `ApplyHeld` to its end; `Confirm`, `Apply`, `Reserve`,
`Upload`, `Register`, `Acknowledge` are its steps, each of which may be the last
before a `Restart`. `Upload` leaves nothing, a damaged or a whole object and may
report an error after any of them. `RestoreCopy` starts a process on a copy of any
device's database. Preparing is one step: the directory is listed and read, and
whatever changes meanwhile is caught by `Confirm`. `intent` and `touched` are
history: what the user set last, and whether after the last apply.

### AppUpdate

The portable commit moves each file of the layout to the backup, each new one
into place, and rolls back in the same order on the first failure; the installed
kind copies the directory and runs an installer that may fail half way; the
bundle is moved as a whole. `Crash` ends the helper at any step, `StartNew` and
`StartOld` are what it starts. A rename is atomic (the directories are on one file
system).

### RecordingPipeline

One session, its ids 1, 2, ... in the order of its reconnects. `Capture`,
`Enqueue`, `Refuse` and `Report` are a producer of output, whose test of the
policy, reservation and report take different locks (output without a policy
changes nothing); `Register` to `Shutdown` the UI thread, `StopComplete` its job
thread; `ApplyStatus` to `ApplyReply` what the UI thread receives; the others the
writer, one `Begin...` and `End...` for a command that touches shared state twice
where another thread may come between. A file is the number of the request that
started it and its content the numbers of the accepted payloads; all output is
raw. `lost` remembers for the property which recordings missed a payload while
they ran.

Assumed: the main thread runs its tasks in the order they were woken, so the
statuses sent before a reply are applied before it; and the events of a session
reach the bridge after its registration has queued the automatic start.

## Runs

Times are of two workers with coverage, on a laptop-sized machine.

| Run | Checks | Instance | States |
|---|---|---|---|
| `event_queue` | six invariants, `ImplementsStreams` | a task and a thread push to a pane and a local session, one window and the global drain, limit 4 with chunks of 2 and low watermark 2, budgets that split events, two operations | 1.6 M, 3 min |
| `event_queue_liveness` | `TurnReleased` | two producers of one pane | 0.1 M, 1 min |
| `tmux_panes` | `PanesSilentAfterClose`, `NoOrphanSessions`, `DropsOnlyPanesThatLeft`, `CloseEndsWorker` | one pane, two windows, two changes, two messages in flight, two states queued | 0.4 M, 1.3 min |
| `tmux_panes_respawn` | `ProjectedPanesLive`, violated | two panes, no changes, two states queued | |
| `tmux_seed` | `BlocksMatchRequests`, `NothingLost`, `PaneRecoversAlone` | three chunks, two pauses, a failing command, a resize or query, equal delays | 0.9 M, 1.2 min |
| `tmux_input` | three safety properties, `CloseResolved`, `RoomReturns`, `DetachEnds` | one pane, inputs of 3 bytes, one item, batches of 2, queue of 3 lines, two attachments | 0.2 M, 3.2 min |
| `session_bridge` | `NothingLostNorTwice`, `OutputInOrder` | two windows, three events, a probe that outlives its trigger, transfers and two moves, a frame worker that answers | 0.8 M, 1 min |
| `bridge_moves` | `MovesKeepAnOrder`, violated | four events, two moves that the frame worker may leave unanswered, a tab that comes back to its window | |
| `cloud_sync` | `NoFork`, `DamageIsRepairable`, `EditKept`, `CaptureIsEdits`, `Converged`, `ReplacedWhenSuperseded` | two devices, two values (symmetric), one edit, three prepares, one fault | 0.9 M, 2 min |
| `app_update` | `OldFilesKept`, `StartsWhole` | three installers, failures and a crash anywhere | 8 k |
| `terminal_execution` | five invariants, `EveryoneAnswered` | two requests of four kinds, two keys, one filter kept, one disturbance by the user | 0.6 M, 2.8 min |
| `recording_pipeline` | `RunningGapsShown`, `RecordedWithoutHole`, `ShownIsRunning` | two ids, one start, two payloads, room for one command, one failing file operation | 1.3 M, 1.2 min |

Why these bounds are enough to be interesting. Queue: an event is larger than a
chunk and two events exceed the limit, so chunking, parking, split drains and
backpressure all happen, and two operations allow a cancel and a resume, or an
assignment and a cancel, under a parked producer. More windows and longer
histories are left to the theorems, which hold for all of them.
Panes: two changes let a pane move out and back or move and die, two messages in
flight let the two reports of a move arrive apart, a reattach needs no change;
the safety properties are proved for any number of panes and windows, the second
pane matters only to the run that is violated.
Seed: two pauses let the second one meet the answers to the first seed; three
chunks allow one before, one inside and one after a snapshot.
Input: an input of 3 bytes spans two batches and fills the mailbox; a queue of 3
is half full with one line; the second attachment meets permits of the first. The run
sees the order of the bytes, keys and batches of one input. The order of several inputs,
and several panes, are the theorem's (`InputReachesTmuxInOrder`); one attachment with two
inputs of two bytes in the mailbox was also checked once, in 7.7 million states.
Bridge: a trigger, what its probe sends through the window's queue and what overtakes
either; a second move returns to a window with what the first one left in its flags.
Four events with one move, and four events with two moves and a probe that ends with its
trigger, were checked as well. In `bridge_moves` the tab comes back to the window it left:
with two windows the same trace is found after six times as many states.
Sync: three prepares let a device publish, the other merge, and the first merge
back; the initial databases are equal, different or empty, so joining devices
conflict without an edit, and the edit makes a second generation. The one fault is
a crash, a failed write, a refused application or a restored copy, at every step.
Execution: with one filter kept, the second command evicts the filter of the
first, which takes eight in the code.
Recording: a reconnect at every point of a recording, with output of both ids in
the channel; the second payload is refused while the first waits, before, during
or after the reconnect, and the file operation that fails may be any.
Deadlock is not checked because each of these systems may really end: the queue
closes, the host is closed, the bounds are used up.

What each property says is in the comment above it. The type invariants
(`TypeOK`) are not part of the runs' properties; those of queue, panes, execution,
sync and update are proved, and what `Typed` says of seed and recording.

## Fairness

- Queue: a producer inside a push makes progress, a consumer with an event comes
  back to drain (`SF`, because others take and give back the mutex in between:
  a fair lock gets it in the end, weak fairness would not say so); a
  notification issued arrives and a drain in progress ends (`WF`). New pushes
  and spurious wakeups are not assumed. `TurnReleased` additionally assumes that
  in the end every live session has a consumer; the code does not guarantee
  this, and without it the queue blocks as designed.
- Panes: a handler that has begun and the desktop's handler go on, a shell
  without its session ends, a push parked on a cancelled session returns (`WF`).
  Messages may come without end, but the `select` of `run_control_session` is
  biased and polls the host's mailbox and the deadline first, so these get their
  turn (`SF`). Nothing is assumed of space in the queue.
- Seed: the worker's thread runs and tmux runs its commands (`WF`); no failure
  and no output is forced. `PaneRecoversAlone` is recovery as long as nobody asks
  for a seed while another is under way.
- Input: callers return, sends and handshakes end within their time-outs, tmux
  answers (`WF`); the mailbox and the input timer are polled before the channel
  and the registry lock is shared with callers (`SF`). An answer to the detach
  is not assumed.
- Execution: the clock ticks every 50 ms while it is armed, and a time limit
  comes due in the end (`WF` of `Poll(TRUE)`). Nothing is assumed of the shell, of
  the output or of the workers of background commands.
- Bridge, sync, update and recording are checked for safety only.

## Proofs

TLAPS proves, for every value of the constants that satisfies the named
assumptions (`QueueConstants`, `QueueActors`, `PaneConstants`,
`InputConstants`, `BatchFits`, `NobodyIsNone`, `PayloadAssumption`, `SyncConstants`,
`ExecutionConstants`, `SeedConstants`, `PipelineConstants`), what follows. Apart from the relations between limits named
below, these say what the constants are: numbers, and values that differ.

**SessionEventQueueProofs.** The assumptions on numbers are the ones the code's
constants satisfy: a low watermark below the limit, and a chunk no larger than
the gap between them, without which a parked producer need never fit.
- `QueueTypeCorrect`: `TypeOK` is not inductive, since `pos - taken` could leave
  the naturals. `TypeInv` adds that events are intervals of what was appended
  and that no more is taken than was appended (`Intervals`), and that a held
  mutex has a holder.
- `QueueIsBounded` (`QueuedWithinLimit`), `BackpressureEnds`
  (`BackpressureHasCause`), `NoProducerStranded`, `NoConsumerStranded`,
  `CancelDropsEvents`: one invariant, `SafetyInv`, which adds `TurnInv`: the turn
  has exactly one holder, so a producer waiting for it has somebody to wait for.
- `StreamsAreIntact`: `StreamInv` adds that tickets are distinct and below
  `tail`, that a session's events follow each other in ticket order, that what
  is queued is what was appended and not taken, and that clean-up diagnostics,
  which are pushed without a turn, are of cancelled local sessions, whose ids do
  not come back.
- `ChunksStayTogether`: `ChunksInv` adds `Pushed`: behind a part of the event a
  producer is pushing there is only more of that event, and an event it waits to push
  has no part in the queue. It holds because the turn has one holder (`TurnInv`).
  Diagnostics of clean-ups are pushed without a turn and are excepted.
- `QueueImplementsStreams`: every step of the queue is a step of `SessionStreams`
  or leaves its variables alone. A drain takes the first event its consumer may
  see, and only `StreamInv` says that this is the front of the stream of its
  session: that is what the refinement rests on.

**TmuxPanesProofs.**
- `PanesTypeCorrect`.
- `CloseSilencesPanes`, `RegisteredPanesHaveWorkers`: `PanesInv` adds `Covered`:
  a pane of the worker is registered, or cancelled, or the one the desktop has
  taken out of the registry and is about to cancel.
- `WorkerKeepsMovingPanes`: the argument follows the order of the channel.
  `LeftInv` says that all panes the worker knows or a message names are in the
  remote session or have left it (`Mentioned`), that exits reported have
  happened (`ExitsHappened`), that a pane seen before an answer to
  `list-windows`, or named ahead of it on the wire, is in that answer or has left
  (`SnapshotsInOrder`), and that what a task is about to drop has left
  (`DropsJustified`).

**TmuxInputProofs.**
- `DetachedEpochsNeverRun`: `EpochInv` says that outside `discard_pending` every
  permit in the channel, the buffers, the queue and the send carries the current
  generation, and that a torn down session holds neither panes nor a send. The
  generation is compared under the same lock that the discard takes, and it is
  this that the proof uses: the permit in a caller's hand may be older.
- `TypingNeverEndsTheSession`: from `QueueHasRoom` and `BatchFits`, that a batch
  of keys fits into half of the queue (256 of 1024 in the code).
- `InputReachesTmuxInOrder` (`InputIntact`), for any number of inputs and panes: the
  input of a pane is in four places, the send, the queue of lines, the buffer and the
  channel. `Ordered` says that, read in this order, they are what is owed to the pane,
  byte for byte. Instead of flattening the lines and the commands, which would be a
  recursion, it asks for places in what is owed at which one line or command ends and the
  next begins (`Chain`); what a step does to these places is proved once for any
  sequences (`TypedInOrder`, `BufferedInOrder`, `QueuedInOrder`, `StartedInOrder`,
  `SentInOrder`). `Between` adds what an attachment begins with: buffers without a pane
  are empty, the queue and the channel hold no input, and a permit for input in a
  caller's hand is of an earlier generation and will be refused.

**TmuxSeedProofs.** For any limits and any number of chunks, pauses, failures and
requests.
- `SeedTypes`.
- `AnswersMatched`: `BlocksMatchRequests` speaks of the first message, its invariant
  `Aligned` of all of them. There is a place in the list of expected answers up to which
  the messages on the wire settle it and from which the lines of commands not yet run
  ask for it, both in order and without a gap. A block that failed settles the rest of
  its line, which tmux does not answer and `Skip` removes; that the client removes
  exactly what tmux leaves out, also when a resumption is skipped by the failure of the
  capture or of the cursor query before it, is what the proof is about.

**TerminalExecutionProofs.** All five safety properties, for any number of
requests, keys, retired filters (`MaxRetired` at least 1) and disturbances, and with
a stream and a queue of the shell of any length. Of requests `ExecutionConstants`
says what the code enforces: an asynchronous command has markers, and a key is used
for one request only (the fingerprint of the ledger). `ExecutionInv` is `TypeOK`,
`SafeNow` and `KeysInv`. `SafeNow` instantiates `Safe`, a predicate of executor,
stream, shell and history, so that what an operation does to the executor and what
the shell does to the stream can be argued apart. Its parts:
- `TaskInv`: the task and the recovery guard exclude each other. With `Guarded`,
  that the executor knows of every command in the shell by one or the other, this is
  `CommandsOneAtATime`.
- `Ended`: what has printed its end marker has left the shell. It gives
  `ReportedExitIsReal`, and needs `OneByOne` (a command is in the shell once) and
  `Fresh` (identifiers are new), or the end of one line would not mean the end of
  the command.
- `Prompted`: a raw command ends at a prompt, and a prompt after its boundary comes
  after its end. This is what the boundary in the stream is for: without it the
  prompt of the line before would end the command.
- `Guard`, with `Follows` before the command times out: the end of the guarded
  command is to come, and its filter is there to see it, hence `GuardIsReleased`.
  Boundary, start and end follow each other in the stream, and the phase of the
  capture says which are behind. A filter is evicted only when a newer command is
  retired, which the guard does not let in.
- `Own`: the command the executor follows was typed last, so that from its first
  output on all output is its own, until the user takes over. `OutputBelongsToJob`.
- `KeysInv`: a started request is the one its key is registered for, and a key is
  registered once. `KeyStartsOnce`.

The lemmas go from jobs (`ExitedJob` to `AppendOutputJobs`) to operations on the
executor (`ConcludeCore`, `FinishOver`, ...), to moves of the executor with stream and
shell fixed (`Move...`), to what happens to stream and shell (`StreamTail`,
`ShellStep`, `TaskInserted`, ...), to one `...Step` per action.

**CloudSyncProofs.** For any devices, values and numbers of edits, faults and
processes.
- `SyncTypeCorrect`; each step that writes a database has a lemma for what it
  writes (`ApplyEffect`, `ReserveEffect`, `AcknowledgeEffect`, `EditEffect`,
  `ResolveEffect`, `UploadEffect`), on which the other proofs rest.
- `NumbersNeverFork`: `NoFork` speaks of the remote; the invariant `NumbersInv` has
  to speak of every publication `Issued`, reserved in a database or in a copy of one
  too. It says that numbers of the running process are below the next one of its
  record, that a record belongs to a process that was started, and that previews and
  publishing operations carry the record of the running process. A database put back
  from a copy is harmless because the process that opens it is new and takes the
  record over with numbers of its own.
- `DamageStaysRepairable`: `RepairInv` adds that a publication has one object, and that
  what is registered or acknowledged was uploaded whole. Proved from `NumbersInv`: only
  with unique numbers does repairing one's own object not damage another's.
- `AppliesOnlyTheUndisputed`, an action property: every preview shows what its
  replica materializes to over the state it was made from (`PreviewsMaterialized`), and
  `MaterializeSupersedes` is about that operator alone.
- `EditsAreKept`, `CapturesAreEdits`: `EditsInv` says of every database, and of its
  copy, that what the user wants is in the replica or the next capture writes it
  (`Kept`), that the journal knows exactly what was edited since the last apply
  (`Tracked`), and that the operations of a replica have numbers below its size
  (`Numbered`), without which a captured operation might be one that is there already.
  Of every preview it says that it holds what the user wants unless the user edited
  after it, and then the generation stops it.
- `DevicesConverge`: a register without a candidate leaves each device its own value, so
  the theorem needs that a register that was written has one (`WrittenHasCandidate`).
  This follows from `ConvergenceInv`: an operation overwrote earlier ones of its own
  register (`Causal`), and an identity names one operation among all that databases,
  copies and the remote hold (`OneName(Written)`), or merging could overwrite what nobody
  overwrote. Names are unique because a running process has all its operations, and those
  of its branches, in its database (`Named`) and numbers new ones above them (`Fresh`);
  previews carry fresh operations that no other transaction may have used (`Sourced`).
  Every value in a baseline or on display was written (`Covered`), and a database that is
  neither edited nor deferred shows what its replica materializes to (`Shown`). Then
  `MaterializeAgrees`: without conflicts the result does not depend on the device.

**AppUpdateProofs.** For a program of any number of files.
- `OldVersionKept`, `StartedVersionWhole`, `UpdateTypeCorrect`: `UpdateInv` adds what
  the transaction's list is worth (`Listed`), how far the loops over the files have
  come (`Forward`), what each stage relies on (`Stages`) and what may be started
  (`Outcome`). The rollback works from the end of the list, and `MaxIsMember` is the one fact
  about it that needs the finiteness of the list.

**RecordingPipelineProofs.** For any number of ids, recordings, payloads, limits and
failures of file operations. `Inv` is `Base`, which also holds after the writer has ended,
and, while it runs, `Running`:
- `AtId(w)`: the session has the id `w` for the writer and a later or the same one for
  the desktop; the rekeys between are in the channel, in order, each before the commands
  of the later ids. Ids before `w` lead to it and nothing is recorded under another id.
- `AtPayload(n)`: the payloads in the channel are those from `n` to the last one accepted,
  each request to start is between the payloads accepted before and after it, and the
  recording that runs has come to `n`. With `AtId`, which says that every payload reaches
  the recording under whatever id it was offered, this is `RecordingHoleFree`.
- `FreshFiles`: a request on its way is for a file later than all that were used.
- `PendingReported`: a mark under which drops are coalesced has its report in the channel,
  hence `GapsShown`.
- `StatusesFresh`, `ShownFresh`: a status that waits or is shown is of the file recorded
  under its id, except while the writer takes the recording away (`Leaving`) or the
  removal is among the events (`RemovalComes`). Once the events are applied neither is the
  case: `ShownFollows`.
Each action has a lemma (`...Keeps`), and `PipelineTypes` is part of the invariant.

Only model-checked:
- liveness, which is beyond the prover, as is `ENABLED`;
- `ByteAccounting`, `NothingLostNorTwice` and `NothingLost`, which are about sums, bags
  and a folded display: what these operators compute is defined by recursion;
- `OutputInOrder`, which has no proof yet.

## Findings

Where the code and what its comments or tests say of it differ; each is a run
that TLC refutes.

1. `tmux_panes_respawn`: on a reattach the worker may emit a state before the
   answer to `list-windows`. The desktop, applying it late, closes panes the
   worker has just registered again; they stay mapped and mute.
2. `bridge_moves`, first half of the trace: when the frame worker does not give up a
   session that is to move, its events are put back for the window without holding the
   session for it, and later output overtakes them.
3. `bridge_moves`, second half: a tab may move while a detector withholds bytes of its
   session. Its routing is cleared when it leaves and not set where it arrives; once a
   drain of the window has ended, later text goes directly to the frame worker and
   overtakes them, although `session/state/mod.rs:401-402` says that they precede it.

The run has one property for the two, `HandoffOrdered \/ DetectorHeldFirst`: a
behaviour that refutes it must break the first promise and the second, each for an event
marked at its own move.

Observations that are not runs:
- A continuation of a paused pane fails, a resize has already asked for the next
  seed, and the retry timer fires while that one is under way: the retry is given
  up and the timer disarmed, so the pane stays paused until something else seeds it
  (`tmux/session.rs:1646`). `PaneRecoversAlone` therefore excepts such requests.
- With delays that differ (`Steady` FALSE), output written after a snapshot but
  delivered faster than the snapshot's block is taken for older and dropped
  (`tmux/session.rs:196-201`).
- Output buffered for a pane that is paused before it is mapped is pushed again
  after the snapshot that holds it (`tmux/session.rs:1421`).
- A field the user adds and takes away again before the next sync is not captured,
  since it differs neither from the baseline nor is it there to be compared with the
  journal (`nyaterm-sync/src/engine.rs:318-376`). `CaptureIsEdits` therefore asks for a value that
  is present or a state that differs.
- Commands and a detach accepted during a handshake that ends with the exit of
  tmux stay in the mailbox for the next attachment (`HandshakeExited`).
- Control events are not counted against the queue's limit.
- An edit of a register that is in conflict, or whose remote value was deferred,
  overwrites candidates the user has not seen.
- When the rollback of an installed update fails, the half-installed directory is
  started; the copy of the old one stays beside it. For a portable update the
  check of `recovery_pending` before the start never decides anything.
- A cancellation that races a confirmed end retires a filter that never sees its
  marker; it does no harm.
- Drop reports are coalesced. One queued before a start takes the place of that for
  a payload dropped after it, and the start resets the state: the new recording has
  a gap and is not degraded (`pipeline.rs:497`). `RunningGapsShown` is about
  recordings that run.
- A stop issued before a reconnect and processed after it removes the capture policy
  of the new id, which the automatic start has just inserted; output is filtered
  until the writer comes to that start (`pipeline.rs:981`).
- Removing a status empties the mailbox but leaves its event queued
  (`pipeline.rs:861`). Followed by a new recording, the old event takes the new
  status, the removal hides it, and the new event finds nothing: the recording is
  not shown until its byte count changes. `ShownIsRunning` says the converse, that
  what is shown runs.
- A recording whose start is answered after its session was disconnected is
  cancelled by cleaning up the session, with the transcript of a tab that is still
  open (`recording_runtime.rs:110`).
- `absorb_early_state` is not reached from the desktop: the rekey is queued before
  any output of the new id.

## Not modelled

The repository has more than half a million lines; most of them are views,
terminal emulation, codecs and clients of remote services. What the modules map
is a small share of that, chosen for its state. Left out:

| Part | Why |
|---|---|
| Writer and SSH mailboxes, the reaper; store runtime; heartbeat of remote desktops | next on the plan |
| SSH authentication and connection, agent broker, tunnels | network I/O; cancellation and leases are candidates |
| ZMODEM, TRZSZ, XMODEM positions and retries | wire protocols; only the hand-off of a session is modelled |
| Terminal emulation, `%`-notification and escape parsers | data transformations out of TLC's reach |
| SFTP, remote desktops, cloud storage, AI and MCP clients, OTP | request and response, codecs |
| Plugin host | a WebAssembly engine |
| Desktop views, settings, layout | no state that a property here is about |

Within the modelled parts: in the bridge, output capture and boundaries of
agents, `OutputDropped`, a panic of the thread, exits of sessions and the pause of
the source under backpressure; in terminal execution, quotas, jobs on a channel of
their own, recording and presentation, approvals, opening of sessions and
authorization, and the detection of a prompt is taken to be right; in sync, scopes
and trust, secrets, defaults on joining, import of the earlier protocol,
`preview_on_change` and changes of password or destination; in the updater,
download, signatures and extraction; in the recording pipeline, searches of the
history, formatting, rotation and paths of files, capture of input, transcripts
and their saving, and the recording of commands.

## Limits of the project

The models trust the mutexes, channels and condition variables of the standard
library and tokio, tmux and shells as the code's comments describe them, an SSH
channel that delivers in order or ends, Automerge's merge, and the transactions
of the store. Panics and poisoned locks are left out. Bounds on histories
(`MaxPushes`, `MaxOps`, `MaxMoves`, `MaxWire`, `MaxStates`, `MaxOutput`,
`MaxPauses`, `MaxFaults`, `MaxAsks`, `MaxAttach`, `MaxEdits`, `MaxPrepares`,
`MaxRequests`, `MaxDisturbances`, `MaxStarts`, `MaxPayloads`, `MaxIds`)
are guards of the actions; the theorems hold for every value of them.

To check a run: `tlc -config TmuxInput.cfg MCTmuxInput`; to check the proofs of a
module: `tlapm TmuxInputProofs.tla`.
