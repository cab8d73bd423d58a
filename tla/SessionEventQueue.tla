------------------------- MODULE SessionEventQueue -------------------------
(***************************************************************************)
(* The byte-bounded event queue between the transport threads (local PTY,  *)
(* serial, TCP and SSH readers, the tmux host worker) and the consumers of *)
(* the desktop (one per window): nyaterm-transport session_event_queue.rs. *)
(*                                                                         *)
(* A producer takes the producer turn, appends its event in chunks of at   *)
(* most EventLimit bytes, parks while the queue is backpressured and gives *)
(* the turn back.  A consumer parks until an event of a session assigned   *)
(* to it is queued and drains a batch under the mutex.  Sessions are       *)
(* cancelled, resumed (tmux panes) and moved between consumers meanwhile.  *)
(*                                                                         *)
(* The mutex: an action is one critical section, except the drain, which   *)
(* is one step per event with `draining' naming the holder of the mutex.   *)
(* A condition variable is notified after the mutex is released: `notify'  *)
(* holds the notifications issued and not yet delivered.                   *)
(*                                                                         *)
(* The queue is a set of events, each with the ticket `at' that push_back   *)
(* gave it: the front of the queue is the least ticket.  The bytes of a    *)
(* session are numbered by their place in its stream; an output event is   *)
(* the interval [lo, hi) of that stream, a control event stands at lo = hi.*)
(***************************************************************************)
EXTENDS Integers, FiniteSets, FiniteSetsExt

CONSTANTS
    Sessions,       \* session ids
    LocalSessions,  \* the local PTY sessions, reaped in the background
    PaneSessions,   \* tmux panes: their ids come back after a cancel
    Producers,      \* threads and tasks that push
    AsyncProducers, \* the ones that call push_async (SSH workers)
    SessionsOf,     \* SessionsOf[p]: the sessions p pushes events of
    Consumers,      \* event consumers, one per desktop window
    Anyone,         \* the drains that take events of every session
    Drainers,       \* who drains: consumers, and Anyone
    NoConsumer,
    NoProducer,     \* the producer of a cleanup diagnostic, which takes no turn
    Limit,          \* SESSION_EVENT_QUEUE_OUTPUT_LIMIT
    Low,            \* SESSION_EVENT_QUEUE_OUTPUT_LOW_WATERMARK
    EventLimit,     \* SESSION_EVENT_QUEUE_OUTPUT_EVENT_LIMIT
    CleanupLimit,   \* the 256 of push_cleanup_failure
    OutputSizes,    \* sizes of the output events pushed
    MaxPushes,      \* bound: events one producer pushes
    MaxOps,         \* bound: cancels, resumes, assignments and closes
    BatchSizes,     \* max_events of the drains
    Budgets         \* max_output_bytes of the drains; Limit stands for None

ASSUME QueueConstants ==
    /\ Limit \in Nat /\ Low \in Nat /\ EventLimit \in Nat \ {0}
    /\ Low < Limit
    /\ EventLimit <= Limit - Low
    /\ CleanupLimit \in Nat
    /\ OutputSizes \subseteq Nat
    /\ MaxPushes \in Nat /\ MaxOps \in Nat
    /\ BatchSizes \subseteq Nat
    /\ Budgets \subseteq Nat

ASSUME QueueActors ==
    /\ LocalSessions \subseteq Sessions
    /\ PaneSessions \subseteq Sessions
    /\ LocalSessions \cap PaneSessions = {}
    /\ AsyncProducers \subseteq Producers
    /\ SessionsOf \in [Producers -> (SUBSET Sessions) \ {{}}]
    /\ NoProducer \notin Producers
    /\ NoConsumer \notin Consumers
    /\ Anyone \notin Consumers
    /\ Anyone # NoConsumer
    /\ Drainers \subseteq Consumers \cup {Anyone}

VARIABLES
    events,         \* the queue
    tail,           \* the ticket of the next push_back
    queued,         \* queued_output_bytes
    backpressured,  \* output_backpressured
    producerActive, \* the producer turn is taken
    closed,
    cancelled,      \* cancelled_sessions
    consumers,      \* consumers[s]: the consumer s is assigned to
    pc,             \* where each producer is in push
    job,            \* the event each producer is pushing
    waiting,        \* where each consumer is in its wait
    draining,       \* the drain that holds the mutex
    notify,         \* notifications issued and not yet delivered
    reaping,        \* local sessions closed whose cleanup has not ended
    pos,            \* pos[s]: bytes of s appended so far
    taken,          \* taken[s]: bytes of s drained, or dropped by a cancel
    ops             \* operations counted by MaxOps

inner == <<events, tail, queued, backpressured, producerActive, closed, cancelled,
           consumers>>
vars == <<inner, pc, job, waiting, draining, notify, reaping, pos, taken, ops>>

Event == [at : Nat, kind : {"output", "control", "cleanup"}, sess : Sessions,
          prod : Producers \cup {NoProducer}, seq : Nat, lo : Nat, hi : Nat,
          owner : Consumers \cup {NoConsumer}]

Job == [sess : Sessions, kind : {"output", "control"}, seq : Nat, rest : Nat]

ProducerStates == {"idle", "begin", "orderWait", "turn", "spaceWait", "release"}

NoDrain == [by |-> NoConsumer, left |-> 0, budget |-> 0]

Drain == [by : Drainers \cup {NoConsumer}, left : Nat, budget : Nat]

Conditions == {"order", "space", "async", "ready"}

Reap == [sess : Sessions, owner : Consumers \cup {NoConsumer}]

TypeOK ==
    /\ events \in SUBSET Event
    /\ tail \in Nat
    /\ queued \in Nat
    /\ backpressured \in BOOLEAN
    /\ producerActive \in BOOLEAN
    /\ closed \in BOOLEAN
    /\ cancelled \in SUBSET Sessions
    /\ consumers \in [Sessions -> Consumers \cup {NoConsumer}]
    /\ pc \in [Producers -> ProducerStates]
    /\ job \in [Producers -> Job]
    /\ waiting \in [Drainers -> {"idle", "parked", "woken"}]
    /\ draining \in Drain
    /\ notify \in SUBSET Conditions
    /\ reaping \in SUBSET Reap
    /\ pos \in [Sessions -> Nat]
    /\ taken \in [Sessions -> Nat]
    /\ ops \in Nat

Init ==
    /\ events = {}
    /\ tail = 0
    /\ queued = 0
    /\ backpressured = FALSE
    /\ producerActive = FALSE
    /\ closed = FALSE
    /\ cancelled = {}
    /\ consumers = [s \in Sessions |-> NoConsumer]
    /\ pc = [p \in Producers |-> "idle"]
    /\ job = [p \in Producers |->
                [sess |-> CHOOSE s \in SessionsOf[p] : TRUE,
                 kind |-> "control", seq |-> 0, rest |-> 0]]
    /\ waiting = [c \in Drainers |-> "idle"]
    /\ draining = NoDrain
    /\ notify = {}
    /\ reaping = {}
    /\ pos = [s \in Sessions |-> 0]
    /\ taken = [s \in Sessions |-> 0]
    /\ ops = 0

-----------------------------------------------------------------------------
(* What the code computes on the state.                                    *)

MutexFree == draining = NoDrain

\* Variant of Accepts: the cancelled sessions are not consulted.
AcceptsUntilClosed(s) == ~closed /\ s \in Sessions

Accepts(s) == ~closed /\ s \notin cancelled

Size(e) == e.hi - e.lo

\* Variant of SaturatingSub: nothing subtracted.
ForgottenSub(m, n) == m + 0 * n

\* usize::saturating_sub
SaturatingSub(m, n) == IF n <= m THEN m - n ELSE 0

\* Variant of BelongsTo: the assignment is not consulted.
BelongsToAll(e, c) == TRUE

\* event_belongs_to_consumer; the drains without a consumer take every event.
BelongsTo(e, c) ==
    \/ c = Anyone
    \/ e.kind = "cleanup" /\ e.owner = c
    \/ e.kind # "cleanup" /\ consumers[e.sess] = c

HasEvent(c) == \E e \in events : BelongsTo(e, c)

\* Variant of IsFirst: any event of the consumer.
IsSome(e, c) == e \in events /\ BelongsTo(e, c)

\* The event at the position drain_for_consumer finds; the front for Anyone.
IsFirst(e, c) ==
    /\ e \in events
    /\ BelongsTo(e, c)
    /\ \A f \in events : BelongsTo(f, c) => e.at <= f.at

PushBack(e) ==
    /\ events' = events \cup {e}
    /\ tail' = tail + 1

-----------------------------------------------------------------------------
(* Producers: push and push_async, begin_push, push_output_chunk.          *)

\* A producer calls push with an output event of n bytes or a control event
\* (exit, error, notice, working directory, output boundary...).
Push(p) ==
    /\ pc[p] = "idle"
    /\ job[p].seq < MaxPushes
    /\ \E s \in SessionsOf[p], k \in {"output", "control"}, n \in OutputSizes :
          job' = [job EXCEPT ![p] = [sess |-> s, kind |-> k, seq |-> job[p].seq + 1,
                                     rest |-> IF k = "output" THEN n ELSE 0]]
    /\ pc' = [pc EXCEPT ![p] = "begin"]
    /\ UNCHANGED <<inner, waiting, draining, notify, reaping, pos, taken, ops>>

\* push has returned: the event it had is gone.
Returned(j) == [sess |-> j.sess, kind |-> "control", seq |-> j.seq, rest |-> 0]

\* begin_push returns None: the event is dropped before the turn is taken.
RefuseTurn(p) ==
    /\ pc[p] = "begin" /\ MutexFree
    /\ ~Accepts(job[p].sess)
    /\ pc' = [pc EXCEPT ![p] = "idle"]
    /\ job' = [job EXCEPT ![p] = Returned(@)]
    /\ UNCHANGED <<inner, waiting, draining, notify, reaping, pos, taken, ops>>

\* Variant of TurnFree: every producer pushes at once.
NoTurns == TRUE

TurnFree == ~producerActive

\* An output event without bytes has no chunk: the turn is given back at once.
TakeTurn(p) ==
    /\ pc[p] = "begin" /\ MutexFree
    /\ Accepts(job[p].sess)
    /\ TurnFree
    /\ producerActive' = TRUE
    /\ pc' = [pc EXCEPT ![p] = IF job[p].kind = "output" /\ job[p].rest = 0
                               THEN "release" ELSE "turn"]
    /\ UNCHANGED <<events, tail, queued, backpressured, closed, cancelled, consumers,
                   job, waiting, draining, notify, reaping, pos, taken, ops>>

WaitForTurn(p) ==
    /\ pc[p] = "begin" /\ MutexFree
    /\ Accepts(job[p].sess)
    /\ ~TurnFree
    /\ pc' = [pc EXCEPT ![p] = "orderWait"]
    /\ UNCHANGED <<inner, job, waiting, draining, notify, reaping, pos, taken, ops>>

\* The session was cancelled, or the queue closed, after the turn was taken:
\* what is left of the event is dropped.  push_async notifies all the same
\* after a control event it did not append.
AbandonEvent(p) ==
    /\ pc[p] = "turn" /\ MutexFree
    /\ ~Accepts(job[p].sess)
    /\ pc' = [pc EXCEPT ![p] = "release"]
    /\ notify' = IF p \in AsyncProducers /\ job[p].kind = "control"
                 THEN notify \cup {"ready"} ELSE notify
    /\ UNCHANGED <<inner, job, waiting, draining, reaping, pos, taken, ops>>

PushControl(p) ==
    /\ pc[p] = "turn" /\ MutexFree
    /\ job[p].kind = "control"
    /\ Accepts(job[p].sess)
    /\ LET s == job[p].sess
       IN PushBack([at |-> tail, kind |-> "control", sess |-> s, prod |-> p,
                    seq |-> job[p].seq, lo |-> pos[s], hi |-> pos[s],
                    owner |-> NoConsumer])
    /\ pc' = [pc EXCEPT ![p] = "release"]
    /\ notify' = notify \cup {"ready"}
    /\ UNCHANGED <<queued, backpressured, producerActive, closed, cancelled, consumers,
                   job, waiting, draining, reaping, pos, taken, ops>>

\* The next chunk of p's output event.
ChunkSize(p) == IF job[p].rest < EventLimit THEN job[p].rest ELSE EventLimit

Fits(p) == ~backpressured /\ queued + ChunkSize(p) <= Limit

PushChunk(p) ==
    /\ pc[p] = "turn" /\ MutexFree
    /\ job[p].kind = "output"
    /\ Accepts(job[p].sess)
    /\ Fits(p)
    /\ LET s == job[p].sess
           n == ChunkSize(p)
       IN /\ PushBack([at |-> tail, kind |-> "output", sess |-> s, prod |-> p,
                       seq |-> job[p].seq, lo |-> pos[s], hi |-> pos[s] + n,
                       owner |-> NoConsumer])
          /\ queued' = queued + n
          /\ backpressured' = (queued + n >= Limit)
          /\ pos' = [pos EXCEPT ![s] = @ + n]
          /\ job' = [job EXCEPT ![p].rest = @ - n]
          /\ pc' = [pc EXCEPT ![p] = IF job[p].rest = n THEN "release" ELSE "turn"]
    /\ notify' = notify \cup {"ready"}
    /\ UNCHANGED <<producerActive, closed, cancelled, consumers,
                   waiting, draining, reaping, taken, ops>>

WaitForSpace(p) ==
    /\ pc[p] = "turn" /\ MutexFree
    /\ job[p].kind = "output"
    /\ Accepts(job[p].sess)
    /\ ~Fits(p)
    /\ backpressured' = TRUE
    /\ pc' = [pc EXCEPT ![p] = "spaceWait"]
    /\ UNCHANGED <<events, tail, queued, producerActive, closed, cancelled, consumers,
                   job, waiting, draining, notify, reaping, pos, taken, ops>>

\* ProducerOrderGuard::drop
ReleaseTurn(p) ==
    /\ pc[p] = "release" /\ MutexFree
    /\ producerActive' = FALSE
    /\ pc' = [pc EXCEPT ![p] = "idle"]
    /\ job' = [job EXCEPT ![p] = Returned(@)]
    /\ notify' = notify \cup {"order", "async"}
    /\ UNCHANGED <<events, tail, queued, backpressured, closed, cancelled, consumers,
                   waiting, draining, reaping, pos, taken, ops>>

-----------------------------------------------------------------------------
(* Condition variables and the Notify of the asynchronous producers.       *)

\* The condition p waits on: push_async has one Notify for both waits.
WaitsOn(p, n) ==
    \/ n = "async" /\ p \in AsyncProducers /\ pc[p] \in {"orderWait", "spaceWait"}
    \/ n = "order" /\ p \notin AsyncProducers /\ pc[p] = "orderWait"
    \/ n = "space" /\ p \notin AsyncProducers /\ pc[p] = "spaceWait"

\* A woken producer tests its condition again under the mutex.
Resumed(p) == IF pc[p] = "orderWait" THEN "begin" ELSE "turn"

NotifyAll(n) ==
    /\ n \in notify
    /\ notify' = notify \ {n}
    /\ pc' = [p \in Producers |-> IF WaitsOn(p, n) THEN Resumed(p) ELSE pc[p]]
    /\ waiting' = [c \in Drainers |-> IF n = "ready" /\ waiting[c] = "parked"
                                      THEN "woken" ELSE waiting[c]]
    /\ UNCHANGED <<inner, job, draining, reaping, pos, taken, ops>>

\* A wait may end without a notification.
SpuriousWakeup(p) ==
    /\ pc[p] \in {"orderWait", "spaceWait"}
    /\ pc' = [pc EXCEPT ![p] = Resumed(p)]
    /\ UNCHANGED <<inner, job, waiting, draining, notify, reaping, pos, taken, ops>>

-----------------------------------------------------------------------------
(* Sessions: cancel_session, resume_session, assign_consumer,              *)
(* clear_consumer, close and push_cleanup_failure.                         *)

\* resume_output_if_below_low_watermark, with n bytes left in the queue
StaysBackpressured(n) == backpressured /\ n > Low

\* The bytes of s in the queue.  The code sums the sizes of the queued outputs
\* of s; ByteAccounting below says the difference is that sum.
BytesOf(s) == pos[s] - taken[s]

Operation == ops < MaxOps /\ ops' = ops + 1

\* Closing a session: close and close_detached note the consumer of a local
\* session for the diagnostics of its reaper, then cancel the session.  They
\* take the session out of the registry first, so a local one is closed once.
\* (The consumer is read in a critical section of its own just before: one that
\* is assigned between the two misses the diagnostics, and nothing else.)
CancelSession(s) ==
    /\ MutexFree /\ Operation
    /\ s \notin LocalSessions \cap cancelled
    /\ cancelled' = cancelled \cup {s}
    /\ consumers' = [consumers EXCEPT ![s] = NoConsumer]
    /\ events' = {e \in events : e.sess # s}
    /\ queued' = SaturatingSub(queued, BytesOf(s))
    /\ backpressured' = StaysBackpressured(SaturatingSub(queued, BytesOf(s)))
    /\ taken' = [taken EXCEPT ![s] = pos[s]]
    /\ reaping' = IF s \in LocalSessions
                  THEN reaping \cup {[sess |-> s, owner |-> consumers[s]]}
                  ELSE reaping
    /\ notify' = Conditions
    /\ UNCHANGED <<tail, producerActive, closed, pc, job, waiting, draining, pos>>

\* register_tmux_pane brings a pane back under its old id.
ResumeSession(s) ==
    /\ MutexFree /\ Operation
    /\ s \in PaneSessions \cap cancelled
    /\ cancelled' = cancelled \ {s}
    /\ notify' = notify \cup {"order", "async"}
    /\ UNCHANGED <<events, tail, queued, backpressured, producerActive, closed, consumers,
                   pc, job, waiting, draining, reaping, pos, taken>>

\* Variant of AssignConsumer: the new consumer is not notified.
AssignSilently(s, c) ==
    /\ MutexFree /\ Operation
    /\ consumers' = [consumers EXCEPT ![s] = c]
    /\ UNCHANGED <<events, tail, queued, backpressured, producerActive, closed, cancelled,
                   pc, job, waiting, draining, notify, reaping, pos, taken>>

AssignConsumer(s, c) ==
    /\ MutexFree /\ Operation
    /\ consumers' = [consumers EXCEPT ![s] = c]
    /\ notify' = notify \cup {"ready"}
    /\ UNCHANGED <<events, tail, queued, backpressured, producerActive, closed, cancelled,
                   pc, job, waiting, draining, reaping, pos, taken>>

ClearConsumer(s, c) ==
    /\ MutexFree /\ Operation
    /\ consumers' = IF consumers[s] = c THEN [consumers EXCEPT ![s] = NoConsumer]
                                        ELSE consumers
    /\ notify' = notify \cup {"ready"}
    /\ UNCHANGED <<events, tail, queued, backpressured, producerActive, closed, cancelled,
                   pc, job, waiting, draining, reaping, pos, taken>>

Close ==
    /\ MutexFree /\ Operation
    /\ closed' = TRUE
    /\ notify' = Conditions
    /\ UNCHANGED <<events, tail, queued, backpressured, producerActive, cancelled, consumers,
                   pc, job, waiting, draining, reaping, pos, taken>>

\* The reaper of a local session failed to clean up: a diagnostic that needs
\* no turn and is accepted although its session is cancelled.
CleanupFailure(r) ==
    /\ r \in reaping /\ MutexFree
    /\ reaping' = reaping \ {r}
    /\ IF closed \/ Cardinality({e \in events : e.kind = "cleanup"}) >= CleanupLimit
       THEN UNCHANGED <<events, tail, notify>>
       ELSE /\ PushBack([at |-> tail, kind |-> "cleanup", sess |-> r.sess,
                         prod |-> NoProducer, seq |-> 0, lo |-> pos[r.sess],
                         hi |-> pos[r.sess], owner |-> r.owner])
            /\ notify' = notify \cup {"ready"}
    /\ UNCHANGED <<queued, backpressured, producerActive, closed, cancelled, consumers,
                   pc, job, waiting, draining, pos, taken, ops>>

-----------------------------------------------------------------------------
(* Consumers: wait_for_consumer and the drains.                            *)

Park(c) ==
    /\ waiting[c] \in {"idle", "woken"} /\ MutexFree
    /\ ~HasEvent(c) /\ ~closed
    /\ waiting' = [waiting EXCEPT ![c] = "parked"]
    /\ UNCHANGED <<inner, pc, job, draining, notify, reaping, pos, taken, ops>>

\* wait_for_events_for_consumer returns, woken or timed out, without draining.
StopWaiting(c) ==
    /\ waiting[c] \in {"parked", "woken"} /\ MutexFree
    /\ waiting' = [waiting EXCEPT ![c] = "idle"]
    /\ UNCHANGED <<inner, pc, job, draining, notify, reaping, pos, taken, ops>>

\* A drain that finds something.  (One that finds nothing, after a timeout or
\* the close of the queue, changes nothing.)
StartDrain(c) ==
    /\ MutexFree
    /\ HasEvent(c)
    /\ \E n \in BatchSizes, b \in Budgets :
          draining' = [by |-> c, left |-> n, budget |-> b]
    /\ waiting' = [waiting EXCEPT ![c] = "idle"]
    /\ UNCHANGED <<inner, pc, job, notify, reaping, pos, taken, ops>>

\* One event and n bytes later in the drain loop.
Drained(n) == [by |-> draining.by, left |-> draining.left - 1,
               budget |-> draining.budget - n]

\* The drain removes a whole event...
DrainEvent(e) ==
    /\ draining.left > 0
    /\ IsFirst(e, draining.by)
    /\ Size(e) <= draining.budget
    /\ e.kind = "output" => draining.budget > 0
    /\ events' = events \ {e}
    /\ queued' = SaturatingSub(queued, Size(e))
    /\ taken' = [taken EXCEPT ![e.sess] = IF e.kind = "output" THEN e.hi ELSE @]
    /\ draining' = Drained(Size(e))
    /\ UNCHANGED <<tail, backpressured, producerActive, closed, cancelled, consumers,
                   pc, job, waiting, notify, reaping, pos, ops>>

\* What data.split_off leaves in the queue.
Remainder(e, mid) == [e EXCEPT !.lo = mid]

\* ... or splits an output event larger than what is left of the budget.
DrainPrefix(e) ==
    /\ draining.left > 0
    /\ IsFirst(e, draining.by)
    /\ draining.budget \in 1..(Size(e) - 1)
    /\ LET mid == e.lo + draining.budget
       IN /\ events' = (events \ {e}) \cup {Remainder(e, mid)}
          /\ taken' = [taken EXCEPT ![e.sess] = mid]
    /\ queued' = SaturatingSub(queued, draining.budget)
    /\ draining' = Drained(draining.budget)
    /\ UNCHANGED <<tail, backpressured, producerActive, closed, cancelled, consumers,
                   pc, job, waiting, notify, reaping, pos, ops>>

\* Variant of SpaceFreed: the asynchronous producers are forgotten.
SpaceFreedForThreads == {"space"}

\* The conditions notified when a drain ends the backpressure.
SpaceFreed == {"space", "async"}

FinishDrain ==
    /\ ~MutexFree
    /\ \/ draining.left = 0
       \/ ~HasEvent(draining.by)
       \/ \E e \in events : IsFirst(e, draining.by) /\ e.kind = "output"
                            /\ draining.budget = 0
    /\ draining' = NoDrain
    /\ backpressured' = StaysBackpressured(queued)
    /\ notify' = IF backpressured /\ ~StaysBackpressured(queued)
                 THEN notify \cup SpaceFreed ELSE notify
    /\ UNCHANGED <<events, tail, queued, producerActive, closed, cancelled, consumers,
                   pc, job, waiting, reaping, pos, taken, ops>>

-----------------------------------------------------------------------------
Producer(p) ==
    \/ Push(p) \/ RefuseTurn(p) \/ TakeTurn(p) \/ WaitForTurn(p)
    \/ AbandonEvent(p) \/ PushControl(p) \/ PushChunk(p) \/ WaitForSpace(p)
    \/ ReleaseTurn(p) \/ SpuriousWakeup(p)

Session(s) ==
    \/ CancelSession(s) \/ ResumeSession(s)
    \/ \E c \in Consumers : AssignConsumer(s, c) \/ ClearConsumer(s, c)

Consumer(c) == Park(c) \/ StopWaiting(c) \/ StartDrain(c)

DrainStep ==
    \/ \E e \in events : DrainEvent(e) \/ DrainPrefix(e)
    \/ FinishDrain

Next ==
    \/ \E p \in Producers : Producer(p)
    \/ \E s \in Sessions : Session(s)
    \/ \E c \in Drainers : Consumer(c)
    \/ \E n \in Conditions : NotifyAll(n)
    \/ \E r \in reaping : CleanupFailure(r)
    \/ DrainStep
    \/ Close

Spec == Init /\ [][Next]_vars

\* A push goes on, a notification arrives and a drain ends; a consumer with an
\* event comes back to drain.  Every step waits for a mutex that others take
\* and give back meanwhile, hence strong fairness.
FairSpec ==
    /\ Spec
    /\ \A p \in Producers : SF_vars(Producer(p) /\ pc[p] # "idle" /\ ~SpuriousWakeup(p))
    /\ \A n \in Conditions : WF_vars(NotifyAll(n))
    /\ WF_vars(DrainStep)
    /\ \A c \in Drainers : SF_vars(StartDrain(c))

-----------------------------------------------------------------------------
(* Properties.                                                             *)

\* The bytes retained never exceed the limit, whatever the sizes of the events
\* pushed and however producers, cancels and drains interleave.
QueuedWithinLimit == queued <= Limit

\* queued_output_bytes is the number of bytes in the queue, and the bytes of a
\* session appended and neither drained nor dropped are exactly the ones queued:
\* splits, budgets and cancels count every byte once.
ByteAccounting ==
    /\ queued = MapThenSumSet(Size, events)
    /\ \A s \in Sessions :
          BytesOf(s) = MapThenSumSet(Size, {e \in events : e.sess = s})

\* Outside a drain, backpressure is on only above the low watermark: a queue
\* the consumers have emptied never keeps refusing output.
BackpressureHasCause == MutexFree /\ backpressured => queued > Low

HoldsTurn(p) == pc[p] \in {"turn", "spaceWait", "release"}

\* The notification that ends p's wait.
WakeupOf(p) == IF p \in AsyncProducers THEN "async"
               ELSE IF pc[p] = "orderWait" THEN "order" ELSE "space"

\* No lost wakeup of a producer: one that waits for the turn or for space has
\* something to wait for (a holder of the turn, backpressure) and may still
\* push, or the notification that ends its wait is on its way.
ProducersNotStranded ==
    \A p \in Producers :
        \/ WakeupOf(p) \in notify
        \/ /\ pc[p] = "orderWait" =>
                 /\ producerActive /\ \E q \in Producers : HoldsTurn(q)
                 /\ Accepts(job[p].sess)
           /\ pc[p] = "spaceWait" => backpressured /\ Accepts(job[p].sess)

\* No lost wakeup of a consumer: an event it could drain, or the close of the
\* queue, never finds it parked without a notification on its way.
ConsumersNotStranded ==
    \A c \in Drainers :
        waiting[c] = "parked" => (~HasEvent(c) /\ ~closed) \/ "ready" \in notify

\* Nothing of a cancelled session stays in the queue, except the diagnostics
\* of its cleanup: a producer parked across the cancel appends nothing more.
NothingOfCancelledSessions ==
    \A e \in events : e.sess \in cancelled => e.kind = "cleanup"

\* The events of a session leave in the order they came, and its queued bytes
\* are the ones appended and not yet taken, without gap, overlap or swap, even
\* when a drain splits an event and the session changes consumers.
StreamIntact ==
    \A s \in Sessions :
        LET E == {e \in events : e.sess = s}
        IN /\ \A e, f \in E : e.at < f.at => e.hi <= f.lo
           /\ UNION {e.lo .. (e.hi - 1) : e \in E} = taken[s] .. (pos[s] - 1)

\* The chunks of one output event are never interleaved with what another
\* producer pushes (the comment on producer_order).
ChunksNotInterleaved ==
    \A e, f, g \in events :
        /\ e.kind = "output" /\ e.prod = g.prod /\ e.seq = g.seq
        /\ e.at < f.at /\ f.at < g.at
        /\ f.kind # "cleanup"
        => f.prod = e.prod /\ f.seq = e.seq

\* Every producer that takes the turn gives it back, although it may park for
\* space meanwhile, once the live sessions have consumers that keep draining.
TurnReleased ==
    <>[](\A s \in Sessions : consumers[s] # NoConsumer \/ s \in cancelled)
    => \A p \in Producers : HoldsTurn(p) ~> ~HoldsTurn(p)

-----------------------------------------------------------------------------
(* The queue implements SessionStreams.                                    *)

\* The control events of s in the queue, as marks of its stream.
MarksOf(s) ==
    {[at |-> e.at, lo |-> e.lo] : e \in {f \in events : f.kind = "control" /\ f.sess = s}}

Streams == INSTANCE SessionStreams WITH
    ChunkLimit <- EventLimit,
    clock <- tail,
    appended <- pos,
    marks <- [s \in Sessions |-> MarksOf(s)],
    owner <- consumers,
    drainer <- draining.by

\* Seen through the queue, every session is one stream: bytes and control
\* events are taken in the order they were pushed, once, only by the consumer
\* the session is assigned to at that moment, and never after a cancel.
ImplementsStreams == Streams!Spec
=============================================================================
