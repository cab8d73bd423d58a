----------------------- MODULE TerminalExecutionProofs -----------------------
(***************************************************************************)
(* Theorems about TerminalExecution, for any number of requests, keys,     *)
(* retired filters and disturbances.                                       *)
(***************************************************************************)
EXTENDS TerminalExecution, FiniteSetTheorems, TLAPS

\* What a step may do to a job: its kind stays, a takeover stays, its output is
\* not touched.
JobKept(j, k) == k.kind = j.kind /\ k.output = j.output /\ (j.takeover => k.takeover)

\* It is not declared exited.
NoExit(j, k) == k.process = "exited" => j.process = "exited"

-----------------------------------------------------------------------------
(* What the operations do to a job.                                        *)

LEMMA ExitedJob ==
  ASSUME NEW j \in Jobs, NEW code
  PROVE  LET k == Exited(j, code, j.stopping /\ code = 130) IN k \in Jobs /\ JobKept(j, k)
  BY DEF Exited, Jobs, JobKept, Settled, Statuses

LEMMA UnknownJob ==
  ASSUME NEW j \in Jobs, NEW status \in Statuses
  PROVE  /\ Unknown(j, status) \in Jobs
         /\ JobKept(j, Unknown(j, status)) /\ NoExit(j, Unknown(j, status))
  BY DEF Unknown, Jobs, JobKept, NoExit

LEMMA LateEndJobs ==
  ASSUME NEW S, NEW jobs \in [S -> Jobs], NEW id, NEW code
  PROVE  /\ LateEnd(jobs, id, code) \in [S -> Jobs]
         /\ \A i \in S : i # id => LateEnd(jobs, id, code)[i] = jobs[i]
         /\ id \in S => JobKept(jobs[id], LateEnd(jobs, id, code)[id])
  <1>1. CASE id \in S
    <2> DEFINE j == jobs[id]
               k == Exited(j, code, j.stopping /\ code = 130)
    <2>1. j \in Jobs
      BY <1>1
    <2>2. k \in Jobs /\ JobKept(j, k)
      BY <2>1, ExitedJob
    <2>3. LateEnd(jobs, id, code) = [jobs EXCEPT ![id] = k]
      BY <1>1 DEF LateEnd
    <2> HIDE DEF k
    <2> QED
      BY <1>1, <2>2, <2>3
  <1>2. CASE id \notin S
    BY <1>2 DEF LateEnd
  <1> QED
    BY <1>1, <1>2

LEMMA AppendOutputJobs ==
  ASSUME NEW S, NEW jobs \in [S -> Jobs], NEW id, NEW from \in Requests \cup {User}
  PROVE  LET n == AppendOutput(jobs, id, from)
         IN /\ n \in [S -> Jobs]
            /\ \A i \in S :
                  /\ n[i].kind = jobs[i].kind /\ n[i].takeover = jobs[i].takeover
                  /\ n[i].process = jobs[i].process /\ n[i].finished = jobs[i].finished
                  /\ n[i].output \subseteq jobs[i].output \cup {from}
                  /\ i # id \/ jobs[i].takeover => n[i].output = jobs[i].output
  <1>1. CASE id \in S /\ ~jobs[id].takeover
    <2> DEFINE k == [jobs[id] EXCEPT !.output = @ \cup {from}]
    <2>1. jobs[id] \in Jobs
      BY <1>1
    <2>2. /\ k \in Jobs /\ k.kind = jobs[id].kind /\ k.takeover = jobs[id].takeover
          /\ k.process = jobs[id].process /\ k.finished = jobs[id].finished
          /\ k.output = jobs[id].output \cup {from}
      BY <2>1 DEF Jobs
    <2>3. AppendOutput(jobs, id, from) = [jobs EXCEPT ![id] = k]
      BY <1>1 DEF AppendOutput
    <2> HIDE DEF k
    <2> QED
      BY <1>1, <2>2, <2>3
  <1>2. CASE ~(id \in S /\ ~jobs[id].takeover)
    BY <1>2 DEF AppendOutput
  <1> QED
    BY <1>1, <1>2

-----------------------------------------------------------------------------
(* What the operations do to the state.                                    *)

\* The part of the state the properties are about.
SameCore(s, n) ==
    /\ n.task = s.task /\ n.retired = s.retired /\ n.recovery = s.recovery
    /\ n.jobs = s.jobs

LEMMA AnswerCore ==
  ASSUME NEW s, WellTyped(s), NEW rs \in SUBSET Requests
  PROVE  LET n == Answer(s, rs)
         IN WellTyped(n) /\ SameCore(s, n) /\ n.keys = s.keys
            /\ n.waiters = s.waiters /\ n.result = s.result
  BY DEF Answer, WellTyped, SameCore

LEMMA ConcludeCore ==
  ASSUME NEW s, WellTyped(s), NEW op \in Requests, NEW rs \in SUBSET Requests
  PROVE  LET n == Conclude(s, op, rs)
         IN WellTyped(n) /\ SameCore(s, n) /\ n.keys = s.keys
  <1> DEFINE waiting == IF op \in DOMAIN s.waiters THEN s.waiters[op] ELSE {}
             a == Answer(s, rs \cup waiting)
             w == Restrict(a.waiters, DOMAIN a.waiters \ {op})
             b == [a EXCEPT !.waiters = w]
             q == [a.result EXCEPT ![op] = IF @ = "pending" THEN "complete" ELSE @]
             c == [b EXCEPT !.result = q]
  <1>1. waiting \in SUBSET Requests
    BY DEF WellTyped
  <1>2. /\ WellTyped(a) /\ SameCore(s, a) /\ a.keys = s.keys
    BY <1>1, AnswerCore
  <1>3. w \in [DOMAIN a.waiters \ {op} -> SUBSET Requests]
    BY <1>2 DEF WellTyped, Restrict
  <1>4. q \in [Requests -> {"none", "pending", "complete", "expired"}]
    BY <1>2 DEF WellTyped
  <1>5. Conclude(s, op, rs) = c
    BY <1>2 DEF Conclude, WellTyped
  <1> HIDE DEF a, w, q
  <1>6. WellTyped(b) /\ SameCore(a, b) /\ b.keys = a.keys
    BY <1>2, <1>3 DEF WellTyped, SameCore
  <1> HIDE DEF b
  <1>7. WellTyped(c) /\ SameCore(b, c) /\ c.keys = b.keys
    BY <1>6, <1>4 DEF WellTyped, SameCore
  <1> QED
    BY <1>2, <1>5, <1>6, <1>7 DEF SameCore
\* The end of the execution: the task is gone; unless its end was confirmed or the
\* session is, a command that runs in the shell leaves the recovery guard, and a
\* marked one the filter that waits for its late end.
Over(s, n) ==
    LET t == s.task
    IN /\ n.task = None /\ n.keys = s.keys
       /\ \A g \in n.retired :
             \/ g \in s.retired
             \/ g.id = t.id /\ (g.phase = "capturing" => t.phase = "capturing")
       /\ n.recovery \in {s.recovery, t.id}
       /\ n.recovery = t.id => t.kind # "background"
       /\ n.recovery = t.id /\ t.kind = "marked" => \E g \in n.retired : g.id = t.id
       /\ DOMAIN n.jobs = DOMAIN s.jobs
       /\ \A i \in DOMAIN s.jobs : i # t.id => n.jobs[i] = s.jobs[i]
       /\ JobKept(s.jobs[t.id], n.jobs[t.id])

Unconfirmed(s, n) ==
    /\ s.task.kind = "background" \/ n.recovery = s.task.id
    /\ NoExit(s.jobs[s.task.id], n.jobs[s.task.id])

LEMMA FinishOver ==
  ASSUME NEW s, WellTyped(s), s.task # None, s.task.id \in DOMAIN s.jobs,
         s.recovery = None,
         NEW reported \in {"completed", "failed", "timedOut", "cancelled", "disconnected"},
         NEW code \in {0, 130, None},
         NEW id, id = s.task.id
  PROVE  LET n == Finish(s, id, reported, code)
         IN /\ WellTyped(n) /\ Over(s, n)
            /\ reported \notin {"completed", "disconnected"} => Unconfirmed(s, n)
            /\ reported = "completed" /\ code # None => n.recovery = None
  <1> DEFINE t == s.task
             confirmedEnd == reported = "completed" /\ code # None
             status == IF t.cancelled THEN "cancelled" ELSE reported
             marked == t.kind = "marked"
             gone == reported \in {"completed", "disconnected"}
             j == s.jobs[id]
             ended == IF status = "completed" /\ code # None
                      THEN Exited(j, code, j.stopping /\ code = 130)
                      ELSE Unknown(j, IF status = "completed" THEN "unknown" ELSE status)
             jobs == [s.jobs EXCEPT ![id] = ended]
             late == IF status = "cancelled" /\ confirmedEnd THEN LateEnd(jobs, id, code) ELSE jobs
             f == [id |-> t.id, phase |-> t.phase, observing |-> TRUE]
             filters == IF marked /\ status # "completed" THEN Retire(s.retired, f) ELSE s.retired
             guard == IF NeedsRecovery(t, confirmedEnd, status) THEN id ELSE s.recovery
             drain == IF marked /\ status = "completed" /\ t.phase = "post" THEN id ELSE s.draining
             a == [s EXCEPT !.task = None]
             b == [a EXCEPT !.recovery = guard]
             c == [b EXCEPT !.draining = drain]
             d == [c EXCEPT !.retired = filters]
             over == [d EXCEPT !.jobs = late]
  <1>0. t \in Tasks /\ id \in Requests /\ s.jobs \in [DOMAIN s.jobs -> Jobs] /\ j \in Jobs
    BY DEF WellTyped, Tasks
  <1>1. status \in Statuses /\ status \in {"completed", "failed", "timedOut", "cancelled", "disconnected"}
    BY DEF Statuses
  <1>2. /\ ended \in Jobs /\ JobKept(j, ended)
        /\ ~gone => NoExit(j, ended)
    <2>2. CASE status = "completed" /\ code # None
      <3>1. gone
        BY <2>2
      <3> DEFINE k == Exited(j, code, j.stopping /\ code = 130)
      <3>2. ended = k
        BY <2>2
      <3>3. k \in Jobs /\ JobKept(j, k)
        BY <1>0, ExitedJob
      <3> HIDE DEF k
      <3> QED
        BY <3>1, <3>2, <3>3
    <2>3. CASE ~(status = "completed" /\ code # None)
      <3>1. (IF status = "completed" THEN "unknown" ELSE status) \in Statuses
        BY <1>1 DEF Statuses
      <3> QED
        BY <2>3, <3>1, <1>0, UnknownJob
    <2> QED
      BY <2>2, <2>3
  <1>3. jobs \in [DOMAIN s.jobs -> Jobs] /\ jobs[id] = ended
        /\ \A i \in DOMAIN s.jobs : i # id => jobs[i] = s.jobs[i]
    BY <1>0, <1>2
  <1>4. /\ late \in [DOMAIN s.jobs -> Jobs]
        /\ \A i \in DOMAIN s.jobs : i # id => late[i] = s.jobs[i]
        /\ JobKept(j, late[id])
        /\ ~gone => NoExit(j, late[id])
    <2> HIDE DEF jobs, ended
    <2>1. CASE status = "cancelled" /\ confirmedEnd
      <3>1. /\ LateEnd(jobs, id, code) \in [DOMAIN s.jobs -> Jobs]
            /\ \A i \in DOMAIN s.jobs : i # id => LateEnd(jobs, id, code)[i] = jobs[i]
            /\ JobKept(jobs[id], LateEnd(jobs, id, code)[id])
        BY <1>3, LateEndJobs
      <3> QED
        BY <2>1, <3>1, <1>2, <1>3 DEF JobKept
    <2>2. CASE ~(status = "cancelled" /\ confirmedEnd)
      BY <2>2, <1>2, <1>3
    <2> QED
      BY <2>1, <2>2
  <1>5. f \in Filters
    BY <1>0 DEF Filters, Tasks
  <1>6. /\ filters \in SUBSET Filters /\ filters \subseteq s.retired \cup {f}
        /\ marked /\ status # "completed" => f \in filters
    BY <1>5 DEF WellTyped, Retire
  <1>7. /\ guard \in {None, id}
        /\ guard = id => t.kind # "background" /\ status # "completed"
        /\ gone \/ t.kind = "background" \/ guard = id
        /\ reported = "completed" /\ code # None => guard = None
    BY <1>0, <1>1, ExecutionConstants DEF NeedsRecovery, Requests
  <1>8. drain \in Requests \cup {None}
    BY <1>0 DEF WellTyped
  <1>9. Finish(s, id, reported, code) =
          IF t.caller = "async" THEN over
          ELSE Conclude(over, id, IF t.caller = "native" THEN {id} ELSE {})
    BY DEF Finish, WellTyped
  <1> HIDE DEF late, filters, guard, drain, jobs, ended, status, f, gone
  <1>10. /\ WellTyped(over) /\ over.task = None /\ over.recovery = guard
         /\ over.retired = filters /\ over.jobs = late /\ over.keys = s.keys
    <2>1. WellTyped(a) /\ a.task = None /\ a.keys = s.keys /\ a.jobs = s.jobs
      BY DEF WellTyped
    <2> HIDE DEF a
    <2>2. WellTyped(b) /\ b.task = None /\ b.keys = s.keys /\ b.jobs = s.jobs /\ b.recovery = guard
      BY <2>1, <1>7, <1>0 DEF WellTyped
    <2> HIDE DEF b
    <2>3. WellTyped(c) /\ c.task = None /\ c.keys = s.keys /\ c.jobs = s.jobs /\ c.recovery = guard
      BY <2>2, <1>8 DEF WellTyped
    <2> HIDE DEF c
    <2>4. WellTyped(d) /\ d.task = None /\ d.keys = s.keys /\ d.jobs = s.jobs /\ d.recovery = guard
          /\ d.retired = filters
      BY <2>3, <1>6 DEF WellTyped
    <2> HIDE DEF d
    <2> QED
      BY <2>4, <1>4 DEF WellTyped
  <1> HIDE DEF over
  <1>11. DOMAIN late = DOMAIN s.jobs
    BY <1>4
  <1>12. Over(s, over) /\ (~gone => Unconfirmed(s, over))
    BY <1>10, <1>11, <1>4, <1>6, <1>7, <1>0, ExecutionConstants
       DEF Over, Unconfirmed, f, Requests
  <1>13. CASE t.caller = "async"
    BY <1>13, <1>9, <1>10, <1>12, <1>7 DEF gone
  <1>14. CASE t.caller # "async"
    <2> DEFINE n == Conclude(over, id, IF t.caller = "native" THEN {id} ELSE {})
    <2>1. WellTyped(n) /\ SameCore(over, n) /\ n.keys = over.keys
      BY <1>10, <1>0, ConcludeCore
    <2>2. Over(s, n) /\ (~gone => Unconfirmed(s, n))
      BY <1>12, <2>1 DEF Over, Unconfirmed, SameCore
    <2> QED
      BY <1>14, <1>9, <2>1, <2>2, <1>10, <1>7 DEF gone, SameCore
  <1> QED
    BY <1>13, <1>14

-----------------------------------------------------------------------------
(* The invariant.  Its parts are about a state s of the executor, a stream *)
(* st, a shell sh, the commands lo whose end is lost, the ones co the user *)
(* declared recovered, and the number n of requests.                       *)

Lines(sh) == ToSet(sh.queue) \cup (IF sh.running = None THEN {} ELSE {sh.running})
Ids(sh) == {c.id : c \in Lines(sh)}

Prints(e, type, id) == e.type = type /\ e.id = id
Ahead(st, type, id) == \E i \in DOMAIN st : Prints(st[i], type, id)
Before(st, j, type, id) == \E i \in DOMAIN st : i < j /\ Prints(st[i], type, id)

\* Identifiers are fresh.
Fresh(s, st, sh, n) ==
    /\ DOMAIN s.jobs \subseteq 1 .. n
    /\ \A f \in s.retired : f.id \in 1 .. n
    /\ s.recovery # None => s.recovery \in 1 .. n
    /\ Ids(sh) \subseteq 0 .. n
    /\ \A k \in DOMAIN st : st[k].id \in 0 .. n

\* A task and a recovery guard exclude each other; the task has an open job, and
\* no filter looks for its markers.
TaskInv(s) ==
    s.task # None =>
        /\ s.recovery = None
        /\ s.task.id \in DOMAIN s.jobs /\ ~s.jobs[s.task.id].finished
        /\ s.jobs[s.task.id].kind = s.task.kind
        /\ \A f \in s.retired : f.id # s.task.id
        /\ s.task.phase \in {"wait", "capturing", "prompt"}
        /\ s.task.phase = "prompt" => s.task.kind = "raw"
        /\ s.task.phase = "capturing" => s.task.kind = "marked" /\ s.task.begun

\* A command is in the shell once, and a shell that has lines runs one.
OneByOne(sh) ==
    /\ sh.running = None => sh.queue = <<>>
    /\ \A i \in DOMAIN sh.queue :
          sh.queue[i].id # User =>
              /\ sh.queue[i].id # sh.running.id
              /\ \A j \in DOMAIN sh.queue : j # i => sh.queue[j].id # sh.queue[i].id

\* What printed its end has left the shell, and so has what exited.
Ended(s, st, sh) ==
    /\ \A k \in DOMAIN st :
          st[k].type = "end" => st[k].id \notin Ids(sh) \cup {User} /\ st[k].code # None
    /\ \A i \in DOMAIN s.jobs :
          s.jobs[i].kind = "background" \/ s.jobs[i].process = "exited" => i \notin Ids(sh)

Watched(s, id) == s.recovery = id \/ (s.task # None /\ s.task.id = id)

\* The executor knows of every command that runs in the shell.
Guarded(s, sh, co) == \A id \in Ids(sh) : id \in co \cup {User} \/ Watched(s, id)

\* A prompt that follows the boundary of a command follows its end.
Prompted(s, st, sh) ==
    /\ \A i \in DOMAIN st : st[i].type = "boundary" => st[i].id # User
    /\ \A i, j \in DOMAIN st :
          i < j /\ st[i].type = "boundary" /\ st[j].type = "prompt" => st[i].id \notin Ids(sh)
    /\ s.task # None =>
          /\ s.task.phase = "prompt" => s.task.id \notin Ids(sh)
          /\ s.task.begun =>
                \A j \in DOMAIN st : st[j].type = "prompt" => s.task.id \notin Ids(sh)

\* The end of a command is still to come, or is lost.
ToCome(st, sh, lo, id) == id \in lo \/ id \in Ids(sh) \/ Ahead(st, "end", id)

\* The boundary, the start and the end of the running command come in this order,
\* and the executor has seen the ones that are not ahead.
Follows(s, st, sh, lo) ==
    /\ \A c \in Lines(sh) : c.kind = "raw" /\ c.id # User => c.id \in lo
    /\ s.task # None /\ s.task.kind = "raw" => s.task.id \in lo
    /\ s.task # None /\ s.task.kind = "marked" /\ s.task.id \notin lo =>
          /\ ToCome(st, sh, lo, s.task.id)
          /\ ~s.task.begun =>
                /\ s.task.id \in Ids(sh) => Ahead(st, "boundary", s.task.id)
                /\ \A j \in DOMAIN st : st[j].id = s.task.id /\ st[j].type # "boundary"
                                          => Before(st, j, "boundary", s.task.id)
          /\ s.task.phase = "wait" =>
                /\ sh.running # None /\ sh.running.id = s.task.id
                      => Ahead(st, "start", s.task.id)
                /\ \A j \in DOMAIN st : Prints(st[j], "end", s.task.id)
                                          => Before(st, j, "start", s.task.id)

\* The recovery guard has a filter, or its command's end is lost.
Guard(s, st, sh, lo) ==
    s.recovery # None =>
        /\ ToCome(st, sh, lo, s.recovery)
        /\ s.recovery \in lo \/ \E f \in s.retired : f.id = s.recovery
        /\ s.recovery \in DOMAIN s.jobs => s.jobs[s.recovery].kind # "background"

\* A capture of the command is on.
Captures(s, id) ==
    \/ s.task # None /\ s.task.id = id /\ s.task.phase = "capturing"
    \/ \E f \in s.retired : f.id = id /\ f.phase = "capturing"

\* The command has printed, and the executor may have seen it.
Printed(s, st, id) ==
    Captures(s, id) \/ \E j \in DOMAIN st : st[j].type # "boundary" /\ st[j].id = id

\* The command was typed last: from its first output on, all output is its own.
Latest(s, st, sh, id) ==
    /\ sh.running # None /\ sh.running.id = id => sh.queue = <<>>
    /\ \A i \in DOMAIN sh.queue : sh.queue[i].id = id => i = Len(sh.queue)
    /\ Printed(s, st, id) => \A c \in Lines(sh) : c.id = id /\ c = sh.running
    /\ Captures(s, id) => \A j \in DOMAIN st : st[j].id = id
    /\ \A i, j \in DOMAIN st :
          i < j /\ st[i].type # "boundary" /\ st[i].id = id => st[j].id = id

\* That is so for the command the executor follows, until the user takes over.
Own(s, st, sh) ==
    \A id \in DOMAIN s.jobs :
        /\ s.jobs[id].output \subseteq {id}
        /\ Watched(s, id) /\ ~s.jobs[id].takeover /\ s.jobs[id].kind # "background"
              => Latest(s, st, sh, id)

Safe(s, st, sh, lo, co, n) ==
    /\ Fresh(s, st, sh, n) /\ TaskInv(s) /\ OneByOne(sh) /\ Ended(s, st, sh)
    /\ Guarded(s, sh, co) /\ Prompted(s, st, sh) /\ Follows(s, st, sh, lo)
    /\ Guard(s, st, sh, lo) /\ Own(s, st, sh)

-----------------------------------------------------------------------------
(* Steps of the executor that leave stream and shell alone.                *)

\* The two tasks differ at most in the caller and in having been cancelled.
SameTask(t, u) ==
    \/ t = None /\ u = None
    \/ /\ t # None /\ u # None
       /\ u.id = t.id /\ u.kind = t.kind /\ u.begun = t.begun /\ u.phase = t.phase

JobsKept(s, n, sh) ==
    /\ DOMAIN n.jobs \subseteq DOMAIN s.jobs
    /\ \A i \in DOMAIN n.jobs :
          JobKept(s.jobs[i], n.jobs[i]) /\ (i \in Ids(sh) => NoExit(s.jobs[i], n.jobs[i]))

\* Jobs are updated or expire.
LEMMA MoveJobs ==
  ASSUME NEW s, NEW m, NEW st, NEW sh, NEW lo, NEW co, NEW n,
         Safe(s, st, sh, lo, co, n),
         SameTask(s.task, m.task), m.retired = s.retired, m.recovery = s.recovery,
         JobsKept(s, m, sh),
         m.task # None => m.task.id \in DOMAIN m.jobs /\ ~m.jobs[m.task.id].finished
  PROVE  Safe(m, st, sh, lo, co, n)
  <1> USE DEF Safe, SameTask
  <1>1. Fresh(m, st, sh, n)
    BY DEF Fresh, JobsKept
  <1>2. TaskInv(m)
    BY DEF TaskInv, JobsKept, JobKept
  <1>3. Ended(m, st, sh)
    BY DEF Ended, JobsKept, JobKept, NoExit
  <1>4. Guarded(m, sh, co)
    BY DEF Guarded, Watched
  <1>5. Prompted(m, st, sh)
    BY DEF Prompted
  <1>6. Follows(m, st, sh, lo) /\ Guard(m, st, sh, lo)
    BY DEF Follows, Guard, JobsKept, JobKept
  <1>7. Own(m, st, sh)
    <2>1. ASSUME NEW id \in DOMAIN m.jobs
          PROVE  /\ m.jobs[id].output \subseteq {id}
                 /\ Watched(m, id) /\ ~m.jobs[id].takeover /\ m.jobs[id].kind # "background"
                       => Watched(s, id) /\ ~s.jobs[id].takeover /\ s.jobs[id].kind # "background"
      BY <2>1 DEF Own, JobsKept, JobKept, Watched
    <2>2. ASSUME NEW id
          PROVE  Captures(m, id) <=> Captures(s, id)
      BY DEF Captures
    <2>3. ASSUME NEW id, Latest(s, st, sh, id)
          PROVE  Latest(m, st, sh, id)
      BY <2>2, <2>3 DEF Latest, Printed
    <2> QED
      BY <2>1, <2>3 DEF Own, JobsKept
  <1> QED
    BY <1>1, <1>2, <1>3, <1>4, <1>5, <1>6, <1>7

\* The execution ends; when the end is confirmed, its command is not in the shell.
LEMMA MoveOver ==
  ASSUME NEW s, NEW m, NEW st, NEW sh, NEW lo, NEW co, NEW n,
         WellTyped(s), s.task # None, Safe(s, st, sh, lo, co, n),
         Over(s, m), s.task.id \in Ids(sh) => Unconfirmed(s, m)
  PROVE  Safe(m, st, sh, lo, co, n)
  <1> DEFINE t == s.task
  <1> USE DEF Safe
  <1>0. t \in Tasks /\ t.id \in Requests /\ t.id \in Nat /\ s.recovery = None /\ t.id # None
        /\ m.task = None /\ t.id \in DOMAIN s.jobs
    BY ExecutionConstants DEF WellTyped, Tasks, TaskInv, Over, Requests
  <1>1. Fresh(m, st, sh, n)
    BY <1>0 DEF Fresh, Over
  <1>2. TaskInv(m)
    BY <1>0 DEF TaskInv
  <1>3. Ended(m, st, sh)
    BY <1>0 DEF Ended, Over, JobKept, Unconfirmed, NoExit
  <1>4. Guarded(m, sh, co)
    <2>1. t.kind = "background" => t.id \notin Ids(sh)
      BY <1>0 DEF Ended, TaskInv
    <2> QED
      BY <1>0, <2>1, ExecutionConstants DEF Guarded, Watched, Unconfirmed, Fresh
  <1>5. Prompted(m, st, sh)
    BY <1>0 DEF Prompted
  <1>6. Follows(m, st, sh, lo)
    BY <1>0 DEF Follows
  <1>7. Guard(m, st, sh, lo)
    <2>0. m.recovery = t.id => m.jobs[t.id].kind # "background"
      BY <1>0 DEF Over, JobKept, TaskInv
    <2>1. SUFFICES ASSUME m.recovery = t.id, t.kind # "raw"
                   PROVE  ToCome(st, sh, lo, t.id) /\ \E g \in m.retired : g.id = t.id
      BY <1>0, <2>0, <2>1 DEF Guard, Over, Follows, ToCome
    <2>2. t.kind = "marked"
      <3>1. t.kind # "background"
        BY <1>0, <2>1 DEF Over
      <3> QED
        BY <1>0, <2>1, <3>1 DEF Tasks, Kinds
    <2>3. \E g \in m.retired : g.id = t.id
      BY <2>1, <2>2 DEF Over
    <2> QED
      BY <1>0, <2>2, <2>3 DEF Follows, ToCome
  <1>8. Own(m, st, sh)
    <2>1. ASSUME NEW id \in DOMAIN m.jobs
          PROVE  /\ m.jobs[id].output \subseteq {id}
                 /\ Watched(m, id) /\ ~m.jobs[id].takeover /\ m.jobs[id].kind # "background"
                       => Watched(s, id) /\ ~s.jobs[id].takeover /\ s.jobs[id].kind # "background"
      BY <2>1, <1>0 DEF Own, Over, JobKept, Watched
    <2>2. ASSUME NEW id, Captures(m, id)
          PROVE  Captures(s, id)
      BY <1>0, <2>2 DEF Captures, Over
    <2>3. ASSUME NEW id, Latest(s, st, sh, id)
          PROVE  Latest(m, st, sh, id)
      BY <2>2, <2>3 DEF Latest, Printed
    <2> QED
      BY <2>1, <2>3 DEF Own, Over
  <1> QED
    BY <1>1, <1>2, <1>3, <1>4, <1>5, <1>6, <1>7, <1>8

-----------------------------------------------------------------------------
(* What the retired filters do with an event.                              *)

\* Filters that are left look on; the guard goes when the end of its command is
\* seen, and only then; output is added to the guarded job only by its own filter.
FiltersLeft(s, n, e) ==
    /\ n.task = s.task /\ n.keys = s.keys
    /\ \A g \in n.retired : \E f \in s.retired :
          g.id = f.id /\ (g.phase = "capturing" => f.phase = "capturing" \/ Prints(e, "start", f.id))
    /\ \A f \in s.retired : Prints(e, "end", f.id) \/ \E g \in n.retired : g.id = f.id
    /\ \/ n.recovery = s.recovery /\ \A f \in s.retired : Prints(e, "end", f.id) => f.id # s.recovery
       \/ n.recovery = None /\ Prints(e, "end", s.recovery)

FiltersJobs(s, n, e) ==
    /\ DOMAIN n.jobs = DOMAIN s.jobs
    /\ \A i \in DOMAIN s.jobs : i # s.recovery => n.jobs[i] = s.jobs[i]
    /\ s.recovery \in DOMAIN s.jobs =>
          LET j == s.jobs[s.recovery]
              k == n.jobs[s.recovery]
          IN /\ k.kind = j.kind /\ (j.takeover => k.takeover)
             /\ NoExit(j, k) \/ Prints(e, "end", s.recovery)
             /\ \/ k.output = j.output
                \/ /\ ~j.takeover /\ k.output \subseteq j.output \cup {e.id}
                   /\ \E f \in s.retired : f.id = s.recovery /\ f.phase = "capturing"

LEMMA FiltersEffect ==
  ASSUME NEW s, WellTyped(s), NEW e \in Events
  PROVE  LET n == AfterFilters(s, e)
         IN WellTyped(n) /\ FiltersLeft(s, n, e) /\ FiltersJobs(s, n, e)
  <1> DEFINE OwnJob(f) == s.recovery = f.id /\ f.id \in DOMAIN s.jobs /\ ~s.jobs[f.id].takeover
             Seen(f) == [f EXCEPT !.observing = @ /\ OwnJob(f),
                                  !.phase = IF Carries(e, f.id) /\ e.type = "start"
                                            THEN "capturing" ELSE @]
             Ends(f) == Carries(e, f.id) /\ e.type = "end"
             observed == \E f \in s.retired : /\ f.observing /\ OwnJob(f)
                                              /\ f.phase = "capturing" /\ e.type = "text"
             ended == \E f \in s.retired : Ends(f) /\ s.recovery = f.id
             jobs == IF observed THEN AppendOutput(s.jobs, s.recovery, e.id) ELSE s.jobs
             late == IF ended THEN LateEnd(jobs, s.recovery, e.code) ELSE jobs
             guard == IF ended THEN None ELSE s.recovery
             left == {Seen(f) : f \in {g \in s.retired : ~Ends(g)}}
             a == [s EXCEPT !.retired = left]
             b == [a EXCEPT !.recovery = guard]
             c == [b EXCEPT !.jobs = late]
  <1>0. AfterFilters(s, e) = c
    BY DEF AfterFilters, WellTyped
  <1>1. ASSUME NEW f \in Filters
        PROVE  /\ Ends(f) <=> Prints(e, "end", f.id)
               /\ Seen(f) \in Filters /\ Seen(f).id = f.id
               /\ Seen(f).phase = "capturing" => f.phase = "capturing" \/ Prints(e, "start", f.id)
    BY <1>1 DEF Carries, Prints, Filters, Phases
  <1> HIDE DEF Seen
  <1>2. left \in SUBSET Filters /\ s.retired \subseteq Filters
    BY <1>1 DEF WellTyped
  <1>3. \A g \in left : \E f \in s.retired :
           g.id = f.id /\ (g.phase = "capturing" => f.phase = "capturing" \/ Prints(e, "start", f.id))
    BY <1>1, <1>2
  <1>4. \A f \in s.retired : Prints(e, "end", f.id) \/ \E g \in left : g.id = f.id
    BY <1>1, <1>2
  <1>5. /\ ended => Prints(e, "end", s.recovery) /\ s.recovery \in Requests
        /\ ~ended => \A f \in s.retired : Prints(e, "end", f.id) => f.id # s.recovery
    BY <1>1, <1>2 DEF Filters
  <1>6. /\ s.jobs \in [DOMAIN s.jobs -> Jobs] /\ e.id \in Requests \cup {User}
    BY DEF WellTyped, Events
  <1>7. observed => /\ s.recovery \in DOMAIN s.jobs /\ ~s.jobs[s.recovery].takeover
                    /\ \E f \in s.retired : f.id = s.recovery /\ f.phase = "capturing"
    BY <1>2
  <1> HIDE DEF left, observed, ended
  <1>8. /\ jobs \in [DOMAIN s.jobs -> Jobs]
        /\ \A i \in DOMAIN s.jobs :
              /\ jobs[i].kind = s.jobs[i].kind /\ jobs[i].takeover = s.jobs[i].takeover
              /\ jobs[i].process = s.jobs[i].process
              /\ jobs[i].output \subseteq s.jobs[i].output \cup {e.id}
              /\ i # s.recovery => jobs[i] = s.jobs[i]
              /\ ~observed => jobs[i] = s.jobs[i]
    <2>1. CASE observed
      <3> DEFINE k == [s.jobs[s.recovery] EXCEPT !.output = @ \cup {e.id}]
      <3>1. s.jobs[s.recovery] \in Jobs
        BY <1>6, <1>7, <2>1
      <3>2. /\ k \in Jobs /\ k.kind = s.jobs[s.recovery].kind
            /\ k.takeover = s.jobs[s.recovery].takeover
            /\ k.process = s.jobs[s.recovery].process
            /\ k.output = s.jobs[s.recovery].output \cup {e.id}
        BY <3>1, <1>6 DEF Jobs
      <3>3. jobs = [s.jobs EXCEPT ![s.recovery] = k]
        BY <1>7, <2>1 DEF AppendOutput
      <3> HIDE DEF k, jobs
      <3> QED
        BY <1>6, <1>7, <2>1, <3>2, <3>3
    <2>2. CASE ~observed
      BY <2>2, <1>6
    <2> QED
      BY <2>1, <2>2
  <1> HIDE DEF jobs
  <1>9. /\ late \in [DOMAIN s.jobs -> Jobs]
        /\ \A i \in DOMAIN s.jobs : i # s.recovery => late[i] = jobs[i]
        /\ s.recovery \in DOMAIN s.jobs => JobKept(jobs[s.recovery], late[s.recovery])
        /\ ~ended => late = jobs
    <2>1. /\ LateEnd(jobs, s.recovery, e.code) \in [DOMAIN s.jobs -> Jobs]
          /\ \A i \in DOMAIN s.jobs : i # s.recovery => LateEnd(jobs, s.recovery, e.code)[i] = jobs[i]
          /\ s.recovery \in DOMAIN s.jobs =>
                JobKept(jobs[s.recovery], LateEnd(jobs, s.recovery, e.code)[s.recovery])
      BY <1>8, LateEndJobs
    <2>2. CASE ended
      BY <2>1, <2>2
    <2>3. CASE ~ended
      BY <1>8, <2>3 DEF JobKept
    <2> QED
      BY <2>2, <2>3
  <1> HIDE DEF late
  <1>10. /\ WellTyped(c) /\ c.task = s.task /\ c.keys = s.keys
         /\ c.retired = left /\ c.recovery = guard /\ c.jobs = late
    <2>1. WellTyped(a) /\ a.task = s.task /\ a.keys = s.keys /\ a.jobs = s.jobs
          /\ a.recovery = s.recovery /\ a.retired = left
      BY <1>2 DEF WellTyped
    <2> HIDE DEF a
    <2>2. WellTyped(b) /\ b.task = s.task /\ b.keys = s.keys /\ b.jobs = s.jobs
          /\ b.recovery = guard /\ b.retired = left
      BY <2>1 DEF WellTyped
    <2> HIDE DEF b
    <2> QED
      BY <2>2, <1>9 DEF WellTyped
  <1> HIDE DEF c
  <1>11. FiltersLeft(s, c, e)
    BY <1>3, <1>4, <1>5, <1>10 DEF FiltersLeft
  <1>12. FiltersJobs(s, c, e)
    <2>1. DOMAIN c.jobs = DOMAIN s.jobs
          /\ \A i \in DOMAIN s.jobs : i # s.recovery => c.jobs[i] = s.jobs[i]
      BY <1>8, <1>9, <1>10
    <2>2. ASSUME s.recovery \in DOMAIN s.jobs
          PROVE  LET j == s.jobs[s.recovery]
                     k == c.jobs[s.recovery]
                 IN /\ k.kind = j.kind /\ (j.takeover => k.takeover)
                    /\ NoExit(j, k) \/ Prints(e, "end", s.recovery)
                    /\ \/ k.output = j.output
                       \/ /\ ~j.takeover /\ k.output \subseteq j.output \cup {e.id}
                          /\ \E f \in s.retired : f.id = s.recovery /\ f.phase = "capturing"
      <3>1. /\ c.jobs[s.recovery].kind = s.jobs[s.recovery].kind
            /\ s.jobs[s.recovery].takeover => c.jobs[s.recovery].takeover
            /\ c.jobs[s.recovery].output = jobs[s.recovery].output
        BY <2>2, <1>8, <1>9, <1>10 DEF JobKept
      <3>2. NoExit(s.jobs[s.recovery], c.jobs[s.recovery]) \/ Prints(e, "end", s.recovery)
        BY <2>2, <1>5, <1>8, <1>9, <1>10 DEF NoExit
      <3>3. ~observed => c.jobs[s.recovery].output = s.jobs[s.recovery].output
        BY <2>2, <3>1, <1>8
      <3>4. c.jobs[s.recovery].output \subseteq s.jobs[s.recovery].output \cup {e.id}
        BY <2>2, <3>1, <1>8
      <3> QED
        BY <3>1, <3>2, <3>3, <3>4, <1>7
    <2> QED
      BY <2>1, <2>2 DEF FiltersJobs
  <1> QED
    BY <1>0, <1>10, <1>11, <1>12

\* The filters look at the first event of the stream.
LEMMA MoveFilters ==
  ASSUME NEW s, NEW m, NEW st \in Seq(Events), NEW sh, NEW lo, NEW co, NEW n, st # <<>>,
         WellTyped(s), Safe(s, st, sh, lo, co, n),
         FiltersLeft(s, m, st[1]), FiltersJobs(s, m, st[1]), st[1].type # "boundary"
  PROVE  /\ Safe(m, st, sh, lo, co, n)
         /\ m.recovery # None /\ Prints(st[1], "end", m.recovery) => m.recovery \in lo
  <1> DEFINE e == st[1]
  <1> USE DEF Safe
  <1>0. 1 \in DOMAIN st /\ \A j \in DOMAIN st : j # 1 => 1 < j
    OBVIOUS
  <1>1. m.task = s.task /\ DOMAIN m.jobs = DOMAIN s.jobs /\ None \notin DOMAIN s.jobs
    BY ExecutionConstants DEF FiltersLeft, FiltersJobs, Fresh
  <1>a. \A i \in DOMAIN s.jobs : m.jobs[i].kind = s.jobs[i].kind
    BY DEF FiltersJobs
  <1>b. m.recovery \in {None, s.recovery}
    BY DEF FiltersLeft
  <1>3. Fresh(m, st, sh, n)
    BY <1>1 DEF Fresh, FiltersLeft
  <1>4. TaskInv(m)
    <2> SUFFICES ASSUME s.task # None
                 PROVE  TaskInv(m)
      BY <1>1 DEF TaskInv
    <2>1. s.recovery = None /\ s.task.id \in DOMAIN s.jobs /\ s.task.id # None
      BY <1>1 DEF TaskInv
    <2>2. m.recovery = None /\ m.jobs[s.task.id] = s.jobs[s.task.id]
      BY <2>1, <1>b DEF FiltersJobs
    <2>3. \A g \in m.retired : g.id # s.task.id
      BY DEF TaskInv, FiltersLeft
    <2> QED
      BY <1>1, <2>1, <2>2, <2>3 DEF TaskInv
  <1>5. Ended(m, st, sh)
    <2>1. Prints(e, "end", s.recovery) => s.recovery \notin Ids(sh)
      BY <1>0 DEF Ended, Prints
    <2> QED
      BY <2>1, <1>1, <1>a DEF Ended, FiltersJobs, NoExit
  <1>6. Guarded(m, sh, co)
    <2>1. m.recovery = s.recovery \/ s.recovery \notin Ids(sh)
      BY <1>0 DEF FiltersLeft, Ended, Prints
    <2> QED
      BY <2>1, <1>1 DEF Guarded, Watched
  <1>7. Prompted(m, st, sh) /\ Follows(m, st, sh, lo)
    BY <1>1 DEF Prompted, Follows
  <1>8. Guard(m, st, sh, lo)
    BY <1>1, <1>a, <1>b DEF Guard, FiltersLeft
  <1>9. Own(m, st, sh)
    <2>1. ASSUME NEW id, Latest(s, st, sh, id)
          PROVE  Latest(m, st, sh, id)
      <3>1. Captures(m, id) => Captures(s, id) \/ Prints(e, "start", id)
        BY <1>1 DEF Captures, FiltersLeft
      <3>2. Prints(e, "start", id) => Printed(s, st, id) /\ \A j \in DOMAIN st : st[j].id = id
        BY <1>0, <2>1 DEF Prints, Printed, Latest
      <3>3. Printed(m, st, id) => Printed(s, st, id)
        BY <3>1, <3>2 DEF Printed
      <3> QED
        BY <2>1, <3>1, <3>2, <3>3 DEF Latest
    <2>2. ASSUME NEW id \in DOMAIN m.jobs
          PROVE  /\ Watched(m, id) /\ ~m.jobs[id].takeover /\ m.jobs[id].kind # "background"
                      => Watched(s, id) /\ ~s.jobs[id].takeover /\ s.jobs[id].kind # "background"
      BY <2>2, <1>1, <1>a, <1>b DEF Watched, FiltersJobs
    <2>3. ASSUME NEW id \in DOMAIN m.jobs
          PROVE  m.jobs[id].output \subseteq {id}
      <3>1. s.jobs[id].output \subseteq {id}
        BY <1>1, <2>3 DEF Own
      <3>2. CASE m.jobs[id].output = s.jobs[id].output
        BY <3>1, <3>2
      <3>3. CASE m.jobs[id].output # s.jobs[id].output
        <4>1. /\ id = s.recovery /\ ~s.jobs[id].takeover /\ Captures(s, id)
              /\ m.jobs[id].output \subseteq s.jobs[id].output \cup {e.id}
          BY <3>3, <2>3, <1>1 DEF FiltersJobs, Captures
        <4>2. s.jobs[id].kind # "background"
          BY <4>1, <1>1, <2>3 DEF Guard
        <4>3. Latest(s, st, sh, id)
          BY <4>1, <4>2, <1>1, <2>3 DEF Own, Watched
        <4>4. e.id = id
          BY <4>1, <4>3, <1>0 DEF Latest
        <4> QED
          BY <3>1, <4>1, <4>4
      <3> QED
        BY <3>2, <3>3
    <2> QED
      BY <1>1, <2>1, <2>2, <2>3 DEF Own
  <1>10. m.recovery # None /\ Prints(st[1], "end", m.recovery) => m.recovery \in lo
    BY <1>b DEF Guard, FiltersLeft
  <1> QED
    BY <1>3, <1>4, <1>5, <1>6, <1>7, <1>8, <1>9, <1>10

\* The user declares the shell recovered.
LEMMA MoveConfirm ==
  ASSUME NEW s, NEW m, NEW st, NEW sh, NEW lo, NEW co, NEW n, Safe(s, st, sh, lo, co, n),
         m.task = s.task, m.retired = s.retired, m.jobs = s.jobs, m.recovery = None
  PROVE  Safe(m, st, sh, lo, co \cup {s.recovery}, n)
  <1> USE DEF Safe
  <1>1. Fresh(m, st, sh, n) /\ TaskInv(m) /\ Ended(m, st, sh) /\ Prompted(m, st, sh)
    BY DEF Fresh, TaskInv, Ended, Prompted
  <1>2. Guarded(m, sh, co \cup {s.recovery})
    BY DEF Guarded, Watched
  <1>3. Follows(m, st, sh, lo) /\ Guard(m, st, sh, lo)
    BY DEF Follows, Guard
  <1>4. Own(m, st, sh)
    <2>1. \A id : Captures(m, id) <=> Captures(s, id)
      BY DEF Captures
    <2>2. ASSUME NEW id, Latest(s, st, sh, id)
          PROVE  Latest(m, st, sh, id)
      BY <2>1, <2>2 DEF Latest, Printed
    <2>3. \A id \in DOMAIN s.jobs : Watched(m, id) => Watched(s, id)
      BY ExecutionConstants DEF Watched, Fresh
    <2> QED
      BY <2>2, <2>3 DEF Own
  <1> QED
    BY <1>1, <1>2, <1>3, <1>4

\* The state of the capture advances: the boundary is seen, the start is, or a raw
\* command is at a prompt or not any more.
Advances(s, m, e) ==
    LET t == s.task
        u == m.task
    IN /\ t # None /\ u # None /\ u.id = t.id /\ u.kind = t.kind
       /\ \/ Prints(e, "boundary", t.id) /\ u.begun /\ u.phase = t.phase
          \/ /\ t.begun /\ u.begun
             /\ \/ t.kind = "marked" /\ Prints(e, "start", t.id) /\ u.phase = "capturing"
                \/ t.kind = "raw" /\ u.phase = "wait"
                \/ t.kind = "raw" /\ e.type = "prompt" /\ u.phase = "prompt"

LEMMA MoveTask ==
  ASSUME NEW s, NEW m, NEW st \in Seq(Events), NEW sh, NEW lo, NEW co, NEW n, st # <<>>,
         Safe(s, st, sh, lo, co, n),
         Advances(s, m, st[1]), m.retired = s.retired, m.recovery = s.recovery,
         DOMAIN m.jobs = DOMAIN s.jobs,
         \A i \in DOMAIN s.jobs : /\ JobKept(s.jobs[i], m.jobs[i]) /\ NoExit(s.jobs[i], m.jobs[i])
                                  /\ m.jobs[i].finished = s.jobs[i].finished
  PROVE  Safe(m, st, sh, lo, co, n)
  <1> DEFINE e == st[1]
             t == s.task
             u == m.task
  <1> USE DEF Safe
  <1>0. 1 \in DOMAIN st /\ \A j \in DOMAIN st : j # 1 => 1 < j
    OBVIOUS
  <1>1. t # None /\ u # None /\ u.id = t.id /\ u.kind = t.kind
    BY DEF Advances
  <1>2. Fresh(m, st, sh, n) /\ Ended(m, st, sh) /\ Guarded(m, sh, co)
    BY <1>1 DEF Fresh, Ended, Guarded, Watched, JobKept, NoExit
  <1>3. TaskInv(m)
    BY <1>1 DEF TaskInv, Advances, JobKept
  <1>4. Prompted(m, st, sh)
    BY <1>0, <1>1 DEF Prompted, Advances, Prints
  <1>5. Follows(m, st, sh, lo)
    <2>1. u.begun
      BY DEF Advances
    <2>2. t.kind = "marked" => t.phase = "wait" \/ u.phase # "wait"
      BY DEF Advances, TaskInv
    <2> QED
      BY <1>1, <2>1, <2>2 DEF Follows
  <1>6. Guard(m, st, sh, lo)
    BY DEF Guard, JobKept
  <1>7. Own(m, st, sh)
    <2>1. ASSUME NEW id, Latest(s, st, sh, id)
          PROVE  Latest(m, st, sh, id)
      <3>1. Captures(m, id) => Captures(s, id) \/ Prints(e, "start", id)
        BY <1>1 DEF Captures, Advances
      <3>2. Prints(e, "start", id) => Printed(s, st, id) /\ \A j \in DOMAIN st : st[j].id = id
        BY <1>0, <2>1 DEF Prints, Printed, Latest
      <3>3. Printed(m, st, id) => Printed(s, st, id)
        BY <3>1, <3>2 DEF Printed
      <3> QED
        BY <2>1, <3>1, <3>2, <3>3 DEF Latest
    <2>2. \A id \in DOMAIN s.jobs : Watched(m, id) => Watched(s, id)
      BY <1>1 DEF Watched
    <2> QED
      BY <2>1, <2>2 DEF Own, JobKept
  <1> QED
    BY <1>2, <1>3, <1>4, <1>5, <1>6, <1>7

\* The capture takes the first event of the stream for output of the command.
LEMMA MoveOutput ==
  ASSUME NEW s, NEW m, NEW st \in Seq(Events), NEW sh, NEW lo, NEW co, NEW n, st # <<>>,
         Safe(s, st, sh, lo, co, n),
         s.task # None, s.task.phase = "capturing",
         m.task = s.task, m.retired = s.retired, m.recovery = s.recovery,
         DOMAIN m.jobs = DOMAIN s.jobs,
         \A i \in DOMAIN s.jobs :
            /\ m.jobs[i].kind = s.jobs[i].kind /\ m.jobs[i].takeover = s.jobs[i].takeover
            /\ m.jobs[i].process = s.jobs[i].process /\ m.jobs[i].finished = s.jobs[i].finished
            /\ m.jobs[i].output \subseteq s.jobs[i].output \cup {st[1].id}
            /\ i # s.task.id \/ s.jobs[i].takeover => m.jobs[i].output = s.jobs[i].output
  PROVE  Safe(m, st, sh, lo, co, n)
  <1> USE DEF Safe
  <1>0. 1 \in DOMAIN st
    OBVIOUS
  <1>1. Fresh(m, st, sh, n) /\ TaskInv(m) /\ Ended(m, st, sh) /\ Guarded(m, sh, co)
    BY DEF Fresh, TaskInv, Ended, Guarded, Watched
  <1>2. Prompted(m, st, sh) /\ Follows(m, st, sh, lo) /\ Guard(m, st, sh, lo)
    BY DEF Prompted, Follows, Guard
  <1>3. Own(m, st, sh)
    <2>1. \A id : Captures(m, id) <=> Captures(s, id)
      BY DEF Captures
    <2>2. ASSUME NEW id, Latest(s, st, sh, id)
          PROVE  Latest(m, st, sh, id)
      BY <2>1, <2>2 DEF Latest, Printed
    <2>3. \A id : Watched(m, id) => Watched(s, id)
      BY DEF Watched
    <2>4. ASSUME NEW id \in DOMAIN s.jobs
          PROVE  m.jobs[id].output \subseteq {id}
      <3>1. CASE id = s.task.id /\ ~s.jobs[id].takeover
        <4>1. Latest(s, st, sh, id)
          BY <3>1 DEF Own, Watched, TaskInv
        <4>2. st[1].id = id
          BY <1>0, <3>1, <4>1 DEF Latest, Captures
        <4> QED
          BY <4>2 DEF Own
      <3>2. CASE ~(id = s.task.id /\ ~s.jobs[id].takeover)
        BY <3>2 DEF Own
      <3> QED
        BY <3>1, <3>2
    <2> QED
      BY <2>2, <2>3, <2>4 DEF Own
  <1> QED
    BY <1>1, <1>2, <1>3

-----------------------------------------------------------------------------
(* Steps of the stream and the shell.                                      *)

LEMMA TailFacts ==
  ASSUME NEW st \in Seq(Events), st # <<>>
  PROVE  /\ Tail(st) \in Seq(Events) /\ st[1] \in Events /\ Head(st) = st[1]
         /\ \A k \in DOMAIN Tail(st) : k + 1 \in DOMAIN st /\ Tail(st)[k] = st[k + 1]
         /\ \A k \in DOMAIN st : k = 1 \/ (k - 1 \in DOMAIN Tail(st) /\ Tail(st)[k - 1] = st[k])
         /\ 1 \in DOMAIN st /\ DOMAIN st \subseteq Nat /\ DOMAIN Tail(st) \subseteq Nat
  OBVIOUS

LEMMA ConcatFacts ==
  ASSUME NEW st \in Seq(Events), NEW E \in Seq(Events)
  PROVE  /\ st \o E \in Seq(Events)
         /\ \A k \in DOMAIN st : k \in DOMAIN (st \o E) /\ (st \o E)[k] = st[k]
         /\ \A k \in DOMAIN E : Len(st) + k \in DOMAIN (st \o E) /\ (st \o E)[Len(st) + k] = E[k]
         /\ \A k \in DOMAIN (st \o E) :
               k \in DOMAIN st \/ (k - Len(st) \in DOMAIN E /\ (st \o E)[k] = E[k - Len(st)])
         /\ DOMAIN st = 1 .. Len(st) /\ DOMAIN E = 1 .. Len(E) /\ Len(st) \in Nat /\ Len(E) \in Nat
         /\ DOMAIN (st \o E) = 1 .. Len(st) + Len(E)
  OBVIOUS

\* The executor knows what it needs of the first event.
Passed(s, e, lo) ==
    /\ s.recovery # None /\ Prints(e, "end", s.recovery) => s.recovery \in lo
    /\ s.task # None /\ s.task.kind = "marked" /\ s.task.id \notin lo =>
          /\ ~Prints(e, "end", s.task.id)
          /\ Prints(e, "boundary", s.task.id) => s.task.begun
          /\ Prints(e, "start", s.task.id) => s.task.phase # "wait"

\* The first event is taken from the stream.
LEMMA StreamTail ==
  ASSUME NEW s, NEW st \in Seq(Events), NEW sh, NEW lo, NEW co, NEW n, st # <<>>,
         Safe(s, st, sh, lo, co, n), Passed(s, st[1], lo)
  PROVE  Safe(s, Tail(st), sh, lo, co, n)
  <1> DEFINE tl == Tail(st)
  <1> USE DEF Safe
  <1>1. /\ tl \in Seq(Events)
        /\ \A k \in DOMAIN tl : k + 1 \in DOMAIN st /\ tl[k] = st[k + 1]
        /\ \A k \in DOMAIN st : k = 1 \/ (k - 1 \in DOMAIN tl /\ tl[k - 1] = st[k])
        /\ 1 \in DOMAIN st /\ DOMAIN st \subseteq Nat /\ DOMAIN tl \subseteq Nat
    BY TailFacts
  <1> HIDE DEF tl
  <1>2. ASSUME NEW type, NEW id, Ahead(st, type, id), ~Prints(st[1], type, id)
        PROVE  Ahead(tl, type, id)
    BY <1>1, <1>2 DEF Ahead
  <1>3. ASSUME NEW type, NEW id, NEW j \in DOMAIN tl, Before(st, j + 1, type, id),
               ~Prints(st[1], type, id)
        PROVE  Before(tl, j, type, id)
    <2>1. PICK i \in DOMAIN st : i < j + 1 /\ Prints(st[i], type, id)
      BY <1>3 DEF Before
    <2>2. i # 1 /\ i - 1 \in DOMAIN tl /\ tl[i - 1] = st[i] /\ i - 1 < j
      BY <1>1, <1>3, <2>1
    <2> QED
      BY <2>1, <2>2 DEF Before
  <1>4. ASSUME NEW id, Prints(st[1], "end", id) => id \in lo, ToCome(st, sh, lo, id)
        PROVE  ToCome(tl, sh, lo, id)
    BY <1>2, <1>4 DEF ToCome
  <1>5. Fresh(s, tl, sh, n) /\ Ended(s, tl, sh)
    BY <1>1 DEF Fresh, Ended
  <1>6. Prompted(s, tl, sh)
    <2>1. \A i, j \in DOMAIN tl :
             i < j /\ tl[i].type = "boundary" /\ tl[j].type = "prompt" => tl[i].id \notin Ids(sh)
      <3> SUFFICES ASSUME NEW i \in DOMAIN tl, NEW j \in DOMAIN tl, i < j,
                          tl[i].type = "boundary", tl[j].type = "prompt"
                   PROVE  tl[i].id \notin Ids(sh)
        OBVIOUS
      <3>1. i + 1 \in DOMAIN st /\ j + 1 \in DOMAIN st /\ i + 1 < j + 1
        BY <1>1
      <3> QED
        BY <1>1, <3>1 DEF Prompted
    <2> QED
      BY <1>1, <2>1 DEF Prompted
  <1>7. Follows(s, tl, sh, lo)
    <2> SUFFICES ASSUME s.task # None, s.task.kind = "marked", s.task.id \notin lo
                 PROVE  /\ ToCome(tl, sh, lo, s.task.id)
                        /\ ~s.task.begun =>
                              /\ s.task.id \in Ids(sh) => Ahead(tl, "boundary", s.task.id)
                              /\ \A j \in DOMAIN tl : tl[j].id = s.task.id /\ tl[j].type # "boundary"
                                                        => Before(tl, j, "boundary", s.task.id)
                        /\ s.task.phase = "wait" =>
                              /\ sh.running # None /\ sh.running.id = s.task.id
                                    => Ahead(tl, "start", s.task.id)
                              /\ \A j \in DOMAIN tl : Prints(tl[j], "end", s.task.id)
                                                        => Before(tl, j, "start", s.task.id)
      BY DEF Follows
    <2>1. ToCome(tl, sh, lo, s.task.id)
      BY <1>4 DEF Follows, Passed
    <2>2. ASSUME ~s.task.begun
          PROVE  /\ s.task.id \in Ids(sh) => Ahead(tl, "boundary", s.task.id)
                 /\ \A j \in DOMAIN tl : tl[j].id = s.task.id /\ tl[j].type # "boundary"
                                           => Before(tl, j, "boundary", s.task.id)
      <3>1. ~Prints(st[1], "boundary", s.task.id)
        BY <2>2 DEF Passed
      <3> QED
        BY <1>1, <1>2, <1>3, <2>2, <3>1 DEF Follows
    <2>3. ASSUME s.task.phase = "wait"
          PROVE  /\ sh.running # None /\ sh.running.id = s.task.id
                       => Ahead(tl, "start", s.task.id)
                 /\ \A j \in DOMAIN tl : Prints(tl[j], "end", s.task.id)
                                           => Before(tl, j, "start", s.task.id)
      <3>1. ~Prints(st[1], "start", s.task.id)
        BY <2>3 DEF Passed
      <3> QED
        BY <1>1, <1>2, <1>3, <2>3, <3>1 DEF Follows
    <2> QED
      BY <2>1, <2>2, <2>3
  <1>8. Guard(s, tl, sh, lo)
    BY <1>4 DEF Guard, Passed
  <1>9. Own(s, tl, sh)
    <2>1. ASSUME NEW id, Latest(s, st, sh, id)
          PROVE  Latest(s, tl, sh, id)
      <3>1. Printed(s, tl, id) => Printed(s, st, id)
        BY <1>1 DEF Printed
      <3>2. ASSUME NEW i \in DOMAIN tl, NEW j \in DOMAIN tl, i < j,
                   tl[i].type # "boundary", tl[i].id = id
            PROVE  tl[j].id = id
        <4>1. i + 1 \in DOMAIN st /\ j + 1 \in DOMAIN st /\ i + 1 < j + 1
          BY <1>1, <3>2
        <4> QED
          BY <1>1, <2>1, <3>2, <4>1, SMTT(30) DEF Latest
      <3> QED
        BY <1>1, <2>1, <3>1, <3>2 DEF Latest
    <2> QED
      BY <2>1 DEF Own
  <1> QED
    BY <1>5, <1>6, <1>7, <1>8, <1>9 DEF tl

\* More ends are lost.
LEMMA LostMore ==
  ASSUME NEW s, NEW st, NEW sh, NEW lo, NEW lp, NEW co, NEW n,
         Safe(s, st, sh, lo, co, n), lo \subseteq lp
  PROVE  Safe(s, st, sh, lp, co, n)
  BY DEF Safe, Follows, Guard, ToCome

Shells == [running : Commands \cup {None}, queue : Seq(Commands)]

\* What the shell prints when it begins the next line.
LEMMA BeginningEvents ==
  ASSUME NEW q \in Seq(Commands)
  PROVE  /\ q = <<>> => Beginning(q) = <<>>
         /\ q # <<>> /\ q[1].kind = "marked" =>
               Beginning(q) = <<Event("start", q[1].id, None), Event("text", q[1].id, None)>>
         /\ q # <<>> /\ q[1].kind # "marked" => Beginning(q) = <<Event("text", q[1].id, None)>>
         /\ Beginning(q) \in Seq(Events)
  <1>1. CASE q = <<>>
    BY <1>1 DEF Beginning
  <1>2. CASE q # <<>>
    <2>1. q[1] \in Commands /\ Head(q) = q[1] /\ q[1].id \in Requests \cup {User}
      BY <1>2 DEF Commands
    <2> DEFINE a == Event("start", q[1].id, None)
               b == Event("text", q[1].id, None)
    <2>2. a \in Events /\ b \in Events
      BY <2>1 DEF Event, Events
    <2>3. Beginning(q) = IF q[1].kind = "marked" THEN <<a, b>> ELSE <<b>>
      BY <1>2, <2>1 DEF Beginning, Text
    <2> HIDE DEF a, b
    <2>4. <<a, b>> \in Seq(Events) /\ <<b>> \in Seq(Events)
      BY <2>2
    <2>5. CASE q[1].kind = "marked"
      BY <1>2, <2>3, <2>4, <2>5 DEF a, b
    <2>6. CASE q[1].kind # "marked"
      BY <1>2, <2>3, <2>4, <2>6 DEF a, b
    <2> QED
      BY <2>5, <2>6
  <1> QED
    BY <1>1, <1>2

\* What it prints when a line ends: the end of that line, then the prompt or the
\* beginning of the next line.
EndsWith(E, c, code, q) ==
    /\ E \in Seq(Events)
    /\ \A k \in DOMAIN E :
          /\ E[k].type # "boundary"
          /\ E[k].type = "end" => /\ k = 1 /\ E[k].id = c.id /\ E[k].code # None
                                  /\ c.kind = "marked"
          /\ E[k].type = "prompt" => q = <<>> /\ E[k].id = c.id
          /\ E[k].type \in {"start", "text"} => q # <<>> /\ E[k].id = q[1].id
    /\ c.kind = "marked" /\ code # None => \E k \in DOMAIN E : Prints(E[k], "end", c.id)
    /\ q # <<>> /\ q[1].kind = "marked" => \E k \in DOMAIN E : Prints(E[k], "start", q[1].id)

LEMMA EndingEvents ==
  ASSUME NEW c \in Commands, NEW code \in {0, 130, None}, NEW q \in Seq(Commands)
  PROVE  EndsWith(Ending(c, code, q), c, code, q)
  <1> DEFINE e == Event("end", c.id, code)
             p == Event("prompt", c.id, None)
             a == Event("start", q[1].id, None)
             b == Event("text", q[1].id, None)
             A == IF c.kind = "marked" /\ code # None THEN <<e>> ELSE <<>>
             B == IF q = <<>> THEN <<p>> ELSE Beginning(q)
  <1>1. c.id \in Requests \cup {User}
    BY DEF Commands
  <1>2. e \in Events /\ p \in Events
    BY <1>1 DEF Event, Events
  <1>3. Ending(c, code, q) = A \o B
    BY DEF Ending, Text
  <1>4. /\ e.type = "end" /\ e.id = c.id /\ e.code = code
        /\ p.type = "prompt" /\ p.id = c.id
    BY DEF Event
  <1>5. /\ a.type = "start" /\ a.id = q[1].id /\ b.type = "text" /\ b.id = q[1].id
    BY DEF Event
  <1>6. /\ B \in Seq(Events)
        /\ \A k \in DOMAIN B :
              /\ B[k].type # "boundary" /\ B[k].type # "end"
              /\ B[k].type = "prompt" => q = <<>> /\ B[k].id = c.id
              /\ B[k].type \in {"start", "text"} => q # <<>> /\ B[k].id = q[1].id
        /\ q # <<>> /\ q[1].kind = "marked" =>
              \E k \in DOMAIN B : Prints(B[k], "start", q[1].id)
    <2>1. CASE q = <<>>
      <3>1. B = <<p>>
        BY <2>1
      <3> QED
        BY <2>1, <3>1, <1>2, <1>4
    <2>2. CASE q # <<>> /\ q[1].kind = "marked"
      <3>1. B = <<a, b>> /\ B \in Seq(Events)
        BY <2>2, BeginningEvents
      <3> QED
        BY <2>2, <3>1, <1>5 DEF Prints
    <2>3. CASE q # <<>> /\ q[1].kind # "marked"
      <3>1. B = <<b>> /\ B \in Seq(Events)
        BY <2>3, BeginningEvents
      <3> QED
        BY <2>3, <3>1, <1>5
    <2> QED
      BY <2>1, <2>2, <2>3
  <1>7. /\ A \in Seq(Events)
        /\ \A k \in DOMAIN A : k = 1 /\ A[k] = e /\ c.kind = "marked" /\ code # None
        /\ c.kind = "marked" /\ code # None => 1 \in DOMAIN A
    <2>1. CASE c.kind = "marked" /\ code # None
      BY <2>1, <1>2
    <2>2. CASE ~(c.kind = "marked" /\ code # None)
      BY <2>2
    <2> QED
      BY <2>1, <2>2
  <1> HIDE DEF A, B, e, p, a, b
  <1>8. /\ A \o B \in Seq(Events)
        /\ \A k \in DOMAIN A : k \in DOMAIN (A \o B) /\ (A \o B)[k] = A[k]
        /\ \A k \in DOMAIN B : Len(A) + k \in DOMAIN (A \o B) /\ (A \o B)[Len(A) + k] = B[k]
        /\ \A k \in DOMAIN (A \o B) :
              k \in DOMAIN A \/ (k - Len(A) \in DOMAIN B /\ (A \o B)[k] = B[k - Len(A)])
    BY <1>6, <1>7, ConcatFacts
  <1> DEFINE E == A \o B
  <1> HIDE DEF E
  <1>9. \A k \in DOMAIN E : \/ E[k] = e /\ k = 1 /\ c.kind = "marked" /\ code # None
                            \/ \E l \in DOMAIN B : E[k] = B[l]
    BY <1>7, <1>8 DEF E
  <1>10. ASSUME NEW k \in DOMAIN E
         PROVE  /\ E[k].type # "boundary"
                /\ E[k].type = "end" => /\ k = 1 /\ E[k].id = c.id /\ E[k].code # None
                                        /\ c.kind = "marked"
                /\ E[k].type = "prompt" => q = <<>> /\ E[k].id = c.id
                /\ E[k].type \in {"start", "text"} => q # <<>> /\ E[k].id = q[1].id
    BY <1>4, <1>6, <1>9, <1>10
  <1>11. c.kind = "marked" /\ code # None => \E k \in DOMAIN E : Prints(E[k], "end", c.id)
    BY <1>4, <1>7, <1>8 DEF E, Prints
  <1>12. q # <<>> /\ q[1].kind = "marked" => \E k \in DOMAIN E : Prints(E[k], "start", q[1].id)
    BY <1>6, <1>8 DEF E
  <1>13. E \in Seq(Events) /\ Ending(c, code, q) = E
    BY <1>3, <1>8 DEF E
  <1> QED
    BY <1>10, <1>11, <1>12, <1>13 DEF EndsWith

\* The shell after the line it runs has ended, and `q' is left of the queue.
LEMMA ShellAfter ==
  ASSUME NEW sh \in Shells, sh.running # None, OneByOne(sh), NEW q \in {sh.queue, <<>>}
  PROVE  /\ sh.running \in Commands /\ q \in Seq(Commands) /\ Begins(q) \in Shells
         /\ OneByOne(Begins(q))
         /\ Lines(Begins(q)) \subseteq Lines(sh) /\ Ids(Begins(q)) \subseteq Ids(sh)
         /\ sh.running \in Lines(sh) /\ sh.running.id \in Ids(sh)
         /\ sh.running.id # User => sh.running.id \notin Ids(Begins(q))
         /\ q = <<>> => Lines(Begins(q)) = {} /\ Ids(Begins(q)) = {}
         /\ q # <<>> => q[1] \in Lines(sh) /\ q[1].id \in Ids(sh) /\ q = sh.queue
                        /\ Begins(q).running = q[1] /\ Begins(q).queue = Tail(q)
         /\ \A id \in Ids(sh) : \/ id \in Ids(Begins(q)) \/ id = sh.running.id
                                \/ q = <<>> /\ \E c \in ToSet(sh.queue) : c.id = id
  <1> DEFINE b == Begins(q)
             tl == Tail(q)
  <1>1. sh.running \in Commands /\ sh.queue \in Seq(Commands) /\ q \in Seq(Commands)
    <2>1. sh.running \in Commands /\ sh.queue \in Seq(Commands)
      BY DEF Shells
    <2>2. <<>> \in Seq(Commands)
      OBVIOUS
    <2> QED
      BY <2>1, <2>2
  <1>2. sh.running \in Lines(sh) /\ sh.running.id \in Ids(sh)
    BY DEF Lines, Ids
  <1>3. CASE q = <<>>
    <2>1. b.running = None /\ b.queue = <<>> /\ b \in Shells
      BY <1>3 DEF Begins, Shells
    <2>2. Lines(b) = {} /\ Ids(b) = {}
      BY <2>1 DEF Lines, Ids, ToSet
    <2>3. OneByOne(b)
      BY <2>1 DEF OneByOne
    <2>4. \A id \in Ids(sh) : id = sh.running.id \/ \E c \in ToSet(sh.queue) : c.id = id
      BY DEF Lines, Ids
    <2> QED
      BY <1>1, <1>2, <1>3, <2>1, <2>2, <2>3, <2>4
  <1>4. CASE q # <<>>
    <2>1. /\ q = sh.queue /\ q[1] \in Commands /\ Head(q) = q[1] /\ tl \in Seq(Commands)
          /\ 1 \in DOMAIN q
          /\ \A k \in DOMAIN tl : k + 1 \in DOMAIN q /\ tl[k] = q[k + 1] /\ k \in Nat /\ k # 0
          /\ \A k \in DOMAIN q : k = 1 \/ (k - 1 \in DOMAIN tl /\ tl[k - 1] = q[k])
      BY <1>1, <1>4
    <2> HIDE DEF tl
    <2>2. b.running = q[1] /\ b.queue = tl /\ b \in Shells /\ q[1] # None
      BY <1>4, <2>1, ExecutionConstants DEF Begins, Shells, tl
    <2> HIDE DEF b
    <2>3. Lines(b) = ToSet(q)
      <3>1. ToSet(q) = ToSet(tl) \cup {q[1]}
        BY <2>1 DEF ToSet
      <3> QED
        BY <2>2, <3>1 DEF Lines
    <2>4. ToSet(q) \subseteq Lines(sh) /\ q[1] \in ToSet(q)
      BY <2>1 DEF Lines, ToSet
    <2>5. \A id \in Ids(sh) : id \in Ids(b) \/ id = sh.running.id
      BY <2>1, <2>3 DEF Lines, Ids
    <2>6. sh.running.id # User => sh.running.id \notin Ids(b)
      BY <2>1, <2>3 DEF Ids, ToSet, OneByOne
    <2>7. OneByOne(b)
      <3> SUFFICES ASSUME NEW i \in DOMAIN tl, tl[i].id # User
                   PROVE  /\ tl[i].id # q[1].id
                          /\ \A j \in DOMAIN tl : j # i => tl[j].id # tl[i].id
        BY <2>2, ExecutionConstants DEF OneByOne
      <3>1. i + 1 \in DOMAIN q /\ tl[i] = q[i + 1] /\ i + 1 # 1
        BY <2>1
      <3>2. \A j \in DOMAIN q : j # i + 1 => q[j].id # q[i + 1].id
        BY <2>1, <3>1 DEF OneByOne
      <3>3. \A j \in DOMAIN tl : j # i => j + 1 \in DOMAIN q /\ tl[j] = q[j + 1] /\ j + 1 # i + 1
        BY <2>1
      <3> QED
        BY <2>1, <3>1, <3>2, <3>3
    <2>8. /\ Lines(b) \subseteq Lines(sh) /\ Ids(b) \subseteq Ids(sh)
          /\ q[1] \in Lines(sh) /\ q[1].id \in Ids(sh)
      BY <2>3, <2>4 DEF Ids
    <2> QED
      BY <1>1, <1>2, <1>4, <2>1, <2>2, <2>5, <2>6, <2>7, <2>8 DEF b, tl
  <1> QED
    BY <1>3, <1>4

\* The commands that end without a marker are among the lost ones.
LostWith(sh, code, q, lo) ==
    /\ code = None /\ sh.running.id # User => sh.running.id \in lo
    /\ q = <<>> => \A c \in ToSet(sh.queue) : c.id # User => c.id \in lo

\* The line that runs ends, with or without a marker, and the next one begins.
LEMMA ShellStep ==
  ASSUME NEW s, NEW st \in Seq(Events), NEW sh \in Shells, NEW lo, NEW lp, NEW co, NEW n \in Nat,
         WellTyped(s), Safe(s, st, sh, lo, co, n), sh.running # None,
         NEW q \in {sh.queue, <<>>}, NEW code \in {0, 130, None}, lo \subseteq lp,
         LostWith(sh, code, q, lp)
  PROVE  Safe(s, st \o Ending(sh.running, code, q), Begins(q), lp, co, n)
  <1> DEFINE c == sh.running
             E == Ending(c, code, q)
             su == st \o E
             b == Begins(q)
  <1>0. /\ c \in Commands /\ q \in Seq(Commands) /\ OneByOne(b)
        /\ Lines(b) \subseteq Lines(sh) /\ Ids(b) \subseteq Ids(sh)
        /\ c \in Lines(sh) /\ c.id \in Ids(sh)
        /\ c.id # User => c.id \notin Ids(b)
        /\ q = <<>> => Lines(b) = {} /\ Ids(b) = {}
        /\ q # <<>> => q[1] \in Lines(sh) /\ q[1].id \in Ids(sh) /\ q = sh.queue
                       /\ b.running = q[1] /\ b.queue = Tail(q)
        /\ \A id \in Ids(sh) : \/ id \in Ids(b) \/ id = c.id
                               \/ q = <<>> /\ \E d \in ToSet(sh.queue) : d.id = id
    BY ShellAfter DEF Safe
  <1>a. q = <<>> => b.running = None /\ b.queue = <<>>
    BY DEF Begins
  <1>1. /\ E \in Seq(Events)
        /\ \A k \in DOMAIN E :
              /\ E[k].type # "boundary"
              /\ E[k].type = "end" => /\ k = 1 /\ E[k].id = c.id /\ E[k].code # None
                                      /\ c.kind = "marked"
              /\ E[k].type = "prompt" => q = <<>> /\ E[k].id = c.id
              /\ E[k].type \in {"start", "text"} => q # <<>> /\ E[k].id = q[1].id
        /\ c.kind = "marked" /\ code # None => \E k \in DOMAIN E : Prints(E[k], "end", c.id)
        /\ q # <<>> /\ q[1].kind = "marked" =>
              \E k \in DOMAIN E : Prints(E[k], "start", q[1].id)
    <2>1. c \in Commands /\ q \in Seq(Commands)
      BY <1>0
    <2>2. EndsWith(E, c, code, q)
      BY <2>1, EndingEvents
    <2> HIDE DEF E, c
    <2> QED
      BY <2>2 DEF EndsWith
  <1> HIDE DEF E, b
  <1>2. /\ \A k \in DOMAIN st : k \in DOMAIN su /\ su[k] = st[k]
        /\ \A k \in DOMAIN E : Len(st) + k \in DOMAIN su /\ su[Len(st) + k] = E[k]
        /\ \A k \in DOMAIN su :
              k \in DOMAIN st \/ (k - Len(st) \in DOMAIN E /\ su[k] = E[k - Len(st)])
        /\ DOMAIN st = 1 .. Len(st) /\ DOMAIN E = 1 .. Len(E) /\ Len(st) \in Nat /\ Len(E) \in Nat
        /\ DOMAIN su = 1 .. Len(st) + Len(E)
    <2>1. E \in Seq(Events)
      BY <1>1
    <2> QED
      BY <2>1, ConcatFacts
  <1> HIDE DEF su
  <1>3. \A k \in DOMAIN E : /\ E[k].type \in {"end", "prompt", "start", "text"}
                            /\ E[k].id \in Ids(sh)
    <2>1. \A k \in DOMAIN E : E[k].type \in {"boundary", "end", "prompt", "start", "text"}
      <3>1. \A k \in DOMAIN E : E[k] \in Events
        BY <1>1
      <3> QED
        BY <3>1 DEF Events
    <2> QED
      BY <1>0, <1>1, <2>1
  <1>5. \A k \in DOMAIN su : \/ k \in DOMAIN st /\ su[k] = st[k]
                             \/ \E l \in DOMAIN E : su[k] = E[l] /\ k = Len(st) + l /\ k > Len(st)
    BY <1>2
  <1>6. \A type, id : Ahead(st, type, id) => Ahead(su, type, id)
    BY <1>2 DEF Ahead
  <1>7. ASSUME NEW type, NEW id, NEW j \in DOMAIN su, j \notin DOMAIN st, Ahead(st, type, id)
        PROVE  Before(su, j, type, id)
    <2>1. PICK i \in DOMAIN st : Prints(st[i], type, id)
      BY <1>7 DEF Ahead
    <2>2. i < j /\ i \in DOMAIN su /\ su[i] = st[i]
      BY <1>2, <1>7
    <2> QED
      BY <2>1, <2>2 DEF Before
  <1>8. ASSUME NEW type, NEW id, NEW j \in DOMAIN st, Before(st, j, type, id)
        PROVE  Before(su, j, type, id)
    BY <1>2, <1>8 DEF Before
  <1>9. ASSUME NEW id, id # User, ToCome(st, sh, lo, id)
        PROVE  ToCome(su, b, lp, id)
    <2>1. CASE id \in Ids(sh) /\ id # c.id
      <3>1. id \in Ids(b) \/ (q = <<>> /\ \E d \in ToSet(sh.queue) : d.id = id)
        BY <1>0, <2>1
      <3> QED
        BY <1>9, <3>1 DEF ToCome, LostWith
    <2>2. CASE id = c.id
      <3>1. CASE c.kind = "marked" /\ code # None
        <4>1. PICK k \in DOMAIN E : Prints(E[k], "end", c.id)
          BY <1>1, <3>1
        <4>2. Ahead(su, "end", id)
          BY <1>2, <2>2, <4>1 DEF Ahead
        <4> QED
          BY <4>2 DEF ToCome
      <3>2. CASE c.kind # "marked"
        <4>1. c.kind = "raw"
          BY <1>0, <3>2 DEF Commands
        <4> QED
          BY <1>0, <1>9, <2>2, <4>1 DEF Safe, Follows, ToCome
      <3>3. CASE code = None
        BY <1>9, <2>2, <3>3 DEF ToCome, LostWith
      <3> QED
        BY <3>1, <3>2, <3>3
    <2>3. CASE id \in lo \/ Ahead(st, "end", id)
      BY <1>6, <2>3 DEF ToCome
    <2> QED
      BY <1>9, <2>1, <2>2, <2>3 DEF ToCome
  <1> USE DEF Safe
  <1>10. Fresh(s, su, b, n)
    <2>1. \A k \in DOMAIN su : su[k].id \in 0 .. n
      BY <1>3, <1>5 DEF Fresh
    <2> QED
      BY <1>0, <2>1 DEF Fresh
  <1>11. Ended(s, su, b)
    <2>1. ASSUME NEW k \in DOMAIN su, su[k].type = "end"
          PROVE  su[k].id \notin Ids(b) \cup {User} /\ su[k].code # None
      <3>1. CASE k \in DOMAIN st
        BY <1>0, <1>2, <2>1, <3>1 DEF Ended
      <3>2. CASE k \notin DOMAIN st
        <4>1. su[k].id = c.id /\ su[k].code # None /\ c.kind = "marked"
          BY <1>1, <1>5, <2>1, <3>2
        <4>2. c.id # User
          BY <1>0, <4>1, ExecutionConstants DEF Commands, Requests, User
        <4> QED
          BY <1>0, <4>1, <4>2
      <3> QED
        BY <3>1, <3>2
    <2> QED
      BY <1>0, <2>1 DEF Ended
  <1>12. Guarded(s, b, co)
    BY <1>0 DEF Guarded
  <1>13. Prompted(s, su, b)
    <2>1. \A k \in DOMAIN su : su[k].type = "prompt" => k \in DOMAIN st \/ Ids(b) = {}
      BY <1>0, <1>1, <1>5
    <2>2. \A k \in DOMAIN su : su[k].type = "boundary" => k \in DOMAIN st
      BY <1>1, <1>5
    <2> QED
      BY <1>0, <1>2, <2>1, <2>2, SMTT(30) DEF Prompted
  <1>14. Follows(s, su, b, lp)
    <2>1. \A d \in Lines(b) : d.kind = "raw" /\ d.id # User => d.id \in lp
      BY <1>0 DEF Follows
    <2>2. SUFFICES ASSUME s.task # None, s.task.kind = "marked", s.task.id \notin lp
                   PROVE  /\ ToCome(su, b, lp, s.task.id)
                          /\ ~s.task.begun =>
                                /\ s.task.id \in Ids(b) => Ahead(su, "boundary", s.task.id)
                                /\ \A j \in DOMAIN su : su[j].id = s.task.id /\ su[j].type # "boundary"
                                                          => Before(su, j, "boundary", s.task.id)
                          /\ s.task.phase = "wait" =>
                                /\ b.running # None /\ b.running.id = s.task.id
                                      => Ahead(su, "start", s.task.id)
                                /\ \A j \in DOMAIN su : Prints(su[j], "end", s.task.id)
                                                          => Before(su, j, "start", s.task.id)
      BY <2>1, <2>2 DEF Follows
    <2> DEFINE id == s.task.id
    <2>3. id # User /\ id \notin lo
      BY <2>2, ExecutionConstants DEF WellTyped, Tasks, Requests, User
    <2>4. ToCome(su, b, lp, id)
      BY <1>9, <2>2, <2>3 DEF Follows
    <2>5. ASSUME ~s.task.begun
          PROVE  /\ id \in Ids(b) => Ahead(su, "boundary", id)
                 /\ \A j \in DOMAIN su : su[j].id = id /\ su[j].type # "boundary"
                                           => Before(su, j, "boundary", id)
      <3>1. id \in Ids(sh) => Ahead(st, "boundary", id)
        BY <2>2, <2>3, <2>5 DEF Follows
      <3>2. ASSUME NEW j \in DOMAIN su, su[j].id = id, su[j].type # "boundary"
            PROVE  Before(su, j, "boundary", id)
        <4>1. CASE j \in DOMAIN st
          <5>1. Before(st, j, "boundary", id)
            BY <1>2, <2>2, <2>3, <2>5, <3>2, <4>1 DEF Follows
          <5> QED
            BY <1>8, <4>1, <5>1
        <4>2. CASE j \notin DOMAIN st
          <5>1. id \in Ids(sh)
            BY <1>3, <1>5, <3>2, <4>2
          <5> QED
            BY <1>7, <3>1, <3>2, <4>2, <5>1
        <4> QED
          BY <4>1, <4>2
      <3> QED
        BY <1>0, <1>6, <3>1, <3>2
    <2>6. ASSUME s.task.phase = "wait"
          PROVE  /\ b.running # None /\ b.running.id = id => Ahead(su, "start", id)
                 /\ \A j \in DOMAIN su : Prints(su[j], "end", id) => Before(su, j, "start", id)
      <3>1. c.id = id => Ahead(st, "start", id)
        BY <2>2, <2>3, <2>6 DEF Follows
      <3>2. ASSUME b.running # None, b.running.id = id
            PROVE  Ahead(su, "start", id)
        <4>1. q # <<>> /\ q[1].id = id /\ q[1] \in Lines(sh) /\ q[1] \in Commands
          BY <1>0, <1>a, <3>2
        <4>2. q[1].kind = "marked"
          BY <2>3, <4>1 DEF Follows, Commands
        <4>3. PICK k \in DOMAIN E : Prints(E[k], "start", id)
          BY <1>1, <4>1, <4>2
        <4> QED
          BY <1>2, <4>3 DEF Ahead
      <3>3. ASSUME NEW j \in DOMAIN su, Prints(su[j], "end", id)
            PROVE  Before(su, j, "start", id)
        <4>1. CASE j \in DOMAIN st
          <5>1. Before(st, j, "start", id)
            BY <1>2, <2>2, <2>3, <2>6, <3>3, <4>1 DEF Follows
          <5> QED
            BY <1>8, <4>1, <5>1
        <4>2. CASE j \notin DOMAIN st
          <5>1. c.id = id
            BY <1>1, <1>5, <3>3, <4>2 DEF Prints
          <5> QED
            BY <1>7, <3>1, <3>3, <4>2, <5>1
        <4> QED
          BY <4>1, <4>2
      <3> QED
        BY <3>2, <3>3
    <2> QED
      BY <2>4, <2>5, <2>6
  <1>15. Guard(s, su, b, lp)
    <2>1. s.recovery # None => s.recovery # User
      BY DEF Fresh, User
    <2> QED
      BY <1>9, <2>1 DEF Guard
  <1>16. Own(s, su, b)
    <2>1. ASSUME NEW id, id # User, Latest(s, st, sh, id)
          PROVE  Latest(s, su, b, id)
      <3>1. CASE id = c.id
        <4>1. q = <<>> /\ Lines(b) = {}
          BY <1>0, <2>1, <3>1 DEF Latest
        <4>2. \A k \in DOMAIN E : E[k].id = id
          BY <1>1, <1>3, <3>1, <4>1
        <4>3. \A i, j \in DOMAIN su : i < j /\ su[i].type # "boundary" /\ su[i].id = id => su[j].id = id
          BY <1>2, <1>5, <2>1, <4>2 DEF Latest
        <4>4. Captures(s, id) => \A j \in DOMAIN su : su[j].id = id
          BY <1>5, <2>1, <4>2 DEF Latest
        <4>5. b.running = None /\ b.queue = <<>>
          BY <1>a, <4>1
        <4> QED
          BY <4>1, <4>3, <4>4, <4>5 DEF Latest
      <3>2. CASE id # c.id
        <4>1. ~Printed(s, st, id)
          BY <1>0, <2>1, <3>2 DEF Latest
        <4>2. ~Captures(s, id) /\ \A k \in DOMAIN st : st[k].id = id => st[k].type = "boundary"
          BY <4>1 DEF Printed
        <4>3. CASE q # <<>>
          <5>1. /\ q = sh.queue /\ b.running = q[1] /\ b.queue = Tail(q)
                /\ Tail(q) \in Seq(Commands) /\ Len(Tail(q)) = Len(q) - 1
                /\ DOMAIN q = 1 .. Len(q) /\ Len(q) \in Nat
                /\ \A i \in DOMAIN Tail(q) : i + 1 \in DOMAIN q /\ Tail(q)[i] = q[i + 1]
                /\ 1 \in DOMAIN q
            BY <1>0, <4>3
          <5>2. \A i \in DOMAIN q : q[i].id = id => i = Len(q)
            BY <2>1, <5>1 DEF Latest
          <5>3. q[1].id = id => Tail(q) = <<>>
            BY <5>1, <5>2
          <5>4. ASSUME NEW i \in DOMAIN Tail(q), Tail(q)[i].id = id
                PROVE  i = Len(Tail(q))
            <6>1. i \in Nat /\ i + 1 \in DOMAIN q /\ q[i + 1].id = id
              BY <5>1, <5>4
            <6>2. i + 1 = Len(q)
              BY <5>2, <6>1
            <6> QED
              BY <5>1, <6>1, <6>2
          <5>5. q[1].id = id => \A d \in Lines(b) : d = q[1]
            BY <5>1, <5>3 DEF Lines, ToSet
          <5>6. ASSUME NEW k \in DOMAIN su, su[k].id = id, su[k].type # "boundary"
                PROVE  q[1].id = id /\ k \notin DOMAIN st
            <6>1. k \notin DOMAIN st
              BY <1>2, <4>2, <5>6
            <6>2. PICK l \in DOMAIN E : su[k] = E[l]
              BY <1>5, <5>6, <6>1
            <6>3. E[l].id = id /\ E[l].type \in {"end", "prompt", "start", "text"}
              BY <1>3, <5>6, <6>2
            <6> QED
              BY <1>1, <3>2, <6>1, <6>3
          <5>7. \A i, j \in DOMAIN su : i < j /\ su[i].type # "boundary" /\ su[i].id = id => su[j].id = id
            <6> SUFFICES ASSUME NEW i \in DOMAIN su, NEW j \in DOMAIN su, i < j,
                                su[i].type # "boundary", su[i].id = id
                         PROVE  su[j].id = id
              OBVIOUS
            <6>1. q[1].id = id /\ i \notin DOMAIN st
              BY <5>6
            <6>2. PICK k \in DOMAIN E : su[i] = E[k] /\ i = Len(st) + k
              BY <1>5, <6>1
            <6>3. j \notin DOMAIN st
              BY <1>2, <6>2
            <6>4. PICK l \in DOMAIN E : su[j] = E[l] /\ j = Len(st) + l
              BY <1>5, <6>3
            <6>5. l # 1
              BY <1>2, <6>2, <6>4
            <6>6. E[l].type \in {"prompt", "start", "text"}
              BY <1>1, <1>3, <6>5
            <6> QED
              BY <1>1, <4>3, <6>1, <6>4, <6>6
          <5>8. Printed(s, su, id) => \A d \in Lines(b) : d.id = id /\ d = b.running
            BY <4>2, <5>1, <5>5, <5>6 DEF Printed
          <5> QED
            BY <4>2, <5>1, <5>3, <5>4, <5>7, <5>8 DEF Latest
        <4>4. CASE q = <<>>
          <5>1. \A k \in DOMAIN E : E[k].id # id
            BY <1>1, <1>3, <3>2, <4>4
          <5>2. \A k \in DOMAIN su : su[k].id = id => su[k].type = "boundary"
            BY <1>5, <4>2, <5>1
          <5>3. b.running = None /\ b.queue = <<>> /\ Lines(b) = {}
            BY <1>0, <1>a, <4>4
          <5> QED
            BY <4>2, <5>2, <5>3 DEF Latest
        <4> QED
          BY <4>3, <4>4
      <3> QED
        BY <3>1, <3>2
    <2>2. \A id \in DOMAIN s.jobs : id # User
      BY DEF Fresh, User
    <2> QED
      BY <2>1, <2>2 DEF Own
  <1> QED
    BY <1>0, <1>10, <1>11, <1>12, <1>13, <1>14, <1>15, <1>16 DEF b, su, E

\* A line is typed: the shell runs it at once, or it waits behind the others.
AfterTyping(sh, c) ==
    IF sh.running = None THEN Begins(<<c>>) ELSE [sh EXCEPT !.queue = Append(@, c)]

\* What the shell prints then.
TypedOutput(sh, c) == IF sh.running = None THEN Beginning(<<c>>) ELSE <<>>

LEMMA ShellTyped ==
  ASSUME NEW sh \in Shells, NEW c \in Commands, OneByOne(sh), c.id = User \/ c.id \notin Ids(sh)
  PROVE  LET b == AfterTyping(sh, c)
         IN /\ b \in Shells /\ OneByOne(b)
            /\ Lines(b) = Lines(sh) \cup {c} /\ Ids(b) = Ids(sh) \cup {c.id}
            /\ sh.running = None => b.running = c /\ b.queue = <<>> /\ Lines(sh) = {}
            /\ sh.running # None =>
                  /\ b.running = sh.running /\ b.queue = Append(sh.queue, c)
                  /\ sh.running \in Lines(sh)
  <1> DEFINE b == AfterTyping(sh, c)
  <1>0. sh.queue \in Seq(Commands) /\ sh.running \in Commands \cup {None} /\ c # None
    BY ExecutionConstants DEF Shells
  <1>1. CASE sh.running = None
    <2>1. b.running = c /\ b.queue = <<>> /\ b \in Shells
      <3>1. <<c>> # <<>> /\ Head(<<c>>) = c /\ Tail(<<c>>) = <<>> /\ <<>> \in Seq(Commands)
        OBVIOUS
      <3> QED
        BY <1>1, <3>1 DEF AfterTyping, Begins, Shells
    <2>2. Lines(sh) = {}
      BY <1>1 DEF Lines, OneByOne, ToSet
    <2> HIDE DEF b
    <2>3. Lines(b) = {c} /\ OneByOne(b)
      BY <2>1, <1>0 DEF Lines, OneByOne, ToSet
    <2> QED
      BY <1>1, <2>1, <2>2, <2>3 DEF Ids, b
  <1>2. CASE sh.running # None
    <2> DEFINE q == Append(sh.queue, c)
    <2>1. b.running = sh.running /\ b.queue = q /\ b \in Shells /\ q \in Seq(Commands)
      BY <1>0, <1>2 DEF AfterTyping, Shells
    <2>2. /\ \A k \in DOMAIN q : \/ k \in DOMAIN sh.queue /\ q[k] = sh.queue[k]
                                 \/ k = Len(sh.queue) + 1 /\ q[k] = c
          /\ \A k \in DOMAIN sh.queue : k \in DOMAIN q /\ q[k] = sh.queue[k]
          /\ Len(sh.queue) + 1 \in DOMAIN q /\ q[Len(sh.queue) + 1] = c
      BY <1>0
    <2> HIDE DEF b, q
    <2>3. ToSet(q) = ToSet(sh.queue) \cup {c}
      BY <2>2 DEF ToSet
    <2>4. Lines(b) = Lines(sh) \cup {c} /\ sh.running \in Lines(sh)
      BY <1>2, <2>1, <2>3 DEF Lines
    <2>5. \A k \in DOMAIN sh.queue : sh.queue[k].id \in Ids(sh)
      BY DEF Ids, Lines, ToSet
    <2>6. sh.running.id \in Ids(sh)
      BY <2>4 DEF Ids
    <2>7. OneByOne(b)
      <3> SUFFICES ASSUME NEW i \in DOMAIN q, q[i].id # User
                   PROVE  /\ q[i].id # sh.running.id
                          /\ \A j \in DOMAIN q : j # i => q[j].id # q[i].id
        BY <1>2, <2>1 DEF OneByOne
      <3> QED
        BY <2>2, <2>5, <2>6 DEF OneByOne
    <2> QED
      BY <1>2, <2>1, <2>4, <2>7 DEF Ids, b, q
  <1> QED
    BY <1>1, <1>2

LEMMA TypedEvents ==
  ASSUME NEW sh \in Shells, NEW c \in Commands
  PROVE  LET E == TypedOutput(sh, c)
         IN /\ E \in Seq(Events)
            /\ \A k \in DOMAIN E : E[k].type \in {"start", "text"} /\ E[k].id = c.id
                                   /\ sh.running = None
            /\ sh.running = None /\ c.kind = "marked" =>
                  \E k \in DOMAIN E : Prints(E[k], "start", c.id)
  <1> DEFINE q == <<c>>
             a == Event("start", c.id, None)
             b == Event("text", c.id, None)
             E == TypedOutput(sh, c)
  <1>0. q \in Seq(Commands) /\ q # <<>> /\ q[1] = c
    OBVIOUS
  <1>1. /\ a.type = "start" /\ a.id = c.id /\ b.type = "text" /\ b.id = c.id
    BY DEF Event
  <1> HIDE DEF q, a, b
  <1>2. /\ Beginning(q) \in Seq(Events)
        /\ c.kind = "marked" => Beginning(q) = <<a, b>>
        /\ c.kind # "marked" => Beginning(q) = <<b>>
    BY <1>0, BeginningEvents DEF a, b
  <1>3. E = IF sh.running = None THEN Beginning(q) ELSE <<>>
    BY DEF TypedOutput, q
  <1> HIDE DEF E
  <1>4. CASE sh.running # None
    <2>1. E = <<>> /\ E \in Seq(Events)
      BY <1>3, <1>4
    <2> QED
      BY <1>4, <2>1 DEF E
  <1>5. CASE sh.running = None /\ c.kind = "marked"
    <2>1. E = <<a, b>> /\ E \in Seq(Events)
      BY <1>2, <1>3, <1>5
    <2> QED
      BY <1>1, <1>5, <2>1 DEF Prints, E
  <1>6. CASE sh.running = None /\ c.kind # "marked"
    <2>1. E = <<b>> /\ E \in Seq(Events)
      BY <1>2, <1>3, <1>6
    <2> QED
      BY <1>1, <1>6, <2>1 DEF E
  <1> QED
    BY <1>4, <1>5, <1>6

\* The user types a line; the output of what the executor follows is no longer
\* taken for its own.
LEMMA UserTypes ==
  ASSUME NEW s, NEW st \in Seq(Events), NEW sh \in Shells, NEW lo, NEW co, NEW n \in Nat,
         WellTyped(s), Safe(s, st, sh, lo, co, n),
         NEW c \in Commands, c.id = User, c.kind = "raw",
         \A id \in DOMAIN s.jobs : Watched(s, id) /\ s.jobs[id].kind # "background"
                                     => s.jobs[id].takeover
  PROVE  Safe(s, st \o TypedOutput(sh, c), AfterTyping(sh, c), lo, co, n)
  <1> DEFINE E == TypedOutput(sh, c)
             su == st \o E
             b == AfterTyping(sh, c)
  <1>1. /\ E \in Seq(Events)
        /\ \A k \in DOMAIN E : E[k].type \in {"start", "text"} /\ E[k].id = User
    BY TypedEvents
  <1>2. /\ OneByOne(b)
        /\ Lines(b) = Lines(sh) \cup {c} /\ Ids(b) = Ids(sh) \cup {User}
        /\ sh.running = None => b.running = c
        /\ sh.running # None => b.running = sh.running
    BY ShellTyped DEF Safe
  <1> HIDE DEF E, b
  <1>3. /\ \A k \in DOMAIN st : k \in DOMAIN su /\ su[k] = st[k]
        /\ \A k \in DOMAIN su :
              k \in DOMAIN st \/ (k - Len(st) \in DOMAIN E /\ su[k] = E[k - Len(st)])
    BY <1>1, ConcatFacts
  <1> HIDE DEF su
  <1>4. \A k \in DOMAIN su : \/ k \in DOMAIN st /\ su[k] = st[k]
                             \/ su[k].type \in {"start", "text"} /\ su[k].id = User
    BY <1>1, <1>3
  <1>5. /\ \A type, id : Ahead(st, type, id) => Ahead(su, type, id)
        /\ \A type, id : \A j \in DOMAIN st : Before(st, j, type, id) => Before(su, j, type, id)
    BY <1>3 DEF Ahead, Before
  <1>6. \A id : ToCome(st, sh, lo, id) => ToCome(su, b, lo, id)
    BY <1>2, <1>5 DEF ToCome
  <1>7. s.task # None => s.task.id # User
    BY DEF WellTyped, Tasks, Requests, User
  <1> USE DEF Safe
  <1>8. Fresh(s, su, b, n)
    BY <1>2, <1>4 DEF Fresh, User
  <1>9. Ended(s, su, b)
    <2>1. User \notin DOMAIN s.jobs
      BY DEF Fresh, User
    <2> QED
      BY <1>2, <1>4, <2>1 DEF Ended
  <1>10. Guarded(s, b, co)
    BY <1>2 DEF Guarded
  <1>11. Prompted(s, su, b)
    BY <1>2, <1>4, <1>7 DEF Prompted
  <1>12. Follows(s, su, b, lo)
    <2>1. \A d \in Lines(b) : d.kind = "raw" /\ d.id # User => d.id \in lo
      BY <1>2 DEF Follows
    <2>2. SUFFICES ASSUME s.task # None, s.task.kind = "marked", s.task.id \notin lo
                   PROVE  /\ ToCome(su, b, lo, s.task.id)
                          /\ ~s.task.begun =>
                                /\ s.task.id \in Ids(b) => Ahead(su, "boundary", s.task.id)
                                /\ \A j \in DOMAIN su : su[j].id = s.task.id /\ su[j].type # "boundary"
                                                          => Before(su, j, "boundary", s.task.id)
                          /\ s.task.phase = "wait" =>
                                /\ b.running # None /\ b.running.id = s.task.id
                                      => Ahead(su, "start", s.task.id)
                                /\ \A j \in DOMAIN su : Prints(su[j], "end", s.task.id)
                                                          => Before(su, j, "start", s.task.id)
      BY <2>1, <2>2 DEF Follows
    <2>3. ToCome(su, b, lo, s.task.id)
      BY <1>6, <2>2 DEF Follows
    <2>4. ASSUME ~s.task.begun
          PROVE  /\ s.task.id \in Ids(b) => Ahead(su, "boundary", s.task.id)
                 /\ \A j \in DOMAIN su : su[j].id = s.task.id /\ su[j].type # "boundary"
                                           => Before(su, j, "boundary", s.task.id)
      BY <1>2, <1>4, <1>5, <1>7, <2>2, <2>4 DEF Follows
    <2>5. ASSUME s.task.phase = "wait"
          PROVE  /\ b.running # None /\ b.running.id = s.task.id
                       => Ahead(su, "start", s.task.id)
                 /\ \A j \in DOMAIN su : Prints(su[j], "end", s.task.id)
                                           => Before(su, j, "start", s.task.id)
      BY <1>2, <1>4, <1>5, <1>7, <2>2, <2>5 DEF Follows, Prints
    <2> QED
      BY <2>3, <2>4, <2>5
  <1>13. Guard(s, su, b, lo)
    BY <1>6 DEF Guard
  <1>14. Own(s, su, b)
    BY DEF Own
  <1> QED
    BY <1>2, <1>8, <1>9, <1>10, <1>11, <1>12, <1>13, <1>14 DEF b, su, E

\* The executor gets a task and a job for request r.
Starts(s, m, r) ==
    /\ m.task # None /\ m.task.id = r /\ ~m.task.begun /\ m.task.phase = "wait"
    /\ m.retired = s.retired /\ m.recovery = None
    /\ DOMAIN m.jobs = DOMAIN s.jobs \cup {r}
    /\ \A i \in DOMAIN s.jobs : m.jobs[i] = s.jobs[i]
    /\ m.jobs[r].kind = m.task.kind /\ ~m.jobs[r].finished /\ m.jobs[r].output = {}
    /\ m.jobs[r].process = "notStarted"

\* A new execution begins: nothing carries its identifier yet.
LEMMA TaskInserted ==
  ASSUME NEW s, NEW m, NEW st, NEW sh, NEW lo, NEW lp, NEW co, NEW n \in Nat,
         Safe(s, st, sh, lo, co, n), s.task = None, s.recovery = None,
         NEW r, r = n + 1, lo \subseteq lp, Starts(s, m, r), m.task.kind = "background" \/ r \in lp
  PROVE  Safe(m, st, sh, lp, co, r)
  <1> USE DEF Safe, Starts
  <1>0. /\ r \notin DOMAIN s.jobs /\ r \notin Ids(sh) /\ \A k \in DOMAIN st : st[k].id # r
        /\ \A f \in s.retired : f.id # r
    BY DEF Fresh
  <1>1. Fresh(m, st, sh, r)
    <2>1. 1 .. n \subseteq 1 .. r /\ 0 .. n \subseteq 0 .. r /\ r \in 1 .. r
      OBVIOUS
    <2> QED
      BY <2>1 DEF Fresh
  <1>2. TaskInv(m)
    BY <1>0 DEF TaskInv
  <1>3. Ended(m, st, sh)
    BY <1>0 DEF Ended
  <1>4. Guarded(m, sh, co)
    BY ExecutionConstants DEF Guarded, Watched, Fresh
  <1>5. Prompted(m, st, sh)
    BY DEF Prompted
  <1>6. Follows(m, st, sh, lp)
    BY DEF Follows
  <1>7. Guard(m, st, sh, lp)
    BY DEF Guard
  <1>8. Own(m, st, sh)
    <2>1. ~Captures(m, r)
      BY <1>0 DEF Captures
    <2>2. ~Printed(m, st, r)
      BY <1>0, <2>1 DEF Printed
    <2>3. sh.running # None => sh.running.id \in Ids(sh)
      BY DEF Ids, Lines
    <2>4. \A i \in DOMAIN sh.queue : sh.queue[i].id \in Ids(sh)
      BY DEF Ids, Lines, ToSet
    <2>5. Latest(m, st, sh, r)
      BY <1>0, <2>1, <2>2, <2>3, <2>4 DEF Latest
    <2>6. \A id \in DOMAIN m.jobs : Watched(m, id) => id = r
      <3>1. None \notin DOMAIN m.jobs
        BY ExecutionConstants DEF Fresh
      <3> QED
        BY <3>1 DEF Watched
    <2> QED
      BY <2>5, <2>6 DEF Own
  <1> QED
    BY <1>0, <1>1, <1>2, <1>3, <1>4, <1>5, <1>6, <1>7, <1>8

\* The boundary of a new execution is put into the stream.
LEMMA BoundarySet ==
  ASSUME NEW s, NEW st \in Seq(Events), NEW sh, NEW lo, NEW co, NEW n \in Nat,
         WellTyped(s), Safe(s, st, sh, lo, co, n),
         s.task # None, ~s.task.begun, s.task.phase = "wait", NEW r, r = s.task.id, r \in lo,
         r \notin Ids(sh), \A k \in DOMAIN st : st[k].id # r
  PROVE  LET su == st \o <<Event("boundary", r, None)>>
         IN /\ su \in Seq(Events)
            /\ Safe(s, su, sh, lo, co, n)
            /\ Ahead(su, "boundary", r)
            /\ \A k \in DOMAIN su : su[k].id = r => su[k].type = "boundary" /\ k = Len(su)
  <1> DEFINE e == Event("boundary", r, None)
             E == <<e>>
             su == st \o E
  <1>0. r \in Requests /\ r # User /\ r \in DOMAIN s.jobs /\ s.recovery = None /\ None \notin DOMAIN s.jobs
    BY ExecutionConstants DEF WellTyped, Tasks, Requests, User, Safe, TaskInv, Fresh
  <1>1. e \in Events /\ e.type = "boundary" /\ e.id = r
    BY <1>0 DEF Event, Events
  <1> HIDE DEF e
  <1>2. E \in Seq(Events) /\ DOMAIN E = {1} /\ E[1] = e /\ Len(E) = 1
    BY <1>1
  <1> HIDE DEF E
  <1>3. /\ su \in Seq(Events)
        /\ \A k \in DOMAIN st : k \in DOMAIN su /\ su[k] = st[k]
        /\ \A k \in DOMAIN E : Len(st) + k \in DOMAIN su /\ su[Len(st) + k] = E[k]
        /\ \A k \in DOMAIN su :
              k \in DOMAIN st \/ (k - Len(st) \in DOMAIN E /\ su[k] = E[k - Len(st)])
        /\ DOMAIN st = 1 .. Len(st) /\ Len(st) \in Nat
        /\ DOMAIN su = 1 .. Len(st) + Len(E)
    BY <1>2, ConcatFacts
  <1>l. Len(su) = Len(st) + 1
    BY <1>2, <1>3
  <1> HIDE DEF su
  <1>4. /\ \A k \in DOMAIN su : \/ k \in DOMAIN st /\ su[k] = st[k] /\ k < Len(su)
                                \/ k = Len(su) /\ su[k] = e
        /\ Len(su) \in DOMAIN su /\ su[Len(su)] = e
    BY <1>2, <1>3, <1>l
  <1>5. Ahead(su, "boundary", r)
        /\ \A k \in DOMAIN su : su[k].id = r => su[k].type = "boundary" /\ k = Len(su)
    BY <1>1, <1>4 DEF Ahead, Prints
  <1> USE DEF Safe
  <1>6. Fresh(s, su, sh, n) /\ Ended(s, su, sh)
    BY <1>0, <1>1, <1>4 DEF Fresh, Ended
  <1>7. Prompted(s, su, sh)
    BY <1>0, <1>1, <1>4 DEF Prompted
  <1>8. Follows(s, su, sh, lo) /\ Guard(s, su, sh, lo)
    BY <1>0 DEF Follows, Guard
  <1>9. Own(s, su, sh)
    <2>1. ~Captures(s, r)
      BY DEF Captures, TaskInv
    <2>2. ~Printed(s, su, r)
      BY <1>5, <2>1 DEF Printed
    <2>3. sh.running # None => sh.running.id \in Ids(sh)
      BY DEF Ids, Lines
    <2>4. \A i \in DOMAIN sh.queue : sh.queue[i].id \in Ids(sh)
      BY DEF Ids, Lines, ToSet
    <2>5. Latest(s, su, sh, r)
      BY <1>5, <2>1, <2>2, <2>3, <2>4 DEF Latest
    <2>6. \A id \in DOMAIN s.jobs : Watched(s, id) => id = r
      BY <1>0 DEF Watched
    <2> QED
      BY <2>5, <2>6 DEF Own
  <1>10. e = Event("boundary", r, None)
    BY DEF e
  <1> QED
    BY <1>3, <1>5, <1>6, <1>7, <1>8, <1>9, <1>10 DEF su, E

\* The command is typed after its boundary.
LEMMA CommandTyped ==
  ASSUME NEW s, NEW st \in Seq(Events), NEW sh \in Shells, NEW lo, NEW lp, NEW co, NEW n \in Nat,
         WellTyped(s), Safe(s, st, sh, lo, co, n),
         s.task # None, ~s.task.begun, s.task.phase = "wait", NEW r, r = s.task.id, r \in lo,
         r \notin Ids(sh), Ahead(st, "boundary", r),
         \A k \in DOMAIN st : st[k].id = r => st[k].type = "boundary" /\ k = Len(st),
         NEW c \in Commands, c.id = r, c.kind = s.task.kind,
         s.jobs[r].process # "exited",
         lo \ {r} \subseteq lp, c.kind = "raw" => r \in lp
  PROVE  Safe(s, st \o TypedOutput(sh, c), AfterTyping(sh, c), lp, co, n)
  <1> DEFINE E == TypedOutput(sh, c)
             su == st \o E
             b == AfterTyping(sh, c)
  <1>0. /\ r \in Requests /\ r # User /\ r \in DOMAIN s.jobs /\ s.recovery = None
        /\ None \notin DOMAIN s.jobs
        /\ c.kind \in {"marked", "raw"} /\ s.jobs[r].kind = c.kind
    BY ExecutionConstants DEF WellTyped, Tasks, Requests, User, Safe, TaskInv, Fresh, Commands
  <1>1. /\ E \in Seq(Events)
        /\ \A k \in DOMAIN E : E[k].type \in {"start", "text"} /\ E[k].id = r /\ sh.running = None
        /\ sh.running = None /\ c.kind = "marked" => \E k \in DOMAIN E : Prints(E[k], "start", r)
    BY TypedEvents
  <1>2. /\ OneByOne(b)
        /\ Lines(b) = Lines(sh) \cup {c} /\ Ids(b) = Ids(sh) \cup {r}
        /\ sh.running = None => b.running = c /\ b.queue = <<>> /\ Lines(sh) = {}
        /\ sh.running # None =>
              b.running = sh.running /\ b.queue = Append(sh.queue, c) /\ sh.running \in Lines(sh)
    BY ShellTyped DEF Safe
  <1> HIDE DEF E, b
  <1>3. /\ \A k \in DOMAIN st : k \in DOMAIN su /\ su[k] = st[k]
        /\ \A k \in DOMAIN E : Len(st) + k \in DOMAIN su /\ su[Len(st) + k] = E[k]
        /\ \A k \in DOMAIN su :
              k \in DOMAIN st \/ (k - Len(st) \in DOMAIN E /\ su[k] = E[k - Len(st)])
        /\ DOMAIN st = 1 .. Len(st) /\ Len(st) \in Nat
        /\ DOMAIN su = 1 .. Len(st) + Len(E) /\ Len(E) \in Nat
    BY <1>1, ConcatFacts
  <1> HIDE DEF su
  <1>4. \A k \in DOMAIN su :
           \/ k \in DOMAIN st /\ su[k] = st[k]
           \/ k > Len(st) /\ su[k].type \in {"start", "text"} /\ su[k].id = r /\ sh.running = None
    BY <1>1, <1>3
  <1>5. Ahead(su, "boundary", r)
    BY <1>3 DEF Ahead
  <1>6. ASSUME NEW j \in DOMAIN su, su[j].id = r, su[j].type # "boundary"
        PROVE  Before(su, j, "boundary", r) /\ su[j].type \in {"start", "text"} /\ sh.running = None
               /\ j > Len(st)
    <2>1. j \notin DOMAIN st
      BY <1>3, <1>6
    <2>2. PICK i \in DOMAIN st : Prints(st[i], "boundary", r)
      BY DEF Ahead
    <2>3. i \in DOMAIN su /\ su[i] = st[i] /\ i < j
      BY <1>3, <2>1, <1>6
    <2> QED
      BY <1>4, <1>6, <2>1, <2>2, <2>3 DEF Before
  <1> USE DEF Safe
  <1>7. Fresh(s, su, b, n)
    <2>1. r \in 1 .. n /\ r \in 0 .. n
      BY <1>0 DEF Fresh
    <2> QED
      BY <1>2, <1>4, <2>1 DEF Fresh
  <1>8. Ended(s, su, b)
    <2>1. \A k \in DOMAIN su : su[k].type = "end" => k \in DOMAIN st /\ su[k] = st[k] /\ st[k].id # r
      BY <1>4
    <2>2. r # User
      BY <1>0
    <2>3. \A i \in DOMAIN s.jobs : s.jobs[i].kind = "background" \/ s.jobs[i].process = "exited"
                                     => i # r
      BY <1>0
    <2> QED
      BY <1>2, <2>1, <2>2, <2>3 DEF Ended
  <1>9. Guarded(s, b, co)
    BY <1>2 DEF Guarded, Watched
  <1>10. Prompted(s, su, b)
    <2>1. \A j \in DOMAIN su : su[j].type \in {"prompt", "boundary"} => j \in DOMAIN st /\ su[j] = st[j]
      BY <1>4
    <2>2. ASSUME NEW i \in DOMAIN su, NEW j \in DOMAIN su, i < j, su[i].type = "boundary",
                 su[j].type = "prompt"
          PROVE  su[i].id \notin Ids(b)
      <3>1. i \in DOMAIN st /\ j \in DOMAIN st /\ su[i] = st[i] /\ su[j] = st[j]
        BY <2>1, <2>2
      <3>2. st[i].id # r
        BY <1>3, <2>2, <3>1
      <3> QED
        BY <1>2, <2>2, <3>1, <3>2 DEF Prompted
    <2> QED
      BY <2>1, <2>2 DEF Prompted
  <1>11. Follows(s, su, b, lp)
    <2>1. \A d \in Lines(b) : d.kind = "raw" /\ d.id # User => d.id \in lp
      <3>1. \A d \in Lines(sh) : d.id # r
        BY DEF Ids
      <3> QED
        BY <1>2, <3>1 DEF Follows
    <2>2. s.task.kind = "raw" => s.task.id \in lp
      OBVIOUS
    <2>3. ASSUME s.task.kind = "marked"
          PROVE  /\ ToCome(su, b, lp, r)
                 /\ r \in Ids(b) => Ahead(su, "boundary", r)
                 /\ \A j \in DOMAIN su : su[j].id = r /\ su[j].type # "boundary"
                                           => Before(su, j, "boundary", r)
                 /\ b.running # None /\ b.running.id = r => Ahead(su, "start", r)
                 /\ \A j \in DOMAIN su : ~Prints(su[j], "end", r)
      <3>1. ToCome(su, b, lp, r)
        BY <1>2 DEF ToCome
      <3>2. \A j \in DOMAIN su : ~Prints(su[j], "end", r)
        BY <1>6 DEF Prints
      <3>3. ASSUME b.running # None, b.running.id = r
            PROVE  Ahead(su, "start", r)
        <4>1. sh.running = None
          BY <1>2, <3>3 DEF Ids
        <4>2. PICK k \in DOMAIN E : Prints(E[k], "start", r)
          BY <1>1, <2>3, <4>1
        <4> QED
          BY <1>3, <4>2 DEF Ahead
      <3> QED
        BY <1>5, <1>6, <3>1, <3>2, <3>3
    <2> QED
      BY <2>1, <2>2, <2>3 DEF Follows
  <1>12. Guard(s, su, b, lp)
    BY <1>0 DEF Guard
  <1>13. Own(s, su, b)
    <2>1. ~Captures(s, r)
      BY DEF Captures, TaskInv
    <2>2. ASSUME Printed(s, su, r)
          PROVE  \A d \in Lines(b) : d.id = r /\ d = b.running
      <3>1. sh.running = None
        BY <1>6, <2>1, <2>2 DEF Printed
      <3> QED
        BY <1>2, <3>1
    <2>3. b.running # None /\ b.running.id = r => b.queue = <<>>
      BY <1>2 DEF Ids
    <2>4. ASSUME NEW i \in DOMAIN b.queue, b.queue[i].id = r
          PROVE  i = Len(b.queue)
      <3>1. sh.running # None /\ b.queue = Append(sh.queue, c)
        BY <1>2, <2>4
      <3>2. \A k \in DOMAIN sh.queue : sh.queue[k].id \in Ids(sh)
        BY DEF Ids, Lines, ToSet
      <3>3. sh.queue \in Seq(Commands)
        BY DEF Shells
      <3> QED
        BY <2>4, <3>1, <3>2, <3>3
    <2>5. ASSUME NEW i \in DOMAIN su, NEW j \in DOMAIN su, i < j, su[i].type # "boundary", su[i].id = r
          PROVE  su[j].id = r
      <3>1. i > Len(st)
        BY <1>6, <2>5
      <3>2. j \notin DOMAIN st
        BY <1>3, <2>5, <3>1
      <3> QED
        BY <1>4, <3>2
    <2>6. Latest(s, su, b, r)
      BY <2>1, <2>2, <2>3, <2>4, <2>5 DEF Latest
    <2>7. \A id \in DOMAIN s.jobs : Watched(s, id) => id = r
      BY <1>0 DEF Watched
    <2> QED
      BY <2>6, <2>7 DEF Own
  <1> QED
    BY <1>2, <1>7, <1>8, <1>9, <1>10, <1>11, <1>12, <1>13 DEF b, su, E

-----------------------------------------------------------------------------
(* The actions.                                                            *)

\* What an operation on the executor keeps, with stream and shell as they are.
Keeps(s, m, st, sh, lo, co, n) ==
    WellTyped(m) /\ Safe(m, st, sh, lo, co, n) /\ m.keys = s.keys

\* The execution ends while its command may run, or after it has left the shell.
LEMMA FinishKeeps ==
  ASSUME NEW s, NEW st, NEW sh, NEW lo, NEW co, NEW n, WellTyped(s), Safe(s, st, sh, lo, co, n),
         s.task # None, NEW id, id = s.task.id,
         NEW reported \in {"completed", "failed", "timedOut", "cancelled", "disconnected"},
         NEW code \in {0, 130, None},
         reported \in {"completed", "disconnected"} => id \notin Ids(sh)
  PROVE  Keeps(s, Finish(s, id, reported, code), st, sh, lo, co, n)
  <1> DEFINE m == Finish(s, id, reported, code)
  <1>1. s.task.id \in DOMAIN s.jobs /\ s.recovery = None
    BY DEF Safe, TaskInv
  <1>2. /\ WellTyped(m) /\ Over(s, m)
        /\ reported \notin {"completed", "disconnected"} => Unconfirmed(s, m)
    BY <1>1, FinishOver
  <1> HIDE DEF m
  <1>3. Safe(m, st, sh, lo, co, n)
    BY <1>2, MoveOver
  <1> QED
    BY <1>2, <1>3 DEF Over, Keeps, m

\* An execution keeps its open job while others expire.
LEMMA AgesKeep ==
  ASSUME NEW s, NEW st, NEW sh, NEW lo, NEW co, NEW n, WellTyped(s), Safe(s, st, sh, lo, co, n),
         NEW m \in Ages(s)
  PROVE  Keeps(s, m, st, sh, lo, co, n) /\ m.task = s.task
  <1>1. ASSUME NEW a, WellTyped(a), Safe(a, st, sh, lo, co, n)
        PROVE  Keeps(a, Stale(a), st, sh, lo, co, n) /\ Stale(a).task = a.task
    <2> DEFINE J == [i \in DOMAIN a.jobs |->
                        IF a.jobs[i].status = "cancelling"
                        THEN [a.jobs[i] EXCEPT !.status = "unknown"] ELSE a.jobs[i]]
               b == Stale(a)
    <2>1. /\ a.jobs \in [DOMAIN a.jobs -> Jobs]
          /\ b = [a EXCEPT !.jobs = J]
      BY <1>1 DEF Stale, WellTyped
    <2>2. ASSUME NEW i \in DOMAIN a.jobs
          PROVE  /\ J[i] \in Jobs /\ JobKept(a.jobs[i], J[i]) /\ NoExit(a.jobs[i], J[i])
                 /\ J[i].finished = a.jobs[i].finished
      <3>1. a.jobs[i] \in Jobs
        BY <2>1, <2>2
      <3> QED
        BY <2>2, <3>1 DEF Jobs, JobKept, NoExit, Statuses
    <2>3. J \in [DOMAIN a.jobs -> Jobs] /\ DOMAIN J = DOMAIN a.jobs
      BY <2>2
    <2> HIDE DEF J
    <2>4. /\ WellTyped(b) /\ b.jobs = J /\ b.task = a.task /\ b.retired = a.retired
          /\ b.recovery = a.recovery /\ b.keys = a.keys
      BY <1>1, <2>1, <2>3 DEF WellTyped
    <2> HIDE DEF b
    <2>5. SameTask(a.task, b.task) /\ JobsKept(a, b, sh)
      BY <2>2, <2>3, <2>4 DEF SameTask, JobsKept
    <2>6. b.task # None => b.task.id \in DOMAIN b.jobs /\ ~b.jobs[b.task.id].finished
      BY <1>1, <2>2, <2>3, <2>4 DEF Safe, TaskInv
    <2>7. Safe(b, st, sh, lo, co, n)
      BY <1>1, <2>4, <2>5, <2>6, MoveJobs
    <2> QED
      BY <2>4, <2>7 DEF Keeps, b
  <1>2. ASSUME NEW a, WellTyped(a), Safe(a, st, sh, lo, co, n)
        PROVE  Keeps(a, Expired(a), st, sh, lo, co, n) /\ Expired(a).task = a.task
    <2> DEFINE alive == {i \in DOMAIN a.jobs : ~a.jobs[i].finished}
               J == [i \in alive |-> a.jobs[i]]
               R == [op \in Requests |-> IF a.result[op] = "complete" /\ op \notin alive
                                         THEN "expired" ELSE a.result[op]]
               c == [a EXCEPT !.jobs = J]
               b == [c EXCEPT !.result = R]
    <2>1. /\ a.jobs \in [DOMAIN a.jobs -> Jobs]
          /\ Expired(a) = b
      BY <1>2 DEF Expired, WellTyped
    <2>2. /\ J \in [alive -> Jobs] /\ DOMAIN J = alive /\ alive \subseteq DOMAIN a.jobs
          /\ \A i \in alive : J[i] = a.jobs[i] /\ ~a.jobs[i].finished
      BY <2>1
    <2>3. R \in [Requests -> {"none", "pending", "complete", "expired"}]
      BY <1>2 DEF WellTyped
    <2>4. \A i \in DOMAIN a.jobs : ~a.jobs[i].finished => i \in alive
      OBVIOUS
    <2> HIDE DEF J, R, alive
    <2>5. /\ WellTyped(c) /\ c.jobs = J /\ c.task = a.task /\ c.retired = a.retired
          /\ c.recovery = a.recovery /\ c.keys = a.keys
      BY <1>2, <2>2 DEF WellTyped
    <2> HIDE DEF c
    <2>6. /\ WellTyped(b) /\ b.jobs = J /\ b.task = a.task /\ b.retired = a.retired
          /\ b.recovery = a.recovery /\ b.keys = a.keys
      BY <2>3, <2>5 DEF WellTyped
    <2> HIDE DEF b
    <2>7. SameTask(a.task, b.task) /\ JobsKept(a, b, sh)
      BY <2>2, <2>6 DEF SameTask, JobsKept, JobKept, NoExit
    <2>8. b.task # None => b.task.id \in DOMAIN b.jobs /\ ~b.jobs[b.task.id].finished
      BY <1>2, <2>2, <2>4, <2>6 DEF Safe, TaskInv
    <2>9. Safe(b, st, sh, lo, co, n)
      BY <1>2, <2>6, <2>7, <2>8, MoveJobs
    <2> QED
      BY <2>1, <2>6, <2>9 DEF Keeps
  <1>3. CASE m = s
    BY <1>3 DEF Keeps
  <1>4. CASE m = Stale(s)
    BY <1>1, <1>4
  <1>5. CASE m = Expired(s)
    BY <1>2, <1>5
  <1>6. CASE m = Expired(Stale(s))
    <2> DEFINE a == Stale(s)
    <2>1. Keeps(s, a, st, sh, lo, co, n) /\ a.task = s.task
      BY <1>1
    <2> HIDE DEF a
    <2>2. Keeps(a, Expired(a), st, sh, lo, co, n) /\ Expired(a).task = a.task
      BY <1>2, <2>1 DEF Keeps
    <2> QED
      BY <1>6, <2>1, <2>2 DEF Keeps, a
  <1> QED
    BY <1>3, <1>4, <1>5, <1>6 DEF Ages

\* What the clock finds; a raw command that is at a prompt has left the shell.
LEMMA OutcomesKeep ==
  ASSUME NEW s, NEW st, NEW sh, NEW lo, NEW co, NEW n, WellTyped(s), Safe(s, st, sh, lo, co, n),
         NEW m \in Outcomes(s)
  PROVE  Keeps(s, m, st, sh, lo, co, n)
  <1>1. CASE m = s
    BY <1>1 DEF Keeps
  <1>2. CASE m # s
    <2> DEFINE id == s.task.id
    <2>1. /\ s.task # None
          /\ \/ \E reported \in {"cancelled", "timedOut", "failed"} :
                   m = Finish(s, id, reported, None)
             \/ m = Finish(s, id, "completed", None) /\ s.task.phase = "prompt"
      BY <1>2 DEF Outcomes
    <2>2. s.task.phase = "prompt" => id \notin Ids(sh)
      BY <2>1 DEF Safe, Prompted
    <2>3. CASE m = Finish(s, id, "completed", None) /\ s.task.phase = "prompt"
      BY <2>1, <2>2, <2>3, FinishKeeps
    <2>4. ASSUME NEW reported \in {"cancelled", "timedOut", "failed"}, m = Finish(s, id, reported, None)
          PROVE  Keeps(s, m, st, sh, lo, co, n)
      BY <2>1, <2>4, FinishKeeps
    <2> QED
      BY <2>1, <2>3, <2>4
  <1> QED
    BY <1>1, <1>2

\* A field of the task changes.
LEMMA TaskTyped ==
  ASSUME NEW s, WellTyped(s), NEW t \in Tasks
  PROVE  LET m == [s EXCEPT !.task = t]
         IN /\ WellTyped(m) /\ m.task = t /\ m.retired = s.retired /\ m.recovery = s.recovery
            /\ m.jobs = s.jobs /\ m.keys = s.keys
  BY DEF WellTyped

LEMMA JobsTyped ==
  ASSUME NEW s, WellTyped(s), NEW J \in [DOMAIN s.jobs -> Jobs]
  PROVE  LET m == [s EXCEPT !.jobs = J]
         IN /\ WellTyped(m) /\ m.task = s.task /\ m.retired = s.retired /\ m.recovery = s.recovery
            /\ m.jobs = J /\ m.keys = s.keys /\ DOMAIN J = DOMAIN s.jobs
  BY DEF WellTyped

LEMMA DrainingTyped ==
  ASSUME NEW s, WellTyped(s)
  PROVE  LET m == [s EXCEPT !.draining = None]
         IN /\ WellTyped(m) /\ m.task = s.task /\ m.retired = s.retired /\ m.recovery = s.recovery
            /\ m.jobs = s.jobs /\ m.keys = s.keys
  BY DEF WellTyped

LEMMA SameCoreSafe ==
  ASSUME NEW s, NEW m, NEW st, NEW sh, NEW lo, NEW co, NEW n,
         Safe(s, st, sh, lo, co, n), SameCore(s, m)
  PROVE  Safe(m, st, sh, lo, co, n)
  <1>1. SameTask(s.task, m.task) /\ m.retired = s.retired /\ m.recovery = s.recovery
    BY DEF SameCore, SameTask
  <1>2. JobsKept(s, m, sh)
    BY DEF SameCore, JobsKept, JobKept, NoExit
  <1>3. m.task # None => m.task.id \in DOMAIN m.jobs /\ ~m.jobs[m.task.id].finished
    BY DEF SameCore, Safe, TaskInv
  <1> QED
    BY <1>1, <1>2, <1>3, MoveJobs

\* The capture of a marked command takes the first event of the stream.
LEMMA CapturedKeeps ==
  ASSUME NEW s, NEW st \in Seq(Events), NEW sh, NEW lo, NEW co, NEW n,
         WellTyped(s), Safe(s, st, sh, lo, co, n), st # <<>>, NEW e, e = st[1],
         e.type # "boundary", NEW prompt \in BOOLEAN,
         s.task # None, s.task.begun, s.task.kind = "marked"
  PROVE  LET m == Captured(s, e, prompt)
         IN Keeps(s, m, st, sh, lo, co, n) /\ Passed(m, e, lo)
  <1> DEFINE t == s.task
             id == t.id
             m == Captured(s, e, prompt)
  <1>0. /\ t \in Tasks /\ id \in Requests /\ e \in Events /\ 1 \in DOMAIN st
        /\ \A j \in DOMAIN st : ~(j < 1)
        /\ s.jobs \in [DOMAIN s.jobs -> Jobs]
    BY DEF WellTyped, Tasks
  <1>1. /\ s.recovery = None /\ id \in DOMAIN s.jobs /\ t.phase \in {"wait", "capturing"}
        /\ \A f \in s.retired : f.id # id
    BY <1>0 DEF Safe, TaskInv
  <1>2. e.id # None /\ e.code \in {0, 130, None} /\ e.id \in Requests \cup {User}
    BY <1>0, ExecutionConstants DEF Events, Requests, User
  <1>3. CASE t.phase = "wait" /\ Prints(e, "start", id)
    <2> DEFINE u == [t EXCEPT !.phase = "capturing"]
               j == s.jobs[id]
               i == [j EXCEPT !.process = "active"]
               k == [i EXCEPT !.status = IF j.stopping THEN j.status ELSE "running"]
               I == [s.jobs EXCEPT ![id] = i]
               J == [I EXCEPT ![id] = k]
               a == [s EXCEPT !.task = u]
               b == [a EXCEPT !.jobs = I]
               c == [b EXCEPT !.jobs = J]
    <2>1. u \in Tasks /\ u.id = id /\ u.kind = "marked" /\ u.begun /\ u.phase = "capturing"
      BY <1>0 DEF Tasks, Phases
    <2>2. /\ i \in Jobs /\ k \in Jobs /\ JobKept(j, k) /\ NoExit(j, k) /\ k.finished = j.finished
      <3>1. j \in Jobs
        BY <1>0, <1>1
      <3> QED
        BY <3>1 DEF Jobs, Statuses, JobKept, NoExit
    <2>3. m = c
      <3>1. m = [s EXCEPT !.task.phase = "capturing", !.jobs[id].process = "active",
                          !.jobs[id].status = IF s.jobs[id].stopping THEN @ ELSE "running"]
        BY <1>3 DEF Captured, Carries, Prints
      <3>2. I[id] = i /\ a.jobs = s.jobs /\ b.jobs = I
        BY <1>0, <1>1 DEF WellTyped
      <3> QED
        BY <3>1, <3>2, Zenon
    <2> HIDE DEF i, k, u, j, m
    <2>4. /\ I \in [DOMAIN s.jobs -> Jobs] /\ J \in [DOMAIN s.jobs -> Jobs]
          /\ J[id] = k /\ \A l \in DOMAIN s.jobs : l # id => J[l] = s.jobs[l]
      BY <1>0, <1>1, <2>2
    <2>5. \A l \in DOMAIN s.jobs : /\ JobKept(s.jobs[l], J[l]) /\ NoExit(s.jobs[l], J[l])
                                   /\ J[l].finished = s.jobs[l].finished
      BY <2>2, <2>4 DEF JobKept, NoExit, j
    <2> HIDE DEF I, J
    <2>6. /\ WellTyped(m) /\ m.task = u /\ m.retired = s.retired /\ m.recovery = s.recovery
          /\ m.jobs = J /\ m.keys = s.keys /\ DOMAIN J = DOMAIN s.jobs
      <3>1. /\ WellTyped(a) /\ a.task = u /\ a.retired = s.retired /\ a.recovery = s.recovery
            /\ a.jobs = s.jobs /\ a.keys = s.keys
        BY <2>1, TaskTyped
      <3> HIDE DEF a
      <3>2. /\ WellTyped(b) /\ b.task = u /\ b.retired = s.retired /\ b.recovery = s.recovery
            /\ b.jobs = I /\ b.keys = s.keys /\ DOMAIN I = DOMAIN s.jobs
        BY <2>4, <3>1, JobsTyped
      <3> HIDE DEF b
      <3> QED
        BY <2>3, <2>4, <3>2, JobsTyped
    <2>7. Advances(s, m, e)
      <3>1. u # None
        BY <2>1, ExecutionConstants
      <3> QED
        BY <1>3, <2>1, <2>6, <3>1 DEF Advances
    <2>8. Safe(m, st, sh, lo, co, n)
      BY <2>5, <2>6, <2>7, MoveTask
    <2>9. Passed(m, e, lo)
      BY <1>1, <1>3, <2>1, <2>6 DEF Passed, Prints
    <2> QED
      BY <2>6, <2>8, <2>9 DEF Keeps, m
  <1>4. CASE t.phase = "capturing" /\ Prints(e, "end", id)
    <2> DEFINE p == IF prompt THEN "gone" ELSE "post"
               u == [t EXCEPT !.phase = p]
               a == [s EXCEPT !.task = u]
    <2>1. m = Finish(a, id, "completed", e.code)
      BY <1>4, <1>0 DEF Captured, Carries, Prints, WellTyped, Tasks
    <2>2. /\ u \in Tasks /\ u # None /\ u.id = id /\ u.kind = "marked"
          /\ u.phase # "capturing"
      BY <1>0, ExecutionConstants DEF Tasks, Phases
    <2> HIDE DEF u
    <2>3. /\ WellTyped(a) /\ a.task = u /\ a.retired = s.retired /\ a.recovery = s.recovery
          /\ a.jobs = s.jobs /\ a.keys = s.keys
      BY <2>2, TaskTyped
    <2> HIDE DEF a
    <2>4. e.code # None /\ id \notin Ids(sh)
      BY <1>0, <1>4 DEF Safe, Ended, Prints
    <2>5. /\ WellTyped(m) /\ Over(a, m) /\ m.recovery = None
      BY <1>1, <1>2, <2>1, <2>2, <2>3, <2>4, FinishOver
    <2> HIDE DEF m
    <2>6. Over(s, m)
      BY <2>2, <2>3, <2>5 DEF Over
    <2>7. Safe(m, st, sh, lo, co, n)
      BY <2>4, <2>6, MoveOver
    <2>8. Passed(m, e, lo)
      BY <2>5, <2>6 DEF Passed, Over
    <2> QED
      BY <2>5, <2>6, <2>7, <2>8 DEF Keeps, Over, m
  <1>5. CASE t.phase = "capturing" /\ ~Prints(e, "end", id)
    <2> DEFINE J == AppendOutput(s.jobs, id, e.id)
    <2>1. m = [s EXCEPT !.jobs = J]
      BY <1>5 DEF Captured, Carries, Prints, WellTyped
    <2>2. /\ J \in [DOMAIN s.jobs -> Jobs]
          /\ \A i \in DOMAIN s.jobs :
                /\ J[i].kind = s.jobs[i].kind /\ J[i].takeover = s.jobs[i].takeover
                /\ J[i].process = s.jobs[i].process /\ J[i].finished = s.jobs[i].finished
                /\ J[i].output \subseteq s.jobs[i].output \cup {e.id}
                /\ i # id \/ s.jobs[i].takeover => J[i].output = s.jobs[i].output
      BY <1>0, <1>2, AppendOutputJobs
    <2> HIDE DEF J
    <2>3. /\ WellTyped(m) /\ m.task = t /\ m.retired = s.retired /\ m.recovery = s.recovery
          /\ m.jobs = J /\ m.keys = s.keys /\ DOMAIN J = DOMAIN s.jobs
      BY <2>1, <2>2, JobsTyped
    <2> HIDE DEF m
    <2>4. Safe(m, st, sh, lo, co, n)
      BY <1>5, <2>2, <2>3, MoveOutput
    <2>5. Passed(m, e, lo)
      BY <1>1, <1>5, <2>3 DEF Passed, Prints
    <2> QED
      BY <2>3, <2>4, <2>5 DEF Keeps, m
  <1>6. CASE t.phase = "wait" /\ ~Prints(e, "start", id)
    <2>1. m = s
      BY <1>6 DEF Captured, Carries, Prints
    <2>2. id \notin lo => ~Prints(e, "end", id)
      BY <1>0, <1>6 DEF Safe, Follows, Before
    <2>3. Passed(s, e, lo)
      BY <1>1, <1>6, <2>2 DEF Passed, Prints
    <2> QED
      BY <2>1, <2>3 DEF Keeps
  <1> QED
    BY <1>1, <1>3, <1>4, <1>5, <1>6

\* The output of the session: process_output takes the first event of the stream.
LEMMA ProcessedKeeps ==
  ASSUME NEW s, NEW st \in Seq(Events), NEW sh, NEW lo, NEW co, NEW n,
         WellTyped(s), Safe(s, st, sh, lo, co, n), st # <<>>, NEW e, e = st[1],
         e.type # "boundary", NEW prompt \in BOOLEAN
  PROVE  Keeps(s, Processed(s, e, prompt), Tail(st), sh, lo, co, n)
  <1> DEFINE f == AfterFilters(s, e)
             m == Processed(s, e, prompt)
  <1>0. e \in Events /\ 1 \in DOMAIN st /\ \A j \in DOMAIN st : ~(j < 1)
    OBVIOUS
  <1>1. WellTyped(f) /\ FiltersLeft(s, f, e) /\ FiltersJobs(s, f, e)
    BY <1>0, FiltersEffect
  <1> HIDE DEF f
  <1>2. /\ Safe(f, st, sh, lo, co, n)
        /\ f.recovery # None /\ Prints(e, "end", f.recovery) => f.recovery \in lo
    BY <1>1, MoveFilters
  <1>3. f.task = s.task /\ f.keys = s.keys
    BY <1>1 DEF FiltersLeft
  <1>4. ASSUME Keeps(f, m, st, sh, lo, co, n), Passed(m, e, lo)
        PROVE  Keeps(s, m, Tail(st), sh, lo, co, n)
    <2> HIDE DEF m
    <2>1. Safe(m, Tail(st), sh, lo, co, n)
      BY <1>4, StreamTail DEF Keeps
    <2> QED
      BY <1>3, <1>4, <2>1 DEF Keeps
  <1>5. CASE Hidden(s, e)
    <2>1. m = f
      BY <1>5 DEF Processed, f
    <2>2. PICK g \in s.retired : e.id = g.id
      BY <1>5 DEF Hidden, Carries
    <2>3. s.task # None => e.id # s.task.id
      BY <2>2 DEF Safe, TaskInv
    <2>4. Passed(f, e, lo)
      BY <1>2, <1>3, <2>3 DEF Passed, Prints
    <2>5. Keeps(f, f, st, sh, lo, co, n)
      BY <1>1, <1>2 DEF Keeps
    <2> QED
      BY <1>4, <2>1, <2>4, <2>5
  <1>6. CASE ~Hidden(s, e) /\ f.task # None /\ f.task.begun /\ f.task.kind = "raw"
    <2> DEFINE p == IF e.type = "prompt" THEN "prompt" ELSE "wait"
               u == [f.task EXCEPT !.phase = p]
    <2>1. m = [f EXCEPT !.task = u]
      BY <1>6 DEF Processed, f
    <2>2. f.task \in Tasks
      BY <1>1, <1>6 DEF WellTyped
    <2>3. /\ u \in Tasks /\ u # None /\ u.id = f.task.id /\ u.kind = "raw" /\ u.begun
          /\ u.phase = p
      BY <1>6, <2>2, ExecutionConstants DEF Tasks, Phases
    <2> HIDE DEF u, m
    <2>4. /\ WellTyped(m) /\ m.task = u /\ m.retired = f.retired /\ m.recovery = f.recovery
          /\ m.jobs = f.jobs /\ m.keys = f.keys
      BY <1>1, <2>1, <2>3, TaskTyped
    <2>5. Advances(f, m, e)
      BY <1>6, <2>3, <2>4 DEF Advances
    <2>6. Safe(m, st, sh, lo, co, n)
      <3>1. \A i \in DOMAIN f.jobs : /\ JobKept(f.jobs[i], m.jobs[i]) /\ NoExit(f.jobs[i], m.jobs[i])
                                     /\ m.jobs[i].finished = f.jobs[i].finished
        BY <2>4 DEF JobKept, NoExit
      <3> QED
        BY <1>2, <2>4, <2>5, <3>1, MoveTask
    <2>7. Passed(m, e, lo)
      BY <1>2, <2>3, <2>4 DEF Passed
    <2> QED
      BY <1>4, <2>4, <2>6, <2>7 DEF Keeps, m
  <1>7. CASE ~Hidden(s, e) /\ f.task # None /\ f.task.begun /\ f.task.kind = "marked"
    <2>1. m = Captured(f, e, prompt)
      BY <1>7 DEF Processed, f
    <2>2. Keeps(f, m, st, sh, lo, co, n) /\ Passed(m, e, lo)
      BY <1>0, <1>1, <1>2, <1>7, <2>1, CapturedKeeps
    <2> QED
      BY <1>4, <2>2
  <1>8. CASE /\ ~Hidden(s, e)
             /\ ~(f.task # None /\ f.task.begun /\ f.task.kind \in {"raw", "marked"})
    <2>1. m = [f EXCEPT !.draining = None]
      BY <1>8 DEF Processed, f
    <2>2. /\ WellTyped(m) /\ m.task = f.task /\ m.retired = f.retired /\ m.recovery = f.recovery
          /\ m.jobs = f.jobs /\ m.keys = f.keys
      BY <1>1, <2>1, DrainingTyped
    <2> HIDE DEF m
    <2>3. Safe(m, st, sh, lo, co, n)
      BY <1>2, <2>2, SameCoreSafe DEF SameCore
    <2>4. ASSUME f.task # None, f.task.kind = "marked", f.task.id \notin lo
          PROVE  ~Prints(e, "end", f.task.id) /\ ~Prints(e, "start", f.task.id)
      <3>1. ~f.task.begun
        BY <1>8, <2>4
      <3>2. \A j \in DOMAIN st : st[j].id = f.task.id /\ st[j].type # "boundary"
                                   => Before(st, j, "boundary", f.task.id)
        BY <1>2, <2>4, <3>1 DEF Safe, Follows
      <3>3. ~Before(st, 1, "boundary", f.task.id)
        BY <1>0 DEF Before
      <3> QED
        BY <1>0, <3>2, <3>3 DEF Prints
    <2>5. Passed(m, e, lo)
      BY <1>2, <2>2, <2>4 DEF Passed, Prints
    <2> QED
      BY <1>4, <2>2, <2>3, <2>5 DEF Keeps, m
  <1> QED
    BY <1>5, <1>6, <1>7, <1>8

\* begin_capture: the boundary is the first event of the stream.
LEMMA BegunKeeps ==
  ASSUME NEW s, NEW st \in Seq(Events), NEW sh, NEW lo, NEW co, NEW n,
         WellTyped(s), Safe(s, st, sh, lo, co, n), st # <<>>, NEW e, e = st[1],
         e.type = "boundary"
  PROVE  Keeps(s, Begun(s, e.id), Tail(st), sh, lo, co, n)
  <1> DEFINE m == Begun(s, e.id)
  <1>1. ASSUME Keeps(s, m, st, sh, lo, co, n), Passed(m, e, lo)
        PROVE  Keeps(s, m, Tail(st), sh, lo, co, n)
    <2> HIDE DEF m
    <2>1. Safe(m, Tail(st), sh, lo, co, n)
      BY <1>1, StreamTail DEF Keeps
    <2> QED
      BY <1>1, <2>1 DEF Keeps
  <1>2. CASE s.task # None /\ s.task.id = e.id /\ ~s.task.begun
    <2> DEFINE u == [s.task EXCEPT !.begun = TRUE]
               a == [s EXCEPT !.task = u]
    <2>1. m = [a EXCEPT !.draining = None]
      BY <1>2 DEF Begun
    <2>2. s.task \in Tasks
      BY <1>2 DEF WellTyped
    <2>3. /\ u \in Tasks /\ u # None /\ u.id = s.task.id /\ u.kind = s.task.kind /\ u.begun
          /\ u.phase = s.task.phase
      BY <2>2, ExecutionConstants DEF Tasks
    <2> HIDE DEF u, m
    <2>4. /\ WellTyped(a) /\ a.task = u /\ a.retired = s.retired /\ a.recovery = s.recovery
          /\ a.jobs = s.jobs /\ a.keys = s.keys
      BY <2>3, TaskTyped
    <2> HIDE DEF a
    <2>5. /\ WellTyped(m) /\ m.task = u /\ m.retired = s.retired /\ m.recovery = s.recovery
          /\ m.jobs = s.jobs /\ m.keys = s.keys
      BY <2>1, <2>4, DrainingTyped
    <2>6. Advances(s, m, e)
      BY <1>2, <2>3, <2>5 DEF Advances, Prints
    <2>7. Safe(m, st, sh, lo, co, n)
      <3>1. \A i \in DOMAIN s.jobs : /\ JobKept(s.jobs[i], m.jobs[i]) /\ NoExit(s.jobs[i], m.jobs[i])
                                     /\ m.jobs[i].finished = s.jobs[i].finished
        BY <2>5 DEF JobKept, NoExit
      <3> QED
        BY <2>5, <2>6, <3>1, MoveTask
    <2>8. Passed(m, e, lo)
      BY <2>3, <2>5 DEF Passed, Prints
    <2> QED
      BY <1>1, <2>5, <2>7, <2>8 DEF Keeps, m
  <1>3. CASE ~(s.task # None /\ s.task.id = e.id /\ ~s.task.begun)
    <2>1. m = s
      BY <1>3 DEF Begun
    <2>2. Passed(s, e, lo)
      BY <1>3 DEF Passed, Prints
    <2> QED
      BY <1>1, <2>1, <2>2 DEF Keeps
  <1> QED
    BY <1>2, <1>3

-----------------------------------------------------------------------------
(* The invariant is preserved.                                             *)

SafeNow == Safe(x, stream, shell, lost, confirmed, requests)

\* A command was started by the request its key is registered for.
KeysInv ==
    \A r \in Requests :
        /\ keyOf[r] \in Keys => x.keys[keyOf[r]] = r
        /\ r > requests => keyOf[r] = None

ExecutionInv == TypeOK /\ SafeNow /\ KeysInv

\* A step that starts no command.
LEMMA StepKeeps ==
  ASSUME ExecutionInv,
         WellTyped(x'), Safe(x', stream', shell', lost', confirmed', requests),
         x'.keys = x.keys, keyOf' = keyOf, requests' = requests,
         armed' \in BOOLEAN, connected' \in BOOLEAN, stream' \in Seq(Events), shell' \in Shells,
         confirmed' \subseteq Requests, lost' \subseteq Requests,
         disturbances' \in 0 .. MaxDisturbances
  PROVE  ExecutionInv'
  <1>1. TypeOK'
    BY DEF ExecutionInv, TypeOK, Shells
  <1>2. SafeNow'
    BY DEF SafeNow
  <1>3. KeysInv'
    BY DEF ExecutionInv, KeysInv
  <1> QED
    BY <1>1, <1>2, <1>3 DEF ExecutionInv

LEMMA TypesNow ==
  ASSUME ExecutionInv
  PROVE  /\ WellTyped(x) /\ armed \in BOOLEAN /\ connected \in BOOLEAN /\ stream \in Seq(Events)
         /\ shell \in Shells /\ confirmed \subseteq Requests /\ lost \subseteq Requests
         /\ requests \in Nat /\ disturbances \in 0 .. MaxDisturbances
         /\ Safe(x, stream, shell, lost, confirmed, requests)
  BY DEF ExecutionInv, TypeOK, SafeNow, Shells

LEMMA CancelStep ==
  ASSUME ExecutionInv, NEW r \in Requests, CancelRequest(r)
  PROVE  ExecutionInv'
  <1> DEFINE t == IF x.task # None /\ x.task.id = r /\ x.task.caller = "native"
                  THEN [x.task EXCEPT !.cancelled = TRUE] ELSE x.task
             w == [op \in DOMAIN x.waiters |-> x.waiters[op] \ {r}]
             a == [x EXCEPT !.open = @ \ {r}]
             b == [a EXCEPT !.task = t]
             c == [b EXCEPT !.waiters = w]
  <1>0. WellTyped(x) /\ Safe(x, stream, shell, lost, confirmed, requests)
    BY TypesNow
  <1>1. x' = c
    BY DEF CancelRequest
  <1>2. t \in Tasks \cup {None} /\ SameTask(x.task, t)
    <2>1. x.task \in Tasks \cup {None}
      BY <1>0 DEF WellTyped
    <2>2. CASE x.task # None /\ x.task.id = r /\ x.task.caller = "native"
      BY <2>1, <2>2, ExecutionConstants DEF Tasks, SameTask
    <2>3. CASE ~(x.task # None /\ x.task.id = r /\ x.task.caller = "native")
      <3>1. t = x.task
        BY <2>3
      <3> QED
        BY <2>1, <3>1 DEF SameTask
    <2> QED
      BY <2>2, <2>3
  <1>3. w \in [DOMAIN x.waiters -> SUBSET Requests] /\ DOMAIN w = DOMAIN x.waiters
    BY <1>0 DEF WellTyped
  <1> HIDE DEF t, w
  <1>4. /\ WellTyped(a) /\ a.retired = x.retired /\ a.recovery = x.recovery
        /\ a.jobs = x.jobs /\ a.keys = x.keys /\ a.waiters = x.waiters
    BY <1>0 DEF WellTyped
  <1> HIDE DEF a
  <1>5. /\ WellTyped(b) /\ b.task = t /\ b.retired = x.retired /\ b.recovery = x.recovery
        /\ b.jobs = x.jobs /\ b.keys = x.keys /\ b.waiters = x.waiters
    BY <1>2, <1>4 DEF WellTyped
  <1> HIDE DEF b
  <1>6. /\ WellTyped(c) /\ c.task = t /\ c.retired = x.retired /\ c.recovery = x.recovery
        /\ c.jobs = x.jobs /\ c.keys = x.keys
    BY <1>3, <1>5 DEF WellTyped
  <1> HIDE DEF c
  <1>7. JobsKept(x, c, shell)
    BY <1>6 DEF JobsKept, JobKept, NoExit
  <1>8. c.task # None => c.task.id \in DOMAIN c.jobs /\ ~c.jobs[c.task.id].finished
    BY <1>0, <1>2, <1>6 DEF Safe, TaskInv, SameTask
  <1>9. Safe(c, stream, shell, lost, confirmed, requests)
    BY <1>0, <1>2, <1>6, <1>7, <1>8, MoveJobs
  <1>10. UNCHANGED <<armed, connected, stream, shell, history, requests, disturbances>>
    BY DEF CancelRequest
  <1> QED
    BY <1>1, <1>6, <1>9, <1>10, StepKeeps, TypesNow DEF history

LEMMA BackgroundStep ==
  ASSUME ExecutionInv, BackgroundResult
  PROVE  ExecutionInv'
  <1>0. WellTyped(x) /\ Safe(x, stream, shell, lost, confirmed, requests)
    BY TypesNow
  <1>1. x.task # None /\ x.task.kind = "background"
    BY DEF BackgroundResult
  <1>2. \E reported \in {"completed", "failed", "timedOut"}, code \in {0, None} :
           x' = Finish(x, x.task.id, reported, code)
    BY DEF BackgroundResult
  <1>3. PICK reported \in {"completed", "failed", "timedOut"}, code \in {0, None} :
           x' = Finish(x, x.task.id, reported, code)
    BY <1>2
  <1>4. x.task.id \notin Ids(shell)
    BY <1>0, <1>1 DEF Safe, Ended, TaskInv
  <1>5. Keeps(x, Finish(x, x.task.id, reported, code), stream, shell, lost, confirmed, requests)
    BY <1>0, <1>1, <1>4, FinishKeeps
  <1>6. UNCHANGED <<armed, connected, stream, shell, history, requests, disturbances>>
    BY DEF BackgroundResult
  <1> QED
    BY <1>3, <1>5, <1>6, StepKeeps, TypesNow DEF history, Keeps

LEMMA ProcessStep ==
  ASSUME ExecutionInv, ProcessEvent
  PROVE  ExecutionInv'
  <1> DEFINE e == stream[1]
  <1>0. WellTyped(x) /\ Safe(x, stream, shell, lost, confirmed, requests) /\ stream \in Seq(Events)
    BY TypesNow
  <1>1. /\ stream # <<>> /\ stream' = Tail(stream) /\ Head(stream) = e
        /\ Tail(stream) \in Seq(Events)
    BY <1>0, TailFacts DEF ProcessEvent
  <1>2. UNCHANGED <<armed, connected, shell, history, requests, disturbances>>
    BY DEF ProcessEvent
  <1>3. Keeps(x, x', Tail(stream), shell, lost, confirmed, requests)
    <2>1. CASE e.type = "boundary"
      <3>1. x' = Begun(x, e.id)
        BY <1>1, <2>1 DEF ProcessEvent
      <3> QED
        BY <1>0, <1>1, <2>1, <3>1, BegunKeeps
    <2>2. CASE e.type # "boundary"
      <3>1. \E prompt \in BOOLEAN : x' = Processed(x, e, prompt)
        BY <1>1, <2>2 DEF ProcessEvent
      <3>2. PICK prompt \in BOOLEAN : x' = Processed(x, e, prompt)
        BY <3>1
      <3>3. Keeps(x, Processed(x, e, prompt), Tail(stream), shell, lost, confirmed, requests)
        BY <1>0, <1>1, <2>2, ProcessedKeeps
      <3> QED
        BY <3>2, <3>3
    <2> QED
      BY <2>1, <2>2
  <1> QED
    BY <1>1, <1>2, <1>3, StepKeeps, TypesNow DEF history, Keeps

LEMMA DropStep ==
  ASSUME ExecutionInv, DropOutput
  PROVE  ExecutionInv'
  <1> DEFINE e == stream[1]
             lp == IF e.type = "end" THEN lost \cup {e.id} ELSE lost
  <1>0. WellTyped(x) /\ Safe(x, stream, shell, lost, confirmed, requests) /\ stream \in Seq(Events)
    BY TypesNow
  <1>1. /\ stream # <<>> /\ stream' = Tail(stream) /\ Head(stream) = e /\ e \in Events
        /\ Tail(stream) \in Seq(Events) /\ 1 \in DOMAIN stream
    BY <1>0, TailFacts DEF DropOutput
  <1>2. /\ lost' = lp /\ disturbances' = disturbances + 1 /\ disturbances < MaxDisturbances
        /\ x' = IF x.task = None THEN x ELSE Finish(x, x.task.id, "failed", None)
        /\ UNCHANGED <<armed, connected, shell, keyOf, confirmed, requests>>
    BY <1>1 DEF DropOutput
  <1>3. lp \subseteq Requests /\ lost \subseteq lp
    <2>1. e.type = "end" => e.id \in Requests
      BY <1>0, <1>1 DEF Safe, Ended, Events
    <2> QED
      BY <2>1, TypesNow
  <1>4. Keeps(x, x', stream, shell, lost, confirmed, requests) /\ x'.task = None
    <2>1. CASE x.task = None
      BY <1>0, <1>2, <2>1 DEF Keeps
    <2>2. CASE x.task # None
      <3>1. Keeps(x, Finish(x, x.task.id, "failed", None), stream, shell, lost, confirmed, requests)
        BY <1>0, <2>2, FinishKeeps
      <3>2. Finish(x, x.task.id, "failed", None).task = None
        BY <1>0, <2>2, FinishOver DEF Over, Safe, TaskInv
      <3> QED
        BY <1>2, <2>2, <3>1, <3>2
    <2> QED
      BY <2>1, <2>2
  <1>5. Safe(x', stream, shell, lp, confirmed, requests)
    BY <1>3, <1>4, LostMore DEF Keeps
  <1>6. Passed(x', e, lp)
    BY <1>4 DEF Passed, Prints
  <1>7. Safe(x', Tail(stream), shell, lp, confirmed, requests)
    BY <1>0, <1>1, <1>5, <1>6, StreamTail
  <1>8. disturbances' \in 0 .. MaxDisturbances
    BY <1>2, TypesNow, ExecutionConstants
  <1> QED
    BY <1>1, <1>2, <1>3, <1>4, <1>7, <1>8, StepKeeps, TypesNow DEF Keeps

LEMMA PollStep ==
  ASSUME ExecutionInv, Poll(FALSE)
  PROVE  ExecutionInv'
  <1>0. WellTyped(x) /\ Safe(x, stream, shell, lost, confirmed, requests)
    BY TypesNow
  <1>a. PICK s \in Ages(x), drained \in BOOLEAN :
           \E t \in Outcomes(s) : x' = IF drained THEN [t EXCEPT !.draining = None] ELSE t
    BY DEF Poll
  <1>1. PICK t \in Outcomes(s) : x' = IF drained THEN [t EXCEPT !.draining = None] ELSE t
    BY <1>a
  <1>2. Keeps(x, s, stream, shell, lost, confirmed, requests)
    BY <1>0, AgesKeep
  <1>3. Keeps(s, t, stream, shell, lost, confirmed, requests)
    BY <1>2, OutcomesKeep DEF Keeps
  <1>4. Keeps(t, x', stream, shell, lost, confirmed, requests)
    <2>1. CASE ~drained
      BY <1>1, <1>3, <2>1 DEF Keeps
    <2>2. CASE drained
      <3> DEFINE m == [t EXCEPT !.draining = None]
      <3>1. /\ WellTyped(m) /\ m.task = t.task /\ m.retired = t.retired /\ m.recovery = t.recovery
            /\ m.jobs = t.jobs /\ m.keys = t.keys
        BY <1>3, DrainingTyped DEF Keeps
      <3> HIDE DEF m
      <3>2. Safe(m, stream, shell, lost, confirmed, requests)
        BY <1>3, <3>1, SameCoreSafe DEF Keeps, SameCore
      <3>3. x' = m
        BY <1>1, <2>2 DEF m
      <3> QED
        BY <3>1, <3>2, <3>3 DEF Keeps
    <2> QED
      BY <2>1, <2>2
  <1>5. /\ armed' \in BOOLEAN
        /\ UNCHANGED <<connected, stream, shell, history, requests, disturbances>>
    BY DEF Poll, Running
  <1> QED
    BY <1>2, <1>3, <1>4, <1>5, StepKeeps, TypesNow DEF history, Keeps

\* note_manual_takeover: the jobs the executor follows are marked.
LEMMA TakenOverKeeps ==
  ASSUME NEW s, NEW st, NEW sh, NEW lo, NEW co, NEW n, WellTyped(s), Safe(s, st, sh, lo, co, n)
  PROVE  LET m == TakenOver(s)
         IN /\ Keeps(s, m, st, sh, lo, co, n)
            /\ \A id \in DOMAIN m.jobs : Watched(m, id) => m.jobs[id].takeover
  <1> DEFINE ids == ({s.recovery} \cup (IF s.task = None THEN {} ELSE {s.task.id})) \cap DOMAIN s.jobs
             J == [i \in DOMAIN s.jobs |-> [s.jobs[i] EXCEPT !.takeover = @ \/ i \in ids]]
             t == IF s.task = None THEN s.task ELSE [s.task EXCEPT !.cancelled = TRUE]
             a == [s EXCEPT !.jobs = J]
             m == [a EXCEPT !.task = t]
  <1>1. TakenOver(s) = m
    BY DEF TakenOver, WellTyped
  <1>2. t \in Tasks \cup {None} /\ SameTask(s.task, t)
    <2>1. s.task \in Tasks \cup {None}
      BY DEF WellTyped
    <2>2. CASE s.task # None
      BY <2>1, <2>2, ExecutionConstants DEF Tasks, SameTask
    <2>3. CASE s.task = None
      BY <2>3 DEF SameTask
    <2> QED
      BY <2>2, <2>3
  <1>3. ASSUME NEW i \in DOMAIN s.jobs
        PROVE  /\ J[i] \in Jobs /\ JobKept(s.jobs[i], J[i]) /\ NoExit(s.jobs[i], J[i])
               /\ J[i].finished = s.jobs[i].finished
               /\ i \in ids => J[i].takeover
    <2>1. s.jobs[i] \in Jobs
      BY <1>3 DEF WellTyped
    <2>2. J[i] = [s.jobs[i] EXCEPT !.takeover = s.jobs[i].takeover \/ i \in ids]
      BY <1>3
    <2>3. (s.jobs[i].takeover \/ i \in ids) \in BOOLEAN
      OBVIOUS
    <2> HIDE DEF ids, J
    <2> DEFINE b == s.jobs[i].takeover \/ i \in ids
    <2>4. J[i] = [s.jobs[i] EXCEPT !.takeover = b] /\ b \in BOOLEAN /\ (s.jobs[i].takeover => b)
          /\ (i \in ids => b)
      BY <2>2, <2>3
    <2> HIDE DEF b
    <2>5. J[i] \in Jobs /\ J[i].takeover = b /\ J[i].kind = s.jobs[i].kind
          /\ J[i].output = s.jobs[i].output /\ J[i].process = s.jobs[i].process
          /\ J[i].finished = s.jobs[i].finished
      BY <2>1, <2>4 DEF Jobs
    <2> QED
      BY <2>4, <2>5 DEF JobKept, NoExit
  <1>4. J \in [DOMAIN s.jobs -> Jobs]
    <2>1. \A i \in DOMAIN s.jobs : J[i] \in Jobs
      BY <1>3
    <2> QED
      BY <2>1
  <1>5. \A id \in DOMAIN s.jobs : Watched(s, id) => id \in ids
    BY DEF Watched
  <1> HIDE DEF J, t, ids
  <1>6. /\ WellTyped(a) /\ a.task = s.task /\ a.retired = s.retired /\ a.recovery = s.recovery
        /\ a.jobs = J /\ a.keys = s.keys /\ DOMAIN J = DOMAIN s.jobs
    BY <1>4, JobsTyped
  <1> HIDE DEF a
  <1>7. /\ WellTyped(m) /\ m.task = t /\ m.retired = s.retired /\ m.recovery = s.recovery
        /\ m.jobs = J /\ m.keys = s.keys
    BY <1>2, <1>6 DEF WellTyped
  <1> HIDE DEF m
  <1>8. JobsKept(s, m, sh)
    BY <1>3, <1>6, <1>7 DEF JobsKept
  <1>9. m.task # None => m.task.id \in DOMAIN m.jobs /\ ~m.jobs[m.task.id].finished
    BY <1>2, <1>3, <1>6, <1>7 DEF Safe, TaskInv, SameTask
  <1>10. Safe(m, st, sh, lo, co, n)
    BY <1>2, <1>7, <1>8, <1>9, MoveJobs
  <1>11. \A id \in DOMAIN m.jobs : Watched(m, id) => m.jobs[id].takeover
    <2>1. \A id : Watched(m, id) => Watched(s, id)
      BY <1>2, <1>7 DEF Watched, SameTask
    <2> QED
      BY <1>3, <1>5, <1>6, <1>7, <2>1
  <1> QED
    BY <1>1, <1>7, <1>10, <1>11 DEF Keeps

\* An interrupt reaches the shell.
LEMMA InterruptKeeps ==
  ASSUME ExecutionInv, NEW m, WellTyped(m), Safe(m, stream, shell, lost, confirmed, requests),
         Interrupted
  PROVE  /\ stream' \in Seq(Events) /\ shell' \in Shells /\ lost' \subseteq Requests
         /\ Safe(m, stream', shell', lost', confirmed, requests)
  <1>0. /\ stream \in Seq(Events) /\ shell \in Shells /\ lost \subseteq Requests /\ requests \in Nat
        /\ OneByOne(shell)
    BY TypesNow DEF Safe
  <1>1. CASE shell.running = None
    BY <1>0, <1>1 DEF Interrupted
  <1>2. CASE shell.running # None
    <2> DEFINE c == shell.running
    <2>1. PICK code \in {130, None}, queue \in {shell.queue, <<>>} :
             /\ shell' = Begins(queue)
             /\ stream' = stream \o Ending(c, code, queue)
             /\ lost' = lost \cup (({q.id : q \in ToSet(shell.queue) \ ToSet(queue)}
                                      \cup (IF code = None THEN {c.id} ELSE {})) \ {User})
      BY <1>2 DEF Interrupted
    <2>2. c \in Commands /\ queue \in Seq(Commands) /\ Begins(queue) \in Shells
      BY <1>0, <1>2, ShellAfter
    <2>3. stream' \in Seq(Events)
      <3>1. Ending(c, code, queue) \in Seq(Events)
        BY <2>2, EndingEvents DEF EndsWith
      <3> HIDE DEF c
      <3> QED
        BY <1>0, <2>1, <3>1
    <2>4. lost \subseteq lost' /\ LostWith(shell, code, queue, lost')
      <3>1. queue = <<>> => ToSet(queue) = {}
        BY DEF ToSet
      <3> QED
        BY <2>1, <3>1 DEF LostWith
    <2>5. lost' \subseteq Requests
      <3>1. \A d \in Commands : d.id \in Requests \cup {User}
        BY DEF Commands
      <3>2. ToSet(shell.queue) \subseteq Commands
        BY <1>0 DEF Shells, ToSet
      <3> QED
        BY <1>0, <2>1, <2>2, <3>1, <3>2
    <2>6. Safe(m, stream \o Ending(c, code, queue), Begins(queue), lost', confirmed, requests)
      <3> DEFINE lp == lost'
      <3>1. lost \subseteq lp /\ LostWith(shell, code, queue, lp) /\ code \in {0, 130, None}
        BY <2>4
      <3> HIDE DEF lp
      <3>2. Safe(m, stream \o Ending(c, code, queue), Begins(queue), lp, confirmed, requests)
        BY <1>0, <1>2, <3>1, ShellStep, SMTT(30)
      <3> QED
        BY <3>2 DEF lp
    <2> QED
      BY <2>1, <2>2, <2>3, <2>5, <2>6
  <1> QED
    BY <1>1, <1>2

LEMMA InterruptStep ==
  ASSUME ExecutionInv, PressInterrupt
  PROVE  ExecutionInv'
  <1>1. /\ x' = TakenOver(x) /\ Interrupted
        /\ disturbances < MaxDisturbances /\ disturbances' = disturbances + 1
        /\ UNCHANGED <<armed, connected, keyOf, confirmed, requests>>
    BY DEF PressInterrupt
  <1>2. Keeps(x, x', stream, shell, lost, confirmed, requests)
    BY <1>1, TypesNow, TakenOverKeeps
  <1>3. /\ stream' \in Seq(Events) /\ shell' \in Shells /\ lost' \subseteq Requests
        /\ Safe(x', stream', shell', lost', confirmed, requests)
    BY <1>1, <1>2, InterruptKeeps DEF Keeps
  <1>4. disturbances' \in 0 .. MaxDisturbances
    BY <1>1, TypesNow, ExecutionConstants
  <1> QED
    BY <1>1, <1>2, <1>3, <1>4, StepKeeps, TypesNow DEF Keeps

LEMMA ShellEndsStep ==
  ASSUME ExecutionInv, ShellEnds
  PROVE  ExecutionInv'
  <1> DEFINE c == shell.running
             q == shell.queue
  <1>0. /\ stream \in Seq(Events) /\ shell \in Shells /\ requests \in Nat /\ OneByOne(shell)
        /\ WellTyped(x) /\ Safe(x, stream, shell, lost, confirmed, requests)
    BY TypesNow DEF Safe
  <1>1. /\ c # None /\ stream' = stream \o Ending(c, 0, q) /\ shell' = Begins(q)
        /\ UNCHANGED <<x, armed, connected, history, requests, disturbances>>
    BY DEF ShellEnds
  <1>2. c \in Commands /\ q \in Seq(Commands) /\ Begins(q) \in Shells
    BY <1>0, <1>1, ShellAfter
  <1>3. stream' \in Seq(Events)
    <2>1. Ending(c, 0, q) \in Seq(Events)
      BY <1>2, EndingEvents DEF EndsWith
    <2> HIDE DEF c, q
    <2> QED
      BY <1>0, <1>1, <2>1
  <1>4. q = <<>> => ToSet(q) = {}
    BY DEF ToSet
  <1>5. Safe(x, stream \o Ending(c, 0, q), Begins(q), lost, confirmed, requests)
    <2>1. LostWith(shell, 0, q, lost)
      BY <1>4, ExecutionConstants DEF LostWith
    <2> QED
      BY <1>0, <1>1, <2>1, ShellStep
  <1> QED
    BY <1>0, <1>1, <1>2, <1>3, <1>5, StepKeeps, TypesNow DEF history

LEMMA TypeLineStep ==
  ASSUME ExecutionInv, TypeLine
  PROVE  ExecutionInv'
  <1> DEFINE c == [id |-> User, kind |-> "raw"]
             su == stream \o TypedOutput(shell, c)
             b == AfterTyping(shell, c)
  <1>0. /\ stream \in Seq(Events) /\ shell \in Shells /\ requests \in Nat /\ OneByOne(shell)
        /\ WellTyped(x) /\ Safe(x, stream, shell, lost, confirmed, requests)
    BY TypesNow DEF Safe
  <1>1. c \in Commands /\ c.id = User /\ c.kind = "raw"
    BY DEF Commands
  <1>2. /\ x' = TakenOver(x) /\ Type(c, <<>>)
        /\ disturbances < MaxDisturbances /\ disturbances' = disturbances + 1
        /\ UNCHANGED <<armed, connected, history, requests>>
    BY DEF TypeLine
  <1> HIDE DEF c
  <1>3. /\ Keeps(x, x', stream, shell, lost, confirmed, requests)
        /\ \A id \in DOMAIN x'.jobs : Watched(x', id) => x'.jobs[id].takeover
    BY <1>0, <1>2, TakenOverKeeps
  <1>4. Safe(x', su, b, lost, confirmed, requests)
    BY <1>0, <1>1, <1>3, UserTypes DEF Keeps
  <1>5. TypedOutput(shell, c) \in Seq(Events) /\ b \in Shells
    BY <1>0, <1>1, TypedEvents, ShellTyped
  <1>6. stream' = su /\ shell' = b
    <2>1. stream \o <<>> = stream
      BY <1>0
    <2> QED
      BY <1>2, <2>1 DEF Type, TypedOutput, AfterTyping
  <1>7. stream' \in Seq(Events)
    BY <1>0, <1>5, <1>6
  <1>8. disturbances' \in 0 .. MaxDisturbances
    BY <1>2, TypesNow, ExecutionConstants
  <1> QED
    BY <1>2, <1>3, <1>4, <1>5, <1>6, <1>7, <1>8, StepKeeps, TypesNow DEF history, Keeps

LEMMA ConfirmStep ==
  ASSUME ExecutionInv, ConfirmRecovered
  PROVE  ExecutionInv'
  <1>0. WellTyped(x) /\ Safe(x, stream, shell, lost, confirmed, requests)
    BY TypesNow
  <1>1. /\ x.recovery # None /\ confirmed' = confirmed \cup {x.recovery}
        /\ x' = [x EXCEPT !.recovery = None]
        /\ UNCHANGED <<armed, connected, stream, shell, keyOf, lost, requests, disturbances>>
    BY DEF ConfirmRecovered
  <1>2. /\ WellTyped(x') /\ x'.task = x.task /\ x'.retired = x.retired /\ x'.jobs = x.jobs
        /\ x'.recovery = None /\ x'.keys = x.keys
    BY <1>0, <1>1 DEF WellTyped
  <1>3. Safe(x', stream, shell, lost, confirmed \cup {x.recovery}, requests)
    BY <1>0, <1>2, MoveConfirm
  <1>4. confirmed' \subseteq Requests
    BY <1>0, <1>1, TypesNow DEF WellTyped
  <1> QED
    BY <1>1, <1>2, <1>3, <1>4, StepKeeps, TypesNow

\* One job is updated.
LEMMA JobReplaced ==
  ASSUME NEW s, WellTyped(s), NEW id \in DOMAIN s.jobs, NEW k \in Jobs,
         JobKept(s.jobs[id], k), NoExit(s.jobs[id], k)
  PROVE  LET m == [s EXCEPT !.jobs[id] = k]
         IN /\ WellTyped(m) /\ m.task = s.task /\ m.retired = s.retired /\ m.recovery = s.recovery
            /\ m.keys = s.keys /\ DOMAIN m.jobs = DOMAIN s.jobs /\ m.jobs[id] = k
            /\ \A i \in DOMAIN s.jobs : i # id => m.jobs[i] = s.jobs[i]
            /\ \A sh : JobsKept(s, m, sh)
  <1> DEFINE J == [s.jobs EXCEPT ![id] = k]
             m == [s EXCEPT !.jobs = J]
  <1>1. s.jobs \in [DOMAIN s.jobs -> Jobs]
    BY DEF WellTyped
  <1>2. J \in [DOMAIN s.jobs -> Jobs] /\ J[id] = k /\ \A i \in DOMAIN s.jobs : i # id => J[i] = s.jobs[i]
    BY <1>1
  <1> HIDE DEF J
  <1>3. /\ WellTyped(m) /\ m.task = s.task /\ m.retired = s.retired /\ m.recovery = s.recovery
        /\ m.jobs = J /\ m.keys = s.keys /\ DOMAIN J = DOMAIN s.jobs
    BY <1>2, JobsTyped
  <1> HIDE DEF m
  <1>4. \A sh : JobsKept(s, m, sh)
    BY <1>2, <1>3 DEF JobsKept, JobKept, NoExit
  <1> QED
    BY <1>2, <1>3, <1>4 DEF m, J

LEMMA JobReplacedSafe ==
  ASSUME NEW s, NEW st, NEW sh, NEW lo, NEW co, NEW n, WellTyped(s), Safe(s, st, sh, lo, co, n),
         NEW id \in DOMAIN s.jobs, NEW k \in Jobs,
         JobKept(s.jobs[id], k), NoExit(s.jobs[id], k),
         k.finished = s.jobs[id].finished \/ s.task = None \/ s.task.id # id
  PROVE  Keeps(s, [s EXCEPT !.jobs[id] = k], st, sh, lo, co, n)
  <1> DEFINE m == [s EXCEPT !.jobs[id] = k]
  <1>1. /\ WellTyped(m) /\ m.task = s.task /\ m.retired = s.retired /\ m.recovery = s.recovery
        /\ m.keys = s.keys /\ DOMAIN m.jobs = DOMAIN s.jobs /\ m.jobs[id] = k
        /\ \A i \in DOMAIN s.jobs : i # id => m.jobs[i] = s.jobs[i]
        /\ JobsKept(s, m, sh)
    BY JobReplaced
  <1> HIDE DEF m
  <1>2. SameTask(s.task, m.task)
    BY <1>1 DEF SameTask
  <1>3. m.task # None => m.task.id \in DOMAIN m.jobs /\ ~m.jobs[m.task.id].finished
    BY <1>1 DEF Safe, TaskInv
  <1>4. Safe(m, st, sh, lo, co, n)
    BY <1>1, <1>2, <1>3, MoveJobs
  <1> QED
    BY <1>1, <1>4 DEF Keeps, m

\* A job that is stopped and cannot be interrupted: it is unknown what became of it,
\* and its execution is given up.
LEMMA GivenUpKeeps ==
  ASSUME NEW s, NEW st, NEW sh, NEW lo, NEW co, NEW n, WellTyped(s), Safe(s, st, sh, lo, co, n),
         NEW id \in DOMAIN s.jobs
  PROVE  LET a == [s EXCEPT !.jobs[id] = Unknown(@, "unknown")]
         IN Keeps(s, Finish(a, id, "failed", None), st, sh, lo, co, n)
  <1> DEFINE k == Unknown(s.jobs[id], "unknown")
             a == [s EXCEPT !.jobs[id] = k]
             m == Finish(a, id, "failed", None)
  <1>1. k \in Jobs /\ JobKept(s.jobs[id], k) /\ NoExit(s.jobs[id], k)
    <2>1. s.jobs[id] \in Jobs
      BY DEF WellTyped
    <2>2. "unknown" \in Statuses
      BY DEF Statuses
    <2> QED
      BY <2>1, <2>2, UnknownJob
  <1> HIDE DEF k
  <1>2. CASE s.task = None \/ s.task.id # id
    <2>1. Keeps(s, a, st, sh, lo, co, n)
      BY <1>1, <1>2, JobReplacedSafe
    <2>2. a.task = s.task
      BY <1>1, JobReplaced
    <2> HIDE DEF a
    <2>3. m = a
      BY <1>2, <2>2 DEF Finish
    <2> QED
      BY <2>1, <2>3 DEF a, k
  <1>3. CASE s.task # None /\ s.task.id = id
    <2>1. /\ WellTyped(a) /\ a.task = s.task /\ a.retired = s.retired /\ a.recovery = s.recovery
          /\ a.keys = s.keys /\ DOMAIN a.jobs = DOMAIN s.jobs /\ a.jobs[id] = k
          /\ \A i \in DOMAIN s.jobs : i # id => a.jobs[i] = s.jobs[i]
      BY <1>1, JobReplaced
    <2> HIDE DEF a
    <2>2. s.recovery = None
      BY <1>3 DEF Safe, TaskInv
    <2>3. WellTyped(m) /\ Over(a, m) /\ Unconfirmed(a, m)
      BY <1>3, <2>1, <2>2, FinishOver
    <2> HIDE DEF m
    <2>4. Over(s, m) /\ Unconfirmed(s, m)
      BY <1>1, <1>3, <2>1, <2>3 DEF Over, Unconfirmed, JobKept, NoExit
    <2>5. Safe(m, st, sh, lo, co, n)
      BY <1>3, <2>4, MoveOver
    <2> QED
      BY <2>3, <2>4, <2>5 DEF Keeps, Over, m, a, k
  <1> QED
    BY <1>2, <1>3

\* stop_terminal_job
LEMMA StopKeeps ==
  ASSUME ExecutionInv, NEW id \in Requests, NEW sent, Stop(id, sent)
  PROVE  Keeps(x, x', stream, shell, lost, confirmed, requests)
  <1> DEFINE K(s, m) == Keeps(s, m, stream, shell, lost, confirmed, requests)
             k == [x.jobs[id] EXCEPT !.stopping = TRUE]
             asked == [x EXCEPT !.jobs[id] = k]
             c == [k EXCEPT !.status = "cancelling"]
             cancelling == [asked EXCEPT !.jobs[id] = c]
             unknown == [asked EXCEPT !.jobs[id] = Unknown(@, "unknown")]
             given == Finish(unknown, id, "failed", None)
  <1>0. WellTyped(x) /\ Safe(x, stream, shell, lost, confirmed, requests) /\ id \in DOMAIN x.jobs
        /\ x.jobs[id] \in Jobs
    BY TypesNow DEF Stop, WellTyped
  <1>1. k \in Jobs /\ JobKept(x.jobs[id], k) /\ NoExit(x.jobs[id], k) /\ k.finished = x.jobs[id].finished
    BY <1>0 DEF Jobs, JobKept, NoExit
  <1>2. c \in Jobs /\ JobKept(k, c) /\ NoExit(k, c) /\ c.finished = k.finished
    BY <1>1 DEF Jobs, JobKept, NoExit, Statuses
  <1>3. asked.jobs[id] = k /\ DOMAIN asked.jobs = DOMAIN x.jobs
    <2> HIDE DEF k
    <2> QED
      BY <1>0, <1>1, JobReplaced
  <1>4. PICK b \in {asked, given, cancelling} : x' \in Ages(b)
    <2>1. asked = [x EXCEPT !.jobs[id].stopping = TRUE]
      OBVIOUS
    <2>2. cancelling = [asked EXCEPT !.jobs[id].status = "cancelling"]
      <3> HIDE DEF asked, k
      <3> QED
        BY <1>3
    <2> HIDE DEF asked, cancelling
    <2> QED
      BY <2>1, <2>2 DEF Stop
  <1>5. K(x, asked)
    <2> HIDE DEF k
    <2> QED
      BY <1>0, <1>1, JobReplacedSafe
  <1> HIDE DEF asked, k, c
  <1>6. K(asked, cancelling)
    BY <1>0, <1>2, <1>3, <1>5, JobReplacedSafe DEF Keeps
  <1>7. K(asked, given)
    BY <1>0, <1>3, <1>5, GivenUpKeeps DEF Keeps
  <1> HIDE DEF cancelling, given
  <1>8. K(x, b)
    BY <1>4, <1>5, <1>6, <1>7 DEF Keeps
  <1>9. K(b, x')
    BY <1>4, <1>8, AgesKeep DEF Keeps
  <1> QED
    BY <1>8, <1>9 DEF Keeps

LEMMA StopStep ==
  ASSUME ExecutionInv, NEW id \in Requests, StopJob(id)
  PROVE  ExecutionInv'
  <1>1. CASE Stop(id, FALSE) /\ UNCHANGED <<stream, shell, lost>>
    <2>1. Keeps(x, x', stream, shell, lost, confirmed, requests)
      BY <1>1, StopKeeps
    <2>2. UNCHANGED <<armed, connected, keyOf, confirmed, requests, disturbances>>
      BY <1>1 DEF Stop
    <2> QED
      BY <1>1, <2>1, <2>2, StepKeeps, TypesNow DEF Keeps
  <1>2. CASE Stop(id, TRUE) /\ Interrupted
    <2>1. Keeps(x, x', stream, shell, lost, confirmed, requests)
      BY <1>2, StopKeeps
    <2>2. UNCHANGED <<armed, connected, keyOf, confirmed, requests, disturbances>>
      BY <1>2 DEF Stop
    <2>3. /\ stream' \in Seq(Events) /\ shell' \in Shells /\ lost' \subseteq Requests
          /\ Safe(x', stream', shell', lost', confirmed, requests)
      BY <1>2, <2>1, InterruptKeeps DEF Keeps
    <2> QED
      BY <2>1, <2>2, <2>3, StepKeeps, TypesNow DEF Keeps
  <1> QED
    BY <1>1, <1>2 DEF StopJob

\* With nothing in the shell and in the stream, and nothing the executor follows.
LEMMA EmptySafe ==
  ASSUME NEW s, NEW lo, NEW co, NEW n \in Nat, s.task = None, s.retired = {}, s.recovery = None,
         DOMAIN s.jobs \subseteq 1 .. n,
         \A id \in DOMAIN s.jobs : s.jobs[id].output \subseteq {id}
  PROVE  Safe(s, <<>>, [running |-> None, queue |-> <<>>], lo, co, n)
  <1> DEFINE sh == [running |-> None, queue |-> <<>>]
  <1>1. sh.running = None /\ sh.queue = <<>>
    OBVIOUS
  <1> HIDE DEF sh
  <1>2. Lines(sh) = {} /\ Ids(sh) = {}
    BY <1>1 DEF Lines, Ids, ToSet
  <1>3. Fresh(s, <<>>, sh, n)
    BY <1>2 DEF Fresh
  <1>4. TaskInv(s) /\ OneByOne(sh) /\ Ended(s, <<>>, sh) /\ Guarded(s, sh, co)
    BY <1>1, <1>2 DEF TaskInv, OneByOne, Ended, Guarded
  <1>5. Prompted(s, <<>>, sh) /\ Follows(s, <<>>, sh, lo) /\ Guard(s, <<>>, sh, lo)
    BY <1>2 DEF Prompted, Follows, Guard
  <1>6. Own(s, <<>>, sh)
    <2>1. None \notin DOMAIN s.jobs
      BY ExecutionConstants
    <2> QED
      BY <2>1 DEF Own, Watched
  <1> QED
    BY <1>3, <1>4, <1>5, <1>6 DEF Safe, sh

LEMMA DisconnectStep ==
  ASSUME ExecutionInv, Disconnect
  PROVE  ExecutionInv'
  <1> DEFINE s == IF x.task = None THEN x ELSE Finish(x, x.task.id, "disconnected", None)
             J == [i \in DOMAIN s.jobs |-> IF s.jobs[i].finished THEN s.jobs[i]
                                           ELSE Unknown(s.jobs[i], "disconnected")]
             a == [s EXCEPT !.draining = None]
             b == [a EXCEPT !.retired = {}]
             c == [b EXCEPT !.recovery = None]
             d == [c EXCEPT !.jobs = J]
             sh == [running |-> None, queue |-> <<>>]
  <1>0. WellTyped(x) /\ Safe(x, stream, shell, lost, confirmed, requests)
    BY TypesNow
  <1>1. /\ WellTyped(s) /\ s.task = None /\ s.keys = x.keys /\ DOMAIN s.jobs = DOMAIN x.jobs
        /\ \A i \in DOMAIN x.jobs : s.jobs[i].output = x.jobs[i].output
    <2>1. CASE x.task = None
      BY <1>0, <2>1
    <2>2. CASE x.task # None
      <3> DEFINE m == Finish(x, x.task.id, "disconnected", None)
      <3>1. x.task.id \in DOMAIN x.jobs /\ x.recovery = None
        BY <1>0, <2>2 DEF Safe, TaskInv
      <3>2. WellTyped(m) /\ Over(x, m)
        BY <1>0, <2>2, <3>1, FinishOver
      <3> HIDE DEF m
      <3>3. m.task = None /\ m.keys = x.keys /\ DOMAIN m.jobs = DOMAIN x.jobs
            /\ \A i \in DOMAIN x.jobs : m.jobs[i].output = x.jobs[i].output
        BY <3>1, <3>2 DEF Over, JobKept
      <3>4. s = m
        BY <2>2 DEF m
      <3> HIDE DEF s
      <3> QED
        BY <3>2, <3>3, <3>4
    <2> QED
      BY <2>1, <2>2
  <1>2. x' = d
    BY DEF Disconnect
  <1> HIDE DEF s
  <1>3. /\ J \in [DOMAIN s.jobs -> Jobs]
        /\ \A i \in DOMAIN s.jobs : J[i].output = s.jobs[i].output
    <2>1. ASSUME NEW i \in DOMAIN s.jobs
          PROVE  J[i] \in Jobs /\ J[i].output = s.jobs[i].output
      <3>1. s.jobs[i] \in Jobs
        BY <1>1, <2>1 DEF WellTyped
      <3>2. "disconnected" \in Statuses
        BY DEF Statuses
      <3>3. /\ Unknown(s.jobs[i], "disconnected") \in Jobs
            /\ JobKept(s.jobs[i], Unknown(s.jobs[i], "disconnected"))
        BY <3>1, <3>2, UnknownJob
      <3> QED
        BY <2>1, <3>1, <3>3 DEF JobKept
    <2> QED
      BY <2>1
  <1> HIDE DEF J
  <1>4. WellTyped(a) /\ a.task = s.task /\ a.jobs = s.jobs /\ a.keys = s.keys
    BY <1>1, DrainingTyped
  <1> HIDE DEF a
  <1>5. WellTyped(b) /\ b.task = s.task /\ b.jobs = s.jobs /\ b.keys = s.keys /\ b.retired = {}
    BY <1>4 DEF WellTyped
  <1> HIDE DEF b
  <1>6. WellTyped(c) /\ c.task = s.task /\ c.jobs = s.jobs /\ c.keys = s.keys /\ c.retired = {}
        /\ c.recovery = None
    BY <1>5 DEF WellTyped
  <1> HIDE DEF c
  <1>7. WellTyped(d) /\ d.task = s.task /\ d.jobs = J /\ d.keys = s.keys /\ d.retired = {}
        /\ d.recovery = None /\ DOMAIN J = DOMAIN s.jobs
    BY <1>3, <1>6, JobsTyped
  <1> HIDE DEF d
  <1>8. Safe(d, <<>>, sh, lost, confirmed, requests)
    <2>1. DOMAIN d.jobs \subseteq 1 .. requests
      BY <1>0, <1>1, <1>7 DEF Safe, Fresh
    <2>2. \A i \in DOMAIN d.jobs : d.jobs[i].output \subseteq {i}
      BY <1>0, <1>1, <1>3, <1>7 DEF Safe, Own
    <2> QED
      BY <1>1, <1>7, <2>1, <2>2, TypesNow, EmptySafe
  <1>9. /\ connected' = FALSE /\ stream' = <<>> /\ shell' = sh
        /\ UNCHANGED <<armed, history, requests, disturbances>>
    BY DEF Disconnect
  <1>10. stream' \in Seq(Events) /\ shell' \in Shells
    <2>1. <<>> \in Seq(Events) /\ <<>> \in Seq(Commands)
      OBVIOUS
    <2> QED
      BY <1>9, <2>1 DEF Shells
  <1> QED
    BY <1>1, <1>2, <1>7, <1>8, <1>9, <1>10, StepKeeps, TypesNow DEF history

-----------------------------------------------------------------------------
(* Requests.                                                               *)

LEMMA MoreRequests ==
  ASSUME NEW s, NEW st, NEW sh, NEW lo, NEW co, NEW n \in Nat, Safe(s, st, sh, lo, co, n)
  PROVE  Safe(s, st, sh, lo, co, n + 1)
  <1>1. 1 .. n \subseteq 1 .. n + 1 /\ 0 .. n \subseteq 0 .. n + 1
    OBVIOUS
  <1> QED
    BY <1>1 DEF Safe, Fresh

\* A request that is open.
LEMMA OpenCore ==
  ASSUME NEW s, WellTyped(s), NEW r \in Requests
  PROVE  LET m == [s EXCEPT !.open = @ \cup {r}]
         IN WellTyped(m) /\ SameCore(s, m) /\ m.keys = s.keys /\ m.waiters = s.waiters
            /\ m.result = s.result
  BY DEF WellTyped, SameCore

\* A request for an operation that is known.
LEMMA JoinCore ==
  ASSUME NEW s, WellTyped(s), NEW r \in Requests, NEW op
  PROVE  LET m == Join(s, r, op) IN WellTyped(m) /\ SameCore(s, m) /\ m.keys = s.keys
  <1>1. CASE s.result[op] = "pending" /\ op \in DOMAIN s.waiters
    <2> DEFINE w == [s.waiters EXCEPT ![op] = @ \cup {r}]
               m == [s EXCEPT !.waiters = w]
    <2>1. w \in [DOMAIN s.waiters -> SUBSET Requests] /\ DOMAIN w = DOMAIN s.waiters
      BY <1>1 DEF WellTyped
    <2>2. Join(s, r, op) = m
      BY <1>1 DEF Join
    <2> HIDE DEF w
    <2>3. WellTyped(m) /\ SameCore(s, m) /\ m.keys = s.keys
      BY <2>1 DEF WellTyped, SameCore
    <2> QED
      BY <2>2, <2>3
  <1>2. CASE ~(s.result[op] = "pending" /\ op \in DOMAIN s.waiters)
    <2>1. Join(s, r, op) = Answer(s, {r})
      BY <1>2 DEF Join
    <2> QED
      BY <2>1, AnswerCore
  <1> QED
    BY <1>1, <1>2

\* A new operation: its key is registered.
LEMMA RegisteredCore ==
  ASSUME NEW s, WellTyped(s), NEW r \in Requests, NEW key \in Keys \cup {NoKey}, NEW caller
  PROVE  LET m == Registered(s, r, key, caller)
         IN /\ WellTyped(m) /\ SameCore(s, m)
            /\ \A k \in Keys : m.keys[k] = IF k = key THEN r ELSE s.keys[k]
  <1> DEFINE K == IF key = NoKey THEN s.keys ELSE [s.keys EXCEPT ![key] = r]
             R == [s.result EXCEPT ![r] = IF key = NoKey THEN "none" ELSE "pending"]
             V == [op \in DOMAIN s.waiters \cup {r} |-> IF op = r THEN {r} ELSE s.waiters[op]]
             W == IF caller # "shared" THEN s.waiters ELSE V
             a == [s EXCEPT !.keys = K]
             b == [a EXCEPT !.result = R]
             c == [b EXCEPT !.waiters = W]
  <1>1. K \in [Keys \cup {NoKey} -> Requests \cup {None}]
        /\ \A k \in Keys : K[k] = IF k = key THEN r ELSE s.keys[k]
    BY ExecutionConstants DEF WellTyped
  <1>2. R \in [Requests -> {"none", "pending", "complete", "expired"}]
    BY DEF WellTyped
  <1>3. W \in [DOMAIN W -> SUBSET Requests] /\ DOMAIN W \subseteq Requests
    <2>1. s.waiters \in [DOMAIN s.waiters -> SUBSET Requests] /\ DOMAIN s.waiters \subseteq Requests
      BY DEF WellTyped
    <2>2. V \in [DOMAIN s.waiters \cup {r} -> SUBSET Requests]
          /\ DOMAIN s.waiters \cup {r} \subseteq Requests
      BY <2>1
    <2> HIDE DEF V
    <2> QED
      BY <2>1, <2>2
  <1>4. Registered(s, r, key, caller) = c
    BY DEF Registered, WellTyped
  <1> HIDE DEF K, R, W
  <1>5. WellTyped(a) /\ SameCore(s, a) /\ a.keys = K
    BY <1>1 DEF WellTyped, SameCore
  <1> HIDE DEF a
  <1>6. WellTyped(b) /\ SameCore(a, b) /\ b.keys = K
    BY <1>2, <1>5 DEF WellTyped, SameCore
  <1> HIDE DEF b
  <1>7. WellTyped(c) /\ SameCore(b, c) /\ c.keys = K
    BY <1>3, <1>6 DEF WellTyped, SameCore
  <1> HIDE DEF c
  <1>8. SameCore(s, c)
    BY <1>5, <1>6, <1>7 DEF SameCore
  <1> QED
    BY <1>1, <1>4, <1>7, <1>8

\* The execution and its job are inserted.
LEMMA InsertedCore ==
  ASSUME NEW s, WellTyped(s), NEW r \in Requests, NEW kind \in Kinds, NEW caller \in Callers
  PROVE  LET m == Inserted(s, r, kind, caller)
         IN /\ WellTyped(m) /\ m.retired = s.retired /\ m.recovery = s.recovery /\ m.keys = s.keys
            /\ m.task # None /\ m.task.id = r /\ m.task.kind = kind /\ ~m.task.begun
            /\ m.task.phase = "wait"
            /\ DOMAIN m.jobs = DOMAIN s.jobs \cup {r} /\ m.jobs[r] = NewJob(kind)
            /\ \A i \in DOMAIN s.jobs : i # r => m.jobs[i] = s.jobs[i]
  <1> DEFINE t == [id |-> r, kind |-> kind, caller |-> caller, begun |-> FALSE,
                   phase |-> "wait", cancelled |-> FALSE]
             J == [i \in DOMAIN s.jobs \cup {r} |-> IF i = r THEN NewJob(kind) ELSE s.jobs[i]]
             a == [s EXCEPT !.jobs = J]
             m == [a EXCEPT !.task = t]
  <1>1. t \in Tasks /\ t # None
    <2>1. t \in Tasks
      BY DEF Tasks, Phases
    <2> HIDE DEF t
    <2> QED
      BY <2>1, ExecutionConstants
  <1>2. NewJob(kind) \in Jobs
    BY DEF NewJob, Jobs, Statuses
  <1>3. Inserted(s, r, kind, caller) = m
    BY DEF Inserted, FirstPhase
  <1>4. /\ J \in [DOMAIN s.jobs \cup {r} -> Jobs] /\ DOMAIN J = DOMAIN s.jobs \cup {r}
        /\ J[r] = NewJob(kind) /\ \A i \in DOMAIN s.jobs : i # r => J[i] = s.jobs[i]
        /\ DOMAIN s.jobs \cup {r} \subseteq Requests
    BY <1>2 DEF WellTyped
  <1>5. /\ t.id = r /\ t.kind = kind /\ ~t.begun /\ t.phase = "wait"
    OBVIOUS
  <1> HIDE DEF J, t
  <1>6. /\ WellTyped(a) /\ a.retired = s.retired /\ a.recovery = s.recovery /\ a.keys = s.keys
        /\ a.jobs = J
    BY <1>4 DEF WellTyped
  <1> HIDE DEF a
  <1>7. /\ WellTyped(m) /\ m.task = t /\ m.retired = s.retired /\ m.recovery = s.recovery
        /\ m.jobs = J /\ m.keys = s.keys
    BY <1>1, <1>6, TaskTyped
  <1> HIDE DEF m
  <1> QED
    BY <1>1, <1>3, <1>4, <1>5, <1>7

\* A request keeps what is known of the keys: only a key that is not registered is.
LEMMA KeysStep ==
  ASSUME ExecutionInv, requests < MaxRequests, requests' = requests + 1,
         NEW key \in Keys \cup {NoKey},
         \/ x'.keys = x.keys /\ keyOf' = keyOf
         \/ /\ x.keys[key] = None
            /\ \A k \in Keys : x'.keys[k] = IF k = key THEN requests + 1 ELSE x.keys[k]
            /\ keyOf' \in {keyOf, [keyOf EXCEPT ![requests + 1] = key]}
  PROVE  KeysInv' /\ keyOf' \in [Requests -> Keys \cup {NoKey, None}]
  <1> DEFINE r == requests + 1
  <1>0. /\ requests \in Nat /\ r \in Requests /\ None \notin Requests /\ None \notin Keys
        /\ keyOf \in [Requests -> Keys \cup {NoKey, None}] /\ KeysInv
    BY ExecutionConstants DEF ExecutionInv, TypeOK, Requests
  <1>1. keyOf' \in [Requests -> Keys \cup {NoKey, None}]
    BY <1>0
  <1>2. CASE x'.keys = x.keys /\ keyOf' = keyOf
    <2>1. \A q \in Requests : q > requests + 1 => q > requests
      BY <1>0 DEF Requests
    <2> QED
      BY <1>0, <1>1, <1>2, <2>1 DEF KeysInv
  <1>3. CASE /\ x.keys[key] = None
             /\ \A k \in Keys : x'.keys[k] = IF k = key THEN r ELSE x.keys[k]
             /\ keyOf' \in {keyOf, [keyOf EXCEPT ![r] = key]}
    <2> SUFFICES ASSUME NEW q \in Requests
                 PROVE  /\ keyOf'[q] \in Keys => x'.keys[keyOf'[q]] = q
                        /\ q > r => keyOf'[q] = None
      BY <1>1 DEF KeysInv
    <2>1. CASE keyOf'[q] = keyOf[q]
      <3>1. keyOf[q] \in Keys => x.keys[keyOf[q]] = q /\ keyOf[q] # key
        BY <1>0, <1>3 DEF KeysInv
      <3>2. q > r => q > requests
        BY <1>0 DEF Requests
      <3> QED
        BY <1>0, <1>3, <2>1, <3>1, <3>2 DEF KeysInv
    <2>2. CASE q = r /\ keyOf'[q] = key
      BY <1>0, <1>3, <2>2
    <2> QED
      BY <1>0, <1>3, <2>1, <2>2
  <1> QED
    BY <1>1, <1>2, <1>3

LEMMA RequestKeeps ==
  ASSUME ExecutionInv,
         WellTyped(x'), Safe(x', stream', shell', lost', confirmed, requests + 1),
         requests < MaxRequests, requests' = requests + 1,
         UNCHANGED <<connected, confirmed, disturbances>>,
         armed' \in BOOLEAN, stream' \in Seq(Events), shell' \in Shells, lost' \subseteq Requests,
         KeysInv', keyOf' \in [Requests -> Keys \cup {NoKey, None}]
  PROVE  ExecutionInv'
  <1>1. requests' \in 0 .. MaxRequests
    BY ExecutionConstants DEF ExecutionInv, TypeOK
  <1>2. TypeOK'
    BY <1>1 DEF ExecutionInv, TypeOK, Shells
  <1>3. SafeNow'
    BY DEF SafeNow
  <1> QED
    BY <1>2, <1>3 DEF ExecutionInv

\* A request that starts no command: it joins one, or is refused.
LEMMA RefusedStep ==
  ASSUME ExecutionInv, NEW o \in Offers, NEW written \in BOOLEAN, Execute(o, written),
         ~(x.keys[o.key] = None /\ connected /\ ~Busy(x))
  PROVE  ExecutionInv'
  <1> DEFINE r == requests + 1
             s == [x EXCEPT !.open = @ \cup {r}]
             new == Registered(s, r, o.key, o.caller)
  <1>0. /\ WellTyped(x) /\ Safe(x, stream, shell, lost, confirmed, requests)
        /\ requests \in Nat /\ r \in Requests /\ o.key \in Keys \cup {NoKey}
        /\ requests < MaxRequests /\ requests' = r
        /\ UNCHANGED <<connected, confirmed, disturbances>>
    BY TypesNow, ExecutionConstants DEF Execute, Requests
  <1>1. WellTyped(s) /\ SameCore(x, s) /\ s.keys = x.keys
    BY <1>0, OpenCore
  <1> HIDE DEF s
  <1>2. ~(Replayable(s, o.key) /\ ~Refused(s))
    BY <1>1 DEF Replayable, Refused, Busy, SameCore
  <1>3. /\ stream' = stream /\ shell' = shell /\ keyOf' = keyOf /\ lost' = lost
        /\ armed' \in BOOLEAN
        /\ \/ x' = Join(s, r, s.keys[o.key])
           \/ Replayable(s, o.key) /\ x' = Conclude(new, r, {r})
    BY <1>2, TypesNow DEF Execute, s
  <1>4. /\ WellTyped(new) /\ SameCore(s, new)
        /\ \A k \in Keys : new.keys[k] = IF k = o.key THEN r ELSE s.keys[k]
    BY <1>0, <1>1, RegisteredCore
  <1> HIDE DEF new
  <1>5. /\ WellTyped(x') /\ SameCore(x, x')
        /\ \/ x'.keys = x.keys
           \/ /\ x.keys[o.key] = None
              /\ \A k \in Keys : x'.keys[k] = IF k = o.key THEN r ELSE x.keys[k]
    <2>1. CASE x' = Join(s, r, s.keys[o.key])
      <3>1. WellTyped(x') /\ SameCore(s, x') /\ x'.keys = s.keys
        BY <1>0, <1>1, <2>1, JoinCore
      <3> QED
        BY <1>1, <3>1 DEF SameCore
    <2>2. CASE Replayable(s, o.key) /\ x' = Conclude(new, r, {r})
      <3>1. WellTyped(x') /\ SameCore(new, x') /\ x'.keys = new.keys
        BY <1>0, <1>4, <2>2, ConcludeCore
      <3> QED
        BY <1>1, <1>4, <2>2, <3>1 DEF SameCore, Replayable
    <2> QED
      BY <1>3, <2>1, <2>2
  <1>6. Safe(x', stream, shell, lost, confirmed, requests + 1)
    <2>1. Safe(x', stream, shell, lost, confirmed, requests)
      BY <1>0, <1>5, SameCoreSafe
    <2> QED
      BY <1>0, <2>1, MoreRequests
  <1>7. KeysInv' /\ keyOf' \in [Requests -> Keys \cup {NoKey, None}]
    BY <1>0, <1>3, <1>5, KeysStep
  <1> QED
    BY <1>0, <1>3, <1>5, <1>6, <1>7, RequestKeeps, TypesNow

\* A request that starts a command.
LEMMA StartStep ==
  ASSUME ExecutionInv, NEW o \in Offers, NEW written \in BOOLEAN, Execute(o, written),
         x.keys[o.key] = None, connected, ~Busy(x)
  PROVE  ExecutionInv'
  <1> DEFINE r == requests + 1
             s == [x EXCEPT !.open = @ \cup {r}]
             new == Registered(s, r, o.key, o.caller)
             m == Inserted(new, r, o.kind, o.caller)
             after == IF written THEN m ELSE Finish(m, r, "failed", None)
             bd == <<Event("boundary", r, None)>>
             su == stream \o bd
             c == [id |-> r, kind |-> o.kind]
             lp == lost \cup {r}
  <1>0. /\ WellTyped(x) /\ Safe(x, stream, shell, lost, confirmed, requests)
        /\ requests \in Nat /\ r \in Requests /\ o.key \in Keys \cup {NoKey}
        /\ o.kind \in Kinds /\ o.caller \in Callers
        /\ requests < MaxRequests /\ requests' = r
        /\ UNCHANGED <<connected, confirmed, disturbances>>
    BY TypesNow, ExecutionConstants DEF Execute, Requests
  <1>a. stream \in Seq(Events) /\ shell \in Shells /\ lost \subseteq Requests /\ OneByOne(shell)
    BY TypesNow DEF Safe
  <1>1. WellTyped(s) /\ SameCore(x, s) /\ s.keys = x.keys
    BY <1>0, OpenCore
  <1> HIDE DEF s
  <1>2. Replayable(s, o.key) /\ ~Refused(s)
    BY <1>1 DEF Replayable, Refused, Busy, SameCore
  <1>3. /\ x' = IF o.caller = "async" THEN Conclude(after, r, {r}) ELSE after
        /\ armed' = TRUE /\ keyOf' = [keyOf EXCEPT ![r] = o.key]
        /\ lost' = IF ~written \/ o.kind = "raw" THEN lp ELSE lost
        /\ ~written => o.kind # "background"
        /\ o.kind # "background" /\ written => Type(c, bd)
        /\ o.kind # "background" /\ ~written => stream' = su /\ shell' = shell
        /\ o.kind = "background" => stream' = stream /\ shell' = shell
    BY <1>2 DEF Execute, s
  <1>4. /\ WellTyped(new) /\ SameCore(s, new)
        /\ \A k \in Keys : new.keys[k] = IF k = o.key THEN r ELSE s.keys[k]
    BY <1>0, <1>1, RegisteredCore
  <1> HIDE DEF new
  <1>5. Safe(new, stream, shell, lost, confirmed, requests) /\ new.task = None /\ new.recovery = None
    <2>1. SameCore(x, new)
      BY <1>1, <1>4 DEF SameCore
    <2>2. Safe(new, stream, shell, lost, confirmed, requests)
      BY <1>0, <2>1, SameCoreSafe
    <2> QED
      BY <2>1, <2>2 DEF SameCore, Busy
  <1>6. /\ WellTyped(m) /\ m.retired = new.retired /\ m.recovery = None /\ m.keys = new.keys
        /\ m.task # None /\ m.task.id = r /\ m.task.kind = o.kind /\ ~m.task.begun
        /\ m.task.phase = "wait"
        /\ DOMAIN m.jobs = DOMAIN new.jobs \cup {r} /\ m.jobs[r] = NewJob(o.kind)
        /\ \A i \in DOMAIN new.jobs : i # r => m.jobs[i] = new.jobs[i]
    BY <1>0, <1>4, <1>5, InsertedCore
  <1> HIDE DEF m
  <1>7. /\ m.jobs[r].kind = m.task.kind /\ ~m.jobs[r].finished /\ m.jobs[r].output = {}
        /\ m.jobs[r].process = "notStarted"
        /\ \A i \in DOMAIN new.jobs : m.jobs[i] = new.jobs[i]
    <2>1. r \notin DOMAIN new.jobs
      BY <1>0, <1>5 DEF Safe, Fresh
    <2> QED
      BY <1>6, <2>1 DEF NewJob
  <1>8. ASSUME NEW lq, lost \subseteq lq, o.kind = "background" \/ r \in lq
        PROVE  /\ Safe(m, stream, shell, lq, confirmed, r)
               /\ r \notin Ids(shell) /\ \A k \in DOMAIN stream : stream[k].id # r
    <2>1. r = requests + 1 /\ requests \in Nat
      BY <1>0
    <2>2. m.task.kind = "background" \/ r \in lq
      BY <1>6, <1>8
    <2>3. Starts(new, m, r)
      BY <1>6, <1>7 DEF Starts
    <2>4. r \notin Ids(shell) /\ \A k \in DOMAIN stream : stream[k].id # r
      BY <1>0 DEF Safe, Fresh
    <2> HIDE DEF r
    <2>5. Safe(m, stream, shell, lq, confirmed, r)
      BY <1>5, <1>8, <2>1, <2>2, <2>3, TaskInserted
    <2> QED
      BY <2>4, <2>5
  <1>9. Keeps(m, after, stream', shell', lost', confirmed, r)
        /\ stream' \in Seq(Events) /\ shell' \in Shells /\ lost' \subseteq Requests
    <2>1. CASE o.kind = "background"
      <3>1. after = m /\ stream' = stream /\ shell' = shell /\ lost' = lost
        BY <1>3, <2>1
      <3> QED
        BY <1>6, <1>8, <1>a, <2>1, <3>1 DEF Keeps
    <2>2. CASE o.kind # "background"
      <3>1. /\ Safe(m, stream, shell, lp, confirmed, r)
            /\ r \notin Ids(shell) /\ \A k \in DOMAIN stream : stream[k].id # r
        BY <1>8
      <3>2. r \in Nat /\ r \in lp /\ lp \subseteq Requests /\ lost \subseteq lp
        BY <1>0, <1>a
      <3> HIDE DEF r, lp
      <3>3. /\ su \in Seq(Events) /\ Safe(m, su, shell, lp, confirmed, r)
            /\ Ahead(su, "boundary", r)
            /\ \A k \in DOMAIN su : su[k].id = r => su[k].type = "boundary" /\ k = Len(su)
        BY <1>6, <1>a, <3>1, <3>2, BoundarySet
      <3> HIDE DEF su
      <3>4. CASE ~written
        <4>1. after = Finish(m, r, "failed", None) /\ stream' = su /\ shell' = shell /\ lost' = lp
          BY <1>3, <2>2, <3>4
        <4>2. Keeps(m, Finish(m, r, "failed", None), su, shell, lp, confirmed, r)
          BY <1>6, <3>3, FinishKeeps
        <4> QED
          BY <1>a, <3>2, <3>3, <4>1, <4>2
      <3>5. CASE written
        <4>1. c \in Commands /\ c.id = r /\ c.kind = m.task.kind /\ c.kind = o.kind
          BY <1>0, <1>6, <2>2 DEF Commands, Kinds, r
        <4> HIDE DEF c
        <4>2. /\ lp \ {r} \subseteq lost' /\ (c.kind = "raw" => r \in lost') /\ lost' \subseteq Requests
          BY <1>3, <1>a, <3>2, <3>5, <4>1 DEF lp
        <4>3. Safe(m, su \o TypedOutput(shell, c), AfterTyping(shell, c), lost', confirmed, r)
          <5> DEFINE lq == lost'
          <5>1. lp \ {r} \subseteq lq /\ (c.kind = "raw" => r \in lq)
            BY <4>2
          <5>2. m.jobs[r].process # "exited"
            BY <1>7
          <5> HIDE DEF lq
          <5>3. Safe(m, su \o TypedOutput(shell, c), AfterTyping(shell, c), lq, confirmed, r)
            BY <1>6, <1>a, <3>1, <3>2, <3>3, <4>1, <5>1, <5>2, CommandTyped
          <5> QED
            BY <5>3 DEF lq
        <4>4. TypedOutput(shell, c) \in Seq(Events) /\ AfterTyping(shell, c) \in Shells
          BY <1>a, <3>1, <4>1, TypedEvents, ShellTyped
        <4>5. stream' = su \o TypedOutput(shell, c) /\ shell' = AfterTyping(shell, c)
          <5>1. Type(c, bd)
            BY <1>3, <2>2, <3>5
          <5>2. su \o <<>> = su
            BY <3>3
          <5> QED
            BY <5>1, <5>2 DEF Type, TypedOutput, AfterTyping, su
        <4>6. stream' \in Seq(Events)
          BY <3>3, <4>4, <4>5
        <4>7. after = m
          BY <3>5
        <4> QED
          BY <1>6, <4>2, <4>3, <4>4, <4>5, <4>6, <4>7 DEF Keeps
      <3> QED
        BY <3>4, <3>5
    <2> QED
      BY <2>1, <2>2
  <1> HIDE DEF after
  <1>10. WellTyped(x') /\ SameCore(after, x') /\ x'.keys = after.keys
    <2>1. CASE o.caller = "async"
      BY <1>0, <1>3, <1>9, <2>1, ConcludeCore DEF Keeps
    <2>2. CASE o.caller # "async"
      BY <1>3, <1>9, <2>2 DEF Keeps, SameCore
    <2> QED
      BY <2>1, <2>2
  <1>11. Safe(x', stream', shell', lost', confirmed, r)
    <2> HIDE DEF r
    <2> QED
      BY <1>9, <1>10, SameCoreSafe DEF Keeps
  <1>12. KeysInv' /\ keyOf' \in [Requests -> Keys \cup {NoKey, None}]
    <2>1. \A k \in Keys : x'.keys[k] = IF k = o.key THEN r ELSE x.keys[k]
      BY <1>1, <1>4, <1>6, <1>9, <1>10 DEF Keeps
    <2> QED
      BY <1>0, <1>3, <2>1, KeysStep
  <1> QED
    BY <1>0, <1>3, <1>9, <1>10, <1>11, <1>12, RequestKeeps

-----------------------------------------------------------------------------
(* The theorems.                                                           *)

LEMMA ExecutionInit == Init => ExecutionInv
  <1> SUFFICES ASSUME Init
               PROVE  ExecutionInv
    OBVIOUS
  <1> DEFINE sh == [running |-> None, queue |-> <<>>]
  <1>1. /\ x.task = None /\ x.draining = None /\ x.retired = {} /\ x.recovery = None
        /\ x.jobs = [i \in {} |-> NewJob("marked")]
        /\ x.keys = [key \in Keys \cup {NoKey} |-> None] /\ x.result = [op \in Requests |-> "none"]
        /\ x.waiters = [op \in {} |-> {}] /\ x.open = {}
    BY DEF Init
  <1>2. WellTyped(x)
    BY DEF Init, WellTyped
  <1>3. /\ armed = FALSE /\ connected = TRUE /\ stream = <<>> /\ shell = sh
        /\ keyOf = [r \in Requests |-> None] /\ confirmed = {} /\ lost = {}
        /\ requests = 0 /\ disturbances = 0
    BY DEF Init
  <1>4. TypeOK
    <2>1. <<>> \in Seq(Events) /\ <<>> \in Seq(Commands)
      OBVIOUS
    <2>2. 0 \in 0 .. MaxRequests /\ 0 \in 0 .. MaxDisturbances
      BY ExecutionConstants
    <2> QED
      BY <1>2, <1>3, <2>1, <2>2 DEF TypeOK
  <1>5. SafeNow
    <2>1. DOMAIN x.jobs = {}
      BY <1>1
    <2>2. Safe(x, <<>>, sh, lost, confirmed, 0)
      BY <1>1, <2>1, EmptySafe
    <2> QED
      BY <1>3, <2>2 DEF SafeNow
  <1>6. KeysInv
    BY <1>3, ExecutionConstants DEF KeysInv
  <1> QED
    BY <1>4, <1>5, <1>6 DEF ExecutionInv

LEMMA ExecutionStep == ExecutionInv /\ [Next]_vars => ExecutionInv'
  <1> SUFFICES ASSUME ExecutionInv, [Next]_vars
               PROVE  ExecutionInv'
    OBVIOUS
  <1>1. ASSUME NEW o \in Offers, NEW written \in BOOLEAN, Execute(o, written)
        PROVE  ExecutionInv'
    BY <1>1, RefusedStep, StartStep
  <1>2. ASSUME NEW r \in Requests, CancelRequest(r)
        PROVE  ExecutionInv'
    BY <1>2, CancelStep
  <1>3. ASSUME NEW id \in Requests, StopJob(id)
        PROVE  ExecutionInv'
    BY <1>3, StopStep
  <1>4. CASE UNCHANGED vars
    BY <1>4 DEF vars, history, ExecutionInv, TypeOK, SafeNow, KeysInv
  <1> QED
    BY <1>1, <1>2, <1>3, <1>4, BackgroundStep, ProcessStep, DropStep, PollStep, DisconnectStep,
       ShellEndsStep, TypeLineStep, InterruptStep, ConfirmStep DEF Next, Client

\* Every state of the executor, its stream, the shell and the ledger has its type
\* (TerminalExecutionState, TerminalTask, TerminalJob, RetiredCaptureFilter).
THEOREM ExecutionTypeCorrect == Spec => []TypeOK
  <1>1. ExecutionInv => TypeOK
    BY DEF ExecutionInv
  <1> QED
    BY <1>1, ExecutionInit, ExecutionStep, PTL DEF Spec

\* InShell is the set of identifiers of the shell's lines.
LEMMA InShellIds == InShell = Ids(shell)
  BY DEF InShell, Ids, Lines

\* A set whose members are all equal has at most one.
LEMMA AtMostOne ==
  ASSUME NEW S, \A a, b \in S : a = b
  PROVE  Cardinality(S) <= 1
  <1>1. CASE S = {}
    BY <1>1, FS_EmptySet
  <1>2. CASE S # {}
    <2>1. PICK a \in S : TRUE
      BY <1>2
    <2>2. S = {a}
      BY <2>1
    <2>3. Cardinality({a}) = 1
      BY FS_Singleton, Zenon
    <2> QED
      BY <2>2, <2>3
  <1> QED
    BY <1>1, <1>2

\* However requests, timeouts, cancellations, lost output, takeovers and interrupts
\* interleave, at most one command of the agents is in the shell, beyond those the
\* user declared recovered: what is there has the task or the recovery guard, which
\* exclude each other (busy, finish).
THEOREM CommandsOneAtATime == Spec => []OneCommandInShell
  <1>1. ASSUME ExecutionInv
        PROVE  OneCommandInShell
    <2> DEFINE S == InShell \ (confirmed \cup {User})
               a == IF x.recovery = None THEN x.task.id ELSE x.recovery
    <2>1. Guarded(x, shell, confirmed) /\ TaskInv(x) /\ Fresh(x, stream, shell, requests)
      BY <1>1 DEF ExecutionInv, SafeNow, Safe
    <2>2. ASSUME NEW b \in S
          PROVE  b = a
      <3>1. Watched(x, b) /\ b \in 0 .. requests
        BY <2>1, <2>2, InShellIds DEF Guarded, Fresh
      <3>2. b # None
        BY <3>1, ExecutionConstants
      <3> QED
        BY <2>1, <3>1, <3>2 DEF Watched, TaskInv
    <2> HIDE DEF S, a
    <2>3. \A b, c \in S : b = c
      BY <2>2
    <2>4. Cardinality(S) <= 1
      BY <2>3, AtMostOne
    <2> QED
      BY <2>4 DEF OneCommandInShell, S
  <1> QED
    BY <1>1, ExecutionInit, ExecutionStep, PTL DEF Spec

\* A job that reports an exit has left the shell: only an end marker with its own
\* identifier counts, and it is printed when the command ends (process_output,
\* observe_late_job_end).
THEOREM ReportedExitIsReal == Spec => []ExitIsReal
  <1>1. ExecutionInv => ExitIsReal
    BY InShellIds DEF ExecutionInv, SafeNow, Safe, Ended, ExitIsReal
  <1> QED
    BY <1>1, ExecutionInit, ExecutionStep, PTL DEF Spec

\* The recovery guard stays only while the end of its command is to come, or lost:
\* its filter is the newest and is never the one that gives way (Retire).
THEOREM GuardIsReleased == Spec => []GuardNotStuck
  <1>1. ExecutionInv => GuardNotStuck
    BY InShellIds DEF ExecutionInv, SafeNow, Safe, Guard, ToCome, Ahead, Prints, GuardNotStuck
  <1> QED
    BY <1>1, ExecutionInit, ExecutionStep, PTL DEF Spec

\* Nothing but the command's own text is in the output of its job, whatever ran
\* before, came late or was typed by the user (begin_capture, append_job_output,
\* note_manual_takeover).
THEOREM OutputBelongsToJob == Spec => []OutputIsOwn
  <1>1. ExecutionInv => OutputIsOwn
    BY DEF ExecutionInv, SafeNow, Safe, Own, OutputIsOwn
  <1> QED
    BY <1>1, ExecutionInit, ExecutionStep, PTL DEF Spec

\* A key starts at most one command: the ledger keeps the request it is registered
\* for when the operation is refused, joined, complete or expired
\* (IdempotencyLedger::begin).
THEOREM KeyStartsOnce == Spec => []OncePerKey
  <1>1. ASSUME ExecutionInv
        PROVE  OncePerKey
    <2> SUFFICES ASSUME NEW key \in Keys
                 PROVE  Cardinality({r \in Requests : keyOf[r] = key}) <= 1
      BY DEF OncePerKey
    <2> DEFINE S == {r \in Requests : keyOf[r] = key}
    <2>1. \A r \in S : r = x.keys[key]
      BY <1>1 DEF ExecutionInv, KeysInv
    <2> HIDE DEF S
    <2>2. \A r, q \in S : r = q
      BY <2>1
    <2>3. Cardinality(S) <= 1
      BY <2>2, AtMostOne
    <2> QED
      BY <2>3 DEF S
  <1> QED
    BY <1>1, ExecutionInit, ExecutionStep, PTL DEF Spec
=============================================================================
