------------------------- MODULE TaskAdoptionProofs -------------------------
(***************************************************************************)
(* What holds of one task row, for every number of replicas, goroutines,   *)
(* attempts, requests and faults.                                          *)
(*                                                                         *)
(* Four invariants, each resting on the ones before it: what an object     *)
(* can look like (TaskInv), who executes (LeaseInv), how many attempts     *)
(* were started (AttemptInv) and why a task ends as cancelled (DemandInv). *)
(***************************************************************************)
EXTENDS TaskAdoption, TLAPS

------------------------------------------------------------------------------
(* Shapes                                                                   *)

\* A task object.  One that has ended is due: BackoffEnds has no business there.
IsTask(t) ==
    /\ DOMAIN t = {"status", "attempts", "cur", "due"}
    /\ t.status \in Statuses /\ t.attempts \in Nat
    /\ t.status \in Terminal => t.due = TRUE

RowShape ==
    /\ DOMAIN row = {"task", "owner", "fresh", "exists"}
    /\ IsTask(row.task)
    /\ row.exists \in BOOLEAN /\ row.fresh \in BOOLEAN
    /\ ~ row.exists => row.task.status = "pending"

Pcs == {"idle", "attempt", "create", "link", "wait", "unlink", "settle", "release"}
Outcomes == {"ok", "cancelled", "request cancelled", "timed out", "stopped", "error"}

ExecShape ==
    /\ DOMAIN exec = Execs
    /\ \A x \in Execs :
         /\ DOMAIN exec[x] = {"pc", "on", "task", "rid", "ctx", "why"}
         /\ exec[x].pc \in Pcs /\ IsTask(exec[x].task)
         /\ exec[x].pc # "idle" => exec[x].on \in Replicas
         /\ exec[x].pc = "idle" => exec[x] = Idle
         /\ exec[x].pc \notin {"idle", "release"} => exec[x].task.due = TRUE
         /\ exec[x].pc \in {"unlink", "settle"} => exec[x].why \in Outcomes

CacheShape ==
    /\ DOMAIN tasks = Replicas /\ DOMAIN mirror = Replicas /\ DOMAIN proc = Replicas
    /\ \A r \in Replicas : /\ tasks[r] \in {None, r} \cup Execs
                           /\ tasks[r] \in Execs => exec[tasks[r]].on = r
                           /\ IsTask(mirror[r])
    /\ \A x \in Execs : exec[x].pc # "idle" => proc[exec[x].on] # "down"

CancelShape ==
    /\ DOMAIN cancel = {"pc", "on", "durable", "task", "held", "rid", "stop"}
    /\ IsTask(cancel.task)
    /\ IF cancel.pc = "idle" THEN cancel = NoCancel ELSE cancel.on \in Replicas
    /\ \A x \in Execs : x \in {cancel.held, cancel.stop} => exec[x].on = cancel.on

\* The executions entry of a replica names a goroutine that runs there.
EntryShape ==
    /\ DOMAIN entry = Replicas
    /\ \A r \in Replicas : /\ DOMAIN entry[r] = {"by", "rid"}
                           /\ \A x \in Execs : entry[r].by = x => exec[x].on = r

Kinds == {"write", "crash", "lapse", "cleanup"}
CountShape ==
    /\ DOMAIN count = Kinds \cup {"created"}
    /\ count.created \in Nat /\ \A k \in Kinds : count[k] \in Nat

\* Everything there is stems from the one CreateTask.
Uncreated ==
    count.created = 0 =>
        /\ ~ row.exists /\ cancel.pc = "idle"
        /\ \A x \in Execs : exec[x].pc = "idle"
        /\ \A r \in Replicas : tasks[r] = None /\ mirror[r].status = "pending"

TaskInv == RowShape /\ ExecShape /\ CacheShape /\ CancelShape /\ EntryShape /\ CountShape /\ Uncreated

\* What executeTask and CancelTask make of an object is an object again.
LEMMA TaskUpdates ==
    ASSUME NEW t, IsTask(t), NEW rid
    PROVE  /\ \A s \in Statuses : IsTask([t EXCEPT !.status = s, !.due = TRUE])
           /\ IsTask([t EXCEPT !.attempts = @ + 1, !.status = "running", !.due = TRUE])
           /\ IsTask([t EXCEPT !.cur = rid])
           /\ IsTask([t EXCEPT !.status = "pending", !.due = FALSE])
           /\ t.due = TRUE => IsTask([t EXCEPT !.status = "failed"])
           /\ IsTask(NewTask) /\ IsTask(Cancelled(t))
BY DEF IsTask, NewTask, Cancelled, Statuses, Terminal

\* The effect of SaveTask on the row.
LEMMA Saved ==
    ASSUME RowShape, NEW t, IsTask(t), row' = SaveTask(t)
    PROVE  /\ RowShape' /\ row'.exists
           /\ row.exists => row'.owner = row.owner /\ (row.fresh => row'.fresh)
           /\ row.exists /\ row.task.status \in Terminal => row' = row
           /\ ~ (row.exists /\ row.task.status \in Terminal) => row'.task = t
BY Zenon DEF RowShape, SaveTask

\* A fault is counted under its kind, and nothing else is.
CountedOnly(kind) ==
    /\ CountShape' /\ count'.created = count.created
    /\ \A k \in Kinds : count'[k] = IF k = kind THEN count[k] + 1 ELSE count[k]

LEMMA FaultCounted ==
    ASSUME CountShape
    PROVE  /\ Faulty("write") => CountedOnly("write")
           /\ Faulty("crash") => CountedOnly("crash")
           /\ Faulty("lapse") => CountedOnly("lapse")
           /\ Faulty("cleanup") => CountedOnly("cleanup")
<1>1. Faulty("write") => CountedOnly("write")
  BY DEF CountShape, Faulty, Kinds, CountedOnly
<1>2. Faulty("crash") => CountedOnly("crash")
  BY DEF CountShape, Faulty, Kinds, CountedOnly
<1>3. Faulty("lapse") => CountedOnly("lapse")
  BY DEF CountShape, Faulty, Kinds, CountedOnly
<1>4. Faulty("cleanup") => CountedOnly("cleanup")
  BY DEF CountShape, Faulty, Kinds, CountedOnly
<1> QED BY Zenon, <1>1, <1>2, <1>3, <1>4

\* A step of the goroutine x up to its release: it moves on with its object, and
\* what it writes to the row, if anything, is that object.
Works(x) ==
    LET e == exec[x]
        f == exec'[x]
    IN  /\ e.pc \notin {"idle", "release"} /\ exec' = [exec EXCEPT ![x] = f]
        /\ DOMAIN f = DOMAIN e /\ f.pc \in Pcs \ {"idle", "attempt"} /\ f.on = e.on /\ f.ctx = e.ctx
        /\ IsTask(f.task) /\ (f.pc # "release" => f.task.due = TRUE)
        /\ f.pc \in {"unlink", "settle"} => f.why \in Outcomes
        /\ \/ f.task.attempts = e.task.attempts
           \/ f.task.attempts = e.task.attempts + 1 /\ e.pc = "attempt" /\ e.ctx = "live"
        /\ \/ persistTask(f.task)
           \/ UNCHANGED <<row, count>> /\ f.task = e.task
        /\ DOMAIN entry' = Replicas
        /\ \A r \in Replicas : DOMAIN entry'[r] = {"by", "rid"} /\ entry'[r].by = entry[r].by
        /\ UNCHANGED <<proc, tasks, mirror, cancel, asked>>

\* Goto moves x and leaves its replica and its context alone.
LEMMA GotoWorks ==
    ASSUME ExecShape, NEW x \in Execs, NEW pc, NEW t, NEW why, Goto(x, pc, t, why)
    PROVE  /\ exec' = [exec EXCEPT ![x] = exec'[x]]
           /\ DOMAIN exec'[x] = DOMAIN exec[x] /\ exec'[x].pc = pc /\ exec'[x].task = t
           /\ exec'[x].why = why /\ exec'[x].on = exec[x].on /\ exec'[x].ctx = exec[x].ctx
           /\ pc # "settle" => exec'[x].rid = exec[x].rid
BY Zenon DEF ExecShape, Goto

LEMMA StartAttemptWorks ==
    ASSUME TaskInv, NEW x \in Execs, StartAttempt(x)
    PROVE  Works(x)
<1> DEFINE e == exec[x]
           t == [e.task EXCEPT !.attempts = @ + 1, !.status = "running", !.due = TRUE]
<1>1. /\ ExecShape /\ IsTask(e.task) /\ e.task.due = TRUE /\ e.pc = "attempt"
      /\ UNCHANGED <<proc, tasks, mirror, cancel, asked>>
      /\ DOMAIN entry' = Replicas
      /\ \A r \in Replicas : DOMAIN entry'[r] = {"by", "rid"} /\ entry'[r].by = entry[r].by
  BY Zenon DEF TaskInv, ExecShape, EntryShape, StartAttempt
<1>2. IsTask(t) /\ t.attempts = e.task.attempts + 1 /\ t.due = TRUE
  BY Zenon, <1>1, TaskUpdates DEF IsTask
<1>3. CASE /\ Goto(x, "create", t, "none") /\ persistTask(t) /\ e.ctx = "live"
  <2> HIDE DEF t
  <2> QED BY <1>1, <1>2, <1>3, GotoWorks DEF Works, Pcs
<1>4. CASE \E why \in Outcomes : Goto(x, "settle", e.task, why) /\ UNCHANGED <<row, count>>
  BY <1>1, <1>4, GotoWorks DEF Works, Pcs
<1> QED BY Zenon, <1>3, <1>4 DEF StartAttempt, Outcomes

LEMMA CreateRequestWorks ==
    ASSUME TaskInv, NEW x \in Execs, CreateRequest(x)
    PROVE  Works(x)
<1> DEFINE e == exec[x]
<1>1. /\ ExecShape /\ IsTask(e.task) /\ e.task.due = TRUE /\ e.pc = "create"
      /\ UNCHANGED <<row, count, proc, tasks, mirror, cancel, asked>>
  BY Zenon DEF TaskInv, ExecShape, CreateRequest
<1>4. DOMAIN entry' = Replicas /\ \A r \in Replicas : DOMAIN entry'[r] = {"by", "rid"} /\ entry'[r].by = entry[r].by
  <2>1. CASE UNCHANGED entry
    BY Zenon, <2>1 DEF TaskInv, EntryShape
  <2>2. CASE \E i : entry' = [entry EXCEPT ![e.on] = IF @.by = None THEN @ ELSE [@ EXCEPT !.rid = i]]
    BY <2>2 DEF TaskInv, EntryShape
  <2> QED BY Zenon, <2>1, <2>2 DEF CreateRequest
<1>2. CASE \E why \in Outcomes : Goto(x, "settle", e.task, why)
  BY <1>1, <1>2, <1>4, GotoWorks DEF Works, Pcs
<1>3. CASE \E i : exec' = [exec EXCEPT ![x] = [@ EXCEPT !.pc = "link", !.rid = i]]
  BY <1>1, <1>3, <1>4 DEF ExecShape, Works, Pcs
<1> QED BY Zenon, <1>2, <1>3 DEF CreateRequest, Outcomes

\* setCurrentRequestID leaves a cancelled object alone, and else writes it.
LEMMA SetCurrentWorks ==
    ASSUME TaskInv, NEW x \in Execs, NEW rid, NEW why, NEW pc \in {"wait", "settle"},
           exec[x].pc \in {"link", "unlink"}, pc = "settle" => why \in Outcomes, setCurrentRequestID(x, rid, pc, why),
           UNCHANGED <<proc, tasks, mirror, cancel, asked>>, DOMAIN entry' = Replicas,
           \A r \in Replicas : DOMAIN entry'[r] = {"by", "rid"} /\ entry'[r].by = entry[r].by
    PROVE  /\ Works(x) /\ exec'[x].pc = pc /\ exec'[x].why = why
           /\ exec'[x].task.status = exec[x].task.status
           /\ exec'[x].task.attempts = exec[x].task.attempts
<1> DEFINE e == exec[x]
           t == [e.task EXCEPT !.cur = rid]
<1>1. ExecShape /\ IsTask(e.task) /\ e.task.due = TRUE
  BY Zenon DEF TaskInv, ExecShape
<1>2. /\ IsTask(t) /\ t.due = TRUE /\ t.status = e.task.status /\ t.attempts = e.task.attempts
  BY Zenon, <1>1, TaskUpdates DEF IsTask
<1>3. CASE Goto(x, pc, t, why) /\ persistTask(t)
  <2> HIDE DEF t
  <2> QED BY <1>1, <1>2, <1>3, GotoWorks DEF Works, Pcs
<1>4. CASE Goto(x, pc, e.task, why) /\ UNCHANGED <<row, count>>
  BY <1>1, <1>4, GotoWorks DEF Works, Pcs
<1> QED BY Zenon, <1>3, <1>4 DEF setCurrentRequestID

LEMMA ObserveWorks ==
    ASSUME TaskInv, NEW x \in Execs, Observe(x)
    PROVE  Works(x)
<1> DEFINE e == exec[x]
           done == [e.task EXCEPT !.status = "completed", !.due = TRUE]
<1>1. /\ ExecShape /\ IsTask(e.task) /\ e.task.due = TRUE /\ e.pc = "wait"
      /\ UNCHANGED <<proc, tasks, mirror, cancel, asked>>
      /\ DOMAIN entry' = Replicas
      /\ \A r \in Replicas : DOMAIN entry'[r] = {"by", "rid"} /\ entry'[r].by = entry[r].by
  BY Zenon DEF TaskInv, ExecShape, EntryShape, Observe
<1>2. IsTask(done) /\ done.attempts = e.task.attempts /\ done.due = TRUE
  BY <1>1, TaskUpdates DEF IsTask, Statuses, Terminal
<1>3. CASE Goto(x, "unlink", done, "ok") /\ persistTask(done)
  <2> HIDE DEF done
  <2>1. /\ exec' = [exec EXCEPT ![x] = exec'[x]]
        /\ DOMAIN exec'[x] = DOMAIN e /\ exec'[x].pc = "unlink" /\ exec'[x].task = done
        /\ exec'[x].why = "ok" /\ exec'[x].on = e.on /\ exec'[x].ctx = e.ctx
    BY <1>1, <1>3, GotoWorks
  <2> QED BY Zenon, <1>1, <1>2, <1>3, <2>1 DEF Works, Pcs, Outcomes
<1>4. CASE \E why \in Outcomes : Goto(x, "unlink", e.task, why) /\ UNCHANGED <<row, count>>
  BY <1>1, <1>4, GotoWorks DEF Works, Pcs
<1> QED BY Zenon, <1>3, <1>4 DEF Observe, Outcomes

LEMMA DepartWorks ==
    ASSUME TaskInv, NEW x \in Execs, Depart(x)
    PROVE  Works(x)
<1> DEFINE e == exec[x]
<1>1. /\ ExecShape /\ IsTask(e.task) /\ e.task.due = TRUE /\ e.pc = "wait"
      /\ UNCHANGED <<row, proc, tasks, mirror, cancel, asked>>
      /\ UNCHANGED count \/ Faulty("write")
      /\ DOMAIN entry' = Replicas
      /\ \A r \in Replicas : DOMAIN entry'[r] = {"by", "rid"} /\ entry'[r].by = entry[r].by
  BY Zenon DEF TaskInv, ExecShape, EntryShape, Depart
<1>2. PICK why \in Outcomes : Goto(x, "unlink", e.task, why)
  BY Zenon DEF Depart, Outcomes
<1> QED BY <1>1, <1>2, GotoWorks DEF Works, Pcs, persistTask

\* What Settle can do with the object of x: leave it, or write an outcome or the
\* wait for another attempt.
LEMMA SettleCases ==
    ASSUME ExecShape, NEW x \in Execs, Settle(x)
    PROVE  \/ Leave(x)
           \/ \E s \in {"failed", "cancelled"} : Finish(x, [exec[x].task EXCEPT !.status = s, !.due = TRUE])
           \/ Finish(x, [exec[x].task EXCEPT !.status = "failed"])
           \/ /\ Finish(x, [exec[x].task EXCEPT !.status = "pending", !.due = FALSE])
              /\ ~ (exec[x].task.attempts >= MaxAttempts)
<1>1. exec[x].why \in Outcomes
  BY Zenon DEF ExecShape, Settle
<1>2. \/ Leave(x) \/ updateTaskWithCancelled(x) \/ updateTaskWithError(x) \/ Retry(x)
  BY Zenon, <1>1 DEF Settle, Outcomes
<1> QED BY Zenon, <1>2 DEF updateTaskWithCancelled, updateTaskWithError, Retry

LEMMA SettleWorks ==
    ASSUME TaskInv, NEW x \in Execs, Settle(x)
    PROVE  Works(x) /\ exec'[x].pc = "release"
<1> DEFINE e == exec[x]
<1>1. /\ ExecShape /\ IsTask(e.task) /\ e.task.due = TRUE /\ e.pc = "settle"
      /\ UNCHANGED <<proc, tasks, mirror, cancel, asked>>
      /\ DOMAIN entry' = Replicas
      /\ \A r \in Replicas : DOMAIN entry'[r] = {"by", "rid"} /\ entry'[r].by = entry[r].by
  BY Zenon DEF TaskInv, ExecShape, EntryShape, Settle
<1>2. CASE Leave(x)
  BY <1>1, <1>2, GotoWorks DEF Works, Pcs, Leave
<1>3. ASSUME NEW t, IsTask(t), t.attempts = e.task.attempts, Finish(x, t)
      PROVE  Works(x) /\ exec'[x].pc = "release"
  BY <1>1, <1>3, GotoWorks DEF Works, Pcs, Finish
<1>4. ASSUME NEW s \in {"failed", "cancelled"}, Finish(x, [e.task EXCEPT !.status = s, !.due = TRUE])
      PROVE  Works(x) /\ exec'[x].pc = "release"
  <2>1. /\ IsTask([e.task EXCEPT !.status = s, !.due = TRUE])
        /\ [e.task EXCEPT !.status = s, !.due = TRUE].attempts = e.task.attempts
    BY <1>1, TaskUpdates DEF IsTask, Statuses
  <2> QED BY Zenon, <1>3, <1>4, <2>1
<1>5. CASE Finish(x, [e.task EXCEPT !.status = "failed"])
  <2>1. /\ IsTask([e.task EXCEPT !.status = "failed"])
        /\ [e.task EXCEPT !.status = "failed"].attempts = e.task.attempts
    BY Zenon, <1>1, TaskUpdates DEF IsTask
  <2> QED BY Zenon, <1>3, <1>5, <2>1
<1>6. CASE Finish(x, [e.task EXCEPT !.status = "pending", !.due = FALSE])
  <2>1. /\ IsTask([e.task EXCEPT !.status = "pending", !.due = FALSE])
        /\ [e.task EXCEPT !.status = "pending", !.due = FALSE].attempts = e.task.attempts
    BY Zenon, <1>1, TaskUpdates DEF IsTask
  <2> QED BY Zenon, <1>3, <1>6, <2>1
<1> QED BY Zenon, <1>1, <1>2, <1>4, <1>5, <1>6, SettleCases

\* Every step of a goroutine before its release works on its object.
LEMMA ExecuteWorks ==
    ASSUME TaskInv, NEW x \in Execs, Execute(x)
    PROVE  Works(x) \/ Release(x)
<1>1. CASE Link(x)
  BY Zenon, <1>1, SetCurrentWorks DEF Link, TaskInv, EntryShape
<1>2. CASE Unlink(x)
  <2>1. /\ exec[x].pc = "unlink" /\ setCurrentRequestID(x, None, "settle", exec[x].why)
        /\ UNCHANGED <<proc, tasks, mirror, cancel, asked>>
        /\ entry' = [entry EXCEPT ![exec[x].on] = [@ EXCEPT !.rid = None]]
    BY Zenon, <1>2 DEF Unlink
  <2>2. exec[x].why \in Outcomes
    BY Zenon, <2>1 DEF TaskInv, ExecShape
  <2>3. DOMAIN entry' = Replicas /\ \A r \in Replicas : DOMAIN entry'[r] = {"by", "rid"} /\ entry'[r].by = entry[r].by
    BY <2>1 DEF TaskInv, EntryShape
  <2> QED BY Zenon, <2>1, <2>2, <2>3, SetCurrentWorks
<1> QED BY Zenon, <1>1, <1>2, StartAttemptWorks, CreateRequestWorks, ObserveWorks, DepartWorks, SettleWorks
        DEF Execute

LEMMA TaskInvInit == Init => TaskInv
<1> SUFFICES ASSUME Init PROVE TaskInv
  BY Zenon
<1>1. IsTask(NewTask) /\ NewTask.status = "pending"
  BY Zenon DEF IsTask, NewTask, Statuses, Terminal
<1>2. RowShape
  BY Zenon, <1>1 DEF Init, RowShape, NoRow
<1>3. ExecShape
  BY Zenon, <1>1 DEF Init, ExecShape, Idle, Pcs
<1>4. CacheShape
  BY Zenon, <1>1, TaskAssumption DEF Init, CacheShape, Idle
<1>5. CancelShape
  BY Zenon, <1>1, TaskAssumption DEF Init, CancelShape, NoCancel
<1>6. CountShape /\ EntryShape
  BY TaskAssumption DEF Init, CountShape, Kinds, EntryShape, NoEntry
<1>7. Uncreated
  BY Zenon, <1>1 DEF Init, Uncreated, NoRow, NoCancel, Idle
<1> QED BY Zenon, <1>2, <1>3, <1>4, <1>5, <1>6, <1>7 DEF TaskInv

\* The object a replica answers from is one.
LEMMA ObjectIsTask ==
    ASSUME TaskInv, NEW r \in Replicas
    PROVE  IsTask(Object(r))
BY Zenon DEF TaskInv, ExecShape, CacheShape, Object

\* persistTask writes, or counts a failed write.
LEMMA Persisted ==
    ASSUME RowShape, CountShape, NEW t, IsTask(t), persistTask(t)
    PROVE  /\ RowShape' /\ CountShape' /\ count'.created = count.created
           /\ row.exists => row'.exists
<1>1. CASE row' = SaveTask(t) /\ UNCHANGED count
  BY Zenon, <1>1, Saved DEF CountShape
<1>2. CASE Faulty("write") /\ UNCHANGED row
  BY Zenon, <1>2, FaultCounted DEF CountedOnly, RowShape
<1> QED BY Zenon, <1>1, <1>2 DEF persistTask

LEMMA WorksKeepsTask ==
    ASSUME TaskInv, NEW x \in Execs, Works(x)
    PROVE  TaskInv'
<1> USE DEF TaskInv
<1>1. /\ exec' = [exec EXCEPT ![x] = exec'[x]] /\ exec[x].pc # "idle"
      /\ UNCHANGED <<proc, tasks, mirror, cancel, asked>>
      /\ exec'[x].on = exec[x].on /\ exec'[x].pc # "idle"
  BY Zenon DEF Works, Pcs
<1>2. RowShape' /\ CountShape' /\ count'.created = count.created
  BY Zenon, Persisted DEF Works, RowShape, CountShape
<1>3. ExecShape'
  <2>1. DOMAIN exec' = Execs /\ \A y \in Execs : y # x => exec'[y] = exec[y]
    BY Zenon, <1>1 DEF ExecShape
  <2>2. /\ DOMAIN exec'[x] = {"pc", "on", "task", "rid", "ctx", "why"}
        /\ exec'[x].pc \in Pcs /\ IsTask(exec'[x].task) /\ exec'[x].pc # "idle"
        /\ exec'[x].on \in Replicas
        /\ exec'[x].pc # "release" => exec'[x].task.due = TRUE
        /\ exec'[x].pc \in {"unlink", "settle"} => exec'[x].why \in Outcomes
    BY Zenon DEF Works, ExecShape
  <2> QED BY Zenon, <2>1, <2>2 DEF ExecShape
<1>4. CacheShape'
  BY <1>1 DEF CacheShape, ExecShape
<1>5. CancelShape' /\ EntryShape'
  BY <1>1 DEF CancelShape, EntryShape, ExecShape, Works
<1>6. Uncreated'
  BY Zenon, <1>1, <1>2 DEF Uncreated
<1> QED BY Zenon, <1>2, <1>3, <1>4, <1>5, <1>6

LEMMA ReleaseKeepsTask ==
    ASSUME TaskInv, NEW x \in Execs, Release(x)
    PROVE  TaskInv'
<1> USE DEF TaskInv
<1> DEFINE r == exec[x].on
<1>1. /\ exec[x].pc = "release" /\ r \in Replicas /\ exec' = [exec EXCEPT ![x] = Idle]
      /\ tasks' = [tasks EXCEPT ![r] = IF @ = x THEN r ELSE @] /\ UNCHANGED proc
      /\ mirror' = [mirror EXCEPT ![r] = IF tasks[r] = x THEN exec[x].task ELSE @]
      /\ cancel' = [cancel EXCEPT !.held = IF @ = x THEN r ELSE @, !.stop = IF @ = x THEN None ELSE @]
  BY Zenon DEF Release, Ended, ExecShape
<1>2. RowShape'
  BY Zenon DEF Release, RowShape, ReleaseTaskAdoption
<1>3. CountShape' /\ count'.created = count.created
  BY Zenon, FaultCounted DEF Release, CountShape, CountedOnly
<1>4. ExecShape'
  BY <1>1, TaskUpdates DEF ExecShape, Idle, Pcs, IsTask, NewTask, Statuses, Terminal
<1>5. CacheShape'
  <2>1. IsTask(exec[x].task)
    BY Zenon DEF ExecShape
  <2>2. \A q \in Replicas : IsTask(mirror'[q]) /\ tasks'[q] \in {None, q} \cup Execs
    BY Zenon, <1>1, <2>1 DEF CacheShape
  <2>3. \A q \in Replicas : tasks'[q] \in Execs => exec'[tasks'[q]].on = q
    BY Zenon, <1>1, TaskAssumption DEF CacheShape, ExecShape
  <2>4. \A y \in Execs : exec'[y].pc # "idle" => proc'[exec'[y].on] # "down"
    BY Zenon, <1>1 DEF CacheShape, ExecShape, Idle
  <2> QED BY Zenon, <1>1, <2>2, <2>3, <2>4 DEF CacheShape
<1>6. CancelShape'
  <2>1. CASE cancel.pc = "idle"
    <3>1. cancel = NoCancel /\ x # None
      BY Zenon, <2>1, TaskAssumption DEF CancelShape
    <3>2. cancel' = NoCancel
      BY Zenon, <1>1, <3>1 DEF NoCancel
    <3> QED BY Zenon, <3>1, <3>2, TaskAssumption DEF CancelShape, NoCancel
  <2>2. CASE cancel.pc # "idle"
    BY <1>1, <2>2, TaskAssumption DEF CancelShape, ExecShape
  <2> QED BY Zenon, <2>1, <2>2
<1>7. Uncreated'
  BY Zenon, <1>1, <1>3 DEF Uncreated
<1>8. EntryShape'
  <2>1. entry' = [entry EXCEPT ![r] = NoEntry]
    BY Zenon DEF Release, Ended
  <2> QED BY <1>1, <2>1, TaskAssumption DEF EntryShape, NoEntry, ExecShape
<1> QED BY Zenon, <1>2, <1>3, <1>4, <1>5, <1>6, <1>7, <1>8

LEMMA CreateTaskKeepsTask ==
    ASSUME TaskInv, NEW r \in Replicas, CreateTask(r)
    PROVE  TaskInv'
<1> USE DEF TaskInv
<1>1. IsTask(NewTask) /\ NewTask.status = "pending"
  BY Zenon DEF IsTask, NewTask, Statuses, Terminal
<1>2. RowShape'
  BY Zenon, <1>1, Saved DEF CreateTask
<1>3. ExecShape' /\ CancelShape' /\ EntryShape'
  BY Zenon DEF CreateTask, ExecShape, CancelShape, EntryShape
<1>4. CacheShape'
  BY Zenon, <1>1, TaskAssumption DEF CreateTask, CacheShape
<1>5. CountShape' /\ count'.created = 1
  BY Zenon DEF CreateTask, CountShape, Kinds
<1>6. Uncreated'
  BY <1>5 DEF Uncreated
<1> QED BY Zenon, <1>2, <1>3, <1>4, <1>5, <1>6

LEMMA GetTaskKeepsTask ==
    ASSUME TaskInv, NEW r \in Replicas, GetTaskByID(r)
    PROVE  TaskInv'
<1> USE DEF TaskInv
<1>1. RowShape' /\ ExecShape' /\ CancelShape' /\ EntryShape' /\ CountShape'
  BY Zenon DEF GetTaskByID, RowShape, ExecShape, CancelShape, EntryShape, CountShape
<1>2. CacheShape'
  BY Zenon, TaskAssumption DEF GetTaskByID, CacheShape, RowShape
<1>3. Uncreated'
  BY Zenon DEF GetTaskByID, Uncreated
<1> QED BY Zenon, <1>1, <1>2, <1>3

\* What an adoption does: one idle goroutine takes the row's task.
LEMMA AdoptBy ==
    ASSUME TaskInv, NEW r \in Replicas, Adopt(r)
    PROVE  \E x \in Execs :
               /\ exec[x].pc = "idle"
               /\ exec' = [exec EXCEPT ![x] = [Idle EXCEPT !.pc = "attempt", !.on = r, !.task = row.task]]
               /\ tasks' = [tasks EXCEPT ![r] = x]
               /\ entry' = [entry EXCEPT ![r] = [by |-> x, rid |-> None]]
BY Zenon DEF Adopt, Active

LEMMA AdoptKeepsTask ==
    ASSUME TaskInv, NEW r \in Replicas, Adopt(r)
    PROVE  TaskInv'
<1> USE DEF TaskInv
<1>1. PICK x \in Execs :
          /\ exec[x].pc = "idle"
          /\ exec' = [exec EXCEPT ![x] = [Idle EXCEPT !.pc = "attempt", !.on = r, !.task = row.task]]
          /\ tasks' = [tasks EXCEPT ![r] = x]
          /\ entry' = [entry EXCEPT ![r] = [by |-> x, rid |-> None]]
  BY Zenon, AdoptBy
<1>2. /\ row.exists /\ row.task.due /\ proc[r] = "up" /\ row' = [row EXCEPT !.owner = r, !.fresh = TRUE]
      /\ mirror' = [mirror EXCEPT ![r] = NewTask] /\ UNCHANGED <<proc, cancel, count>>
      /\ row.task.status \notin Terminal
  BY Zenon DEF Adopt, FindAdoptableTasks
<1>3. RowShape' /\ CountShape'
  BY Zenon, <1>2 DEF RowShape, CountShape
<1>4. IsTask(row.task) /\ row.task.due = TRUE
  BY Zenon, <1>2 DEF RowShape
<1>5. ExecShape'
  BY ZenonT(40), <1>1, <1>4 DEF ExecShape, Idle, Pcs
<1>6. CacheShape'
  BY <1>1, <1>2, TaskUpdates, TaskAssumption DEF CacheShape, ExecShape, Idle, IsTask, NewTask, Statuses, Terminal
<1>7. Uncreated'
  BY Zenon, <1>2 DEF Uncreated
<1>8. CancelShape'
  <2>1. x \notin {cancel.held, cancel.stop}
    BY <1>1, TaskAssumption DEF CancelShape, ExecShape, Idle, NoCancel
  <2> QED BY Zenon, <1>1, <1>2, <2>1 DEF CancelShape, ExecShape
<1>9. EntryShape'
  BY <1>1, TaskAssumption DEF EntryShape, ExecShape, Idle
<1> QED BY Zenon, <1>3, <1>5, <1>6, <1>7, <1>8, <1>9

LEMMA CancelTaskKeepsTask ==
    ASSUME TaskInv, NEW r \in Replicas, CancelTask(r)
    PROVE  TaskInv'
<1> USE DEF TaskInv
<1>1. PICK durable \in BOOLEAN :
        /\ durable => row.exists
        /\ ~ durable => tasks[r] # None
        /\ \E rid : cancel' = [pc |-> IF rid = None THEN "mark" ELSE "request", on |-> r, durable |-> durable,
                               task |-> IF durable THEN row.task ELSE Object(r),
                               held |-> tasks[r], rid |-> rid, stop |-> entry[r].by]
        /\ IF durable THEN UNCHANGED count ELSE Faulty("write")
  BY Zenon DEF CancelTask
<1>2. /\ tasks' = [tasks EXCEPT ![r] = IF @ = None THEN r ELSE @]
      /\ mirror' = [mirror EXCEPT ![r] = IF tasks[r] = None THEN row.task ELSE @]
      /\ UNCHANGED <<row, exec, proc>>
  BY Zenon DEF CancelTask
<1>3. RowShape' /\ ExecShape'
  BY Zenon, <1>2 DEF RowShape, ExecShape
<1>4. CountShape' /\ count'.created = count.created
  BY Zenon, <1>1, FaultCounted DEF CountShape, CountedOnly
<1>5. CacheShape'
  BY Zenon, <1>2, TaskAssumption DEF CacheShape, RowShape
<1>6. CancelShape'
  BY <1>1, <1>2, ObjectIsTask, TaskAssumption DEF CancelShape, RowShape, EntryShape, CacheShape
<1>7. Uncreated'
  BY Zenon, <1>1, <1>2, <1>4 DEF Uncreated
<1>8. EntryShape'
  BY DEF CancelTask, EntryShape
<1> QED BY Zenon, <1>3, <1>4, <1>5, <1>6, <1>7, <1>8

LEMMA CleanupKeepsTask ==
    ASSUME TaskInv, NEW r \in Replicas, CleanupOldTasks(r)
    PROVE  TaskInv'
<1> USE DEF TaskInv
<1>1. IsTask(NewTask) /\ NewTask.status = "pending"
  BY Zenon DEF IsTask, NewTask, Statuses, Terminal
<1>2. RowShape'
  BY Zenon, <1>1 DEF CleanupOldTasks, RowShape, NoRow
<1>3. ExecShape' /\ CancelShape' /\ EntryShape'
  BY Zenon DEF CleanupOldTasks, ExecShape, CancelShape, EntryShape
<1>4. CountShape' /\ count'.created = count.created
  BY Zenon, FaultCounted DEF CleanupOldTasks, CountedOnly
<1>5. CacheShape'
  BY Zenon, <1>1, TaskAssumption DEF CleanupOldTasks, CacheShape
<1>6. Uncreated'
  BY <1>1, <1>4 DEF CleanupOldTasks, Uncreated, NoRow
<1> QED BY Zenon, <1>2, <1>3, <1>4, <1>5, <1>6

LEMMA ShutdownKeepsTask ==
    ASSUME TaskInv, NEW r \in Replicas, Shutdown(r)
    PROVE  TaskInv'
<1> USE DEF TaskInv
<1>1. /\ proc' = [proc EXCEPT ![r] = "stopping"] /\ UNCHANGED <<row, tasks, mirror, cancel>>
      /\ exec' = [x \in Execs |->
            IF exec[x].on = r /\ exec[x].ctx = "live" THEN [exec[x] EXCEPT !.ctx = "stopped"] ELSE exec[x]]
  BY Zenon DEF Shutdown
<1>2. RowShape' /\ CancelShape' /\ EntryShape'
  BY <1>1 DEF RowShape, CancelShape, EntryShape, ExecShape, Shutdown
<1>3. ExecShape'
  BY <1>1, TaskAssumption DEF ExecShape, Idle
<1>4. CountShape' /\ count'.created = count.created
  BY Zenon, FaultCounted DEF Shutdown, CountedOnly
<1>5. CacheShape'
  BY <1>1 DEF CacheShape, ExecShape
<1>6. Uncreated'
  BY Zenon, <1>1, <1>4 DEF Uncreated, ExecShape
<1> QED BY Zenon, <1>2, <1>3, <1>4, <1>5, <1>6

\* A process that ends takes its goroutines, its cache and its calls with it.
LEMMA GoneKeepsTask ==
    ASSUME TaskInv, NEW r \in Replicas, Gone(r), CountShape', count'.created = count.created
    PROVE  TaskInv'
<1> USE DEF TaskInv
<1>1. IsTask(NewTask) /\ NewTask.status = "pending"
  BY Zenon DEF IsTask, NewTask, Statuses, Terminal
<1>2. RowShape'
  BY Zenon DEF Gone, RowShape
<1>3. ExecShape'
  BY ZenonT(40), <1>1 DEF Gone, ExecShape, Idle, Pcs
<1>4. CacheShape'
  BY Zenon, <1>1, TaskAssumption DEF Gone, CacheShape, ExecShape, Idle
<1>5. CancelShape'
  BY ZenonT(40), <1>1, TaskAssumption DEF Gone, CancelShape, NoCancel, ExecShape
<1>7. EntryShape'
  BY Zenon, TaskAssumption DEF Gone, EntryShape, NoEntry
<1>6. Uncreated'
  BY <1>1 DEF Gone, Uncreated, NoCancel, Idle
<1> QED BY Zenon, <1>2, <1>3, <1>4, <1>5, <1>6, <1>7

LEMMA ExitKeepsTask ==
    ASSUME TaskInv, NEW r \in Replicas, Exit(r)
    PROVE  TaskInv'
<1>1. CountShape' /\ count'.created = count.created
  BY Zenon, FaultCounted DEF TaskInv, Exit, CountShape, CountedOnly
<1> QED BY Zenon, <1>1, GoneKeepsTask DEF Exit

LEMMA NewServiceKeepsTask ==
    ASSUME TaskInv, NEW r \in Replicas, NewTasksService(r)
    PROVE  TaskInv'
<1> USE DEF TaskInv
<1>1. RowShape' /\ ExecShape' /\ CancelShape' /\ EntryShape' /\ CountShape'
  BY ZenonT(40) DEF NewTasksService, RowShape, ExecShape, CancelShape, EntryShape, CountShape
<1>2. CacheShape'
  BY Zenon, TaskAssumption DEF NewTasksService, CacheShape, RowShape, ExecShape
<1>3. Uncreated'
  BY DEF NewTasksService, Uncreated, RowShape
<1> QED BY Zenon, <1>1, <1>2, <1>3

\* A context that ends changes nothing else of a goroutine.
SameButCtx(x) ==
    /\ DOMAIN exec'[x] = DOMAIN exec[x] /\ exec'[x].pc = exec[x].pc /\ exec'[x].on = exec[x].on
    /\ exec'[x].task = exec[x].task /\ exec'[x].why = exec[x].why /\ exec'[x].rid = exec[x].rid
    /\ exec[x].pc = "idle" => exec'[x] = exec[x]

LEMMA CtxKeepsTask ==
    ASSUME TaskInv, DOMAIN exec' = Execs, \A x \in Execs : SameButCtx(x),
           UNCHANGED <<proc, tasks, mirror, entry>>, RowShape', row'.exists => row.exists,
           cancel' \in {NoCancel, cancel} \/ (cancel.pc # "idle" /\ cancel' = [cancel EXCEPT !.pc = "mark"]),
           CountShape', count'.created = count.created
    PROVE  TaskInv'
<1> USE DEF TaskInv
<1>1. ExecShape'
  BY DEF SameButCtx, ExecShape
<1>2. CacheShape' /\ EntryShape'
  BY DEF SameButCtx, CacheShape, EntryShape, ExecShape
<1>3. CancelShape' /\ (cancel.pc = "idle" => cancel'.pc = "idle")
  <2>1. CASE cancel' = NoCancel
    BY <2>1, TaskAssumption DEF CancelShape, NoCancel, IsTask, NewTask, Statuses, Terminal
  <2>2. CASE cancel' = cancel
    BY <2>2 DEF SameButCtx, CancelShape
  <2>3. CASE cancel' = [cancel EXCEPT !.pc = "mark"] /\ cancel.pc # "idle"
    BY <2>3 DEF SameButCtx, CancelShape
  <2> QED BY Zenon, <2>1, <2>2, <2>3
<1>4. Uncreated'
  BY Zenon, <1>3 DEF SameButCtx, Uncreated
<1> QED BY Zenon, <1>1, <1>2, <1>3, <1>4

LEMMA RenewKeepsTask ==
    ASSUME TaskInv, NEW x \in Execs, Renew(x)
    PROVE  TaskInv' /\ DOMAIN exec' = Execs /\ \A y \in Execs : SameButCtx(y)
<1>1. DOMAIN exec' = Execs /\ \A y \in Execs : SameButCtx(y)
  BY DEF TaskInv, Renew, SameButCtx, ExecShape
<1>2. RowShape' /\ (row'.exists => row.exists)
  BY Zenon DEF TaskInv, Renew, RowShape
<1>3. /\ CountShape' /\ count'.created = count.created /\ cancel' = cancel
      /\ UNCHANGED <<proc, tasks, mirror, entry>>
  BY Zenon DEF TaskInv, Renew, CountShape
<1> QED BY Zenon, <1>1, <1>2, <1>3, CtxKeepsTask

\* The cancel function ends a context and changes nothing else.
LEMMA StopFields ==
    ASSUME NEW e, NEW x, DOMAIN e = {"pc", "on", "task", "rid", "ctx", "why"}
    PROVE  /\ DOMAIN Stop(e, x) = DOMAIN e
           /\ Stop(e, x).pc = e.pc /\ Stop(e, x).on = e.on /\ Stop(e, x).task = e.task
           /\ Stop(e, x).why = e.why /\ Stop(e, x).rid = e.rid
           /\ Stop(e, x).ctx \in {e.ctx, "stopped"}
           /\ cancel.stop # x => Stop(e, x) = e
BY Zenon DEF Stop

\* A goroutine that is gone is neither held nor stopped by a CancelTask.
LEMMA IdleNotCancelled ==
    ASSUME TaskInv, cancel.pc # "idle", NEW x \in Execs, exec[x].pc = "idle"
    PROVE  x \notin {cancel.held, cancel.stop}
BY TaskAssumption DEF TaskInv, CancelShape, ExecShape, Idle

LEMMA CancelTaskRequestKeepsTask ==
    ASSUME TaskInv, CancelTaskRequest
    PROVE  /\ TaskInv' /\ DOMAIN exec' = Execs
           /\ \A y \in Execs : SameButCtx(y) /\ exec'[y].ctx \in {exec[y].ctx, "stopped"}
<1>1. cancel.pc = "request" /\ UNCHANGED <<row, proc, tasks, mirror, entry>>
  BY Zenon DEF CancelTaskRequest
<1>2. DOMAIN exec' = Execs /\ \A y \in Execs : SameButCtx(y) /\ exec'[y].ctx \in {exec[y].ctx, "stopped"}
  <2>1. CASE exec' = [x \in Execs |-> Stop(exec[x], x)]
    <3> SUFFICES ASSUME NEW y \in Execs PROVE SameButCtx(y) /\ exec'[y].ctx \in {exec[y].ctx, "stopped"}
      BY Zenon, <2>1
    <3>1. exec'[y] = Stop(exec[y], y)
      BY Zenon, <2>1
    <3>2. DOMAIN exec[y] = {"pc", "on", "task", "rid", "ctx", "why"}
      BY Zenon DEF TaskInv, ExecShape
    <3> QED BY <1>1, <3>1, <3>2, StopFields, IdleNotCancelled DEF SameButCtx
  <2>2. CASE UNCHANGED exec
    BY Zenon, <2>2 DEF SameButCtx, TaskInv, ExecShape
  <2> QED BY Zenon, <2>1, <2>2 DEF CancelTaskRequest
<1>3. CountShape' /\ count'.created = count.created
  BY Zenon, FaultCounted DEF CancelTaskRequest, TaskInv, CountShape, CountedOnly
<1>4. RowShape'
  BY Zenon, <1>1 DEF TaskInv, RowShape
<1>5. cancel' = NoCancel \/ cancel' = [cancel EXCEPT !.pc = "mark"]
  BY Zenon DEF CancelTaskRequest
<1> QED BY Zenon, <1>1, <1>2, <1>3, <1>4, <1>5, CtxKeepsTask

\* What marking does to the objects in memory: only the held object and the
\* mirror of the replica turn cancelled.
Marked(x) ==
    /\ DOMAIN exec'[x] = DOMAIN exec[x] /\ exec'[x].pc = exec[x].pc /\ exec'[x].on = exec[x].on
    /\ exec'[x].why = exec[x].why /\ exec'[x].rid = exec[x].rid
    /\ exec'[x].ctx \in {exec[x].ctx, "stopped"}
    /\ exec'[x].task = IF cancel.held = x THEN Cancelled(exec[x].task) ELSE exec[x].task
    /\ exec[x].pc = "idle" => exec'[x] = exec[x]

\* The marking itself, without the crash.
MarkStep ==
    /\ cancel.pc = "mark" /\ cancel' = NoCancel /\ asked' = "ok"
    /\ DOMAIN exec' = Execs /\ \A x \in Execs : Marked(x)
    /\ mirror' = [mirror EXCEPT ![cancel.on] = IF tasks[cancel.on] = cancel.on THEN Cancelled(@) ELSE @]
    /\ \/ /\ \E t : /\ IsTask(t) /\ row' = SaveTask(Cancelled(t))
                   /\ t \in {cancel.task} \cup {exec[x].task : x \in Execs} \cup {mirror[cancel.on]}
          /\ UNCHANGED count
       \/ Faulty("write") /\ UNCHANGED row
    /\ UNCHANGED <<req, proc, tasks, entry>>

LEMMA MarkCases ==
    ASSUME TaskInv, MarkTaskCancelled
    PROVE  \/ MarkStep
           \/ cancel.on \in Replicas /\ Faulty("write") /\ Gone(cancel.on) /\ UNCHANGED <<req, asked>>
<1> DEFINE r == cancel.on
           h == cancel.held
           u == IF cancel.durable THEN cancel.task
                ELSE IF h \in Execs THEN exec[h].task ELSE mirror[r]
<1>1. cancel.pc = "mark" /\ UNCHANGED req /\ cancel.on \in Replicas
  BY Zenon DEF MarkTaskCancelled, TaskInv, CancelShape
<1>2. CASE h = None /\ Faulty("write") /\ Gone(r) /\ UNCHANGED asked
  BY Zenon, <1>1, <1>2
<1>3. CASE /\ \/ row' = SaveTask(Cancelled(u)) /\ UNCHANGED count
              \/ h # None /\ Faulty("write") /\ UNCHANGED row
           /\ exec' = [x \in Execs |->
                 Stop(IF h = x THEN [exec[x] EXCEPT !.task = Cancelled(@)] ELSE exec[x], x)]
           /\ mirror' = [mirror EXCEPT ![r] = IF tasks[r] = r THEN Cancelled(@) ELSE @]
           /\ cancel' = NoCancel /\ asked' = "ok" /\ UNCHANGED <<proc, tasks, entry>>
  <2>1. IsTask(u) /\ u \in {cancel.task} \cup {exec[x].task : x \in Execs} \cup {mirror[r]}
    BY Zenon, <1>1 DEF TaskInv, CancelShape, ExecShape, CacheShape
  <2>2. \A x \in Execs : Marked(x)
    <3> TAKE x \in Execs
    <3> DEFINE e == IF h = x THEN [exec[x] EXCEPT !.task = Cancelled(@)] ELSE exec[x]
    <3>1. DOMAIN exec[x] = {"pc", "on", "task", "rid", "ctx", "why"}
      BY Zenon DEF TaskInv, ExecShape
    <3>2. /\ DOMAIN e = DOMAIN exec[x] /\ e.pc = exec[x].pc /\ e.on = exec[x].on
          /\ e.why = exec[x].why /\ e.rid = exec[x].rid /\ e.ctx = exec[x].ctx
          /\ e.task = IF h = x THEN Cancelled(exec[x].task) ELSE exec[x].task
          /\ h # x => e = exec[x]
      BY Zenon, <3>1
    <3>3. exec'[x] = Stop(e, x)
      BY Zenon, <1>3
    <3> HIDE DEF e
    <3> QED BY <1>1, <3>1, <3>2, <3>3, StopFields, IdleNotCancelled DEF Marked
  <2>3. DOMAIN exec' = Execs
    BY Zenon, <1>3
  <2> HIDE DEF u
  <2> QED BY Zenon, <1>1, <1>3, <2>1, <2>2, <2>3 DEF MarkStep
<1> QED BY Zenon, <1>1, <1>2, <1>3 DEF MarkTaskCancelled

LEMMA MarkKeepsTask ==
    ASSUME TaskInv, MarkTaskCancelled
    PROVE  TaskInv'
<1>1. CASE MarkStep
  <2> USE DEF TaskInv
  <2>1. cancel.on \in Replicas /\ \A t : IsTask(t) => IsTask(Cancelled(t)) /\ Cancelled(t).due = TRUE
    BY Zenon, <1>1 DEF MarkStep, CancelShape, IsTask, Cancelled, Statuses, Terminal
  <2>2. RowShape' /\ CountShape' /\ count'.created = count.created
    <3>1. CASE \E t : IsTask(t) /\ row' = SaveTask(Cancelled(t)) /\ UNCHANGED count
      BY Zenon, <2>1, <3>1, Saved DEF CountShape
    <3>2. CASE Faulty("write") /\ UNCHANGED row
      BY Zenon, <3>2, FaultCounted DEF RowShape, CountedOnly
    <3> QED BY Zenon, <1>1, <3>1, <3>2 DEF MarkStep
  <2>3. ExecShape'
    BY <1>1, <2>1 DEF MarkStep, Marked, ExecShape
  <2>4. CacheShape'
    BY <1>1, <2>1 DEF MarkStep, Marked, ExecShape, CacheShape
  <2>5. CancelShape' /\ EntryShape'
    BY <1>1, TaskAssumption DEF MarkStep, Marked, CancelShape, EntryShape, NoCancel, IsTask, NewTask, Statuses, Terminal
  <2>6. Uncreated'
    BY Zenon, <1>1, <2>2 DEF MarkStep, Uncreated
  <2> QED BY Zenon, <2>2, <2>3, <2>4, <2>5, <2>6
<1>2. CASE cancel.on \in Replicas /\ Faulty("write") /\ Gone(cancel.on)
  <2>1. CountShape' /\ count'.created = count.created
    BY Zenon, <1>2, FaultCounted DEF TaskInv, CountedOnly
  <2> QED BY Zenon, <1>2, <2>1, GoneKeepsTask
<1> QED BY Zenon, <1>1, <1>2, MarkCases

\* Time passes: only the row's lease and due time change.
LEMMA ClockKeepsTask ==
    ASSUME TaskInv, Lapse \/ BackoffEnds
    PROVE  TaskInv'
<1> USE DEF TaskInv
<1>1. UNCHANGED <<exec, proc, tasks, mirror, entry, cancel>>
  BY Zenon DEF Lapse, BackoffEnds
<1>2. RowShape' /\ (row'.exists => row.exists)
  <2>1. CASE Lapse
    BY Zenon, <2>1 DEF Lapse, RowShape
  <2>2. CASE BackoffEnds
    <3>1. row' = [row EXCEPT !.task = [row.task EXCEPT !.due = TRUE]] /\ row.exists
      BY Zenon, <2>2 DEF BackoffEnds
    <3>2. IsTask([row.task EXCEPT !.due = TRUE]) /\ [row.task EXCEPT !.due = TRUE].status = row.task.status
      BY Zenon DEF RowShape, IsTask
    <3> QED BY Zenon, <3>1, <3>2 DEF RowShape
  <2> QED BY Zenon, <2>1, <2>2
<1>3. CountShape' /\ count'.created = count.created
  BY Zenon, FaultCounted DEF Lapse, BackoffEnds, CountShape, CountedOnly
<1>4. ExecShape' /\ CacheShape' /\ CancelShape' /\ EntryShape' /\ Uncreated'
  BY ZenonT(40), <1>1, <1>2, <1>3 DEF ExecShape, CacheShape, CancelShape, EntryShape, Uncreated
<1> QED BY Zenon, <1>2, <1>3, <1>4

\* The shapes are kept by every step.
LEMMA TaskInvInductive == TaskInv /\ [Next]_vars => TaskInv'
<1> SUFFICES ASSUME TaskInv, [Next]_vars PROVE TaskInv'
  BY Zenon
<1>1. CASE UNCHANGED <<row, exec, proc, tasks, mirror, entry, cancel, count>>
  BY <1>1 DEF TaskInv, RowShape, ExecShape, CacheShape, CancelShape, EntryShape, CountShape, Uncreated
<1>2. ASSUME NEW r \in Replicas,
             \/ CreateTask(r) \/ GetTaskByID(r) \/ Adopt(r) \/ CancelTask(r) \/ CleanupOldTasks(r)
             \/ Shutdown(r) \/ Exit(r) \/ NewTasksService(r)
      PROVE  TaskInv'
  BY Zenon, <1>2, CreateTaskKeepsTask, GetTaskKeepsTask, AdoptKeepsTask, CancelTaskKeepsTask, CleanupKeepsTask,
     ShutdownKeepsTask, ExitKeepsTask, NewServiceKeepsTask
<1>3. ASSUME NEW x \in Execs, Execute(x) \/ Renew(x) PROVE TaskInv'
  BY Zenon, <1>3, ExecuteWorks, WorksKeepsTask, ReleaseKeepsTask, RenewKeepsTask
<1>4. CASE \E i \in Requests : RequestEnds(i)
  BY Zenon, <1>1, <1>4 DEF RequestEnds
<1> QED BY Zenon, <1>1, <1>2, <1>3, <1>4, CancelTaskRequestKeepsTask, MarkKeepsTask, ClockKeepsTask DEF Next, vars

------------------------------------------------------------------------------
(* Durable outcomes                                                         *)

\* The count of the faults of a kind never decreases.
LEMMA CountsGrow ==
    ASSUME TaskInv, [Next]_vars
    PROVE  \A k \in Kinds : count[k] \in Nat /\ count'[k] \in Nat /\ count[k] <= count'[k]
<1>1. CountShape /\ CountShape'
  BY Zenon, TaskInvInductive DEF TaskInv
<1>2. CASE UNCHANGED count
  BY <1>1, <1>2 DEF CountShape
<1>3. CASE \E k \in Kinds : CountedOnly(k)
  BY <1>1, <1>3 DEF CountShape, CountedOnly
<1>4. CASE count' = [count EXCEPT !.created = 1]
  BY <1>1, <1>4 DEF CountShape, Kinds
<1>5. CASE Faulty("write") \/ Faulty("crash") \/ Faulty("lapse") \/ Faulty("cleanup")
  BY Zenon, <1>1, <1>3, <1>5, FaultCounted DEF Kinds
<1>6. ASSUME NEW r \in Replicas,
             \/ CreateTask(r) \/ GetTaskByID(r) \/ Adopt(r) \/ CancelTask(r) \/ CleanupOldTasks(r)
             \/ Shutdown(r) \/ Exit(r) \/ NewTasksService(r)
      PROVE  \A k \in Kinds : count[k] \in Nat /\ count'[k] \in Nat /\ count[k] <= count'[k]
  BY Zenon, <1>2, <1>4, <1>5, <1>6 DEF CreateTask, GetTaskByID, Adopt, CancelTask, CleanupOldTasks, Shutdown, Exit,
     NewTasksService
<1>7. ASSUME NEW x \in Execs, Execute(x) \/ Renew(x)
      PROVE  \A k \in Kinds : count[k] \in Nat /\ count'[k] \in Nat /\ count[k] <= count'[k]
  BY Zenon, <1>2, <1>5, <1>7, ExecuteWorks DEF Works, persistTask, Release, Renew
<1>8. CASE CancelTaskRequest \/ MarkTaskCancelled \/ Lapse \/ BackoffEnds \/ \E i \in Requests : RequestEnds(i)
  BY Zenon, <1>2, <1>5, <1>8 DEF CancelTaskRequest, MarkTaskCancelled, Lapse, BackoffEnds, RequestEnds
<1> QED BY Zenon, <1>2, <1>6, <1>7, <1>8 DEF Next, vars

\* A terminal row keeps its task through every step but the retention sweep.
LEMMA TerminalRowStays ==
    ASSUME TaskInv, [Next]_vars, row.exists, row.task.status \in Terminal
    PROVE  \/ row'.exists /\ row'.task = row.task
           \/ ~ row'.exists /\ CountedOnly("cleanup")
<1>1. CASE row' = row
  BY Zenon, <1>1
<1>2. ASSUME NEW t, row' = SaveTask(t) PROVE row' = row
  BY Zenon, <1>2 DEF SaveTask
<1>3. row.task.due = TRUE /\ DOMAIN row = {"task", "owner", "fresh", "exists"}
  BY Zenon DEF TaskInv, RowShape, IsTask
<1>4. ASSUME NEW r \in Replicas, CleanupOldTasks(r) PROVE ~ row'.exists /\ CountedOnly("cleanup")
  BY Zenon, <1>4, FaultCounted DEF CleanupOldTasks, NoRow, TaskInv
<1>5. ASSUME NEW r \in Replicas, Gone(r) PROVE row'.exists /\ row'.task = row.task
  BY Zenon, <1>3, <1>5 DEF Gone
<1>6. ASSUME NEW r \in Replicas,
             \/ CreateTask(r) \/ GetTaskByID(r) \/ Adopt(r) \/ CancelTask(r)
             \/ Shutdown(r) \/ Exit(r) \/ NewTasksService(r)
      PROVE  row'.exists /\ row'.task = row.task
  BY Zenon, <1>1, <1>2, <1>5, <1>6 DEF CreateTask, GetTaskByID, Adopt, FindAdoptableTasks, CancelTask, Shutdown, Exit,
     NewTasksService
<1>7. ASSUME NEW x \in Execs, Execute(x) PROVE row'.exists /\ row'.task = row.task
  <2>1. CASE Works(x)
    BY Zenon, <1>1, <1>2, <2>1 DEF Works, persistTask
  <2>2. CASE Release(x)
    BY Zenon, <1>3, <2>2 DEF Release, ReleaseTaskAdoption
  <2> QED BY Zenon, <1>7, <2>1, <2>2, ExecuteWorks
<1>8. ASSUME NEW x \in Execs, Renew(x) PROVE row'.exists /\ row'.task = row.task
  BY Zenon, <1>3, <1>8 DEF Renew
<1>9. CASE CancelTaskRequest \/ \E i \in Requests : RequestEnds(i)
  BY Zenon, <1>9 DEF CancelTaskRequest, RequestEnds
<1>10. CASE MarkTaskCancelled
  BY Zenon, <1>1, <1>2, <1>5, <1>10, MarkCases DEF MarkStep
<1>11. CASE Lapse \/ BackoffEnds
  BY Zenon, <1>3, <1>11 DEF Lapse, BackoffEnds
<1> QED BY Zenon, <1>1, <1>4, <1>6, <1>7, <1>8, <1>9, <1>10, <1>11 DEF Next, vars

\* A durable outcome is final: SaveTask's guard holds against every stale
\* execution and every late cancel, and no backoff ends on an ended task.
THEOREM OutcomeFinal == Spec => TerminalTaskIsFinal
<1>1. Spec => []TaskInv
  BY TaskInvInit, TaskInvInductive, PTL DEF Spec
<1>2. TaskInv /\ [Next]_vars
        => [row.exists /\ row.task.status \in Terminal /\ row'.exists => row'.task = row.task]_vars
  BY Zenon, TerminalRowStays
<1> QED BY <1>1, <1>2, PTL DEF Spec, TerminalTaskIsFinal

\* A CancelTask that succeeded, with no failed write, left an ended row, and it
\* stays one.
LEMMA DurableInductive == TaskInv /\ CancelIsDurable /\ [Next]_vars => CancelIsDurable'
<1> SUFFICES ASSUME TaskInv, CancelIsDurable, [Next]_vars,
                    asked' = "ok", count'.write = 0, count'.cleanup = 0
             PROVE  row'.exists /\ row'.task.status \in Terminal
  BY Zenon DEF CancelIsDurable
<1>1. count.write = 0 /\ count.cleanup = 0 /\ ~ CountedOnly("cleanup") /\ ~ CountedOnly("write")
  BY CountsGrow DEF Kinds, CountedOnly
<1>2. CASE asked = "ok"
  BY Zenon, <1>1, <1>2, TerminalRowStays DEF CancelIsDurable
<1>3. CASE asked # "ok"
  <2>1. MarkTaskCancelled
    <3>1. ASSUME NEW x \in Execs, Execute(x) \/ Renew(x) PROVE UNCHANGED asked
      BY Zenon, <3>1, ExecuteWorks DEF Works, Release, Renew
    <3>2. ASSUME NEW r \in Replicas,
                 \/ CreateTask(r) \/ GetTaskByID(r) \/ Adopt(r) \/ CancelTask(r) \/ CleanupOldTasks(r)
                 \/ Shutdown(r) \/ Exit(r) \/ NewTasksService(r)
          PROVE  asked' # "ok"
      BY Zenon, <1>3, <3>2 DEF CreateTask, GetTaskByID, Adopt, CancelTask, CleanupOldTasks, Shutdown, Exit,
         NewTasksService
    <3> QED BY Zenon, <1>3, <3>1, <3>2 DEF Next, vars, CancelTaskRequest, Lapse, BackoffEnds, RequestEnds
  <2>2. PICK t : IsTask(t) /\ row' = SaveTask(Cancelled(t))
    BY Zenon, <1>1, <1>3, <2>1, MarkCases, FaultCounted DEF MarkStep, TaskInv
  <2>3. IsTask(Cancelled(t)) /\ Cancelled(t).status \in Terminal
    BY Zenon, <2>2 DEF IsTask, Cancelled, Statuses, Terminal
  <2> QED BY Zenon, <2>2, <2>3, Saved DEF TaskInv
<1> QED BY Zenon, <1>2, <1>3

\* What CancelTask reported holds: as long as no write failed and retention
\* removed nothing, a cancelled task is never executed again.
THEOREM CancelKept == Spec => []CancelIsDurable
<1>1. Init => CancelIsDurable
  BY Zenon DEF Init, CancelIsDurable
<1> QED BY <1>1, TaskInvInit, TaskInvInductive, DurableInductive, PTL DEF Spec

------------------------------------------------------------------------------
(* The lease                                                                *)

Undisturbed == count.lapse = 0 /\ count.cleanup = 0

\* Who executes holds the lease, and its object is the cached one.
Holding(x) ==
    /\ row.exists /\ row.owner = exec[x].on /\ row.fresh
    /\ tasks[exec[x].on] = x /\ exec[x].ctx # "lost"
    /\ proc[exec[x].on] = "stopping" => exec[x].ctx # "live"
    /\ \A y \in Active : y = x

LeaseInv == Undisturbed => \A x \in Active : Holding(x)

\* The steps that leave the lease, the cache and who executes alone, except that
\* contexts may end by a cancel.
LEMMA QuietLease ==
    ASSUME TaskInv, LeaseInv, Undisturbed, DOMAIN exec' = Execs,
           \A x \in Execs : /\ exec'[x].pc = exec[x].pc /\ exec'[x].on = exec[x].on
                            /\ exec'[x].ctx \in {exec[x].ctx, "stopped"},
           row.exists => row'.exists /\ row'.owner = row.owner /\ (row.fresh => row'.fresh),
           \A r \in Replicas : tasks[r] \in Execs => tasks'[r] = tasks[r],
           \A r \in Replicas : proc'[r] = "stopping" => proc[r] = "stopping"
    PROVE  LeaseInv'
<1>1. Active' = Active
  BY ZenonT(40) DEF Active
<1>2. ASSUME NEW x \in Active PROVE Holding(x)'
  <2>1. x \in Execs /\ Holding(x) /\ exec[x].on \in Replicas
    BY Zenon, <1>2 DEF LeaseInv, Active, TaskInv, ExecShape
  <2> QED BY <1>1, <2>1 DEF Holding
<1> QED BY Zenon, <1>1, <1>2 DEF LeaseInv

LEMMA WorksKeepsLease ==
    ASSUME TaskInv, LeaseInv, Undisturbed, NEW x \in Execs, Works(x)
    PROVE  LeaseInv'
<1>1. /\ exec' = [exec EXCEPT ![x] = exec'[x]] /\ UNCHANGED <<proc, tasks>>
      /\ exec[x].pc # "idle" /\ exec'[x].pc # "idle" /\ exec'[x].on = exec[x].on /\ exec'[x].ctx = exec[x].ctx
  BY Zenon DEF Works
<1>2. Active' = Active /\ x \in Active
  BY Zenon, <1>1 DEF Active, TaskInv, ExecShape
<1>3. row.exists => row'.exists /\ row'.owner = row.owner /\ (row.fresh => row'.fresh)
  BY Zenon, Saved DEF Works, persistTask, TaskInv
<1>4. Holding(x) /\ \A y \in Active : y = x
  BY Zenon, <1>2 DEF LeaseInv, Holding
<1>5. Holding(x)'
  BY Zenon, <1>1, <1>2, <1>3, <1>4 DEF Holding, TaskInv, ExecShape
<1> QED BY Zenon, <1>2, <1>4, <1>5 DEF LeaseInv

\* Nothing executes after the last executor is gone.
LEMMA NobodyHolds ==
    ASSUME Active' = {}
    PROVE  LeaseInv'
BY Zenon DEF LeaseInv

LEMMA ReleaseKeepsLease ==
    ASSUME TaskInv, LeaseInv, Undisturbed, NEW x \in Execs, Release(x)
    PROVE  LeaseInv'
<1>1. x \in Active /\ \A y \in Active : y = x
  BY Zenon DEF Release, Active, LeaseInv, Holding
<1>2. Active' = {}
  BY Zenon, <1>1 DEF Release, Ended, Active, TaskInv, ExecShape, Idle
<1> QED BY Zenon, <1>2, NobodyHolds

LEMMA AdoptKeepsLease ==
    ASSUME TaskInv, LeaseInv, Undisturbed, NEW r \in Replicas, Adopt(r)
    PROVE  LeaseInv' /\ Active = {}
<1>1. PICK x \in Execs :
          /\ exec[x].pc = "idle"
          /\ exec' = [exec EXCEPT ![x] = [Idle EXCEPT !.pc = "attempt", !.on = r, !.task = row.task]]
          /\ tasks' = [tasks EXCEPT ![r] = x]
  BY Zenon, AdoptBy
<1>2. /\ row.exists /\ proc[r] = "up" /\ row' = [row EXCEPT !.owner = r, !.fresh = TRUE]
      /\ UNCHANGED proc /\ (row.owner = None \/ ~ row.fresh)
  BY Zenon DEF Adopt, FindAdoptableTasks
<1>3. Active = {}
  BY <1>2, TaskAssumption DEF LeaseInv, Holding, Active, TaskInv, ExecShape
<1>4. Active' = {x}
  BY Zenon, <1>1, <1>3 DEF Active, TaskInv, ExecShape, Idle
<1>5. Holding(x)'
  BY Zenon, <1>1, <1>2, <1>4 DEF Holding, Idle, TaskInv, ExecShape, RowShape, CacheShape
<1> QED BY Zenon, <1>3, <1>4, <1>5 DEF LeaseInv

LEMMA ShutdownKeepsLease ==
    ASSUME TaskInv, LeaseInv, Undisturbed, NEW r \in Replicas, Shutdown(r)
    PROVE  LeaseInv'
<1>1. /\ proc' = [proc EXCEPT ![r] = "stopping"] /\ UNCHANGED <<row, tasks>>
      /\ exec' = [x \in Execs |->
            IF exec[x].on = r /\ exec[x].ctx = "live" THEN [exec[x] EXCEPT !.ctx = "stopped"] ELSE exec[x]]
  BY Zenon DEF Shutdown
<1>2. \A x \in Execs : /\ exec'[x].pc = exec[x].pc /\ exec'[x].on = exec[x].on
                       /\ exec'[x].ctx \in {exec[x].ctx, "stopped"}
                       /\ exec[x].on = r => exec'[x].ctx # "live"
  BY Zenon, <1>1 DEF TaskInv, ExecShape
<1>3. Active' = Active
  BY Zenon, <1>2 DEF Active
<1>4. ASSUME NEW x \in Active PROVE Holding(x)'
  <2>1. x \in Execs /\ Holding(x) /\ exec[x].on \in Replicas
    BY Zenon, <1>4 DEF LeaseInv, Active, TaskInv, ExecShape
  <2> QED BY Zenon, <1>1, <1>2, <1>3, <2>1 DEF Holding, TaskInv, CacheShape
<1> QED BY Zenon, <1>3, <1>4 DEF LeaseInv

LEMMA GoneKeepsLease ==
    ASSUME TaskInv, LeaseInv, Undisturbed, NEW r \in Replicas, Gone(r)
    PROVE  LeaseInv'
<1>1. Active' = {x \in Active : exec[x].on # r} /\ \A x \in Active' : exec'[x] = exec[x]
  BY Zenon DEF Gone, Active, Idle
<1>2. ASSUME NEW x \in Active' PROVE Holding(x)'
  <2>1. x \in Active /\ Holding(x) /\ exec[x].on \in Replicas /\ exec[x].on # r /\ exec'[x] = exec[x]
    BY Zenon, <1>1, <1>2 DEF LeaseInv, Active, TaskInv, ExecShape
  <2> QED BY ZenonT(40), <1>1, <2>1 DEF Holding, Gone, TaskInv, RowShape, CacheShape
<1> QED BY Zenon, <1>2 DEF LeaseInv

\* Who executes keeps the lease through every step.
LEMMA LeaseInvInductive == TaskInv /\ LeaseInv /\ [Next]_vars => LeaseInv'
<1> SUFFICES ASSUME TaskInv, LeaseInv, [Next]_vars, Undisturbed' PROVE LeaseInv'
  BY Zenon DEF LeaseInv
<1>1. Undisturbed /\ ~ CountedOnly("cleanup") /\ ~ CountedOnly("lapse")
  BY CountsGrow DEF Undisturbed, Kinds, CountedOnly
<1>2. DOMAIN exec = Execs
  BY Zenon DEF TaskInv, ExecShape
<1>3. CASE UNCHANGED <<row, exec, proc, tasks>>
  BY Zenon, <1>1, <1>2, <1>3, QuietLease
<1>4. ASSUME NEW r \in Replicas, CreateTask(r) PROVE LeaseInv'
  <2>1. Active' = {}
    BY Zenon, <1>4 DEF CreateTask, TaskInv, Uncreated, Active
  <2> QED BY Zenon, <2>1, NobodyHolds
<1>5. ASSUME NEW r \in Replicas, GetTaskByID(r) \/ CancelTask(r) PROVE LeaseInv'
  <2>1. /\ UNCHANGED <<row, exec, proc>>
        /\ \A q \in Replicas : tasks[q] \in Execs => tasks'[q] = tasks[q]
    BY <1>5, TaskAssumption DEF GetTaskByID, CancelTask, TaskInv, CacheShape
  <2> QED BY Zenon, <1>1, <1>2, <2>1, QuietLease
<1>6. ASSUME NEW r \in Replicas, CleanupOldTasks(r) PROVE LeaseInv'
  BY Zenon, <1>1, <1>6, FaultCounted DEF CleanupOldTasks, TaskInv
<1>7. ASSUME NEW r \in Replicas, NewTasksService(r) PROVE LeaseInv'
  <2>1. proc[r] = "down" /\ tasks[r] \notin Execs
    BY <1>7, TaskAssumption DEF NewTasksService, TaskInv, CacheShape, ExecShape, Idle
  <2>2. /\ UNCHANGED <<row, exec>> /\ proc' = [proc EXCEPT ![r] = "up"]
        /\ \A q \in Replicas : tasks[q] \in Execs => tasks'[q] = tasks[q]
    BY Zenon, <1>7, <2>1 DEF NewTasksService, TaskInv, CacheShape
  <2>3. \A q \in Replicas : proc'[q] = "stopping" => proc[q] = "stopping"
    BY Zenon, <2>2 DEF TaskInv, CacheShape
  <2> QED BY Zenon, <1>1, <1>2, <2>2, <2>3, QuietLease
<1>8. ASSUME NEW x \in Execs, Renew(x) PROVE LeaseInv'
  <2>1. x \in Active /\ Holding(x)
    BY Zenon, <1>1, <1>8 DEF Renew, Active, LeaseInv
  <2> QED BY Zenon, <1>8, <2>1 DEF Renew, RenewTaskAdoption, Holding
<1>9. CASE CancelTaskRequest
  BY Zenon, <1>1, <1>9, CancelTaskRequestKeepsTask, QuietLease DEF CancelTaskRequest, SameButCtx
<1>10. CASE MarkTaskCancelled
  <2>1. CASE MarkStep
    <3>1. row.exists => row'.exists /\ row'.owner = row.owner /\ (row.fresh => row'.fresh)
      BY Zenon, <2>1, Saved, TaskUpdates DEF MarkStep, TaskInv
    <3> QED BY Zenon, <1>1, <2>1, <3>1, QuietLease DEF MarkStep, Marked
  <2> QED BY Zenon, <1>1, <1>10, <2>1, MarkCases, GoneKeepsLease
<1>11. CASE Lapse
  <2>1. Orphaned
    BY Zenon, <1>1, <1>11, FaultCounted DEF Lapse, TaskInv
  <2>2. Active = {}
    BY <1>1, <2>1, TaskAssumption DEF Orphaned, LeaseInv, Holding, Active, TaskInv, ExecShape
  <2>3. Active' = {}
    BY Zenon, <1>11, <2>2 DEF Lapse, Active
  <2> QED BY Zenon, <2>3, NobodyHolds
<1>12. CASE BackoffEnds
  BY Zenon, <1>1, <1>2, <1>12, QuietLease DEF BackoffEnds, TaskInv, RowShape
<1>13. ASSUME NEW x \in Execs, Execute(x) PROVE LeaseInv'
  BY Zenon, <1>1, <1>13, ExecuteWorks, WorksKeepsLease, ReleaseKeepsLease
<1>14. ASSUME NEW r \in Replicas, Adopt(r) \/ Shutdown(r) \/ Exit(r) PROVE LeaseInv'
  BY Zenon, <1>1, <1>14, AdoptKeepsLease, ShutdownKeepsLease, GoneKeepsLease DEF Exit
<1> QED BY Zenon, <1>3, <1>4, <1>5, <1>6, <1>7, <1>8, <1>9, <1>10, <1>11, <1>12, <1>13, <1>14
        DEF Next, vars, RequestEnds

\* One goroutine in the cluster executes a task, across crashes, shutdowns and
\* failed writes, as long as no live owner lets its lease lapse.
THEOREM LeaseExcludes == Spec => []OneExecutorPerLease
<1>1. Init => LeaseInv
  BY DEF Init, LeaseInv, Active, Idle
<1>2. LeaseInv => OneExecutorPerLease
  BY Zenon DEF OneExecutorPerLease, Undisturbed, LeaseInv, Holding
<1> QED BY <1>1, <1>2, TaskInvInit, TaskInvInductive, LeaseInvInductive, PTL DEF Spec

------------------------------------------------------------------------------
(* Attempts                                                                 *)

Open == row.exists /\ row.task.status \notin Terminal
Allowed == MaxAttempts + Trouble

\* What the row and each copy of it know of the attempts.
RowTries == row.task.attempts
CancelTries == cancel.task.attempts
MirrorTries(r) == mirror[r].attempts
Tries(x) == exec[x].task.attempts
Over(x) == exec[x].task.status \in Terminal
Stopping(x) == proc[exec[x].on] = "stopping"

\* Every copy is within the bound, and whoever may start one more attempt, or
\* leave the row for another to adopt, is strictly within it.
Counted(x) ==
    /\ Tries(x) <= Allowed
    /\ exec[x].pc = "attempt" \/ Stopping(x) => Tries(x) < Allowed
    /\ Open => RowTries <= Tries(x)
    /\ exec[x].pc = "release" \/ Over(x) => ~ Open \/ Tries(x) < Allowed
    /\ exec[x].why = "ok" => Over(x)
    /\ exec[x].why = "cancelled" => exec[x].task.status = "cancelled"

AttemptInv ==
    Undisturbed =>
        /\ RowTries <= Allowed /\ CancelTries <= Allowed
        /\ \A r \in Replicas : MirrorTries(r) <= Allowed
        /\ \A x \in Active : Counted(x)
        /\ Active = {} /\ Open => RowTries < Allowed

\* Attempts are counted in natural numbers.
LEMMA TriesCount ==
    ASSUME TaskInv
    PROVE  /\ RowTries \in Nat /\ CancelTries \in Nat
           /\ \A r \in Replicas : MirrorTries(r) \in Nat
           /\ \A x \in Execs : Tries(x) \in Nat
BY Zenon DEF TaskInv, RowShape, ExecShape, CacheShape, CancelShape, IsTask, RowTries, CancelTries, MirrorTries, Tries

\* Every fault allows one more attempt.
LEMMA AllowedGrows ==
    ASSUME TaskInv, [Next]_vars
    PROVE  /\ Allowed \in Nat /\ Allowed' \in Nat /\ Allowed <= Allowed' /\ MaxAttempts <= Allowed
           /\ Faulty("write") \/ Faulty("crash") => Allowed' = Allowed + 1
<1>1. \A k \in Kinds : count[k] \in Nat /\ count'[k] \in Nat /\ count[k] <= count'[k]
  BY Zenon, CountsGrow
<1>2. Allowed \in Nat /\ Allowed' \in Nat /\ Allowed <= Allowed' /\ MaxAttempts <= Allowed
  BY <1>1, TaskAssumption DEF Allowed, Trouble, Kinds
<1>3. Faulty("write") => Allowed' = Allowed + 1
  BY <1>1, FaultCounted, TaskAssumption DEF TaskInv, CountedOnly, Allowed, Trouble, Kinds
<1>4. Faulty("crash") => Allowed' = Allowed + 1
  BY <1>1, FaultCounted, TaskAssumption DEF TaskInv, CountedOnly, Allowed, Trouble, Kinds
<1> QED BY Zenon, <1>2, <1>3, <1>4

\* How a step of an executor may end its attempt: it stops only with an outcome
\* or with attempts left.
Settling(x) ==
    /\ exec'[x].pc = "release" => Over(x)' \/ Tries(x)' < MaxAttempts
    /\ exec'[x].why = "ok" => Over(x)'
    /\ exec'[x].why = "cancelled" => exec'[x].task.status = "cancelled"

LEMMA GotoSettles ==
    ASSUME ExecShape, NEW x \in Execs, NEW pc, NEW t, NEW why, Goto(x, pc, t, why),
           pc = "release" => t.status \in Terminal \/ t.attempts < MaxAttempts,
           why = "ok" => t.status \in Terminal, why = "cancelled" => t.status = "cancelled"
    PROVE  Settling(x)
<1>1. exec'[x].pc = pc /\ exec'[x].task = t /\ exec'[x].why = why
  BY GotoWorks
<1> QED BY Zenon, <1>1 DEF Settling, Over, Tries

\* What Settle does, outcome by outcome, for an executor that holds the lease.
LEMMA SettleSettles ==
    ASSUME TaskInv, NEW x \in Execs, Holding(x), Counted(x), Settle(x)
    PROVE  Settling(x)
<1> DEFINE e == exec[x]
<1>1. /\ ExecShape /\ IsTask(e.task) /\ e.pc = "settle" /\ e.why \in Outcomes /\ e.ctx # "lost"
      /\ e.task.attempts \in Nat /\ MaxAttempts \in Nat
      /\ isTaskCancelled(e.on) => e.task.status = "cancelled"
  BY Zenon, TaskAssumption DEF TaskInv, ExecShape, IsTask, Settle, Holding, isTaskCancelled, Object
<1>0. ASSUME NEW t, Goto(x, "release", t, "none"), t.status \in Terminal \/ t.attempts < MaxAttempts
      PROVE  Settling(x)
  BY Zenon, <1>1, <1>0, GotoSettles
<1>2. CASE Leave(x) /\ e.task.status \in Terminal
  BY Zenon, <1>2, <1>0 DEF Leave
<1>3. ASSUME NEW t, Finish(x, t), t.status \in Terminal \/ t.attempts < MaxAttempts PROVE Settling(x)
  BY Zenon, <1>3, <1>0 DEF Finish
<1>4. /\ \A s \in {"failed", "cancelled"} : [e.task EXCEPT !.status = s, !.due = TRUE].status \in Terminal
      /\ [e.task EXCEPT !.status = "failed"].status \in Terminal
      /\ [e.task EXCEPT !.status = "pending", !.due = FALSE].attempts = e.task.attempts
  BY Zenon, <1>1 DEF IsTask, Terminal
<1>5. \/ Leave(x) /\ e.task.status \in Terminal
      \/ \E s \in {"failed", "cancelled"} : Finish(x, [e.task EXCEPT !.status = s, !.due = TRUE])
      \/ Finish(x, [e.task EXCEPT !.status = "failed"])
      \/ /\ Finish(x, [e.task EXCEPT !.status = "pending", !.due = FALSE])
         /\ ~ (e.task.attempts >= MaxAttempts)
  <2>1. "cancelled" \in Terminal /\ (e.why \in {"ok", "cancelled"} => e.task.status \in Terminal)
    BY Zenon DEF Counted, Over, Terminal
  <2>2. CASE e.why \in {"ok", "cancelled"}
    BY Zenon, <2>1, <2>2 DEF Settle
  <2>3. CASE e.why = "request cancelled"
    BY Zenon, <2>3 DEF Settle, updateTaskWithCancelled
  <2>4. CASE e.why = "timed out"
    BY Zenon, <2>1, <2>4 DEF Settle, updateTaskWithError
  <2>5. CASE e.why = "stopped"
    BY Zenon, <1>1, <2>1, <2>5 DEF Settle, updateTaskWithError
  <2>6. CASE e.why = "error"
    BY Zenon, <1>1, <2>1, <2>6 DEF Settle, Retry
  <2> QED BY Zenon, <1>1, <2>2, <2>3, <2>4, <2>5, <2>6 DEF Outcomes
<1>6. ~ (e.task.attempts >= MaxAttempts) => e.task.attempts < MaxAttempts
  BY <1>1
<1> QED BY Zenon, <1>2, <1>3, <1>4, <1>5, <1>6

LEMMA ExecuteSettles ==
    ASSUME TaskInv, NEW x \in Execs, Holding(x), Counted(x), Execute(x), ~ Release(x)
    PROVE  Settling(x)
<1> DEFINE e == exec[x]
<1>1. /\ ExecShape /\ DOMAIN e = {"pc", "on", "task", "rid", "ctx", "why"}
      /\ isTaskCancelled(e.on) => e.task.status = "cancelled"
  BY Zenon DEF TaskInv, ExecShape, Holding, isTaskCancelled, Object
<1>9. ASSUME NEW pc, NEW t, NEW why, Goto(x, pc, t, why), pc # "release",
             why = "ok" => t.status \in Terminal, why = "cancelled" => t.status = "cancelled"
      PROVE  Settling(x)
  BY Zenon, <1>1, <1>9, GotoSettles
<1>2. CASE StartAttempt(x)
  <2>1. "cancelled" # "ok" /\ "stopped" \notin {"ok", "cancelled"} /\ "none" \notin {"ok", "cancelled"}
        /\ "settle" # "release" /\ "create" # "release"
    BY Zenon
  <2> QED BY Zenon, <1>1, <1>2, <1>9, <2>1 DEF StartAttempt
<1>3. CASE CreateRequest(x)
  <2>1. CASE \E i : exec' = [exec EXCEPT ![x] = [@ EXCEPT !.pc = "link", !.rid = i]]
    <3>1. /\ exec'[x].pc = "link" /\ exec'[x].why = e.why /\ exec'[x].task = e.task
      BY <1>1, <2>1 DEF ExecShape
    <3> QED BY Zenon, <3>1 DEF Settling, Counted, Over
  <2>2. CASE \E why : Goto(x, "settle", e.task, why) /\ (why = "cancelled" => isTaskCancelled(e.on)) /\ why # "ok"
    BY Zenon, <1>1, <1>9, <2>2
  <2> QED BY Zenon, <1>3, <2>1, <2>2 DEF CreateRequest
<1>4. CASE Link(x)
  <2>1. exec'[x].pc = "wait" /\ exec'[x].why = "none"
    BY <1>1, <1>4, GotoWorks DEF Link, setCurrentRequestID
  <2> QED BY Zenon, <2>1 DEF Settling
<1>5. CASE Observe(x)
  <2> DEFINE done == [e.task EXCEPT !.status = "completed", !.due = TRUE]
  <2>1. CASE Goto(x, "unlink", done, "ok")
    <3>1. done.status \in Terminal
      BY Zenon DEF TaskInv, ExecShape, IsTask, Terminal
    <3> HIDE DEF done
    <3> QED BY Zenon, <1>9, <2>1, <3>1
  <2>2. CASE Goto(x, "unlink", e.task, "cancelled") /\ e.task.status = "cancelled"
    BY Zenon, <1>9, <2>2
  <2>3. CASE \E why \in {"request cancelled", "error"} : Goto(x, "unlink", e.task, why)
    <3>1. PICK why \in {"request cancelled", "error"} : Goto(x, "unlink", e.task, why)
      BY Zenon, <2>3
    <3>2. why # "ok" /\ why # "cancelled"
      BY Zenon
    <3> QED BY Zenon, <1>9, <3>1, <3>2
  <2> QED BY Zenon, <1>1, <1>5, <2>1, <2>2, <2>3 DEF Observe
<1>6. CASE Depart(x)
  <2>1. PICK why \in {"timed out", "stopped"} :
            Goto(x, "unlink", e.task, IF isTaskCancelled(e.on) THEN "cancelled" ELSE why)
    BY Zenon, <1>6 DEF Depart
  <2>2. CASE isTaskCancelled(e.on)
    <3>1. Goto(x, "unlink", e.task, "cancelled")
      BY Zenon, <2>1, <2>2
    <3> QED BY Zenon, <1>1, <1>9, <2>2, <3>1
  <2>3. CASE ~ isTaskCancelled(e.on)
    <3>1. Goto(x, "unlink", e.task, why)
      BY Zenon, <2>1, <2>3
    <3>2. why # "ok" /\ why # "cancelled"
      BY Zenon
    <3> QED BY Zenon, <1>9, <3>1, <3>2
  <2> QED BY Zenon, <2>2, <2>3
<1>7. CASE Unlink(x)
  <2>1. exec'[x].pc = "settle" /\ exec'[x].why = e.why /\ exec'[x].task.status = e.task.status
    <3> DEFINE t == [e.task EXCEPT !.cur = None]
    <3>1. CASE Goto(x, "settle", e.task, e.why)
      BY <1>1, <3>1, GotoWorks
    <3>2. CASE Goto(x, "settle", t, e.why)
      <4>1. t.status = e.task.status
        BY Zenon DEF TaskInv, ExecShape, IsTask
      <4> HIDE DEF t
      <4> QED BY <1>1, <3>2, <4>1, GotoWorks
    <3> QED BY Zenon, <1>7, <3>1, <3>2 DEF Unlink, setCurrentRequestID
  <2> QED BY Zenon, <2>1 DEF Settling, Counted, Over
<1>8. CASE Settle(x)
  BY Zenon, <1>8, SettleSettles
<1> QED BY Zenon, <1>2, <1>3, <1>4, <1>5, <1>6, <1>7, <1>8 DEF Execute

\* The steps that leave every counter of attempts alone, or copy one.
LEMMA QuietAttempts ==
    ASSUME TaskInv, TaskInv', AttemptInv, Undisturbed,
           Allowed \in Nat, Allowed' \in Nat, Allowed <= Allowed',
           \A x \in Execs : /\ exec'[x].pc = exec[x].pc /\ exec'[x].on = exec[x].on
                            /\ exec'[x].task = exec[x].task /\ exec'[x].why = exec[x].why,
           RowTries' = RowTries, Open' => Open, CancelTries' <= Allowed',
           \A r \in Replicas : MirrorTries(r)' <= Allowed',
           \A r \in Replicas : proc'[r] = "stopping" => proc[r] = "stopping"
    PROVE  AttemptInv'
<1>1. Active' = Active
  BY Zenon DEF Active
<1>2. ASSUME NEW x \in Active PROVE Counted(x)'
  <2>1. /\ x \in Execs /\ Counted(x) /\ exec[x].on \in Replicas
    BY Zenon, <1>2 DEF AttemptInv, Active, TaskInv, ExecShape
  <2>2. /\ Tries(x)' = Tries(x) /\ (Over(x)' => Over(x)) /\ (Over(x) => Over(x)')
        /\ Stopping(x)' => Stopping(x)
    BY Zenon, <2>1 DEF Tries, Over, Stopping
  <2>3. Tries(x) \in Nat /\ RowTries \in Nat
    BY Zenon, <2>1, TriesCount
  <2> QED BY <2>1, <2>2, <2>3 DEF Counted
<1>3. RowTries \in Nat
  BY Zenon, TriesCount
<1> QED BY <1>1, <1>2, <1>3 DEF AttemptInv

LEMMA WorksKeepsAttempts ==
    ASSUME TaskInv, TaskInv', LeaseInv, AttemptInv, Undisturbed, [Next]_vars,
           NEW x \in Execs, Works(x), Settling(x)
    PROVE  AttemptInv'
<1>1. /\ exec[x].pc # "idle" /\ exec'[x].pc \notin {"idle", "attempt"} /\ exec'[x].on = exec[x].on
      /\ UNCHANGED <<proc, mirror, cancel>>
  BY Zenon DEF Works
<1>2. Active' = Active /\ x \in Active /\ \A y \in Active : y = x
  <2>1. \A y \in Execs : y # x => exec'[y] = exec[y]
    <3>1. DOMAIN exec = Execs
      BY Zenon DEF TaskInv, ExecShape
    <3> DEFINE f == exec'[x]
    <3>2. exec' = [exec EXCEPT ![x] = f]
      BY Zenon DEF Works
    <3> HIDE DEF f
    <3> QED BY Zenon, <3>1, <3>2
  <2>2. x \in Active /\ \A y \in Active : y = x
    BY Zenon, <1>1 DEF Active, LeaseInv, Holding
  <2> QED BY Zenon, <1>1, <2>1, <2>2 DEF Active
<1>3. /\ Counted(x) /\ RowTries <= Allowed /\ CancelTries <= Allowed
      /\ \A r \in Replicas : MirrorTries(r) <= Allowed
  BY Zenon, <1>2 DEF AttemptInv
<1>4. /\ Tries(x) \in Nat /\ Tries(x)' \in Nat /\ RowTries \in Nat /\ RowTries' \in Nat
      /\ CancelTries \in Nat /\ CancelTries' = CancelTries
      /\ \A r \in Replicas : MirrorTries(r) \in Nat /\ MirrorTries(r)' = MirrorTries(r)
  <2>1. RowTries' \in Nat /\ Tries(x)' \in Nat
    BY Zenon DEF TaskInv, RowShape, ExecShape, IsTask, RowTries, Tries
  <2>2. CancelTries' = CancelTries /\ \A r \in Replicas : MirrorTries(r)' = MirrorTries(r)
    BY Zenon, <1>1 DEF CancelTries, MirrorTries
  <2> QED BY Zenon, <2>1, <2>2, TriesCount
<1>5. /\ Allowed \in Nat /\ Allowed' \in Nat /\ Allowed <= Allowed' /\ MaxAttempts <= Allowed
      /\ MaxAttempts \in Nat /\ (Faulty("write") => Allowed' = Allowed + 1)
  BY Zenon, AllowedGrows, TaskAssumption
<1>6. Tries(x)' <= Allowed /\ Tries(x) <= Tries(x)' /\ (Stopping(x)' => Tries(x)' < Allowed)
  <2>0. Stopping(x)' => Stopping(x)
    BY Zenon, <1>1 DEF Stopping
  <2>1. CASE Tries(x)' = Tries(x)
    BY <1>3, <1>4, <1>5, <2>0, <2>1 DEF Counted
  <2>2. CASE Tries(x)' = Tries(x) + 1 /\ exec[x].pc = "attempt" /\ exec[x].ctx = "live"
    <3>1. Tries(x) < Allowed /\ ~ Stopping(x)
      BY Zenon, <1>2, <1>3, <2>2 DEF Counted, LeaseInv, Holding, Stopping
    <3> QED BY <1>4, <1>5, <2>0, <2>2, <3>1
  <2> QED BY Zenon, <2>1, <2>2 DEF Works, Tries
<1>7. /\ RowTries' <= Allowed'
      /\ Open' => RowTries' <= Tries(x)'
      /\ exec'[x].pc = "release" \/ Over(x)' => ~ Open' \/ Tries(x)' < Allowed'
  <2>1. CASE row' = SaveTask(exec'[x].task) /\ UNCHANGED count
    <3>1. row'.task = exec'[x].task \/ (row' = row /\ row.task.status \in Terminal)
      BY Zenon, <2>1, Saved DEF Works, TaskInv
    <3>2. \/ RowTries' = Tries(x)' /\ (Over(x)' => ~ Open')
          \/ RowTries' = RowTries /\ ~ Open'
      BY Zenon, <3>1 DEF RowTries, Tries, Over, Open
    <3> QED BY <1>3, <1>4, <1>5, <1>6, <3>2 DEF Settling
  <2>2. CASE Faulty("write") /\ UNCHANGED row
    <3>1. RowTries' = RowTries /\ (Open' => Open) /\ Allowed' = Allowed + 1
      BY Zenon, <1>5, <2>2 DEF RowTries, Open
    <3> QED BY <1>3, <1>4, <1>5, <1>6, <3>1 DEF Counted
  <2>3. CASE UNCHANGED <<row, count>> /\ exec'[x].task = exec[x].task
    <3>1. /\ RowTries' = RowTries /\ (Open' => Open) /\ Allowed' = Allowed
          /\ Tries(x)' = Tries(x) /\ (Over(x)' => Over(x))
      BY Zenon, <2>3 DEF RowTries, Open, Allowed, Trouble, Tries, Over
    <3> QED BY <1>3, <1>4, <1>5, <1>6, <3>1 DEF Counted, Settling
  <2> QED BY Zenon, <2>1, <2>2, <2>3 DEF Works, persistTask
<1>8. Counted(x)'
  <2>1. exec'[x].pc # "attempt" /\ Tries(x)' <= Allowed' /\ (Stopping(x)' => Tries(x)' < Allowed')
    BY <1>1, <1>4, <1>5, <1>6
  <2> QED BY Zenon, <1>7, <2>1 DEF Counted, Settling
<1>9. CancelTries' <= Allowed' /\ \A r \in Replicas : MirrorTries(r)' <= Allowed'
  BY <1>3, <1>4, <1>5
<1> QED BY Zenon, <1>2, <1>7, <1>8, <1>9 DEF AttemptInv

LEMMA ReleaseKeepsAttempts ==
    ASSUME TaskInv, LeaseInv, AttemptInv, Undisturbed, [Next]_vars, NEW x \in Execs, Release(x)
    PROVE  AttemptInv'
<1> DEFINE r == exec[x].on
<1>1. x \in Active /\ (\A y \in Active : y = x) /\ Counted(x) /\ exec[x].pc = "release"
  BY Zenon DEF Release, Active, LeaseInv, Holding, AttemptInv
<1>2. Active' = {}
  BY Zenon, <1>1 DEF Release, Ended, Active, TaskInv, ExecShape, Idle
<1>3. /\ Tries(x) \in Nat /\ RowTries \in Nat /\ CancelTries \in Nat
      /\ \A q \in Replicas : MirrorTries(q) \in Nat /\ MirrorTries(q) <= Allowed
      /\ RowTries <= Allowed /\ CancelTries <= Allowed
      /\ Allowed \in Nat /\ Allowed' \in Nat /\ Allowed <= Allowed'
  BY Zenon, AllowedGrows, TriesCount DEF AttemptInv
<1>4. RowTries' = RowTries /\ (Open' => Open)
  BY Zenon DEF Release, ReleaseTaskAdoption, TaskInv, RowShape, Open, RowTries
<1>5. /\ mirror' = [mirror EXCEPT ![r] = IF tasks[r] = x THEN exec[x].task ELSE @]
      /\ CancelTries' = CancelTries
  BY Zenon DEF Release, Ended, TaskInv, CancelShape, CancelTries
<1>6. \A q \in Replicas : MirrorTries(q)' \in {MirrorTries(q), Tries(x)}
  <2>1. DOMAIN mirror = Replicas
    BY Zenon DEF TaskInv, CacheShape
  <2>2. \A q \in Replicas : mirror'[q] \in {mirror[q], exec[x].task}
    BY Zenon, <1>5, <2>1
  <2> QED BY Zenon, <2>2 DEF MirrorTries, Tries
<1>7. (Open' => RowTries' < Allowed') /\ \A q \in Replicas : MirrorTries(q)' <= Allowed'
  BY <1>1, <1>3, <1>4, <1>6 DEF Counted
<1>8. RowTries' <= Allowed' /\ CancelTries' <= Allowed'
  BY <1>3, <1>4, <1>5
<1> QED BY Zenon, <1>2, <1>7, <1>8 DEF AttemptInv

\* The bounds on the copies that are not being executed.
Bounded ==
    /\ RowTries \in Nat /\ RowTries <= Allowed /\ CancelTries \in Nat /\ CancelTries <= Allowed
    /\ \A r \in Replicas : MirrorTries(r) \in Nat /\ MirrorTries(r) <= Allowed
    /\ \A x \in Execs : Tries(x) \in Nat /\ Tries(x) <= Allowed
    /\ \A r \in Replicas : Object(r).attempts \in Nat /\ Object(r).attempts <= Allowed

LEMMA CopiesBounded ==
    ASSUME TaskInv, AttemptInv, Undisturbed, [Next]_vars
    PROVE  Bounded /\ NewTask.attempts = 0 /\ NewTask.status = "pending"
<1>1. /\ RowTries \in Nat /\ RowTries <= Allowed /\ CancelTries \in Nat /\ CancelTries <= Allowed
      /\ \A r \in Replicas : MirrorTries(r) \in Nat /\ MirrorTries(r) <= Allowed
  BY Zenon, TriesCount DEF AttemptInv
<1>2. \A x \in Execs : Tries(x) \in Nat /\ Tries(x) <= Allowed
  <2> TAKE x \in Execs
  <2>1. CASE exec[x].pc = "idle"
    <3>1. exec[x].task = NewTask
      BY <2>1 DEF TaskInv, ExecShape, Idle
    <3>2. Tries(x) = 0
      BY <3>1 DEF NewTask, Tries
    <3> QED BY <3>2, AllowedGrows
  <2>2. CASE exec[x].pc # "idle"
    BY Zenon, <2>2, TriesCount DEF AttemptInv, Active, Counted
  <2> QED BY Zenon, <2>1, <2>2
<1>3. \A r \in Replicas : Object(r).attempts \in Nat /\ Object(r).attempts <= Allowed
  BY Zenon, <1>1, <1>2 DEF Object, Tries, MirrorTries
<1> QED BY Zenon, <1>1, <1>2, <1>3 DEF Bounded, NewTask

LEMMA AdoptKeepsAttempts ==
    ASSUME TaskInv, LeaseInv, AttemptInv, Undisturbed, [Next]_vars, NEW r \in Replicas, Adopt(r)
    PROVE  AttemptInv'
<1>1. PICK x \in Execs :
          /\ exec[x].pc = "idle"
          /\ exec' = [exec EXCEPT ![x] = [Idle EXCEPT !.pc = "attempt", !.on = r, !.task = row.task]]
          /\ tasks' = [tasks EXCEPT ![r] = x]
  BY Zenon, AdoptBy
<1>2. /\ row.exists /\ row.task.status \notin Terminal /\ row' = [row EXCEPT !.owner = r, !.fresh = TRUE]
      /\ mirror' = [mirror EXCEPT ![r] = NewTask] /\ UNCHANGED <<cancel, count>>
  BY Zenon DEF Adopt, FindAdoptableTasks
<1>3. Active = {} /\ Bounded /\ NewTask.attempts = 0
  BY Zenon, AdoptKeepsLease, CopiesBounded
<1>4. Active' = {x}
  BY Zenon, <1>1, <1>3 DEF Active, TaskInv, ExecShape, Idle
<1>5. RowTries < Allowed /\ Allowed' = Allowed /\ Allowed \in Nat
  BY Zenon, <1>2, <1>3, AllowedGrows DEF AttemptInv, Open, Allowed, Trouble
<1>6. RowTries' = RowTries /\ CancelTries' = CancelTries
  BY Zenon, <1>2 DEF TaskInv, RowShape, RowTries, CancelTries
<1>7. Counted(x)'
  <2>1. /\ exec'[x].task = row.task /\ exec'[x].pc = "attempt" /\ exec'[x].why = "none"
    BY Zenon, <1>1 DEF TaskInv, ExecShape, Idle
  <2>2. Tries(x)' = RowTries /\ ~ Over(x)'
    BY Zenon, <1>2, <2>1 DEF Tries, Over, RowTries
  <2> QED BY <1>3, <1>5, <1>6, <2>1, <2>2 DEF Counted, Bounded
<1>8. \A q \in Replicas : MirrorTries(q)' \in {MirrorTries(q), 0}
  <2>1. \A q \in Replicas : mirror'[q] \in {mirror[q], NewTask}
    BY Zenon, <1>2 DEF TaskInv, CacheShape
  <2> QED BY Zenon, <1>3, <2>1 DEF MirrorTries
<1>9. /\ RowTries' <= Allowed' /\ CancelTries' <= Allowed'
      /\ \A q \in Replicas : MirrorTries(q)' <= Allowed'
  BY <1>3, <1>5, <1>6, <1>8 DEF Bounded
<1> QED BY Zenon, <1>4, <1>7, <1>9 DEF AttemptInv

LEMMA ShutdownKeepsAttempts ==
    ASSUME TaskInv, AttemptInv, Undisturbed, [Next]_vars, NEW r \in Replicas, Shutdown(r)
    PROVE  AttemptInv'
<1>1. /\ UNCHANGED <<row, mirror, cancel>> /\ Faulty("crash")
      /\ exec' = [x \in Execs |->
            IF exec[x].on = r /\ exec[x].ctx = "live" THEN [exec[x] EXCEPT !.ctx = "stopped"] ELSE exec[x]]
  BY Zenon DEF Shutdown
<1>2. \A x \in Execs : /\ exec'[x].pc = exec[x].pc /\ exec'[x].on = exec[x].on
                       /\ exec'[x].task = exec[x].task /\ exec'[x].why = exec[x].why
  BY Zenon, <1>1 DEF TaskInv, ExecShape
<1>3. Allowed \in Nat /\ Allowed' = Allowed + 1 /\ Bounded
  BY Zenon, <1>1, AllowedGrows, CopiesBounded
<1>4. Active' = Active /\ (Open' => Open)
  BY Zenon, <1>1, <1>2 DEF Active, Open
<1>5. /\ RowTries' = RowTries /\ CancelTries' = CancelTries
      /\ \A q \in Replicas : MirrorTries(q)' = MirrorTries(q)
  BY Zenon, <1>1 DEF RowTries, CancelTries, MirrorTries
<1>6. ASSUME NEW x \in Active PROVE Counted(x)'
  <2>1. x \in Execs /\ Counted(x)
    BY Zenon, <1>6 DEF AttemptInv, Active
  <2>2. Tries(x)' = Tries(x) /\ (Over(x) => Over(x)') /\ (Over(x)' => Over(x))
    BY Zenon, <1>2, <2>1 DEF Tries, Over
  <2> QED BY <1>2, <1>3, <1>4, <1>5, <2>1, <2>2 DEF Counted, Bounded
<1>7. /\ RowTries' < Allowed' /\ CancelTries' <= Allowed'
      /\ \A q \in Replicas : MirrorTries(q)' <= Allowed'
  BY <1>3, <1>5 DEF Bounded
<1>8. RowTries' <= Allowed'
  BY <1>3, <1>5 DEF Bounded
<1> QED BY Zenon, <1>4, <1>6, <1>7, <1>8 DEF AttemptInv

LEMMA GoneKeepsAttempts ==
    ASSUME TaskInv, LeaseInv, AttemptInv, Undisturbed, [Next]_vars, NEW r \in Replicas, Gone(r),
           proc[r] = "stopping" \/ Faulty("crash") \/ Faulty("write")
    PROVE  AttemptInv'
<1>1. Active' = {x \in Active : exec[x].on # r} /\ \A x \in Active' : exec'[x] = exec[x]
  BY Zenon DEF Gone, Active, Idle
<1>2. /\ Allowed \in Nat /\ Allowed' \in Nat /\ Allowed <= Allowed' /\ Bounded /\ NewTask.attempts = 0
      /\ proc[r] = "stopping" \/ Allowed' = Allowed + 1
  BY Zenon, AllowedGrows, CopiesBounded
<1>3. RowTries' = RowTries /\ (Open' => Open)
  BY Zenon DEF Gone, TaskInv, RowShape, Open, RowTries
<1>4. ASSUME NEW x \in Active' PROVE Counted(x)'
  <2>1. /\ x \in Execs /\ Counted(x) /\ exec[x].on # r /\ exec'[x] = exec[x] /\ exec[x].on \in Replicas
    <3>1. x \in Active /\ exec[x].on # r /\ exec'[x] = exec[x]
      BY Zenon, <1>1, <1>4
    <3> QED BY Zenon, <3>1 DEF AttemptInv, Active, TaskInv, ExecShape
  <2>2. Tries(x)' = Tries(x) /\ (Over(x) => Over(x)') /\ (Over(x)' => Over(x)) /\ (Stopping(x)' => Stopping(x))
    <3>1. \A q \in Replicas : q # r => proc'[q] = proc[q]
      BY Zenon DEF Gone, TaskInv, CacheShape
    <3> QED BY Zenon, <2>1, <3>1 DEF Tries, Over, Stopping
  <2> QED BY <1>2, <1>3, <2>1, <2>2 DEF Counted, Bounded
<1>5. ASSUME Active' = {}, Open' PROVE RowTries' < Allowed'
  <2>1. CASE Active = {}
    <3>1. RowTries < Allowed
      BY Zenon, <1>3, <1>5, <2>1 DEF AttemptInv
    <3> QED BY <1>2, <1>3, <3>1 DEF Bounded
  <2>2. CASE Active # {}
    <3>1. PICK x \in Active : exec[x].on = r
      BY Zenon, <1>1, <1>5, <2>2
    <3>2. Counted(x) /\ x \in Execs
      BY Zenon, <3>1 DEF AttemptInv, Active
    <3>3. /\ RowTries <= Tries(x) /\ Tries(x) <= Allowed
          /\ Tries(x) < Allowed \/ Allowed' = Allowed + 1
      BY Zenon, <1>2, <1>3, <1>5, <3>1, <3>2 DEF Counted, Stopping
    <3> QED BY <1>2, <1>3, <3>2, <3>3 DEF Bounded
  <2> QED BY Zenon, <2>1, <2>2
<1>6. /\ \A q \in Replicas : MirrorTries(q)' \in {MirrorTries(q), 0}
      /\ CancelTries' \in {CancelTries, 0}
  <2>1. (\A q \in Replicas : mirror'[q] \in {mirror[q], NewTask}) /\ cancel'.task \in {cancel.task, NewTask}
    BY Zenon DEF Gone, NoCancel, TaskInv, CacheShape
  <2> QED BY Zenon, <1>2, <2>1 DEF MirrorTries, CancelTries
<1>7. /\ RowTries' <= Allowed' /\ CancelTries' <= Allowed'
      /\ \A q \in Replicas : MirrorTries(q)' <= Allowed'
  BY <1>2, <1>3, <1>6 DEF Bounded
<1> QED BY Zenon, <1>4, <1>5, <1>7 DEF AttemptInv

LEMMA MarkKeepsAttempts ==
    ASSUME TaskInv, AttemptInv, Undisturbed, [Next]_vars, MarkStep
    PROVE  AttemptInv'
<1>1. /\ Allowed \in Nat /\ Allowed' \in Nat /\ Allowed <= Allowed' /\ Bounded /\ NewTask.attempts = 0
      /\ Faulty("write") => Allowed' = Allowed + 1
  BY Zenon, AllowedGrows, CopiesBounded
<1>2. /\ cancel.on \in Replicas /\ cancel'.task = NewTask /\ UNCHANGED proc
  BY Zenon DEF MarkStep, TaskInv, CancelShape, NoCancel
<1>3. \A t : IsTask(t) => Cancelled(t).attempts = t.attempts /\ Cancelled(t).status = "cancelled" /\ IsTask(Cancelled(t))
  BY Zenon DEF IsTask, Cancelled, Statuses, Terminal
<1>4. \/ ~ Open' /\ RowTries' \in Nat /\ RowTries' <= Allowed
      \/ (Open' => Open) /\ RowTries' = RowTries /\ Allowed' = Allowed + 1
  <2>1. CASE \E t : /\ IsTask(t) /\ row' = SaveTask(Cancelled(t))
                   /\ t \in {cancel.task} \cup {exec[x].task : x \in Execs} \cup {mirror[cancel.on]}
    <3>1. PICK t : /\ IsTask(t) /\ row' = SaveTask(Cancelled(t))
                   /\ t \in {cancel.task} \cup {exec[x].task : x \in Execs} \cup {mirror[cancel.on]}
      BY Zenon, <2>1
    <3>2. t.attempts \in Nat /\ t.attempts <= Allowed
      BY Zenon, <1>1, <1>2, <3>1 DEF Bounded, CancelTries, MirrorTries, Tries
    <3>3. /\ IsTask(Cancelled(t)) /\ Cancelled(t).attempts = t.attempts /\ Cancelled(t).status \in Terminal
      BY Zenon, <1>3, <3>1 DEF Terminal
    <3>4. \/ row' = row /\ row.exists /\ row.task.status \in Terminal
          \/ row'.task = Cancelled(t)
      BY Zenon, <3>1, <3>3, Saved DEF TaskInv
    <3> QED BY Zenon, <1>1, <3>2, <3>3, <3>4 DEF Open, Bounded, RowTries
  <2>2. CASE Faulty("write") /\ UNCHANGED row
    BY Zenon, <1>1, <2>2 DEF Open, RowTries
  <2> QED BY Zenon, <2>1, <2>2 DEF MarkStep
<1>5. /\ Active' = Active
      /\ \A x \in Execs : /\ exec'[x].pc = exec[x].pc /\ exec'[x].on = exec[x].on /\ exec'[x].why = exec[x].why
                           /\ exec'[x].task.attempts = exec[x].task.attempts
                           /\ exec'[x].task.status \in {exec[x].task.status, "cancelled"}
  <2>1. ASSUME NEW x \in Execs
        PROVE  /\ exec'[x].pc = exec[x].pc /\ exec'[x].on = exec[x].on /\ exec'[x].why = exec[x].why
               /\ exec'[x].task \in {exec[x].task, Cancelled(exec[x].task)} /\ IsTask(exec[x].task)
    BY <2>1 DEF MarkStep, Marked, TaskInv, ExecShape
  <2>2. ASSUME NEW x \in Execs
        PROVE  /\ exec'[x].task.attempts = exec[x].task.attempts
               /\ exec'[x].task.status \in {exec[x].task.status, "cancelled"}
    <3> DEFINE t == exec[x].task
               u == exec'[x].task
    <3>1. IsTask(t) /\ u \in {t, Cancelled(t)}
      BY Zenon, <2>1, <2>2
    <3> HIDE DEF t, u
    <3>2. u.attempts = t.attempts /\ u.status \in {t.status, "cancelled"}
      BY Zenon, <1>3, <3>1
    <3> QED BY Zenon, <3>2 DEF t, u
  <2>3. Active' = Active
    BY Zenon, <2>1 DEF Active
  <2> QED BY Zenon, <2>1, <2>2, <2>3
<1>6. ASSUME NEW x \in Active PROVE Counted(x)'
  <2>1. x \in Execs /\ Counted(x) /\ "cancelled" \in Terminal
    BY Zenon, <1>6 DEF AttemptInv, Active, Terminal
  <2>2. /\ Tries(x)' = Tries(x) /\ (Over(x) => Over(x)') /\ (Stopping(x)' => Stopping(x))
        /\ exec'[x].why = exec[x].why /\ exec'[x].pc = exec[x].pc
        /\ exec[x].task.status = "cancelled" => exec'[x].task.status = "cancelled"
    BY Zenon, <1>2, <1>5, <2>1 DEF Tries, Over, Stopping
  <2>3. Tries(x) \in Nat /\ Tries(x) <= Allowed /\ RowTries \in Nat
    BY Zenon, <1>1, <2>1 DEF Bounded
  <2>4. CASE ~ Open'
    BY <1>1, <2>1, <2>2, <2>3, <2>4 DEF Counted
  <2>5. CASE (Open' => Open) /\ RowTries' = RowTries /\ Allowed' = Allowed + 1
    BY <1>1, <2>1, <2>2, <2>3, <2>5 DEF Counted
  <2> QED BY Zenon, <1>4, <2>4, <2>5
<1>7. \A q \in Replicas : MirrorTries(q)' = MirrorTries(q)
  <2>1. \A q \in Replicas : IsTask(mirror[q]) /\ mirror'[q] \in {mirror[q], Cancelled(mirror[q])}
    BY Zenon, <1>2 DEF MarkStep, TaskInv, CacheShape
  <2> QED BY Zenon, <1>3, <2>1 DEF MirrorTries
<1>8. CancelTries' = 0
  BY Zenon, <1>1, <1>2 DEF CancelTries
<1>9. /\ RowTries' <= Allowed' /\ CancelTries' <= Allowed' /\ (Open' => RowTries' < Allowed')
      /\ \A q \in Replicas : MirrorTries(q)' <= Allowed'
  BY <1>1, <1>4, <1>7, <1>8 DEF Bounded
<1> QED BY Zenon, <1>5, <1>6, <1>9 DEF AttemptInv

\* The attempts stay within what the faults allow.
LEMMA AttemptInvInductive == TaskInv /\ LeaseInv /\ AttemptInv /\ [Next]_vars => AttemptInv'
<1> SUFFICES ASSUME TaskInv, LeaseInv, AttemptInv, [Next]_vars, Undisturbed' PROVE AttemptInv'
  BY ZenonT(40) DEF AttemptInv
<1>1. Undisturbed /\ ~ CountedOnly("cleanup") /\ TaskInv'
  BY CountsGrow, TaskInvInductive DEF Undisturbed, Kinds, CountedOnly
<1>2. /\ Allowed \in Nat /\ Allowed' \in Nat /\ Allowed <= Allowed' /\ Bounded
      /\ NewTask.attempts = 0 /\ NewTask.status = "pending" /\ MaxAttempts <= Allowed /\ MaxAttempts \in Nat \ {0}
  BY Zenon, <1>1, AllowedGrows, CopiesBounded, TaskAssumption
<1>3. ASSUME \A x \in Execs : /\ exec'[x].pc = exec[x].pc /\ exec'[x].on = exec[x].on
                              /\ exec'[x].task = exec[x].task /\ exec'[x].why = exec[x].why,
             RowTries' = RowTries, Open' => Open,
             cancel' = cancel \/ cancel'.task \in {cancel.task, row.task, NewTask} \cup {Object(r) : r \in Replicas},
             \A r \in Replicas : mirror'[r] \in {mirror[r], row.task, NewTask},
             \A r \in Replicas : proc'[r] = "stopping" => proc[r] = "stopping"
      PROVE  AttemptInv'
  <2>1. CancelTries' \in {CancelTries, RowTries, 0} \cup {Object(r).attempts : r \in Replicas}
    BY Zenon, <1>2, <1>3 DEF CancelTries, RowTries
  <2>2. \A r \in Replicas : MirrorTries(r)' \in {MirrorTries(r), RowTries, 0}
    BY Zenon, <1>2, <1>3 DEF MirrorTries, RowTries
  <2>3. CancelTries' <= Allowed' /\ \A r \in Replicas : MirrorTries(r)' <= Allowed'
    BY <1>2, <2>1, <2>2 DEF Bounded
  <2> QED BY Zenon, <1>1, <1>2, <1>3, <2>3, QuietAttempts
<1>4. CASE UNCHANGED <<row, exec, proc, mirror, cancel>>
  BY Zenon, <1>3, <1>4 DEF Open, RowTries
<1>5. ASSUME NEW r \in Replicas, CreateTask(r) PROVE AttemptInv'
  <2>1. /\ Active' = {} /\ ~ row.exists /\ row' = SaveTask(NewTask) /\ UNCHANGED cancel
        /\ mirror' = [mirror EXCEPT ![r] = NewTask]
    BY Zenon, <1>5 DEF CreateTask, TaskInv, Uncreated, Active
  <2>2. row'.task = NewTask
    BY Zenon, <2>1 DEF SaveTask
  <2>3. RowTries' = 0 /\ CancelTries' = CancelTries /\ \A q \in Replicas : MirrorTries(q)' \in {MirrorTries(q), 0}
    <3>1. \A q \in Replicas : mirror'[q] \in {mirror[q], NewTask}
      BY Zenon, <2>1 DEF TaskInv, CacheShape
    <3> QED BY Zenon, <1>2, <2>1, <2>2, <3>1 DEF RowTries, CancelTries, MirrorTries
  <2>4. /\ RowTries' < Allowed' /\ RowTries' <= Allowed' /\ CancelTries' <= Allowed'
        /\ \A q \in Replicas : MirrorTries(q)' <= Allowed'
    BY <1>2, <2>3 DEF Bounded
  <2> QED BY Zenon, <2>1, <2>4 DEF AttemptInv
<1>6. ASSUME NEW r \in Replicas, GetTaskByID(r) PROVE AttemptInv'
  <2>1. UNCHANGED <<row, exec, proc, cancel>> /\ mirror' = [mirror EXCEPT ![r] = row.task]
    BY Zenon, <1>6 DEF GetTaskByID
  <2>2. \A q \in Replicas : mirror'[q] \in {mirror[q], row.task, NewTask}
    BY Zenon, <2>1 DEF TaskInv, CacheShape
  <2> QED BY Zenon, <1>3, <2>1, <2>2 DEF Open, RowTries
<1>7. ASSUME NEW r \in Replicas, CancelTask(r) PROVE AttemptInv'
  <2>1. /\ UNCHANGED <<row, exec, proc>> /\ cancel'.task \in {row.task, Object(r)}
        /\ mirror' = [mirror EXCEPT ![r] = IF tasks[r] = None THEN row.task ELSE @]
    BY <1>7 DEF CancelTask
  <2>2. \A q \in Replicas : mirror'[q] \in {mirror[q], row.task, NewTask}
    BY Zenon, <2>1 DEF TaskInv, CacheShape
  <2> QED BY Zenon, <1>3, <2>1, <2>2 DEF Open, RowTries
<1>8. ASSUME NEW r \in Replicas, CleanupOldTasks(r) PROVE AttemptInv'
  BY Zenon, <1>1, <1>8, FaultCounted DEF CleanupOldTasks, TaskInv
<1>9. ASSUME NEW r \in Replicas, NewTasksService(r) PROVE AttemptInv'
  <2>1. /\ UNCHANGED <<row, exec, cancel>> /\ mirror' = [mirror EXCEPT ![r] = row.task]
        /\ proc' = [proc EXCEPT ![r] = "up"]
    BY Zenon, <1>9 DEF NewTasksService
  <2>2. \A q \in Replicas : mirror'[q] \in {mirror[q], row.task, NewTask} /\ (proc'[q] = "stopping" => proc[q] = "stopping")
    BY Zenon, <2>1 DEF TaskInv, CacheShape
  <2> QED BY Zenon, <1>3, <2>1, <2>2 DEF Open, RowTries
<1>10. ASSUME NEW x \in Execs, Renew(x) PROVE AttemptInv'
  <2>1. \A y \in Execs : SameButCtx(y)
    BY Zenon, <1>10, RenewKeepsTask
  <2>2. row'.task = row.task /\ (Open' => Open) /\ UNCHANGED <<proc, mirror, cancel>>
    BY Zenon, <1>10 DEF Renew, TaskInv, RowShape, Open
  <2> QED BY Zenon, <1>3, <2>1, <2>2 DEF SameButCtx, RowTries
<1>11. CASE CancelTaskRequest
  <2>1. \A y \in Execs : SameButCtx(y)
    BY Zenon, <1>11, CancelTaskRequestKeepsTask
  <2>2. UNCHANGED <<row, proc, mirror>> /\ cancel'.task \in {cancel.task, NewTask}
    BY <1>11 DEF CancelTaskRequest, NoCancel, TaskInv, CancelShape
  <2> QED BY Zenon, <1>3, <2>1, <2>2 DEF SameButCtx, Open, RowTries
<1>12. CASE MarkTaskCancelled
  BY Zenon, <1>1, <1>12, MarkCases, MarkKeepsAttempts, GoneKeepsAttempts
<1>13. CASE Lapse \/ BackoffEnds
  <2>1. UNCHANGED <<exec, proc, mirror, cancel>> /\ RowTries' = RowTries /\ (Open' => Open)
    BY <1>13 DEF Lapse, BackoffEnds, TaskInv, RowShape, IsTask, Open, RowTries
  <2> QED BY Zenon, <1>3, <2>1
<1>14. ASSUME NEW x \in Execs, Execute(x) PROVE AttemptInv'
  <2>1. CASE Release(x)
    BY Zenon, <1>1, <2>1, ReleaseKeepsAttempts
  <2>2. CASE ~ Release(x)
    <3>1. Works(x)
      BY Zenon, <1>14, <2>2, ExecuteWorks
    <3>2. x \in Active /\ Holding(x) /\ Counted(x)
      BY Zenon, <1>1, <3>1 DEF Works, Active, LeaseInv, AttemptInv
    <3> QED BY Zenon, <1>1, <1>14, <2>2, <3>1, <3>2, ExecuteSettles, WorksKeepsAttempts
  <2> QED BY Zenon, <2>1, <2>2
<1>15. ASSUME NEW r \in Replicas, Adopt(r) \/ Shutdown(r) \/ Exit(r) PROVE AttemptInv'
  BY Zenon, <1>1, <1>15, AdoptKeepsAttempts, ShutdownKeepsAttempts, GoneKeepsAttempts DEF Exit
<1> QED BY Zenon, <1>4, <1>5, <1>6, <1>7, <1>8, <1>9, <1>10, <1>11, <1>12, <1>13, <1>14, <1>15
        DEF Next, vars, RequestEnds

\* MaxAttempts and the faults so far bound the attempts of a task.
THEOREM AttemptsWithinFaults == Spec => []AttemptsBounded
<1>1. Init => LeaseInv
  BY DEF Init, LeaseInv, Active, Idle
<1>2. Init => AttemptInv
  <2> SUFFICES ASSUME Init PROVE AttemptInv
    BY Zenon
  <2>1. Active = {} /\ ~ Open /\ row.task = NewTask /\ cancel.task = NewTask /\ \A r \in Replicas : mirror[r] = NewTask
    BY Zenon DEF Init, Active, Idle, Open, NoRow, NoCancel
  <2>2. NewTask.attempts = 0 /\ Allowed = MaxAttempts
    BY TaskAssumption DEF NewTask, Init, Allowed, Trouble
  <2>3. /\ RowTries = 0 /\ CancelTries = 0 /\ \A r \in Replicas : MirrorTries(r) = 0
    BY Zenon, <2>1, <2>2 DEF RowTries, CancelTries, MirrorTries
  <2> QED BY <2>1, <2>2, <2>3, TaskAssumption DEF AttemptInv
<1>3. AttemptInv => AttemptsBounded
  BY Zenon DEF AttemptInv, AttemptsBounded, Undisturbed, Allowed, RowTries
<1> QED BY <1>1, <1>2, <1>3, TaskInvInit, TaskInvInductive, LeaseInvInductive, AttemptInvInductive, PTL DEF Spec

------------------------------------------------------------------------------
(* Cancellation                                                             *)

Unasked == asked = "no" /\ (Keyed => count.lapse = 0 /\ count.write = 0)

RequestShape ==
    /\ DOMAIN req = Requests
    /\ \A i \in Requests : DOMAIN req[i] = {"status", "key"}
    /\ count.created = 0 => Created = {}

Waiting(x) == exec[x].pc \in {"link", "wait"}

\* Nothing is cancelled, and no execution waits for a request that is.
NothingCancelled ==
    /\ cancel.pc = "idle" /\ row.task.status # "cancelled"
    /\ \A r \in Replicas : mirror[r].status # "cancelled"
    /\ \A x \in Execs : /\ exec[x].task.status # "cancelled" /\ exec[x].why # "request cancelled"
                        /\ Waiting(x) => exec[x].rid \in Created /\ req[exec[x].rid].status # "cancelled"

\* Every execution waits for a request of its own.
OwnRequests == \A x, y \in Execs : Waiting(x) /\ Waiting(y) /\ exec[x].rid = exec[y].rid => x = y

\* With an outcome an executor has nothing left to do but to leave.
Leaving(e) == e.pc = "release" \/ (e.pc \in {"unlink", "settle"} /\ e.why = "ok")

\* What the executor x of a keyed task has.
Spent(x) ==
    LET e == exec[x] IN
    /\ Open => /\ row.owner = e.on /\ row.fresh /\ e.task.attempts = row.task.attempts
               /\ e.task.status \notin Terminal
               /\ \A y \in Active : y = x
    /\ ~ Open => e.task.status \in Terminal
    /\ e.task.status \in Terminal => Leaving(e)
    /\ e.pc = "create" => \A i \in Created : req[i].key < e.task.attempts

\* With a key, an open row has one executor, which is at the row's attempt, and
\* no request has the key of an attempt to come; a row that is not open leaves
\* only an executor that is done.
KeysSpent ==
    /\ Open => /\ \A i \in Created : req[i].key \in Nat /\ req[i].key <= row.task.attempts
               /\ \A r \in Replicas : mirror[r].status \notin Terminal
    /\ \A x \in Active : Spent(x)

Demand == NothingCancelled /\ OwnRequests /\ (Keyed => KeysSpent)
DemandInv ==
    /\ RequestShape
    /\ Unasked => Demand

\* Most steps at most end a request that is open.
SameRequests ==
    /\ DOMAIN req' = Requests /\ \A i \in Requests : DOMAIN req'[i] = {"status", "key"}
    /\ Created' = Created /\ \A i \in Requests : req'[i].key = req[i].key

LEMMA CancelRequestKeeps ==
    ASSUME RequestShape, NEW rid, req' = CancelRequest(rid)
    PROVE  SameRequests
<1>1. CASE rid # None /\ Live(rid)
  <2>1. /\ DOMAIN req' = Requests
        /\ \A i \in Requests : DOMAIN req'[i] = {"status", "key"} /\ req'[i].key = req[i].key
        /\ \A i \in Requests : req'[i].status = IF i = rid THEN "cancelled" ELSE req[i].status
    BY Zenon, <1>1 DEF RequestShape, CancelRequest
  <2>2. Created' = Created
    BY Zenon, <1>1, <2>1 DEF Created, Live
  <2> QED BY Zenon, <2>1, <2>2 DEF SameRequests
<1>2. CASE UNCHANGED req
  BY Zenon, <1>2 DEF RequestShape, SameRequests, Created
<1> QED BY Zenon, <1>1, <1>2 DEF CancelRequest

LEMMA RequestEndsKeeps ==
    ASSUME RequestShape, NEW i \in Requests, RequestEnds(i)
    PROVE  SameRequests
<1>1. PICK st \in {"done", "failed", "cancelled"} : Live(i) /\ req' = [req EXCEPT ![i].status = st]
  BY Zenon DEF RequestEnds
<1>2. /\ DOMAIN req' = Requests
      /\ \A j \in Requests : DOMAIN req'[j] = {"status", "key"} /\ req'[j].key = req[j].key
      /\ \A j \in Requests : req'[j].status = IF j = i THEN st ELSE req[j].status
  BY Zenon, <1>1 DEF RequestShape
<1>3. Created' = Created
  BY Zenon, <1>1, <1>2 DEF Created, Live
<1> QED BY Zenon, <1>2, <1>3 DEF SameRequests

\* An attempt creates a request.
CreatesOne(x, i) ==
    /\ i \in Requests \ Created
    /\ req' = [req EXCEPT ![i] = [status |-> "open", key |-> AttemptKey(exec[x].task)]]

LEMMA CreatesOneKeeps ==
    ASSUME RequestShape, NEW x \in Execs, NEW i, CreatesOne(x, i)
    PROVE  /\ DOMAIN req' = Requests /\ \A j \in Requests : DOMAIN req'[j] = {"status", "key"}
           /\ i \in Requests \ Created /\ Created' = Created \cup {i}
           /\ req'[i].status = "open" /\ req'[i].key = AttemptKey(exec[x].task)
           /\ \A j \in Requests : j # i => req'[j] = req[j]
<1> DEFINE k == AttemptKey(exec[x].task)
<1>1. i \in Requests \ Created /\ req' = [req EXCEPT ![i] = [status |-> "open", key |-> k]]
  BY Zenon DEF CreatesOne
<1> HIDE DEF k
<1>2. /\ DOMAIN req' = Requests /\ \A j \in Requests : DOMAIN req'[j] = {"status", "key"}
      /\ req'[i].status = "open" /\ req'[i].key = k
      /\ \A j \in Requests : j # i => req'[j] = req[j]
  BY Zenon, <1>1 DEF RequestShape
<1>3. Created' = Created \cup {i}
  BY Zenon, <1>1, <1>2 DEF Created
<1> QED BY Zenon, <1>1, <1>2, <1>3 DEF k

LEMMA RequestShapeInductive ==
    ASSUME TaskInv, RequestShape, [Next]_vars
    PROVE  RequestShape'
<1>1. ASSUME SameRequests, count'.created = 0 => count.created = 0 PROVE RequestShape'
  BY ZenonT(40), <1>1 DEF SameRequests, RequestShape
<1>2. ASSUME UNCHANGED req, count'.created = 0 => count.created = 0 PROVE RequestShape'
  <2>1. SameRequests
    BY Zenon, <1>2 DEF SameRequests, RequestShape, Created
  <2> QED BY Zenon, <1>1, <1>2, <2>1
<1>3. CountShape /\ ExecShape /\ Uncreated
  BY Zenon DEF TaskInv
<1>4. /\ UNCHANGED count => count'.created = count.created
      /\ Faulty("write") => count'.created = count.created
      /\ Faulty("crash") => count'.created = count.created
      /\ Faulty("lapse") => count'.created = count.created
      /\ Faulty("cleanup") => count'.created = count.created
  BY Zenon, <1>3, FaultCounted DEF CountedOnly
<1>5. ASSUME NEW r \in Replicas,
             \/ GetTaskByID(r) \/ Adopt(r) \/ CancelTask(r) \/ CleanupOldTasks(r)
             \/ Shutdown(r) \/ Exit(r) \/ NewTasksService(r)
      PROVE  RequestShape'
  BY Zenon, <1>2, <1>4, <1>5 DEF GetTaskByID, Adopt, CancelTask, CleanupOldTasks, Shutdown, Exit, NewTasksService
<1>6. ASSUME NEW r \in Replicas, CreateTask(r) PROVE RequestShape'
  <2>1. count'.created = 1 /\ UNCHANGED req
    BY Zenon, <1>3, <1>6 DEF CreateTask, CountShape
  <2> QED BY <1>2, <2>1
<1>7. ASSUME NEW x \in Execs, Execute(x) PROVE RequestShape'
  <2>1. CASE StartAttempt(x) \/ Link(x) \/ Observe(x) \/ Unlink(x) \/ Settle(x)
    <3>1. UNCHANGED req /\ Works(x)
      BY Zenon, <2>1, <1>7, ExecuteWorks DEF StartAttempt, Link, Observe, Unlink, Settle, Release
    <3> QED BY Zenon, <1>2, <1>4, <3>1 DEF Works, persistTask
  <2>2. CASE Depart(x)
    BY Zenon, <1>1, <1>2, <1>4, <2>2, CancelRequestKeeps DEF Depart
  <2>3. CASE Release(x)
    BY Zenon, <1>2, <1>4, <2>3 DEF Release
  <2>4. CASE CreateRequest(x)
    <3>1. UNCHANGED count /\ count.created # 0
      BY Zenon, <1>3, <2>4 DEF CreateRequest, Uncreated
    <3>2. ASSUME NEW i \in Requests, CreatesOne(x, i) PROVE RequestShape'
      BY Zenon, <3>1, <3>2, CreatesOneKeeps DEF RequestShape
    <3> QED BY Zenon, <1>2, <1>4, <2>4, <3>1, <3>2 DEF CreateRequest, CreatesOne
  <2> QED BY Zenon, <1>7, <2>1, <2>2, <2>3, <2>4 DEF Execute
<1>8. ASSUME NEW x \in Execs, Renew(x) PROVE RequestShape'
  BY Zenon, <1>2, <1>8 DEF Renew
<1>9. CASE CancelTaskRequest
  BY Zenon, <1>1, <1>2, <1>4, <1>9, CancelRequestKeeps DEF CancelTaskRequest
<1>10. CASE MarkTaskCancelled \/ Lapse \/ BackoffEnds
  BY Zenon, <1>2, <1>4, <1>10 DEF MarkTaskCancelled, Lapse, BackoffEnds
<1>11. ASSUME NEW i \in Requests, RequestEnds(i) PROVE RequestShape'
  BY Zenon, <1>1, <1>4, <1>11, RequestEndsKeeps DEF RequestEnds
<1>12. CASE UNCHANGED vars
  BY Zenon, <1>2, <1>12 DEF vars
<1> QED BY Zenon, <1>5, <1>6, <1>7, <1>8, <1>9, <1>10, <1>11, <1>12 DEF Next

\* A step of an executor while nobody asked for a cancellation: it only ever waits
\* for a request it created, and ends no other.
Stepped(x) ==
    LET e == exec[x]
        f == exec'[x]
    IN  /\ f.task.status # "cancelled" /\ f.why # "request cancelled"
        /\ f.pc = "wait" => e.pc = "link" /\ f.rid = e.rid
        /\ f.pc = "link" => /\ e.pc = "create" /\ f.task = e.task
                            /\ f.rid \in Requests \ Created /\ Created' = Created \cup {f.rid}
                            /\ req'[f.rid].status = "open" /\ req'[f.rid].key = AttemptKey(e.task)
        /\ f.pc # "link" => Created' = Created
        /\ \A i \in Created :
             /\ req'[i].key = req[i].key
             /\ req'[i].status = req[i].status \/ (e.pc = "wait" /\ f.pc = "unlink" /\ i = e.rid)

LEMMA NoObjectCancelled ==
    ASSUME TaskInv, NothingCancelled, NEW r \in Replicas
    PROVE  ~ isTaskCancelled(r)
BY Zenon DEF NothingCancelled, TaskInv, CacheShape, isTaskCancelled, Object

\* The steps that leave the requests alone.
LEMMA QuietStepped ==
    ASSUME NEW x \in Execs, UNCHANGED req, exec'[x].pc # "link",
           exec'[x].task.status # "cancelled", exec'[x].why # "request cancelled",
           exec'[x].pc = "wait" => exec[x].pc = "link" /\ exec'[x].rid = exec[x].rid
    PROVE  Stepped(x)
BY Zenon DEF Stepped, Created

LEMMA CreateRequestStepped ==
    ASSUME TaskInv, RequestShape, NothingCancelled, Keyed => KeysSpent, NEW x \in Execs, CreateRequest(x)
    PROVE  Stepped(x)
<1> DEFINE e == exec[x]
           same == {i \in Created : Keyed /\ req[i].key = AttemptKey(e.task)}
           next == {i \in Requests \ Created : 1..(i - 1) \subseteq Created}
<1>0. ExecShape
  BY Zenon DEF TaskInv
<1>1. /\ e.pc = "create" /\ e.on \in Replicas /\ ~ isTaskCancelled(e.on) /\ x \in Active
      /\ e.task.status # "cancelled" /\ e.why # "request cancelled"
  BY Zenon, <1>0, NoObjectCancelled DEF ExecShape, CreateRequest, NothingCancelled, Active
<1>2. same = {}
  <2>1. CASE Keyed
    <3>1. \A i \in Created : req[i].key < e.task.attempts
      BY Zenon, <1>1, <2>1 DEF KeysSpent, Spent, Leaving
    <3>2. \A i \in Created : req[i].key \in Nat
      BY Zenon, <1>1, <2>1 DEF KeysSpent, Spent, Leaving
    <3>3. e.task.attempts \in Nat
      BY Zenon, <1>0 DEF ExecShape, IsTask
    <3>4. \A i \in Created : req[i].key # e.task.attempts
      BY <3>1, <3>2, <3>3
    <3> QED BY Zenon, <2>1, <3>4 DEF AttemptKey
  <2>2. CASE ~ Keyed
    BY Zenon, <2>2
  <2> QED BY Zenon, <2>1, <2>2
<1>3. CASE /\ UNCHANGED req
           /\ \E why \in {"error", "stopped"} : Goto(x, "settle", e.task, why)
  <2>1. PICK why \in {"error", "stopped"} : Goto(x, "settle", e.task, why)
    BY Zenon, <1>3
  <2>2. exec'[x].pc = "settle" /\ exec'[x].task = e.task /\ exec'[x].why = why
    BY Zenon, <1>0, <2>1 DEF ExecShape, Goto
  <2> QED BY Zenon, <1>1, <1>3, <2>2, QuietStepped
<1>4. CASE \E i \in next :
             /\ req' = [req EXCEPT ![i] = [status |-> "open", key |-> AttemptKey(e.task)]]
             /\ exec' = [exec EXCEPT ![x] = [@ EXCEPT !.pc = "link", !.rid = i]]
  <2>1. PICK i \in next :
             /\ req' = [req EXCEPT ![i] = [status |-> "open", key |-> AttemptKey(e.task)]]
             /\ exec' = [exec EXCEPT ![x] = [@ EXCEPT !.pc = "link", !.rid = i]]
    BY Zenon, <1>4
  <2>2. CreatesOne(x, i) /\ i \in Requests
    BY Zenon, <2>1 DEF CreatesOne
  <2>3. /\ i \notin Created /\ Created' = Created \cup {i}
        /\ req'[i].status = "open" /\ req'[i].key = AttemptKey(e.task)
        /\ \A j \in Requests : j # i => req'[j] = req[j]
    BY Zenon, <2>2, CreatesOneKeeps
  <2>4. exec'[x].pc = "link" /\ exec'[x].rid = i /\ exec'[x].task = e.task /\ exec'[x].why = e.why
    BY Zenon, <1>0, <2>1 DEF ExecShape
  <2>5. Created \subseteq Requests
    BY Zenon DEF Created
  <2> QED BY Zenon, <1>1, <2>2, <2>3, <2>4, <2>5 DEF Stepped
<1> HIDE DEF same, next
<1>5. \/ UNCHANGED req /\ Goto(x, "settle", e.task, "error")
      \/ UNCHANGED req /\ Goto(x, "settle", e.task, IF isTaskCancelled(e.on) THEN "cancelled" ELSE "stopped")
      \/ \E i \in IF same # {} THEN same ELSE next :
             /\ req' = IF same # {} THEN req
                       ELSE [req EXCEPT ![i] = [status |-> "open", key |-> AttemptKey(e.task)]]
             /\ exec' = [exec EXCEPT ![x] = [@ EXCEPT !.pc = "link", !.rid = i]]
  BY Zenon DEF CreateRequest, same, next
<1> QED BY Zenon, <1>1, <1>2, <1>3, <1>4, <1>5

LEMMA ExecuteStepped ==
    ASSUME TaskInv, RequestShape, NothingCancelled, Keyed => KeysSpent,
           NEW x \in Execs, Execute(x), ~ Release(x)
    PROVE  Stepped(x)
<1> DEFINE e == exec[x]
<1>0. ExecShape
  BY Zenon DEF TaskInv
<1>1. /\ e.task.status # "cancelled" /\ e.why # "request cancelled"
      /\ e.pc # "idle" => e.on \in Replicas /\ ~ isTaskCancelled(e.on)
  BY Zenon, <1>0, NoObjectCancelled DEF ExecShape, NothingCancelled
<1>2. ASSUME NEW pc, NEW t, NEW why, Goto(x, pc, t, why), UNCHANGED req, pc # "link", t.status # "cancelled",
             why # "request cancelled", pc = "wait" => e.pc = "link"
      PROVE  Stepped(x)
  <2>1. /\ exec'[x].pc = pc /\ exec'[x].task = t /\ exec'[x].why = why
        /\ pc # "settle" => exec'[x].rid = exec[x].rid
    BY ZenonT(40), <1>0, <1>2, GotoWorks
  <2>2. exec'[x].pc = "wait" => exec[x].pc = "link" /\ exec'[x].rid = exec[x].rid
    BY Zenon, <1>2, <2>1
  <2> QED BY Zenon, <1>2, <2>1, <2>2, QuietStepped
<1>3. CASE StartAttempt(x)
  <2> DEFINE t == [e.task EXCEPT !.attempts = @ + 1, !.status = "running", !.due = TRUE]
  <2>1. t.status # "cancelled" /\ UNCHANGED req
    BY ZenonT(40), <1>3 DEF TaskInv, ExecShape, IsTask, StartAttempt
  <2>2. Goto(x, "settle", e.task, "stopped") \/ Goto(x, "create", t, "none")
    BY Zenon, <1>1, <1>3 DEF StartAttempt
  <2> HIDE DEF t
  <2> QED BY Zenon, <1>1, <1>2, <2>1, <2>2
<1>4. CASE Link(x) \/ Unlink(x)
  <2> DEFINE t(rid) == [e.task EXCEPT !.cur = rid]
  <2>1. UNCHANGED req /\ \A rid : t(rid).status # "cancelled"
    BY Zenon, <1>1, <1>4 DEF TaskInv, ExecShape, IsTask, Link, Unlink
  <2>2. CASE Link(x)
    <3>1. e.pc = "link" /\ Goto(x, "wait", t(e.rid), "none")
      BY Zenon, <1>1, <2>2 DEF Link, setCurrentRequestID
    <3> HIDE DEF t
    <3> QED BY Zenon, <1>2, <2>1, <3>1
  <2>3. CASE Unlink(x)
    <3> DEFINE u == t(None)
    <3>1. Goto(x, "settle", u, e.why) /\ u.status # "cancelled"
      BY Zenon, <1>1, <2>1, <2>3 DEF Unlink, setCurrentRequestID
    <3> HIDE DEF u
    <3>2. exec'[x].pc = "settle" /\ exec'[x].task = u /\ exec'[x].why = e.why
      BY Zenon, <1>0, <3>1 DEF Goto, ExecShape
    <3> QED BY Zenon, <1>1, <2>1, <3>1, <3>2, QuietStepped
  <2> QED BY Zenon, <1>4, <2>2, <2>3
<1>5. CASE Observe(x)
  <2> DEFINE done == [e.task EXCEPT !.status = "completed", !.due = TRUE]
  <2>1. done.status # "cancelled" /\ UNCHANGED req
    BY Zenon, <1>5 DEF TaskInv, ExecShape, IsTask, Observe
  <2>2. e.pc = "wait" /\ req[e.rid].status # "cancelled"
    BY Zenon, <1>5 DEF Observe, NothingCancelled, Waiting
  <2>3. Goto(x, "unlink", done, "ok") \/ Goto(x, "unlink", e.task, "error")
    BY Zenon, <1>1, <1>5, <2>2 DEF Observe
  <2> HIDE DEF done
  <2> QED BY Zenon, <1>1, <1>2, <2>1, <2>3
<1>6. CASE Depart(x)
  <2>1. PICK why \in {"timed out", "stopped"} :
             e.pc = "wait" /\ Goto(x, "unlink", e.task, IF isTaskCancelled(e.on) THEN "cancelled" ELSE why)
    BY Zenon, <1>6 DEF Depart
  <2>2. Goto(x, "unlink", e.task, why)
    BY Zenon, <1>1, <2>1
  <2>3. exec'[x].pc = "unlink" /\ exec'[x].task = e.task /\ exec'[x].why = why
    BY Zenon, <1>0, <2>2 DEF ExecShape, Goto
  <2>4. CASE UNCHANGED req
    BY Zenon, <1>1, <2>1, <2>3, <2>4, QuietStepped
  <2>5. CASE req' = CancelRequest(e.rid)
    <3>0. PICK rid : rid = e.rid /\ req' = CancelRequest(rid)
      BY Zenon, <2>5
    <3>1. SameRequests
      BY Zenon, <3>0, CancelRequestKeeps
    <3>3. \A i \in Requests : i # rid => req'[i].status = req[i].status
      BY Zenon, <3>0 DEF RequestShape, CancelRequest
    <3>2. Created \subseteq Requests
      BY Zenon DEF Created
    <3> QED BY Zenon, <1>1, <2>1, <2>3, <3>0, <3>1, <3>2, <3>3 DEF Stepped, SameRequests
  <2> QED BY Zenon, <1>6, <2>4, <2>5 DEF Depart
<1>7. CASE Settle(x)
  <2>1. e.pc = "settle" /\ e.why \in Outcomes /\ UNCHANGED req /\ IsTask(e.task)
    BY Zenon, <1>7 DEF TaskInv, ExecShape, Settle
  <2>2. CASE Leave(x)
    BY Zenon, <1>1, <1>2, <2>1, <2>2 DEF Leave
  <2>3. ASSUME NEW t, Finish(x, t), t.status # "cancelled" PROVE Stepped(x)
    BY Zenon, <1>2, <2>1, <2>3 DEF Finish
  <2>4. /\ [e.task EXCEPT !.status = "failed", !.due = TRUE].status # "cancelled"
        /\ [e.task EXCEPT !.status = "failed"].status # "cancelled"
        /\ [e.task EXCEPT !.status = "pending", !.due = FALSE].status # "cancelled"
    BY Zenon, <2>1 DEF IsTask
  <2>5. Leave(x) \/ updateTaskWithError(x) \/ Retry(x)
    BY Zenon, <1>1, <2>1, <1>7 DEF Settle, Outcomes
  <2>6. \/ Leave(x)
        \/ Finish(x, [e.task EXCEPT !.status = "failed", !.due = TRUE])
        \/ Finish(x, [e.task EXCEPT !.status = "failed"])
        \/ Finish(x, [e.task EXCEPT !.status = "pending", !.due = FALSE])
    BY Zenon, <2>5 DEF updateTaskWithError, Retry
  <2> QED BY Zenon, <2>2, <2>3, <2>4, <2>6
<1> QED BY Zenon, <1>3, <1>4, <1>5, <1>6, <1>7, CreateRequestStepped DEF Execute

LEMMA SteppedKeepsDemand ==
    ASSUME TaskInv, NothingCancelled, OwnRequests, NEW x \in Execs, Works(x), Stepped(x)
    PROVE  NothingCancelled' /\ OwnRequests'
<1> DEFINE e == exec[x]
           f == exec'[x]
<1>1. /\ \A y \in Execs : y # x => exec'[y] = exec[y]
      /\ cancel' = cancel /\ mirror' = mirror /\ IsTask(f.task)
  BY Zenon DEF Works, TaskInv, ExecShape
<1>2. row'.task.status # "cancelled"
  <2>1. CASE row' = SaveTask(f.task)
    BY Zenon, <1>1, <2>1, Saved DEF TaskInv, NothingCancelled, Stepped
  <2>2. CASE UNCHANGED row
    BY Zenon, <2>2 DEF NothingCancelled
  <2> QED BY Zenon, <2>1, <2>2 DEF Works, persistTask
<1>3. ASSUME NEW y \in Execs, y # x, Waiting(y)
      PROVE  exec'[y].rid \in Created' /\ req'[exec'[y].rid].status # "cancelled"
  <2>1. exec[y].rid \in Created /\ req[exec[y].rid].status # "cancelled" /\ exec'[y] = exec[y]
    BY Zenon, <1>1, <1>3 DEF NothingCancelled
  <2>2. ~ (e.pc = "wait" /\ exec[y].rid = e.rid)
    BY Zenon, <1>3 DEF OwnRequests, Waiting
  <2>3. exec[y].rid \in Created'
    BY Zenon, <2>1 DEF Stepped
  <2> QED BY Zenon, <2>1, <2>2, <2>3 DEF Stepped
<1>4. Waiting(x)' => f.rid \in Created' /\ req'[f.rid].status # "cancelled"
  <2>1. CASE f.pc = "wait"
    <3>1. e.pc = "link" /\ f.rid = e.rid /\ Created' = Created
      BY Zenon, <2>1 DEF Stepped
    <3>2. e.rid \in Created /\ req[e.rid].status # "cancelled"
      BY Zenon, <3>1 DEF NothingCancelled, Waiting
    <3> QED BY Zenon, <3>1, <3>2 DEF Stepped
  <2>2. CASE f.pc = "link"
    BY Zenon, <2>2 DEF Stepped
  <2> QED BY Zenon, <2>1, <2>2 DEF Waiting
<1>5. NothingCancelled'
  BY Zenon, <1>1, <1>2, <1>3, <1>4 DEF NothingCancelled, Stepped, Waiting
<1>6. ASSUME NEW y \in Execs, y # x, Waiting(y), Waiting(x)' PROVE f.rid # exec[y].rid
  <2>1. exec[y].rid \in Created
    BY Zenon, <1>6 DEF NothingCancelled
  <2> QED BY Zenon, <1>6, <2>1 DEF Stepped, OwnRequests, Waiting
<1>7. OwnRequests'
  BY ZenonT(40), <1>1, <1>6 DEF OwnRequests, Waiting
<1> QED BY Zenon, <1>5, <1>7

\* The other steps make nobody wait and cancel nothing.
LEMMA QuietDemand ==
    ASSUME NothingCancelled, OwnRequests, cancel'.pc = "idle", row'.task.status # "cancelled",
           \A r \in Replicas : mirror'[r].status # "cancelled",
           \A x \in Execs : /\ exec'[x].task.status # "cancelled" /\ exec'[x].why # "request cancelled"
                            /\ exec'[x].pc \in {"link", "wait"} => exec'[x].pc = exec[x].pc /\ exec'[x].rid = exec[x].rid,
           Created' = Created,
           \A i \in Created : req'[i].status = req[i].status \/ req'[i].status # "cancelled"
    PROVE  NothingCancelled' /\ OwnRequests'
<1>1. NothingCancelled'
  BY Zenon DEF NothingCancelled, Waiting
<1>2. OwnRequests'
  BY Zenon DEF OwnRequests, Waiting
<1> QED BY Zenon, <1>1, <1>2

\* A step of an executor keeps its outcome, and counts an attempt when it starts one.
Proceeds(x) ==
    LET e == exec[x]
        f == exec'[x]
    IN  /\ f.pc = "create" => f.task.attempts = e.task.attempts + 1
        /\ f.pc # "create" => f.task.attempts = e.task.attempts
        /\ e.task.status \in Terminal => f.task.status \in Terminal
        /\ f.task.status \in Terminal => Leaving(f)

LEMMA SettleProceeds ==
    ASSUME TaskInv, NothingCancelled, NEW x \in Execs, Settle(x),
           exec[x].task.status \in Terminal => Leaving(exec[x])
    PROVE  Proceeds(x)
<1> DEFINE e == exec[x]
<1>0. ExecShape
  BY Zenon DEF TaskInv
<1>1. /\ e.pc = "settle" /\ e.why \in Outcomes /\ IsTask(e.task) /\ e.why # "request cancelled"
  BY Zenon, <1>0 DEF ExecShape, Settle, NothingCancelled
<1>2. ASSUME NEW t, NEW why, Goto(x, "release", t, why), t.attempts = e.task.attempts,
             e.task.status \in Terminal => t.status \in Terminal
      PROVE  Proceeds(x)
  <2>1. exec'[x].pc = "release" /\ exec'[x].task = t
    BY Zenon, <1>0, <1>2 DEF Goto, ExecShape
  <2> QED BY Zenon, <1>2, <2>1 DEF Proceeds, Leaving
<1>3. CASE Leave(x)
  <2>1. exec'[x].pc = "release" /\ exec'[x].task = e.task
    BY Zenon, <1>0, <1>3 DEF Leave, Goto, ExecShape
  <2> QED BY Zenon, <2>1 DEF Proceeds, Leaving
<1>4. CASE e.why # "ok" /\ ~ Leave(x)
  <2> DEFINE t1 == [e.task EXCEPT !.status = "failed", !.due = TRUE]
             t2 == [e.task EXCEPT !.status = "failed"]
             t3 == [e.task EXCEPT !.status = "pending", !.due = FALSE]
  <2>1. /\ t1.attempts = e.task.attempts /\ t2.attempts = e.task.attempts /\ t3.attempts = e.task.attempts
        /\ t1.status = "failed" /\ t2.status = "failed"
    BY Zenon, <1>1 DEF IsTask
  <2>2. Finish(x, t1) \/ Finish(x, t2) \/ Finish(x, t3)
    <3>1. updateTaskWithError(x) \/ Retry(x)
      BY Zenon, <1>1, <1>4 DEF Settle, Outcomes
    <3> QED BY Zenon, <1>4, <3>1 DEF updateTaskWithError, Retry
  <2>3. e.task.status \notin Terminal /\ "failed" \in Terminal
    BY Zenon, <1>1, <1>4 DEF Leaving, Terminal
  <2> HIDE DEF t1, t2, t3
  <2> QED BY Zenon, <1>2, <2>1, <2>2, <2>3 DEF Finish
<1> QED BY Zenon, <1>1, <1>3, <1>4 DEF Settle

LEMMA ExecuteProceeds ==
    ASSUME TaskInv, NothingCancelled, NEW x \in Execs, Execute(x), ~ Release(x),
           exec[x].task.status \in Terminal => Leaving(exec[x])
    PROVE  Proceeds(x)
<1> DEFINE e == exec[x]
<1>0. ExecShape
  BY Zenon DEF TaskInv
<1>1. /\ IsTask(e.task) /\ e.task.status # "cancelled"
      /\ e.pc # "idle" => e.on \in Replicas /\ ~ isTaskCancelled(e.on)
  BY Zenon, <1>0, NoObjectCancelled DEF ExecShape, NothingCancelled
<1>2. ASSUME NEW pc, NEW t, NEW why, Goto(x, pc, t, why), pc # "create", t.attempts = e.task.attempts,
             t.status = e.task.status, pc = "settle" /\ e.pc = "unlink" => why = e.why, e.pc # "settle", e.pc # "release",
             e.pc = "unlink" => pc = "settle"
      PROVE  Proceeds(x)
  <2>1. exec'[x].pc = pc /\ exec'[x].task = t /\ exec'[x].why = why
    BY Zenon, <1>0, <1>2 DEF Goto, ExecShape
  <2> QED BY Zenon, <1>2, <2>1 DEF Proceeds, Leaving
<1>3. CASE StartAttempt(x)
  <2> DEFINE t == [e.task EXCEPT !.attempts = @ + 1, !.status = "running", !.due = TRUE]
  <2>1. t.status = "running" /\ t.attempts = e.task.attempts + 1 /\ e.pc = "attempt"
    BY Zenon, <1>1, <1>3 DEF StartAttempt, IsTask
  <2>2. Goto(x, "settle", e.task, "stopped") \/ Goto(x, "create", t, "none")
    BY Zenon, <1>1, <1>3 DEF StartAttempt
  <2> HIDE DEF t
  <2>3. CASE Goto(x, "settle", e.task, "stopped")
    <3>1. exec'[x].pc = "settle" /\ exec'[x].task = e.task
      BY Zenon, <1>0, <2>3 DEF Goto, ExecShape
    <3> QED BY Zenon, <2>1, <3>1 DEF Proceeds, Leaving
  <2>4. CASE Goto(x, "create", t, "none")
    <3>1. exec'[x].pc = "create" /\ exec'[x].task = t
      BY Zenon, <1>0, <2>4 DEF Goto, ExecShape
    <3> QED BY Zenon, <2>1, <3>1 DEF Proceeds, Leaving, Terminal
  <2> QED BY Zenon, <2>2, <2>3, <2>4
<1>4. CASE CreateRequest(x)
  <2>1. e.pc = "create" /\ exec'[x].pc \in {"link", "settle"} /\ exec'[x].task = e.task
    <3>1. \/ \E why : Goto(x, "settle", e.task, why)
          \/ \E i : exec' = [exec EXCEPT ![x] = [@ EXCEPT !.pc = "link", !.rid = i]]
      BY Zenon, <1>4 DEF CreateRequest
    <3>2. CASE \E why : Goto(x, "settle", e.task, why)
      <4>1. PICK why : Goto(x, "settle", e.task, why)
        BY Zenon, <3>2
      <4> QED BY Zenon, <1>0, <1>4, <4>1 DEF CreateRequest, Goto, ExecShape
    <3>3. CASE \E i : exec' = [exec EXCEPT ![x] = [@ EXCEPT !.pc = "link", !.rid = i]]
      <4>1. e.pc = "create"
        BY Zenon, <1>4 DEF CreateRequest
      <4>2. PICK i : exec' = [exec EXCEPT ![x] = [@ EXCEPT !.pc = "link", !.rid = i]]
        BY Zenon, <3>3
      <4> QED BY Zenon, <1>0, <4>1, <4>2 DEF ExecShape
    <3> QED BY Zenon, <3>1, <3>2, <3>3
  <2> QED BY Zenon, <2>1 DEF Proceeds, Leaving
<1>5. CASE Link(x) \/ Unlink(x)
  <2> DEFINE t(rid) == [e.task EXCEPT !.cur = rid]
  <2>1. \A rid : t(rid).status = e.task.status /\ t(rid).attempts = e.task.attempts
    BY Zenon, <1>1 DEF IsTask
  <2>2. CASE Link(x)
    <3> DEFINE u == t(e.rid)
    <3>1. e.pc = "link" /\ Goto(x, "wait", u, "none") /\ u.status = e.task.status /\ u.attempts = e.task.attempts
      BY Zenon, <1>1, <2>1, <2>2 DEF Link, setCurrentRequestID
    <3> HIDE DEF u
    <3> QED BY Zenon, <1>2, <3>1
  <2>3. CASE Unlink(x)
    <3> DEFINE u == t(None)
    <3>1. e.pc = "unlink" /\ Goto(x, "settle", u, e.why) /\ u.status = e.task.status /\ u.attempts = e.task.attempts
      BY Zenon, <1>1, <2>1, <2>3 DEF Unlink, setCurrentRequestID
    <3> HIDE DEF u
    <3>2. exec'[x].pc = "settle" /\ exec'[x].task = u /\ exec'[x].why = e.why
      BY Zenon, <1>0, <3>1 DEF Goto, ExecShape
    <3> QED BY Zenon, <3>1, <3>2 DEF Proceeds, Leaving
  <2> QED BY Zenon, <1>5, <2>2, <2>3
<1>6. CASE Observe(x)
  <2> DEFINE done == [e.task EXCEPT !.status = "completed", !.due = TRUE]
  <2>1. done.status \in Terminal /\ done.attempts = e.task.attempts /\ e.pc = "wait"
    BY Zenon, <1>1, <1>6 DEF IsTask, Observe, Terminal
  <2>2. \/ Goto(x, "unlink", done, "ok")
        \/ \E why : Goto(x, "unlink", e.task, why)
    BY Zenon, <1>1, <1>6 DEF Observe
  <2> HIDE DEF done
  <2>3. CASE Goto(x, "unlink", done, "ok")
    <3>1. exec'[x].pc = "unlink" /\ exec'[x].task = done /\ exec'[x].why = "ok"
      BY Zenon, <1>0, <2>3 DEF Goto, ExecShape
    <3> QED BY Zenon, <2>1, <3>1 DEF Proceeds, Leaving
  <2>4. CASE \E why : Goto(x, "unlink", e.task, why)
    <3>1. PICK why : Goto(x, "unlink", e.task, why)
      BY Zenon, <2>4
    <3>2. exec'[x].pc = "unlink" /\ exec'[x].task = e.task
      BY Zenon, <1>0, <3>1 DEF Goto, ExecShape
    <3> QED BY Zenon, <2>1, <3>2 DEF Proceeds, Leaving
  <2> QED BY Zenon, <2>2, <2>3, <2>4
<1>7. CASE Depart(x)
  <2>1. e.pc = "wait" /\ exec'[x].pc = "unlink" /\ exec'[x].task = e.task
    <3>1. PICK why : Goto(x, "unlink", e.task, why)
      BY Zenon, <1>7 DEF Depart
    <3> QED BY Zenon, <1>0, <1>7, <3>1 DEF Depart, Goto, ExecShape
  <2> QED BY Zenon, <2>1 DEF Proceeds, Leaving
<1> QED BY Zenon, <1>3, <1>4, <1>5, <1>6, <1>7, SettleProceeds DEF Execute

LEMMA ProceedsKeepsKeys ==
    ASSUME TaskInv, TaskInv', KeysSpent, Keyed, NEW x \in Execs, Works(x), Stepped(x), Proceeds(x),
           row' = SaveTask(exec'[x].task) \/ (row' = row /\ exec'[x].task = exec[x].task)
    PROVE  KeysSpent'
<1> DEFINE e == exec[x]
           f == exec'[x]
<1>1. /\ \A y \in Execs : y # x => exec'[y] = exec[y]
      /\ mirror' = mirror /\ IsTask(f.task) /\ e.pc # "idle" /\ f.pc # "idle" /\ f.on = e.on
  BY Zenon DEF Works, TaskInv, ExecShape
<1>2. Active' = Active /\ x \in Active
  BY Zenon, <1>1 DEF Active
<1>3. /\ e.task.attempts \in Nat /\ f.task.attempts \in Nat /\ row.task.attempts \in Nat
      /\ f.task.attempts = e.task.attempts \/ f.task.attempts = e.task.attempts + 1
      /\ e.task.attempts <= f.task.attempts
  BY DEF TaskInv, ExecShape, RowShape, IsTask, Proceeds
<1>4. CASE Open
  <2>1. /\ row.owner = e.on /\ row.fresh /\ e.task.attempts = row.task.attempts
        /\ e.task.status \notin Terminal /\ \A y \in Active : y = x
    BY Zenon, <1>2, <1>4 DEF KeysSpent, Spent
  <2>2. /\ row'.owner = e.on /\ row'.fresh /\ row'.task.attempts = f.task.attempts
        /\ Open' => f.task.status \notin Terminal
        /\ ~ Open' => f.task.status \in Terminal
    <3>1. CASE row' = SaveTask(f.task)
      <4>1. row'.owner = row.owner /\ row'.fresh /\ row'.task = f.task /\ row'.exists
        BY Zenon, <1>4, <3>1 DEF Open, SaveTask, TaskInv, RowShape
      <4> QED BY Zenon, <2>1, <4>1 DEF Open
    <3>2. CASE row' = row /\ f.task = e.task
      BY Zenon, <1>4, <2>1, <3>2 DEF Open
    <3> QED BY Zenon, <3>1, <3>2
  <2>3. \A i \in Created : req'[i].key \in Nat /\ req'[i].key <= row.task.attempts
    BY Zenon, <1>4 DEF KeysSpent, Spent, Stepped
  <2>4. \A i \in Created' : req'[i].key \in Nat /\ req'[i].key <= e.task.attempts
    <3>1. CASE f.pc = "link"
      <4>1. Created' = Created \cup {f.rid} /\ req'[f.rid].key = e.task.attempts
        BY Zenon, <3>1 DEF Stepped, AttemptKey
      <4> QED BY <1>3, <2>1, <2>3, <4>1
    <3>2. CASE f.pc # "link"
      BY Zenon, <2>1, <2>3, <3>2 DEF Stepped
    <3> QED BY Zenon, <3>1, <3>2
  <2>5. /\ \A i \in Created' : req'[i].key <= f.task.attempts
        /\ f.pc = "create" => \A i \in Created' : req'[i].key < f.task.attempts
    BY <1>3, <2>4 DEF Proceeds
  <2>6. Spent(x)'
    BY Zenon, <1>1, <1>2, <2>1, <2>2, <2>5 DEF Spent, Proceeds
  <2>7. \A r \in Replicas : mirror'[r].status \notin Terminal
    BY Zenon, <1>1, <1>4 DEF KeysSpent, Spent
  <2> QED BY Zenon, <1>2, <2>1, <2>2, <2>4, <2>5, <2>6, <2>7 DEF KeysSpent, Spent
<1>5. CASE ~ Open
  <2>1. \A y \in Active : exec[y].task.status \in Terminal /\ Leaving(exec[y])
    BY <1>5 DEF KeysSpent, Spent
  <2>2. f.task.status \in Terminal /\ Leaving(f)
    BY Zenon, <1>2, <2>1 DEF Proceeds
  <2>3. ~ Open'
    <3>1. CASE row' = SaveTask(f.task)
      BY Zenon, <1>5, <2>2, <3>1 DEF Open, SaveTask
    <3>2. CASE row' = row
      BY Zenon, <1>5, <3>2 DEF Open
    <3> QED BY Zenon, <3>1, <3>2
  <2>4. \A y \in Active' : exec'[y].task.status \in Terminal /\ Leaving(exec'[y])
    BY Zenon, <1>1, <1>2, <2>1, <2>2 DEF Active
  <2> QED BY Zenon, <2>3, <2>4 DEF KeysSpent, Spent, Leaving
<1> QED BY Zenon, <1>4, <1>5

LEMMA ExecuteKeepsDemand ==
    ASSUME TaskInv, TaskInv', RequestShape, Demand, Unasked',
           NEW x \in Execs, Execute(x), ~ Release(x)
    PROVE  Demand'
<1>1. NothingCancelled /\ OwnRequests /\ (Keyed => KeysSpent) /\ Works(x)
  BY Zenon, ExecuteWorks DEF Demand
<1>2. Stepped(x)
  BY Zenon, <1>1, ExecuteStepped
<1>3. ASSUME Keyed PROVE KeysSpent'
  <2>1. exec[x].task.status \in Terminal => Leaving(exec[x])
    BY Zenon, <1>1, <1>3 DEF KeysSpent, Spent, Works, Active
  <2>2. Proceeds(x)
    BY Zenon, <1>1, <2>1, ExecuteProceeds
  <2>3. ~ Faulty("write")
    BY <1>3, FaultCounted DEF TaskInv, CountShape, CountedOnly, Kinds, Unasked
  <2>4. row' = SaveTask(exec'[x].task) \/ (row' = row /\ exec'[x].task = exec[x].task)
    BY Zenon, <1>1, <2>3 DEF Works, persistTask
  <2> QED BY Zenon, <1>1, <1>2, <1>3, <2>2, <2>4, ProceedsKeepsKeys
<1> QED BY Zenon, <1>1, <1>2, <1>3, SteppedKeepsDemand DEF Demand

\* The steps that leave the executors where they are.
LEMMA QuietKeys ==
    ASSUME KeysSpent,
           \A x \in Execs : /\ exec'[x].pc = exec[x].pc /\ exec'[x].on = exec[x].on
                            /\ exec'[x].task = exec[x].task /\ exec'[x].why = exec[x].why,
           Open' => Open, ~ Open' => ~ Open, row'.task.attempts = row.task.attempts,
           row'.owner = row.owner, row.fresh => row'.fresh,
           Created' = Created, \A i \in Created : req'[i].key = req[i].key,
           \A r \in Replicas : mirror'[r] = mirror[r] \/ mirror'[r] = row.task
    PROVE  KeysSpent'
<1>1. Active' = Active
  BY Zenon DEF Active
<1>2. ASSUME NEW x \in Active PROVE Spent(x)'
  <2>1. Spent(x) /\ x \in Execs
    BY Zenon DEF KeysSpent, Active
  <2>2. Leaving(exec[x]) => Leaving(exec'[x])
    BY Zenon, <2>1 DEF Leaving
  <2> QED BY Zenon, <1>1, <2>1, <2>2 DEF Spent
<1> QED BY Zenon, <1>1, <1>2 DEF KeysSpent, Open

LEMMA QuietKeepsDemand ==
    ASSUME TaskInv, RequestShape, Demand, SameRequests, cancel' = cancel,
           \A x \in Execs : SameButCtx(x),
           row'.task.status = row.task.status, row'.exists => row.exists, row.exists => row'.exists,
           row'.task.attempts = row.task.attempts, row'.owner = row.owner, row.fresh => row'.fresh,
           \A i \in Created : req'[i].status = req[i].status \/ req'[i].status # "cancelled",
           \A r \in Replicas : mirror'[r] = mirror[r] \/ mirror'[r] = row.task
    PROVE  Demand'
<1>1. NothingCancelled' /\ OwnRequests'
  <2>1. Created' = Created
    BY Zenon DEF SameRequests
  <2>2. /\ cancel'.pc = "idle" /\ row'.task.status # "cancelled"
        /\ \A r \in Replicas : mirror'[r].status # "cancelled"
    BY Zenon DEF Demand, NothingCancelled
  <2>3. \A x \in Execs :
          /\ exec'[x].task.status # "cancelled" /\ exec'[x].why # "request cancelled"
          /\ exec'[x].pc \in {"link", "wait"} => exec'[x].pc = exec[x].pc /\ exec'[x].rid = exec[x].rid
    <3>1. \A x \in Execs : exec[x].task.status # "cancelled" /\ exec[x].why # "request cancelled"
      BY Zenon DEF Demand, NothingCancelled
    <3> QED BY Zenon, <3>1 DEF SameButCtx
  <2> QED BY Zenon, <2>1, <2>2, <2>3, QuietDemand DEF Demand
<1>2. ASSUME Keyed PROVE KeysSpent'
  <2>1. (Open' => Open) /\ (~ Open' => ~ Open)
    BY Zenon DEF Open
  <2>2. Created' = Created /\ \A i \in Created : req'[i].key = req[i].key
    BY Zenon DEF SameRequests, Created
  <2> QED BY Zenon, <1>2, <2>1, <2>2, QuietKeys DEF Demand, SameButCtx
<1> QED BY Zenon, <1>1, <1>2 DEF Demand

LEMMA AdoptKeepsDemand ==
    ASSUME TaskInv, RequestShape, Demand, NEW r \in Replicas, Adopt(r)
    PROVE  Demand'
<1>1. PICK x \in Execs :
          /\ exec[x].pc = "idle"
          /\ exec' = [exec EXCEPT ![x] = [Idle EXCEPT !.pc = "attempt", !.on = r, !.task = row.task]]
  BY Zenon, AdoptBy
<1>2. /\ Open /\ (row.owner = None \/ ~ row.fresh) /\ row' = [row EXCEPT !.owner = r, !.fresh = TRUE]
      /\ mirror' = [mirror EXCEPT ![r] = NewTask] /\ UNCHANGED <<req, cancel>>
  BY Zenon DEF Adopt, FindAdoptableTasks, Open
<1>3. row'.task = row.task /\ row'.owner = r /\ row'.fresh /\ row'.exists
  BY Zenon, <1>2 DEF TaskInv, RowShape, Open
<1>4. /\ exec'[x].pc = "attempt" /\ exec'[x].on = r /\ exec'[x].task = row.task /\ exec'[x].why = "none"
      /\ \A y \in Execs : y # x => exec'[y] = exec[y]
  BY Zenon, <1>1 DEF TaskInv, ExecShape, Idle
<1>5. \A q \in Replicas : mirror'[q] = mirror[q] \/ mirror'[q].status = "pending"
  BY Zenon, <1>2 DEF TaskInv, CacheShape, NewTask
<1>6. NothingCancelled' /\ OwnRequests'
  <2>1. Created' = Created /\ cancel'.pc = "idle" /\ row'.task.status # "cancelled"
        /\ \A q \in Replicas : mirror'[q].status # "cancelled"
    BY Zenon, <1>2, <1>3, <1>5 DEF Demand, NothingCancelled, Created
  <2>2. \A y \in Execs :
          /\ exec'[y].task.status # "cancelled" /\ exec'[y].why # "request cancelled"
          /\ exec'[y].pc \in {"link", "wait"} => exec'[y].pc = exec[y].pc /\ exec'[y].rid = exec[y].rid
    BY Zenon, <1>4 DEF Demand, NothingCancelled
  <2> QED BY Zenon, <1>2, <2>1, <2>2, QuietDemand DEF Demand
<1>7. ASSUME Keyed PROVE KeysSpent'
  <2>1. Active = {}
    <3> SUFFICES ASSUME NEW y \in Active PROVE FALSE
      BY Zenon
    <3>1. exec[y].on \in Replicas
      BY Zenon DEF TaskInv, ExecShape, Active
    <3>2. row.owner = exec[y].on /\ row.fresh
      BY Zenon, <1>2, <1>7 DEF Demand, KeysSpent, Spent
    <3> QED BY Zenon, <1>2, <3>1, <3>2, TaskAssumption
  <2>2. Active' = {x} /\ Open' /\ Created' = Created
    BY <1>2, <1>3, <1>4, <2>1 DEF Active, Open, Created
  <2>3. Spent(x)'
    BY Zenon, <1>2, <1>3, <1>4, <2>2 DEF Spent, Open
  <2>4. \A q \in Replicas : mirror'[q].status \notin Terminal
    BY Zenon, <1>2, <1>5, <1>7 DEF Demand, KeysSpent, Terminal
  <2>5. \A i \in Created : req[i].key \in Nat /\ req[i].key <= row.task.attempts
    BY Zenon, <1>2, <1>7 DEF Demand, KeysSpent
  <2> QED BY Zenon, <1>2, <1>3, <2>2, <2>3, <2>4, <2>5 DEF KeysSpent
<1> QED BY Zenon, <1>6, <1>7 DEF Demand

\* Steps after which fewer goroutines run: x is in Active' only if it stays as it is.
LEMMA FewerKeepsDemand ==
    ASSUME TaskInv, RequestShape, Demand, UNCHANGED req, cancel'.pc = "idle",
           \A x \in Execs : exec'[x] = exec[x] \/ exec'[x] = Idle,
           row'.task.status # "cancelled",
           \A r \in Replicas : mirror'[r].status # "cancelled"
    PROVE  NothingCancelled' /\ OwnRequests'
<1>1. \A x \in Execs :
        /\ exec'[x].task.status # "cancelled" /\ exec'[x].why # "request cancelled"
        /\ exec'[x].pc \in {"link", "wait"} => exec'[x].pc = exec[x].pc /\ exec'[x].rid = exec[x].rid
  <2>1. \A x \in Execs : exec[x].task.status # "cancelled" /\ exec[x].why # "request cancelled"
    BY Zenon DEF Demand, NothingCancelled
  <2>2. Idle.task.status = "pending" /\ Idle.why = "none" /\ Idle.pc = "idle"
    BY Zenon DEF Idle, NewTask
  <2> QED BY Zenon, <2>1, <2>2
<1>2. Created' = Created
  BY Zenon DEF Created
<1> QED BY Zenon, <1>1, <1>2, QuietDemand DEF Demand

LEMMA ReleaseKeepsDemand ==
    ASSUME TaskInv, RequestShape, Demand, NEW x \in Execs, Release(x)
    PROVE  Demand'
<1> DEFINE r == exec[x].on
<1>1. /\ x \in Active /\ r \in Replicas /\ exec' = [exec EXCEPT ![x] = Idle] /\ UNCHANGED req
      /\ mirror' = [mirror EXCEPT ![r] = IF tasks[r] = x THEN exec[x].task ELSE @]
  BY Zenon DEF Release, Ended, Active, TaskInv, ExecShape
<1>2. cancel'.pc = "idle"
  BY Zenon DEF Release, Ended, TaskInv, CancelShape, Demand, NothingCancelled
<1>3. row'.task = row.task /\ (Open' => Open) /\ (~ Open' => ~ Open)
  BY Zenon DEF Release, ReleaseTaskAdoption, TaskInv, RowShape, Open
<1>4. \A q \in Replicas : mirror'[q] = mirror[q] \/ mirror'[q] = exec[x].task
  BY Zenon, <1>1 DEF TaskInv, CacheShape
<1>5. exec'[x] = Idle /\ \A y \in Execs : y # x => exec'[y] = exec[y]
  BY Zenon, <1>1 DEF TaskInv, ExecShape
<1>6. NothingCancelled' /\ OwnRequests'
  <2>1. row'.task.status # "cancelled" /\ \A q \in Replicas : mirror'[q].status # "cancelled"
    BY Zenon, <1>3, <1>4 DEF Demand, NothingCancelled
  <2> QED BY Zenon, <1>1, <1>2, <1>5, <2>1, FewerKeepsDemand
<1>7. ASSUME Keyed PROVE KeysSpent'
  <2>1. Active' = Active \ {x} /\ Created' = Created
    BY <1>1, <1>5 DEF Active, Idle, Created
  <2>2. CASE Open
    <3>1. /\ exec[x].task.status \notin Terminal /\ \A y \in Active : y = x
          /\ \A q \in Replicas : mirror[q].status \notin Terminal
          /\ \A i \in Created : req[i].key \in Nat /\ req[i].key <= row.task.attempts
      BY Zenon, <1>1, <1>7, <2>2 DEF Demand, KeysSpent, Spent
    <3> QED BY Zenon, <1>1, <1>3, <1>4, <2>1, <3>1 DEF KeysSpent
  <2>3. CASE ~ Open
    <3>1. \A y \in Active' : exec'[y] = exec[y] /\ exec[y].task.status \in Terminal /\ Leaving(exec[y])
      BY Zenon, <1>5, <1>7, <2>1, <2>3 DEF Demand, KeysSpent, Spent, Active
    <3> QED BY Zenon, <1>3, <2>3, <3>1 DEF KeysSpent, Spent, Leaving
  <2> QED BY Zenon, <2>2, <2>3
<1> QED BY Zenon, <1>6, <1>7 DEF Demand

LEMMA ExitKeepsDemand ==
    ASSUME TaskInv, RequestShape, Demand, NEW r \in Replicas, Exit(r)
    PROVE  Demand'
<1>1. /\ UNCHANGED req /\ \A x \in Execs : exec'[x] = IF exec[x].on = r THEN Idle ELSE exec[x]
      /\ cancel' \in {cancel, NoCancel}
  BY Zenon DEF Exit, Gone
<1>2. /\ row'.task = row.task /\ (row.owner # r => row'.owner = row.owner) /\ (row.fresh => row'.fresh)
      /\ (Open' => Open) /\ (~ Open' => ~ Open)
  BY Zenon DEF Exit, Gone, TaskInv, RowShape, Open
<1>3. \A q \in Replicas : mirror'[q] = mirror[q] \/ mirror'[q].status = "pending"
  BY Zenon DEF Exit, Gone, TaskInv, CacheShape, NewTask
<1>4. NothingCancelled' /\ OwnRequests'
  <2>1. cancel'.pc = "idle" /\ row'.task.status # "cancelled" /\ \A q \in Replicas : mirror'[q].status # "cancelled"
    <3>1. /\ cancel.pc = "idle" /\ NoCancel.pc = "idle" /\ row.task.status # "cancelled"
          /\ \A q \in Replicas : mirror[q].status # "cancelled"
      BY Zenon DEF Demand, NothingCancelled, NoCancel
    <3> QED BY <1>1, <1>2, <1>3, <3>1
  <2> QED BY Zenon, <1>1, <2>1, FewerKeepsDemand
<1>5. ASSUME Keyed PROVE KeysSpent'
  <2>1. Active' = {x \in Active : exec[x].on # r} /\ Created' = Created
    BY <1>1 DEF Active, Idle, Created
  <2>2. ASSUME NEW x \in Active' PROVE Spent(x)'
    <3>1. x \in Active /\ Spent(x) /\ exec[x].on # r /\ exec'[x] = exec[x]
      BY Zenon, <1>1, <1>5, <2>1, <2>2 DEF Demand, KeysSpent, Active
    <3> QED BY Zenon, <1>1, <1>2, <2>1, <3>1 DEF Spent
  <2>3. Open' => \A q \in Replicas : mirror'[q].status \notin Terminal
    BY Zenon, <1>2, <1>3, <1>5 DEF Demand, KeysSpent, Terminal
  <2> QED BY Zenon, <1>1, <1>2, <1>5, <2>1, <2>2, <2>3 DEF Demand, KeysSpent
<1> QED BY Zenon, <1>4, <1>5 DEF Demand

LEMMA CreateTaskKeepsDemand ==
    ASSUME TaskInv, RequestShape, Demand, NEW r \in Replicas, CreateTask(r)
    PROVE  Demand'
<1>1. /\ ~ row.exists /\ Active = {} /\ \A q \in Replicas : mirror[q].status = "pending"
      /\ Created = {} /\ UNCHANGED <<req, exec, cancel>> /\ row' = SaveTask(NewTask)
      /\ mirror' = [mirror EXCEPT ![r] = NewTask]
  BY Zenon DEF CreateTask, TaskInv, Uncreated, Active, RequestShape
<1>2. row'.task = NewTask /\ NewTask.status = "pending"
  BY Zenon, <1>1 DEF SaveTask, NewTask
<1>3. Active' = {} /\ Created' = {}
  BY Zenon, <1>1 DEF Active, Created
<1>4. \A q \in Replicas : mirror'[q].status = "pending"
  BY Zenon, <1>1, <1>2 DEF TaskInv, CacheShape
<1>5. NothingCancelled' /\ OwnRequests'
  <2>1. cancel'.pc = "idle"
    BY Zenon, <1>1 DEF Demand, NothingCancelled
  <2> QED BY Zenon, <1>1, <1>2, <1>4, <2>1, FewerKeepsDemand
<1>6. KeysSpent'
  BY Zenon, <1>3, <1>4 DEF KeysSpent, Terminal
<1> QED BY Zenon, <1>5, <1>6 DEF Demand

LEMMA CleanupKeepsDemand ==
    ASSUME TaskInv, RequestShape, Demand, NEW r \in Replicas, CleanupOldTasks(r)
    PROVE  Demand'
<1>1. /\ mirror[r].status \in Terminal /\ mirror' = [mirror EXCEPT ![r] = NewTask] /\ row' = NoRow
      /\ UNCHANGED <<req, exec, cancel>>
  BY Zenon DEF CleanupOldTasks
<1>2. row'.task.status = "pending" /\ ~ row'.exists /\ NewTask.status = "pending"
  BY Zenon, <1>1 DEF NoRow, NewTask
<1>3. \A q \in Replicas : mirror'[q] = mirror[q] \/ mirror'[q].status = "pending"
  BY Zenon, <1>1, <1>2 DEF TaskInv, CacheShape
<1>4. NothingCancelled' /\ OwnRequests'
  <2>1. cancel'.pc = "idle" /\ \A q \in Replicas : mirror'[q].status # "cancelled"
    BY Zenon, <1>1, <1>3 DEF Demand, NothingCancelled
  <2> QED BY Zenon, <1>1, <1>2, <2>1, FewerKeepsDemand
<1>5. ASSUME Keyed PROVE KeysSpent'
  <2>1. ~ Open /\ ~ Open' /\ Active' = Active
    BY Zenon, <1>1, <1>2, <1>5 DEF Demand, KeysSpent, Open, Active
  <2>2. \A x \in Active : exec[x].task.status \in Terminal /\ Leaving(exec[x])
    BY Zenon, <1>5, <2>1 DEF Demand, KeysSpent, Spent
  <2> QED BY Zenon, <1>1, <2>1, <2>2 DEF KeysSpent, Spent, Leaving
<1> QED BY Zenon, <1>4, <1>5 DEF Demand

LEMMA LapseKeepsDemand ==
    ASSUME TaskInv, RequestShape, Demand, Lapse, Keyed => Orphaned
    PROVE  Demand'
<1>1. /\ UNCHANGED <<req, exec, mirror, cancel>> /\ row.exists /\ row.task.status \notin Terminal
      /\ row' = [row EXCEPT !.fresh = FALSE]
  BY Zenon DEF Lapse
<1>2. row'.task = row.task
  BY Zenon, <1>1 DEF TaskInv, RowShape
<1>3. NothingCancelled' /\ OwnRequests'
  <2>1. /\ cancel'.pc = "idle" /\ row'.task.status # "cancelled"
        /\ \A q \in Replicas : mirror'[q].status # "cancelled"
    BY Zenon, <1>1, <1>2 DEF Demand, NothingCancelled
  <2> QED BY Zenon, <1>1, <2>1, FewerKeepsDemand
<1>4. ASSUME Keyed PROVE KeysSpent'
  <2>1. Open /\ Created' = Created /\ Active' = Active
    BY Zenon, <1>1 DEF Open, Created, Active
  <2>2. Active = {}
    <3> SUFFICES ASSUME NEW x \in Active PROVE FALSE
      BY Zenon
    <3>1. exec[x].on \in Replicas
      BY Zenon DEF TaskInv, ExecShape, Active
    <3>2. row.owner = exec[x].on
      BY Zenon, <1>4, <2>1 DEF Demand, KeysSpent, Spent
    <3> QED BY Zenon, <1>4, <3>1, <3>2, TaskAssumption DEF Orphaned
  <2> QED BY Zenon, <1>1, <1>2, <1>4, <2>1, <2>2 DEF Demand, KeysSpent
<1> QED BY Zenon, <1>3, <1>4 DEF Demand

\* Nobody who asked is forgotten.
LEMMA AskedStays ==
    ASSUME [Next]_vars, asked' = "no"
    PROVE  asked = "no"
<1>1. ASSUME NEW x \in Execs, Execute(x) \/ Renew(x) PROVE UNCHANGED asked
  BY ZenonT(40), <1>1 DEF Execute, StartAttempt, CreateRequest, Link, Observe, Depart, Unlink, Settle, Release, Renew
<1>2. ASSUME NEW r \in Replicas, CreateTask(r) \/ GetTaskByID(r) \/ Adopt(r) \/ CleanupOldTasks(r)
             \/ Shutdown(r) \/ Exit(r) \/ NewTasksService(r)
      PROVE  UNCHANGED asked
  BY Zenon, <1>2 DEF CreateTask, GetTaskByID, Adopt, CleanupOldTasks, Shutdown, Exit, NewTasksService
<1>3. ASSUME NEW r \in Replicas, CancelTask(r) PROVE FALSE
  BY Zenon, <1>3 DEF CancelTask
<1>4. CASE CancelTaskRequest \/ MarkTaskCancelled \/ Lapse \/ BackoffEnds \/ \E i \in Requests : RequestEnds(i)
  BY Zenon, <1>4 DEF CancelTaskRequest, MarkTaskCancelled, Lapse, BackoffEnds, RequestEnds
<1> QED BY Zenon, <1>1, <1>2, <1>3, <1>4 DEF Next, vars

\* As long as nobody asked, nothing is cancelled.
LEMMA DemandInvInductive == TaskInv /\ DemandInv /\ [Next]_vars => DemandInv'
<1> SUFFICES ASSUME TaskInv, DemandInv, [Next]_vars, Unasked' PROVE Demand'
  BY ZenonT(40), RequestShapeInductive DEF DemandInv
<1>1. TaskInv' /\ RequestShape
  BY Zenon, TaskInvInductive DEF DemandInv
<1>2. Unasked
  <2>1. asked = "no"
    BY Zenon, AskedStays DEF Unasked
  <2>2. Keyed => count.lapse = 0 /\ count.write = 0
    BY CountsGrow DEF Unasked, Kinds
  <2> QED BY Zenon, <2>1, <2>2 DEF Unasked
<1>3. Demand /\ cancel.pc = "idle"
  BY Zenon, <1>2 DEF DemandInv, Demand, NothingCancelled
<1>4. ASSUME UNCHANGED req PROVE SameRequests
  BY Zenon, <1>1, <1>4 DEF SameRequests, RequestShape, Created
<1>5. ASSUME UNCHANGED exec PROVE \A x \in Execs : SameButCtx(x)
  BY Zenon, <1>5 DEF SameButCtx
<1>6. CASE UNCHANGED vars
  BY Zenon, <1>1, <1>3, <1>4, <1>5, <1>6, QuietKeepsDemand DEF vars
<1>7. ASSUME NEW r \in Replicas, GetTaskByID(r) \/ NewTasksService(r) PROVE Demand'
  <2>1. UNCHANGED <<row, req, exec, cancel>> /\ mirror' = [mirror EXCEPT ![r] = row.task]
    BY ZenonT(40), <1>7 DEF GetTaskByID, NewTasksService
  <2>2. \A q \in Replicas : mirror'[q] = mirror[q] \/ mirror'[q] = row.task
    BY Zenon, <2>1 DEF TaskInv, CacheShape
  <2> QED BY Zenon, <1>1, <1>3, <1>4, <1>5, <2>1, <2>2, QuietKeepsDemand
<1>8. ASSUME NEW r \in Replicas, Shutdown(r) PROVE Demand'
  <2>1. UNCHANGED <<row, req, mirror, cancel>> /\ \A x \in Execs : SameButCtx(x)
    BY <1>8, TaskAssumption DEF Shutdown, SameButCtx, TaskInv, ExecShape, Idle
  <2> QED BY Zenon, <1>1, <1>3, <1>4, <2>1, QuietKeepsDemand
<1>9. ASSUME NEW x \in Execs, Renew(x) PROVE Demand'
  <2>1. \A y \in Execs : SameButCtx(y)
    BY Zenon, <1>9, RenewKeepsTask
  <2>2. /\ UNCHANGED <<req, mirror, cancel>> /\ row'.task = row.task /\ row'.owner = row.owner
        /\ (row'.exists => row.exists) /\ (row.exists => row'.exists) /\ (row.fresh => row'.fresh)
    BY Zenon, <1>9 DEF Renew, TaskInv, RowShape
  <2> QED BY Zenon, <1>1, <1>3, <1>4, <2>1, <2>2, QuietKeepsDemand
<1>10. CASE BackoffEnds
  <2>1. /\ UNCHANGED <<req, exec, mirror, cancel>> /\ row'.owner = row.owner
        /\ row'.task.status = row.task.status /\ row'.task.attempts = row.task.attempts
        /\ (row'.exists => row.exists) /\ (row.exists => row'.exists) /\ (row.fresh => row'.fresh)
    BY Zenon, <1>10 DEF BackoffEnds, TaskInv, RowShape, IsTask
  <2> QED BY Zenon, <1>1, <1>3, <1>4, <1>5, <2>1, QuietKeepsDemand
<1>11. ASSUME NEW i \in Requests, RequestEnds(i) PROVE Demand'
  <2>1. SameRequests
    BY ZenonT(40), <1>1, <1>11, RequestEndsKeeps
  <2>2. /\ UNCHANGED <<row, exec, mirror, cancel>>
        /\ \E st \in {"done", "failed"} : req' = [req EXCEPT ![i].status = st]
    BY Zenon, <1>11 DEF RequestEnds, Unasked
  <2>3. \A j \in Created : req'[j].status = req[j].status \/ req'[j].status # "cancelled"
    BY Zenon, <1>1, <2>2 DEF RequestShape, Created
  <2> QED BY Zenon, <1>1, <1>3, <1>5, <2>1, <2>2, <2>3, QuietKeepsDemand
<1>12. CASE Lapse
  <2>1. Keyed => ~ Faulty("lapse")
    BY CountsGrow, FaultCounted DEF TaskInv, CountedOnly, Kinds, Unasked
  <2>2. Keyed => Orphaned
    BY Zenon, <1>12, <2>1 DEF Lapse
  <2> QED BY Zenon, <1>1, <1>3, <1>12, <2>2, LapseKeepsDemand
<1>13. ASSUME NEW x \in Execs, Execute(x) PROVE Demand'
  BY Zenon, <1>1, <1>3, <1>13, ExecuteKeepsDemand, ReleaseKeepsDemand
<1>14. ASSUME NEW r \in Replicas, CreateTask(r) \/ Adopt(r) \/ CleanupOldTasks(r) \/ Exit(r) PROVE Demand'
  BY Zenon, <1>1, <1>3, <1>14, CreateTaskKeepsDemand, AdoptKeepsDemand, CleanupKeepsDemand, ExitKeepsDemand
<1>15. ~ CancelTaskRequest /\ ~ MarkTaskCancelled /\ \A r \in Replicas : ~ CancelTask(r)
  BY ZenonT(40), <1>3 DEF CancelTaskRequest, MarkTaskCancelled, CancelTask, Unasked
<1> QED BY Zenon, <1>6, <1>7, <1>8, <1>9, <1>10, <1>11, <1>12, <1>13, <1>14, <1>15 DEF Next

\* A task ends as cancelled only if somebody asked for it: deadlines, lost leases
\* and shutdowns, which cancel the request they leave, are told apart from it.
THEOREM CancelledOnDemand == Spec => []CancelledOnlyOnDemand
<1>1. Init => DemandInv
  <2> SUFFICES ASSUME Init PROVE DemandInv
    BY Zenon
  <2>1. Created = {} /\ Active = {} /\ ~ Open /\ row.task.status = "pending"
    BY Zenon DEF Init, Created, Active, Idle, Open, NoRow, NewTask
  <2>2. RequestShape
    BY Zenon, <2>1 DEF Init, RequestShape
  <2>3. NothingCancelled /\ OwnRequests
    BY Zenon, <2>1 DEF Init, NothingCancelled, OwnRequests, Waiting, Idle, NoCancel, NewTask
  <2>4. KeysSpent
    BY Zenon, <2>1 DEF KeysSpent
  <2> QED BY Zenon, <2>2, <2>3, <2>4 DEF DemandInv, Demand
<1>2. DemandInv => CancelledOnlyOnDemand
  BY Zenon DEF DemandInv, Demand, NothingCancelled, Unasked, CancelledOnlyOnDemand
<1> QED BY <1>1, <1>2, TaskInvInit, TaskInvInductive, DemandInvInductive, PTL DEF Spec

=============================================================================
