---------------------------- MODULE TaskAdoption ----------------------------
(***************************************************************************)
(* One task row shared by several server replicas: the adoption lease, the *)
(* execution loop (executeTask / runTaskAttempt), cancellation from any    *)
(* replica, the adoption sweep, retention, crashes and shutdown.           *)
(*                                                                         *)
(* Several goroutines may execute the task at once: each is an element of  *)
(* Execs while it runs.  The requests an attempt creates are the ones of   *)
(* RequestQueue, reduced to what a waiter sees of them.                    *)
(***************************************************************************)
EXTENDS Integers

CONSTANTS
    Replicas,      \* server processes
    Execs,         \* goroutines that can run executeTask
    MaxAttempts,   \* task.MaxAttempts
    Keyed,         \* the task was created with an idempotency key
    MaxRequests,   \* bound: requests the attempts create
    Faults,        \* the kinds of trouble that can occur
    MaxFaults,     \* bound: how many occur in all
    None

\* The adopted_by of an instance that is gone: instance ids are never reused.
Dead == "dead instance"

ASSUME TaskAssumption ==
    /\ MaxAttempts \in Nat \ {0} /\ Keyed \in BOOLEAN
    /\ MaxRequests \in Nat /\ MaxFaults \in Nat
    /\ Faults \subseteq {"write", "crash", "lapse", "cleanup"}
    /\ None \notin Replicas \cup Execs \cup Nat
    /\ Replicas \cap Execs = {} /\ Dead \notin Replicas

VARIABLES
    row,       \* the tasks table: NoRow or the durable task with its lease
    req,       \* the requests created by attempts, in order of creation
    exec,      \* exec[x]: the goroutine x and the *model.Task it mutates
    proc,      \* proc[r]: "up", "stopping" (context cancelled) or "down"
    tasks,     \* s.tasks of r: an execution's object, r's mirror or None
    mirror,    \* mirror[r]: the object tasks[r] = r stands for
    entry,     \* entry[r]: s.executions of r, the goroutine and its request id
    cancel,    \* the CancelTask call in progress
    asked,     \* what users were told: "no", "asked", "refused" or "ok"
    count      \* faults and other bounded events so far

vars == <<row, req, exec, proc, tasks, mirror, entry, cancel, asked, count>>

------------------------------------------------------------------------------
(* Data                                                                     *)

Statuses == {"pending", "running", "completed", "failed", "cancelled"}
Terminal == {"completed", "failed", "cancelled"}
Requests == 1..MaxRequests

\* Bound: a task that was attempted this often is not adopted again.
AttemptBound == MaxAttempts + MaxRequests

\* The fields of model.Task the control flow reads.  A dead-lettered task is
\* failed; next says whether the attempt is due.
Task == [status : Statuses, attempts : 0..AttemptBound,
         cur : Requests \cup {None}, due : BOOLEAN]

NewTask == [status |-> "pending", attempts |-> 0, cur |-> None, due |-> TRUE]

\* A row has adopted_by and whether updated_at is within the lease TTL.
NoRow == [task |-> NewTask, owner |-> Dead, fresh |-> FALSE, exists |-> FALSE]
Row == [task : Task, owner : Replicas \cup {None, Dead}, fresh : BOOLEAN, exists : BOOLEAN]

Idle == [pc |-> "idle", on |-> None, task |-> NewTask, rid |-> None, ctx |-> "live", why |-> "none"]
NoEntry == [by |-> None, rid |-> None]
NoCancel == [pc |-> "idle", on |-> None, durable |-> FALSE, task |-> NewTask,
             held |-> None, rid |-> None, stop |-> None]

Active == {x \in Execs : exec[x].pc # "idle"}
Live(i) == req[i].status = "open"
Created == {i \in Requests : req[i].status # "none"}

\* The object s.tasks of replica r points at.
Object(r) == IF tasks[r] \in Execs THEN exec[tasks[r]].task ELSE mirror[r]
isTaskCancelled(r) == tasks[r] # None /\ Object(r).status = "cancelled"

\* Trouble of the given kind occurs: a store write that fails after its retry,
\* a crash or shutdown, a lease that lapses though its owner is alive, a row
\* removed by retention.
Trouble == count.write + count.crash + count.lapse + count.cleanup
Faulty(kind) ==
    /\ kind \in Faults /\ Trouble < MaxFaults
    /\ count' = [count EXCEPT ![kind] = @ + 1]
------------------------------------------------------------------------------
(* The store                                                                *)

\* Mutants of SaveTask: the upsert resets the lease columns, or only a cancelled
\* row is protected from it.
SaveTaskResetsLease(t) ==
    IF row.exists /\ row.task.status \in Terminal THEN row
    ELSE [task |-> t, owner |-> None, fresh |-> TRUE, exists |-> TRUE]
SaveTaskUnguarded(t) ==
    IF ~ row.exists
    THEN [task |-> t, owner |-> None, fresh |-> TRUE, exists |-> TRUE]
    ELSE IF row.task.status = "cancelled" THEN row
    ELSE [row EXCEPT !.task = t, !.fresh = TRUE]

\* An upsert that keeps the lease columns; a terminal row is left alone.
SaveTask(t) ==
    IF ~ row.exists
    THEN [task |-> t, owner |-> None, fresh |-> TRUE, exists |-> TRUE]
    ELSE IF row.task.status \in Terminal THEN row
    ELSE [row EXCEPT !.task = t, !.fresh = TRUE]

\* persistTask: the write lands, or fails for good after one retry.
persistTask(t) ==
    \/ row' = SaveTask(t) /\ UNCHANGED count
    \/ Faulty("write") /\ UNCHANGED row

\* Mutant of FindAdoptableTasks: a lease that expired is not listed.
FindUnownedTasks == row.exists /\ row.task.status \notin Terminal /\ row.task.due /\ row.owner = None

\* FindAdoptableTasks and FindNonTerminalTasks: what a sweep lists.
FindAdoptableTasks ==
    /\ row.exists /\ row.task.status \notin Terminal /\ row.task.due
    /\ row.owner = None \/ ~ row.fresh

\* ClaimTaskForAdoption re-checks status and lease under the row lock, and
\* not whether the attempt is due.
ClaimTaskForAdoption ==
    /\ row.exists /\ row.task.status \notin Terminal
    /\ row.owner = None \/ ~ row.fresh

\* RenewTaskAdoption and ReleaseTaskAdoption touch the row of their owner only.
RenewTaskAdoption(r) == row.exists /\ row.owner = r
ReleaseTaskAdoption(r) == IF RenewTaskAdoption(r) THEN [row EXCEPT !.owner = None, !.fresh = TRUE] ELSE row

\* CancelRequest: a request that has ended is not cancellable.
CancelRequest(rid) ==
    IF rid # None /\ Live(rid) THEN [req EXCEPT ![rid].status = "cancelled"] ELSE req

------------------------------------------------------------------------------
(* Creation, reads and adoption                                             *)

\* CreateTask persists first, caches the object and starts a dispatch, which
\* is an adoption like the sweep's.
CreateTask(r) ==
    /\ proc[r] = "up" /\ count.created = 0
    /\ row' = SaveTask(NewTask)
    /\ count' = [count EXCEPT !.created = 1]
    /\ tasks' = [tasks EXCEPT ![r] = r]
    /\ mirror' = [mirror EXCEPT ![r] = NewTask]
    /\ UNCHANGED <<req, exec, proc, entry, cancel, asked>>

\* GetTaskByID: the row is mirrored when nothing is cached, and what is cached
\* is what the caller gets.  A keyed CreateTask that finds its task, and
\* ListTasks, do the same.
GetTaskByID(r) ==
    /\ proc[r] = "up" /\ row.exists /\ tasks[r] = None
    /\ tasks' = [tasks EXCEPT ![r] = r]
    /\ mirror' = [mirror EXCEPT ![r] = row.task]
    /\ UNCHANGED <<row, req, exec, proc, entry, cancel, asked, count>>

Answer(r) == IF tasks[r] = None THEN row.task ELSE Object(r)

\* Adoption by the sweep, by the dispatch of a new task or at start-up: the
\* task is listed and claimed, and executeTask begins by making the claimed
\* copy the cached object and replacing the executions entry.  Listing and
\* claim are one step, since the claim checks again all the listing did except
\* that the attempt is due.
Adopt(r) ==
    /\ proc[r] = "up" /\ FindAdoptableTasks /\ ClaimTaskForAdoption
    /\ row.task.attempts < AttemptBound
    /\ row' = [row EXCEPT !.owner = r, !.fresh = TRUE]
    /\ \E x \in Execs \ Active :
         /\ x = CHOOSE y \in Execs \ Active : TRUE
         /\ exec' = [exec EXCEPT ![x] = [Idle EXCEPT !.pc = "attempt", !.on = r, !.task = row.task]]
         /\ tasks' = [tasks EXCEPT ![r] = x]
         /\ mirror' = [mirror EXCEPT ![r] = NewTask]
         /\ entry' = [entry EXCEPT ![r] = [by |-> x, rid |-> None]]
    /\ UNCHANGED <<req, proc, cancel, asked, count>>
------------------------------------------------------------------------------
(* The execution loop                                                       *)

\* x moves to pc with the outcome why of its attempt; t is its task object.
Goto(x, pc, t, why) ==
    exec' = [exec EXCEPT ![x] = [@ EXCEPT !.pc = pc, !.task = t, !.why = why,
                                          !.rid = IF pc = "settle" THEN None ELSE exec[x].rid]]

\* The head of the loop and the start of runTaskAttempt.
StartAttempt(x) ==
    LET e == exec[x]
        t == [e.task EXCEPT !.attempts = @ + 1, !.status = "running", !.due = TRUE]
    IN  /\ e.pc = "attempt"
        /\ IF isTaskCancelled(e.on) \/ e.task.status = "cancelled"
           THEN Goto(x, "settle", e.task, "cancelled") /\ UNCHANGED <<row, count>>
           ELSE IF e.ctx # "live"
           THEN Goto(x, "settle", e.task, "stopped") /\ UNCHANGED <<row, count>>
           ELSE Goto(x, "create", t, "none") /\ persistTask(t)
        /\ UNCHANGED <<req, proc, tasks, mirror, entry, cancel, asked>>

\* The key of an attempt's request: none, or derived from the attempt number.
AttemptKey(t) == IF Keyed THEN t.attempts ELSE None

\* selectMachine fails, the context is gone, CreateRequest fails, or the
\* request of this attempt's key exists already or is created.
CreateRequest(x) ==
    LET e == exec[x]
        same == {i \in Created : Keyed /\ req[i].key = AttemptKey(e.task)}
        next == {i \in Requests \ Created : 1..(i - 1) \subseteq Created}
    IN  /\ e.pc = "create"
        /\ \/ Goto(x, "settle", e.task, "error") /\ UNCHANGED <<req, entry>>
           \/ /\ e.ctx # "live"
              /\ Goto(x, "settle", e.task, IF isTaskCancelled(e.on) THEN "cancelled" ELSE "stopped")
              /\ UNCHANGED <<req, entry>>
           \/ /\ e.ctx = "live"
              /\ \E i \in IF same # {} THEN same ELSE next :
                    /\ req' = IF same # {} THEN req
                              ELSE [req EXCEPT ![i] = [status |-> "open", key |-> AttemptKey(e.task)]]
                    /\ exec' = [exec EXCEPT ![x] = [@ EXCEPT !.pc = "link", !.rid = i]]
                    /\ entry' = [entry EXCEPT ![e.on] = IF @.by = None THEN @ ELSE [@ EXCEPT !.rid = i]]
        /\ UNCHANGED <<row, proc, tasks, mirror, cancel, asked, count>>

\* setCurrentRequestID: skipped for a cancelled object.
setCurrentRequestID(x, rid, pc, why) ==
    LET t == [exec[x].task EXCEPT !.cur = rid] IN
    IF exec[x].task.status = "cancelled"
    THEN Goto(x, pc, exec[x].task, why) /\ UNCHANGED <<row, count>>
    ELSE Goto(x, pc, t, why) /\ persistTask(t)

Link(x) ==
    /\ exec[x].pc = "link"
    /\ setCurrentRequestID(x, exec[x].rid, "wait", "none")
    /\ UNCHANGED <<req, proc, tasks, mirror, entry, cancel, asked>>

\* WaitForRequestTerminal returns with what the request ended with.
Observe(x) ==
    LET e == exec[x]
        s == req[e.rid].status
        done == [e.task EXCEPT !.status = "completed", !.due = TRUE]
    IN  /\ e.pc = "wait" /\ s # "open"
        /\ IF isTaskCancelled(e.on) \/ (s = "done" /\ e.task.status = "cancelled")
           THEN Goto(x, "unlink", e.task, "cancelled") /\ UNCHANGED <<row, count>>
           ELSE IF s = "done"
           THEN Goto(x, "unlink", done, "ok") /\ persistTask(done)
           ELSE /\ Goto(x, "unlink", e.task, IF s = "cancelled" THEN "request cancelled" ELSE "error")
                /\ UNCHANGED <<row, count>>
        /\ UNCHANGED <<req, proc, tasks, mirror, entry, cancel, asked>>

\* The waiter's context ends first, by deadline or by cancellation: it cancels
\* the request, which may have ended since it was last read, and leaves.
Depart(x) ==
    LET e == exec[x] IN
    /\ e.pc = "wait"
    /\ \E why \in {"timed out"} \cup (IF e.ctx = "live" THEN {} ELSE {"stopped"}) :
         Goto(x, "unlink", e.task, IF isTaskCancelled(e.on) THEN "cancelled" ELSE why)
    /\ \/ req' = CancelRequest(e.rid) /\ UNCHANGED count
       \/ Faulty("write") /\ UNCHANGED req
    /\ UNCHANGED <<row, proc, tasks, mirror, entry, cancel, asked>>

\* The deferred clearing of the request id, in memory and in the row.
Unlink(x) ==
    /\ exec[x].pc = "unlink"
    /\ entry' = [entry EXCEPT ![exec[x].on] = [@ EXCEPT !.rid = None]]
    /\ setCurrentRequestID(x, None, "settle", exec[x].why)
    /\ UNCHANGED <<req, proc, tasks, mirror, cancel, asked>>

\* x stops with object t, which it writes.
Finish(x, t) == Goto(x, "release", t, "none") /\ persistTask(t)
Leave(x) == Goto(x, "release", exec[x].task, "none") /\ UNCHANGED <<row, count>>

\* Mutant of updateTaskWithError: the outcome is taken for a cancellation.
UpdateWithCancelledAlways(x) ==
    IF exec[x].task.status = "cancelled" THEN Leave(x)
    ELSE Finish(x, [exec[x].task EXCEPT !.status = "cancelled", !.due = TRUE])

updateTaskWithError(x) ==
    IF exec[x].task.status = "cancelled" THEN Leave(x)
    ELSE Finish(x, [exec[x].task EXCEPT !.status = "failed", !.due = TRUE])

updateTaskWithCancelled(x) ==
    IF exec[x].task.status \in Terminal THEN Leave(x)
    ELSE Finish(x, [exec[x].task EXCEPT !.status = "cancelled", !.due = TRUE])

\* Mutant of Retry: off by one in the number of attempts.
RetryOnceMore(x) ==
    LET t == exec[x].task IN
    IF isTaskCancelled(exec[x].on) \/ t.status = "cancelled" THEN Leave(x)
    ELSE IF t.attempts > MaxAttempts THEN Finish(x, [t EXCEPT !.status = "failed"])
    ELSE Finish(x, [t EXCEPT !.status = "pending", !.due = FALSE])

\* Another attempt after the backoff, or the dead letter.
Retry(x) ==
    LET t == exec[x].task IN
    IF isTaskCancelled(exec[x].on) \/ t.status = "cancelled" THEN Leave(x)
    ELSE IF t.attempts >= MaxAttempts THEN Finish(x, [t EXCEPT !.status = "failed"])
    ELSE Finish(x, [t EXCEPT !.status = "pending", !.due = FALSE])

\* What executeTask makes of the outcome of the attempt.
Settle(x) ==
    LET e == exec[x] IN
    /\ e.pc = "settle"
    /\ CASE e.why \in {"ok", "cancelled"} -> Leave(x)
         [] e.why = "request cancelled" -> updateTaskWithCancelled(x)
         [] e.why = "timed out" -> updateTaskWithError(x)
         [] e.why = "stopped" ->
              IF isTaskCancelled(e.on) \/ e.ctx = "lost" THEN Leave(x) ELSE updateTaskWithError(x)
         [] e.why = "error" -> Retry(x)
    /\ UNCHANGED <<req, proc, tasks, mirror, entry, cancel, asked>>

\* x is gone from replica r: its object stays cached as the mirror.
Ended(x, r) ==
    /\ exec' = [exec EXCEPT ![x] = Idle]
    /\ entry' = [entry EXCEPT ![r] = NoEntry]
    /\ tasks' = [tasks EXCEPT ![r] = IF @ = x THEN r ELSE @]
    /\ mirror' = [mirror EXCEPT ![r] = IF tasks[r] = x THEN exec[x].task ELSE @]
    /\ cancel' = [cancel EXCEPT !.held = IF @ = x THEN r ELSE @, !.stop = IF @ = x THEN None ELSE @]

\* The deferred release of the lease and of the executions entry.
Release(x) ==
    LET r == exec[x].on IN
    /\ exec[x].pc = "release"
    /\ \/ row' = ReleaseTaskAdoption(r) /\ UNCHANGED count
       \/ Faulty("write") /\ UNCHANGED row
    /\ Ended(x, r)
    /\ UNCHANGED <<req, proc, asked>>

\* A tick of the renewal goroutine, which lives as long as the context.
Renew(x) ==
    LET e == exec[x] IN
    /\ e.pc # "idle" /\ e.ctx = "live"
    /\ IF RenewTaskAdoption(e.on)
       THEN ~ row.fresh /\ row' = [row EXCEPT !.fresh = TRUE] /\ UNCHANGED exec
       ELSE exec' = [exec EXCEPT ![x].ctx = "lost"] /\ UNCHANGED row
    /\ UNCHANGED <<req, proc, tasks, mirror, entry, cancel, asked, count>>

------------------------------------------------------------------------------
(* CancelTask, on any replica                                               *)

Cancelled(t) == [t EXCEPT !.status = "cancelled", !.due = TRUE]

\* The row (or, when it cannot be read, the cached object) decides; the
\* request to stop is the one the local execution records, else the row's.
CancelTask(r) ==
    \E durable \in BOOLEAN :
    LET working == IF durable THEN row.task ELSE Object(r)
        rid == IF entry[r].rid # None THEN entry[r].rid ELSE working.cur
    IN  /\ proc[r] = "up" /\ cancel.pc = "idle" /\ asked = "no"
        /\ durable => row.exists
        /\ ~ durable => tasks[r] # None
        /\ working.status \notin Terminal
        /\ IF durable THEN UNCHANGED count ELSE Faulty("write")
        /\ cancel' = [pc |-> IF rid = None THEN "mark" ELSE "request", on |-> r, durable |-> durable,
                      task |-> working, held |-> tasks[r], rid |-> rid, stop |-> entry[r].by]
        /\ asked' = "asked"
        /\ tasks' = [tasks EXCEPT ![r] = IF @ = None THEN r ELSE @]
        /\ mirror' = [mirror EXCEPT ![r] = IF tasks[r] = None THEN row.task ELSE @]
        /\ UNCHANGED <<row, req, exec, proc, entry>>

\* The execution whose context the cancel function ends.
Stop(e, x) == IF cancel.stop = x /\ e.ctx = "live" THEN [e EXCEPT !.ctx = "stopped"] ELSE e

\* The request goes first.  When it cannot be cancelled the caller is told
\* so, and the local attempt is stopped all the same.
CancelTaskRequest ==
    /\ cancel.pc = "request"
    /\ \/ /\ req' = CancelRequest(cancel.rid)
          /\ cancel' = [cancel EXCEPT !.pc = "mark"]
          /\ UNCHANGED <<exec, asked, count>>
       \/ /\ Faulty("write")
          /\ exec' = [x \in Execs |-> Stop(exec[x], x)]
          /\ cancel' = NoCancel
          /\ asked' = "refused"
          /\ UNCHANGED req
    /\ UNCHANGED <<row, proc, tasks, mirror, entry>>

\* What is left of replica r when its process is gone: nothing of it, and a
\* lease nobody will renew.
Gone(r) ==
    /\ proc' = [proc EXCEPT ![r] = "down"]
    /\ exec' = [x \in Execs |-> IF exec[x].on = r THEN Idle ELSE exec[x]]
    /\ tasks' = [tasks EXCEPT ![r] = None]
    /\ mirror' = [mirror EXCEPT ![r] = NewTask]
    /\ entry' = [entry EXCEPT ![r] = NoEntry]
    /\ cancel' = IF cancel.on = r THEN NoCancel ELSE cancel
    /\ row' = [row EXCEPT !.owner = IF @ = r THEN Dead ELSE @]

\* Mutant of MarkTaskCancelled: only the cached object is marked.
MarkCachedTask ==
    /\ cancel.pc = "mark"
    /\ exec' = [x \in Execs |->
          Stop(IF cancel.held = x THEN [exec[x] EXCEPT !.task = Cancelled(@)] ELSE exec[x], x)]
    /\ mirror' = [mirror EXCEPT ![cancel.on] = IF tasks[cancel.on] = cancel.on THEN Cancelled(@) ELSE @]
    /\ cancel' = NoCancel
    /\ asked' = "ok"
    /\ UNCHANGED <<row, req, proc, tasks, entry, count>>

\* The cached object and the row are marked, and the local execution stopped.
\* A write that fails is only logged, through the cached object: with none
\* cached beforehand the log line dereferences nil and the process dies.
MarkTaskCancelled ==
    LET r == cancel.on
        h == cancel.held
        t == Cancelled(IF cancel.durable THEN cancel.task
                       ELSE IF h \in Execs THEN exec[h].task ELSE mirror[r])
        fails == Faulty("write")
    IN  /\ cancel.pc = "mark"
        /\ \/ /\ \/ row' = SaveTask(t) /\ UNCHANGED count
                 \/ h # None /\ fails /\ UNCHANGED row
              /\ exec' = [x \in Execs |->
                    Stop(IF h = x THEN [exec[x] EXCEPT !.task = Cancelled(@)] ELSE exec[x], x)]
              /\ mirror' = [mirror EXCEPT ![r] = IF tasks[r] = r THEN Cancelled(@) ELSE @]
              /\ cancel' = NoCancel
              /\ asked' = "ok"
              /\ UNCHANGED <<proc, tasks, entry>>
           \/ h = None /\ fails /\ Gone(r) /\ UNCHANGED asked
        /\ UNCHANGED req
------------------------------------------------------------------------------
(* Retention, processes, time and providers                                 *)

\* CleanupOldTasks: what is cached as terminal and not executing here goes,
\* from the cache and from the table.
CleanupOldTasks(r) ==
    /\ proc[r] = "up" /\ Faulty("cleanup")
    /\ tasks[r] = r /\ mirror[r].status \in Terminal /\ entry[r] = NoEntry
    /\ tasks' = [tasks EXCEPT ![r] = None]
    /\ mirror' = [mirror EXCEPT ![r] = NewTask]
    /\ row' = NoRow
    /\ UNCHANGED <<req, exec, proc, entry, cancel, asked>>

\* SIGTERM cancels the service context: executions stop, sweeps end.
Shutdown(r) ==
    /\ proc[r] = "up" /\ Faulty("crash")
    /\ proc' = [proc EXCEPT ![r] = "stopping"]
    /\ exec' = [x \in Execs |->
          IF exec[x].on = r /\ exec[x].ctx = "live" THEN [exec[x] EXCEPT !.ctx = "stopped"] ELSE exec[x]]
    /\ UNCHANGED <<row, req, tasks, mirror, entry, cancel, asked>>

\* The process ends: a crash, or the end of a shutdown, which does not wait
\* for executions.
Exit(r) ==
    /\ \/ proc[r] = "stopping" /\ UNCHANGED count
       \/ proc[r] = "up" /\ Faulty("crash")
    /\ Gone(r)
    /\ UNCHANGED <<req, asked>>

\* NewTasksService loads every task; due ones are claimed as in a sweep.
NewTasksService(r) ==
    /\ proc[r] = "down"
    /\ proc' = [proc EXCEPT ![r] = "up"]
    /\ tasks' = [tasks EXCEPT ![r] = IF row.exists THEN r ELSE None]
    /\ mirror' = [mirror EXCEPT ![r] = row.task]
    /\ UNCHANGED <<row, req, exec, entry, cancel, asked, count>>

\* The lease TTL passes without a touch: always once the owner is gone, and
\* as trouble while it lives but cannot reach the store in time.
Orphaned == row.owner = Dead \/ \A x \in Active : exec[x].on # row.owner
Lapse ==
    /\ row.exists /\ row.task.status \notin Terminal /\ row.owner # None /\ row.fresh
    /\ row' = [row EXCEPT !.fresh = FALSE]
    /\ \/ Orphaned /\ UNCHANGED count
       \/ ~ Orphaned /\ Faulty("lapse")
    /\ UNCHANGED <<req, exec, proc, tasks, mirror, entry, cancel, asked>>

\* next_attempt_at is reached.
BackoffEnds ==
    /\ row.exists /\ ~ row.task.due
    /\ row' = [row EXCEPT !.task.due = TRUE]
    /\ UNCHANGED <<req, exec, proc, tasks, mirror, entry, cancel, asked, count>>

\* Providers, the reaper and other callers move a request on; a user may
\* cancel it directly.  Nothing here reads a request nobody waits for.
RequestEnds(i) ==
    /\ Live(i) /\ \E x \in Execs : exec[x].pc = "wait" /\ exec[x].rid = i
    /\ \E s \in {"done", "failed", "cancelled"} :
          /\ req' = [req EXCEPT ![i].status = s]
          /\ asked' = IF s = "cancelled" /\ asked = "no" THEN "asked" ELSE asked
          /\ s = "cancelled" => asked = "no"
    /\ UNCHANGED <<row, exec, proc, tasks, mirror, entry, cancel, count>>
------------------------------------------------------------------------------
(* The specification                                                        *)

Init ==
    /\ row = NoRow
    /\ req = [i \in Requests |-> [status |-> "none", key |-> None]]
    /\ exec = [x \in Execs |-> Idle]
    /\ proc = [r \in Replicas |-> "up"]
    /\ tasks = [r \in Replicas |-> None]
    /\ mirror = [r \in Replicas |-> NewTask]
    /\ entry = [r \in Replicas |-> NoEntry]
    /\ cancel = NoCancel
    /\ asked = "no"
    /\ count = [created |-> 0, write |-> 0, crash |-> 0, lapse |-> 0, cleanup |-> 0]

\* One step of the goroutine x.
Execute(x) ==
    StartAttempt(x) \/ CreateRequest(x) \/ Link(x) \/ Observe(x) \/ Depart(x)
        \/ Unlink(x) \/ Settle(x) \/ Release(x)

Next ==
    \/ \E r \in Replicas : \/ CreateTask(r) \/ GetTaskByID(r) \/ Adopt(r)
                           \/ CancelTask(r) \/ CleanupOldTasks(r)
                           \/ Shutdown(r) \/ Exit(r) \/ NewTasksService(r)
    \/ \E x \in Execs : Execute(x) \/ Renew(x)
    \/ CancelTaskRequest \/ MarkTaskCancelled
    \/ Lapse \/ BackoffEnds
    \/ \E i \in Requests : RequestEnds(i)

\* Goroutines are scheduled, sweeps tick, a stopped process exits and is
\* started again, and clocks advance.  Nobody must create, read or cancel.
Fairness ==
    /\ \A r \in Replicas : /\ WF_vars(Adopt(r))
                           /\ WF_vars(proc[r] = "stopping" /\ Exit(r)) /\ WF_vars(NewTasksService(r))
    /\ \A x \in Execs : WF_vars(Execute(x))
    /\ WF_vars(Orphaned /\ Lapse) /\ WF_vars(BackoffEnds)

Spec == Init /\ [][Next]_vars
FairSpec == Spec /\ Fairness
------------------------------------------------------------------------------
(* Properties                                                               *)

\* A durable terminal outcome is never rewritten (SaveTask's terminal guard),
\* whatever stale executions, late cancels or failed writes still do; the row
\* can only be removed by retention.
TerminalTaskIsFinal ==
    [][row.exists /\ row.task.status \in Terminal /\ row'.exists => row'.task = row.task]_vars

\* The adoption lease excludes: as long as no owner that is alive let its
\* lease lapse, and retention removed nothing, one goroutine in the whole
\* cluster executes the task, across crashes, shutdowns and failed writes.
OneExecutorPerLease ==
    count.lapse = 0 /\ count.cleanup = 0 => \A x, y \in Active : x = y

\* MaxAttempts bounds the attempts of a task, except that every crash, lapse
\* or failed write may cost one more: the counter is checked only after an
\* attempt, so an adopter always starts one.
AttemptsBounded ==
    count.lapse = 0 /\ count.cleanup = 0 => row.task.attempts <= MaxAttempts + Trouble

\* A task ends as cancelled only if somebody asked for it: a deadline, a lost
\* lease or a shutdown, which all cancel the request, never look like a
\* cancellation by the user.  A keyed task is left out once a live owner let its
\* lease lapse or a write failed: two executions can then be at the same attempt
\* number and share its request, and one that left has cancelled the other's.
CancelledOnlyOnDemand ==
    row.exists /\ row.task.status = "cancelled" /\ (Keyed => count.lapse = 0 /\ count.write = 0)
        => asked # "no"

\* A CancelTask that returned success left a terminal row: as long as no
\* write failed, no sweep will execute the task again.
CancelIsDurable ==
    asked = "ok" /\ count.write = 0 /\ count.cleanup = 0
        => row.exists /\ row.task.status \in Terminal

\* Every task that was created reaches a durable outcome, or is removed.
TaskEnds == row.exists ~> (~ row.exists \/ row.task.status \in Terminal)

\* What GetTaskByID answers for a task that has ended is an outcome, on every
\* replica ("Store-first when a store is configured").
ReadsSeeTheOutcome ==
    row.exists /\ row.task.status \in Terminal
        => \A r \in Replicas : proc[r] = "up" => Answer(r).status \in Terminal
=============================================================================
