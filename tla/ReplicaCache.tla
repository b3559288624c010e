---------------------------- MODULE ReplicaCache ----------------------------
(***************************************************************************)
(* The requests service of several replicas around the requests with one   *)
(* idempotency key: the cache each replica keeps of rows it read or wrote, *)
(* idempotent creation, waiters and the signals that wake them, retention. *)
(*                                                                         *)
(* What the store makes of a call is RequestQueue's subject; here a row is *)
(* its status and its updated_at.  The writing transactions take that from *)
(* the clock while they hold the row, except the reclaim, which writes the *)
(* time of the scan before it.  Clocks of replicas agree.  The steps of a  *)
(* call that take the cache lock separately are separate steps.            *)
(***************************************************************************)
EXTENDS Integers, FiniteSetsExt

CONSTANTS
    Replicas,     \* server processes
    Requests,     \* request ids that creations can draw
    Calls,        \* calls in progress at the same time (bound)
    Waiters,      \* goroutines in WaitForRequestState or WaitForRequestTerminal
    MaxWrites,    \* bound: writes of all rows
    MaxEvents,    \* bound: failed store calls, retention sweeps and restarts
    None

ASSUME CacheAssumption ==
    /\ MaxWrites \in Nat /\ MaxEvents \in Nat
    /\ None \notin Replicas \cup Requests \cup Calls \cup Waiters

VARIABLES
    row,       \* row[q]: the requests table; ver 0 when there is no row
    cache,     \* cache[r][q]: s.requests of replica r
    call,      \* call[c]: a call in progress
    waiter,    \* waiter[w]: a waiting goroutine and its subscription
    named,     \* the ids that creations with the key were answered with
    count      \* what has happened so far, see Init

vars == <<row, cache, call, waiter, named, count>>

\* "done" is done or failed: a row with a result.
Terminal == {"done", "cancelled"}
Statuses == {"pending", "claimed", "running", "removed"} \cup Terminal

\* ver counts the writes, at is updated_at: 2 * ver, or between two writes.
\* lease is the write that last set the lease deadline.
NoRow == [status |-> "pending", ver |-> 0, at |-> 0, lease |-> 0]
Row == [status : Statuses, ver : 0..MaxWrites, at : 0..2 * MaxWrites, lease : 0..MaxWrites]
CanWrite == MapThenSumSet(LAMBDA q : row[q].ver, Requests) < MaxWrites
Exists(q) == row[q].ver > 0 /\ row[q].status # "removed"

NoCall == [pc |-> "idle", on |-> None, op |-> "none", q |-> None, got |-> NoRow]
NoWait == [pc |-> "off", on |-> None, q |-> None, kind |-> "none", tuned |-> FALSE, woken |-> FALSE, saw |-> NoRow]

\* Something is noted that a property refers to; a rare event occurs.
Noted(what) == count' = [count EXCEPT ![what] = 1]
Event(what) ==
    /\ count.errors + count.sweeps + count.restarts < MaxEvents
    /\ count' = [count EXCEPT ![what] = @ + 1]
StoreError == Event("errors")
------------------------------------------------------------------------------
(* Cache and signals                                                        *)

\* A clone of row x becomes the cached copy of q on r, whatever was there.
Overwrite(r, q, x) == cache' = [cache EXCEPT ![r][q] = x]

\* The copy that stays when y arrives where x is cached, by updated_at.
Newer(x, y) == IF x.at > y.at THEN x ELSE y

\* mirrorRequestLocked, and the guard in GetRequestByID.
mirrorRequest(r, q, x) == Overwrite(r, q, Newer(cache[r][q], x))

\* The channel in the signal map of r for q is closed and replaced, or its
\* entry dropped: a goroutine that holds the old channel is woken, or is
\* detached from what is broadcast later.
Listening(w, r, q) == waiter[w].on = r /\ waiter[w].q = q /\ waiter[w].tuned
notifyRequestUpdate(r, q) ==
    waiter' = [w \in Waiters |->
        IF Listening(w, r, q) THEN [waiter[w] EXCEPT !.tuned = FALSE, !.woken = TRUE] ELSE waiter[w]]
Detached(ws, r, q) ==
    [w \in Waiters |-> IF ws[w].on = r /\ ws[w].q = q THEN [ws[w] EXCEPT !.tuned = FALSE] ELSE ws[w]]
releaseRequestSignal(r, q) == waiter' = Detached(waiter, r, q)

\* Call c goes on as x.
Continue(c, x) == call' = [call EXCEPT ![c] = x]
------------------------------------------------------------------------------
(* CreateRequest with an idempotency key                                    *)

\* A creation is answered with q, or goes on as x.
Answer(c, q) == Continue(c, NoCall) /\ named' = named \cup {q}
GoOn(c, x) == Continue(c, x) /\ UNCHANGED named

\* The cache, then the store; on a miss c goes on as x.  The row is cached
\* unless the id is; a store error is taken for a miss.
Cached(r) == {q \in Requests : cache[r][q].ver > 0}
findRequestByIdempotencyKey(c, r, x) ==
    LET stored == {q \in Requests : Exists(q)} IN
    \/ \E q \in Cached(r) : Answer(c, q) /\ UNCHANGED <<cache, count>>
    \/ \E q \in stored : Cached(r) = {} /\ Answer(c, q) /\ Overwrite(r, q, row[q]) /\ UNCHANGED count
    \/ /\ Cached(r) = {} /\ GoOn(c, x) /\ UNCHANGED cache
       /\ IF stored = {} THEN UNCHANGED count ELSE StoreError

\* The key is looked up first, and again after a collision.
Find(c) ==
    /\ call[c].pc = "idle"
    /\ \E r \in Replicas :
         findRequestByIdempotencyKey(c, r, [NoCall EXCEPT !.pc = "insert", !.on = r])
    /\ UNCHANGED <<row, waiter>>

FindWinner(c) ==
    /\ call[c].pc = "collided"
    /\ findRequestByIdempotencyKey(c, call[c].on, NoCall)
    /\ UNCHANGED <<row, waiter>>

\* Mutant of InsertRequest: no unique index on the key.
InsertUnindexed == \E q \in Requests : ~ Exists(q)

\* The unique index on (session, key) admits one row.
InsertRequest == \A q \in Requests : ~ Exists(q)

\* The row is inserted and cached under one hold of the cache lock.  A missing
\* tool, no machine or a full backlog refuse the creation.
CreateRequest(c) ==
    LET r == call[c].on
        new == [status |-> "pending", ver |-> 1, at |-> 2, lease |-> 0]
    IN  /\ call[c].pc = "insert"
        /\ \/ \E q \in Requests :
                 /\ InsertRequest /\ CanWrite /\ row[q] = NoRow /\ q = CHOOSE p \in Requests : row[p] = NoRow
                 /\ row' = [row EXCEPT ![q] = new]
                 /\ Overwrite(r, q, new)
                 /\ Continue(c, [call[c] EXCEPT !.pc = "mirror", !.q = q, !.got = new, !.op = "create"])
                 /\ named' = named \cup {q}
                 /\ UNCHANGED count
           \/ /\ ~ InsertRequest
              /\ Continue(c, [call[c] EXCEPT !.pc = "collided"])
              /\ UNCHANGED <<row, cache, named, count>>
           \/ Continue(c, NoCall) /\ UNCHANGED <<row, cache, named, count>>
        /\ UNCHANGED waiter
------------------------------------------------------------------------------
(* Writes of an existing request                                            *)

\* What a write does to a row: the next version, stamped by the clock.
Held == {"claimed", "running"}
Written(x, status) ==
    [status |-> status, ver |-> x.ver + 1, at |-> 2 * (x.ver + 1), lease |-> IF status \in Held THEN x.lease ELSE 0]
Leased(x, status) == [Written(x, status) EXCEPT !.lease = x.ver + 1]

\* The rows that the store can make of x for each operation: "run" stands for
\* the writes that extend the lease, "append" for those that leave it, "requeue"
\* for the moves back to pending, "submit" for those that end the request.  A
\* finished row takes chunks, and the requeue for capacity takes it as well.
Outcomes(op, x) ==
    CASE op = "claim" -> IF x.status = "pending" THEN {Leased(x, "claimed")} ELSE {}
      [] op = "run" -> IF x.status \in Held THEN {Leased(x, "running")} ELSE {}
      [] op = "append" -> IF x.status \in Held \cup {"done"} THEN {Written(x, x.status)} ELSE {}
      [] op = "requeue" -> IF x.status \in Held \cup {"done"} THEN {Written(x, "pending")} ELSE {}
      [] op = "submit" -> IF x.status \in Held THEN {Written(x, "done")} ELSE {}
      [] op = "cancel" -> IF x.status \in Terminal THEN {x} ELSE {Written(x, "cancelled")}

\* The fenced writes keep the newer copy; claim, cancel and reclaim do not ask.
Guarded == {"run", "append", "requeue", "submit"}

\* The write commits on replica r; what follows is done with the row it got.
Commit(c) ==
    /\ call[c].pc = "idle"
    /\ \E r \in Replicas, q \in Requests, op \in Guarded \cup {"claim", "cancel"} :
         /\ Exists(q)
         /\ \E x \in Outcomes(op, row[q]) :
              /\ x = row[q] \/ CanWrite
              /\ row' = [row EXCEPT ![q] = x]
              /\ Continue(c, [NoCall EXCEPT !.pc = "mirror", !.on = r, !.q = q, !.got = x,
                              !.op = IF op = "cancel" /\ x = row[q] THEN "refused" ELSE op])
         /\ IF op = "cancel" THEN Noted("cancel")
            ELSE IF op = "requeue" /\ row[q].status \in Terminal THEN Noted("revived") ELSE UNCHANGED count
    /\ UNCHANGED <<cache, waiter, named>>

\* markStalledRequests: the scan, which fixes the time, and then the reclaim
\* of the row if its lease was not extended since.
FindExpiredRequests(c) ==
    /\ call[c].pc = "idle"
    /\ \E r \in Replicas, q \in Requests :
         /\ Exists(q) /\ row[q].status \in Held
         /\ Continue(c, [NoCall EXCEPT !.pc = "reclaim", !.on = r, !.op = "reclaim", !.q = q, !.got = row[q]])
    /\ UNCHANGED <<row, cache, waiter, named, count>>

reclaimExpired(c) ==
    LET q == call[c].q
        scan == 2 * call[c].got.ver + 1
    IN  /\ call[c].pc = "reclaim"
        /\ IF Exists(q) /\ row[q].status \in Held /\ row[q].lease <= call[c].got.ver
           THEN \E s \in {"pending", "done"} :
                  LET x == [Written(row[q], s) EXCEPT !.at = scan] IN
                  /\ CanWrite
                  /\ row' = [row EXCEPT ![q] = x]
                  /\ Continue(c, [call[c] EXCEPT !.pc = "mirror", !.got = x])
                  /\ IF scan < row[q].at THEN Noted("backdated") ELSE UNCHANGED count
           ELSE Continue(c, NoCall) /\ UNCHANGED <<row, count>>
        /\ UNCHANGED <<cache, waiter, named>>

\* The row is mirrored (a new one already is) and the waiters of the replica are
\* woken.  (Between the two, only readers of the cache could notice anything.)
Mirror(c) ==
    LET o == call[c] IN
    /\ o.pc = "mirror"
    /\ IF o.op = "create" THEN UNCHANGED cache
       ELSE IF o.op \in Guarded THEN mirrorRequest(o.on, o.q, o.got)
       ELSE Overwrite(o.on, o.q, o.got)
    /\ IF o.op = "refused" THEN UNCHANGED waiter ELSE notifyRequestUpdate(o.on, o.q)
    /\ Continue(c, IF o.op \in {"submit", "cancel"} THEN [o EXCEPT !.pc = "release", !.got = NoRow] ELSE NoCall)
    /\ UNCHANGED <<row, named, count>>

Release(c) ==
    /\ call[c].pc = "release"
    /\ releaseRequestSignal(call[c].on, call[c].q)
    /\ Continue(c, NoCall)
    /\ UNCHANGED <<row, cache, named, count>>
------------------------------------------------------------------------------
(* Reads                                                                    *)

\* GetRequestByID ("get") and GetRequestByIDAnySession ("any") read the store;
\* a failed read is answered from the cache and changes nothing.
ReadRow(c) ==
    /\ call[c].pc = "idle"
    /\ \E r \in Replicas, q \in Requests, op \in {"get", "any"} :
         /\ Exists(q)
         /\ Continue(c, [NoCall EXCEPT !.pc = "refresh", !.on = r, !.op = op, !.q = q, !.got = row[q]])
    /\ UNCHANGED <<row, cache, waiter, named, count>>

\* Mutant of GetRequestByID: a cached copy always wins.
GetCached(c) ==
    LET x == cache[call[c].on][call[c].q] IN IF x.ver > 0 THEN x ELSE call[c].got

\* The copy that is cached afterwards and that the caller gets.
GetRequestByID(c) ==
    LET o == call[c] IN IF o.op = "get" THEN Newer(cache[o.on][o.q], o.got) ELSE o.got

Refresh(c) ==
    LET o == call[c] IN
    /\ o.pc = "refresh"
    /\ Overwrite(o.on, o.q, GetRequestByID(c))
    /\ IF GetRequestByID(c).ver < o.got.ver THEN Noted("stale") ELSE UNCHANGED count
    /\ Continue(c, NoCall)
    /\ UNCHANGED <<row, waiter, named>>
------------------------------------------------------------------------------
(* Waiters                                                                  *)

\* w goes on as x.
Wait(w, x) == waiter' = [waiter EXCEPT ![w] = x]

\* Mutant of BeginWait: the subscription is left to the first wait.
BeginUnsubscribed(w) ==
    /\ waiter[w].pc = "off"
    /\ \E r \in Replicas, q \in Requests :
         /\ Exists(q)
         /\ Wait(w, [NoWait EXCEPT !.pc = "read", !.on = r, !.q = q])
    /\ UNCHANGED <<row, cache, call, named, count>>

\* WaitForRequestState ("state") and WaitForRequestTerminal ("terminal"): the
\* subscription comes before the first read.  Their loops are the same until the
\* caller's context ends; which of the two it was is told there.
BeginWait(w) ==
    /\ waiter[w].pc = "off"
    /\ \E r \in Replicas, q \in Requests :
         /\ Exists(q)
         /\ Wait(w, [NoWait EXCEPT !.pc = "read", !.on = r, !.q = q, !.tuned = TRUE])
    /\ UNCHANGED <<row, cache, call, named, count>>

\* waitForRequestState: the row, or what is cached if it cannot be read (the
\* wait fails when there is neither).
waitForRequestState(w) ==
    LET o == waiter[w]
        x == cache[o.on][o.q]
    IN  /\ o.pc = "read"
        /\ \/ /\ Exists(o.q) /\ UNCHANGED count
              /\ Wait(w, [o EXCEPT !.pc = "check", !.saw = row[o.q]])
           \/ /\ IF Exists(o.q) THEN StoreError ELSE UNCHANGED count
              /\ Wait(w, IF x.ver = 0 THEN [NoWait EXCEPT !.pc = "lost"] ELSE [o EXCEPT !.pc = "check", !.saw = x])
        /\ UNCHANGED <<row, cache, call, named>>

\* The row read is cached, and an outcome ends the wait and drops the signal.
\* (After a failed read the cached copy is written over itself.)
CheckState(w) ==
    LET o == waiter[w] IN
    /\ o.pc = "check"
    /\ Overwrite(o.on, o.q, o.saw)
    /\ IF o.saw.status \in Terminal
       THEN waiter' = [Detached(waiter, o.on, o.q) EXCEPT ![w] = [o EXCEPT !.pc = "returned", !.tuned = FALSE, !.woken = FALSE]]
       ELSE Wait(w, [o EXCEPT !.pc = "select", !.saw = NoRow])
    /\ UNCHANGED <<row, call, named, count>>

\* The subscription is renewed and the state read again.
Again(w) == Wait(w, [waiter[w] EXCEPT !.pc = "read", !.tuned = TRUE, !.woken = FALSE])

\* The channel that w selects on is closed.
Wake(w) ==
    /\ waiter[w].pc = "select" /\ waiter[w].woken
    /\ Again(w)
    /\ UNCHANGED <<row, cache, call, named, count>>

\* The poll ticker fires.
Poll(w) ==
    /\ waiter[w].pc = "select"
    /\ Again(w)
    /\ UNCHANGED <<row, cache, call, named, count>>

Left(w, kind) == Wait(w, [waiter[w] EXCEPT !.pc = "left", !.kind = kind, !.tuned = FALSE, !.woken = FALSE])

\* Mutant of Depart: neither kind of waiter cancels.
DepartQuietly(w) ==
    /\ waiter[w].pc = "select" /\ \E kind \in {"state", "terminal"} : Left(w, kind)
    /\ UNCHANGED <<row, cache, call, named, count>>

\* The caller's context ends.  WaitForRequestTerminal cancels the request, as
\* CancelRequest does; WaitForRequestState leaves it alone.
Depart(w) ==
    LET o == waiter[w] IN
    /\ o.pc = "select"
    /\ \/ Left(w, "state") /\ UNCHANGED <<row, call, count>>
       \/ /\ Left(w, "terminal") /\ Exists(o.q)
          /\ \E c \in Calls, x \in Outcomes("cancel", row[o.q]) :
               /\ call[c].pc = "idle" /\ (x = row[o.q] \/ CanWrite)
               /\ row' = [row EXCEPT ![o.q] = x]
               /\ Continue(c, [NoCall EXCEPT !.pc = "mirror", !.on = o.on, !.q = o.q, !.got = x,
                               !.op = IF x = row[o.q] THEN "refused" ELSE "cancel"])
          /\ Noted("cancel")
       \/ /\ Left(w, "terminal") /\ (IF Exists(o.q) THEN StoreError ELSE UNCHANGED count)
          /\ UNCHANGED <<row, call>>
    /\ UNCHANGED <<cache, named>>
------------------------------------------------------------------------------
(* Retention and restart                                                    *)

\* cleanupTerminalRequests: rows that are old and done or failed go, and then
\* what is cached here as old and finished.
cleanupTerminalRequests(r) ==
    /\ Event("sweeps") /\ \E q \in Requests : row[q].status \in Terminal
    /\ \E old \in (SUBSET Requests) \ {{}} :
         /\ row' = [q \in Requests |->
               IF q \in old /\ Exists(q) /\ row[q].status = "done"
               THEN [row[q] EXCEPT !.status = "removed"] ELSE row[q]]
         /\ cache' = [cache EXCEPT ![r] = [q \in Requests |->
               IF q \in old /\ cache[r][q].status \in Terminal THEN NoRow ELSE cache[r][q]]]
    /\ UNCHANGED <<call, waiter, named>>

\* The process of r is replaced: its calls and waiters are gone, and
\* NewRequestsService caches every row that retention would keep.
NewRequestsService(r) ==
    /\ Event("restarts")
    /\ \E old \in SUBSET Requests :
         cache' = [cache EXCEPT ![r] = [q \in Requests |->
             IF ~ Exists(q) \/ (q \in old /\ row[q].status \in Terminal) THEN NoRow ELSE row[q]]]
    /\ call' = [c \in Calls |-> IF call[c].on = r THEN NoCall ELSE call[c]]
    /\ waiter' = [w \in Waiters |-> IF waiter[w].on = r THEN [NoWait EXCEPT !.pc = "lost"] ELSE waiter[w]]
    /\ UNCHANGED <<row, named>>
------------------------------------------------------------------------------
(* The specification                                                        *)

Init ==
    /\ row = [q \in Requests |-> NoRow]
    /\ cache = [r \in Replicas |-> [q \in Requests |-> NoRow]]
    /\ call = [c \in Calls |-> NoCall]
    /\ waiter = [w \in Waiters |-> NoWait]
    /\ named = {}
    /\ count = [errors |-> 0, sweeps |-> 0, restarts |-> 0, cancel |-> 0, revived |-> 0, backdated |-> 0, stale |-> 0]

Next ==
    \/ \E c \in Calls : \/ Find(c) \/ CreateRequest(c) \/ FindWinner(c)
                        \/ Commit(c) \/ FindExpiredRequests(c) \/ reclaimExpired(c) \/ Mirror(c) \/ Release(c)
                        \/ ReadRow(c) \/ Refresh(c)
    \/ \E w \in Waiters : \/ BeginWait(w) \/ waitForRequestState(w) \/ CheckState(w)
                          \/ Wake(w) \/ Poll(w) \/ Depart(w)
    \/ \E r \in Replicas : cleanupTerminalRequests(r) \/ NewRequestsService(r)

Spec == Init /\ [][Next]_vars
------------------------------------------------------------------------------
(* Properties                                                               *)

\* A read never returns less than the row it found in the store, whatever
\* copy is cached ("a stale cache entry must never win").
StaleNeverWins == count.stale = 0

\* The same, as long as no reclaim wrote an updated_at that lies before the one
\* it replaced: overlapping mirrors, also the ones that do not compare, cannot
\* make a read go back.
ReadsAreFresh == count.backdated = 0 => StaleNeverWins

\* One idempotency key names one request: creations and retries on any
\* replica, in any order and past failed lookups, are answered with the same
\* id as long as retention has removed nothing.
OneKeyOneRequest == count.sweeps = 0 => \A p, q \in named : p = q

\* A waiter of WaitForRequestTerminal that leaves does not orphan its request,
\* which has ended then, unless the cancel failed or a finished request was
\* requeued; and nothing but a cancel or such a departure cancels a request.
DepartureContract ==
    /\ count.errors = 0 /\ count.revived = 0 =>
         \A w \in Waiters : waiter[w].pc = "left" /\ waiter[w].kind = "terminal"
                                => row[waiter[w].q].status \in Terminal \cup {"removed"}
    /\ \A q \in Requests : Exists(q) /\ row[q].status = "cancelled" => count.cancel > 0

\* No update of its replica falls between a waiter's read and its wait: from a
\* read that found the request unfinished until the next one, the waiter holds
\* the channel that an update will close, or one that is closed.  Failed reads,
\* requeues of finished requests, retention and another waiter for the request
\* can drop the signal under it; then the ticker is what remains.
NoUpdateMissed ==
    count.errors = 0 /\ count.revived = 0 =>
        \A w \in Waiters :
            /\ waiter[w].pc \in {"check", "select"} /\ waiter[w].saw.status \notin Terminal
            /\ Exists(waiter[w].q)
            => \/ waiter[w].tuned \/ waiter[w].woken
               \/ \E v \in Waiters \ {w} : waiter[v].q = waiter[w].q /\ waiter[v].on = waiter[w].on
=============================================================================
