------------------------- MODULE ReplicaCacheProofs -------------------------
(***************************************************************************)
(* What holds of the requests with one idempotency key, their cached       *)
(* copies and their waiters, for any number of replicas, calls, waiters,   *)
(* writes and failures.                                                    *)
(*                                                                         *)
(* Step says what one step may do to the rows, their copies, the calls and *)
(* the waiters, Turns how a waiter and a call go on.  Every action is      *)
(* shown to be both (EveryStep, EveryTurn); the invariants follow from     *)
(* those two without another look at the actions.                          *)
(***************************************************************************)
EXTENDS ReplicaCache, TLAPS

------------------------------------------------------------------------------
(* Shapes                                                                   *)

IsRow(x) ==
    /\ DOMAIN x = {"status", "ver", "at", "lease"}
    /\ x.status \in Statuses /\ x.ver \in Nat /\ x.at \in Nat /\ x.at <= 2 * x.ver

RowShape == DOMAIN row = Requests /\ \A q \in Requests : IsRow(row[q])

CacheShape == DOMAIN cache = Replicas /\ \A r \in Replicas : DOMAIN cache[r] = Requests

IsCall(o) ==
    /\ DOMAIN o = {"pc", "on", "op", "q", "got"}
    /\ o.pc # "idle" => o.on \in Replicas
    /\ o.pc \notin {"idle", "insert", "collided"} => o.q \in Requests
    /\ o.pc = "reclaim" => o.op = "reclaim"

CallShape == DOMAIN call = Calls /\ \A c \in Calls : IsCall(call[c])

\* A goroutine that waits, or waited, does so for a request that was created.
IsWait(o) ==
    /\ DOMAIN o = {"pc", "on", "q", "kind", "tuned", "woken", "saw"}
    /\ o.pc \in {"off", "lost"} => o.q = None
    /\ o.pc \notin {"off", "lost"} => o.on \in Replicas /\ o.q \in Requests /\ row[o.q].ver > 0

WaiterShape == DOMAIN waiter = Waiters /\ \A w \in Waiters : IsWait(waiter[w])

Counters == {"errors", "sweeps", "restarts", "cancel", "revived", "backdated", "stale"}
CountShape == DOMAIN count = Counters /\ \A k \in Counters : count[k] \in Nat

ShapeInv == RowShape /\ CacheShape /\ CallShape /\ WaiterShape /\ CountShape

------------------------------------------------------------------------------
(* Copies                                                                   *)

\* The row of q and what the caches, the calls and the waiters hold of it.
Copies(q) ==
    {row[q]} \cup {cache[r][q] : r \in Replicas}
        \cup {call[c].got : c \in {d \in Calls : call[d].q = q}}
        \cup {waiter[w].saw : w \in {v \in Waiters : waiter[v].q = q}}

\* No copy is ahead of its row, and as long as no reclaim wrote a time before
\* the one it found, updated_at orders the copies as their versions do.
CopyInv == \A q \in Requests : \A x \in Copies(q) : IsRow(x) /\ x.ver <= row[q].ver
StampInv ==
    count.backdated = 0 =>
        /\ \A q \in Requests : \A x, y \in Copies(q) : x.ver <= y.ver => x.at <= y.at
        /\ count.stale = 0

\* One request was created at most, and only a request that was created was
\* ever the answer to a creation.
KeyInv ==
    count.sweeps = 0 =>
        /\ \A q \in Requests : row[q].status # "removed"
        /\ \A p, q \in Requests : row[p].ver > 0 /\ row[q].ver > 0 => p = q
        /\ named \subseteq {q \in Requests : row[q].ver > 0}

------------------------------------------------------------------------------
(* Waiting                                                                  *)

Settled(q) == row[q].status \in Terminal \cup {"removed"}

\* Another goroutine waits, or waited, for the request on the replica.
Company(w) == \E v \in Waiters \ {w} : waiter[v].q = waiter[w].q /\ waiter[v].on = waiter[w].on

\* w holds a channel that will be closed or is, or another waiter can drop it.
Informed(w) == waiter[w].tuned \/ waiter[w].woken \/ Company(w)

\* w has read that the request is not finished.
Unaware(w) ==
    waiter[w].pc \in {"check", "select"} /\ waiter[w].saw.status \notin Terminal /\ Exists(waiter[w].q)

\* w will learn that the request is not finished, unless that changes first.
Reading(w) == waiter[w].pc = "read" /\ ~ Settled(waiter[w].q)

\* A call that ended the request: it wakes the waiters before it drops the signal.
Ending(c) == call[c].pc = "release" \/ (call[c].pc = "mirror" /\ call[c].op \in {"submit", "cancel"})

\* c is about what w waits for, on its replica.
Concerns(c, w) == call[c].on = waiter[w].on /\ call[c].q = waiter[w].q

SignalInv ==
    count.errors = 0 /\ count.revived = 0 =>
        /\ \A c \in Calls : Ending(c) => Settled(call[c].q)
        /\ \A w \in Waiters : Unaware(w) \/ Reading(w) => Informed(w)
        /\ \A c \in Calls, w \in Waiters :
             call[c].pc = "release" /\ Unaware(w) /\ Concerns(c, w) => waiter[w].woken \/ Company(w)

------------------------------------------------------------------------------
(* What one step does                                                       *)

\* What was counted stays counted.
CountGrows == CountShape' /\ \A k \in Counters : count[k] > 0 => count'[k] > 0

\* q gets its next version.
Advance(q) ==
    /\ IsRow(row'[q]) /\ row'[q].ver = row[q].ver + 1
    /\ row[q].status # "removed" /\ row'[q].status # "removed"
    /\ row[q].at <= row'[q].at \/ count'.backdated > 0
    /\ Settled(q) => Settled(q)' \/ count'.revived > 0
    /\ row'[q].status = "cancelled" => count'.cancel > 0
    /\ row[q].ver > 0 \/ \A p \in Requests : ~ Exists(p)

\* Retention removes q.
Sweep(q) == row'[q] = [row[q] EXCEPT !.status = "removed"] /\ row[q].ver > 0 /\ count'.sweeps > 0

RowStep ==
    /\ DOMAIN row' = Requests
    /\ \A q \in Requests : row'[q] = row[q] \/ Advance(q) \/ Sweep(q)
    /\ \A p, q \in Requests : row'[p] # row[p] /\ row'[q] # row[q] => p = q \/ count'.sweeps > 0

\* What a copy of q can be after the step.
Source(q) == Copies(q) \cup {NoRow, row'[q]}

CacheStep == CacheShape' /\ \A r \in Replicas, q \in Requests : cache'[r][q] \in Source(q)

\* What a call may be as o, and a waiter, after the step.
NextCall(o) == IsCall(o) /\ (o.q \in Requests => o.got \in Source(o.q))
NextWait(o) == IsWait(o) /\ (o.q \in Requests => o.saw \in Source(o.q))

CallStep == DOMAIN call' = Calls /\ \A c \in Calls : NextCall(call'[c])
WaiterStep == DOMAIN waiter' = Waiters /\ \A w \in Waiters : NextWait(waiter'[w])

\* Only created requests are named.
NamedStep == named' \subseteq named \cup {q \in Requests : row'[q].ver > 0}

\* A read that goes back met two copies that updated_at orders the wrong way.
StaleStep ==
    count'.stale = count.stale \/ \E q \in Requests : \E x, y \in Copies(q) : x.at > y.at /\ x.ver < y.ver

Step == RowStep /\ CountGrows /\ CacheStep /\ CallStep /\ WaiterStep /\ NamedStep /\ StaleStep
------------------------------------------------------------------------------
(* Operators                                                                *)

\* The absent row is a row.
LEMMA AbsentIsRow == IsRow(NoRow) /\ NoRow.ver = 0 /\ NoRow.at = 0 /\ NoRow.status = "pending"
BY DEF IsRow, NoRow, Statuses

\* A write makes the next version of a row, stamped by the clock.
LEMMA WrittenIsNext ==
    ASSUME NEW x, IsRow(x), NEW s \in Statuses
    PROVE  /\ IsRow(Written(x, s)) /\ Written(x, s).ver = x.ver + 1
           /\ Written(x, s).at = 2 * (x.ver + 1) /\ Written(x, s).status = s
           /\ IsRow(Leased(x, s)) /\ Leased(x, s).ver = x.ver + 1
           /\ Leased(x, s).at = 2 * (x.ver + 1) /\ Leased(x, s).status = s
BY DEF IsRow, Written, Leased

\* What the store makes of a row: the row itself, when a finished request is
\* cancelled, or its next version; only a requeue reopens a finished request.
LEMMA OutcomeIsNext ==
    ASSUME NEW x, IsRow(x), NEW op \in Guarded \cup {"claim", "cancel"}, NEW y \in Outcomes(op, x),
           x.status # "removed"
    PROVE  /\ (y = x /\ op = "cancel") \/ (y.ver = x.ver + 1 /\ y.at = 2 * (x.ver + 1))
           /\ IsRow(y) /\ y.status # "removed"
           /\ x.status \in Terminal => y.status \in Terminal \/ op = "requeue"
           /\ y.status = "cancelled" => op = "cancel"
           /\ op \in {"submit", "cancel"} => y.status \in Terminal
<1> DEFINE Made(s) == IsRow(y) /\ y.ver = x.ver + 1 /\ y.at = 2 * (x.ver + 1) /\ y.status = s
<1>0. /\ \A s \in Statuses : y = Written(x, s) \/ y = Leased(x, s) => Made(s)
      /\ Terminal \subseteq Statuses /\ Held \subseteq Statuses /\ "pending" \in Statuses
  BY WrittenIsNext DEF Terminal, Held, Statuses
<1>1. CASE op = "claim"
  <2>1. y = Leased(x, "claimed") /\ x.status = "pending"
    BY Zenon, <1>1 DEF Outcomes
  <2>2. Made("claimed")
    BY Zenon, <1>0, <2>1 DEF Held
  <2> QED BY Zenon, <1>1, <2>1, <2>2 DEF Terminal
<1>2. CASE op = "run"
  <2>1. y = Leased(x, "running") /\ x.status \in Held
    BY Zenon, <1>2 DEF Outcomes
  <2>2. Made("running")
    BY Zenon, <1>0, <2>1 DEF Held
  <2> QED BY Zenon, <1>2, <2>1, <2>2 DEF Terminal, Held
<1>3. CASE op = "append"
  <2>1. y = Written(x, x.status) /\ x.status \in Held \cup {"done"}
    BY Zenon, <1>3 DEF Outcomes
  <2>2. Made(x.status)
    BY Zenon, <1>0, <2>1 DEF IsRow
  <2> QED BY Zenon, <1>3, <2>1, <2>2 DEF Terminal, Held
<1>4. CASE op = "requeue"
  <2>1. y = Written(x, "pending")
    BY Zenon, <1>4 DEF Outcomes
  <2>2. Made("pending")
    BY Zenon, <1>0, <2>1
  <2> QED BY Zenon, <1>4, <2>2
<1>5. CASE op = "submit"
  <2>1. y = Written(x, "done")
    BY Zenon, <1>5 DEF Outcomes
  <2>2. Made("done")
    BY Zenon, <1>0, <2>1 DEF Terminal
  <2> QED BY Zenon, <1>5, <2>2 DEF Terminal
<1>6. CASE op = "cancel"
  <2>1. CASE y = x /\ x.status \in Terminal
    BY Zenon, <1>6, <2>1
  <2>2. CASE y = Written(x, "cancelled")
    <3>1. Made("cancelled")
      BY Zenon, <1>0, <2>2 DEF Terminal
    <3> QED BY Zenon, <1>6, <3>1 DEF Terminal
  <2> QED BY Zenon, <1>6, <2>1, <2>2 DEF Outcomes
<1> QED BY Zenon, <1>1, <1>2, <1>3, <1>4, <1>5, <1>6 DEF Guarded

\* Where a copy of q comes from.
LEMMA Sources ==
    ASSUME NEW q \in Requests
    PROVE  /\ row[q] \in Source(q) /\ row'[q] \in Source(q) /\ NoRow \in Source(q)
           /\ \A r \in Replicas : cache[r][q] \in Source(q)
           /\ \A c \in Calls : call[c].q = q => call[c].got \in Source(q)
           /\ \A w \in Waiters : waiter[w].q = q => waiter[w].saw \in Source(q)
BY Zenon DEF Source, Copies

\* A copy that is put into a cache.
LEMMA OverwriteStep ==
    ASSUME CacheShape, NEW r \in Replicas, NEW q \in Requests, NEW x \in Source(q), Overwrite(r, q, x)
    PROVE  CacheStep
<1>1. DOMAIN cache' = Replicas /\ \A t \in Replicas : DOMAIN cache'[t] = Requests
  BY Zenon DEF CacheShape, Overwrite
<1>2. ASSUME NEW t \in Replicas, NEW p \in Requests
      PROVE  cache'[t][p] \in Source(p)
  <2>1. cache'[t][p] = IF t = r /\ p = q THEN x ELSE cache[t][p]
    BY Zenon DEF CacheShape, Overwrite
  <2> QED BY Zenon, <2>1, Sources
<1> QED BY Zenon, <1>1, <1>2 DEF CacheStep, CacheShape

\* A call that goes on.
LEMMA ContinueStep ==
    ASSUME CallShape, NEW c \in Calls, NEW x, NextCall(x), Continue(c, x)
    PROVE  CallStep
<1>1. DOMAIN call' = Calls /\ \A d \in Calls : call'[d] = IF d = c THEN x ELSE call[d]
  BY Zenon DEF CallShape, Continue
<1>2. \A d \in Calls : NextCall(call[d])
  BY Zenon, Sources DEF NextCall, CallShape
<1> QED BY Zenon, <1>1, <1>2 DEF CallStep

\* A waiter that goes on.
LEMMA WaitStep ==
    ASSUME WaiterShape, NEW w \in Waiters, NEW x, NextWait(x), Wait(w, x)
    PROVE  WaiterStep
<1>1. DOMAIN waiter' = Waiters /\ \A v \in Waiters : waiter'[v] = IF v = w THEN x ELSE waiter[v]
  BY Zenon DEF WaiterShape, Wait
<1>2. \A v \in Waiters : NextWait(waiter[v])
  BY Zenon, Sources DEF NextWait, WaiterShape
<1> QED BY Zenon, <1>1, <1>2 DEF WaiterStep

\* Nothing is a step for each part of the state.
LEMMA Stutter ==
    ASSUME ShapeInv
    PROVE  /\ UNCHANGED row => RowStep
           /\ UNCHANGED cache => CacheStep
           /\ UNCHANGED call => CallStep
           /\ UNCHANGED waiter => WaiterStep
           /\ UNCHANGED named => NamedStep
           /\ UNCHANGED count => CountGrows /\ StaleStep
<1>1. UNCHANGED row => RowStep
  BY Zenon DEF ShapeInv, RowShape, RowStep
<1>2. UNCHANGED cache => CacheStep
  BY Zenon, Sources DEF ShapeInv, CacheShape, CacheStep
<1>3. UNCHANGED call => CallStep
  BY Zenon, Sources DEF ShapeInv, CallShape, CallStep, NextCall
<1>4. UNCHANGED waiter => WaiterStep
  BY Zenon, Sources DEF ShapeInv, WaiterShape, WaiterStep, NextWait
<1>5. UNCHANGED named => NamedStep
  BY Zenon DEF NamedStep
<1>6. UNCHANGED count => CountGrows /\ StaleStep
  BY Zenon DEF ShapeInv, CountShape, CountGrows, StaleStep
<1> QED BY Zenon, <1>1, <1>2, <1>3, <1>4, <1>5, <1>6

\* What is noted, and an event, is counted and nothing is forgotten.
LEMMA Counting ==
    ASSUME CountShape, NEW k \in Counters
    PROVE  /\ Noted(k) => CountGrows /\ count'[k] > 0
           /\ Event(k) => CountGrows /\ count'[k] > 0
           /\ k # "stale" /\ (Noted(k) \/ Event(k)) => StaleStep
<1>1. Noted(k) => CountGrows /\ count'[k] > 0
  BY DEF CountShape, Counters, CountGrows, Noted
<1>2. Event(k) => CountGrows /\ count'[k] > 0
  BY DEF CountShape, Counters, CountGrows, Event
<1>3. k # "stale" /\ (Noted(k) \/ Event(k)) => StaleStep
  BY Zenon DEF CountShape, Counters, StaleStep, Noted, Event
<1> QED BY Zenon, <1>1, <1>2, <1>3
\* A write of one row.
LEMMA WriteStep ==
    ASSUME ShapeInv, NEW q \in Requests, NEW x, row' = [row EXCEPT ![q] = x],
           x = row[q] \/ Advance(q)
    PROVE  RowStep
<1>1. DOMAIN row' = Requests /\ row'[q] = x /\ \A p \in Requests \ {q} : row'[p] = row[p]
  BY Zenon DEF ShapeInv, RowShape
<1> QED BY Zenon, <1>1 DEF RowStep

\* The fields of a call record.
LEMMA NewCall ==
    /\ NextCall(NoCall)
    /\ \A r \in Replicas : NextCall([NoCall EXCEPT !.pc = "insert", !.on = r])
    /\ \A r \in Replicas, q \in Requests : \A pc, op : \A x \in Source(q) :
         (pc = "reclaim" => op = "reclaim") =>
         NextCall([NoCall EXCEPT !.pc = pc, !.on = r, !.op = op, !.q = q, !.got = x])
<1>1. None \notin Requests
  BY Zenon, CacheAssumption
<1>2. NextCall(NoCall)
  BY Zenon, <1>1 DEF NextCall, IsCall, NoCall
<1>3. ASSUME NEW r \in Replicas
      PROVE  NextCall([NoCall EXCEPT !.pc = "insert", !.on = r])
  BY Zenon, <1>1 DEF NextCall, IsCall, NoCall
<1>4. ASSUME NEW r \in Replicas, NEW q \in Requests, NEW pc, NEW op, NEW x \in Source(q),
             pc = "reclaim" => op = "reclaim"
      PROVE  NextCall([NoCall EXCEPT !.pc = pc, !.on = r, !.op = op, !.q = q, !.got = x])
  BY Zenon, <1>4 DEF NextCall, IsCall, NoCall
<1> QED BY Zenon, <1>2, <1>3, <1>4

------------------------------------------------------------------------------
(* Every action is a step                                                   *)

\* A lookup of the key answers with a request that was created.
LEMMA LookupStep ==
    ASSUME ShapeInv, CopyInv, NEW c \in Calls, NEW r \in Replicas, NEW x, NextCall(x),
           findRequestByIdempotencyKey(c, r, x), UNCHANGED <<row, waiter>>
    PROVE  Step
<1>1. RowStep /\ WaiterStep
  BY Zenon, Stutter
<1>2. CASE \E q \in Cached(r) : Answer(c, q) /\ UNCHANGED <<cache, count>>
  <2>1. PICK q \in Cached(r) : Answer(c, q) /\ UNCHANGED <<cache, count>>
    BY Zenon, <1>2
  <2>2. q \in Requests /\ cache[r][q].ver > 0 /\ cache[r][q] \in Copies(q)
    BY Zenon, <2>1 DEF Cached, Copies
  <2>3. row[q].ver > 0
    BY <2>2 DEF CopyInv, IsRow, ShapeInv, RowShape
  <2>4. NamedStep
    BY Zenon, <2>1, <2>2, <2>3 DEF NamedStep, Answer
  <2>5. CallStep
    BY Zenon, <2>1, ContinueStep, NewCall DEF Answer, ShapeInv
  <2> QED BY Zenon, <1>1, <2>1, <2>4, <2>5, Stutter DEF Step
<1>3. CASE \E q \in {p \in Requests : Exists(p)} :
             Cached(r) = {} /\ Answer(c, q) /\ Overwrite(r, q, row[q]) /\ UNCHANGED count
  <2>1. PICK q \in Requests : Exists(q) /\ Answer(c, q) /\ Overwrite(r, q, row[q]) /\ UNCHANGED count
    BY Zenon, <1>3
  <2>2. NamedStep
    BY Zenon, <2>1 DEF NamedStep, Answer, Exists
  <2>3. CallStep
    BY Zenon, <2>1, ContinueStep, NewCall DEF Answer, ShapeInv
  <2>4. CacheStep
    BY Zenon, <2>1, OverwriteStep, Sources DEF ShapeInv
  <2> QED BY Zenon, <1>1, <2>1, <2>2, <2>3, <2>4, Stutter DEF Step
<1>4. CASE GoOn(c, x) /\ UNCHANGED cache /\ (UNCHANGED count \/ StoreError)
  <2>1. CallStep
    BY Zenon, <1>4, ContinueStep DEF GoOn, ShapeInv
  <2>2. CountGrows /\ StaleStep
    BY Zenon, <1>4, Counting, Stutter DEF StoreError, Counters, ShapeInv
  <2> QED BY Zenon, <1>1, <1>4, <2>1, <2>2, Stutter DEF Step, GoOn
<1> QED BY Zenon, <1>2, <1>3, <1>4 DEF findRequestByIdempotencyKey

LEMMA FindIsStep ==
    ASSUME ShapeInv, CopyInv, NEW c \in Calls, Find(c) \/ FindWinner(c)
    PROVE  Step
<1>1. CASE Find(c)
  BY Zenon, <1>1, LookupStep, NewCall DEF Find
<1>2. CASE FindWinner(c)
  <2>1. call[c].on \in Replicas
    BY Zenon, <1>2 DEF FindWinner, ShapeInv, CallShape, IsCall
  <2> QED BY Zenon, <1>2, <2>1, LookupStep, NewCall DEF FindWinner
<1> QED BY Zenon, <1>1, <1>2

\* A creation inserts the first version of a row that there never was.
LEMMA CreateIsStep ==
    ASSUME ShapeInv, CopyInv, NEW c \in Calls, CreateRequest(c)
    PROVE  Step
<1> DEFINE r == call[c].on
           new == [status |-> "pending", ver |-> 1, at |-> 2, lease |-> 0]
<1>0. r \in Replicas /\ IsCall(call[c]) /\ call[c].pc = "insert" /\ UNCHANGED waiter
  BY Zenon DEF CreateRequest, ShapeInv, CallShape, IsCall
<1>1. CASE \E q \in Requests :
             /\ InsertRequest /\ row[q] = NoRow
             /\ row' = [row EXCEPT ![q] = new]
             /\ Overwrite(r, q, new)
             /\ Continue(c, [call[c] EXCEPT !.pc = "mirror", !.q = q, !.got = new, !.op = "create"])
             /\ named' = named \cup {q}
             /\ UNCHANGED count
  <2>1. PICK q \in Requests :
             /\ InsertRequest /\ row[q] = NoRow
             /\ row' = [row EXCEPT ![q] = new]
             /\ Overwrite(r, q, new)
             /\ Continue(c, [call[c] EXCEPT !.pc = "mirror", !.q = q, !.got = new, !.op = "create"])
             /\ named' = named \cup {q}
             /\ UNCHANGED count
    BY Zenon, <1>1
  <2>2. row'[q] = new
    BY Zenon, <2>1 DEF ShapeInv, RowShape
  <2>3. IsRow(new) /\ new.ver = 1 /\ new.at = 2 /\ new.status = "pending"
    BY DEF IsRow, Statuses
  <2>4. Advance(q)
    BY <2>1, <2>2, <2>3, AbsentIsRow DEF Advance, InsertRequest, Settled, Terminal
  <2>5. RowStep
    BY Zenon, <2>1, <2>2, <2>4, WriteStep
  <2>6. new \in Source(q)
    BY Zenon, <2>2, Sources
  <2>7. CacheStep
    BY Zenon, <1>0, <2>1, <2>6, OverwriteStep DEF ShapeInv
  <2>8. NextCall([call[c] EXCEPT !.pc = "mirror", !.q = q, !.got = new, !.op = "create"])
    BY Zenon, <1>0, <2>6 DEF NextCall, IsCall
  <2>9. CallStep
    BY Zenon, <2>1, <2>8, ContinueStep DEF ShapeInv
  <2>10. NamedStep
    BY <2>1, <2>2, <2>3 DEF NamedStep
  <2> QED BY Zenon, <1>0, <2>1, <2>5, <2>7, <2>9, <2>10, Stutter DEF Step
<1>2. CASE /\ \/ Continue(c, [call[c] EXCEPT !.pc = "collided"])
              \/ Continue(c, NoCall)
           /\ UNCHANGED <<row, cache, named, count>>
  <2>1. NextCall([call[c] EXCEPT !.pc = "collided"])
    BY Zenon, <1>0, Sources DEF NextCall, IsCall
  <2>2. CallStep
    BY Zenon, <1>2, <2>1, NewCall, ContinueStep DEF ShapeInv
  <2> QED BY Zenon, <1>0, <1>2, <2>2, Stutter DEF Step
<1> QED BY Zenon, <1>1, <1>2 DEF CreateRequest

\* A write that commits makes the row's next version, and a cancel and a
\* requeue of a finished request are noted.
LEMMA StoreStep ==
    ASSUME ShapeInv, NEW c \in Calls, NEW r \in Replicas, NEW q \in Requests, Exists(q), NEW name,
           NEW op \in Guarded \cup {"claim", "cancel"}, NEW x \in Outcomes(op, row[q]),
           row' = [row EXCEPT ![q] = x],
           Continue(c, [NoCall EXCEPT !.pc = "mirror", !.on = r, !.q = q, !.got = x, !.op = name]),
           IF op = "cancel" THEN Noted("cancel")
           ELSE IF op = "requeue" /\ row[q].status \in Terminal THEN Noted("revived") ELSE UNCHANGED count
    PROVE  RowStep /\ CallStep /\ CountGrows /\ StaleStep
<1>1. row'[q] = x /\ IsRow(row[q]) /\ row[q].status # "removed" /\ row[q].ver > 0
  BY Zenon DEF ShapeInv, RowShape, Exists
<1>2. /\ (x = row[q] /\ op = "cancel") \/ (x.ver = row[q].ver + 1 /\ x.at = 2 * (row[q].ver + 1))
      /\ IsRow(x) /\ x.status # "removed"
      /\ row[q].status \in Terminal => x.status \in Terminal \/ op = "requeue"
      /\ x.status = "cancelled" => op = "cancel"
  BY <1>1, OutcomeIsNext
<1>3. CountGrows /\ StaleStep
  BY Zenon, Counting, Stutter DEF Counters, ShapeInv
<1>4. /\ op = "cancel" => count'.cancel > 0
      /\ op = "requeue" /\ row[q].status \in Terminal => count'.revived > 0
  BY Zenon, Counting DEF Counters, ShapeInv
<1>5. x = row[q] \/ Advance(q)
  <2>1. SUFFICES ASSUME x # row[q] PROVE Advance(q)
    BY Zenon
  <2>2. row[q].at <= x.at
    BY <1>1, <1>2, <2>1 DEF IsRow
  <2>3. Settled(q) => Settled(q)' \/ count'.revived > 0
    BY Zenon, <1>1, <1>2, <1>4 DEF Settled
  <2> QED BY Zenon, <1>1, <1>2, <1>4, <2>1, <2>2, <2>3 DEF Advance
<1>6. RowStep
  BY Zenon, <1>5, WriteStep
<1>7. x \in Source(q)
  BY Zenon, <1>1, Sources
<1>8. [NoCall EXCEPT !.pc = "mirror", !.on = r, !.q = q, !.got = x, !.op = name]
        = [NoCall EXCEPT !.pc = "mirror", !.on = r, !.op = name, !.q = q, !.got = x]
  BY Zenon DEF NoCall
<1>9. CallStep
  BY Zenon, <1>7, <1>8, NewCall, ContinueStep DEF ShapeInv
<1> QED BY Zenon, <1>3, <1>6, <1>9

LEMMA CommitIsStep ==
    ASSUME ShapeInv, NEW c \in Calls, Commit(c)
    PROVE  Step
<1>1. PICK r \in Replicas, q \in Requests, op \in Guarded \cup {"claim", "cancel"} :
         /\ Exists(q)
         /\ \E x \in Outcomes(op, row[q]) :
              /\ row' = [row EXCEPT ![q] = x]
              /\ Continue(c, [NoCall EXCEPT !.pc = "mirror", !.on = r, !.q = q, !.got = x,
                              !.op = IF op = "cancel" /\ x = row[q] THEN "refused" ELSE op])
         /\ IF op = "cancel" THEN Noted("cancel")
            ELSE IF op = "requeue" /\ row[q].status \in Terminal THEN Noted("revived") ELSE UNCHANGED count
  BY ZenonT(40) DEF Commit
<1>2. PICK x \in Outcomes(op, row[q]) :
              /\ row' = [row EXCEPT ![q] = x]
              /\ Continue(c, [NoCall EXCEPT !.pc = "mirror", !.on = r, !.q = q, !.got = x,
                              !.op = IF op = "cancel" /\ x = row[q] THEN "refused" ELSE op])
  BY Zenon, <1>1
<1>3. RowStep /\ CallStep /\ CountGrows /\ StaleStep
  BY Zenon, <1>1, <1>2, StoreStep
<1>4. UNCHANGED <<cache, waiter, named>>
  BY Zenon DEF Commit
<1> QED BY Zenon, <1>3, <1>4, Stutter DEF Step

LEMMA ScanIsStep ==
    ASSUME ShapeInv, NEW c \in Calls, FindExpiredRequests(c) \/ ReadRow(c)
    PROVE  Step
<1>1. UNCHANGED <<row, cache, waiter, named, count>>
  BY Zenon DEF FindExpiredRequests, ReadRow
<1>2. PICK r \in Replicas, q \in Requests : \E pc, op :
         (pc = "reclaim" => op = "reclaim") /\ Continue(c, [NoCall EXCEPT !.pc = pc, !.on = r, !.op = op, !.q = q, !.got = row[q]])
  BY Zenon DEF FindExpiredRequests, ReadRow
<1>3. CallStep
  BY Zenon, <1>2, NewCall, Sources, ContinueStep DEF ShapeInv
<1> QED BY Zenon, <1>1, <1>3, Stutter DEF Step

\* A reclaim writes a time that may lie before the one it found, and then
\* that is noted.
LEMMA ReclaimIsStep ==
    ASSUME ShapeInv, CopyInv, NEW c \in Calls, reclaimExpired(c)
    PROVE  Step
<1> DEFINE q == call[c].q
           scan == 2 * call[c].got.ver + 1
<1>0. q \in Requests /\ IsCall(call[c]) /\ UNCHANGED <<cache, waiter, named>>
  BY Zenon DEF reclaimExpired, ShapeInv, CallShape, IsCall
<1>1. CASE Exists(q) /\ row[q].status \in Held /\
             \E s \in {"pending", "done"} :
                  /\ row' = [row EXCEPT ![q] = [Written(row[q], s) EXCEPT !.at = scan]]
                  /\ Continue(c, [call[c] EXCEPT !.pc = "mirror", !.got = [Written(row[q], s) EXCEPT !.at = scan]])
                  /\ IF scan < row[q].at THEN Noted("backdated") ELSE UNCHANGED count
  <2>1. PICK s \in {"pending", "done"} :
                  /\ row' = [row EXCEPT ![q] = [Written(row[q], s) EXCEPT !.at = scan]]
                  /\ Continue(c, [call[c] EXCEPT !.pc = "mirror", !.got = [Written(row[q], s) EXCEPT !.at = scan]])
                  /\ IF scan < row[q].at THEN Noted("backdated") ELSE UNCHANGED count
    BY Zenon, <1>1
  <2> DEFINE x == [Written(row[q], s) EXCEPT !.at = scan]
  <2>2. IsRow(row[q]) /\ row[q].status # "removed" /\ row[q].status \notin Terminal /\ row[q].ver > 0
    BY Zenon, <1>0, <1>1 DEF ShapeInv, RowShape, Exists, Held, Terminal
  <2>3. call[c].got \in Copies(q)
    BY Zenon, <1>0 DEF Copies
  <2>4. call[c].got.ver \in Nat /\ call[c].got.ver <= row[q].ver
    BY Zenon, <1>0, <2>3 DEF CopyInv, IsRow
  <2>5. IsRow(Written(row[q], s)) /\ Written(row[q], s).ver = row[q].ver + 1 /\ Written(row[q], s).status = s
    BY <2>2, WrittenIsNext DEF Statuses, Terminal
  <2>6. IsRow(x) /\ x.ver = row[q].ver + 1 /\ x.status = s /\ x.at = scan
    <3> DEFINE v == call[c].got.ver
               y == Written(row[q], s)
    <3>1. v \in Nat /\ v <= row[q].ver /\ IsRow(y) /\ y.ver = row[q].ver + 1 /\ y.status = s /\ row[q].ver \in Nat
      BY Zenon, <2>2, <2>4, <2>5 DEF IsRow
    <3> HIDE DEF v, y
    <3>2. IsRow([y EXCEPT !.at = 2 * v + 1]) /\ [y EXCEPT !.at = 2 * v + 1].ver = row[q].ver + 1
          /\ [y EXCEPT !.at = 2 * v + 1].status = s /\ [y EXCEPT !.at = 2 * v + 1].at = 2 * v + 1
      BY <3>1 DEF IsRow
    <3> QED BY Zenon, <3>2 DEF v, y
  <2>7. row'[q] = x
    BY Zenon, <1>0, <2>1 DEF ShapeInv, RowShape
  <2>8. CountGrows /\ StaleStep /\ (scan < row[q].at => count'.backdated > 0)
    BY Zenon, <2>1, Counting, Stutter DEF Counters, ShapeInv
  <2>9. row[q].at <= x.at \/ count'.backdated > 0
    BY <2>2, <2>4, <2>6, <2>8 DEF IsRow
  <2>10. Advance(q)
    <3> HIDE DEF x, q
    <3> QED BY Zenon, <2>2, <2>6, <2>7, <2>9 DEF Advance, Settled
  <2>11. RowStep
    BY Zenon, <1>0, <2>1, <2>10, WriteStep
  <2>12. NextCall([call[c] EXCEPT !.pc = "mirror", !.got = x])
    <3>1. x \in Source(q)
      BY Zenon, <1>0, <2>7, Sources
    <3>2. call[c].on \in Replicas
      BY Zenon, <1>0 DEF IsCall, reclaimExpired
    <3> HIDE DEF x
    <3> QED BY Zenon, <1>0, <3>1, <3>2 DEF NextCall, IsCall
  <2>13. CallStep
    BY Zenon, <2>1, <2>12, ContinueStep DEF ShapeInv
  <2> QED BY Zenon, <1>0, <2>8, <2>11, <2>13, Stutter DEF Step
<1>2. CASE Continue(c, NoCall) /\ UNCHANGED <<row, count>>
  <2>1. CallStep
    BY Zenon, <1>2, NewCall, ContinueStep DEF ShapeInv
  <2> QED BY Zenon, <1>0, <1>2, <2>1, Stutter DEF Step
<1> QED BY Zenon, <1>1, <1>2 DEF reclaimExpired

\* Waking and detaching leave a waiter where it is.
LEMMA SignalStep ==
    ASSUME ShapeInv, NEW r, NEW q, notifyRequestUpdate(r, q) \/ releaseRequestSignal(r, q)
    PROVE  WaiterStep
<1>1. ASSUME NEW w \in Waiters
      PROVE  NextWait(waiter[w]) /\ NextWait([waiter[w] EXCEPT !.tuned = FALSE])
             /\ NextWait([waiter[w] EXCEPT !.tuned = FALSE, !.woken = TRUE])
  <2>1. IsWait(waiter[w]) /\ (waiter[w].q \in Requests => waiter[w].saw \in Source(waiter[w].q))
    BY Zenon, Sources DEF ShapeInv, WaiterShape
  <2> DEFINE o == waiter[w]
  <2> HIDE DEF o
  <2>2. NextWait(o) /\ NextWait([o EXCEPT !.tuned = FALSE]) /\ NextWait([o EXCEPT !.tuned = FALSE, !.woken = TRUE])
    BY Zenon, <2>1 DEF NextWait, IsWait, o
  <2> QED BY Zenon, <2>2 DEF o
<1>2. DOMAIN waiter' = Waiters
  BY Zenon DEF notifyRequestUpdate, releaseRequestSignal, Detached
<1>3. \A w \in Waiters : \/ waiter'[w] = waiter[w] \/ waiter'[w] = [waiter[w] EXCEPT !.tuned = FALSE]
                         \/ waiter'[w] = [waiter[w] EXCEPT !.tuned = FALSE, !.woken = TRUE]
  BY Zenon DEF notifyRequestUpdate, releaseRequestSignal, Detached
<1> QED BY Zenon, <1>1, <1>2, <1>3 DEF WaiterStep

LEMMA MirrorIsStep ==
    ASSUME ShapeInv, NEW c \in Calls, Mirror(c)
    PROVE  Step
<1> DEFINE o == call[c]
<1>0. IsCall(o) /\ o.on \in Replicas /\ o.q \in Requests /\ UNCHANGED <<row, named, count>>
  BY Zenon DEF Mirror, ShapeInv, CallShape, IsCall
<1>1. cache[o.on][o.q] \in Source(o.q) /\ o.got \in Source(o.q)
  BY Zenon, <1>0, Sources
<1>2. CacheStep
  <2>1. UNCHANGED cache \/ Overwrite(o.on, o.q, cache[o.on][o.q]) \/ Overwrite(o.on, o.q, o.got)
    BY Zenon DEF Mirror, mirrorRequest, Newer
  <2> QED BY Zenon, <1>0, <1>1, <2>1, OverwriteStep, Stutter DEF ShapeInv
<1>3. WaiterStep
  BY Zenon, SignalStep, Stutter DEF Mirror
<1>4. NextCall([o EXCEPT !.pc = "release", !.got = NoRow])
  BY Zenon, <1>0, Sources DEF NextCall, IsCall
<1>5. CallStep
  <2>1. Continue(c, [o EXCEPT !.pc = "release", !.got = NoRow]) \/ Continue(c, NoCall)
    BY Zenon DEF Mirror
  <2> QED BY Zenon, <1>4, <2>1, NewCall, ContinueStep DEF ShapeInv
<1> QED BY Zenon, <1>0, <1>2, <1>3, <1>5, Stutter DEF Step

LEMMA ReleaseIsStep ==
    ASSUME ShapeInv, NEW c \in Calls, Release(c)
    PROVE  Step
<1>1. WaiterStep
  BY Zenon, SignalStep DEF Release
<1>2. CallStep
  BY Zenon, NewCall, ContinueStep DEF ShapeInv, Release
<1>3. UNCHANGED <<row, cache, named, count>>
  BY Zenon DEF Release
<1> QED BY Zenon, <1>1, <1>2, <1>3, Stutter DEF Step

\* A read returns the copy that has the later updated_at.
LEMMA RefreshIsStep ==
    ASSUME ShapeInv, CopyInv, NEW c \in Calls, Refresh(c)
    PROVE  Step
<1> DEFINE o == call[c]
           x == cache[o.on][o.q]
<1>0. o.on \in Replicas /\ o.q \in Requests /\ UNCHANGED <<row, waiter, named>>
  BY Zenon DEF Refresh, ShapeInv, CallShape, IsCall
<1>1. x \in Copies(o.q) /\ o.got \in Copies(o.q)
  BY Zenon, <1>0 DEF Copies
<1>2. GetRequestByID(c) = o.got \/ (GetRequestByID(c) = x /\ x.at > o.got.at)
  BY Zenon DEF GetRequestByID, Newer
<1>3. CacheStep
  <2>1. GetRequestByID(c) \in Source(o.q)
    BY Zenon, <1>1, <1>2 DEF Source
  <2> QED BY Zenon, <1>0, <2>1, OverwriteStep DEF Refresh, ShapeInv
<1>4. CallStep
  BY Zenon, NewCall, ContinueStep DEF ShapeInv, Refresh
<1>5. CountGrows /\ StaleStep
  <2>1. CASE UNCHANGED count
    BY Zenon, <2>1, Stutter
  <2>2. CASE Noted("stale") /\ GetRequestByID(c).ver < o.got.ver
    <3>1. CountGrows
      BY Zenon, <2>2, Counting DEF Counters, ShapeInv
    <3>2. o.got.ver \in Nat
      BY Zenon, <1>0, <1>1 DEF CopyInv, IsRow
    <3>3. GetRequestByID(c) # o.got
      BY <2>2, <3>2
    <3>4. x.at > o.got.at /\ x.ver < o.got.ver
      BY Zenon, <1>2, <2>2, <3>3
    <3> QED BY Zenon, <1>0, <1>1, <3>1, <3>4 DEF StaleStep
  <2> QED BY Zenon, <2>1, <2>2 DEF Refresh
<1> QED BY Zenon, <1>0, <1>3, <1>4, <1>5, Stutter DEF Step

\* The steps of a waiter, one after the other.
LEMMA BeginIsStep ==
    ASSUME ShapeInv, NEW w \in Waiters, BeginWait(w)
    PROVE  Step
<1>1. PICK r \in Replicas, q \in Requests :
         /\ Exists(q)
         /\ Wait(w, [NoWait EXCEPT !.pc = "read", !.on = r, !.q = q, !.tuned = TRUE])
  BY Zenon DEF BeginWait
<1>2. NextWait([NoWait EXCEPT !.pc = "read", !.on = r, !.q = q, !.tuned = TRUE])
  BY Zenon, <1>1, Sources DEF NextWait, IsWait, NoWait, Exists
<1>3. WaiterStep
  BY Zenon, <1>1, <1>2, WaitStep DEF ShapeInv
<1>4. UNCHANGED <<row, cache, call, named, count>>
  BY Zenon DEF BeginWait
<1> QED BY Zenon, <1>3, <1>4, Stutter DEF Step

\* A waiter that is lost, and one that reads, waits or leaves.
LEMMA GoingOn ==
    ASSUME ShapeInv, NEW w \in Waiters
    PROVE  /\ NextWait([NoWait EXCEPT !.pc = "lost"])
           /\ waiter[w].pc \notin {"off", "lost"} =>
                /\ waiter[w].on \in Replicas /\ waiter[w].q \in Requests /\ row[waiter[w].q].ver > 0
                /\ \A x \in Source(waiter[w].q) : NextWait([waiter[w] EXCEPT !.pc = "check", !.saw = x])
                /\ NextWait([waiter[w] EXCEPT !.pc = "select", !.saw = NoRow])
                /\ NextWait([waiter[w] EXCEPT !.pc = "read", !.tuned = TRUE, !.woken = FALSE])
                /\ \A k : NextWait([waiter[w] EXCEPT !.pc = "left", !.kind = k, !.tuned = FALSE, !.woken = FALSE])
                /\ NextWait([waiter[w] EXCEPT !.pc = "returned", !.tuned = FALSE, !.woken = FALSE])
<1>0. None \notin Requests
  BY Zenon, CacheAssumption
<1>1. NextWait([NoWait EXCEPT !.pc = "lost"])
  BY Zenon, <1>0 DEF NextWait, IsWait, NoWait
<1>2. ASSUME waiter[w].pc \notin {"off", "lost"}
      PROVE  /\ waiter[w].on \in Replicas /\ waiter[w].q \in Requests /\ row[waiter[w].q].ver > 0
             /\ \A x \in Source(waiter[w].q) : NextWait([waiter[w] EXCEPT !.pc = "check", !.saw = x])
             /\ NextWait([waiter[w] EXCEPT !.pc = "select", !.saw = NoRow])
             /\ NextWait([waiter[w] EXCEPT !.pc = "read", !.tuned = TRUE, !.woken = FALSE])
             /\ \A k : NextWait([waiter[w] EXCEPT !.pc = "left", !.kind = k, !.tuned = FALSE, !.woken = FALSE])
             /\ NextWait([waiter[w] EXCEPT !.pc = "returned", !.tuned = FALSE, !.woken = FALSE])
  <2> DEFINE o == waiter[w]
  <2>1. IsWait(o) /\ o.on \in Replicas /\ o.q \in Requests /\ row[o.q].ver > 0
    BY Zenon, <1>2 DEF ShapeInv, WaiterShape, IsWait
  <2>2. NoRow \in Source(o.q) /\ o.saw \in Source(o.q)
    BY Zenon, <2>1, Sources
  <2> HIDE DEF o
  <2>3. ASSUME NEW x \in Source(o.q) PROVE NextWait([o EXCEPT !.pc = "check", !.saw = x])
    BY Zenon, <2>1 DEF NextWait, IsWait
  <2>4. NextWait([o EXCEPT !.pc = "select", !.saw = NoRow])
    BY Zenon, <2>1, <2>2 DEF NextWait, IsWait
  <2>5. NextWait([o EXCEPT !.pc = "read", !.tuned = TRUE, !.woken = FALSE])
    BY Zenon, <2>1, <2>2 DEF NextWait, IsWait
  <2>6. ASSUME NEW k PROVE NextWait([o EXCEPT !.pc = "left", !.kind = k, !.tuned = FALSE, !.woken = FALSE])
    BY Zenon, <2>1, <2>2 DEF NextWait, IsWait
  <2>7. NextWait([o EXCEPT !.pc = "returned", !.tuned = FALSE, !.woken = FALSE])
    BY Zenon, <2>1, <2>2 DEF NextWait, IsWait
  <2> QED BY Zenon, <2>1, <2>3, <2>4, <2>5, <2>6, <2>7 DEF o
<1> QED BY Zenon, <1>1, <1>2

LEMMA ReadIsStep ==
    ASSUME ShapeInv, NEW w \in Waiters, waitForRequestState(w)
    PROVE  Step
<1> DEFINE o == waiter[w]
           x == cache[o.on][o.q]
<1>0. o.pc = "read" /\ UNCHANGED <<row, cache, call, named>>
  BY Zenon DEF waitForRequestState
<1>1. o.on \in Replicas /\ o.q \in Requests
  BY Zenon, <1>0, GoingOn
<1>2. row[o.q] \in Source(o.q) /\ x \in Source(o.q)
  BY Zenon, <1>1, Sources
<1>3. \/ Wait(w, [o EXCEPT !.pc = "check", !.saw = row[o.q]]) \/ Wait(w, [NoWait EXCEPT !.pc = "lost"])
      \/ Wait(w, [o EXCEPT !.pc = "check", !.saw = x])
  BY Zenon DEF waitForRequestState
<1>4. WaiterStep
  BY Zenon, <1>0, <1>2, <1>3, GoingOn, WaitStep DEF ShapeInv
<1>5. CountGrows /\ StaleStep
  <2>1. UNCHANGED count \/ StoreError
    BY Zenon DEF waitForRequestState
  <2> QED BY Zenon, <2>1, Counting, Stutter DEF StoreError, Counters, ShapeInv
<1> QED BY Zenon, <1>0, <1>4, <1>5, Stutter DEF Step

LEMMA CheckIsStep ==
    ASSUME ShapeInv, NEW w \in Waiters, CheckState(w)
    PROVE  Step
<1> DEFINE o == waiter[w]
<1>0. o.pc = "check" /\ Overwrite(o.on, o.q, o.saw) /\ UNCHANGED <<row, call, named, count>>
  BY Zenon DEF CheckState
<1>1. o.on \in Replicas /\ o.q \in Requests
  BY Zenon, <1>0, GoingOn
<1>2. CacheStep
  BY Zenon, <1>0, <1>1, Sources, OverwriteStep DEF ShapeInv
<1>3. WaiterStep
  <2> DEFINE end == [o EXCEPT !.pc = "returned", !.tuned = FALSE, !.woken = FALSE]
  <2>1. CASE waiter' = [Detached(waiter, o.on, o.q) EXCEPT ![w] = end]
    <3>1. DOMAIN waiter' = Waiters /\ waiter'[w] = end
          /\ \A v \in Waiters \ {w} : waiter'[v] = waiter[v] \/ waiter'[v] = [waiter[v] EXCEPT !.tuned = FALSE]
      BY Zenon, <2>1 DEF Detached
    <3>2. NextWait(end)
      BY Zenon, <1>0, GoingOn
    <3>3. ASSUME NEW v \in Waiters
          PROVE  NextWait(waiter[v]) /\ NextWait([waiter[v] EXCEPT !.tuned = FALSE])
      BY Zenon, Sources DEF ShapeInv, WaiterShape, NextWait, IsWait
    <3> QED BY Zenon, <3>1, <3>2, <3>3 DEF WaiterStep
  <2>2. CASE Wait(w, [o EXCEPT !.pc = "select", !.saw = NoRow])
    BY Zenon, <1>0, <2>2, GoingOn, WaitStep DEF ShapeInv
  <2> QED BY Zenon, <2>1, <2>2 DEF CheckState
<1> QED BY Zenon, <1>0, <1>2, <1>3, Stutter DEF Step

LEMMA AgainIsStep ==
    ASSUME ShapeInv, NEW w \in Waiters, Wake(w) \/ Poll(w)
    PROVE  Step
<1>1. waiter[w].pc = "select" /\ Again(w) /\ UNCHANGED <<row, cache, call, named, count>>
  BY Zenon DEF Wake, Poll
<1>2. WaiterStep
  BY Zenon, <1>1, GoingOn, WaitStep DEF Again, ShapeInv
<1> QED BY Zenon, <1>1, <1>2, Stutter DEF Step

LEMMA DepartIsStep ==
    ASSUME ShapeInv, NEW w \in Waiters, Depart(w)
    PROVE  Step
<1> DEFINE o == waiter[w]
<1>0. o.pc = "select" /\ (\E k : Left(w, k)) /\ UNCHANGED <<cache, named>>
  BY Zenon DEF Depart
<1>1. o.on \in Replicas /\ o.q \in Requests
  BY Zenon, <1>0, GoingOn
<1>2. WaiterStep
  BY Zenon, <1>0, GoingOn, WaitStep DEF Left, ShapeInv
<1>3. RowStep /\ CallStep /\ CountGrows /\ StaleStep
  <2>1. CASE UNCHANGED <<row, call>> /\ (UNCHANGED count \/ StoreError)
    BY Zenon, <2>1, Counting, Stutter DEF StoreError, Counters, ShapeInv
  <2>2. CASE /\ Exists(o.q) /\ Noted("cancel")
             /\ \E c \in Calls, x \in Outcomes("cancel", row[o.q]) :
                  /\ row' = [row EXCEPT ![o.q] = x]
                  /\ Continue(c, [NoCall EXCEPT !.pc = "mirror", !.on = o.on, !.q = o.q, !.got = x,
                                  !.op = IF x = row[o.q] THEN "refused" ELSE "cancel"])
    <3>1. PICK c \in Calls, x \in Outcomes("cancel", row[o.q]) :
                  /\ row' = [row EXCEPT ![o.q] = x]
                  /\ Continue(c, [NoCall EXCEPT !.pc = "mirror", !.on = o.on, !.q = o.q, !.got = x,
                                  !.op = IF x = row[o.q] THEN "refused" ELSE "cancel"])
      BY Zenon, <2>2
    <3> DEFINE op == "cancel"
    <3>2. /\ op \in Guarded \cup {"claim", "cancel"} /\ x \in Outcomes(op, row[o.q])
          /\ IF op = "cancel" THEN Noted("cancel")
             ELSE IF op = "requeue" /\ row[o.q].status \in Terminal THEN Noted("revived") ELSE UNCHANGED count
      BY Zenon, <2>2
    <3> HIDE DEF op
    <3> QED BY ZenonT(40), <1>1, <2>2, <3>1, <3>2, StoreStep
  <2> QED BY Zenon, <2>1, <2>2 DEF Depart
<1> QED BY Zenon, <1>0, <1>2, <1>3, Stutter DEF Step

\* Retention marks rows as removed and drops copies.
LEMMA SweepIsStep ==
    ASSUME ShapeInv, NEW r \in Replicas, cleanupTerminalRequests(r)
    PROVE  Step
<1>1. PICK old \in (SUBSET Requests) \ {{}} :
         /\ row' = [q \in Requests |->
               IF q \in old /\ Exists(q) /\ row[q].status = "done"
               THEN [row[q] EXCEPT !.status = "removed"] ELSE row[q]]
         /\ cache' = [cache EXCEPT ![r] = [q \in Requests |->
               IF q \in old /\ cache[r][q].status \in Terminal THEN NoRow ELSE cache[r][q]]]
  BY Zenon DEF cleanupTerminalRequests
<1>2. CountGrows /\ StaleStep /\ count'.sweeps > 0
  BY Zenon, Counting DEF cleanupTerminalRequests, Counters, ShapeInv
<1>3. RowStep
  BY Zenon, <1>1, <1>2 DEF RowStep, Sweep, Exists
<1>4. CacheStep
  <2>1. DOMAIN cache' = Replicas /\ \A t \in Replicas : DOMAIN cache'[t] = Requests
    BY Zenon, <1>1 DEF ShapeInv, CacheShape
  <2>2. \A t \in Replicas, q \in Requests : cache'[t][q] = cache[t][q] \/ cache'[t][q] = NoRow
    BY Zenon, <1>1 DEF ShapeInv, CacheShape
  <2> QED BY Zenon, <2>1, <2>2, Sources DEF CacheStep, CacheShape
<1>5. UNCHANGED <<call, waiter, named>>
  BY Zenon DEF cleanupTerminalRequests
<1> QED BY Zenon, <1>2, <1>3, <1>4, <1>5, Stutter DEF Step

\* A new process caches rows, and has no calls and no waiters.
LEMMA RestartIsStep ==
    ASSUME ShapeInv, NEW r \in Replicas, NewRequestsService(r)
    PROVE  Step
<1>0. UNCHANGED <<row, named>>
  BY Zenon DEF NewRequestsService
<1>1. CountGrows /\ StaleStep
  BY Zenon, Counting DEF NewRequestsService, Counters, ShapeInv
<1>2. CacheStep
  <2>1. PICK old \in SUBSET Requests :
         cache' = [cache EXCEPT ![r] = [q \in Requests |->
             IF ~ Exists(q) \/ (q \in old /\ row[q].status \in Terminal) THEN NoRow ELSE row[q]]]
    BY Zenon DEF NewRequestsService
  <2>2. DOMAIN cache' = Replicas /\ \A t \in Replicas : DOMAIN cache'[t] = Requests
    BY Zenon, <2>1 DEF ShapeInv, CacheShape
  <2>3. \A t \in Replicas, q \in Requests : cache'[t][q] = cache[t][q] \/ cache'[t][q] = NoRow \/ cache'[t][q] = row[q]
    BY Zenon, <2>1 DEF ShapeInv, CacheShape
  <2> QED BY Zenon, <2>2, <2>3, Sources DEF CacheStep, CacheShape
<1>3. CallStep
  <2>1. DOMAIN call' = Calls /\ \A c \in Calls : call'[c] = NoCall \/ call'[c] = call[c]
    BY Zenon DEF NewRequestsService
  <2>2. \A c \in Calls : NextCall(call[c])
    BY Zenon, Sources DEF NextCall, ShapeInv, CallShape
  <2> QED BY Zenon, <2>1, <2>2, NewCall DEF CallStep
<1>4. WaiterStep
  <2>1. DOMAIN waiter' = Waiters /\ \A w \in Waiters : waiter'[w] = [NoWait EXCEPT !.pc = "lost"] \/ waiter'[w] = waiter[w]
    BY Zenon DEF NewRequestsService
  <2>2. \A w \in Waiters : NextWait(waiter[w])
    BY Zenon, Sources DEF NextWait, ShapeInv, WaiterShape
  <2> QED BY Zenon, <2>1, <2>2, GoingOn DEF WaiterStep
<1> QED BY Zenon, <1>0, <1>1, <1>2, <1>3, <1>4, Stutter DEF Step

LEMMA EveryStep ==
    ASSUME ShapeInv, CopyInv, [Next]_vars
    PROVE  Step
<1>1. CASE UNCHANGED vars
  BY Zenon, <1>1, Stutter DEF vars, Step
<1>2. ASSUME NEW c \in Calls,
             \/ Find(c) \/ CreateRequest(c) \/ FindWinner(c)
             \/ Commit(c) \/ FindExpiredRequests(c) \/ reclaimExpired(c) \/ Mirror(c) \/ Release(c)
             \/ ReadRow(c) \/ Refresh(c)
      PROVE  Step
  BY Zenon, <1>2, FindIsStep, CreateIsStep, CommitIsStep, ScanIsStep, ReclaimIsStep, MirrorIsStep,
     ReleaseIsStep, RefreshIsStep
<1>3. ASSUME NEW w \in Waiters,
             \/ BeginWait(w) \/ waitForRequestState(w) \/ CheckState(w)
             \/ Wake(w) \/ Poll(w) \/ Depart(w)
      PROVE  Step
  BY Zenon, <1>3, BeginIsStep, ReadIsStep, CheckIsStep, AgainIsStep, DepartIsStep
<1>4. ASSUME NEW r \in Replicas, cleanupTerminalRequests(r) \/ NewRequestsService(r)
      PROVE  Step
  BY Zenon, <1>4, SweepIsStep, RestartIsStep
<1> QED BY Zenon, <1>1, <1>2, <1>3, <1>4 DEF Next

------------------------------------------------------------------------------
(* Versions and copies                                                      *)

\* A row's version never goes back, and only a new version has a new time.
LEMMA Versions ==
    ASSUME ShapeInv, Step, NEW q \in Requests
    PROVE  /\ IsRow(row[q]) /\ IsRow(row'[q]) /\ row[q].ver <= row'[q].ver
           /\ row'[q].ver = row[q].ver => row'[q].at = row[q].at
           /\ row[q].at <= row'[q].at \/ count'.backdated > 0
<1>1. IsRow(row[q])
  BY Zenon DEF ShapeInv, RowShape
<1>2. CASE row'[q] = row[q]
  BY <1>1, <1>2 DEF IsRow
<1>3. CASE Advance(q)
  BY <1>1, <1>3 DEF IsRow, Advance
<1>4. CASE Sweep(q)
  <2>1. row'[q] = [row[q] EXCEPT !.status = "removed"]
    BY Zenon, <1>4 DEF Sweep
  <2> QED BY <1>1, <2>1 DEF IsRow, Statuses
<1> QED BY Zenon, <1>2, <1>3, <1>4 DEF Step, RowStep

LEMMA ShapeKept ==
    ASSUME ShapeInv, Step
    PROVE  ShapeInv'
<1>1. RowShape'
  BY Zenon, Versions DEF RowShape, Step, RowStep
<1>2. CacheShape' /\ CountShape'
  BY Zenon DEF Step, CacheStep, CountGrows
<1>3. CallShape'
  BY Zenon DEF Step, CallStep, CallShape, NextCall, IsCall
<1>4. WaiterShape'
  <2>1. ASSUME NEW w \in Waiters PROVE IsWait(waiter[w])'
    <3>1. IsWait(waiter'[w])
      BY Zenon DEF Step, WaiterStep, NextWait
    <3>2. ASSUME waiter'[w].q \in Requests, row[waiter'[w].q].ver > 0
          PROVE  row'[waiter'[w].q].ver > 0
      BY <3>2, Versions DEF IsRow
    <3> QED BY Zenon, <3>1, <3>2 DEF IsWait
  <2> QED BY Zenon, <2>1 DEF Step, WaiterStep, WaiterShape
<1> QED BY Zenon, <1>1, <1>2, <1>3, <1>4 DEF ShapeInv

\* Every copy after the step has a source.
LEMMA CopiesMove ==
    ASSUME Step, NEW q \in Requests
    PROVE  Copies(q)' \subseteq Source(q)
<1>1. row'[q] \in Source(q)
  BY Zenon, Sources
<1>2. \A r \in Replicas : cache'[r][q] \in Source(q)
  BY Zenon DEF Step, CacheStep
<1>3. \A c \in Calls : call'[c].q = q => call'[c].got \in Source(q)
  BY Zenon DEF Step, CallStep, NextCall
<1>4. \A w \in Waiters : waiter'[w].q = q => waiter'[w].saw \in Source(q)
  BY Zenon DEF Step, WaiterStep, NextWait
<1> QED BY Zenon, <1>1, <1>2, <1>3, <1>4 DEF Copies

LEMMA CopyKept ==
    ASSUME ShapeInv, CopyInv, Step
    PROVE  CopyInv'
<1>1. SUFFICES ASSUME NEW q \in Requests, NEW x \in Source(q)
               PROVE  IsRow(x) /\ x.ver <= row'[q].ver
  BY Zenon, CopiesMove DEF CopyInv
<1>2. CASE x \in Copies(q)
  BY <1>2, Versions DEF CopyInv, IsRow
<1>3. CASE x = NoRow
  BY <1>3, Versions, AbsentIsRow DEF IsRow
<1>4. CASE x = row'[q]
  BY <1>4, Versions DEF IsRow
<1> QED BY Zenon, <1>2, <1>3, <1>4 DEF Source

LEMMA StampKept ==
    ASSUME ShapeInv, CopyInv, StampInv, Step
    PROVE  StampInv'
<1>1. SUFFICES ASSUME count'.backdated = 0
               PROVE  /\ \A q \in Requests : \A x, y \in Source(q) : x.ver <= y.ver => x.at <= y.at
                      /\ count'.stale = 0
  BY Zenon, CopiesMove DEF StampInv
<1>2. count.backdated = 0
  BY <1>1 DEF Step, CountGrows, ShapeInv, CountShape, Counters
<1>3. /\ \A q \in Requests : \A x, y \in Copies(q) : x.ver <= y.ver => x.at <= y.at
      /\ count.stale = 0
  BY Zenon, <1>2 DEF StampInv
<1>4. ASSUME NEW q \in Requests, NEW x \in Source(q), NEW y \in Source(q), x.ver <= y.ver
      PROVE  x.at <= y.at
  <2>1. /\ IsRow(row[q]) /\ IsRow(row'[q]) /\ row[q].ver <= row'[q].ver
        /\ row'[q].ver = row[q].ver => row'[q].at = row[q].at
        /\ row[q].at <= row'[q].at
    BY <1>1, Versions
  <2>2. row[q] \in Copies(q) /\ \A z \in Copies(q) : IsRow(z) /\ z.ver <= row[q].ver
    BY Zenon DEF Copies, CopyInv
  <2>3. CASE x \in Copies(q) /\ y \in Copies(q)
    BY Zenon, <1>3, <1>4, <2>3
  <2>4. CASE y = NoRow /\ IsRow(x)
    BY <1>4, <2>4, AbsentIsRow DEF IsRow
  <2>5. CASE x = NoRow /\ IsRow(y)
    BY <2>5, AbsentIsRow DEF IsRow
  <2>6. CASE x \in Copies(q) /\ y = row'[q]
    <3>1. x.at <= row[q].at
      BY Zenon, <1>3, <2>2, <2>6
    <3> QED BY <2>1, <2>2, <2>6, <3>1 DEF IsRow
  <2>7. CASE x = row'[q] /\ y \in Copies(q)
    <3>1. x.ver = row[q].ver /\ row[q].ver <= y.ver
      BY <1>4, <2>1, <2>2, <2>7 DEF IsRow
    <3>2. row[q].at <= y.at
      BY Zenon, <1>3, <2>2, <2>7, <3>1
    <3> QED BY Zenon, <2>1, <2>7, <3>1, <3>2
  <2>8. CASE x = row'[q] /\ y = row'[q]
    BY <2>1, <2>8 DEF IsRow
  <2>9. IsRow(x) /\ IsRow(y)
    BY Zenon, <2>1, <2>2, AbsentIsRow DEF Source
  <2> QED BY Zenon, <2>3, <2>4, <2>5, <2>6, <2>7, <2>8, <2>9 DEF Source
<1>5. count'.stale = 0
  <2>1. ASSUME NEW q \in Requests, NEW x \in Copies(q), NEW y \in Copies(q), x.at > y.at, x.ver < y.ver
        PROVE  FALSE
    <3>1. IsRow(x) /\ IsRow(y)
      BY Zenon DEF CopyInv
    <3>2. x.at <= y.at
      BY <1>3, <2>1, <3>1 DEF IsRow
    <3> QED BY <2>1, <3>1, <3>2 DEF IsRow
  <2> QED BY Zenon, <1>3, <2>1 DEF Step, StaleStep
<1> QED BY Zenon, <1>4, <1>5

\* With nothing removed, a key has one row, and creations are answered with it.
LEMMA KeyKept ==
    ASSUME ShapeInv, CopyInv, KeyInv, Step
    PROVE  KeyInv'
<1>1. SUFFICES ASSUME count'.sweeps = 0
               PROVE  /\ \A q \in Requests : row'[q].status # "removed"
                      /\ \A p, q \in Requests : row'[p].ver > 0 /\ row'[q].ver > 0 => p = q
                      /\ named' \subseteq {q \in Requests : row'[q].ver > 0}
  BY Zenon DEF KeyInv
<1>2. count.sweeps = 0
  BY <1>1 DEF Step, CountGrows, ShapeInv, CountShape, Counters
<1>3. /\ \A q \in Requests : row[q].status # "removed"
      /\ \A p, q \in Requests : row[p].ver > 0 /\ row[q].ver > 0 => p = q
      /\ named \subseteq {q \in Requests : row[q].ver > 0}
  BY Zenon, <1>2 DEF KeyInv
<1>4. \A q \in Requests : row'[q] = row[q] \/ Advance(q)
  BY <1>1 DEF Step, RowStep, Sweep
<1>5. \A p, q \in Requests : row'[p] # row[p] /\ row'[q] # row[q] => p = q
  BY <1>1 DEF Step, RowStep
<1>6. \A q \in Requests : row'[q].status # "removed"
  BY Zenon, <1>3, <1>4 DEF Advance
<1>7. ASSUME NEW p \in Requests, NEW q \in Requests, row'[p].ver > 0, row'[q].ver > 0, p # q
      PROVE  FALSE
  <2>1. IsRow(row[p]) /\ IsRow(row[q])
    BY Zenon DEF ShapeInv, RowShape
  <2>2. ASSUME NEW x \in Requests, NEW y \in Requests, x # y, row'[x] = row[x], row[x].ver > 0, row'[y].ver > 0
        PROVE  FALSE
    <3>1. row[y].ver > 0
      <4>1. CASE row'[y] = row[y]
        BY Zenon, <2>2, <4>1
      <4>2. CASE Advance(y)
        BY Zenon, <1>3, <2>2, <4>2 DEF Advance, Exists
      <4> QED BY Zenon, <1>4, <4>1, <4>2
    <3> QED BY Zenon, <1>3, <2>2, <3>1
  <2>3. row'[p] = row[p] \/ row'[q] = row[q]
    BY Zenon, <1>5, <1>7
  <2> QED BY Zenon, <1>7, <2>2, <2>3
<1>8. named' \subseteq {q \in Requests : row'[q].ver > 0}
  <2>1. \A q \in Requests : row[q].ver > 0 => row'[q].ver > 0
    BY Versions DEF IsRow
  <2> QED BY Zenon, <1>3, <2>1 DEF Step, NamedStep
<1> QED BY Zenon, <1>6, <1>7, <1>8

------------------------------------------------------------------------------
(* Reads and keys                                                           *)

CacheInv == ShapeInv /\ CopyInv /\ StampInv /\ KeyInv

LEMMA CacheInvHolds == Spec => []CacheInv
<1>1. Init => CacheInv
  <2> SUFFICES ASSUME Init PROVE CacheInv
    BY Zenon
  <2>0. None \notin Requests
    BY Zenon, CacheAssumption
  <2>1. ShapeInv
    <3>1. RowShape /\ CacheShape
      BY Zenon, AbsentIsRow DEF Init, RowShape, CacheShape
    <3>2. CallShape
      BY Zenon DEF Init, CallShape, IsCall, NoCall
    <3>3. WaiterShape
      BY Zenon DEF Init, WaiterShape, IsWait, NoWait
    <3>4. CountShape
      BY DEF Init, CountShape, Counters
    <3> QED BY Zenon, <3>1, <3>2, <3>3, <3>4 DEF ShapeInv
  <2>2. \A q \in Requests : Copies(q) \subseteq {NoRow}
    BY Zenon, <2>0 DEF Init, Copies, NoCall, NoWait
  <2>3. CopyInv
    BY <2>2, AbsentIsRow DEF CopyInv, Init
  <2>4. StampInv
    BY Zenon, <2>2, AbsentIsRow DEF StampInv, Init
  <2>5. KeyInv
    BY AbsentIsRow DEF KeyInv, Init
  <2> QED BY Zenon, <2>1, <2>3, <2>4, <2>5 DEF CacheInv
<1>2. CacheInv /\ [Next]_vars => CacheInv'
  BY Zenon, EveryStep, ShapeKept, CopyKept, StampKept, KeyKept DEF CacheInv
<1> QED BY <1>1, <1>2, PTL DEF Spec

\* A read never returns less than the row it found in the store, as long as no
\* reclaim wrote an updated_at before the one it replaced (GetRequestByID
\* compares updated_at before it overwrites the cached copy).
THEOREM ReadsNeverGoBack == Spec => []ReadsAreFresh
<1>1. CacheInv => ReadsAreFresh
  BY Zenon DEF CacheInv, StampInv, ReadsAreFresh, StaleNeverWins
<1> QED BY <1>1, CacheInvHolds, PTL

\* Creations with one idempotency key are answered with one request, on any
\* replicas and past failed lookups, until retention removes a row
\* (findRequestByIdempotencyKey before and after the insert, which a unique
\* index guards).
THEOREM KeyNamesOne == Spec => []OneKeyOneRequest
<1>1. CacheInv => OneKeyOneRequest
  BY Zenon DEF CacheInv, KeyInv, OneKeyOneRequest
<1> QED BY <1>1, CacheInvHolds, PTL

------------------------------------------------------------------------------
(* What one step does to a waiter and to the calls that end a request       *)

SameSpot(w) == waiter'[w].q = waiter[w].q /\ waiter'[w].on = waiter[w].on
Stays(w) == SameSpot(w) /\ waiter'[w].pc = waiter[w].pc /\ waiter'[w].kind = waiter[w].kind /\ waiter'[w].saw = waiter[w].saw
KeepsWoken(w) == waiter[w].woken => waiter'[w].woken
KeepsTuned(w) == waiter[w].tuned => waiter'[w].tuned

\* w is woken; detached by another waiter or by a call; subscribes and reads;
\* has read; waits; has ended; leaves.
Turn(w) ==
    \/ waiter'[w] = waiter[w]
    \/ Stays(w) /\ waiter'[w].woken
    \/ /\ Stays(w) /\ KeepsWoken(w)
       /\ Company(w) \/ \E c \in Calls : call[c].pc = "release" /\ Concerns(c, w)
    \/ waiter'[w].pc = "read" /\ waiter'[w].tuned
    \/ /\ waiter[w].pc = "read" /\ waiter'[w].pc = "check"
       /\ SameSpot(w) /\ KeepsWoken(w) /\ KeepsTuned(w)
       /\ waiter'[w].saw = row[waiter[w].q] \/ ~ Exists(waiter[w].q) \/ count'.errors > 0
    \/ /\ waiter[w].pc = "check" /\ waiter[w].saw.status \notin Terminal /\ waiter'[w].pc = "select"
       /\ SameSpot(w) /\ KeepsWoken(w) /\ KeepsTuned(w)
    \/ waiter'[w].pc \in {"returned", "lost"}
    \/ /\ waiter'[w].pc = "left"
       /\ waiter'[w].kind = "terminal" => Settled(waiter[w].q)' \/ count'.errors > 0

\* Whoever waited for a request goes on being counted as company for those
\* who wait for it, unless the process is replaced under all of them.
KeepsSpot(v) ==
    \/ SameSpot(v) \/ waiter[v].q \notin Requests \/ ~ Exists(waiter[v].q) \/ count'.errors > 0
    \/ \A u \in Waiters : waiter[u].on = waiter[v].on => waiter'[u].pc = "lost"

\* A call ends the request before it mirrors, and wakes before it releases.
CallTurn(c) ==
    /\ Ending(c)' => (Ending(c) /\ call'[c].q = call[c].q) \/ Settled(call[c].q)'
    /\ call'[c].pc = "release" =>
         call'[c] = call[c] \/ \A w \in Waiters : Concerns(c, w)' => ~ waiter'[w].tuned

Turns == /\ \A w \in Waiters : Turn(w) /\ KeepsSpot(w)
         /\ \A c \in Calls : CallTurn(c)

\* Nobody moves, one waiter goes on, one call goes on.
LEMMA IdleTurn ==
    ASSUME UNCHANGED waiter
    PROVE  \A w \in Waiters : Turn(w) /\ KeepsSpot(w)
BY Zenon DEF Turn, KeepsSpot, SameSpot

LEMMA WaitTurn ==
    ASSUME WaiterShape, NEW w \in Waiters, NEW x, Wait(w, x)
    PROVE  waiter'[w] = x /\ \A v \in Waiters \ {w} : Turn(v) /\ KeepsSpot(v)
<1>1. waiter'[w] = x /\ \A v \in Waiters \ {w} : waiter'[v] = waiter[v]
  BY Zenon DEF WaiterShape, Wait
<1> QED BY Zenon, <1>1 DEF Turn, KeepsSpot, SameSpot

LEMMA IdleCalls ==
    ASSUME UNCHANGED call
    PROVE  \A c \in Calls : CallTurn(c)
BY Zenon DEF CallTurn, Ending

LEMMA ContinueTurn ==
    ASSUME CallShape, NEW c \in Calls, NEW x, Continue(c, x), x.pc # "release",
           x.pc = "mirror" /\ x.op \in {"submit", "cancel"} => Settled(x.q)'
    PROVE  \A d \in Calls : CallTurn(d)
<1>1. call'[c] = x /\ \A d \in Calls \ {c} : call'[d] = call[d]
  BY Zenon DEF CallShape, Continue
<1>2. ASSUME NEW d \in Calls \ {c} PROVE CallTurn(d)
  BY Zenon, <1>1, <1>2 DEF CallTurn, Ending
<1>3. CallTurn(c)
  BY Zenon, <1>1 DEF CallTurn, Ending, Settled
<1> QED BY Zenon, <1>2, <1>3

\* Steps in which no waiter moves and no call ends a request.
LEMMA QuietTurns ==
    ASSUME ShapeInv, NEW c \in Calls,
           \/ Find(c) \/ FindWinner(c) \/ CreateRequest(c)
           \/ FindExpiredRequests(c) \/ reclaimExpired(c) \/ ReadRow(c) \/ Refresh(c)
    PROVE  Turns
<1>1. UNCHANGED waiter
  BY Zenon DEF Find, FindWinner, CreateRequest, FindExpiredRequests, reclaimExpired, ReadRow, Refresh
<1>2. \E x : Continue(c, x) /\ x.pc # "release" /\ (x.pc = "mirror" => x.op \notin {"submit", "cancel"})
  <2>0. NoCall.pc = "idle" /\ \A r : [NoCall EXCEPT !.pc = "insert", !.on = r].pc = "insert"
    BY Zenon DEF NoCall
  <2>1. CASE Find(c) \/ FindWinner(c)
    <3>1. Continue(c, NoCall) \/ \E r \in Replicas : Continue(c, [NoCall EXCEPT !.pc = "insert", !.on = r])
      BY Zenon, <2>1 DEF Find, FindWinner, findRequestByIdempotencyKey, Answer, GoOn
    <3> QED BY Zenon, <2>0, <3>1
  <2>2. CASE CreateRequest(c)
    <3>1. DOMAIN call[c] = {"pc", "on", "op", "q", "got"}
      BY Zenon DEF ShapeInv, CallShape, IsCall
    <3>2. \/ Continue(c, NoCall) \/ Continue(c, [call[c] EXCEPT !.pc = "collided"])
          \/ \E q, n : Continue(c, [call[c] EXCEPT !.pc = "mirror", !.q = q, !.got = n, !.op = "create"])
      BY Zenon, <2>2 DEF CreateRequest
    <3>3. /\ [call[c] EXCEPT !.pc = "collided"].pc = "collided"
          /\ \A q, n : LET x == [call[c] EXCEPT !.pc = "mirror", !.q = q, !.got = n, !.op = "create"]
                       IN  x.pc = "mirror" /\ x.op = "create"
      BY Zenon, <3>1
    <3> QED BY Zenon, <2>0, <3>2, <3>3
  <2>3. CASE FindExpiredRequests(c) \/ ReadRow(c)
    <3>1. PICK r, q, g, op, pc :
            /\ Continue(c, [NoCall EXCEPT !.pc = pc, !.on = r, !.op = op, !.q = q, !.got = g])
            /\ pc \in {"reclaim", "refresh"}
      BY Zenon, <2>3 DEF FindExpiredRequests, ReadRow
    <3> DEFINE x == [NoCall EXCEPT !.pc = pc, !.on = r, !.op = op, !.q = q, !.got = g]
    <3>2. x.pc = pc
      BY Zenon DEF NoCall
    <3>3. Continue(c, x) /\ x.pc # "release" /\ x.pc # "mirror"
      BY Zenon, <3>1, <3>2
    <3> HIDE DEF x
    <3> QED BY Zenon, <3>3
  <2>4. CASE reclaimExpired(c)
    <3>1. DOMAIN call[c] = {"pc", "on", "op", "q", "got"} /\ call[c].op = "reclaim"
      BY Zenon, <2>4 DEF ShapeInv, CallShape, IsCall, reclaimExpired
    <3>2. Continue(c, NoCall) \/ \E g : Continue(c, [call[c] EXCEPT !.pc = "mirror", !.got = g])
      BY Zenon, <2>4 DEF reclaimExpired
    <3>3. \A g : LET x == [call[c] EXCEPT !.pc = "mirror", !.got = g] IN x.pc = "mirror" /\ x.op = "reclaim"
      BY Zenon, <3>1
    <3> QED BY Zenon, <2>0, <3>2, <3>3
  <2>5. CASE Refresh(c)
    BY Zenon, <2>0, <2>5 DEF Refresh
  <2> QED BY Zenon, <2>1, <2>2, <2>3, <2>4, <2>5
<1>3. \A d \in Calls : CallTurn(d)
  BY Zenon, <1>2, ContinueTurn DEF ShapeInv
<1> QED BY Zenon, <1>1, <1>3, IdleTurn DEF Turns

\* A submission and a cancel end the request when they commit.
LEMMA StoreTurn ==
    ASSUME ShapeInv, NEW c \in Calls, NEW r, NEW q \in Requests, Exists(q), NEW name,
           NEW op \in Guarded \cup {"claim", "cancel"}, NEW x \in Outcomes(op, row[q]),
           name \in {"submit", "cancel"} => op = name,
           row' = [row EXCEPT ![q] = x],
           Continue(c, [NoCall EXCEPT !.pc = "mirror", !.on = r, !.q = q, !.got = x, !.op = name])
    PROVE  /\ \A d \in Calls : CallTurn(d)
           /\ op = "cancel" => Settled(q)'
<1>1. row'[q] = x /\ IsRow(row[q]) /\ row[q].status # "removed"
  BY Zenon DEF ShapeInv, RowShape, Exists
<1>2. op \in {"submit", "cancel"} => Settled(q)'
  BY Zenon, <1>1, OutcomeIsNext DEF Settled
<1> DEFINE o == [NoCall EXCEPT !.pc = "mirror", !.on = r, !.q = q, !.got = x, !.op = name]
<1>3. o.pc = "mirror" /\ o.q = q /\ o.op = name
  BY Zenon DEF NoCall
<1>4. Continue(c, o)
  BY Zenon
<1> HIDE DEF o
<1>5. o.pc = "mirror" /\ o.op \in {"submit", "cancel"} => row'[o.q].status \in Terminal \cup {"removed"}
  BY Zenon, <1>2, <1>3 DEF Settled
<1>6. \A d \in Calls : CallTurn(d)
  BY Zenon, <1>3, <1>4, <1>5, ContinueTurn DEF ShapeInv, Settled
<1> QED BY Zenon, <1>2, <1>6

LEMMA CommitTurns ==
    ASSUME ShapeInv, NEW c \in Calls, Commit(c)
    PROVE  Turns
<1>1. PICK r \in Replicas, q \in Requests, op \in Guarded \cup {"claim", "cancel"} :
         /\ Exists(q)
         /\ \E x \in Outcomes(op, row[q]) :
              /\ row' = [row EXCEPT ![q] = x]
              /\ Continue(c, [NoCall EXCEPT !.pc = "mirror", !.on = r, !.q = q, !.got = x,
                              !.op = IF op = "cancel" /\ x = row[q] THEN "refused" ELSE op])
  BY Zenon DEF Commit
<1>2. PICK x \in Outcomes(op, row[q]) :
              /\ row' = [row EXCEPT ![q] = x]
              /\ Continue(c, [NoCall EXCEPT !.pc = "mirror", !.on = r, !.q = q, !.got = x,
                              !.op = IF op = "cancel" /\ x = row[q] THEN "refused" ELSE op])
  BY Zenon, <1>1
<1> DEFINE name == IF op = "cancel" /\ x = row[q] THEN "refused" ELSE op
<1>3. name \in {"submit", "cancel"} => op = name
  BY Zenon
<1>4. Continue(c, [NoCall EXCEPT !.pc = "mirror", !.on = r, !.q = q, !.got = x, !.op = name])
  BY Zenon, <1>2
<1> HIDE DEF name
<1>5. \A d \in Calls : CallTurn(d)
  BY ZenonT(40), <1>1, <1>2, <1>3, <1>4, StoreTurn
<1>6. UNCHANGED waiter
  BY Zenon DEF Commit
<1> QED BY Zenon, <1>5, <1>6, IdleTurn DEF Turns

\* The mirror wakes everyone who listens, before the signal can be dropped.
LEMMA MirrorTurns ==
    ASSUME ShapeInv, NEW c \in Calls, Mirror(c)
    PROVE  Turns
<1> DEFINE o == call[c]
<1>0. WaiterShape /\ CallShape /\ IsCall(o)
  BY Zenon DEF ShapeInv, CallShape
<1>1. ASSUME NEW w \in Waiters
      PROVE  Turn(w) /\ KeepsSpot(w)
  <2>1. CASE UNCHANGED waiter
    BY Zenon, <2>1, IdleTurn
  <2>2. CASE notifyRequestUpdate(o.on, o.q)
    <3>1. waiter'[w] = waiter[w] \/ waiter'[w] = [waiter[w] EXCEPT !.tuned = FALSE, !.woken = TRUE]
      BY Zenon, <2>2 DEF notifyRequestUpdate
    <3>2. CASE waiter'[w] = [waiter[w] EXCEPT !.tuned = FALSE, !.woken = TRUE]
      <4> DEFINE a == waiter[w]
                 b == waiter'[w]
      <4>1. DOMAIN a = {"pc", "on", "q", "kind", "tuned", "woken", "saw"}
        BY Zenon, <1>0 DEF WaiterShape, IsWait
      <4>2. b = [a EXCEPT !.tuned = FALSE, !.woken = TRUE]
        BY Zenon, <3>2
      <4> HIDE DEF a, b
      <4>3. b.pc = a.pc /\ b.on = a.on /\ b.q = a.q /\ b.kind = a.kind /\ b.saw = a.saw /\ b.woken = TRUE
        BY Zenon, <4>1, <4>2
      <4> QED BY Zenon, <4>3 DEF Turn, KeepsSpot, Stays, SameSpot, a, b
    <3> QED BY Zenon, <3>1, <3>2 DEF Turn, KeepsSpot, SameSpot
  <2> QED BY Zenon, <2>1, <2>2 DEF Mirror
<1>2. ASSUME o.op \in {"submit", "cancel"}, NEW w \in Waiters, waiter'[w].on = o.on, waiter'[w].q = o.q
      PROVE  ~ waiter'[w].tuned
  <2>1. waiter' = [v \in Waiters |->
          IF Listening(v, o.on, o.q) THEN [waiter[v] EXCEPT !.tuned = FALSE, !.woken = TRUE] ELSE waiter[v]]
    BY Zenon, <1>2 DEF Mirror, notifyRequestUpdate
  <2>2. CASE Listening(w, o.on, o.q)
    <3> DEFINE a == waiter[w]
               b == waiter'[w]
    <3>1. DOMAIN a = {"pc", "on", "q", "kind", "tuned", "woken", "saw"}
      BY Zenon, <1>0 DEF WaiterShape, IsWait
    <3>2. b = [a EXCEPT !.tuned = FALSE, !.woken = TRUE]
      BY Zenon, <2>1, <2>2
    <3> HIDE DEF a, b
    <3>3. b.tuned = FALSE
      BY Zenon, <3>1, <3>2
    <3> QED BY Zenon, <3>3 DEF b
  <2>3. CASE ~ Listening(w, o.on, o.q)
    <3>1. waiter'[w] = waiter[w]
      BY Zenon, <2>1, <2>3
    <3> QED BY Zenon, <1>2, <2>3, <3>1 DEF Listening
  <2> QED BY Zenon, <2>2, <2>3
<1>3. ASSUME NEW d \in Calls PROVE CallTurn(d)
  <2>1. CASE d # c
    <3>1. call'[d] = call[d]
      BY Zenon, <1>0, <2>1 DEF Mirror, Continue, CallShape
    <3> QED BY Zenon, <3>1 DEF CallTurn, Ending
  <2>2. CASE d = c /\ o.op \notin {"submit", "cancel"}
    <3>1. call'[d] = NoCall
      BY Zenon, <1>0, <2>2 DEF Mirror, Continue, CallShape
    <3>2. NoCall.pc = "idle"
      BY Zenon DEF NoCall
    <3> QED BY Zenon, <3>1, <3>2 DEF CallTurn, Ending
  <2>3. CASE d = c /\ o.op \in {"submit", "cancel"}
    <3>1. call'[d] = [o EXCEPT !.pc = "release", !.got = NoRow]
      BY Zenon, <1>0, <2>3 DEF Mirror, Continue, CallShape
    <3>2. call'[d].q = o.q /\ call'[d].on = o.on /\ Ending(d) /\ o = call[d]
      BY Zenon, <1>0, <2>3, <3>1 DEF IsCall, Ending, Mirror
    <3> QED BY Zenon, <1>2, <2>3, <3>2 DEF CallTurn, Concerns
  <2> QED BY Zenon, <2>1, <2>2, <2>3
<1> QED BY Zenon, <1>1, <1>3 DEF Turns

\* The release detaches those who listen to what the call was about.
LEMMA ReleaseTurns ==
    ASSUME ShapeInv, NEW c \in Calls, Release(c)
    PROVE  Turns
<1>0. call[c].pc = "release" /\ Continue(c, NoCall) /\ waiter' = Detached(waiter, call[c].on, call[c].q)
  BY Zenon DEF Release, releaseRequestSignal
<1>1. ASSUME NEW w \in Waiters
      PROVE  Turn(w) /\ KeepsSpot(w)
  <2>1. CASE ~ Concerns(c, w)
    <3>1. waiter'[w] = waiter[w]
      BY Zenon, <1>0, <2>1 DEF Detached, Concerns
    <3> QED BY Zenon, <3>1 DEF Turn, KeepsSpot, SameSpot
  <2>2. CASE Concerns(c, w)
    <3> DEFINE a == waiter[w]
               b == waiter'[w]
    <3>1. DOMAIN a = {"pc", "on", "q", "kind", "tuned", "woken", "saw"}
      BY Zenon DEF ShapeInv, WaiterShape, IsWait
    <3>2. b = [a EXCEPT !.tuned = FALSE]
      BY Zenon, <1>0, <2>2 DEF Detached, Concerns
    <3> HIDE DEF a, b
    <3>3. b.pc = a.pc /\ b.on = a.on /\ b.q = a.q /\ b.kind = a.kind /\ b.saw = a.saw /\ b.woken = a.woken
      BY Zenon, <3>1, <3>2
    <3> QED BY Zenon, <1>0, <2>2, <3>3 DEF Turn, KeepsSpot, Stays, SameSpot, KeepsWoken, a, b
  <2> QED BY Zenon, <2>1, <2>2
<1>2. \A d \in Calls : CallTurn(d)
  BY Zenon, <1>0, ContinueTurn DEF ShapeInv, NoCall
<1> QED BY Zenon, <1>1, <1>2 DEF Turns

LEMMA BeginTurns ==
    ASSUME ShapeInv, NEW w \in Waiters, BeginWait(w)
    PROVE  Turns
<1>1. PICK r, q :
         Wait(w, [NoWait EXCEPT !.pc = "read", !.on = r, !.q = q, !.tuned = TRUE])
  BY Zenon DEF BeginWait
<1> DEFINE x == [NoWait EXCEPT !.pc = "read", !.on = r, !.q = q, !.tuned = TRUE]
<1>2. x.pc = "read" /\ x.tuned = TRUE
  BY Zenon DEF NoWait
<1>3. Wait(w, x)
  BY Zenon, <1>1
<1> HIDE DEF x
<1>4. waiter'[w] = x /\ \A v \in Waiters \ {w} : Turn(v) /\ KeepsSpot(v)
  BY Zenon, <1>3, WaitTurn DEF ShapeInv
<1>5. waiter[w].q \notin Requests
  BY Zenon, CacheAssumption DEF ShapeInv, WaiterShape, IsWait, BeginWait
<1>6. Turn(w) /\ KeepsSpot(w)
  BY Zenon, <1>2, <1>4, <1>5 DEF Turn, KeepsSpot
<1>7. UNCHANGED call
  BY Zenon DEF BeginWait
<1> QED BY Zenon, <1>4, <1>6, <1>7, IdleCalls DEF Turns

LEMMA ReadTurns ==
    ASSUME ShapeInv, NEW w \in Waiters, waitForRequestState(w)
    PROVE  Turns
<1> DEFINE o == waiter[w]
           y == cache[o.on][o.q]
<1>0. o.pc = "read" /\ UNCHANGED call /\ WaiterShape
  BY Zenon DEF waitForRequestState, ShapeInv
<1>2. \/ Wait(w, [o EXCEPT !.pc = "check", !.saw = row[o.q]])
      \/ /\ Wait(w, [NoWait EXCEPT !.pc = "lost"]) \/ Wait(w, [o EXCEPT !.pc = "check", !.saw = y])
         /\ ~ Exists(o.q) \/ count'.errors > 0
  <2>1. CASE Exists(o.q) /\ Wait(w, [o EXCEPT !.pc = "check", !.saw = row[o.q]])
    BY Zenon, <2>1
  <2>2. CASE /\ IF Exists(o.q) THEN StoreError ELSE UNCHANGED count
             /\ Wait(w, IF y.ver = 0 THEN [NoWait EXCEPT !.pc = "lost"] ELSE [o EXCEPT !.pc = "check", !.saw = y])
    <3>1. ~ Exists(o.q) \/ count'.errors > 0
      BY Zenon, <2>2, Counting DEF StoreError, ShapeInv, Counters
    <3> QED BY Zenon, <2>2, <3>1
  <2> QED BY Zenon, <2>1, <2>2 DEF waitForRequestState
<1>3. Turn(w) /\ KeepsSpot(w) /\ \A v \in Waiters \ {w} : Turn(v) /\ KeepsSpot(v)
  <2>1. CASE \E x : /\ Wait(w, [o EXCEPT !.pc = "check", !.saw = x])
                    /\ x = row[o.q] \/ ~ Exists(o.q) \/ count'.errors > 0
    <3>1. PICK x : /\ Wait(w, [o EXCEPT !.pc = "check", !.saw = x])
                   /\ x = row[o.q] \/ ~ Exists(o.q) \/ count'.errors > 0
      BY Zenon, <2>1
    <3>2. /\ waiter'[w] = [o EXCEPT !.pc = "check", !.saw = x]
          /\ \A v \in Waiters \ {w} : Turn(v) /\ KeepsSpot(v)
      BY Zenon, <1>0, <3>1, WaitTurn
    <3>3. /\ waiter'[w].pc = "check" /\ waiter'[w].saw = x /\ waiter'[w].q = o.q /\ waiter'[w].on = o.on
          /\ waiter'[w].tuned = o.tuned /\ waiter'[w].woken = o.woken
      <4> DEFINE a == waiter[w]
                 b == waiter'[w]
      <4>1. DOMAIN a = {"pc", "on", "q", "kind", "tuned", "woken", "saw"} /\ b = [a EXCEPT !.pc = "check", !.saw = x]
        BY Zenon, <1>0, <3>2 DEF WaiterShape, IsWait
      <4> HIDE DEF a, b
      <4>2. b.pc = "check" /\ b.q = a.q /\ b.on = a.on /\ b.tuned = a.tuned /\ b.woken = a.woken /\ b.saw = x
        BY Zenon, <4>1
      <4> QED BY Zenon, <4>2 DEF a, b
    <3> QED BY Zenon, <1>0, <3>1, <3>2, <3>3 DEF Turn, KeepsSpot, SameSpot, KeepsWoken, KeepsTuned
  <2>2. CASE Wait(w, [NoWait EXCEPT !.pc = "lost"]) /\ (~ Exists(o.q) \/ count'.errors > 0)
    <3>1. /\ waiter'[w] = [NoWait EXCEPT !.pc = "lost"]
          /\ \A v \in Waiters \ {w} : Turn(v) /\ KeepsSpot(v)
      BY Zenon, <1>0, <2>2, WaitTurn
    <3>2. waiter'[w].pc = "lost"
      BY Zenon, <3>1 DEF NoWait
    <3> QED BY Zenon, <2>2, <3>1, <3>2 DEF Turn, KeepsSpot
  <2> QED BY Zenon, <1>2, <2>1, <2>2
<1> QED BY Zenon, <1>0, <1>3, IdleCalls DEF Turns

LEMMA CheckTurns ==
    ASSUME ShapeInv, NEW w \in Waiters, CheckState(w)
    PROVE  Turns
<1> DEFINE o == waiter[w]
           end == [o EXCEPT !.pc = "returned", !.tuned = FALSE, !.woken = FALSE]
<1>0. o.pc = "check" /\ UNCHANGED call /\ WaiterShape
  BY Zenon DEF CheckState, ShapeInv
<1>1. CASE waiter' = [Detached(waiter, o.on, o.q) EXCEPT ![w] = end]
  <2>1. waiter'[w] = end
    BY Zenon, <1>1 DEF Detached
  <2>2. end.pc = "returned" /\ end.q = o.q /\ end.on = o.on
    <3> DEFINE a == waiter[w]
               b == end
    <3>1. DOMAIN a = {"pc", "on", "q", "kind", "tuned", "woken", "saw"} /\ b = [a EXCEPT !.pc = "returned", !.tuned = FALSE, !.woken = FALSE]
      BY Zenon, <1>0 DEF WaiterShape, IsWait
    <3> HIDE DEF a, b
    <3>2. b.pc = "returned" /\ b.q = a.q /\ b.on = a.on
      BY Zenon, <3>1
    <3> QED BY Zenon, <3>2 DEF a, b
  <2>3. Turn(w) /\ KeepsSpot(w)
    <3> HIDE DEF end
    <3> QED BY Zenon, <2>1, <2>2 DEF Turn, KeepsSpot, SameSpot
  <2>4. ASSUME NEW v \in Waiters \ {w}
        PROVE  Turn(v) /\ KeepsSpot(v)
    <3>1. waiter'[v] = IF waiter[v].on = o.on /\ waiter[v].q = o.q THEN [waiter[v] EXCEPT !.tuned = FALSE] ELSE waiter[v]
      BY Zenon, <1>1 DEF Detached
    <3>2. CASE waiter[v].on = o.on /\ waiter[v].q = o.q
      <4> DEFINE a == waiter[v]
                 b == waiter'[v]
      <4>1. DOMAIN a = {"pc", "on", "q", "kind", "tuned", "woken", "saw"}
        BY Zenon, <1>0 DEF WaiterShape, IsWait
      <4>2. b = [a EXCEPT !.tuned = FALSE]
        BY Zenon, <3>1, <3>2
      <4> HIDE DEF a, b
      <4>3. b.pc = a.pc /\ b.on = a.on /\ b.q = a.q /\ b.kind = a.kind /\ b.saw = a.saw /\ b.woken = a.woken
        BY Zenon, <4>1, <4>2
      <4>4. Company(v)
        BY Zenon, <2>4, <3>2 DEF Company
      <4> QED BY Zenon, <4>3, <4>4 DEF Turn, KeepsSpot, Stays, SameSpot, KeepsWoken, a, b
    <3>3. CASE ~ (waiter[v].on = o.on /\ waiter[v].q = o.q)
      BY Zenon, <3>1, <3>3 DEF Turn, KeepsSpot, SameSpot
    <3> QED BY Zenon, <3>2, <3>3
  <2> QED BY Zenon, <1>0, <2>3, <2>4, IdleCalls DEF Turns
<1>2. CASE o.saw.status \notin Terminal /\ Wait(w, [o EXCEPT !.pc = "select", !.saw = NoRow])
  <2>1. /\ waiter'[w] = [o EXCEPT !.pc = "select", !.saw = NoRow]
        /\ \A v \in Waiters \ {w} : Turn(v) /\ KeepsSpot(v)
    BY Zenon, <1>0, <1>2, WaitTurn
  <2>2. /\ waiter'[w].pc = "select" /\ waiter'[w].q = o.q /\ waiter'[w].on = o.on
        /\ waiter'[w].tuned = o.tuned /\ waiter'[w].woken = o.woken
    <3> DEFINE a == waiter[w]
               b == waiter'[w]
    <3>1. DOMAIN a = {"pc", "on", "q", "kind", "tuned", "woken", "saw"} /\ b = [a EXCEPT !.pc = "select", !.saw = NoRow]
      BY Zenon, <1>0, <2>1 DEF WaiterShape, IsWait
    <3> HIDE DEF a, b
    <3>2. b.pc = "select" /\ b.q = a.q /\ b.on = a.on /\ b.tuned = a.tuned /\ b.woken = a.woken
      BY Zenon, <3>1
    <3> QED BY Zenon, <3>2 DEF a, b
  <2>3. Turn(w) /\ KeepsSpot(w)
    BY Zenon, <1>0, <1>2, <2>2 DEF Turn, KeepsSpot, SameSpot, KeepsWoken, KeepsTuned
  <2> QED BY Zenon, <1>0, <2>1, <2>3, IdleCalls DEF Turns
<1> QED BY Zenon, <1>1, <1>2 DEF CheckState

LEMMA AgainTurns ==
    ASSUME ShapeInv, NEW w \in Waiters, Wake(w) \/ Poll(w)
    PROVE  Turns
<1>1. Wait(w, [waiter[w] EXCEPT !.pc = "read", !.tuned = TRUE, !.woken = FALSE]) /\ UNCHANGED call /\ WaiterShape
  BY Zenon DEF Wake, Poll, Again, ShapeInv
<1>2. /\ waiter'[w] = [waiter[w] EXCEPT !.pc = "read", !.tuned = TRUE, !.woken = FALSE]
      /\ \A v \in Waiters \ {w} : Turn(v) /\ KeepsSpot(v)
  BY Zenon, <1>1, WaitTurn
<1>3. waiter'[w].pc = "read" /\ waiter'[w].tuned = TRUE /\ waiter'[w].q = waiter[w].q /\ waiter'[w].on = waiter[w].on
  <2> DEFINE a == waiter[w]
             b == waiter'[w]
  <2>1. DOMAIN a = {"pc", "on", "q", "kind", "tuned", "woken", "saw"} /\ b = [a EXCEPT !.pc = "read", !.tuned = TRUE, !.woken = FALSE]
    BY Zenon, <1>1, <1>2 DEF WaiterShape, IsWait
  <2> HIDE DEF a, b
  <2>2. b.pc = "read" /\ b.tuned = TRUE /\ b.q = a.q /\ b.on = a.on
    BY Zenon, <2>1
  <2> QED BY Zenon, <2>2 DEF a, b
<1>4. Turn(w) /\ KeepsSpot(w)
  BY Zenon, <1>3 DEF Turn, KeepsSpot, SameSpot
<1> QED BY Zenon, <1>1, <1>2, <1>4, IdleCalls DEF Turns

\* Whoever leaves WaitForRequestTerminal leaves a request that has ended.
LEMMA DepartTurns ==
    ASSUME ShapeInv, NEW w \in Waiters, Depart(w)
    PROVE  Turns
<1> DEFINE o == waiter[w]
<1>0. o.pc = "select" /\ WaiterShape
  BY Zenon DEF Depart, ShapeInv
<1>1. o.on \in Replicas /\ o.q \in Requests /\ row[o.q].ver > 0
  BY Zenon, <1>0, GoingOn
<1>2. ASSUME NEW kind, Left(w, kind)
      PROVE  /\ waiter'[w].pc = "left" /\ waiter'[w].q = o.q /\ waiter'[w].on = o.on /\ waiter'[w].kind = kind
             /\ \A v \in Waiters \ {w} : Turn(v) /\ KeepsSpot(v)
  <2>1. Wait(w, [waiter[w] EXCEPT !.pc = "left", !.kind = kind, !.tuned = FALSE, !.woken = FALSE])
    BY Zenon, <1>2 DEF Left
  <2>2. /\ waiter'[w] = [waiter[w] EXCEPT !.pc = "left", !.kind = kind, !.tuned = FALSE, !.woken = FALSE]
        /\ \A v \in Waiters \ {w} : Turn(v) /\ KeepsSpot(v)
    BY Zenon, <1>0, <2>1, WaitTurn
  <2> DEFINE a == waiter[w]
             b == waiter'[w]
  <2>3. /\ DOMAIN a = {"pc", "on", "q", "kind", "tuned", "woken", "saw"}
        /\ b = [a EXCEPT !.pc = "left", !.kind = kind, !.tuned = FALSE, !.woken = FALSE]
    BY Zenon, <1>0, <2>2 DEF WaiterShape, IsWait
  <2> HIDE DEF a, b
  <2>4. b.pc = "left" /\ b.q = a.q /\ b.on = a.on /\ b.kind = kind
    BY Zenon, <2>3
  <2> QED BY Zenon, <2>2, <2>4 DEF a, b
<1>3. ASSUME NEW kind, Left(w, kind),
             kind = "terminal" => row'[o.q].status \in Terminal \cup {"removed"} \/ count'.errors > 0,
             \A d \in Calls : CallTurn(d)
      PROVE  Turns
  <2>1. Turn(w) /\ KeepsSpot(w)
    BY Zenon, <1>2, <1>3 DEF Turn, KeepsSpot, SameSpot, Settled
  <2> QED BY Zenon, <1>2, <1>3, <2>1 DEF Turns
<1>4. CASE Left(w, "state") /\ UNCHANGED call
  BY Zenon, <1>3, <1>4, IdleCalls
<1>5. CASE Left(w, "terminal") /\ UNCHANGED <<row, call>> /\ (IF Exists(o.q) THEN StoreError ELSE UNCHANGED count)
  <2>1. Exists(o.q) => count'.errors > 0
    BY Zenon, <1>5, Counting DEF StoreError, ShapeInv, Counters
  <2>2. ~ Exists(o.q) => row'[o.q].status = "removed"
    BY Zenon, <1>1, <1>5 DEF Exists
  <2>3. UNCHANGED call
    BY Zenon, <1>5
  <2> QED BY Zenon, <1>3, <1>5, <2>1, <2>2, <2>3, IdleCalls
<1>6. CASE /\ Left(w, "terminal") /\ Exists(o.q)
           /\ \E c \in Calls, x \in Outcomes("cancel", row[o.q]) :
                /\ row' = [row EXCEPT ![o.q] = x]
                /\ Continue(c, [NoCall EXCEPT !.pc = "mirror", !.on = o.on, !.q = o.q, !.got = x,
                                !.op = IF x = row[o.q] THEN "refused" ELSE "cancel"])
  <2> DEFINE op == "cancel"
  <2>1. PICK c \in Calls, x \in Outcomes(op, row[o.q]) :
                /\ row' = [row EXCEPT ![o.q] = x]
                /\ Continue(c, [NoCall EXCEPT !.pc = "mirror", !.on = o.on, !.q = o.q, !.got = x,
                                !.op = IF x = row[o.q] THEN "refused" ELSE op])
    BY Zenon, <1>6
  <2> DEFINE name == IF x = row[o.q] THEN "refused" ELSE op
             q == o.q
  <2>2. /\ op \in Guarded \cup {"claim", "cancel"} /\ (name \in {"submit", "cancel"} => op = name)
        /\ op = "cancel" /\ q \in Requests /\ Exists(q) /\ q = o.q
    BY Zenon, <1>1, <1>6
  <2>3. Continue(c, [NoCall EXCEPT !.pc = "mirror", !.on = o.on, !.q = q, !.got = x, !.op = name])
        /\ row' = [row EXCEPT ![q] = x] /\ x \in Outcomes(op, row[q])
    BY Zenon, <2>1
  <2> HIDE DEF op, name, q
  <2>4. (\A d \in Calls : CallTurn(d)) /\ row'[q].status \in Terminal \cup {"removed"}
    BY Zenon, <2>2, <2>3, StoreTurn DEF Settled
  <2> QED BY Zenon, <1>3, <1>6, <2>2, <2>4
<1> QED BY Zenon, <1>4, <1>5, <1>6 DEF Depart

LEMMA RestartTurns ==
    ASSUME ShapeInv, NEW r \in Replicas, NewRequestsService(r)
    PROVE  Turns
<1>0. NoCall.pc = "idle" /\ [NoWait EXCEPT !.pc = "lost"].pc = "lost"
  BY Zenon DEF NoCall, NoWait
<1>1. /\ \A c \in Calls : call'[c] = call[c] \/ call'[c].pc = "idle"
      /\ \A w \in Waiters : waiter[w].on = r => waiter'[w].pc = "lost"
      /\ \A w \in Waiters : waiter[w].on # r => waiter'[w] = waiter[w]
  BY Zenon, <1>0 DEF NewRequestsService
<1>2. \A c \in Calls : CallTurn(c)
  BY Zenon, <1>1 DEF CallTurn, Ending
<1>3. ASSUME NEW w \in Waiters PROVE Turn(w) /\ KeepsSpot(w)
  BY Zenon, <1>1 DEF Turn, KeepsSpot, SameSpot
<1> QED BY Zenon, <1>2, <1>3 DEF Turns

LEMMA EveryTurn ==
    ASSUME ShapeInv, [Next]_vars
    PROVE  Turns
<1>1. CASE UNCHANGED <<waiter, call>>
  BY Zenon, <1>1, IdleTurn, IdleCalls DEF Turns
<1>2. ASSUME NEW c \in Calls,
             \/ Find(c) \/ CreateRequest(c) \/ FindWinner(c)
             \/ Commit(c) \/ FindExpiredRequests(c) \/ reclaimExpired(c) \/ Mirror(c) \/ Release(c)
             \/ ReadRow(c) \/ Refresh(c)
      PROVE  Turns
  BY Zenon, <1>2, QuietTurns, CommitTurns, MirrorTurns, ReleaseTurns
<1>3. ASSUME NEW w \in Waiters,
             \/ BeginWait(w) \/ waitForRequestState(w) \/ CheckState(w)
             \/ Wake(w) \/ Poll(w) \/ Depart(w)
      PROVE  Turns
  BY Zenon, <1>3, BeginTurns, ReadTurns, CheckTurns, AgainTurns, DepartTurns
<1>4. ASSUME NEW r \in Replicas, cleanupTerminalRequests(r)
      PROVE  UNCHANGED <<waiter, call>>
  BY Zenon, <1>4 DEF cleanupTerminalRequests
<1>5. UNCHANGED vars => UNCHANGED <<waiter, call>>
  BY Zenon DEF vars
<1> QED BY Zenon, <1>1, <1>2, <1>3, <1>4, <1>5, RestartTurns DEF Next

------------------------------------------------------------------------------
(* Departures                                                               *)

\* A request that ended stays so unless it is requeued, and one that was
\* removed does not come back.
LEMMA SettledStays ==
    ASSUME ShapeInv, Step, NEW q \in Requests
    PROVE  /\ Settled(q) => Settled(q)' \/ count'.revived > 0
           /\ row[q].ver > 0 /\ ~ Exists(q) => ~ Exists(q)'
<1>1. CASE row'[q] = row[q]
  BY Zenon, <1>1 DEF Settled, Exists
<1>2. CASE Advance(q)
  BY Zenon, <1>2 DEF Advance, Exists
<1>3. CASE Sweep(q)
  <2>1. row'[q].status = "removed"
    BY Zenon, <1>3 DEF Sweep, ShapeInv, RowShape, IsRow
  <2> QED BY Zenon, <2>1 DEF Settled, Exists
<1> QED BY Zenon, <1>1, <1>2, <1>3 DEF Step, RowStep

\* What the assumption that a counter is zero says of the step before.
LEMMA NotYet ==
    ASSUME ShapeInv, Step, NEW k \in Counters, count'[k] = 0
    PROVE  count[k] = 0 /\ ~ (count'[k] > 0)
BY DEF ShapeInv, CountShape, Step, CountGrows

LEMMA DepartureKept ==
    ASSUME ShapeInv, DepartureContract, Step, Turns
    PROVE  DepartureContract'
<1>1. ASSUME count'.errors = 0, count'.revived = 0, NEW w \in Waiters,
             waiter'[w].pc = "left", waiter'[w].kind = "terminal"
      PROVE  row'[waiter'[w].q].status \in Terminal \cup {"removed"}
  <2>1. count.errors = 0 /\ count.revived = 0 /\ ~ (count'.errors > 0) /\ ~ (count'.revived > 0)
    BY Zenon, <1>1, NotYet DEF Counters
  <2>2. CASE waiter[w].pc = "left" /\ waiter[w].kind = "terminal" /\ waiter'[w].q = waiter[w].q
    <3>1. Settled(waiter[w].q) /\ waiter[w].q \in Requests
      BY Zenon, <2>1, <2>2 DEF DepartureContract, Settled, ShapeInv, WaiterShape, IsWait
    <3> DEFINE q == waiter[w].q
    <3> HIDE DEF q
    <3>2. row'[q].status \in Terminal \cup {"removed"}
      BY Zenon, <2>1, <3>1, SettledStays DEF Settled, q
    <3> QED BY Zenon, <2>2, <3>2 DEF q
  <2>3. CASE row'[waiter'[w].q].status \in Terminal \cup {"removed"}
    BY Zenon, <2>3
  <2> QED BY Zenon, <1>1, <2>1, <2>2, <2>3 DEF Turns, Turn, Stays, SameSpot, Settled
<1>2. ASSUME NEW q \in Requests, Exists(q)', row'[q].status = "cancelled"
      PROVE  count'.cancel > 0
  <2>1. CASE row'[q] = row[q]
    BY Zenon, <1>2, <2>1 DEF DepartureContract, Exists, Step, CountGrows, Counters
  <2>2. CASE Advance(q)
    BY Zenon, <1>2, <2>2 DEF Advance
  <2>3. CASE Sweep(q)
    BY Zenon, <1>2, <2>3 DEF Sweep, ShapeInv, RowShape, IsRow
  <2> QED BY Zenon, <2>1, <2>2, <2>3 DEF Step, RowStep
<1> QED BY Zenon, <1>1, <1>2 DEF DepartureContract

\* A waiter of WaitForRequestTerminal that leaves does not orphan its request,
\* and only cancels cancel (WaitForRequestTerminal and CancelRequest).
THEOREM DepartureHonoured == Spec => []DepartureContract
<1>1. Init => DepartureContract
  BY DEF Init, DepartureContract, NoWait, NoRow
<1>2. CacheInv /\ DepartureContract /\ [Next]_vars => DepartureContract'
  BY Zenon, EveryStep, EveryTurn, DepartureKept DEF CacheInv
<1> QED BY <1>1, <1>2, CacheInvHolds, PTL DEF Spec

------------------------------------------------------------------------------
(* Signals                                                                  *)

\* Company stays company for a waiter that stays.
LEMMA CompanyStays ==
    ASSUME ShapeInv, Step, Turns, count'.errors = 0, NEW w \in Waiters,
           SameSpot(w), (Unaware(w) \/ Reading(w))', Company(w)
    PROVE  Company(w)'
<1>0. ShapeInv'
  BY Zenon, ShapeKept
<1>1. /\ waiter'[w].q \in Requests /\ Exists(waiter[w].q)' /\ waiter'[w].pc # "lost"
  <2>1. waiter'[w].pc \in {"read", "check", "select"}
    BY Zenon DEF Unaware, Reading
  <2>2. waiter'[w].q \in Requests /\ row'[waiter'[w].q].ver > 0
    BY Zenon, <1>0, <2>1 DEF ShapeInv, WaiterShape, IsWait
  <2> QED BY Zenon, <2>1, <2>2 DEF Unaware, Reading, Exists, Settled
<1>2. waiter[w].q \in Requests /\ Exists(waiter[w].q)
  <2>1. waiter[w].q \in Requests
    BY Zenon, <1>1 DEF SameSpot
  <2>2. waiter[w].pc \notin {"off", "lost"}
    BY Zenon, <2>1, CacheAssumption DEF ShapeInv, WaiterShape, IsWait
  <2>3. row[waiter[w].q].ver > 0
    BY Zenon, <2>2 DEF ShapeInv, WaiterShape, IsWait
  <2> DEFINE q == waiter[w].q
  <2>4. q \in Requests /\ row[q].ver > 0 /\ waiter'[w].q = q
    BY Zenon, <2>1, <2>3 DEF SameSpot
  <2> HIDE DEF q
  <2>5. Exists(q)
    BY Zenon, <1>1, <2>4, SettledStays DEF Exists
  <2> QED BY Zenon, <2>1, <2>5 DEF q
<1>3. PICK v \in Waiters \ {w} : waiter[v].q = waiter[w].q /\ waiter[v].on = waiter[w].on
  BY Zenon DEF Company
<1>4. ~ (count'.errors > 0)
  BY Zenon, NotYet DEF Counters
<1>5. SameSpot(v)
  BY Zenon, <1>1, <1>2, <1>3, <1>4 DEF Turns, KeepsSpot, SameSpot
<1> QED BY Zenon, <1>3, <1>5 DEF Company, SameSpot

\* A waiter that has not learnt anything new knew as little before.
LEMMA StillUnaware ==
    ASSUME ShapeInv, Step, count'.revived = 0, NEW w \in Waiters, Stays(w)
    PROVE  (Unaware(w)' => Unaware(w)) /\ (Reading(w)' => Reading(w))
<1>0. ~ (count'.revived > 0)
  BY Zenon, NotYet DEF Counters
<1> DEFINE q == waiter[w].q
<1>1. waiter'[w].q = q /\ waiter'[w].pc = waiter[w].pc /\ waiter'[w].saw = waiter[w].saw
  BY Zenon DEF Stays, SameSpot
<1>2. waiter[w].pc \in {"read", "check", "select"} => q \in Requests /\ row[q].ver > 0
  BY Zenon DEF ShapeInv, WaiterShape, IsWait
<1>3. Unaware(w)' => Unaware(w)
  <2>1. SUFFICES ASSUME Unaware(w)' PROVE Unaware(w)
    BY Zenon
  <2>2. waiter[w].pc \in {"check", "select"} /\ waiter[w].saw.status \notin Terminal /\ Exists(waiter[w].q)'
    BY Zenon, <1>1, <2>1 DEF Unaware
  <2> HIDE DEF q
  <2>3. Exists(q)
    BY Zenon, <1>1, <1>2, <2>2, SettledStays DEF Exists
  <2> QED BY Zenon, <2>2, <2>3 DEF Unaware, q
<1>4. Reading(w)' => Reading(w)
  <2>1. SUFFICES ASSUME Reading(w)' PROVE Reading(w)
    BY Zenon
  <2>2. waiter[w].pc = "read" /\ ~ Settled(waiter[w].q)'
    BY Zenon, <1>1, <2>1 DEF Reading
  <2> HIDE DEF q
  <2>3. ~ Settled(q)
    BY Zenon, <1>0, <1>1, <1>2, <2>2, SettledStays DEF Settled
  <2> QED BY Zenon, <2>2, <2>3 DEF Reading, q
<1> QED BY Zenon, <1>3, <1>4

LEMMA EndingKept ==
    ASSUME ShapeInv, Step, Turns, count'.revived = 0,
           \A c \in Calls : Ending(c) => Settled(call[c].q)
    PROVE  \A c \in Calls : (Ending(c) => Settled(call[c].q))'
<1>0. ~ (count'.revived > 0)
  BY Zenon, NotYet DEF Counters
<1>1. SUFFICES ASSUME NEW c \in Calls, Ending(c)', Ending(c), call'[c].q = call[c].q
               PROVE  Settled(call[c].q)'
  BY Zenon DEF Turns, CallTurn
<1> DEFINE q == call[c].q
<1>2. q \in Requests
  BY Zenon, <1>1 DEF Ending, ShapeInv, CallShape, IsCall
<1>3. Settled(q) /\ call'[c].q = q
  BY Zenon, <1>1
<1> HIDE DEF q
<1>4. row'[q].status \in Terminal \cup {"removed"}
  BY Zenon, <1>0, <1>2, <1>3, SettledStays DEF Settled
<1> QED BY Zenon, <1>3, <1>4 DEF Settled

\* A waiter that reads, or has read, holds a channel that an update will close.
LEMMA InformedKept ==
    ASSUME ShapeInv, Step, Turns, SignalInv, count'.errors = 0, count'.revived = 0,
           NEW w \in Waiters, (Unaware(w) \/ Reading(w))'
    PROVE  Informed(w)'
<1>0. /\ count.errors = 0 /\ count.revived = 0 /\ ~ (count'.errors > 0)
      /\ Unaware(w) \/ Reading(w) => Informed(w)
      /\ \A c \in Calls : Ending(c) => Settled(call[c].q)
      /\ \A c \in Calls : call[c].pc = "release" /\ Unaware(w) /\ Concerns(c, w) => waiter[w].woken \/ Company(w)
  BY Zenon, NotYet DEF Counters, SignalInv, Informed
<1>1. waiter'[w].pc \in {"read", "check", "select"}
  BY Zenon DEF Unaware, Reading
<1>2. CASE waiter'[w] = waiter[w]
  <2>1. Stays(w)
    BY Zenon, <1>2 DEF Stays, SameSpot
  <2>2. Informed(w)
    BY Zenon, <1>0, <2>1, StillUnaware
  <2> QED BY Zenon, <1>2, <2>1, <2>2, CompanyStays DEF Informed, Stays
<1>3. CASE Stays(w) /\ waiter'[w].woken
  BY Zenon, <1>3 DEF Informed
<1>4. CASE Stays(w) /\ Company(w)
  BY Zenon, <1>4, CompanyStays DEF Informed, Stays
<1>5. CASE /\ Stays(w) /\ KeepsWoken(w)
           /\ \E c \in Calls : call[c].pc = "release" /\ Concerns(c, w)
  <2>1. PICK c \in Calls : call[c].pc = "release" /\ Concerns(c, w)
    BY Zenon, <1>5
  <2>2. Settled(call[c].q) /\ call[c].q = waiter[w].q
    BY Zenon, <1>0, <2>1 DEF Ending, Concerns
  <2>3. ~ Reading(w)
    BY Zenon, <2>2 DEF Reading, Settled
  <2>4. Unaware(w)
    BY Zenon, <1>5, <2>3, StillUnaware
  <2>5. waiter[w].woken \/ Company(w)
    BY Zenon, <1>0, <2>1, <2>4
  <2> QED BY Zenon, <1>4, <1>5, <2>5 DEF Informed, KeepsWoken
<1>6. CASE waiter'[w].pc = "read" /\ waiter'[w].tuned
  BY Zenon, <1>6 DEF Informed
<1>7. CASE /\ waiter[w].pc = "read" /\ waiter'[w].pc = "check"
           /\ SameSpot(w) /\ KeepsWoken(w) /\ KeepsTuned(w)
           /\ waiter'[w].saw = row[waiter[w].q] \/ ~ Exists(waiter[w].q) \/ count'.errors > 0
  <2> DEFINE q == waiter[w].q
  <2>1. q \in Requests /\ row[q].ver > 0 /\ waiter'[w].q = q
    BY Zenon, <1>7 DEF ShapeInv, WaiterShape, IsWait, SameSpot
  <2>2. Exists(waiter[w].q)' /\ waiter'[w].saw.status \notin Terminal
    BY Zenon, <1>7 DEF Unaware, Reading
  <2>3. Exists(q)
    <3> HIDE DEF q
    <3> QED BY Zenon, <2>1, <2>2, SettledStays DEF Exists
  <2>4. Reading(w)
    BY Zenon, <1>0, <1>7, <2>2, <2>3 DEF Reading, Settled, Exists
  <2> QED BY Zenon, <1>0, <1>7, <2>4, CompanyStays DEF Informed, KeepsWoken, KeepsTuned
<1>8. CASE /\ waiter[w].pc = "check" /\ waiter[w].saw.status \notin Terminal /\ waiter'[w].pc = "select"
           /\ SameSpot(w) /\ KeepsWoken(w) /\ KeepsTuned(w)
  <2> DEFINE q == waiter[w].q
  <2>1. q \in Requests /\ row[q].ver > 0 /\ waiter'[w].q = q
    BY Zenon, <1>8 DEF ShapeInv, WaiterShape, IsWait, SameSpot
  <2>2. Exists(waiter[w].q)'
    BY Zenon, <1>8 DEF Unaware, Reading
  <2>3. Exists(q)
    <3> HIDE DEF q
    <3> QED BY Zenon, <2>1, <2>2, SettledStays DEF Exists
  <2>4. Unaware(w)
    BY Zenon, <1>8, <2>3 DEF Unaware
  <2> QED BY Zenon, <1>0, <1>8, <2>4, CompanyStays DEF Informed, KeepsWoken, KeepsTuned
<1> QED BY Zenon, <1>1, <1>2, <1>3, <1>4, <1>5, <1>6, <1>7, <1>8 DEF Turns, Turn

\* Once a call may drop the signal, those who have yet to learn are woken.
LEMMA ReleaseKept ==
    ASSUME ShapeInv, Step, Turns, SignalInv, count'.errors = 0, count'.revived = 0,
           NEW w \in Waiters, NEW c \in Calls, Unaware(w)', call'[c].pc = "release", Concerns(c, w)'
    PROVE  waiter'[w].woken \/ Company(w)'
<1>0. /\ count.errors = 0 /\ count.revived = 0 /\ ~ (count'.errors > 0)
      /\ Ending(c) => Settled(call[c].q)
      /\ call[c].pc = "release" /\ Unaware(w) /\ Concerns(c, w) => waiter[w].woken \/ Company(w)
  BY Zenon, NotYet DEF Counters, SignalInv
<1>1. CASE call'[c] # call[c]
  <2>1. ~ waiter'[w].tuned
    BY Zenon, <1>1 DEF Turns, CallTurn
  <2> QED BY Zenon, <2>1, InformedKept DEF Informed
<1>2. CASE call'[c] = call[c]
  <2>0. /\ waiter'[w].pc \in {"check", "select"} /\ waiter'[w].saw.status \notin Terminal
        /\ call[c].q = waiter'[w].q /\ call[c].on = waiter'[w].on /\ call[c].pc = "release"
    BY Zenon, <1>2 DEF Unaware, Concerns
  <2>1. ASSUME SameSpot(w), Unaware(w), KeepsWoken(w) \/ waiter'[w].woken
        PROVE  waiter'[w].woken \/ Company(w)'
    <3>1. Concerns(c, w)
      BY Zenon, <2>0, <2>1 DEF SameSpot, Concerns
    <3> QED BY Zenon, <1>0, <2>0, <2>1, <3>1, CompanyStays DEF KeepsWoken
  <2>2. CASE waiter'[w] = waiter[w]
    <3>1. Stays(w) /\ KeepsWoken(w)
      BY Zenon, <2>2 DEF Stays, SameSpot, KeepsWoken
    <3> QED BY Zenon, <2>1, <3>1, StillUnaware DEF Stays
  <2>3. CASE Stays(w) /\ (waiter'[w].woken \/ KeepsWoken(w))
    BY Zenon, <2>1, <2>3, StillUnaware DEF Stays
  <2> DEFINE q == waiter[w].q
  <2>4. SameSpot(w) /\ waiter[w].pc \in {"read", "check"} =>
          q \in Requests /\ row[q].ver > 0 /\ Exists(q)
    <3>1. SUFFICES ASSUME SameSpot(w), waiter[w].pc \in {"read", "check"}
                   PROVE  q \in Requests /\ row[q].ver > 0 /\ Exists(q)
      BY Zenon
    <3>2. q \in Requests /\ row[q].ver > 0
      BY Zenon, <3>1 DEF ShapeInv, WaiterShape, IsWait
    <3>3. Exists(waiter[w].q)' /\ waiter'[w].q = q
      BY Zenon, <3>1 DEF Unaware, SameSpot
    <3> HIDE DEF q
    <3>4. Exists(q)
      BY Zenon, <3>2, <3>3, SettledStays DEF Exists
    <3> QED BY Zenon, <3>2, <3>4
  <2>5. CASE /\ waiter[w].pc = "read" /\ SameSpot(w)
             /\ waiter'[w].saw = row[waiter[w].q] \/ ~ Exists(waiter[w].q) \/ count'.errors > 0
    <3>1. Exists(q) /\ waiter'[w].saw = row[q]
      BY Zenon, <1>0, <2>4, <2>5
    <3>2. call[c].q = q /\ Settled(call[c].q)
      BY Zenon, <1>0, <2>0, <2>5 DEF SameSpot, Ending
    <3>3. row[q].status \in Terminal
      BY Zenon, <3>1, <3>2 DEF Exists, Settled
    <3> QED BY Zenon, <2>0, <3>1, <3>3
  <2>6. CASE /\ waiter[w].pc = "check" /\ waiter[w].saw.status \notin Terminal
             /\ SameSpot(w) /\ KeepsWoken(w)
    <3>1. Unaware(w)
      BY Zenon, <2>4, <2>6 DEF Unaware
    <3> QED BY Zenon, <2>1, <2>6, <3>1
  <2>7. waiter'[w].pc \notin {"read", "returned", "lost", "left"}
    BY Zenon, <2>0
  <2> QED BY Zenon, <2>2, <2>3, <2>5, <2>6, <2>7 DEF Turns, Turn
<1> QED BY Zenon, <1>1, <1>2

\* No update of its replica falls between a waiter's read and its wait, unless
\* a read failed or a finished request was requeued (WaitForRequestState and
\* WaitForRequestTerminal subscribe before they read; notifyRequestUpdate comes
\* before releaseRequestSignal).
THEOREM UpdatesReachWaiters == Spec => []NoUpdateMissed
<1>1. Init => SignalInv
  BY DEF Init, SignalInv, Ending, Unaware, Reading, NoCall, NoWait
<1>2. CacheInv /\ SignalInv /\ [Next]_vars => SignalInv'
  <2> SUFFICES ASSUME CacheInv, SignalInv, [Next]_vars, count'.errors = 0, count'.revived = 0
               PROVE  /\ \A c \in Calls : (Ending(c) => Settled(call[c].q))'
                      /\ \A w \in Waiters : (Unaware(w) \/ Reading(w))' => Informed(w)'
                      /\ \A c \in Calls, w \in Waiters :
                           call'[c].pc = "release" /\ Unaware(w)' /\ Concerns(c, w)' => waiter'[w].woken \/ Company(w)'
    BY Zenon DEF SignalInv, Informed
  <2>1. ShapeInv /\ Step /\ Turns
    BY Zenon, EveryStep, EveryTurn DEF CacheInv
  <2>2. count.errors = 0 /\ count.revived = 0
    BY Zenon, <2>1, NotYet DEF Counters
  <2>3. \A c \in Calls : Ending(c) => Settled(call[c].q)
    BY Zenon, <2>2 DEF SignalInv
  <2> QED BY Zenon, <2>1, <2>3, EndingKept, InformedKept, ReleaseKept
<1>3. SignalInv => NoUpdateMissed
  BY Zenon DEF SignalInv, NoUpdateMissed, Unaware, Informed, Company
<1> QED BY <1>1, <1>2, <1>3, CacheInvHolds, PTL DEF Spec

=============================================================================
