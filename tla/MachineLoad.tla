---------------------------- MODULE MachineLoad ----------------------------
(***************************************************************************)
(* One machine, its capacity and its drain, as several replicas see them.  *)
(* The row in the machines table and the ownership of the machine's tool   *)
(* are shared; the registry, the slot counter, the drain map and the cache *)
(* of requests are each replica's own.  Requests are those of RequestQueue,*)
(* reduced to their status and fencing epoch, and all for this machine.    *)
(*                                                                         *)
(* A store write and the mirror of its row are one step here; how mirrors  *)
(* overtake each other is the subject of ReplicaCache.                     *)
(***************************************************************************)
EXTENDS Integers, FiniteSets

CONSTANTS
    Replicas,     \* server processes
    Requests,     \* requests for the machine's tool
    Drains,       \* DrainMachine calls that start a drain (bound)
    Calls,        \* calls in progress at the same time (bound)
    Capacity,     \* maxMachineConcurrentRequests
    MaxEpoch,     \* bound: grants of one request
    MaxGrants,    \* bound: grants in all
    MaxErrors,    \* bound: store calls that fail
    MaxRegisters, \* bound: registrations after the first
    MaxLookups,   \* bound: GetMachineByID and GetRequestByID calls
    MaxRemovals,  \* bound: removals by a user or by the reaper
    None

ASSUME LoadAssumption ==
    /\ Capacity \in Nat \ {0} /\ MaxEpoch \in Nat \ {0}
    /\ {MaxGrants, MaxErrors, MaxRegisters, MaxLookups, MaxRemovals} \subseteq Nat
    /\ None \notin Replicas \cup Requests \cup Drains
    /\ IsFiniteSet(Requests)

VARIABLES
    row,       \* machines: does the row exist, is it draining, is its ping fresh
    owned,     \* tools: the tool's machine_id is this machine
    req,       \* requests: status and lease epoch
    known,     \* known[r]: the machine is in s.machines of r
    inFlight,  \* inFlight[r]: s.machineInFlight of r
    seen,      \* seen[r][q]: the status r has cached for q, or None
    draining,  \* draining[r]: the entry of s.drainingMachines of r, or None
    drain,     \* drain[d]: the replica and the progress of the drain d, and (history)
               \* whether the machine was given tools after the drain deleted them
    call,      \* call[c]: a call that has begun
    soft,      \* a capacity check was skipped or could not be made
    count      \* how often each bounded event happened

vars == <<row, owned, req, known, inFlight, seen, draining, drain, call, soft, count>>
------------------------------------------------------------------------------
(* Data                                                                     *)

\* "done" is done or failed: a row with a result.
Statuses == {"pending", "claimed", "running", "done", "cancelled"}
Active(s) == s \in {"claimed", "running"}
NoMachine == [exists |-> FALSE, draining |-> FALSE, fresh |-> FALSE]
NewMachine == [exists |-> TRUE, draining |-> FALSE, fresh |-> TRUE]
NoCall == [pc |-> "idle", on |-> None, q |-> None, epoch |-> 0]
NoDrain == [pc |-> "unused", on |-> None, over |-> FALSE, regained |-> FALSE]

\* A store call fails, up to MaxErrors times.
Counted(kind, bound) == count[kind] < bound /\ count' = [count EXCEPT ![kind] = @ + 1]
StoreError == Counted("errors", MaxErrors)

\* A call begins, goes on, or returns.
Idle(c) == call[c].pc = "idle"
Begin(c, pc, r, q, e) == call' = [call EXCEPT ![c] = [pc |-> pc, on |-> r, q |-> q, epoch |-> e]]
Goto(c, pc) == call' = [call EXCEPT ![c].pc = pc]
Return(c) == call' = [call EXCEPT ![c] = NoCall]

\* executing_machine_id and status: the rows that occupy the machine.
MachineInFlightCount == Cardinality({q \in Requests : Active(req[q].status)})

\* The fence of a write by the machine for the grant e.  A row with a result is
\* admitted by its epoch.
CheckLeaseFence(q, e) == req[q].epoch = e /\ (Active(req[q].status) \/ req[q].status = "done")

mirrorRequest(r, q, s) == [seen EXCEPT ![r][q] = s]
------------------------------------------------------------------------------
(* Slots                                                                    *)

CanReserve(r) == known[r] /\ inFlight[r] < Capacity

\* Mutant of ReleaseMachineSlot: no floor at zero.
ReleaseUnfloored(r) == [inFlight EXCEPT ![r] = @ - 1]

ReleaseMachineSlot(r) == [inFlight EXCEPT ![r] = IF @ > 0 THEN @ - 1 ELSE 0]

\* IsMachineDraining: the replica's own map, then the flag in the row; an error
\* counts as not draining.
IsMachineDraining(r) == draining[r] # None \/ (row.exists /\ row.draining)

------------------------------------------------------------------------------
(* Claims                                                                   *)

\* ClaimRequest and ClaimPendingRequest first look at the drain; the second
\* also looks at the load.
BeginClaim(c, r, q) ==
    /\ Idle(c)
    /\ \/ ~ IsMachineDraining(r) /\ UNCHANGED count
       \/ draining[r] = None /\ StoreError
    /\ Begin(c, "claim", r, q, 0)
    /\ UNCHANGED <<row, owned, req, known, inFlight, seen, draining, drain, soft>>

\* A grant of q is left within the bounds.
GrantLeft(q) == req[q].epoch < MaxEpoch /\ count.grants < MaxGrants

\* Mutant of Claim: ownership is not checked again with the claim.
ClaimUnowned(c) ==
    LET r == call[c].on
        q == call[c].q
    IN  /\ call[c].pc = "claim"
        /\ IF req[q].status = "pending" /\ GrantLeft(q)
           THEN /\ req' = [req EXCEPT ![q] = [status |-> "claimed", epoch |-> @.epoch + 1]]
                /\ seen' = mirrorRequest(r, q, "claimed")
                /\ count' = [count EXCEPT !.grants = @ + 1]
           ELSE UNCHANGED <<req, seen, count>>
        /\ Return(c)
        /\ UNCHANGED <<row, owned, known, inFlight, draining, drain, soft>>

\* The claim transaction checks the row and the ownership of its tool; the
\* claimed row is cached.
Claim(c) ==
    LET r == call[c].on
        q == call[c].q
    IN  /\ call[c].pc = "claim"
        /\ IF owned /\ req[q].status = "pending" /\ GrantLeft(q)
           THEN /\ req' = [req EXCEPT ![q] = [status |-> "claimed", epoch |-> @.epoch + 1]]
                /\ seen' = mirrorRequest(r, q, "claimed")
                /\ count' = [count EXCEPT !.grants = @ + 1]
           ELSE UNCHANGED <<req, seen, count>>
        /\ Return(c)
        /\ UNCHANGED <<row, owned, known, inFlight, draining, drain, soft>>
------------------------------------------------------------------------------
(* UpdateRequest(running)                                                   *)

\* The slot need is decided from the cached status; a free slot of the local
\* counter is taken at once.
BeginRunning(c, r, q) ==
    /\ Idle(c) /\ Active(req[q].status)
    /\ IF seen[r][q] = "running"
       THEN /\ Begin(c, "refresh", r, q, req[q].epoch)
            /\ soft' = (soft \/ req[q].status # "running")
            /\ UNCHANGED inFlight
       ELSE IF CanReserve(r)
       THEN /\ Begin(c, "count", r, q, req[q].epoch)
            /\ inFlight' = [inFlight EXCEPT ![r] = @ + 1]
            /\ UNCHANGED soft
       ELSE Begin(c, "requeue", r, q, req[q].epoch) /\ UNCHANGED <<inFlight, soft>>
    /\ UNCHANGED <<row, owned, req, known, seen, draining, drain, count>>

\* Mutant of CountInFlight: the store's count is not asked.
CountLocally(c) ==
    /\ call[c].pc = "count"
    /\ Goto(c, "running")
    /\ UNCHANGED <<row, owned, req, known, inFlight, seen, draining, drain, soft, count>>

\* The second half of ReserveMachineSlot: the store's count decides, and on an
\* error the local grant stands.
CountInFlight(c) ==
    LET r == call[c].on IN
    /\ call[c].pc = "count"
    /\ \/ /\ MachineInFlightCount > Capacity
          /\ Goto(c, "requeue")
          /\ inFlight' = ReleaseMachineSlot(r)
          /\ UNCHANGED <<soft, count>>
       \/ MachineInFlightCount <= Capacity /\ Goto(c, "running") /\ UNCHANGED <<inFlight, soft, count>>
       \/ Goto(c, "running") /\ StoreError /\ soft' = TRUE /\ UNCHANGED inFlight
    /\ UNCHANGED <<row, owned, req, known, seen, draining, drain>>

\* RequeueRequestFenced: only the fence is checked.
Requeue(c) ==
    LET k == call[c] IN
    /\ k.pc = "requeue"
    /\ IF CheckLeaseFence(k.q, k.epoch)
       THEN req' = [req EXCEPT ![k.q].status = "pending"] /\ seen' = mirrorRequest(k.on, k.q, "pending")
       ELSE UNCHANGED <<req, seen>>
    /\ Return(c)
    /\ UNCHANGED <<row, owned, known, inFlight, draining, drain, soft, count>>

\* UpdateRequestFenced.  A refused write gives the slot back; a refresh of a
\* running request takes another slot afterwards.
WriteRunning(c) ==
    LET k == call[c]
        ok == CheckLeaseFence(k.q, k.epoch) /\ Active(req[k.q].status)
    IN  /\ k.pc \in {"running", "refresh"}
        /\ IF ok
           THEN /\ req' = [req EXCEPT ![k.q].status = "running"]
                /\ seen' = mirrorRequest(k.on, k.q, "running")
           ELSE UNCHANGED <<req, seen>>
        /\ inFlight' = IF k.pc = "running"
                       THEN IF ok THEN inFlight ELSE ReleaseMachineSlot(k.on)
                       ELSE IF ok /\ CanReserve(k.on) /\ MachineInFlightCount <= Capacity
                       THEN [inFlight EXCEPT ![k.on] = @ + 1] ELSE inFlight
        /\ Return(c)
        /\ UNCHANGED <<row, owned, known, draining, drain, soft, count>>
------------------------------------------------------------------------------
(* The end of a request                                                     *)

\* The replica that ends a request releases a slot of its own.
Ended(r, q, s) ==
    /\ req' = [req EXCEPT ![q].status = s]
    /\ seen' = mirrorRequest(r, q, s)
    /\ inFlight' = IF Active(req[q].status) THEN ReleaseMachineSlot(r) ELSE inFlight
    /\ UNCHANGED <<row, owned, known, draining, drain, call, soft, count>>

\* Also UpdateRequest with a terminal status.
SubmitRequestResult(r, q) == Active(req[q].status) /\ Ended(r, q, "done")

CancelRequest(r, q) ==
    req[q].status \in {"pending", "claimed", "running"} /\ Ended(r, q, "cancelled")

\* The reaper lists an expired request, releases a slot whether or not it wins
\* the reclaim, and requeues the row or fails it.
ListExpired(c, r, q) ==
    /\ Idle(c) /\ Active(req[q].status)
    /\ Begin(c, "reclaim", r, q, req[q].epoch)
    /\ UNCHANGED <<row, owned, req, known, inFlight, seen, draining, drain, soft, count>>

reclaimExpired(c) ==
    LET k == call[c]
        s == IF k.epoch < MaxEpoch THEN "pending" ELSE "done"
    IN  /\ k.pc = "reclaim"
        /\ inFlight' = ReleaseMachineSlot(k.on)
        /\ IF Active(req[k.q].status) /\ req[k.q].epoch = k.epoch
           THEN req' = [req EXCEPT ![k.q].status = s] /\ seen' = mirrorRequest(k.on, k.q, s)
           ELSE UNCHANGED <<req, seen>>
        /\ Return(c)
        /\ UNCHANGED <<row, owned, known, draining, drain, soft, count>>

\* Any read of the request refreshes the cached copy.
GetRequestByID(r, q) ==
    /\ seen[r][q] # req[q].status /\ Counted("lookups", MaxLookups)
    /\ seen' = mirrorRequest(r, q, req[q].status)
    /\ UNCHANGED <<row, owned, req, known, inFlight, draining, drain, call, soft>>
------------------------------------------------------------------------------
(* Registration                                                             *)

\* RegisterMachine refuses a draining machine before anything else.
BeginRegister(c, r) ==
    /\ Idle(c) /\ Counted("registers", MaxRegisters)
    /\ ~ IsMachineDraining(r)
    /\ Begin(c, "register", r, None, 0)
    /\ UNCHANGED <<row, owned, req, known, inFlight, seen, draining, drain, soft>>

\* Mutant of SaveMachine: the upsert writes the whole row.
SaveMachineWhole == NewMachine

\* The upsert keeps the drain flag of an existing row.
SaveMachine == IF row.exists THEN [row EXCEPT !.fresh = TRUE] ELSE NewMachine

Register(c) ==
    LET r == call[c].on IN
    /\ call[c].pc = "register"
    /\ row' = SaveMachine
    /\ known' = [known EXCEPT ![r] = TRUE]
    /\ Goto(c, "reconcile")
    /\ UNCHANGED <<owned, req, inFlight, seen, draining, drain, soft, count>>

\* reconcileMachineTools: ClaimToolOwnership needs a machine row with a fresh ping.
reconcileMachineTools(c) ==
    /\ call[c].pc = "reconcile"
    /\ IF row.exists /\ row.fresh
       THEN /\ owned' = TRUE
            /\ drain' = [d \in Drains |-> IF drain[d].pc \in {"poll", "unregister"}
                                         THEN [drain[d] EXCEPT !.regained = TRUE] ELSE drain[d]]
       ELSE UNCHANGED <<owned, drain>>
    /\ Return(c)
    /\ UNCHANGED <<row, req, known, inFlight, seen, draining, soft, count>>

\* UpdateMachinePing touches one column of the row, for a machine r knows.
UpdateMachinePing(r) ==
    /\ known[r] /\ row.exists /\ ~ row.fresh
    /\ row' = [row EXCEPT !.fresh = TRUE]
    /\ UNCHANGED <<owned, req, known, inFlight, seen, draining, drain, call, soft, count>>

\* GetMachineByID drops the cached machine and puts the stored one in its place
\* under two separate locks.
BeginGetMachine(c, r) ==
    /\ Idle(c) /\ known[r] /\ Counted("lookups", MaxLookups)
    /\ known' = [known EXCEPT ![r] = FALSE]
    /\ IF row.exists THEN Begin(c, "insert", r, None, 0) ELSE UNCHANGED call
    /\ UNCHANGED <<row, owned, req, inFlight, seen, draining, drain, soft>>

GetMachine(c) ==
    /\ call[c].pc = "insert"
    /\ known' = [known EXCEPT ![call[c].on] = TRUE]
    /\ Return(c)
    /\ UNCHANGED <<row, owned, req, inFlight, seen, draining, drain, soft, count>>

\* FindMachinesWithTool and ListMachines: a miss is read through the store.
ReadThrough(r) ==
    /\ ~ known[r] /\ row.exists
    /\ known' = [known EXCEPT ![r] = TRUE]
    /\ UNCHANGED <<row, owned, req, inFlight, seen, draining, drain, call, soft, count>>
------------------------------------------------------------------------------
(* Unregistration and drain                                                 *)

\* finishMachineDrain: the entry goes and the callers of its drain return.
finishMachineDrain(r) ==
    /\ draining' = [draining EXCEPT ![r] = None]
    /\ drain' = [d \in Drains |-> IF draining[r] = d THEN [drain[d] EXCEPT !.over = TRUE] ELSE drain[d]]

\* UnregisterMachine: nothing but the drain's end when r does not know the
\* machine; else its tools, its counter and its row go.
UnregisterMachine(r) ==
    IF ~ known[r] THEN UNCHANGED <<row, owned, known, inFlight>>
    ELSE /\ owned' = FALSE
         /\ known' = [known EXCEPT ![r] = FALSE]
         /\ inFlight' = [inFlight EXCEPT ![r] = 0]
         /\ row' = NoMachine

Unregister(r) ==
    /\ Counted("removals", MaxRemovals)
    /\ UnregisterMachine(r) /\ finishMachineDrain(r)
    /\ UNCHANGED <<req, seen, call, soft>>

\* DrainMachine: the entry blocks this replica, then the flag the others (a
\* failed write is only logged), then the tools go and the waiter starts.
DrainMachine(d, r) ==
    /\ drain[d].pc = "unused" /\ known[r] /\ draining[r] = None
    /\ draining' = [draining EXCEPT ![r] = d]
    /\ drain' = [drain EXCEPT ![d] = [NoDrain EXCEPT !.pc = "flag", !.on = r]]
    /\ UNCHANGED <<row, owned, req, known, inFlight, seen, call, soft, count>>

SetMachineDraining(d) ==
    /\ drain[d].pc = "flag"
    /\ \/ row' = [row EXCEPT !.draining = row.exists] /\ UNCHANGED count
       \/ StoreError /\ UNCHANGED row
    /\ drain' = [drain EXCEPT ![d].pc = "tools"]
    /\ UNCHANGED <<owned, req, known, inFlight, seen, draining, call, soft>>

DeleteToolsByMachine(d) ==
    /\ drain[d].pc = "tools"
    /\ owned' = FALSE
    /\ drain' = [drain EXCEPT ![d].pc = "poll"]
    /\ UNCHANGED <<row, req, known, inFlight, seen, draining, call, soft, count>>

\* Mutant of ActiveRequestsForMachine: requests that wait for a claim count.
UnfinishedRequests(r) == {q \in Requests : seen[r][q] \in {"pending", "claimed", "running"}}

\* ActiveRequestsForMachine reads this replica's cache.
ActiveRequestsForMachine(r) == {q \in Requests : Active(seen[r][q])}

\* A round of waitForDrainAndUnregister: a machine r does not know is taken for
\* unregistered; one without active requests is unregistered next.
Poll(d) ==
    LET r == drain[d].on IN
    /\ drain[d].pc = "poll"
    /\ \/ /\ ~ known[r]
          /\ drain' = [drain EXCEPT ![d] = [@ EXCEPT !.pc = "done", !.over = TRUE]]
          /\ draining' = [draining EXCEPT ![r] = None]
       \/ /\ known[r] /\ ActiveRequestsForMachine(r) = {}
          /\ drain' = [drain EXCEPT ![d].pc = "unregister"]
          /\ UNCHANGED draining
    /\ UNCHANGED <<row, owned, req, known, inFlight, seen, call, soft, count>>

FinishDrain(d) ==
    LET r == drain[d].on IN
    /\ drain[d].pc = "unregister"
    /\ UnregisterMachine(r)
    /\ draining' = [draining EXCEPT ![r] = None]
    /\ drain' = [e \in Drains |->
          IF e = d THEN [drain[d] EXCEPT !.pc = "done", !.over = @ \/ draining[r] = d]
          ELSE IF draining[r] = e THEN [drain[e] EXCEPT !.over = TRUE] ELSE drain[e]]
    /\ UNCHANGED <<req, seen, call, soft, count>>

\* The heartbeat goes stale, and the reaper of replica r reclaims the machine:
\* in the store the tools are detached with the row.
MissHeartbeats ==
    /\ row.exists /\ row.fresh /\ Counted("removals", MaxRemovals)
    /\ row' = [row EXCEPT !.fresh = FALSE]
    /\ UNCHANGED <<owned, req, known, inFlight, seen, draining, drain, call, soft>>

reclaimMachine(r) ==
    /\ row.exists /\ ~ row.fresh
    /\ row' = NoMachine
    /\ owned' = FALSE
    /\ known' = [known EXCEPT ![r] = FALSE]
    /\ inFlight' = [inFlight EXCEPT ![r] = 0]
    /\ finishMachineDrain(r)
    /\ UNCHANGED <<req, seen, call, soft, count>>
------------------------------------------------------------------------------
(* The specification                                                        *)

\* The machine is registered on one replica and owns the tool.
Init ==
    /\ row = NewMachine
    /\ owned = TRUE
    /\ req = [q \in Requests |-> [status |-> "pending", epoch |-> 0]]
    /\ \E r \in Replicas : known = [s \in Replicas |-> s = r]
    /\ inFlight = [r \in Replicas |-> 0]
    /\ seen = [r \in Replicas |-> [q \in Requests |-> None]]
    /\ draining = [r \in Replicas |-> None]
    /\ drain = [d \in Drains |-> NoDrain]
    /\ call = [c \in Calls |-> NoCall]
    /\ soft = FALSE
    /\ count = [grants |-> 0, errors |-> 0, registers |-> 0, lookups |-> 0, removals |-> 0]

Step(c) ==
    \/ Claim(c) \/ CountInFlight(c) \/ Requeue(c) \/ WriteRunning(c) \/ reclaimExpired(c)
    \/ Register(c) \/ reconcileMachineTools(c) \/ GetMachine(c)

DrainStep(d) == SetMachineDraining(d) \/ DeleteToolsByMachine(d) \/ Poll(d) \/ FinishDrain(d)

Next ==
    \/ \E c \in Calls, r \in Replicas : \/ BeginRegister(c, r) \/ BeginGetMachine(c, r)
                                       \/ \E q \in Requests : \/ BeginClaim(c, r, q)
                                                             \/ BeginRunning(c, r, q)
                                                             \/ ListExpired(c, r, q)
    \/ \E c \in Calls : Step(c)
    \/ \E d \in Drains : DrainStep(d) \/ \E r \in Replicas : DrainMachine(d, r)
    \/ \E r \in Replicas : \/ UpdateMachinePing(r) \/ ReadThrough(r)
                           \/ Unregister(r) \/ reclaimMachine(r)
                           \/ \E q \in Requests : \/ SubmitRequestResult(r, q)
                                                 \/ CancelRequest(r, q) \/ GetRequestByID(r, q)
    \/ MissHeartbeats

Spec == Init /\ [][Next]_vars

\* Calls return, the drain's goroutine is scheduled, and a request that is in
\* flight ends or is reclaimed, on whatever replica.
Fairness ==
    /\ \A c \in Calls : WF_vars(Step(c))
    /\ \A d \in Drains : WF_vars(DrainStep(d))
    /\ \A q \in Requests : WF_vars(\E r \in Replicas : SubmitRequestResult(r, q))

FairSpec == Spec /\ Fairness
------------------------------------------------------------------------------
(* Properties                                                               *)

\* "the limit holds at cap total in-flight": however claims, counts and writes
\* of several replicas interleave, no more requests than the capacity are
\* running on the machine, unless the store's count could not be read or a
\* replica took the slot for granted on a stale cached status.  And a replica's
\* slot counter, which is raised and lowered by guess, never leaves its range.
RunningWithinCapacity ==
    /\ ~ soft => Cardinality({q \in Requests : req[q].status = "running"}) <= Capacity
    /\ \A r \in Replicas : inFlight[r] \in 0 .. Capacity

\* With one replica, a drain that unregisters its machine leaves no request in
\* flight, unless a registration that raced the drain has given the machine
\* tools since the drain deleted them: a claim that passed the drain check
\* earlier cannot slip in behind the waiter's last look, since the tools went
\* first.
DrainWaits ==
    [][\A d \in Drains :
         Replicas = {drain[d].on} /\ FinishDrain(d) /\ ~ drain[d].regained
           => MachineInFlightCount = 0]_vars

\* The drain flag stays until the row is deleted: neither heartbeats nor
\* registrations that raced the drain re-admit the machine on other replicas.
DrainFlagStays == [][row.draining /\ row'.exists => row'.draining]_vars

\* A drain that was started comes to its end.
DrainEnds == \A d \in Drains : drain[d].pc # "unused" ~> drain[d].over

\* "waits for in-flight requests to finish, then unregisters it": no request is
\* in flight on the machine when its drain unregisters it.
DrainWaitsForAll ==
    [][\A d \in Drains : FinishDrain(d) => MachineInFlightCount = 0]_vars

\* "Slot-leak guard": with nothing in flight and no call in progress, no slot is
\* taken on any replica.
SlotsComeBack ==
    MachineInFlightCount = 0 /\ (\A c \in Calls : Idle(c)) => \A r \in Replicas : inFlight[r] = 0
=============================================================================
