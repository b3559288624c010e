------------------------- MODULE MachineLoadProofs -------------------------
(***************************************************************************)
(* What holds of a machine's capacity and drain for any number of          *)
(* replicas, requests, calls and drains.                                   *)
(*                                                                         *)
(* RunningWithinCapacity.  A request becomes running in two steps, the     *)
(* count and the write, and others are claimed, counted and requeued in    *)
(* between.  The argument counts the requests that are cleared: running,   *)
(* or in flight with a call of their current grant past the count.  When a *)
(* count succeeds, every cleared request is one of those it counted; no    *)
(* other step clears a request, since a new grant leaves the calls of the  *)
(* old one behind the fence.                                               *)
(*                                                                         *)
(* DrainWaits.  After a drain has deleted the machine's tools, no claim    *)
(* succeeds until a registration gives it tools again, so what the last    *)
(* look at the cache showed still holds when the machine is unregistered.  *)
(***************************************************************************)
EXTENDS MachineLoad, FiniteSetTheorems, TLAPS

\* The calls about a request.
RequestPcs == {"claim", "refresh", "count", "running", "requeue", "reclaim"}

\* The shape of the state, and the types that matter.
CallTypes ==
    /\ DOMAIN call = Calls
    /\ \A c \in Calls : /\ DOMAIN call[c] = {"pc", "on", "q", "epoch"}
                        /\ call[c].epoch \in Nat
                        /\ call[c].pc # "idle" => call[c].on \in Replicas
                        /\ call[c].pc \in RequestPcs => call[c].q \in Requests
RequestTypes ==
    /\ DOMAIN req = Requests
    /\ \A q \in Requests : DOMAIN req[q] = {"status", "epoch"} /\ req[q].epoch \in Nat
SlotTypes == DOMAIN inFlight = Replicas /\ \A r \in Replicas : inFlight[r] \in 0 .. Capacity

LoadTypes == CallTypes /\ RequestTypes /\ SlotTypes

\* A call past the count, of the current grant of q.
PastCount(c, q) ==
    call[c].pc \in {"running", "refresh"} /\ call[c].q = q /\ call[c].epoch = req[q].epoch

\* The requests that run or may still be written as running.
Cleared ==
    {q \in Requests : \/ req[q].status = "running"
                      \/ Active(req[q].status) /\ \E c \in Calls : PastCount(c, q)}

\* The inductive invariant of RunningWithinCapacity.
LoadInv ==
    /\ LoadTypes
    /\ \A c \in Calls : call[c].pc \in RequestPcs => call[c].epoch <= req[call[c].q].epoch
    /\ ~ soft => Cardinality(Cleared) <= Capacity


\* A slot given back leaves the counter in its range.
LEMMA ReleaseInRange ==
    ASSUME SlotTypes, NEW r, inFlight' = ReleaseMachineSlot(r) PROVE SlotTypes'
<1>1. DOMAIN inFlight' = Replicas
  BY Zenon DEF SlotTypes, ReleaseMachineSlot
<1>2. \A s \in Replicas : inFlight'[s] \in {inFlight[s], IF inFlight[s] > 0 THEN inFlight[s] - 1 ELSE 0}
  BY Zenon DEF SlotTypes, ReleaseMachineSlot
<1> QED BY <1>1, <1>2, LoadAssumption DEF SlotTypes

\* A slot taken under the limit leaves the counter in its range.
LEMMA ReserveInRange ==
    ASSUME SlotTypes, NEW r, CanReserve(r), inFlight' = [inFlight EXCEPT ![r] = @ + 1]
    PROVE  SlotTypes'
<1>1. DOMAIN inFlight' = Replicas
  BY Zenon DEF SlotTypes
<1>2. \A s \in Replicas : inFlight'[s] = IF s = r THEN inFlight[s] + 1 ELSE inFlight[s]
  BY Zenon DEF SlotTypes
<1> QED BY <1>1, <1>2, LoadAssumption DEF SlotTypes, CanReserve

\* A counter that is reset stays in its range.
LEMMA ResetInRange ==
    ASSUME SlotTypes, NEW r, inFlight' = [inFlight EXCEPT ![r] = 0] PROVE SlotTypes'
BY LoadAssumption DEF SlotTypes

\* Every step keeps the types: those of claims and of UpdateRequest ...
LEMMA ClaimStepsTyped ==
    ASSUME LoadTypes, NEW c \in Calls, NEW r \in Replicas, NEW q \in Requests,
           \/ BeginClaim(c, r, q) \/ Claim(c) \/ BeginRunning(c, r, q) \/ CountInFlight(c)
           \/ Requeue(c) \/ WriteRunning(c)
    PROVE  LoadTypes'
<1> USE DEF LoadTypes
<1>1. CASE BeginClaim(c, r, q)
  BY Zenon, <1>1 DEF BeginClaim, Begin, CallTypes, RequestTypes, SlotTypes
<1>2. CASE Claim(c)
  <2>1. CallTypes'     BY Zenon, <1>2 DEF CallTypes, RequestPcs, Claim, Return, NoCall
  <2>2. RequestTypes'  BY <1>2 DEF RequestTypes, Claim
  <2>3. SlotTypes'     BY Zenon, <1>2 DEF SlotTypes, Claim
  <2> QED BY Zenon, <2>1, <2>2, <2>3
<1>3. CASE BeginRunning(c, r, q)
  <2>1. CallTypes'
    BY <1>3 DEF CallTypes, RequestTypes, BeginRunning, Begin
  <2>2. RequestTypes'  BY Zenon, <1>3 DEF RequestTypes, BeginRunning
  <2>3. SlotTypes'
    <3>1. CASE UNCHANGED inFlight
      BY Zenon, <3>1 DEF SlotTypes
    <3>2. CASE CanReserve(r) /\ inFlight' = [inFlight EXCEPT ![r] = @ + 1]
      BY Zenon, <3>2, ReserveInRange
    <3> QED BY Zenon, <1>3, <3>1, <3>2 DEF BeginRunning
  <2> QED BY Zenon, <2>1, <2>2, <2>3
<1>4. CASE CountInFlight(c)
  <2>1. CallTypes'     BY ZenonT(40), <1>4 DEF CallTypes, RequestPcs, CountInFlight, Goto
  <2>2. RequestTypes'  BY Zenon, <1>4 DEF RequestTypes, CountInFlight
  <2>3. SlotTypes'
    <3>1. CASE UNCHANGED inFlight
      BY Zenon, <3>1 DEF SlotTypes
    <3> QED BY Zenon, <1>4, <3>1, ReleaseInRange DEF CountInFlight
  <2> QED BY Zenon, <2>1, <2>2, <2>3
<1>5. CASE Requeue(c)
  <2>1. CallTypes'     BY Zenon, <1>5 DEF CallTypes, RequestPcs, Requeue, Return, NoCall
  <2>2. RequestTypes'  BY <1>5 DEF RequestTypes, Requeue
  <2>3. SlotTypes'     BY Zenon, <1>5 DEF SlotTypes, Requeue
  <2> QED BY Zenon, <2>1, <2>2, <2>3
<1>6. CASE WriteRunning(c)
  <2>1. CallTypes'     BY Zenon, <1>6 DEF CallTypes, RequestPcs, WriteRunning, Return, NoCall
  <2>2. RequestTypes'  BY <1>6 DEF RequestTypes, WriteRunning
  <2>3. SlotTypes'
    <3>1. CASE UNCHANGED inFlight
      BY Zenon, <3>1 DEF SlotTypes
    <3>2. CASE inFlight' = ReleaseMachineSlot(call[c].on)
      BY Zenon, <3>2, ReleaseInRange
    <3>3. CASE CanReserve(call[c].on) /\ inFlight' = [inFlight EXCEPT ![call[c].on] = @ + 1]
      BY Zenon, <3>3, ReserveInRange
    <3> QED BY Zenon, <1>6, <3>1, <3>2, <3>3 DEF WriteRunning
  <2> QED BY Zenon, <2>1, <2>2, <2>3
<1> QED BY Zenon, <1>1, <1>2, <1>3, <1>4, <1>5, <1>6

\* ... and the ends of requests.
LEMMA EndStepsTyped ==
    ASSUME LoadTypes, NEW c, NEW r \in Replicas, NEW q \in Requests,
           \/ SubmitRequestResult(r, q) \/ CancelRequest(r, q)
           \/ c \in Calls /\ (ListExpired(c, r, q) \/ reclaimExpired(c))
    PROVE  LoadTypes'
<1> USE DEF LoadTypes
<1>1. ASSUME NEW s, Ended(r, q, s) PROVE LoadTypes'
  <2>1. CallTypes'     BY Zenon, <1>1 DEF CallTypes, Ended
  <2>2. RequestTypes'  BY Zenon, <1>1 DEF RequestTypes, Ended
  <2>3. SlotTypes'
    <3>1. CASE UNCHANGED inFlight
      BY Zenon, <3>1 DEF SlotTypes
    <3> QED BY Zenon, <1>1, <3>1, ReleaseInRange DEF Ended
  <2> QED BY Zenon, <2>1, <2>2, <2>3
<1>2. CASE c \in Calls /\ ListExpired(c, r, q)
  BY Zenon, <1>2 DEF ListExpired, Begin, CallTypes, RequestTypes, SlotTypes
<1>3. CASE c \in Calls /\ reclaimExpired(c)
  <2>1. CallTypes'     BY Zenon, <1>3 DEF CallTypes, RequestPcs, reclaimExpired, Return, NoCall
  <2>2. RequestTypes'  BY ZenonT(40), <1>3 DEF RequestTypes, reclaimExpired
  <2>3. SlotTypes'     BY Zenon, <1>3, ReleaseInRange DEF reclaimExpired
  <2> QED BY Zenon, <2>1, <2>2, <2>3
<1> QED BY Zenon, <1>1, <1>2, <1>3 DEF SubmitRequestResult, CancelRequest

\* A step of the machine's registration, lookups, drains or removals: the
\* requests and the calls about them stay as they are.
MachineStep ==
    /\ UNCHANGED <<req, soft>>
    /\ CallTypes' /\ SlotTypes'
    /\ \A c \in Calls : call'[c].pc \in RequestPcs => call'[c] = call[c]

\* Registration, lookups and heartbeats are such steps ...
LEMMA RegisterStepsQuiet ==
    ASSUME LoadTypes, NEW c \in Calls, NEW r \in Replicas,
           \/ BeginRegister(c, r) \/ Register(c) \/ reconcileMachineTools(c)
           \/ UpdateMachinePing(r) \/ BeginGetMachine(c, r) \/ GetMachine(c) \/ ReadThrough(r)
           \/ MissHeartbeats
    PROVE  MachineStep
<1> USE DEF LoadTypes, MachineStep, CallTypes, SlotTypes, RequestPcs
<1>1. CASE BeginRegister(c, r)
  BY Zenon, <1>1 DEF BeginRegister, Begin
<1>2. CASE Register(c)
  BY ZenonT(40), <1>2 DEF Register, Goto
<1>3. CASE reconcileMachineTools(c)
  BY Zenon, <1>3 DEF reconcileMachineTools, Return, NoCall
<1>4. CASE UpdateMachinePing(r) \/ ReadThrough(r) \/ MissHeartbeats
  BY Zenon, <1>4 DEF UpdateMachinePing, ReadThrough, MissHeartbeats
<1>5. CASE BeginGetMachine(c, r)
  BY <1>5 DEF BeginGetMachine, Begin
<1>6. CASE GetMachine(c)
  BY Zenon, <1>6 DEF GetMachine, Return, NoCall
<1> QED BY Zenon, <1>1, <1>2, <1>3, <1>4, <1>5, <1>6

\* ... and so are drains, removals, and reads of a request.
LEMMA DrainStepsQuiet ==
    ASSUME LoadTypes, NEW d, NEW r, NEW q,
           \/ DrainMachine(d, r) \/ SetMachineDraining(d) \/ DeleteToolsByMachine(d)
           \/ Poll(d) \/ FinishDrain(d) \/ Unregister(r) \/ reclaimMachine(r)
           \/ GetRequestByID(r, q)
    PROVE  MachineStep
<1>1. UNCHANGED <<req, soft, call>>
  BY Zenon DEF DrainMachine, SetMachineDraining, DeleteToolsByMachine, Poll, FinishDrain, Unregister,
         reclaimMachine, GetRequestByID
<1>2. \/ UNCHANGED inFlight
      \/ \E s : inFlight' = [inFlight EXCEPT ![s] = 0]
  BY Zenon DEF DrainMachine, SetMachineDraining, DeleteToolsByMachine, Poll, FinishDrain, Unregister,
         reclaimMachine, GetRequestByID, UnregisterMachine
<1>3. SlotTypes'
  BY Zenon, <1>2, ResetInRange DEF LoadTypes, SlotTypes
<1> QED BY Zenon, <1>1, <1>3 DEF LoadTypes, MachineStep, CallTypes

------------------------------------------------------------------------------
(* Capacity                                                                 *)

\* A step that clears no request keeps the bound.
LEMMA FewerCleared ==
    ASSUME LoadInv, Cleared' \subseteq Cleared, soft => soft'
    PROVE  ~ soft' => Cardinality(Cleared') <= Capacity
<1>1. IsFiniteSet(Cleared)
  BY Zenon, LoadAssumption, FS_Subset DEF Cleared
<1>2. Cardinality(Cleared') <= Cardinality(Cleared) /\ Cardinality(Cleared') \in Nat
  BY Zenon, <1>1, FS_Subset, FS_CardinalityType
<1>3. Cardinality(Cleared) \in Nat
  BY Zenon, <1>1, FS_CardinalityType
<1> QED BY <1>2, <1>3, LoadAssumption DEF LoadInv

\* A step that leaves the requests and the calls about them keeps the
\* invariant.
LEMMA MachineStepKeepsLoad == ASSUME LoadInv, MachineStep PROVE LoadInv'
<1>1. LoadTypes'
  BY Zenon DEF LoadInv, LoadTypes, MachineStep, RequestTypes
<1>2. \A c \in Calls : call'[c].pc \in RequestPcs => call'[c].epoch <= req'[call'[c].q].epoch
  BY Zenon DEF LoadInv, MachineStep
<1>3. Cleared' \subseteq Cleared
  BY Zenon DEF Cleared, PastCount, MachineStep, RequestPcs
<1> QED BY Zenon, <1>1, <1>2, <1>3, FewerCleared DEF LoadInv, MachineStep

\* A new claim: no call has the grant it hands out.
LEMMA ClaimKeepsLoad ==
    ASSUME LoadInv, NEW c \in Calls, NEW r \in Replicas, NEW q \in Requests,
           BeginClaim(c, r, q) \/ Claim(c)
    PROVE  LoadInv'
<1>1. LoadTypes /\ LoadTypes'
  BY Zenon, ClaimStepsTyped DEF LoadInv
<1> USE DEF LoadInv, LoadTypes, CallTypes, RequestTypes
<1>2. CASE BeginClaim(c, r, q)
  <2>1. UNCHANGED <<req, soft>> /\ call'[c] = [pc |-> "claim", on |-> r, q |-> q, epoch |-> 0]
    BY Zenon, <1>2 DEF BeginClaim, Begin
  <2>2. \A d \in Calls : d # c => call'[d] = call[d]
    BY Zenon, <1>2 DEF BeginClaim, Begin
  <2>3. \A d \in Calls : call'[d].pc \in RequestPcs => call'[d].epoch <= req'[call'[d].q].epoch
    BY <2>1, <2>2
  <2>4. Cleared' \subseteq Cleared
    BY <2>1, <2>2 DEF Cleared, PastCount
  <2> QED BY Zenon, <1>1, <2>1, <2>3, <2>4, FewerCleared
<1>3. CASE Claim(c)
  <2>1. UNCHANGED soft /\ call'[c].pc = "idle" /\ \A d \in Calls : d # c => call'[d] = call[d]
    BY Zenon, <1>3 DEF Claim, Return, NoCall
  <2>2. CASE UNCHANGED req
    <3>1. \A d \in Calls : call'[d].pc \in RequestPcs => call'[d].epoch <= req'[call'[d].q].epoch
      BY Zenon, <2>1, <2>2 DEF RequestPcs
    <3>2. Cleared' \subseteq Cleared
      BY <2>1, <2>2 DEF Cleared, PastCount
    <3> QED BY Zenon, <1>1, <2>1, <3>1, <3>2, FewerCleared
  <2>3. CASE ~ UNCHANGED req
    <3>1. PICK p \in Requests : p = call[c].q
      BY Zenon, <1>3 DEF Claim, RequestPcs
    <3>2. /\ req'[p].status = "claimed" /\ req'[p].epoch = req[p].epoch + 1
          /\ \A s \in Requests : s # p => req'[s] = req[s]
      BY <1>3, <2>3, <3>1 DEF Claim
    <3>3. \A d \in Calls : call'[d].pc \in RequestPcs =>
              call'[d] = call[d] /\ call[d].q \in Requests /\ call[d].epoch <= req[call[d].q].epoch
      BY Zenon, <2>1 DEF RequestPcs
    <3>4. \A d \in Calls : call'[d].pc \in RequestPcs => call'[d].epoch <= req'[call'[d].q].epoch
      BY <3>1, <3>2, <3>3
    <3>5. \A d \in Calls : ~ PastCount(d, p)'
      BY <3>1, <3>2, <3>3 DEF PastCount, RequestPcs
    <3>6. Cleared' \subseteq Cleared
      <4>1. p \notin Cleared'
        BY Zenon, <3>2, <3>5 DEF Cleared
      <4>2. \A s \in Requests : s # p /\ s \in Cleared' => s \in Cleared
        BY ZenonT(40), <3>2, <3>3 DEF Cleared, PastCount, RequestPcs
      <4> QED BY Zenon, <4>1, <4>2 DEF Cleared
    <3> QED BY Zenon, <1>1, <2>1, <3>4, <3>6, FewerCleared
  <2> QED BY Zenon, <2>2, <2>3
<1> QED BY Zenon, <1>2, <1>3

\* UpdateRequest(running) begins: a refresh of a row that is not running is
\* where the bound is no longer claimed.
LEMMA BeginRunningKeepsLoad ==
    ASSUME LoadInv, NEW c \in Calls, NEW r \in Replicas, NEW q \in Requests, BeginRunning(c, r, q)
    PROVE  LoadInv'
<1>1. LoadTypes /\ LoadTypes'
  BY Zenon, ClaimStepsTyped DEF LoadInv
<1> USE DEF LoadInv, LoadTypes, CallTypes, RequestTypes
<1>2. /\ UNCHANGED req /\ (soft => soft') /\ Active(req[q].status)
      /\ \A d \in Calls : d # c => call'[d] = call[d]
  BY Zenon DEF BeginRunning, Begin
<1>3. call'[c].q = q /\ call'[c].epoch = req[q].epoch
  BY DEF BeginRunning, Begin
<1>4. call'[c].pc \in {"count", "requeue"} \/ (call'[c].pc = "refresh" /\ (req[q].status = "running" \/ soft'))
  <2>1. CASE seen[r][q] = "running"
    <3>1. soft' = (soft \/ req[q].status # "running")
      BY Zenon, <2>1 DEF BeginRunning
    <3>2. req[q].status = "running" \/ soft'
      BY <3>1, Zenon
    <3> QED BY <2>1, <3>2 DEF BeginRunning, Begin
  <2>2. CASE seen[r][q] # "running"
    BY <2>2 DEF BeginRunning, Begin
  <2> QED BY Zenon, <2>1, <2>2
<1>5. \A d \in Calls : call'[d].pc \in RequestPcs => call'[d].epoch <= req'[call'[d].q].epoch
  BY <1>2, <1>3
<1>6. ~ soft' => Cleared' \subseteq Cleared
  BY <1>2, <1>3, <1>4 DEF Cleared, PastCount
<1> QED BY Zenon, <1>1, <1>2, <1>5, <1>6, FewerCleared

\* The store's count: if it is within the capacity, so are the cleared
\* requests, which are among those it counted.
LEMMA CountKeepsLoad == ASSUME LoadInv, NEW c \in Calls, CountInFlight(c) PROVE LoadInv'
<1>1. LoadTypes /\ LoadTypes'
  <2>1. \A r \in Replicas, q \in Requests : LoadTypes'
    BY Zenon, ClaimStepsTyped DEF LoadInv
  <2>2. call[c].on \in Replicas /\ call[c].q \in Requests
    BY Zenon DEF LoadInv, LoadTypes, CallTypes, CountInFlight, RequestPcs
  <2> QED BY Zenon, <2>1, <2>2 DEF LoadInv
<1> USE DEF LoadInv, LoadTypes, CallTypes, RequestTypes
<1>2. /\ UNCHANGED req /\ call[c].pc = "count"
      /\ \A d \in Calls : d # c => call'[d] = call[d]
      /\ call'[c].q = call[c].q /\ call'[c].epoch = call[c].epoch
      /\ call'[c].pc \in {"requeue", "running"}
  BY ZenonT(40) DEF CountInFlight, Goto
<1>3. \A d \in Calls : call'[d].pc \in RequestPcs => call'[d].epoch <= req'[call'[d].q].epoch
  BY ZenonT(40), <1>2 DEF RequestPcs
<1>4. CASE call'[c].pc = "requeue"
  <2>1. UNCHANGED soft
    BY Zenon, <1>4 DEF CountInFlight, Goto
  <2>2. Cleared' \subseteq Cleared
    BY <1>2, <1>4 DEF Cleared, PastCount
  <2> QED BY Zenon, <1>1, <1>3, <2>1, <2>2, FewerCleared
<1>5. CASE MachineInFlightCount <= Capacity
  <2> DEFINE inflight == {q \in Requests : Active(req[q].status)}
  <2>1. Cleared' \subseteq inflight
    BY Zenon, <1>2 DEF Cleared, Active
  <2>2. IsFiniteSet(inflight)
    BY Zenon, LoadAssumption, FS_Subset
  <2>3. Cardinality(inflight) <= Capacity
    BY Zenon, <1>5 DEF MachineInFlightCount
  <2> HIDE DEF inflight
  <2>4. Cardinality(Cleared') <= Cardinality(inflight) /\ IsFiniteSet(Cleared')
    BY Zenon, <2>1, <2>2, FS_Subset
  <2>5. Cardinality(Cleared') \in Nat /\ Cardinality(inflight) \in Nat
    BY Zenon, <2>2, <2>4, FS_CardinalityType
  <2>6. Cardinality(Cleared') <= Capacity
    BY <2>3, <2>4, <2>5, LoadAssumption
  <2> QED BY Zenon, <1>1, <1>3, <2>6
<1>6. CASE soft'
  BY Zenon, <1>1, <1>3, <1>6
<1> QED BY Zenon, <1>4, <1>5, <1>6 DEF CountInFlight, Goto

\* The write: what it makes running was cleared.
LEMMA WriteKeepsLoad ==
    ASSUME LoadInv, NEW c \in Calls, Requeue(c) \/ WriteRunning(c) \/ reclaimExpired(c)
    PROVE  LoadInv'
<1>1. call[c].on \in Replicas /\ call[c].q \in Requests
  BY Zenon DEF LoadInv, LoadTypes, CallTypes, Requeue, WriteRunning, reclaimExpired, RequestPcs
<1>2. LoadTypes /\ LoadTypes'
  BY Zenon, <1>1, ClaimStepsTyped, EndStepsTyped DEF LoadInv
<1> USE DEF LoadInv, LoadTypes, CallTypes, RequestTypes
<1> DEFINE p == call[c].q
<1>3. UNCHANGED soft /\ call'[c].pc = "idle" /\ \A d \in Calls : d # c => call'[d] = call[d]
  BY DEF Requeue, WriteRunning, reclaimExpired, Return, NoCall
<1>4. \A s \in Requests : req'[s].epoch = req[s].epoch /\ (s # p => req'[s] = req[s])
  BY <1>1 DEF Requeue, WriteRunning, reclaimExpired
<1>5. \/ req'[p] = req[p]
      \/ req'[p].status \in {"pending", "done"}
      \/ PastCount(c, p) /\ Active(req[p].status)
  BY <1>1 DEF Requeue, WriteRunning, reclaimExpired, CheckLeaseFence, PastCount
<1>6. \A d \in Calls : call'[d].pc \in RequestPcs => call'[d].epoch <= req'[call'[d].q].epoch
  BY <1>3, <1>4 DEF RequestPcs
<1>7. Cleared' \subseteq Cleared
  <2>1. p \in Cleared' => p \in Cleared
    BY <1>1, <1>3, <1>4, <1>5 DEF Cleared, PastCount, Active
  <2>2. \A s \in Requests : s # p /\ s \in Cleared' => s \in Cleared
    BY <1>3, <1>4 DEF Cleared, PastCount
  <2> QED BY Zenon, <2>1, <2>2 DEF Cleared
<1> QED BY Zenon, <1>2, <1>3, <1>6, <1>7, FewerCleared

\* The end of a request, and the reaper's look at it.
LEMMA EndKeepsLoad ==
    ASSUME LoadInv, NEW c, NEW r \in Replicas, NEW q \in Requests,
           \/ SubmitRequestResult(r, q) \/ CancelRequest(r, q)
           \/ c \in Calls /\ ListExpired(c, r, q)
    PROVE  LoadInv'
<1>1. LoadTypes /\ LoadTypes'
  BY Zenon, EndStepsTyped DEF LoadInv
<1> USE DEF LoadInv, LoadTypes, CallTypes, RequestTypes
<1>2. ASSUME NEW s \in {"done", "cancelled"}, Ended(r, q, s) PROVE LoadInv'
  <2>1. /\ UNCHANGED <<call, soft>> /\ req'[q].status = s
        /\ \A p \in Requests : req'[p].epoch = req[p].epoch /\ (p # q => req'[p] = req[p])
    BY Zenon, <1>2 DEF Ended
  <2>2. \A d \in Calls : call'[d].pc \in RequestPcs => call'[d].epoch <= req'[call'[d].q].epoch
    BY Zenon, <2>1
  <2>3. Cleared' \subseteq Cleared
    BY <2>1 DEF Cleared, PastCount, Active
  <2> QED BY Zenon, <1>1, <2>1, <2>2, <2>3, FewerCleared
<1>3. CASE c \in Calls /\ ListExpired(c, r, q)
  <2>1. UNCHANGED <<req, soft>> /\ call'[c] = [pc |-> "reclaim", on |-> r, q |-> q, epoch |-> req[q].epoch]
    BY Zenon, <1>3 DEF ListExpired, Begin
  <2>2. \A d \in Calls : d # c => call'[d] = call[d]
    BY Zenon, <1>3 DEF ListExpired, Begin
  <2>3. \A d \in Calls : call'[d].pc \in RequestPcs => call'[d].epoch <= req'[call'[d].q].epoch
    BY <2>1, <2>2
  <2>4. Cleared' \subseteq Cleared
    BY <2>1, <2>2 DEF Cleared, PastCount
  <2> QED BY Zenon, <1>1, <2>1, <2>3, <2>4, FewerCleared
<1> QED BY Zenon, <1>2, <1>3 DEF SubmitRequestResult, CancelRequest

\* No step breaks the invariant.
LEMMA LoadInvInductive == LoadInv /\ [Next]_vars => LoadInv'
<1> SUFFICES ASSUME LoadInv, [Next]_vars PROVE LoadInv'
  BY Zenon
<1>0. LoadTypes
  BY Zenon DEF LoadInv
<1>1. ASSUME NEW c \in Calls, NEW r \in Replicas, BeginRegister(c, r) \/ BeginGetMachine(c, r)
      PROVE  LoadInv'
  BY Zenon, <1>0, <1>1, RegisterStepsQuiet, MachineStepKeepsLoad
<1>2. ASSUME NEW c \in Calls, NEW r \in Replicas, NEW q \in Requests,
             BeginClaim(c, r, q) \/ BeginRunning(c, r, q) \/ ListExpired(c, r, q)
      PROVE  LoadInv'
  BY Zenon, <1>2, ClaimKeepsLoad, BeginRunningKeepsLoad, EndKeepsLoad
<1>3. ASSUME NEW c \in Calls, Step(c) PROVE LoadInv'
  <2>1. CASE Claim(c)
    <3>1. call[c].on \in Replicas /\ call[c].q \in Requests
      BY Zenon, <2>1, <1>0 DEF LoadTypes, CallTypes, Claim, RequestPcs
    <3> QED BY Zenon, <2>1, <3>1, ClaimKeepsLoad
  <2>2. CASE Register(c) \/ reconcileMachineTools(c) \/ GetMachine(c)
    <3>1. call[c].on \in Replicas
      BY Zenon, <2>2, <1>0 DEF LoadTypes, CallTypes, Register, reconcileMachineTools, GetMachine
    <3> QED BY Zenon, <1>0, <2>2, <3>1, RegisterStepsQuiet, MachineStepKeepsLoad
  <2> QED BY Zenon, <1>3, <2>1, <2>2, CountKeepsLoad, WriteKeepsLoad DEF Step
<1>4. ASSUME NEW d, NEW r, NEW q,
             DrainStep(d) \/ DrainMachine(d, r) \/ Unregister(r) \/ reclaimMachine(r) \/ GetRequestByID(r, q)
      PROVE  LoadInv'
  BY Zenon, <1>0, <1>4, DrainStepsQuiet, MachineStepKeepsLoad DEF DrainStep
<1>5. ASSUME NEW r \in Replicas, UpdateMachinePing(r) \/ ReadThrough(r) PROVE LoadInv'
  <2>1. UNCHANGED <<req, soft, call, inFlight>>
    BY Zenon, <1>5 DEF UpdateMachinePing, ReadThrough
  <2> QED BY Zenon, <2>1 DEF LoadInv, LoadTypes, CallTypes, RequestTypes, SlotTypes, Cleared, PastCount
<1>6. ASSUME NEW r \in Replicas, NEW q \in Requests, SubmitRequestResult(r, q) \/ CancelRequest(r, q)
      PROVE  LoadInv'
  BY Zenon, <1>6, EndKeepsLoad
<1>7. CASE MissHeartbeats \/ UNCHANGED vars
  <2>1. UNCHANGED <<req, soft, call, inFlight>>
    BY Zenon, <1>7 DEF MissHeartbeats, vars
  <2> QED BY Zenon, <2>1 DEF LoadInv, LoadTypes, CallTypes, RequestTypes, SlotTypes, Cleared, PastCount
<1> QED BY Zenon, <1>1, <1>2, <1>3, <1>4, <1>5, <1>6, <1>7 DEF Next

\* The invariant holds at the start: nothing runs and no call has begun.
LEMMA LoadInvInit == Init => LoadInv
<1> SUFFICES ASSUME Init PROVE LoadInv
  BY Zenon
<1>1. LoadTypes
  BY LoadAssumption DEF Init, LoadTypes, CallTypes, RequestTypes, SlotTypes, NoCall, RequestPcs
<1>2. Cleared = {}
  BY Zenon DEF Init, Cleared, Active
<1>3. Cardinality(Cleared) = 0
  BY Zenon, <1>2, FS_EmptySet
<1>4. \A c \in Calls : call[c].pc \notin RequestPcs
  BY Zenon DEF Init, NoCall, RequestPcs
<1> QED BY <1>1, <1>3, <1>4, LoadAssumption DEF LoadInv

\* RunningWithinCapacity in every behaviour: with any number of replicas and
\* requests and any capacity, the count by the store before the write keeps
\* the machine within its limit.
THEOREM CapacityKept == Spec => []RunningWithinCapacity
<1>1. LoadInv => RunningWithinCapacity
  <2> SUFFICES ASSUME LoadInv PROVE RunningWithinCapacity
    BY Zenon
  <2> DEFINE running == {q \in Requests : req[q].status = "running"}
  <2>1. running \subseteq Cleared /\ Cleared \subseteq Requests
    BY Zenon DEF Cleared
  <2>2. IsFiniteSet(Cleared)
    BY Zenon, <2>1, LoadAssumption, FS_Subset
  <2> HIDE DEF running
  <2>3. Cardinality(running) <= Cardinality(Cleared) /\ IsFiniteSet(running)
    BY Zenon, <2>1, <2>2, FS_Subset
  <2>4. Cardinality(running) \in Nat /\ Cardinality(Cleared) \in Nat
    BY Zenon, <2>2, <2>3, FS_CardinalityType
  <2>5. ~ soft => Cardinality(running) <= Capacity
    BY <2>3, <2>4, LoadAssumption DEF LoadInv
  <2> QED BY Zenon, <2>5 DEF running, RunningWithinCapacity, LoadInv, LoadTypes, SlotTypes
<1> QED BY <1>1, LoadInvInit, LoadInvInductive, PTL DEF Spec

------------------------------------------------------------------------------
(* The drain flag                                                           *)

\* A row that is draining exists.
FlagInv == DOMAIN row = {"exists", "draining", "fresh"} /\ (row.draining => row.exists)

\* What any step does to the row.
LEMMA RowStep ==
    ASSUME FlagInv, [Next]_vars
    PROVE  \/ row' \in {row, [row EXCEPT !.fresh = TRUE], [row EXCEPT !.fresh = FALSE], NoMachine,
                        [row EXCEPT !.draining = row.exists]}
           \/ ~ row.exists /\ row' = NewMachine
<1>1. ASSUME NEW c \in Calls, Step(c) PROVE row' = row \/ row' = SaveMachine
  BY Zenon, <1>1 DEF Step, Claim, CountInFlight, Requeue, WriteRunning, reclaimExpired, Register,
              reconcileMachineTools, GetMachine
<1>2. ASSUME NEW c \in Calls, NEW r \in Replicas, NEW q,
             \/ BeginRegister(c, r) \/ BeginGetMachine(c, r) \/ BeginClaim(c, r, q)
             \/ BeginRunning(c, r, q) \/ ListExpired(c, r, q)
      PROVE  row' = row
  BY Zenon, <1>2 DEF BeginRegister, BeginGetMachine, BeginClaim, BeginRunning, ListExpired
<1>3. ASSUME NEW d \in Drains, NEW r \in Replicas, DrainMachine(d, r) PROVE row' = row
  BY Zenon, <1>3 DEF DrainMachine
<1>4. ASSUME NEW d \in Drains, DrainStep(d)
      PROVE  row' \in {row, NoMachine, [row EXCEPT !.draining = row.exists]}
  BY Zenon, <1>4 DEF DrainStep, SetMachineDraining, DeleteToolsByMachine, Poll, FinishDrain,
              UnregisterMachine
<1>5. ASSUME NEW r \in Replicas, NEW q,
             \/ UpdateMachinePing(r) \/ ReadThrough(r) \/ Unregister(r) \/ reclaimMachine(r)
             \/ SubmitRequestResult(r, q) \/ CancelRequest(r, q) \/ GetRequestByID(r, q)
      PROVE  row' \in {row, NoMachine, [row EXCEPT !.fresh = TRUE]}
  BY Zenon, <1>5 DEF UpdateMachinePing, ReadThrough, Unregister, UnregisterMachine, reclaimMachine,
              SubmitRequestResult, CancelRequest, Ended, GetRequestByID
<1>6. CASE MissHeartbeats
  BY Zenon, <1>6 DEF MissHeartbeats
<1>7. CASE UNCHANGED vars
  BY Zenon, <1>7 DEF vars
<1> QED BY Zenon, <1>1, <1>2, <1>3, <1>4, <1>5, <1>6, <1>7 DEF Next, SaveMachine

\* DrainFlagStays in every behaviour: no heartbeat, registration or reclaim of
\* any replica takes the flag off a row that stays.
THEOREM FlagKept == Spec => DrainFlagStays
<1>1. Init => FlagInv
  BY DEF Init, NewMachine, FlagInv
<1>2. FlagInv /\ [Next]_vars => FlagInv' /\ (row.draining /\ row'.exists => row'.draining)
  <2> SUFFICES ASSUME FlagInv, [Next]_vars
               PROVE  FlagInv' /\ (row.draining /\ row'.exists => row'.draining)
    BY Zenon
  <2>1. CASE row' = row
    BY Zenon, <2>1 DEF FlagInv
  <2>2. CASE row' \in {[row EXCEPT !.fresh = TRUE], [row EXCEPT !.fresh = FALSE]}
    BY Zenon, <2>2 DEF FlagInv
  <2>3. CASE row' = [row EXCEPT !.draining = row.exists]
    BY Zenon, <2>3 DEF FlagInv
  <2>4. CASE row' = NoMachine
    BY Zenon, <2>4 DEF FlagInv, NoMachine
  <2>5. CASE ~ row.exists /\ row' = NewMachine
    BY Zenon, <2>5 DEF FlagInv, NewMachine
  <2> QED BY Zenon, <2>1, <2>2, <2>3, <2>4, <2>5, RowStep
<1> QED BY <1>1, <1>2, PTL DEF Spec, DrainFlagStays

------------------------------------------------------------------------------
(* The wait of a drain                                                      *)

SeenShape == DOMAIN seen = Replicas /\ \A r \in Replicas : DOMAIN seen[r] = Requests
DrainShape ==
    /\ DOMAIN drain = Drains
    /\ \A d \in Drains : DOMAIN drain[d] = {"pc", "on", "over", "regained"}

\* The only replica knows of every request in flight.
CacheComplete ==
    \A r \in Replicas, q \in Requests :
        Replicas = {r} /\ Active(req[q].status) => Active(seen[r][q])

\* The machine has had no tools since the drain d deleted them.
Disarmed(d) == drain[d].pc \in {"poll", "unregister"} /\ ~ drain[d].regained

\* The inductive invariant of DrainWaits, on top of LoadInv.
WaitInv ==
    /\ SeenShape /\ DrainShape
    /\ CacheComplete
    /\ \A d \in Drains : Disarmed(d) => ~ owned
    /\ \A d \in Drains : Disarmed(d) /\ drain[d].pc = "unregister" /\ Replicas = {drain[d].on}
         => \A q \in Requests : ~ Active(req[q].status)

\* A step on the requests: it mirrors what it writes, and starts work only
\* while the machine has tools.
RequestStep ==
    /\ UNCHANGED <<owned, drain>>
    /\ SeenShape'
    /\ \A r \in Replicas, q \in Requests : Replicas = {r} =>
          \/ req'[q].status = req[q].status /\ seen'[r][q] = seen[r][q]
          \/ seen'[r][q] = req'[q].status
    /\ owned \/ \A q \in Requests : Active(req'[q].status) => Active(req[q].status)

\* Such a step keeps the invariant.
LEMMA RequestStepKeepsWait == ASSUME WaitInv, RequestStep PROVE WaitInv'
<1>1. CacheComplete'
  BY Zenon DEF WaitInv, RequestStep, CacheComplete
<1>2. DrainShape' /\ \A d \in Drains : Disarmed(d)' = Disarmed(d)
  BY Zenon DEF WaitInv, RequestStep, DrainShape, Disarmed
<1>3. ASSUME NEW d \in Drains, Disarmed(d)', drain'[d].pc = "unregister", Replicas = {drain'[d].on}
      PROVE  \A q \in Requests : ~ Active(req'[q].status)
  BY Zenon, <1>2, <1>3 DEF WaitInv, RequestStep
<1> QED BY Zenon, <1>1, <1>2, <1>3 DEF WaitInv, RequestStep

\* A write of one request, mirrored on the replica that makes it.
LEMMA WriteIsRequestStep ==
    ASSUME LoadTypes, WaitInv, UNCHANGED <<owned, drain>>, NEW q \in Requests, NEW r \in Replicas, NEW s,
           \A p \in Requests \ {q} : req'[p] = req[p],
           req'[q].status = s,
           seen' = mirrorRequest(r, q, s),
           owned \/ ~ Active(s) \/ Active(req[q].status)
    PROVE  RequestStep
<1>1. SeenShape'
  BY Zenon DEF WaitInv, SeenShape, mirrorRequest
<1>2. \A t \in Replicas, p \in Requests : Replicas = {t} =>
          \/ req'[p].status = req[p].status /\ seen'[t][p] = seen[t][p]
          \/ seen'[t][p] = req'[p].status
  BY Zenon DEF WaitInv, SeenShape, mirrorRequest
<1> QED BY Zenon, <1>1, <1>2 DEF RequestStep

\* The steps that write a request.
LEMMA RequestStepsKeepWait ==
    ASSUME LoadTypes, WaitInv, NEW c \in Calls,
           Claim(c) \/ Requeue(c) \/ WriteRunning(c) \/ reclaimExpired(c)
    PROVE  WaitInv'
<1>1. call[c].on \in Replicas /\ call[c].q \in Requests
  BY Zenon DEF LoadTypes, CallTypes, RequestPcs, Claim, Requeue, WriteRunning, reclaimExpired
<1>2. UNCHANGED <<owned, drain>>
  BY Zenon DEF Claim, Requeue, WriteRunning, reclaimExpired
<1>3. CASE UNCHANGED <<req, seen>>
  BY Zenon, <1>2, <1>3, RequestStepKeepsWait DEF RequestStep, WaitInv, SeenShape
<1>4. CASE Claim(c) /\ ~ UNCHANGED <<req, seen>>
  <2>1. /\ owned /\ seen' = mirrorRequest(call[c].on, call[c].q, "claimed")
        /\ req'[call[c].q].status = "claimed"
        /\ \A p \in Requests \ {call[c].q} : req'[p] = req[p]
    BY <1>1, <1>4 DEF Claim, LoadTypes, RequestTypes
  <2> QED BY Zenon, <1>1, <1>2, <2>1, WriteIsRequestStep, RequestStepKeepsWait
<1>5. CASE Requeue(c) /\ ~ UNCHANGED <<req, seen>>
  <2>1. /\ seen' = mirrorRequest(call[c].on, call[c].q, "pending")
        /\ req'[call[c].q].status = "pending"
        /\ \A p \in Requests \ {call[c].q} : req'[p] = req[p]
    BY ZenonT(40), <1>1, <1>5 DEF Requeue, LoadTypes, RequestTypes
  <2> QED BY Zenon, <1>1, <1>2, <2>1, WriteIsRequestStep, RequestStepKeepsWait DEF Active
<1>6. CASE WriteRunning(c) /\ ~ UNCHANGED <<req, seen>>
  <2>1. /\ seen' = mirrorRequest(call[c].on, call[c].q, "running")
        /\ req'[call[c].q].status = "running" /\ Active(req[call[c].q].status)
        /\ \A p \in Requests \ {call[c].q} : req'[p] = req[p]
    BY ZenonT(40), <1>1, <1>6 DEF WriteRunning, LoadTypes, RequestTypes
  <2> QED BY Zenon, <1>1, <1>2, <2>1, WriteIsRequestStep, RequestStepKeepsWait
<1>7. CASE reclaimExpired(c) /\ ~ UNCHANGED <<req, seen>>
  <2>1. PICK s \in {"pending", "done"} :
          /\ seen' = mirrorRequest(call[c].on, call[c].q, s)
          /\ req'[call[c].q].status = s
          /\ \A p \in Requests \ {call[c].q} : req'[p] = req[p]
    BY <1>1, <1>7 DEF reclaimExpired, LoadTypes, RequestTypes
  <2> QED BY Zenon, <1>1, <1>2, <2>1, WriteIsRequestStep, RequestStepKeepsWait DEF Active
<1> QED BY Zenon, <1>3, <1>4, <1>5, <1>6, <1>7

\* Results, cancellations and reads of a request.
LEMMA EndsKeepWait ==
    ASSUME LoadTypes, WaitInv, NEW r \in Replicas, NEW q \in Requests,
           SubmitRequestResult(r, q) \/ CancelRequest(r, q) \/ GetRequestByID(r, q)
    PROVE  WaitInv'
<1>1. ASSUME NEW s \in {"done", "cancelled"}, Ended(r, q, s) PROVE WaitInv'
  <2>1. /\ UNCHANGED <<owned, drain>> /\ seen' = mirrorRequest(r, q, s)
        /\ req'[q].status = s /\ \A p \in Requests \ {q} : req'[p] = req[p]
    BY Zenon, <1>1 DEF Ended, LoadTypes, RequestTypes
  <2> QED BY Zenon, <2>1, WriteIsRequestStep, RequestStepKeepsWait DEF Active
<1>2. CASE GetRequestByID(r, q)
  <2>1. UNCHANGED <<owned, drain, req>> /\ seen' = mirrorRequest(r, q, req[q].status)
    BY Zenon, <1>2 DEF GetRequestByID
  <2> QED BY Zenon, <2>1, WriteIsRequestStep, RequestStepKeepsWait
<1> QED BY Zenon, <1>1, <1>2 DEF SubmitRequestResult, CancelRequest

\* The tools and the drains: whoever gives the machine tools marks the drains
\* that have deleted them, and the last look of a drain finds no request.
LEMMA ToolStepsKeepWait ==
    ASSUME WaitInv, NEW d \in Drains, NEW r,
           \/ DrainMachine(d, r) \/ SetMachineDraining(d) \/ DeleteToolsByMachine(d)
           \/ Poll(d) \/ FinishDrain(d)
    PROVE  WaitInv'
<1> USE DEF WaitInv, DrainShape
<1>1. UNCHANGED <<req, seen>>
  BY Zenon DEF DrainMachine, SetMachineDraining, DeleteToolsByMachine, Poll, FinishDrain
<1>2. SeenShape' /\ CacheComplete'
  BY Zenon, <1>1 DEF SeenShape, CacheComplete
<1>3. owned' => owned
  BY Zenon DEF DrainMachine, SetMachineDraining, DeleteToolsByMachine, Poll, FinishDrain, UnregisterMachine
<1>4. DrainShape'
  BY Zenon DEF DrainMachine, SetMachineDraining, DeleteToolsByMachine, Poll, FinishDrain, NoDrain
<1>5. \A e \in Drains : e # d =>
         drain'[e].pc = drain[e].pc /\ drain'[e].on = drain[e].on /\ drain'[e].regained = drain[e].regained
  BY Zenon DEF DrainMachine, SetMachineDraining, DeleteToolsByMachine, Poll, FinishDrain
<1>6. \A e \in Drains : e # d /\ Disarmed(e)' => Disarmed(e)
  BY Zenon, <1>5 DEF Disarmed
<1>7. CASE DrainMachine(d, r) \/ SetMachineDraining(d)
  <2>1. drain'[d].pc \in {"flag", "tools"}
    <3>1. CASE DrainMachine(d, r)
      BY Zenon, <3>1 DEF DrainMachine, NoDrain
    <3>2. CASE SetMachineDraining(d)
      BY Zenon, <3>2 DEF SetMachineDraining
    <3> QED BY Zenon, <1>7, <3>1, <3>2
  <2> QED BY Zenon, <1>1, <1>2, <1>3, <1>4, <1>5, <1>6, <2>1 DEF Disarmed
<1>8. CASE DeleteToolsByMachine(d)
  <2>1. drain'[d].pc = "poll" /\ owned' = FALSE
    BY Zenon, <1>8 DEF DeleteToolsByMachine
  <2> QED BY Zenon, <1>1, <1>2, <1>4, <1>5, <1>6, <2>1
<1>9. CASE FinishDrain(d)
  <2>1. drain'[d].pc = "done"
    BY Zenon, <1>9 DEF FinishDrain
  <2> QED BY Zenon, <1>1, <1>2, <1>3, <1>4, <1>5, <1>6, <2>1 DEF Disarmed
<1>10. CASE Poll(d) /\ drain'[d].pc = "done"
  BY Zenon, <1>1, <1>2, <1>3, <1>4, <1>5, <1>6, <1>10 DEF Disarmed
<1>11. CASE Poll(d) /\ drain'[d].pc # "done"
  <2>1. /\ drain[d].pc = "poll" /\ drain'[d].pc = "unregister" /\ drain'[d].on = drain[d].on
        /\ drain'[d].regained = drain[d].regained
        /\ ActiveRequestsForMachine(drain[d].on) = {}
    <3>1. drain' # [drain EXCEPT ![d] = [@ EXCEPT !.pc = "done", !.over = TRUE]]
      BY Zenon, <1>11
    <3>2. /\ drain[d].pc = "poll" /\ drain' = [drain EXCEPT ![d].pc = "unregister"]
          /\ ActiveRequestsForMachine(drain[d].on) = {}
      BY Zenon, <1>11, <3>1 DEF Poll
    <3> QED BY Zenon, <3>2
  <2>2. Replicas = {drain[d].on} => \A q \in Requests : ~ Active(req[q].status)
    BY Zenon, <2>1 DEF ActiveRequestsForMachine, CacheComplete
  <2>3. Disarmed(d)' => Disarmed(d)
    BY Zenon, <2>1 DEF Disarmed
  <2> QED BY Zenon, <1>1, <1>2, <1>3, <1>4, <1>5, <1>6, <2>1, <2>2, <2>3
<1> QED BY Zenon, <1>7, <1>8, <1>9, <1>10, <1>11

\* Registrations and removals.
LEMMA OwnershipStepsKeepWait ==
    ASSUME WaitInv, NEW c, NEW r,
           reconcileMachineTools(c) \/ Unregister(r) \/ reclaimMachine(r)
    PROVE  WaitInv'
<1> USE DEF WaitInv, DrainShape
<1>1. UNCHANGED <<req, seen>>
  BY Zenon DEF reconcileMachineTools, Unregister, reclaimMachine
<1>2. SeenShape' /\ CacheComplete'
  BY Zenon, <1>1 DEF SeenShape, CacheComplete
<1>3. DrainShape' /\ \A e \in Drains : drain'[e].pc = drain[e].pc /\ drain'[e].on = drain[e].on
  BY DEF reconcileMachineTools, Unregister, reclaimMachine, finishMachineDrain
<1>4. \A e \in Drains : drain'[e].regained = drain[e].regained \/ drain'[e].regained = TRUE
  BY DEF reconcileMachineTools, Unregister, reclaimMachine, finishMachineDrain
<1>5. \A e \in Drains : Disarmed(e)' => Disarmed(e)
  BY Zenon, <1>3, <1>4 DEF Disarmed
<1>6. \A e \in Drains : Disarmed(e)' => ~ owned'
  <2>1. CASE reconcileMachineTools(c)
    BY <2>1, <1>3, <1>5 DEF reconcileMachineTools, Disarmed
  <2>2. CASE Unregister(r) \/ reclaimMachine(r)
    BY Zenon, <2>2, <1>5 DEF Unregister, reclaimMachine, UnregisterMachine
  <2> QED BY Zenon, <2>1, <2>2
<1> QED BY Zenon, <1>1, <1>2, <1>3, <1>5, <1>6

\* No step breaks the invariant.
LEMMA WaitInvInductive == LoadInv /\ WaitInv /\ [Next]_vars => WaitInv'
<1> SUFFICES ASSUME LoadInv, WaitInv, [Next]_vars PROVE WaitInv'
  BY Zenon
<1>0. LoadTypes
  BY Zenon DEF LoadInv
<1>1. CASE UNCHANGED <<owned, req, seen, drain>>
  BY Zenon, <1>1 DEF WaitInv, SeenShape, DrainShape, CacheComplete, Disarmed
<1>2. ASSUME NEW c \in Calls, NEW r \in Replicas, NEW q,
             \/ BeginRegister(c, r) \/ BeginGetMachine(c, r) \/ BeginClaim(c, r, q)
             \/ BeginRunning(c, r, q) \/ ListExpired(c, r, q)
      PROVE  WaitInv'
  BY Zenon, <1>1, <1>2 DEF BeginRegister, BeginGetMachine, BeginClaim, BeginRunning, ListExpired
<1>3. ASSUME NEW c \in Calls, Step(c) PROVE WaitInv'
  <2>1. CASE CountInFlight(c) \/ Register(c) \/ GetMachine(c)
    BY Zenon, <1>1, <2>1 DEF CountInFlight, Register, GetMachine
  <2> QED BY Zenon, <1>0, <1>3, <2>1, RequestStepsKeepWait, OwnershipStepsKeepWait DEF Step
<1>4. ASSUME NEW d \in Drains, DrainStep(d) PROVE WaitInv'
  BY Zenon, <1>4, ToolStepsKeepWait DEF DrainStep
<1>5. ASSUME NEW d \in Drains, NEW r \in Replicas, DrainMachine(d, r) PROVE WaitInv'
  BY Zenon, <1>5, ToolStepsKeepWait
<1>6. ASSUME NEW r \in Replicas, UpdateMachinePing(r) \/ ReadThrough(r) PROVE WaitInv'
  BY Zenon, <1>1, <1>6 DEF UpdateMachinePing, ReadThrough
<1>7. ASSUME NEW r \in Replicas, Unregister(r) \/ reclaimMachine(r) PROVE WaitInv'
  BY Zenon, <1>7, OwnershipStepsKeepWait
<1>8. ASSUME NEW r \in Replicas, NEW q \in Requests,
             SubmitRequestResult(r, q) \/ CancelRequest(r, q) \/ GetRequestByID(r, q)
      PROVE  WaitInv'
  BY Zenon, <1>0, <1>8, EndsKeepWait
<1>9. CASE MissHeartbeats \/ UNCHANGED vars
  BY Zenon, <1>1, <1>9 DEF MissHeartbeats, vars
<1> QED BY Zenon, <1>2, <1>3, <1>4, <1>5, <1>6, <1>7, <1>8, <1>9 DEF Next

\* DrainWaits in every behaviour of a single replica: however many drains,
\* claims, registrations and removals interleave, waitForDrainAndUnregister
\* unregisters a machine that has had no tools since its drain deleted them
\* only when no request is in flight on it.
THEOREM DrainLeavesNothing == Spec => DrainWaits
<1>1. Init => WaitInv
  BY DEF Init, WaitInv, SeenShape, DrainShape, CacheComplete, Disarmed, NoDrain, Active
<1>2. ASSUME WaitInv
      PROVE  \A d \in Drains : Replicas = {drain[d].on} /\ FinishDrain(d) /\ ~ drain[d].regained
                 => MachineInFlightCount = 0
  <2> SUFFICES ASSUME NEW d \in Drains, Replicas = {drain[d].on}, FinishDrain(d), ~ drain[d].regained
               PROVE  MachineInFlightCount = 0
    BY Zenon
  <2>1. \A q \in Requests : ~ Active(req[q].status)
    BY Zenon, <1>2 DEF WaitInv, Disarmed, FinishDrain
  <2>2. {q \in Requests : Active(req[q].status)} = {}
    BY Zenon, <2>1
  <2> QED BY Zenon, <2>2, FS_EmptySet DEF MachineInFlightCount
<1> QED BY <1>1, <1>2, LoadInvInit, LoadInvInductive, WaitInvInductive, PTL DEF Spec, DrainWaits
=============================================================================
