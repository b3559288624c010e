------------------------ MODULE CircuitBreakerProofs ------------------------
(***************************************************************************)
(* Two facts about the gateway, for every set of calls, every limit and    *)
(* every trip threshold.  The in-flight counter is exact; the invariant    *)
(* needs no more than the shape of the calls beside it, since what the     *)
(* breaker decides has no influence on the counter.  And failures from     *)
(* before the first success do not open the breaker; the invariant says    *)
(* what the first success leaves behind, whichever way it was reported.    *)
(***************************************************************************)
EXTENDS CircuitBreaker, FiniteSetTheorems, TLAPS

\* Where a call can be.
Places == {"idle", "counted", "refused", "serving", "answered", "latching", "leaving"}

\* The shape of the calls.
CallsOK == call \in [Calls -> [pc : Places, cur : BOOLEAN, ok : BOOLEAN]]

\* The inductive invariant: SlotsAccountedFor for calls of that shape.
SlotInv == CallsOK /\ SlotsAccountedFor

\* A step that neither begins nor ends a call and lets none past the counter.
SlotsKept ==
    /\ inflight' = inflight
    /\ Busy' = Busy
    /\ Admitted' \subseteq Admitted

\* NewCircuitBreakerManager's limit is a positive number.
LEMMA LimitPositive == Limit \in Nat /\ Limit >= 1
<1>1. \E x \in {1, MaxConcurrent} : \A y \in {1, MaxConcurrent} : x >= y
  BY LimitAssumption
<1>2. /\ Max({1, MaxConcurrent}) \in {1, MaxConcurrent}
      /\ \A y \in {1, MaxConcurrent} : Max({1, MaxConcurrent}) >= y
  BY <1>1 DEF Max
<1> QED BY <1>2, LimitAssumption DEF Limit

\* The sets that SlotsAccountedFor counts are finite, and the admitted calls
\* are among those that have added themselves.
LEMMA BusyFinite ==
    /\ IsFiniteSet(Busy) /\ Cardinality(Busy) \in Nat
    /\ IsFiniteSet(Admitted) /\ Cardinality(Admitted) \in Nat
    /\ Admitted \subseteq Busy
<1>1. Busy \subseteq Calls /\ Admitted \subseteq Calls
  BY DEF Busy, Admitted
<1>2. IsFiniteSet(Busy) /\ IsFiniteSet(Admitted)
  BY <1>1, CallsAssumption, FS_Subset
<1>3. Admitted \subseteq Busy
  BY DEF Busy, Admitted
<1> QED BY <1>2, <1>3, FS_CardinalityType

\* The same after a step.
LEMMA BusyFiniteNext ==
    /\ IsFiniteSet(Busy') /\ Cardinality(Busy') \in Nat
    /\ IsFiniteSet(Admitted') /\ Cardinality(Admitted') \in Nat
    /\ Admitted' \subseteq Busy'
<1>1. Busy' \subseteq Calls /\ Admitted' \subseteq Calls
  BY DEF Busy, Admitted
<1>2. IsFiniteSet(Busy') /\ IsFiniteSet(Admitted')
  BY <1>1, CallsAssumption, FS_Subset
<1>3. Admitted' \subseteq Busy'
  BY DEF Busy, Admitted
<1> QED BY <1>2, <1>3, FS_CardinalityType

\* Such a step keeps the counter exact and the limit.
LEMMA KeptSlots == SlotsAccountedFor /\ SlotsKept => SlotsAccountedFor'
<1> SUFFICES ASSUME SlotsAccountedFor, SlotsKept PROVE SlotsAccountedFor'
  OBVIOUS
<1>1. Cardinality(Admitted') <= Cardinality(Admitted)
  BY BusyFinite, FS_Subset DEF SlotsKept
<1>2. inflight' = Cardinality(Busy')
  BY DEF SlotsKept, SlotsAccountedFor
<1>3. Limit' = Limit
  BY DEF Limit
<1> QED BY <1>1, <1>2, <1>3, BusyFinite, BusyFiniteNext, LimitPositive DEF SlotsAccountedFor

\* A call that leaves, admitted or refused, gives one slot back.
LEMMA LeavingGivesOneBack ==
    ASSUME SlotInv, NEW c \in Calls, call[c].pc # "idle",
           inflight' = inflight - 1, call' = [call EXCEPT ![c] = Idle]
    PROVE  SlotInv'
<1>1. CallsOK'
  BY DEF SlotInv, CallsOK, Idle, Places
<1>2. Busy' = Busy \ {c} /\ c \in Busy
  BY DEF SlotInv, CallsOK, Busy, Idle
<1>3. Admitted' \subseteq Admitted
  BY DEF SlotInv, CallsOK, Admitted, Idle
<1>4. Cardinality(Busy') = Cardinality(Busy) - 1
  BY <1>2, BusyFinite, FS_RemoveElement
<1>5. Cardinality(Admitted') <= Cardinality(Admitted)
  BY <1>3, BusyFinite, FS_Subset
<1>6. Limit' = Limit
  BY DEF Limit
<1> QED BY <1>1, <1>4, <1>5, <1>6, BusyFinite, BusyFiniteNext, LimitPositive
        DEF SlotInv, SlotsAccountedFor

\* Begin adds the call to the counter; it is admitted only if all the calls
\* that have added themselves, refused ones included, are within the limit.
LEMMA BeginKeepsSlots == ASSUME SlotInv, NEW c \in Calls, Begin(c) PROVE SlotInv'
<1>1. CallsOK'
  BY DEF SlotInv, CallsOK, Begin, Places
<1>2. Busy' = Busy \cup {c} /\ c \notin Busy
  BY DEF SlotInv, CallsOK, Busy, Begin
<1>3. Cardinality(Busy') = Cardinality(Busy) + 1
  BY <1>2, BusyFinite, FS_AddElement
<1>4. inflight' = Cardinality(Busy')
  BY <1>3 DEF SlotInv, SlotsAccountedFor, Begin
<1>5. Cardinality(Admitted') <= Cardinality(Busy')
  BY BusyFiniteNext, FS_Subset
<1>6. Limit' = Limit
  BY DEF Limit
<1>7. CASE inflight + 1 > Limit
  <2>1. Admitted' = Admitted
    BY <1>7 DEF SlotInv, CallsOK, Admitted, Begin
  <2> QED BY <2>1, <1>1, <1>4, <1>6 DEF SlotInv, SlotsAccountedFor
<1>8. CASE ~(inflight + 1 > Limit)
  <2>1. Cardinality(Busy') <= Limit
    BY <1>8, <1>3, BusyFinite, LimitPositive DEF SlotInv, SlotsAccountedFor
  <2> QED BY <2>1, <1>1, <1>4, <1>5, <1>6, BusyFiniteNext, LimitPositive
          DEF SlotInv, SlotsAccountedFor
<1> QED BY <1>7, <1>8

\* The breaker's answer moves the call on or has it refused; either way it
\* still holds its slot.
LEMMA AllowKeepsSlots == ASSUME SlotInv, NEW c \in Calls, Allow(c) PROVE SlotInv'
<1>1. /\ Aged \in [Calls -> [pc : Places, cur : BOOLEAN, ok : BOOLEAN]]
      /\ \A d \in Calls : Aged[d].pc = call[d].pc
  BY DEF SlotInv, CallsOK, Aged, Outdated
<1>2. \/ call' = [Aged EXCEPT ![c] = [pc |-> "serving", cur |-> TRUE, ok |-> FALSE]]
      \/ call' = [Aged EXCEPT ![c].pc = "refused"]
  BY DEF Allow
<1>3. CallsOK'
  <2>1. CASE call' = [Aged EXCEPT ![c] = [pc |-> "serving", cur |-> TRUE, ok |-> FALSE]]
    <3>1. [pc |-> "serving", cur |-> TRUE, ok |-> FALSE]
              \in [pc : Places, cur : BOOLEAN, ok : BOOLEAN]
      BY DEF Places
    <3> QED BY <2>1, <3>1, <1>1 DEF CallsOK
  <2>2. CASE call' = [Aged EXCEPT ![c].pc = "refused"]
    BY <2>2, <1>1 DEF CallsOK, Places
  <2> QED BY <1>2, <2>1, <2>2
<1>4. SlotsKept
  <2>1. Busy' = Busy
    BY <1>1, <1>2 DEF Busy, Allow
  <2>2. Admitted' \subseteq Admitted
    BY <1>1, <1>2 DEF Admitted, Allow
  <2> QED BY <2>1, <2>2 DEF SlotsKept, Allow
<1> QED BY <1>3, <1>4, KeptSlots DEF SlotInv

\* Being served keeps the slot.
LEMMA ServeKeepsSlots == ASSUME SlotInv, NEW c \in Calls, Serve(c) PROVE SlotInv'
<1>1. PICK ok \in BOOLEAN : call' = [call EXCEPT ![c].pc = "answered", ![c].ok = ok]
  BY DEF Serve
<1>2. CallsOK'
  BY <1>1 DEF SlotInv, CallsOK, Places
<1>3. SlotsKept
  BY <1>1 DEF SlotInv, CallsOK, SlotsKept, Busy, Admitted, Serve
<1> QED BY <1>2, <1>3, KeptSlots DEF SlotInv

\* Reporting the outcome keeps the slot, whatever generation it counts for.
LEMMA DoneKeepsSlots == ASSUME SlotInv, NEW c \in Calls, Done(c) PROVE SlotInv'
<1>1. \E old \in {Outdated, call}, pc \in {"latching", "leaving"} :
          call' = [old EXCEPT ![c].pc = pc]
  BY DEF Done
<1>2. PICK old \in {Outdated, call}, pc \in {"latching", "leaving"} :
          call' = [old EXCEPT ![c].pc = pc]
  BY <1>1
<1>3. /\ old \in [Calls -> [pc : Places, cur : BOOLEAN, ok : BOOLEAN]]
      /\ \A d \in Calls : old[d].pc = call[d].pc
  BY DEF SlotInv, CallsOK, Outdated
<1>4. CallsOK'
  BY <1>2, <1>3 DEF CallsOK, Places
<1>5. call[c].pc = "answered" /\ inflight' = inflight
  BY DEF Done
<1>6. SlotsKept
  BY <1>2, <1>3, <1>5 DEF SlotsKept, Busy, Admitted
<1> QED BY <1>4, <1>6, KeptSlots DEF SlotInv

\* Setting the latch keeps the slot.
LEMMA LatchKeepsSlots == ASSUME SlotInv, NEW c \in Calls, Latch(c) PROVE SlotInv'
<1>1. CallsOK'
  BY DEF SlotInv, CallsOK, Latch, Places
<1>2. SlotsKept
  BY DEF SlotInv, CallsOK, SlotsKept, Busy, Admitted, Latch
<1> QED BY <1>1, <1>2, KeptSlots DEF SlotInv

\* A step that leaves the calls and the counter alone.
LEMMA OtherKeepsSlots == ASSUME SlotInv, UNCHANGED <<call, inflight>> PROVE SlotInv'
BY DEF SlotInv, CallsOK, SlotsAccountedFor, Busy, Admitted, Limit

\* No step of a call, a timer or the backend breaks the accounting.
LEMMA SlotInvInductive == SlotInv /\ [Next]_vars => SlotInv'
<1> SUFFICES ASSUME SlotInv, [Next]_vars PROVE SlotInv'
  OBVIOUS
<1>1. ASSUME NEW c \in Calls, CallStep(c) PROVE SlotInv'
  <2>1. CASE Begin(c)   BY <2>1, BeginKeepsSlots
  <2>2. CASE Allow(c)   BY <2>2, AllowKeepsSlots
  <2>3. CASE Refuse(c)  BY <2>3, LeavingGivesOneBack DEF Refuse
  <2>4. CASE Serve(c)   BY <2>4, ServeKeepsSlots
  <2>5. CASE Done(c)    BY <2>5, DoneKeepsSlots
  <2>6. CASE Latch(c)   BY <2>6, LatchKeepsSlots
  <2>7. CASE Release(c) BY <2>7, LeavingGivesOneBack DEF Release
  <2> QED BY <1>1, <2>1, <2>2, <2>3, <2>4, <2>5, <2>6, <2>7 DEF CallStep
<1>2. CASE OpenTimeout    BY <1>2, OtherKeepsSlots DEF OpenTimeout
<1>3. CASE IntervalEnds   BY <1>3, OtherKeepsSlots DEF IntervalEnds
<1>4. CASE BackendChanges BY <1>4, OtherKeepsSlots DEF BackendChanges
<1>5. CASE UNCHANGED vars BY <1>5, OtherKeepsSlots DEF vars
<1> QED BY <1>1, <1>2, <1>3, <1>4, <1>5 DEF Next

\* A new manager has nothing in flight.
LEMMA SlotInvInit == Init => SlotInv
<1> SUFFICES ASSUME Init PROVE SlotInv
  OBVIOUS
<1>1. CallsOK
  BY DEF Init, CallsOK, Idle, Places
<1>2. Busy = {} /\ Admitted = {}
  BY DEF Init, Busy, Admitted, Idle
<1>3. Cardinality(Busy) = 0 /\ Cardinality(Admitted) = 0
  BY <1>2, FS_EmptySet
<1> QED BY <1>1, <1>3, LimitPositive DEF SlotInv, SlotsAccountedFor, Init

\* SlotsAccountedFor in every behaviour: the gateway's counter is the number
\* of calls between Begin and their release, and never more than the limit
\* are past Begin, for any number of concurrent calls.
THEOREM SlotsExact == Spec => []SlotsAccountedFor
<1>1. SlotInv => SlotsAccountedFor
  BY DEF SlotInv
<1> QED BY <1>1, SlotInvInit, SlotInvInductive, PTL DEF Spec

-----------------------------------------------------------------------------
(* The cold start *)

\* The shape of the breaker, and what the first success leaves behind: until
\* it is reported nothing is latched or about to be, and one that was counted
\* has cleared the failures before it.
LatchInv ==
    /\ DOMAIN cb = {"state", "requests", "successes", "failures", "expired"}
    /\ first \in {"none", "counted", "ignored"}
    /\ first = "none" => ~sawSuccess /\ \A c \in Calls : call[c].pc # "latching"
    /\ first = "counted" => ~noise

\* Looking at the timers keeps the breaker's shape, and a closed breaker closed.
LEMMA CurrentShape ==
    LatchInv => /\ DOMAIN Current = {"state", "requests", "successes", "failures", "expired"}
                /\ cb.state = "closed" => Current.state = "closed"
BY DEF LatchInv, Current, Generation, Rolled

\* So does counting a call or an outcome, and only a latched success lets a
\* closed breaker open.
LEMMA CountingShape ==
    ASSUME LatchInv
    PROVE  /\ \A next \in {Counted, Succeeded, Failed} :
                DOMAIN next = {"state", "requests", "successes", "failures", "expired"}
           /\ cb.state = "closed" => /\ Counted.state # "open" /\ Succeeded.state # "open"
                                     /\ Failed.state = "open" => sawSuccess
<1>1. /\ DOMAIN Counted = {"state", "requests", "successes", "failures", "expired"}
      /\ cb.state = "closed" => Counted.state # "open"
  BY CurrentShape DEF Counted
<1>2. /\ DOMAIN Succeeded = {"state", "requests", "successes", "failures", "expired"}
      /\ cb.state = "closed" => Succeeded.state # "open"
  BY CurrentShape DEF Succeeded, Generation
<1>3. /\ DOMAIN Failed = {"state", "requests", "successes", "failures", "expired"}
      /\ cb.state = "closed" => (Failed.state = "open" => sawSuccess)
  BY CurrentShape DEF Failed, Generation, ReadyToTrip
<1> QED BY <1>1, <1>2, <1>3

\* A step of a call keeps LatchInv.  Only Done touches first: a success it
\* counts clears noise, and afterwards noise never becomes true again.
LEMMA CallStepKeepsLatch ==
    ASSUME SlotInv, LatchInv, NEW c \in Calls, CallStep(c)
    PROVE  LatchInv'
<1>1. CASE Begin(c) \/ Refuse(c) \/ Serve(c) \/ Release(c)
  <2>1. UNCHANGED <<cb, sawSuccess, noise, first>>
    BY <1>1 DEF Begin, Refuse, Serve, Release
  <2>2. \A d \in Calls : call'[d].pc = "latching" => call[d].pc = "latching"
    <3>1. CASE Begin(c)   BY <3>1 DEF SlotInv, CallsOK, Begin
    <3>2. CASE Refuse(c)  BY <3>2 DEF SlotInv, CallsOK, Refuse, Idle
    <3>3. CASE Serve(c)   BY <3>3 DEF SlotInv, CallsOK, Serve
    <3>4. CASE Release(c) BY <3>4 DEF SlotInv, CallsOK, Release, Idle
    <3> QED BY <1>1, <3>1, <3>2, <3>3, <3>4
  <2> QED BY <2>1, <2>2 DEF LatchInv
<1>2. CASE Allow(c)
  <2>1. cb' \in {Counted, Current} /\ (noise' => noise) /\ UNCHANGED <<sawSuccess, first>>
    BY <1>2 DEF Allow
  <2>2. \A d \in Calls : call'[d].pc = "latching" => call[d].pc = "latching"
    <3>1. /\ Aged \in [Calls -> [pc : Places, cur : BOOLEAN, ok : BOOLEAN]]
          /\ \A d \in Calls : Aged[d].pc = call[d].pc
      BY DEF SlotInv, CallsOK, Aged, Outdated
    <3> QED BY <1>2, <3>1 DEF Allow
  <2>3. DOMAIN cb' = {"state", "requests", "successes", "failures", "expired"}
    BY <2>1, CurrentShape, CountingShape
  <2> QED BY <2>1, <2>2, <2>3 DEF LatchInv
<1>3. CASE Done(c)
  <2>1. cb' \in {Current, Succeeded, Failed} /\ sawSuccess' = sawSuccess
    BY <1>3 DEF Done
  <2>2. DOMAIN cb' = {"state", "requests", "successes", "failures", "expired"}
    BY <2>1, CurrentShape, CountingShape
  <2>3. /\ first' = IF first = "none" /\ call[c].ok
                    THEN IF call[c].cur /\ ~Rolled THEN "counted" ELSE "ignored"
                    ELSE first
        /\ noise' => IF call[c].cur /\ ~Rolled THEN ~call[c].ok /\ (noise \/ first = "none")
                     ELSE noise
    BY <1>3 DEF Done
  <2>4. first' = "none" => \A d \in Calls : call'[d].pc # "latching"
    <3> SUFFICES ASSUME first' = "none" PROVE \A d \in Calls : call'[d].pc # "latching"
      OBVIOUS
    <3>1. first = "none" /\ ~call[c].ok
      BY <2>3 DEF LatchInv
    <3>2. PICK old \in {Outdated, call} : call' = [old EXCEPT ![c].pc = "leaving"]
      BY <1>3, <3>1 DEF Done
    <3>3. /\ old \in [Calls -> [pc : Places, cur : BOOLEAN, ok : BOOLEAN]]
          /\ \A d \in Calls : old[d].pc = call[d].pc
      BY DEF SlotInv, CallsOK, Outdated
    <3> QED BY <3>1, <3>2, <3>3 DEF LatchInv
  <2>5. first' = "counted" => ~noise'
    BY <2>3 DEF LatchInv
  <2> QED BY <2>1, <2>2, <2>3, <2>4, <2>5 DEF LatchInv
<1>4. CASE Latch(c)
  BY <1>4 DEF Latch, LatchInv
<1> QED BY <1>1, <1>2, <1>3, <1>4 DEF CallStep

\* No step breaks LatchInv.
LEMMA LatchInvInductive == SlotInv /\ LatchInv /\ [Next]_vars => LatchInv'
<1> SUFFICES ASSUME SlotInv, LatchInv, [Next]_vars PROVE LatchInv'
  OBVIOUS
<1>1. ASSUME NEW c \in Calls, CallStep(c) PROVE LatchInv'
  BY <1>1, CallStepKeepsLatch
<1>2. CASE OpenTimeout    BY <1>2 DEF OpenTimeout, LatchInv
<1>3. CASE IntervalEnds   BY <1>3 DEF IntervalEnds, LatchInv
<1>4. CASE BackendChanges BY <1>4 DEF BackendChanges, LatchInv
<1>5. CASE UNCHANGED vars BY <1>5 DEF vars, LatchInv
<1> QED BY <1>1, <1>2, <1>3, <1>4, <1>5 DEF Next

\* Only the report of a failure, with the latch set, opens a closed breaker.
LEMMA OnlyLatchedFailuresOpen ==
    LatchInv /\ [Next]_vars => (cb.state = "closed" /\ cb'.state = "open" => sawSuccess)
<1> SUFFICES ASSUME LatchInv, [Next]_vars, cb.state = "closed", cb'.state = "open"
             PROVE  sawSuccess
  OBVIOUS
<1>1. ASSUME NEW c \in Calls, CallStep(c) PROVE sawSuccess
  <2>1. CASE Allow(c)
    <3>1. cb' \in {Counted, Current}
      BY <2>1 DEF Allow
    <3> QED BY <3>1, CurrentShape, CountingShape
  <2>2. CASE Done(c)
    <3>1. cb' \in {Current, Succeeded, Failed}
      BY <2>2 DEF Done
    <3> QED BY <3>1, CurrentShape, CountingShape
  <2>3. CASE cb' = cb
    BY <2>3
  <2> QED BY <1>1, <2>1, <2>2, <2>3 DEF CallStep, Begin, Refuse, Serve, Latch, Release
<1>2. CASE OpenTimeout    BY <1>2 DEF OpenTimeout
<1>3. CASE IntervalEnds   BY <1>3 DEF IntervalEnds, LatchInv
<1>4. CASE BackendChanges BY <1>4 DEF BackendChanges
<1>5. CASE UNCHANGED vars BY <1>5 DEF vars
<1> QED BY <1>1, <1>2, <1>3, <1>4, <1>5 DEF Next

\* ColdStartNeverTrips in every behaviour: no failure reported before the
\* first success is among those that open the breaker, unless that success
\* belonged to an earlier generation of gobreaker's counts.
THEOREM ColdStart == Spec => ColdStartNeverTrips
<1>1. Init => LatchInv
  BY DEF Init, LatchInv, Generation, Idle
<1>2. LatchInv /\ [Next]_vars
      => [cb.state = "closed" /\ cb'.state = "open" => ~noise \/ first = "ignored"]_vars
  BY OnlyLatchedFailuresOpen DEF LatchInv
<1> QED BY <1>1, <1>2, SlotInvInit, SlotInvInductive, LatchInvInductive, PTL
        DEF Spec, ColdStartNeverTrips
=============================================================================
