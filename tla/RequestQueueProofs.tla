------------------------- MODULE RequestQueueProofs -------------------------
(***************************************************************************)
(* Proofs about RequestQueue, for every number of requests, machines and   *)
(* attempts and every lease, timeout, backoff and retention length.        *)
(*                                                                         *)
(* Every operation changes one row at a time, and no row operation looks   *)
(* at another row, so the inductive invariant is a predicate RowInv of one *)
(* row and its grants.  The first part shows which row operations keep it; *)
(* the second lifts that to the actions.                                   *)
(***************************************************************************)
EXTENDS RequestQueue, TLAPS

\* What holds of one row and of the grants g recorded for it.
RowInv(row, g) ==
    /\ row \in Row
    /\ g \in [1..MaxAttempts -> MachineIDs]
    /\ row.status = "absent" => row.epoch = 0
    /\ row.status # "deleted" =>
         /\ row.attempts = row.epoch
         /\ \A e \in 1..MaxAttempts : g[e] # NoMachine <=> e <= row.epoch
    /\ InFlight(row) => Leased(row)
    /\ Leased(row) =>
         /\ row.exec = row.leasedBy
         /\ row.epoch > 0
         /\ g[row.epoch] = row.leasedBy
         /\ ~ IsTerminalStatus(row.status)
         /\ ~ row.deadLetter
         /\ InStore(row)

\* The inductive invariant.
IInv == TypeOK /\ \A r \in Requests : RowInv(rows[r], granted[r])

-----------------------------------------------------------------------------

\* Rows stay rows when a column gets a value of its type.
LEMMA SetColumn ==
    ASSUME NEW row \in Row
    PROVE  /\ \A v \in Statuses : [row EXCEPT !.status = v] \in Row
           /\ \A v \in MachineIDs : [row EXCEPT !.exec = v] \in Row
           /\ \A v \in MachineIDs : [row EXCEPT !.leasedBy = v] \in Row
           /\ \A v \in Nat : [row EXCEPT !.visibleIn = v] \in Row
           /\ \A v \in Int : [row EXCEPT !.deadlineIn = v] \in Row
           /\ \A v \in Epochs : [row EXCEPT !.attempts = v] \in Row
           /\ \A v \in Epochs : [row EXCEPT !.epoch = v] \in Row
           /\ \A v \in BOOLEAN : [row EXCEPT !.deadLetter = v] \in Row
           /\ \A v \in MachineIDs : [row EXCEPT !.resultBy = v] \in Row
           /\ \A v \in Epochs : [row EXCEPT !.resultOf = v] \in Row
           /\ \A v \in Nat : [row EXCEPT !.keepIn = v] \in Row
BY Zenon DEF Row

\* The values the operations write have the columns' types.
LEMMA ColumnTypes ==
    /\ RowStatuses \subseteq Statuses
    /\ Machines \subseteq MachineIDs /\ NoMachine \in MachineIDs
    /\ LeaseDuration \in Nat /\ RetryBackoff \in Nat /\ RetentionAge \in Nat
    /\ 0 \in Nat /\ 0 \in Int /\ 0 \in Epochs
    /\ TRUE \in BOOLEAN /\ FALSE \in BOOLEAN
    /\ \A row \in Row : /\ row.timeout \in Int /\ row.epoch \in Epochs
                         /\ row.attempts \in Epochs /\ row.visibleIn \in Nat
                         /\ row.deadlineIn \in Int /\ row.keepIn \in Nat
BY AttemptsAssumption, ClockAssumption DEF Statuses, MachineIDs, Epochs, Row

\* A fresh row has no grant and no holder.
LEMMA NewRequestInv ==
    ASSUME NEW row, NEW g, RowInv(row, g), row.status = "absent",
           NEW t \in RequestTimeouts
    PROVE  RowInv(NewRequest(t), g)
BY AttemptsAssumption, ClockAssumption, MachinesAssumption
   DEF RowInv, Row, NewRequest, InFlight, Leased, InStore, RowStatuses, Statuses,
       Epochs, MachineIDs

\* A claim makes the claimer the grantee of the next epoch.
LEMMA ClaimInv ==
    ASSUME NEW row, NEW g, RowInv(row, g), Claimable(row), NEW m \in Machines
    PROVE  RowInv(ClaimRow(row, m), [g EXCEPT ![row.epoch + 1] = m])
<1> DEFINE new == ClaimRow(row, m)
           newg == [g EXCEPT ![row.epoch + 1] = m]
<1>0. row \in Row /\ g \in [1..MaxAttempts -> MachineIDs] /\ row.attempts = row.epoch
  BY Zenon DEF RowInv, Claimable
<1>1. row.epoch + 1 \in 1..MaxAttempts /\ row.attempts + 1 \in Epochs
  BY <1>0, AttemptsAssumption DEF Row, Epochs, Claimable
<1>2. GrantLease(Touch(row), m) \in Row
  BY Zenon, <1>0, SetColumn, ColumnTypes DEF GrantLease, Touch
<1>3. /\ GrantLease(Touch(row), m).attempts = row.attempts
      /\ GrantLease(Touch(row), m).epoch = row.epoch
  BY Zenon, <1>0 DEF GrantLease, Touch, Row
<1>4. new \in Row
  <2> DEFINE leased == GrantLease(Touch(row), m)
  <2> HIDE DEF leased
  <2>1. "claimed" \in Statuses /\ leased.attempts + 1 \in Epochs /\ leased.epoch + 1 \in Epochs
    BY Zenon, <1>0, <1>1, <1>3 DEF leased, Statuses, RowStatuses, Epochs
  <2>2. [[leased EXCEPT !.status = "claimed"] EXCEPT !.attempts = leased.attempts + 1] \in Row
    BY Zenon, <1>2, <2>1, SetColumn DEF leased
  <2>3. [[[leased EXCEPT !.status = "claimed"] EXCEPT !.attempts = leased.attempts + 1]
           EXCEPT !.epoch = leased.epoch + 1] \in Row
    BY Zenon, <2>1, <2>2, SetColumn
  <2> QED BY Zenon, <2>3 DEF leased, ClaimRow
<1>5. /\ new.status = "claimed" /\ new.exec = m /\ new.leasedBy = m
      /\ new.attempts = row.attempts + 1 /\ new.epoch = row.epoch + 1
      /\ new.deadLetter = row.deadLetter
  BY Zenon, <1>0 DEF ClaimRow, GrantLease, Touch, Row
<1>6. newg \in [1..MaxAttempts -> MachineIDs]
  BY Zenon, <1>0, <1>1, ColumnTypes
<1>7. \A e \in 1..MaxAttempts : newg[e] # NoMachine <=> e <= new.epoch
  BY <1>0, <1>1, <1>5, MachinesAssumption, ColumnTypes DEF RowInv, Claimable, Epochs
<1>8. newg[new.epoch] = m
  BY Zenon, <1>0, <1>1, <1>5
<1> HIDE DEF new, newg
<1>9. RowInv(new, newg)
  BY <1>0, <1>1, <1>4, <1>5, <1>6, <1>7, <1>8, MachinesAssumption
     DEF RowInv, Claimable, InFlight, Leased, InStore, IsTerminalStatus, RowStatuses, Epochs
<1> QED BY Zenon, <1>9 DEF new, newg

\* Moving updated_at changes nothing the invariant reads.
LEMMA TouchInv ==
    ASSUME NEW row, NEW g, RowInv(row, g)
    PROVE  RowInv(Touch(row), g)
<1> DEFINE new == Touch(row)
<1>0. row \in Row BY Zenon DEF RowInv
<1>1. new \in Row
  BY Zenon, <1>0, SetColumn, ColumnTypes DEF Touch
<1>2. /\ new.status = row.status /\ new.exec = row.exec /\ new.leasedBy = row.leasedBy
      /\ new.attempts = row.attempts /\ new.epoch = row.epoch
      /\ new.deadLetter = row.deadLetter
  BY Zenon, <1>0 DEF Touch, Row
<1> HIDE DEF new
<1>3. RowInv(new, g)
  BY Zenon, <1>1, <1>2, MachinesAssumption
     DEF RowInv, InFlight, Leased, InStore, IsTerminalStatus, RowStatuses
<1> QED BY Zenon, <1>3 DEF new

\* A result, a rejection or a cancellation ends the lease.
LEMMA SetResultInv ==
    ASSUME NEW row, NEW g, RowInv(row, g), InStore(row),
           NEW status \in {"done", "failure", "cancelled"}, NEW m \in MachineIDs,
           NEW e \in Epochs, NEW dead \in BOOLEAN
    PROVE  RowInv([SetResult(row, status, m, e) EXCEPT !.deadLetter = dead], g)
<1> DEFINE new == [SetResult(row, status, m, e) EXCEPT !.deadLetter = dead]
<1>0. row \in Row BY Zenon DEF RowInv
<1>1. new \in Row
  BY ZenonT(40), <1>0, SetColumn, ColumnTypes DEF SetResult, ReleaseLease, Touch, Statuses, RowStatuses
<1>2. /\ new.status = status /\ new.leasedBy = NoMachine
      /\ new.attempts = row.attempts /\ new.epoch = row.epoch
  BY Zenon, <1>0 DEF SetResult, ReleaseLease, Touch, Row
<1> HIDE DEF new
<1>3. RowInv(new, g)
  BY Zenon, <1>1, <1>2, MachinesAssumption
     DEF RowInv, InFlight, Leased, InStore, IsTerminalStatus, RowStatuses
<1> QED BY Zenon, <1>3 DEF new

\* A requeue ends the lease and keeps the count of attempts.
LEMMA RequeueInv ==
    ASSUME NEW row, NEW g, RowInv(row, g), InStore(row)
    PROVE  RowInv(RequeueRequestFenced(row), g)
<1> DEFINE new == RequeueRequestFenced(row)
<1>0. row \in Row BY Zenon DEF RowInv
<1>1. new \in Row
  BY Zenon, <1>0, SetColumn, ColumnTypes DEF RequeueRequestFenced, ReleaseLease, Touch, Statuses, RowStatuses
<1>2. /\ new.status = "pending" /\ new.leasedBy = NoMachine
      /\ new.attempts = row.attempts /\ new.epoch = row.epoch
  BY Zenon, <1>0 DEF RequeueRequestFenced, ReleaseLease, Touch, Row
<1> HIDE DEF new
<1>3. RowInv(new, g)
  BY Zenon, <1>1, <1>2, MachinesAssumption
     DEF RowInv, InFlight, Leased, InStore, IsTerminalStatus, RowStatuses
<1> QED BY Zenon, <1>3 DEF new

\* So does a reclaim, whether it requeues or dead-letters.
LEMMA ReclaimInv ==
    ASSUME NEW row, NEW g, RowInv(row, g), InStore(row)
    PROVE  RowInv(ReclaimExpiredRequest(row), g)
<1> DEFINE new == ReclaimExpiredRequest(row)
<1>0. row \in Row BY Zenon DEF RowInv
<1>1. new \in Row
  BY Zenon, <1>0, SetColumn, ColumnTypes DEF ReclaimExpiredRequest, ReleaseLease, Touch, Statuses, RowStatuses
<1>2. /\ new.status \in {"pending", "failure"} /\ new.leasedBy = NoMachine
      /\ new.attempts = row.attempts /\ new.epoch = row.epoch
  BY Zenon, <1>0 DEF ReclaimExpiredRequest, ReleaseLease, Touch, Row
<1> HIDE DEF new
<1>3. RowInv(new, g)
  BY Zenon, <1>1, <1>2, MachinesAssumption
     DEF RowInv, InFlight, Leased, InStore, IsTerminalStatus, RowStatuses
<1> QED BY Zenon, <1>3 DEF new

\* A renewal moves the lease deadline only.
LEMMA RenewInv ==
    ASSUME NEW row, NEW g, RowInv(row, g), Renewable(row)
    PROVE  RowInv(RenewLease(row), g)
<1> DEFINE new == RenewLease(row)
           visible == RenewedVisible(row)
<1>0. row \in Row BY Zenon DEF RowInv
<1>1. visible \in Nat
  BY <1>0, ColumnTypes DEF Renewable, RenewedVisible, Min2
<1>2. new \in Row
  <2> HIDE DEF visible
  <2>1. [[row EXCEPT !.keepIn = RetentionAge] EXCEPT !.visibleIn = visible] \in Row
    BY Zenon, <1>0, <1>1, SetColumn, ColumnTypes
  <2> QED BY Zenon, <2>1 DEF visible, RenewLease, Touch
<1>3. /\ new.status = row.status /\ new.exec = row.exec /\ new.leasedBy = row.leasedBy
      /\ new.attempts = row.attempts /\ new.epoch = row.epoch
      /\ new.deadLetter = row.deadLetter
  BY Zenon, <1>0 DEF RenewLease, Touch, Row
<1> HIDE DEF new
<1>4. RowInv(new, g)
  BY Zenon, <1>2, <1>3 DEF RowInv, InFlight, Leased, InStore
<1> QED BY Zenon, <1>4 DEF new

\* The clock moves the three countdowns only.
LEMMA AgeInv ==
    ASSUME NEW row, NEW g, RowInv(row, g)
    PROVE  RowInv(Age(row), g)
<1> DEFINE new == Age(row)
           visible == Max2(row.visibleIn - 1, 0)
           deadline == IF Leased(row) THEN Max2(row.deadlineIn - 1, -1) ELSE row.deadlineIn
           keep == IF HasResult(row) THEN Max2(row.keepIn - 1, 0) ELSE row.keepIn
<1>0. row \in Row BY Zenon DEF RowInv
<1>1. visible \in Nat /\ deadline \in Int /\ keep \in Nat
  BY <1>0, ColumnTypes DEF Max2
<1>2. new \in Row
  <2> HIDE DEF visible, deadline, keep
  <2>1. [[[row EXCEPT !.visibleIn = visible] EXCEPT !.deadlineIn = deadline]
           EXCEPT !.keepIn = keep] \in Row
    BY Zenon, <1>0, <1>1, SetColumn
  <2> QED BY Zenon, <2>1 DEF visible, deadline, keep, Age
<1>3. /\ new.status = row.status /\ new.exec = row.exec /\ new.leasedBy = row.leasedBy
      /\ new.attempts = row.attempts /\ new.epoch = row.epoch
      /\ new.deadLetter = row.deadLetter
  BY Zenon, <1>0 DEF Age, Row
<1> HIDE DEF new
<1>4. RowInv(new, g)
  BY Zenon, <1>2, <1>3 DEF RowInv, InFlight, Leased, InStore
<1> QED BY Zenon, <1>4 DEF new

\* The retention sweep leaves a row alone or empties it.
LEMMA DeleteInv ==
    ASSUME NEW row, NEW g, RowInv(row, g)
    PROVE  RowInv(DeleteTerminalRequestsBefore(row), g)
<1>1. g \in [1..MaxAttempts -> MachineIDs] BY Zenon DEF RowInv
<1>2. NewRequest(0) \in Row /\ NewRequest(0).leasedBy = NoMachine
  BY Zenon, ColumnTypes DEF Row, NewRequest, Statuses, RowStatuses
<1>3. DeletedRow \in Row
  BY Zenon, <1>2, SetColumn DEF DeletedRow, Statuses
<1>4. DeletedRow.status = "deleted" /\ DeletedRow.leasedBy = NoMachine
  BY Zenon DEF DeletedRow, NewRequest
<1>5. RowInv(DeletedRow, g)
  BY Zenon, <1>1, <1>3, <1>4 DEF RowInv, InFlight, Leased
<1> QED BY Zenon, <1>5 DEF DeleteTerminalRequestsBefore

\* A provider's update: the caller passed the fence of a row with no result, so
\* it is the holder, and stays it unless the update ends the request.
LEMMA UpdateInv ==
    ASSUME NEW row, NEW g, RowInv(row, g), NEW m \in Machines, NEW e \in Epochs,
           CheckLeaseFence(row, m, e), ~ HasResult(row),
           NEW status \in UpdateStatuses, NEW withResult \in BOOLEAN
    PROVE  RowInv(UpdateRequestFenced(row, m, e, status, withResult), g)
<1> DEFINE touched == Touch(row)
           moved == IF status \in {NoStatus, row.status} THEN touched
                                                         ELSE MoveTo(touched, m, status)
           new == WriteResult(moved, m, e, withResult)
<1>1. RowInv(touched, g) /\ touched \in Row
  BY Zenon, TouchInv DEF RowInv
<1>2. touched.leasedBy = m /\ touched.status = row.status
  BY Zenon DEF RowInv, Row, Touch, CheckLeaseFence, HasResult
<1>3. RowInv(moved, g)
  <2> HIDE DEF touched
  <2>1. CASE status \in {NoStatus, row.status}
    BY Zenon, <1>1, <2>1
  <2>2. CASE status \notin {NoStatus, row.status}
    <3> DEFINE mv == MoveTo(touched, m, status)
    <3>1. status \in {"pending", "claimed", "running", "done", "failure"}
      BY Zenon, <2>2 DEF UpdateStatuses
    <3>2. mv \in Row
      BY Zenon, <1>1, <3>1, SetColumn, ColumnTypes
         DEF MoveTo, GrantLease, ReleaseLease, RowStatuses
    <3>3. /\ mv.status = status
          /\ mv.attempts = touched.attempts /\ mv.epoch = touched.epoch
          /\ mv.deadLetter = touched.deadLetter
          /\ status \in {"done", "failure"} => mv.leasedBy = NoMachine
          /\ status = "running" => mv.leasedBy = m /\ mv.exec = m
          /\ status \in {"pending", "claimed"} =>
               mv.leasedBy = touched.leasedBy /\ mv.exec = touched.exec
      BY Zenon, <1>1, <3>1 DEF MoveTo, GrantLease, ReleaseLease, Row
    <3> HIDE DEF mv
    <3>4. RowInv(mv, g)
      BY Zenon, <1>1, <1>2, <3>1, <3>2, <3>3, MachinesAssumption
         DEF RowInv, InFlight, Leased, InStore, IsTerminalStatus, RowStatuses
    <3> QED BY Zenon, <2>2, <3>4 DEF mv
  <2> QED BY Zenon, <2>1, <2>2
<1>4. RowInv(new, g)
  <2> HIDE DEF moved
  <2>1. moved \in Row BY Zenon, <1>3 DEF RowInv
  <2>2. new \in Row
    BY Zenon, <2>1, SetColumn, ColumnTypes DEF WriteResult
  <2>3. /\ new.status = moved.status /\ new.exec = moved.exec
        /\ new.leasedBy = moved.leasedBy /\ new.attempts = moved.attempts
        /\ new.epoch = moved.epoch /\ new.deadLetter = moved.deadLetter
    BY Zenon, <2>1 DEF WriteResult, Row
  <2> HIDE DEF new
  <2> QED BY Zenon, <1>3, <2>2, <2>3 DEF RowInv, InFlight, Leased, InStore
<1> QED BY Zenon, <1>4 DEF UpdateRequestFenced

-----------------------------------------------------------------------------

\* A step that rewrites one row, keeping its invariant, keeps the whole one.
LEMMA OneRow ==
    ASSUME IInv, NEW r \in Requests, NEW row, Put(r, row), UNCHANGED owner,
           \/ granted' = granted /\ RowInv(row, granted[r])
           \/ \E g : granted' = [granted EXCEPT ![r] = g] /\ RowInv(row, g)
    PROVE  IInv'
<1>1. rows' \in [Requests -> Row] /\ rows' = [rows EXCEPT ![r] = row]
  BY Zenon DEF IInv, TypeOK, Put, RowInv
<1>2. granted' \in [Requests -> [1..MaxAttempts -> MachineIDs]]
  BY Zenon DEF IInv, TypeOK, RowInv
<1>3. \A q \in Requests : RowInv(rows'[q], granted'[q])
  <2> TAKE q \in Requests
  <2>1. CASE q = r BY Zenon, <1>1, <2>1 DEF IInv, TypeOK
  <2>2. CASE q # r
    <3>1. rows'[q] = rows[q] /\ granted'[q] = granted[q]
      BY Zenon, <1>1, <2>2 DEF IInv, TypeOK
    <3> QED BY Zenon, <3>1 DEF IInv
  <2> QED BY Zenon, <2>1, <2>2
<1>4. owner' \in [Tools -> MachineIDs]
  BY Zenon DEF IInv, TypeOK
<1>5. TypeOK'
  BY Zenon, <1>1, <1>2, <1>4 DEF TypeOK
<1> QED BY Zenon, <1>3, <1>5 DEF IInv

\* So does one that rewrites every row, keeping the invariant of each.
LEMMA AllRows ==
    ASSUME IInv, UNCHANGED <<owner, granted>>,
           rows' = [r \in Requests |-> rows'[r]],
           \A r \in Requests : RowInv(rows'[r], granted[r])
    PROVE  IInv'
<1>1. rows' \in [Requests -> Row]
  BY Zenon DEF RowInv
<1> QED BY Zenon, <1>1 DEF IInv, TypeOK

\* A claim, by id or of the oldest pending request.
LEMMA GrantStep ==
    ASSUME IInv, NEW r \in Requests, NEW m \in Machines, Claimable(rows[r]), Grant(r, m)
    PROVE  IInv'
<1> DEFINE g == [granted[r] EXCEPT ![rows[r].epoch + 1] = m]
<1>1. RowInv(ClaimRow(rows[r], m), g)
  BY Zenon, ClaimInv DEF IInv
<1>2. granted' = [granted EXCEPT ![r] = g]
  BY Zenon DEF Grant
<1> HIDE DEF g
<1> QED BY Zenon, <1>1, <1>2, OneRow DEF Grant

\* Every step keeps the invariant.
LEMMA NextKeepsIInv ==
    ASSUME IInv, [Next]_vars
    PROVE  IInv'
<1>1. ASSUME NEW r \in Requests, NEW timeout \in RequestTimeouts, CreateRequest(r, timeout)
      PROVE  IInv'
  BY Zenon, <1>1, NewRequestInv, OneRow DEF CreateRequest, IInv
<1>2. ASSUME NEW r \in Requests, CancelRequest(r) PROVE IInv'
  <2>1. RowInv(CancelRequestFenced(rows[r]), granted[r])
    BY Zenon, <1>2, SetResultInv, ColumnTypes DEF CancelRequest, CancelRequestFenced, IInv
  <2> QED BY Zenon, <1>2, <2>1, OneRow DEF CancelRequest
<1>3. ASSUME NEW r \in Requests, reclaimExpired(r) PROVE IInv'
  BY Zenon, <1>3, ReclaimInv, OneRow DEF reclaimExpired, FindExpiredRequests, IInv
<1>4. ASSUME NEW m \in Machines, NEW locked \in SUBSET Requests, ClaimPendingRequest(m, locked)
      PROVE  IInv'
  BY Zenon, <1>4, GrantStep DEF ClaimPendingRequest, Leasable
<1>5. ASSUME NEW r \in Requests, NEW m \in Machines, ClaimRequest(r, m) PROVE IInv'
  BY Zenon, <1>5, GrantStep DEF ClaimRequest
<1>6. ASSUME NEW r \in Requests, NEW m \in Machines, NEW e \in Epochs,
             NEW status \in ProviderStatuses, NEW withResult \in BOOLEAN,
             NEW slot \in BOOLEAN, UpdateRequest(r, m, e, status, withResult, slot)
      PROVE  IInv'
  <2>1. RowInv(rows[r], granted[r]) /\ InStore(rows[r]) /\ status \in UpdateStatuses
    BY Zenon, <1>6, StatusAssumption DEF IInv, UpdateRequest, CheckLeaseFence
  <2>2. CASE Put(r, RequeueRequestFenced(rows[r]))
    BY Zenon, <1>6, <2>1, <2>2, RequeueInv, OneRow DEF UpdateRequest
  <2>3. CASE /\ ~ HasResult(rows[r])
             /\ Put(r, UpdateRequestFenced(rows[r], m, e, status, withResult))
    BY Zenon, <1>6, <2>1, <2>3, UpdateInv, OneRow DEF UpdateRequest
  <2> QED BY Zenon, <1>6, <2>2, <2>3 DEF UpdateRequest
<1>7. ASSUME NEW r \in Requests, NEW m \in Machines, NEW e \in Epochs,
             NEW resultType \in ResultTypes, SubmitRequestResult(r, m, e, resultType)
      PROVE  IInv'
  <2>1. RowInv(rows[r], granted[r]) /\ InStore(rows[r])
    BY Zenon, <1>7 DEF IInv, SubmitRequestResult, CheckLeaseFence
  <2>2. CASE Put(r, Touch(rows[r]))
    BY Zenon, <1>7, <2>1, <2>2, TouchInv, OneRow DEF SubmitRequestResult
  <2>3. ASSUME NEW status \in {"done", "failure"},
               Put(r, SubmitRequestResultFenced(rows[r], status, m, e))
        PROVE  IInv'
    <3>1. RowInv(SubmitRequestResultFenced(rows[r], status, m, e), granted[r])
      BY Zenon, <2>1, SetResultInv, ColumnTypes DEF SubmitRequestResultFenced
    <3> QED BY Zenon, <1>7, <2>3, <3>1, OneRow DEF SubmitRequestResult
  <2> QED BY Zenon, <1>7, <2>2, <2>3 DEF SubmitRequestResult
<1>8. ASSUME NEW r \in Requests, NEW m \in Machines, NEW e \in Epochs, AppendRequestChunks(r, m, e)
      PROVE  IInv'
  BY Zenon, <1>8, TouchInv, OneRow DEF AppendRequestChunks, IInv
<1>9. ASSUME NEW r \in Requests, NEW m \in Machines, NEW e \in Epochs, RenewRequestLease(r, m, e)
      PROVE  IInv'
  BY Zenon, <1>9, RenewInv, OneRow DEF RenewRequestLease, IInv
<1>10. CASE cleanupTerminalRequests
  BY Zenon, <1>10, DeleteInv, AllRows DEF cleanupTerminalRequests, IInv
<1>11. CASE Tick
  BY Zenon, <1>11, AgeInv, AllRows DEF Tick, IInv
<1>12. CASE RegistryNext
  BY Zenon, <1>12, ColumnTypes
     DEF RegistryNext, ClaimToolOwnership, DeleteToolsByMachine, IInv, TypeOK
<1>13. CASE UNCHANGED vars
  BY Zenon, <1>13 DEF vars, IInv, TypeOK
<1> QED
  BY <1>1, <1>2, <1>3, <1>4, <1>5, <1>6, <1>7, <1>8, <1>9, <1>10, <1>11, <1>12, <1>13
     DEF Next, QueueNext, ProviderNext

\* The queue starts empty, with no grant recorded.
LEMMA InitIInv == Init => IInv
<1> SUFFICES ASSUME Init PROVE IInv BY Zenon
<1>1. NewRequest(0) \in Row
  BY Zenon, ColumnTypes DEF Row, NewRequest, Statuses, RowStatuses
<1>2. AbsentRow \in Row
  BY Zenon, <1>1, SetColumn DEF AbsentRow, Statuses
<1>3. /\ AbsentRow.status = "absent" /\ AbsentRow.leasedBy = NoMachine
      /\ AbsentRow.epoch = 0 /\ AbsentRow.attempts = 0
  BY Zenon DEF AbsentRow, NewRequest
<1>4. \A r \in Requests : RowInv(rows[r], granted[r])
  BY <1>2, <1>3, AttemptsAssumption, ColumnTypes DEF Init, RowInv, InFlight, Leased
<1> QED BY Zenon, <1>2, <1>4, ColumnTypes DEF Init, IInv, TypeOK

\* The inductive invariant holds in every reachable state.
THEOREM IInvHolds == Spec => []IInv
BY InitIInv, NextKeepsIInv, PTL DEF Spec

\* The columns keep their types: no sequence of claims, reclaims and requeues
\* drives the attempt counter or the epoch past max_attempts.
THEOREM TypeCorrect == Spec => []TypeOK
<1>1. IInv => TypeOK BY Zenon DEF IInv
<1> QED BY <1>1, IInvHolds, PTL

\* Attempts, epochs and grants count the same thing (ClaimRequest,
\* LeasePendingRequest and ReclaimExpiredRequest).
THEOREM AttemptsCorrect == Spec => []AttemptsAreGrants
<1>1. IInv => AttemptsAreGrants BY Zenon DEF IInv, RowInv, AttemptsAreGrants
<1> QED BY <1>1, IInvHolds, PTL

\* The lease of a request is always the latest grant, and only unfinished
\* requests are leased: at most one machine passes CheckLeaseFence on a live row.
THEOREM LeaseCorrect == Spec => []LeaseIsLatestGrant
<1>1. IInv => LeaseIsLatestGrant BY Zenon DEF IInv, RowInv, LeaseIsLatestGrant
<1> QED BY <1>1, IInvHolds, PTL

-----------------------------------------------------------------------------

\* What one operation can do to one row and to its grants.
OpStep(row, new, g, newg) ==
    \/ /\ row.status = "absent" /\ newg = g
       /\ \E t \in RequestTimeouts : new = NewRequest(t)
    \/ /\ InStore(row) /\ ~ IsTerminalStatus(row.status) /\ newg = g
       /\ new = CancelRequestFenced(row)
    \/ Reclaimable(row) /\ new = ReclaimExpiredRequest(row) /\ newg = g
    \/ \E m \in Machines :
          /\ Claimable(row)
          /\ new = ClaimRow(row, m)
          /\ newg = [g EXCEPT ![row.epoch + 1] = m]
    \/ \E m \in Machines :
          /\ CheckLeaseFence(row, m, row.epoch)
          /\ newg = g
          /\ \/ new = RequeueRequestFenced(row)
             \/ new = Touch(row)
             \/ Renewable(row) /\ new = RenewLease(row)
             \/ /\ ~ HasResult(row)
                /\ \E status \in UpdateStatuses, withResult \in BOOLEAN :
                      new = UpdateRequestFenced(row, m, row.epoch, status, withResult)
             \/ /\ ~ HasResult(row)
                /\ \E status \in {"done", "failure"} :
                      new = SubmitRequestResultFenced(row, status, m, row.epoch)

\* One operation on row r, which leaves every other row and its grants alone.
OpOn(r) ==
    /\ rows' = [rows EXCEPT ![r] = rows'[r]]
    /\ granted' = [granted EXCEPT ![r] = granted'[r]]
    /\ OpStep(rows[r], rows'[r], granted[r], granted'[r])

\* Every step is an operation on one row, a sweep, a clock tick, or no step of
\* the requests table.
LEMMA NextIsOp ==
    ASSUME IInv, [Next]_vars
    PROVE  \/ \E r \in Requests : OpOn(r)
           \/ cleanupTerminalRequests
           \/ Tick
           \/ UNCHANGED <<rows, granted>>
<1>0. rows \in [Requests -> Row] /\ granted \in [Requests -> [1..MaxAttempts -> MachineIDs]]
  BY Zenon DEF IInv, TypeOK
<1>1. ASSUME NEW r \in Requests, NEW timeout \in RequestTimeouts, CreateRequest(r, timeout)
      PROVE  OpOn(r)
  BY Zenon, <1>0, <1>1 DEF CreateRequest, Put, OpOn, OpStep
<1>2. ASSUME NEW r \in Requests, CancelRequest(r) PROVE OpOn(r)
  BY Zenon, <1>0, <1>2 DEF CancelRequest, Put, OpOn, OpStep
<1>3. ASSUME NEW r \in Requests, reclaimExpired(r) PROVE OpOn(r)
  BY Zenon, <1>0, <1>3 DEF reclaimExpired, Put, OpOn, OpStep
<1>4. ASSUME NEW r \in Requests, NEW m \in Machines, Claimable(rows[r]), Grant(r, m)
      PROVE  OpOn(r)
  BY Zenon, <1>0, <1>4 DEF Grant, Put, OpOn, OpStep
<1>5. ASSUME NEW r \in Requests, NEW m \in Machines, NEW e \in Epochs,
             NEW status \in ProviderStatuses, NEW withResult \in BOOLEAN,
             NEW slot \in BOOLEAN, UpdateRequest(r, m, e, status, withResult, slot)
      PROVE  OpOn(r)
  <2>1. status \in UpdateStatuses /\ e = rows[r].epoch /\ CheckLeaseFence(rows[r], m, rows[r].epoch)
    BY Zenon, <1>5, StatusAssumption DEF UpdateRequest, CheckLeaseFence
  <2> QED BY Zenon, <1>0, <1>5, <2>1 DEF UpdateRequest, Put, OpOn, OpStep
<1>6. ASSUME NEW r \in Requests, NEW m \in Machines, NEW e \in Epochs,
             NEW resultType \in ResultTypes, SubmitRequestResult(r, m, e, resultType)
      PROVE  OpOn(r)
  <2>1. e = rows[r].epoch /\ CheckLeaseFence(rows[r], m, rows[r].epoch)
    BY Zenon, <1>6 DEF SubmitRequestResult, CheckLeaseFence
  <2> QED BY Zenon, <1>0, <1>6, <2>1 DEF SubmitRequestResult, Put, OpOn, OpStep
<1>7. ASSUME NEW r \in Requests, NEW m \in Machines, NEW e \in Epochs,
             AppendRequestChunks(r, m, e) \/ RenewRequestLease(r, m, e)
      PROVE  OpOn(r)
  <2>1. e = rows[r].epoch /\ CheckLeaseFence(rows[r], m, rows[r].epoch)
    BY Zenon, <1>7 DEF AppendRequestChunks, RenewRequestLease, CheckLeaseFence
  <2> QED BY Zenon, <1>0, <1>7, <2>1 DEF AppendRequestChunks, RenewRequestLease, Put, OpOn, OpStep
<1>8. CASE RegistryNext \/ UNCHANGED vars
  BY Zenon, <1>8 DEF RegistryNext, ClaimToolOwnership, DeleteToolsByMachine, vars
<1> QED
  BY <1>1, <1>2, <1>3, <1>4, <1>5, <1>6, <1>7, <1>8
     DEF Next, QueueNext, ProviderNext, ClaimRequest, ClaimPendingRequest, Leasable

\* What one step can do to one row and to its grants.
RowStep(row, new, g, newg) ==
    \/ new = row /\ newg = g
    \/ new = Age(row) /\ newg = g
    \/ new = DeleteTerminalRequestsBefore(row) /\ newg = g
    \/ OpStep(row, new, g, newg)

\* Every step of the queue is such a step of every row.
LEMMA NextIsRowStep ==
    ASSUME IInv, [Next]_vars, NEW q \in Requests
    PROVE  RowStep(rows[q], rows'[q], granted[q], granted'[q])
<1>0. rows \in [Requests -> Row] /\ granted \in [Requests -> [1..MaxAttempts -> MachineIDs]]
  BY Zenon DEF IInv, TypeOK
<1>1. ASSUME NEW r \in Requests, OpOn(r)
      PROVE  RowStep(rows[q], rows'[q], granted[q], granted'[q])
  BY Zenon, <1>0, <1>1 DEF OpOn, RowStep
<1>2. CASE cleanupTerminalRequests \/ Tick \/ UNCHANGED <<rows, granted>>
  BY Zenon, <1>0, <1>2 DEF cleanupTerminalRequests, Tick, RowStep
<1> QED BY Zenon, <1>1, <1>2, NextIsOp

\* The columns a step may change, and how.
LEMMA RowStepColumns ==
    ASSUME NEW row, NEW new, NEW g, NEW newg, RowInv(row, g), RowStep(row, new, g, newg)
    PROVE  /\ \/ new.resultBy = NoMachine
              \/ new.resultBy = row.resultBy /\ new.resultOf = row.resultOf
              \/ new.resultBy = row.leasedBy /\ new.resultOf = row.epoch
           /\ row.status = "cancelled" => Outcome(new) = Outcome(row)
           /\ HasResult(row) =>
                \/ new.status \in {"pending", "deleted"}
                \/ /\ new.status = row.status /\ new.resultBy = row.resultBy
                   /\ new.resultOf = row.resultOf
<1>0. row \in Row /\ row.leasedBy \in MachineIDs /\ (Leased(row) => ~ IsTerminalStatus(row.status))
  BY Zenon DEF RowInv, Row
<1>1. CASE new = row \/ new = Age(row) \/ new = Touch(row) \/ new = RenewLease(row)
  BY ZenonT(40), <1>0, <1>1 DEF Age, Touch, RenewLease, Row, Outcome, HasResult
<1>2. CASE new = DeleteTerminalRequestsBefore(row)
  BY Zenon, <1>0, <1>2 DEF DeleteTerminalRequestsBefore, DeletedRow, NewRequest, HasResult, Outcome
<1>3. ASSUME row.status = "absent", NEW t, new = NewRequest(t)
      PROVE  new.resultBy = NoMachine
  BY Zenon, <1>3 DEF NewRequest
<1>4. CASE ~ IsTerminalStatus(row.status) /\ new = CancelRequestFenced(row)
  BY Zenon, <1>0, <1>4
     DEF CancelRequestFenced, SetResult, ReleaseLease, Touch, Row, IsTerminalStatus, HasResult
<1>5. CASE Reclaimable(row) /\ new = ReclaimExpiredRequest(row)
  BY Zenon, <1>0, <1>5
     DEF Reclaimable, InFlight, ReclaimExpiredRequest, ReleaseLease, Touch, Row, HasResult
<1>6. ASSUME NEW m \in Machines, Claimable(row), new = ClaimRow(row, m)
      PROVE  new.resultBy = row.resultBy /\ new.resultOf = row.resultOf /\ row.status = "pending"
  BY Zenon, <1>0, <1>6 DEF Claimable, ClaimRow, GrantLease, Touch, Row
<1>7. ASSUME NEW m \in Machines, CheckLeaseFence(row, m, row.epoch), new = RequeueRequestFenced(row)
      PROVE  /\ new.resultBy = row.resultBy /\ new.resultOf = row.resultOf
             /\ new.status = "pending" /\ row.status # "cancelled"
  BY Zenon, <1>0, <1>7, MachinesAssumption
     DEF CheckLeaseFence, Leased, IsTerminalStatus, RequeueRequestFenced, ReleaseLease, Touch,
         Row, HasResult
<1>8. ASSUME NEW m \in Machines, CheckLeaseFence(row, m, row.epoch), ~ HasResult(row)
      PROVE  row.leasedBy = m /\ row.status # "cancelled"
  BY Zenon, <1>0, <1>8, MachinesAssumption DEF CheckLeaseFence, Leased, IsTerminalStatus
<1>9. ASSUME NEW m \in Machines, NEW status \in UpdateStatuses, NEW withResult \in BOOLEAN,
             new = UpdateRequestFenced(row, m, row.epoch, status, withResult)
      PROVE  \/ new.resultBy = row.resultBy /\ new.resultOf = row.resultOf
             \/ new.resultBy = m /\ new.resultOf = row.epoch
  BY Zenon, <1>0, <1>9
     DEF UpdateRequestFenced, WriteResult, MoveTo, GrantLease, ReleaseLease, Touch, Row
<1>10. ASSUME NEW m \in Machines, NEW status \in {"done", "failure"},
              new = SubmitRequestResultFenced(row, status, m, row.epoch)
       PROVE  new.resultBy = m /\ new.resultOf = row.epoch
  BY Zenon, <1>0, <1>10 DEF SubmitRequestResultFenced, SetResult, ReleaseLease, Touch, Row
<1> QED
  BY Zenon, <1>1, <1>2, <1>3, <1>4, <1>5, <1>6, <1>7, <1>8, <1>9, <1>10 DEF RowStep, OpStep, HasResult

\* Every stored result was written by the holder of the lease at that moment,
\* under its epoch: CheckLeaseFence shuts out every earlier attempt.
THEOREM ResultCorrect == Spec => ResultFromHolder
<1>1. ASSUME IInv, [Next]_vars
      PROVE  \A r \in Requests :
               \/ rows'[r].resultBy = NoMachine
               \/ /\ rows'[r].resultBy = rows[r].resultBy
                  /\ rows'[r].resultOf = rows[r].resultOf
               \/ /\ rows'[r].resultBy = rows[r].leasedBy
                  /\ rows'[r].resultOf = rows[r].epoch
  BY Zenon, <1>1, NextIsRowStep, RowStepColumns DEF IInv
<1> QED BY <1>1, IInvHolds, PTL DEF Spec, ResultFromHolder

\* A cancelled request keeps its outcome (CancelRequestFenced releases the
\* lease, so no fence admits its last holder).
THEOREM CancelCorrect == Spec => CancelledIsFinal
<1>1. ASSUME IInv, [Next]_vars
      PROVE  \A r \in Requests :
               rows[r].status = "cancelled" => Outcome(rows'[r]) = Outcome(rows[r])
  BY Zenon, <1>1, NextIsRowStep, RowStepColumns DEF IInv
<1> QED BY <1>1, IInvHolds, PTL DEF Spec, CancelledIsFinal

\* A delivered result stays until the request is reopened or swept: the cancel,
\* the reaper and late submissions leave a done or failed row alone.
THEOREM DeliveryCorrect == Spec => DeliveredResultStays
<1>1. ASSUME IInv, [Next]_vars
      PROVE  \A r \in Requests :
               HasResult(rows[r]) =>
                 \/ rows'[r].status \in {"pending", "deleted"}
                 \/ /\ rows'[r].status = rows[r].status
                    /\ rows'[r].resultBy = rows[r].resultBy
                    /\ rows'[r].resultOf = rows[r].resultOf
  BY Zenon, <1>1, NextIsRowStep, RowStepColumns DEF IInv
<1> QED BY <1>1, IInvHolds, PTL DEF Spec, DeliveredResultStays

\* The fencing token of a grant is never handed to another machine, because a
\* claim always moves to the first epoch with no grant.
THEOREM GrantsCorrect == Spec => GrantsAreFinal
<1>1. ASSUME IInv, [Next]_vars, NEW r \in Requests, NEW e \in 1..MaxAttempts,
             granted[r][e] # NoMachine
      PROVE  granted'[r][e] = granted[r][e]
  <2>1. RowStep(rows[r], rows'[r], granted[r], granted'[r]) /\ RowInv(rows[r], granted[r])
    BY Zenon, <1>1, NextIsRowStep DEF IInv
  <2>2. CASE granted'[r] = granted[r] BY Zenon, <2>2
  <2>3. ASSUME NEW m \in Machines, Claimable(rows[r]),
               granted'[r] = [granted[r] EXCEPT ![rows[r].epoch + 1] = m]
        PROVE  granted'[r][e] = granted[r][e]
    <3>1. e <= rows[r].epoch /\ rows[r].epoch \in Nat
      BY <1>1, <2>1, <2>3 DEF RowInv, Claimable, Row, Epochs
    <3> QED BY <2>1, <2>3, <3>1 DEF RowInv
  <2> QED BY Zenon, <2>1, <2>2, <2>3 DEF RowStep, OpStep
<1>2. ASSUME IInv, [Next]_vars
      PROVE  \A r \in Requests, e \in 1..MaxAttempts :
               granted[r][e] # NoMachine => granted'[r][e] = granted[r][e]
  BY Zenon, <1>1, <1>2
<1> QED BY <1>2, IInvHolds, PTL DEF Spec, GrantsAreFinal

-----------------------------------------------------------------------------

\* The lease deadline of one row against the absolute deadline of its attempt.
LeaseBound(row) ==
    Leased(row) => row.visibleIn <= Max2(row.deadlineIn, 0)
                                      + Max2(LeaseDuration - row.timeout, 0)

\* The operations that leave a row leased keep its lease within the attempt.
LEMMA LeaseBoundStep ==
    ASSUME NEW row, NEW new, NEW g, NEW newg, RowInv(row, g), LeaseBound(row),
           RowStep(row, new, g, newg)
    PROVE  LeaseBound(new)
<1>0. /\ row \in Row /\ row.visibleIn \in Nat /\ row.deadlineIn \in Int
      /\ row.timeout \in Nat /\ LeaseDuration \in Nat
  BY Zenon, ClockAssumption DEF RowInv, Row
<1>1. CASE new = row BY Zenon, <1>1
<1>2. CASE new = Age(row)
  <2>1. /\ new.leasedBy = row.leasedBy /\ new.timeout = row.timeout
        /\ new.visibleIn = Max2(row.visibleIn - 1, 0)
        /\ Leased(row) => new.deadlineIn = Max2(row.deadlineIn - 1, -1)
    BY Zenon, <1>0, <1>2 DEF Age, Row
  <2> QED BY <1>0, <2>1 DEF LeaseBound, Leased, Max2
<1>3. ASSUME NEW m \in Machines, new = ClaimRow(row, m)
      PROVE  LeaseBound(new)
  <2>1. /\ new.timeout = row.timeout /\ new.visibleIn = LeaseDuration
        /\ new.deadlineIn = row.timeout
    BY Zenon, <1>0, <1>3 DEF ClaimRow, GrantLease, Touch, Row
  <2> QED BY <1>0, <2>1 DEF LeaseBound, Max2
<1>4. CASE new = Touch(row)
  BY Zenon, <1>0, <1>4 DEF Touch, Row, LeaseBound, Leased
<1>5. CASE Renewable(row) /\ new = RenewLease(row)
  <2>1. /\ new.timeout = row.timeout /\ new.deadlineIn = row.deadlineIn
        /\ new.visibleIn = Min2(LeaseDuration, row.deadlineIn)
    BY Zenon, <1>0, <1>5 DEF RenewLease, RenewedVisible, Touch, Row
  <2> QED BY <1>0, <2>1 DEF LeaseBound, Max2, Min2
<1>6. CASE \/ new = DeleteTerminalRequestsBefore(row)
           \/ \E t \in RequestTimeouts : new = NewRequest(t)
  BY <1>6 DEF DeleteTerminalRequestsBefore, DeletedRow, NewRequest, LeaseBound, Leased
<1>7. CASE \/ new = CancelRequestFenced(row)
           \/ new = ReclaimExpiredRequest(row)
           \/ new = RequeueRequestFenced(row)
           \/ \E m \in Machines, status \in {"done", "failure"} :
                 new = SubmitRequestResultFenced(row, status, m, row.epoch)
  <2>1. new.leasedBy = NoMachine
    BY Zenon, <1>0, <1>7
       DEF CancelRequestFenced, ReclaimExpiredRequest, RequeueRequestFenced,
           SubmitRequestResultFenced, SetResult, ReleaseLease, Touch, Row
  <2> QED BY Zenon, <2>1 DEF LeaseBound, Leased
<1>8. ASSUME NEW m \in Machines, NEW status \in UpdateStatuses, NEW withResult \in BOOLEAN,
             new = UpdateRequestFenced(row, m, row.epoch, status, withResult)
      PROVE  LeaseBound(new)
  <2>1. /\ new.timeout = row.timeout
        /\ \/ new.leasedBy = NoMachine
           \/ /\ new.leasedBy = row.leasedBy /\ new.visibleIn = row.visibleIn
              /\ new.deadlineIn = row.deadlineIn
           \/ new.visibleIn = LeaseDuration /\ new.deadlineIn = row.timeout
    BY Zenon, <1>0, <1>8
       DEF UpdateRequestFenced, WriteResult, MoveTo, GrantLease, ReleaseLease, Touch, Row
  <2> QED BY <1>0, <2>1 DEF LeaseBound, Leased, Max2
<1> QED BY Zenon, <1>1, <1>2, <1>3, <1>4, <1>5, <1>6, <1>7, <1>8 DEF RowStep, OpStep

\* No renewal carries a lease past its attempt's absolute timeout
\* (RenewRequestLease clamps the new deadline to leased_at + timeout_seconds).
THEOREM RenewalCorrect == Spec => []LeaseWithinAttempt
<1> DEFINE Bound == \A r \in Requests : LeaseBound(rows[r])
<1>1. Init => Bound
  BY DEF Init, AbsentRow, NewRequest, LeaseBound, Leased
<1>2. IInv /\ Bound /\ [Next]_vars => Bound'
  BY Zenon, NextIsRowStep, LeaseBoundStep DEF IInv
<1>3. Bound => LeaseWithinAttempt
  BY Zenon DEF LeaseBound, LeaseWithinAttempt
<1> HIDE DEF Bound
<1> QED BY <1>1, <1>2, <1>3, IInvHolds, PTL DEF Spec

------------------------------------------------------------------------------
(***************************************************************************)
(* The request queue implements the abstract fenced lease.  LeaseStep is   *)
(* the abstract step of one request seen through its row; every operation  *)
(* on a row is such a step, and a step of one row is a step of the         *)
(* abstract specification.                                                 *)
(***************************************************************************)

\* What an abstract step does to one request, read off its row.
LeaseStep(row, new) ==
    LET samePhase == PhaseOf(new) = PhaseOf(row)
        sameToken == new.epoch = row.epoch
        sameHolder == new.leasedBy = row.leasedBy
        sameAnswer == AnswerOf(new) = AnswerOf(row)
        freed == new.leasedBy = NoMachine
    IN  \/ samePhase /\ sameToken /\ sameHolder /\ sameAnswer
        \/ /\ PhaseOf(row) = "absent" /\ PhaseOf(new) = "open"
           /\ sameToken /\ sameHolder /\ sameAnswer
        \/ /\ PhaseOf(row) = "open" /\ row.epoch < MaxAttempts /\ samePhase /\ sameAnswer
           /\ new.epoch = row.epoch + 1 /\ new.leasedBy \in Machines
        \/ /\ PhaseOf(row) = "open" /\ Leased(row) /\ sameToken
           /\ AnswerOf(new) = [by |-> row.leasedBy, token |-> row.epoch]
           /\ \/ samePhase /\ sameHolder
              \/ PhaseOf(new) = "closed" /\ freed
        \/ /\ PhaseOf(row) = "open" /\ Leased(row) /\ sameToken /\ sameAnswer /\ freed
           /\ samePhase \/ PhaseOf(new) = "closed"
        \/ /\ PhaseOf(row) = "open" /\ PhaseOf(new) = "closed" /\ sameToken /\ freed
           /\ AnswerOf(new) = [by |-> NoMachine, token |-> 0]
        \/ /\ PhaseOf(row) = "closed" /\ PhaseOf(new) = "open"
           /\ sameToken /\ sameHolder /\ sameAnswer

\* Rewriting one row rewrites one entry of each abstract variable.
LEMMA MapsOfOneRow ==
    ASSUME rows \in [Requests -> Row], NEW r \in Requests, rows' = [rows EXCEPT ![r] = rows'[r]]
    PROVE  /\ phaseMap' = [phaseMap EXCEPT ![r] = PhaseOf(rows'[r])]
           /\ tokenMap' = [tokenMap EXCEPT ![r] = rows'[r].epoch]
           /\ holderMap' = [holderMap EXCEPT ![r] = rows'[r].leasedBy]
           /\ answerMap' = [answerMap EXCEPT ![r] = AnswerOf(rows'[r])]
<1>1. \A q \in Requests : q # r => rows'[q] = rows[q]
  BY Zenon
<1>2. phaseMap' = [phaseMap EXCEPT ![r] = PhaseOf(rows'[r])]
  BY Zenon, <1>1 DEF phaseMap
<1>3. tokenMap' = [tokenMap EXCEPT ![r] = rows'[r].epoch]
  BY Zenon, <1>1 DEF tokenMap
<1>4. holderMap' = [holderMap EXCEPT ![r] = rows'[r].leasedBy]
  BY Zenon, <1>1 DEF holderMap
<1>5. answerMap' = [answerMap EXCEPT ![r] = AnswerOf(rows'[r])]
  BY Zenon, <1>1 DEF answerMap, AnswerOf
<1> QED BY Zenon, <1>2, <1>3, <1>4, <1>5

\* A lease step of one row is a step of the abstract specification.
LEMMA LeaseStepIsLeaseNext ==
    ASSUME rows \in [Requests -> Row], NEW r \in Requests,
           rows' = [rows EXCEPT ![r] = rows'[r]], LeaseStep(rows[r], rows'[r])
    PROVE  [Lease!LeaseNext]_(Lease!leaseVars)
<1> DEFINE row == rows[r]
           new == rows'[r]
<1>1. /\ phaseMap' = [phaseMap EXCEPT ![r] = PhaseOf(new)]
      /\ tokenMap' = [tokenMap EXCEPT ![r] = new.epoch]
      /\ holderMap' = [holderMap EXCEPT ![r] = new.leasedBy]
      /\ answerMap' = [answerMap EXCEPT ![r] = AnswerOf(new)]
  BY Zenon, MapsOfOneRow
<1>2. /\ phaseMap[r] = PhaseOf(row) /\ tokenMap[r] = row.epoch
      /\ holderMap[r] = row.leasedBy /\ answerMap[r] = AnswerOf(row)
  BY Zenon DEF phaseMap, tokenMap, holderMap, answerMap, AnswerOf
<1>3. /\ PhaseOf(new) = PhaseOf(row) => phaseMap' = phaseMap
      /\ new.epoch = row.epoch => tokenMap' = tokenMap
      /\ new.leasedBy = row.leasedBy => holderMap' = holderMap
      /\ AnswerOf(new) = AnswerOf(row) => answerMap' = answerMap
  BY <1>1, <1>2 DEF phaseMap, tokenMap, holderMap, answerMap
<1> USE DEF Lease!leaseVars
<1> HIDE DEF row, new
<1>4. CASE /\ PhaseOf(new) = PhaseOf(row) /\ new.epoch = row.epoch
           /\ new.leasedBy = row.leasedBy /\ AnswerOf(new) = AnswerOf(row)
  BY Zenon, <1>3, <1>4
<1>5. CASE /\ PhaseOf(row) = "absent" /\ PhaseOf(new) = "open" /\ new.epoch = row.epoch
           /\ new.leasedBy = row.leasedBy /\ AnswerOf(new) = AnswerOf(row)
  <2>1. Lease!Enqueue(r)
    BY Zenon, <1>1, <1>2, <1>3, <1>5 DEF Lease!Enqueue
  <2> QED BY Zenon, <2>1 DEF Lease!LeaseNext
<1>6. CASE /\ PhaseOf(row) = "open" /\ row.epoch < MaxAttempts
           /\ PhaseOf(new) = PhaseOf(row) /\ AnswerOf(new) = AnswerOf(row)
           /\ new.epoch = row.epoch + 1 /\ new.leasedBy \in Machines
  <2>1. Lease!GrantTo(r, new.leasedBy)
    BY Zenon, <1>1, <1>2, <1>3, <1>6 DEF Lease!GrantTo
  <2> QED BY Zenon, <1>6, <2>1 DEF Lease!LeaseNext
<1>7. CASE /\ PhaseOf(row) = "open" /\ Leased(row) /\ new.epoch = row.epoch
           /\ AnswerOf(new) = [by |-> row.leasedBy, token |-> row.epoch]
           /\ \/ PhaseOf(new) = PhaseOf(row) /\ new.leasedBy = row.leasedBy
              \/ PhaseOf(new) = "closed" /\ new.leasedBy = NoMachine
  <2>1. Lease!Publish(r)
    BY Zenon, <1>1, <1>2, <1>3, <1>7 DEF Lease!Publish, Lease!HeldAnswer, Leased
  <2> QED BY Zenon, <2>1 DEF Lease!LeaseNext
<1>8. CASE /\ PhaseOf(row) = "open" /\ Leased(row) /\ new.epoch = row.epoch
           /\ AnswerOf(new) = AnswerOf(row) /\ new.leasedBy = NoMachine
           /\ PhaseOf(new) = PhaseOf(row) \/ PhaseOf(new) = "closed"
  <2>1. Lease!EndGrant(r)
    BY Zenon, <1>1, <1>2, <1>3, <1>8 DEF Lease!EndGrant, Leased
  <2> QED BY Zenon, <2>1 DEF Lease!LeaseNext
<1>9. CASE /\ PhaseOf(row) = "open" /\ PhaseOf(new) = "closed" /\ new.epoch = row.epoch
           /\ new.leasedBy = NoMachine /\ AnswerOf(new) = [by |-> NoMachine, token |-> 0]
  <2>1. Lease!Cancel(r)
    BY Zenon, <1>1, <1>2, <1>3, <1>9 DEF Lease!Cancel, Lease!NoAnswer
  <2> QED BY Zenon, <2>1 DEF Lease!LeaseNext
<1>10. CASE /\ PhaseOf(row) = "closed" /\ PhaseOf(new) = "open" /\ new.epoch = row.epoch
            /\ new.leasedBy = row.leasedBy /\ AnswerOf(new) = AnswerOf(row)
  <2>1. Lease!Reopen(r)
    BY Zenon, <1>1, <1>2, <1>3, <1>10 DEF Lease!Reopen
  <2> QED BY Zenon, <2>1 DEF Lease!LeaseNext
<1> QED
  BY Zenon, <1>4, <1>5, <1>6, <1>7, <1>8, <1>9, <1>10 DEF LeaseStep, row, new

\* A row that was never inserted carries no answer.
Unborn(row) == row.status = "absent" => AnswerOf(row) = [by |-> NoMachine, token |-> 0]

\* Every operation of the store on one row is a lease step of that row.
LEMMA OpIsLeaseStep ==
    ASSUME NEW row, NEW new, NEW g, NEW newg, RowInv(row, g), Unborn(row),
           OpStep(row, new, g, newg)
    PROVE  LeaseStep(row, new)
<1>0. /\ row \in Row /\ row.leasedBy \in MachineIDs /\ row.epoch \in Nat
      /\ Leased(row) => ~ IsTerminalStatus(row.status) /\ InStore(row)
      /\ InFlight(row) => Leased(row)
      /\ row.status # "deleted" => row.attempts = row.epoch
      /\ row.status = "absent" => row.epoch = 0
  BY DEF RowInv, Row, Epochs
<1>1. /\ InStore(row) /\ ~ IsTerminalStatus(row.status) => PhaseOf(row) = "open"
      /\ IsTerminalStatus(row.status) => PhaseOf(row) = "closed"
  BY Zenon DEF InStore, RowStatuses, IsTerminalStatus, PhaseOf
<1>2. ASSUME NEW t, row.status = "absent", new = NewRequest(t)
      PROVE  LeaseStep(row, new)
  <2>1. /\ PhaseOf(row) = "absent" /\ PhaseOf(new) = "open" /\ new.epoch = row.epoch
        /\ new.leasedBy = row.leasedBy /\ AnswerOf(new) = AnswerOf(row)
    BY Zenon, <1>0, <1>2
       DEF NewRequest, PhaseOf, IsTerminalStatus, AnswerOf, Unborn, Leased, InStore, RowStatuses
  <2> QED BY Zenon, <2>1 DEF LeaseStep
<1>3. CASE InStore(row) /\ ~ IsTerminalStatus(row.status) /\ new = CancelRequestFenced(row)
  <2>1. /\ PhaseOf(new) = "closed" /\ new.epoch = row.epoch /\ new.leasedBy = NoMachine
        /\ AnswerOf(new) = [by |-> NoMachine, token |-> 0]
    BY Zenon, <1>0, <1>3
       DEF CancelRequestFenced, SetResult, ReleaseLease, Touch, Row, PhaseOf, IsTerminalStatus,
           AnswerOf
  <2> QED BY Zenon, <1>1, <1>3, <2>1 DEF LeaseStep
<1>4. CASE Reclaimable(row) /\ new = ReclaimExpiredRequest(row)
  <2>1. /\ PhaseOf(new) \in {"open", "closed"} /\ new.epoch = row.epoch
        /\ new.leasedBy = NoMachine /\ AnswerOf(new) = AnswerOf(row)
    BY Zenon, <1>0, <1>4
       DEF ReclaimExpiredRequest, ReleaseLease, Touch, Row, PhaseOf, IsTerminalStatus, AnswerOf
  <2>2. Leased(row) /\ PhaseOf(row) = "open"
    BY Zenon, <1>0, <1>1, <1>4 DEF Reclaimable
  <2> QED BY Zenon, <2>1, <2>2 DEF LeaseStep
<1>5. ASSUME NEW m \in Machines, Claimable(row), new = ClaimRow(row, m)
      PROVE  LeaseStep(row, new)
  <2>1. /\ PhaseOf(new) = "open" /\ PhaseOf(row) = "open" /\ new.epoch = row.epoch + 1
        /\ new.leasedBy = m /\ AnswerOf(new) = AnswerOf(row)
    BY Zenon, <1>0, <1>5
       DEF Claimable, ClaimRow, GrantLease, Touch, Row, PhaseOf, IsTerminalStatus, AnswerOf
  <2>2. row.epoch < MaxAttempts
    BY Zenon, <1>0, <1>5 DEF Claimable
  <2> QED BY Zenon, <2>1, <2>2 DEF LeaseStep
<1>6. CASE new = Touch(row) \/ new = RenewLease(row)
  <2>1. /\ new.status = row.status /\ new.epoch = row.epoch /\ new.leasedBy = row.leasedBy
        /\ new.resultBy = row.resultBy /\ new.resultOf = row.resultOf
    BY Zenon, <1>0, <1>6 DEF Touch, RenewLease, Row
  <2> QED BY Zenon, <2>1 DEF LeaseStep, PhaseOf, AnswerOf
<1>7. ASSUME NEW m \in Machines, CheckLeaseFence(row, m, row.epoch), ~ HasResult(row)
      PROVE  row.leasedBy = m /\ Leased(row) /\ PhaseOf(row) = "open"
  BY Zenon, <1>0, <1>1, <1>7, MachinesAssumption DEF CheckLeaseFence, Leased
<1>8. ASSUME NEW m \in Machines, CheckLeaseFence(row, m, row.epoch), new = RequeueRequestFenced(row)
      PROVE  LeaseStep(row, new)
  <2>1. /\ PhaseOf(new) = "open" /\ new.epoch = row.epoch /\ new.leasedBy = NoMachine
        /\ AnswerOf(new) = AnswerOf(row)
    BY Zenon, <1>0, <1>8
       DEF RequeueRequestFenced, ReleaseLease, Touch, Row, PhaseOf, IsTerminalStatus, AnswerOf
  <2>2. CASE HasResult(row)
    <3>1. PhaseOf(row) = "closed" /\ row.leasedBy = NoMachine
      BY Zenon, <1>0, <1>1, <2>2 DEF HasResult, IsTerminalStatus, Leased
    <3> QED BY Zenon, <2>1, <3>1 DEF LeaseStep
  <2>3. CASE ~ HasResult(row)
    <3>1. Leased(row) /\ PhaseOf(row) = "open"
      BY Zenon, <1>7, <1>8, <2>3
    <3> QED BY Zenon, <2>1, <3>1 DEF LeaseStep
  <2> QED BY Zenon, <2>2, <2>3
<1>9. ASSUME NEW m \in Machines, CheckLeaseFence(row, m, row.epoch), ~ HasResult(row),
             NEW status \in UpdateStatuses, NEW withResult \in BOOLEAN,
             new = UpdateRequestFenced(row, m, row.epoch, status, withResult)
      PROVE  LeaseStep(row, new)
  <2>1. row.leasedBy = m /\ Leased(row) /\ PhaseOf(row) = "open"
    BY Zenon, <1>7, <1>9
  <2>2. /\ new.epoch = row.epoch
        /\ IF withResult THEN new.resultBy = m /\ new.resultOf = row.epoch
                         ELSE new.resultBy = row.resultBy /\ new.resultOf = row.resultOf
        /\ \/ new.status \in {"done", "failure"} /\ new.leasedBy = NoMachine
           \/ new.status \in {row.status, "pending", "claimed", "running"} /\ new.leasedBy = m
    BY Zenon, <1>0, <1>9, <2>1
       DEF UpdateRequestFenced, WriteResult, MoveTo, GrantLease, ReleaseLease, Touch, Row,
           UpdateStatuses
  <2>3. \/ PhaseOf(new) = "closed" /\ new.leasedBy = NoMachine
        \/ PhaseOf(new) = PhaseOf(row) /\ new.leasedBy = row.leasedBy
    BY Zenon, <2>1, <2>2 DEF PhaseOf, IsTerminalStatus
  <2>4. AnswerOf(new) \in {AnswerOf(row), [by |-> row.leasedBy, token |-> row.epoch]}
    BY Zenon, <2>1, <2>2 DEF AnswerOf
  <2> QED BY Zenon, <2>1, <2>2, <2>3, <2>4 DEF LeaseStep
<1>10. ASSUME NEW m \in Machines, CheckLeaseFence(row, m, row.epoch), ~ HasResult(row),
              NEW status \in {"done", "failure"},
              new = SubmitRequestResultFenced(row, status, m, row.epoch)
       PROVE  LeaseStep(row, new)
  <2>1. row.leasedBy = m /\ Leased(row) /\ PhaseOf(row) = "open"
    BY Zenon, <1>7, <1>10
  <2>2. /\ new.epoch = row.epoch /\ new.leasedBy = NoMachine /\ PhaseOf(new) = "closed"
        /\ AnswerOf(new) = [by |-> m, token |-> row.epoch]
    BY Zenon, <1>0, <1>10
       DEF SubmitRequestResultFenced, SetResult, ReleaseLease, Touch, Row, PhaseOf,
           IsTerminalStatus, AnswerOf
  <2> QED BY Zenon, <2>1, <2>2 DEF LeaseStep
<1> QED BY Zenon, <1>2, <1>3, <1>4, <1>5, <1>6, <1>8, <1>9, <1>10 DEF OpStep

\* A row that is not inserted by a step stays without an answer.
LEMMA UnbornStep ==
    ASSUME NEW row, NEW new, NEW g, NEW newg, RowInv(row, g), Unborn(row),
           RowStep(row, new, g, newg)
    PROVE  Unborn(new)
<1>1. CASE new = row BY Zenon, <1>1
<1>2. CASE new = Age(row)
  <2>1. new.status = row.status /\ new.resultBy = row.resultBy /\ new.resultOf = row.resultOf
    BY Zenon, <1>2 DEF Age, RowInv, Row
  <2> QED BY Zenon, <2>1 DEF Unborn, AnswerOf
<1>3. CASE new = DeleteTerminalRequestsBefore(row)
  BY Zenon, <1>3 DEF DeleteTerminalRequestsBefore, DeletedRow, NewRequest, Unborn
<1>4. CASE OpStep(row, new, g, newg)
  <2>1. LeaseStep(row, new)
    BY Zenon, <1>4, OpIsLeaseStep
  <2>2. new.status = "absent" <=> PhaseOf(new) = "absent"
    BY Zenon DEF PhaseOf
  <2>3. row.status = "absent" <=> PhaseOf(row) = "absent"
    BY Zenon DEF PhaseOf
  <2> QED BY Zenon, <2>1, <2>2, <2>3 DEF LeaseStep, Unborn
<1> QED BY Zenon, <1>1, <1>2, <1>3, <1>4 DEF RowStep

\* The clock leaves the abstract lease alone.
LEMMA TickIsStutter ==
    ASSUME rows \in [Requests -> Row], Tick
    PROVE  UNCHANGED Lease!leaseVars
<1>1. ASSUME NEW r \in Requests
      PROVE  /\ rows'[r].status = rows[r].status /\ rows'[r].epoch = rows[r].epoch
             /\ rows'[r].leasedBy = rows[r].leasedBy
             /\ rows'[r].resultBy = rows[r].resultBy /\ rows'[r].resultOf = rows[r].resultOf
  BY Zenon DEF Tick, Age, Row
<1>2. phaseMap' = phaseMap
  BY Zenon, <1>1 DEF phaseMap, PhaseOf
<1>3. tokenMap' = tokenMap /\ holderMap' = holderMap
  BY Zenon, <1>1 DEF tokenMap, holderMap
<1>4. answerMap' = answerMap
  BY Zenon, <1>1 DEF answerMap, AnswerOf
<1> QED BY Zenon, <1>2, <1>3, <1>4 DEF Lease!leaseVars

\* The retention sweep discards the finished rows it deletes.
LEMMA SweepIsDiscard ==
    ASSUME rows \in [Requests -> Row], cleanupTerminalRequests
    PROVE  \E S \in SUBSET Requests : Lease!Discard(S)
<1> DEFINE S == {r \in Requests : HasResult(rows[r]) /\ rows[r].keepIn = 0}
<1>1. \A r \in Requests : rows'[r] = IF r \in S THEN DeletedRow ELSE rows[r]
  BY Zenon DEF cleanupTerminalRequests, DeleteTerminalRequestsBefore
<1>2. /\ PhaseOf(DeletedRow) = "gone" /\ DeletedRow.epoch = 0 /\ DeletedRow.leasedBy = NoMachine
      /\ AnswerOf(DeletedRow) = [by |-> NoMachine, token |-> 0]
  BY Zenon DEF DeletedRow, NewRequest, PhaseOf, AnswerOf
<1>3. \A r \in S : phaseMap[r] = "closed"
  BY Zenon DEF phaseMap, PhaseOf, HasResult, IsTerminalStatus
<1> HIDE DEF S
<1>4. S \subseteq Requests BY Zenon DEF S
<1>5. phaseMap' = [r \in Requests |-> IF r \in S THEN "gone" ELSE phaseMap[r]]
  BY Zenon, <1>1, <1>2, <1>4 DEF phaseMap
<1>6. tokenMap' = [r \in Requests |-> IF r \in S THEN 0 ELSE tokenMap[r]]
  BY Zenon, <1>1, <1>2, <1>4 DEF tokenMap
<1>7. holderMap' = [r \in Requests |-> IF r \in S THEN NoMachine ELSE holderMap[r]]
  BY Zenon, <1>1, <1>2, <1>4 DEF holderMap
<1>8. answerMap' = [r \in Requests |-> IF r \in S THEN Lease!NoAnswer ELSE answerMap[r]]
  BY Zenon, <1>1, <1>2, <1>4 DEF answerMap, AnswerOf, Lease!NoAnswer
<1>9. Lease!Discard(S)
  BY Zenon, <1>3, <1>5, <1>6, <1>7, <1>8 DEF Lease!Discard
<1> QED BY Zenon, <1>4, <1>9

\* The empty table is the abstract initial state.
LEMMA InitIsLeaseInit == Init => Lease!LeaseInit
<1> SUFFICES ASSUME Init PROVE Lease!LeaseInit
  BY Zenon
<1>1. \A r \in Requests : rows[r] = AbsentRow
  BY Zenon DEF Init
<1>2. /\ PhaseOf(AbsentRow) = "absent" /\ AbsentRow.epoch = 0 /\ AbsentRow.leasedBy = NoMachine
      /\ AnswerOf(AbsentRow) = [by |-> NoMachine, token |-> 0]
  BY Zenon DEF AbsentRow, NewRequest, PhaseOf, AnswerOf
<1>3. /\ phaseMap = [r \in Requests |-> "absent"]
      /\ tokenMap = [r \in Requests |-> 0]
      /\ holderMap = [r \in Requests |-> NoMachine]
      /\ answerMap = [r \in Requests |-> Lease!NoAnswer]
  BY Zenon, <1>1, <1>2 DEF phaseMap, tokenMap, holderMap, answerMap, AnswerOf, Lease!NoAnswer
<1> QED BY Zenon, <1>3 DEF Lease!LeaseInit

\* Every step of the queue is a step of the abstract lease or leaves it alone.
LEMMA NextIsLeaseNext ==
    ASSUME IInv, \A r \in Requests : Unborn(rows[r]), [Next]_vars
    PROVE  [Lease!LeaseNext]_(Lease!leaseVars)
<1>0. rows \in [Requests -> Row]
  BY Zenon DEF IInv, TypeOK
<1>1. ASSUME NEW r \in Requests, OpOn(r)
      PROVE  [Lease!LeaseNext]_(Lease!leaseVars)
  <2>1. LeaseStep(rows[r], rows'[r])
    BY Zenon, <1>1, OpIsLeaseStep DEF OpOn, IInv
  <2>2. rows' = [rows EXCEPT ![r] = rows'[r]]
    BY Zenon, <1>1 DEF OpOn
  <2> QED BY Zenon, <1>0, <2>1, <2>2, LeaseStepIsLeaseNext
<1>2. CASE cleanupTerminalRequests
  BY Zenon, <1>0, <1>2, SweepIsDiscard DEF Lease!LeaseNext
<1>3. CASE Tick
  BY Zenon, <1>0, <1>3, TickIsStutter
<1>4. CASE UNCHANGED <<rows, granted>>
  BY Zenon, <1>4 DEF Lease!leaseVars, phaseMap, tokenMap, holderMap, answerMap, AnswerOf
<1> QED BY Zenon, <1>1, <1>2, <1>3, <1>4, NextIsOp

\* The request queue implements the abstract fenced lease: whatever the claims,
\* late calls, reclaims, cancels and sweeps do, a request is worked on under
\* numbered grants and answered only by the holder of the newest one.
THEOREM RefinementCorrect == Spec => ImplementsFencedLease
<1> DEFINE Clean == \A r \in Requests : Unborn(rows[r])
<1>1. Init => Clean
  BY DEF Init, AbsentRow, NewRequest, Unborn, AnswerOf
<1>2. IInv /\ Clean /\ [Next]_vars => Clean'
  BY Zenon, NextIsRowStep, UnbornStep DEF IInv
<1>3. IInv /\ Clean /\ [Next]_vars => [Lease!LeaseNext]_(Lease!leaseVars)
  BY Zenon, NextIsLeaseNext
<1> HIDE DEF Clean
<1> QED BY <1>1, <1>2, <1>3, IInvHolds, InitIsLeaseInit, PTL
        DEF Spec, ImplementsFencedLease, Lease!LeaseSpec
=============================================================================
