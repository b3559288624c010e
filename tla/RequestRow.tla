----------------------------- MODULE RequestRow -----------------------------
(***************************************************************************)
(* One row of the requests table and the guarded transitions the store     *)
(* applies to it under the row lock (server/pkg/storage/requests.go and     *)
(* requests_fenced.go; storage/memory holds the same transitions under one  *)
(* mutex).  Every operator is a guard on a row or maps a row to the row     *)
(* that is persisted.                                                       *)
(*                                                                         *)
(* Instants are kept as the time left until them, in clock ticks:          *)
(*   visibleIn   visible_at - now, 0 once visible_at <= now                *)
(*   deadlineIn  leased_at + timeout_seconds - now, -1 once it has passed  *)
(*   keepIn      updated_at - retention cutoff of a done or failed row,    *)
(*               0 once updated_at precedes the cutoff                     *)
(* leased_at is set and cleared together with leased_by, so leasedBy alone *)
(* says whether it is NULL.  The row keeps which machine wrote the result  *)
(* and under which lease epoch in place of the result's payload.           *)
(***************************************************************************)
EXTENDS Integers

CONSTANTS Machines,       \* provider machine ids, all non-empty
          NoMachine,      \* the empty machine id
          MaxAttempts,    \* max_attempts of every request
          LeaseDuration,  \* lease granted by a claim or the running update
          RequestTimeouts, \* timeout_seconds: absolute per-attempt bounds
          RetryBackoff,   \* delay before a requeued request is visible
          RetentionAge    \* age at which finished rows are deleted

ASSUME MachinesAssumption == NoMachine \notin Machines
ASSUME AttemptsAssumption == MaxAttempts \in Nat \ {0}
ASSUME ClockAssumption == /\ LeaseDuration \in Nat \ {0}
                          /\ RequestTimeouts \subseteq Nat \ {0}
                          /\ RetryBackoff \in Nat
                          /\ RetentionAge \in Nat

NoStatus == ""  \* an update that leaves the status alone

\* The statuses a stored row can have, "absent" before the insert and
\* "deleted" after the retention sweep.
RowStatuses == {"pending", "claimed", "running", "done", "failure", "cancelled"}
Statuses == RowStatuses \cup {"absent", "deleted"}

\* The statuses a provider can name in UpdateRequest.
UpdateStatuses == {NoStatus, "pending", "claimed", "running", "done", "failure"}

MachineIDs == Machines \cup {NoMachine}
Epochs == 0..MaxAttempts
Max2(a, b) == IF a >= b THEN a ELSE b
Min2(a, b) == IF a <= b THEN a ELSE b

Row == [status     : Statuses,
        exec       : MachineIDs,
        leasedBy   : MachineIDs,
        timeout    : Nat,
        visibleIn  : Nat,
        deadlineIn : Int,
        attempts   : Epochs,
        epoch      : Epochs,
        deadLetter : BOOLEAN,
        resultBy   : MachineIDs,
        resultOf   : Epochs,
        keepIn     : Nat]

NewRequest(timeout) ==
              [status     |-> "pending",
               exec       |-> NoMachine,
               leasedBy   |-> NoMachine,
               timeout    |-> timeout,
               visibleIn  |-> 0,
               deadlineIn |-> 0,
               attempts   |-> 0,
               epoch      |-> 0,
               deadLetter |-> FALSE,
               resultBy   |-> NoMachine,
               resultOf   |-> 0,
               keepIn     |-> RetentionAge]

AbsentRow == [NewRequest(0) EXCEPT !.status = "absent"]
DeletedRow == [NewRequest(0) EXCEPT !.status = "deleted"]

InStore(row) == row.status \in RowStatuses
IsTerminalStatus(status) == status \in {"done", "failure", "cancelled"}
HasResult(row) == row.status \in {"done", "failure"}
InFlight(row) == row.status \in {"claimed", "running"}
Leased(row) == row.leasedBy # NoMachine

(***************************************************************************)
(* Reads of the lease.                                                     *)
(***************************************************************************)

LeaseExpired(row) == Leased(row) /\ row.visibleIn = 0
HasTimedOut(row) == Leased(row) /\ row.deadlineIn < 0

\* Mutants of CheckLeaseFence: a fence that ignores the epoch, one that ignores
\* the holder, and one that lets the last epoch in after a cancel.
FenceIgnoresEpoch(row, m, e) == InStore(row) /\ (HasResult(row) \/ row.leasedBy = m)
FenceIgnoresHolder(row, m, e) == InStore(row) /\ row.epoch = e
FenceAdmitsCancelled(row, m, e) ==
    InStore(row) /\ row.epoch = e /\ (IsTerminalStatus(row.status) \/ row.leasedBy = m)

\* A terminal row has no holder any more, so there the epoch alone decides.
CheckLeaseFence(row, m, e) ==
    /\ InStore(row)
    /\ row.epoch = e
    /\ HasResult(row) \/ row.leasedBy = m

\* Mutant of Claimable: no attempt budget.
ClaimableUncapped(row) ==
    row.status = "pending" /\ ~ row.deadLetter /\ row.visibleIn = 0

\* A pending row a claim may take, tool ownership aside.
Claimable(row) ==
    /\ row.status = "pending"
    /\ ~ row.deadLetter
    /\ row.visibleIn = 0
    /\ row.attempts < MaxAttempts

\* The rows the reaper's scan returns.
FindExpiredRequests(row) ==
    /\ InStore(row)
    /\ ~ row.deadLetter
    /\ LeaseExpired(row) \/ HasTimedOut(row)

(***************************************************************************)
(* Transitions.                                                            *)
(***************************************************************************)

Touch(row) == [row EXCEPT !.keepIn = RetentionAge]

ReleaseLease(row) == [row EXCEPT !.leasedBy = NoMachine, !.deadlineIn = 0]

\* The lease and the absolute timeout start now, for m.
GrantLease(row, m) ==
    [row EXCEPT !.exec = m,
                !.leasedBy = m,
                !.visibleIn = LeaseDuration,
                !.deadlineIn = row.timeout]

\* Mutant of ClaimRow: the grant keeps the old fencing token.
ClaimKeepsEpoch(row, m) ==
    [GrantLease(Touch(row), m) EXCEPT !.status = "claimed", !.attempts = @ + 1]

ClaimRow(row, m) ==
    [GrantLease(Touch(row), m) EXCEPT !.status = "claimed",
                                      !.attempts = @ + 1,
                                      !.epoch = @ + 1]

\* Mutant of RenewedVisible: not clamped to the absolute deadline.
RenewedUnclamped(row) == LeaseDuration

RenewedVisible(row) == Min2(LeaseDuration, row.deadlineIn)

Renewable(row) ==
    /\ InFlight(row)
    /\ row.visibleIn > 0
    /\ RenewedVisible(row) > 0

RenewLease(row) == [Touch(row) EXCEPT !.visibleIn = RenewedVisible(row)]

\* Mutant of SetResult: the lease outlives the result.
SetResultKeepsLease(row, status, m, e) ==
    [Touch(row) EXCEPT !.status = status, !.visibleIn = 0,
                       !.resultBy = m, !.resultOf = e]

\* result_type decides the status; the writer's machine and epoch stand for
\* the payload.  executing_machine_id is kept.
SetResult(row, status, m, e) ==
    [ReleaseLease(Touch(row)) EXCEPT !.status = status,
                                     !.visibleIn = 0,
                                     !.resultBy = m,
                                     !.resultOf = e]

SubmitRequestResultFenced(row, status, m, e) ==
    [SetResult(row, status, m, e) EXCEPT !.deadLetter = FALSE]

\* Only a running transition restarts the lease and the absolute timeout, and
\* only done and failed release it: any other status leaves the lease alone.
MoveTo(row, m, status) ==
    IF status = "running"
      THEN [GrantLease(row, m) EXCEPT !.status = status]
      ELSE IF status \in {"done", "failure"}
             THEN [ReleaseLease(row) EXCEPT !.status = status, !.visibleIn = 0]
             ELSE [row EXCEPT !.status = status]

WriteResult(row, m, e, withResult) ==
    IF withResult THEN [row EXCEPT !.resultBy = m, !.resultOf = e] ELSE row

\* Mutant of UpdateRequestFenced: a running to running update restarts the lease.
UpdateRestartsLease(row, m, e, status, withResult) ==
    WriteResult(IF status = NoStatus THEN Touch(row) ELSE MoveTo(Touch(row), m, status),
                m, e, withResult)

UpdateRequestFenced(row, m, e, status, withResult) ==
    WriteResult(IF status \in {NoStatus, row.status}
                  THEN Touch(row)
                  ELSE MoveTo(Touch(row), m, status),
                m, e, withResult)

RequeueRequestFenced(row) ==
    [ReleaseLease(Touch(row)) EXCEPT !.status = "pending",
                                     !.exec = NoMachine,
                                     !.visibleIn = RetryBackoff]

\* The rejection that CancelRequestFenced writes comes from no machine.
CancelRequestFenced(row) ==
    [SetResult(row, "cancelled", NoMachine, 0) EXCEPT !.deadLetter = TRUE]

\* Mutant of Reclaimable: a claim that never reached running is not reclaimed.
ReclaimableRunning(row) ==
    row.status = "running" /\ (LeaseExpired(row) \/ HasTimedOut(row))

Reclaimable(row) == InFlight(row) /\ (LeaseExpired(row) \/ HasTimedOut(row))

\* Mutant of ReclaimExpiredRequest: the requeue counts the attempt again.
ReclaimCountsTwice(row) ==
    LET free == [ReleaseLease(Touch(row)) EXCEPT !.exec = NoMachine, !.attempts = @ + 1]
    IN  IF row.attempts + 1 >= MaxAttempts
          THEN [free EXCEPT !.status = "failure", !.deadLetter = TRUE, !.visibleIn = 0]
          ELSE [free EXCEPT !.status = "pending", !.visibleIn = RetryBackoff]

ReclaimExpiredRequest(row) ==
    LET free == [ReleaseLease(Touch(row)) EXCEPT !.exec = NoMachine]
    IN  IF row.attempts >= MaxAttempts
          THEN [free EXCEPT !.status = "failure", !.deadLetter = TRUE, !.visibleIn = 0]
          ELSE [free EXCEPT !.status = "pending", !.visibleIn = RetryBackoff]

DeleteTerminalRequestsBefore(row) ==
    IF HasResult(row) /\ row.keepIn = 0 THEN DeletedRow ELSE row

\* One tick of the clock.
Age(row) ==
    [row EXCEPT !.visibleIn = Max2(@ - 1, 0),
                !.deadlineIn = IF Leased(row) THEN Max2(@ - 1, -1) ELSE @,
                !.keepIn = IF HasResult(row) THEN Max2(@ - 1, 0) ELSE @]
=============================================================================
