---------------------------- MODULE RequestQueue ----------------------------
(***************************************************************************)
(* The request queue of the control plane: the requests table every replica *)
(* shares, driven by the operations of RequestsService                      *)
(* (server/pkg/service/requests.go) on any replica.                         *)
(*                                                                         *)
(* Each operation commits through one serializable transaction (or one     *)
(* critical section of the memory store), so each is one action.  Provider *)
(* calls carry any machine id and any lease epoch handed out so far: late, *)
(* duplicated and misdirected calls are ordinary calls here, and a call    *)
(* the code rejects changes nothing and is no step.                        *)
(*                                                                         *)
(* The replicas' caches, machine slots and draining are not in this module. *)
(* They make the code refuse some claims that this module permits, and they *)
(* decide whether a running update gets its slot, which is an input here.   *)
(***************************************************************************)
EXTENDS RequestRow, FiniteSets

CONSTANTS Requests,         \* request ids, numbered in created_at order
          Tools,            \* tool names of the session
          ToolOf,           \* the tool each request names
          MaxPending,       \* MaxPendingRequestsPerSession
          ProviderStatuses  \* statuses the providers name in UpdateRequest

ASSUME RequestsAssumption == Requests \subseteq Nat /\ IsFiniteSet(Requests)
ASSUME ToolsAssumption == ToolOf \in [Requests -> Tools]
ASSUME StatusAssumption == ProviderStatuses \subseteq UpdateStatuses
ASSUME PendingAssumption == MaxPending \in Nat \ {0}

VARIABLES rows,    \* the requests table
          owner,   \* the tools table: the machine a tool is registered to
          granted  \* history: the machine each lease epoch was granted to

vars == <<rows, owner, granted>>

Init ==
    /\ rows = [r \in Requests |-> AbsentRow]
    /\ owner \in [Tools -> MachineIDs]
    /\ granted = [r \in Requests |-> [e \in 1..MaxAttempts |-> NoMachine]]

Put(r, row) == rows' = [rows EXCEPT ![r] = row]

PendingRequests == {r \in Requests : rows[r].status = "pending" /\ ~ rows[r].deadLetter}

\* The cap is counted in the transaction of the insert.  The tool lookup runs
\* before it; a registration that vanishes in between is the later
\* DeleteToolsByMachine, which reads no request.
CreateRequest(r, timeout) ==
    /\ rows[r].status = "absent"
    /\ owner[ToolOf[r]] # NoMachine
    /\ Cardinality(PendingRequests) < MaxPending
    /\ Put(r, NewRequest(timeout))
    /\ UNCHANGED <<owner, granted>>

Grant(r, m) ==
    /\ Put(r, ClaimRow(rows[r], m))
    /\ granted' = [granted EXCEPT ![r][rows[r].epoch + 1] = m]
    /\ UNCHANGED owner

ClaimRequest(r, m) ==
    /\ Claimable(rows[r])
    /\ owner[ToolOf[r]] = m
    /\ Grant(r, m)

Leasable(m) == {r \in Requests : Claimable(rows[r]) /\ owner[ToolOf[r]] = m}

\* The oldest leasable row that no concurrent transaction has locked
\* (FOR UPDATE SKIP LOCKED).
ClaimPendingRequest(m, locked) ==
    \E r \in Leasable(m) \ locked :
        /\ \A q \in Leasable(m) \ locked : r <= q
        /\ Grant(r, m)

\* slot: whether ReserveMachineSlot succeeded, or was not asked because the
\* replica's cache already shows the request running.
UpdateRequest(r, m, e, status, withResult, slot) ==
    /\ CheckLeaseFence(rows[r], m, e)
    /\ \/ /\ status = "running" /\ ~ slot
          /\ Put(r, RequeueRequestFenced(rows[r]))
       \/ /\ status # "running" \/ slot
          /\ ~ HasResult(rows[r])
          /\ Put(r, UpdateRequestFenced(rows[r], m, e, status, withResult))
    /\ UNCHANGED <<owner, granted>>

\* A streaming submission to a finished request appends one trailing chunk.
SubmitRequestResult(r, m, e, resultType) ==
    /\ CheckLeaseFence(rows[r], m, e)
    /\ \/ /\ HasResult(rows[r])
          /\ resultType = "streaming"
          /\ Put(r, Touch(rows[r]))
       \/ /\ ~ HasResult(rows[r])
          /\ Put(r, SubmitRequestResultFenced(rows[r],
                      IF resultType = "rejection" THEN "failure" ELSE "done", m, e))
    /\ UNCHANGED <<owner, granted>>

AppendRequestChunks(r, m, e) ==
    /\ CheckLeaseFence(rows[r], m, e)
    /\ Put(r, Touch(rows[r]))
    /\ UNCHANGED <<owner, granted>>

RenewRequestLease(r, m, e) ==
    /\ CheckLeaseFence(rows[r], m, e)
    /\ Renewable(rows[r])
    /\ Put(r, RenewLease(rows[r]))
    /\ UNCHANGED <<owner, granted>>

\* Mutant of CancelRequest: the blind upsert that ignores a terminal row.
CancelOverwrites(r) ==
    /\ InStore(rows[r])
    /\ Put(r, CancelRequestFenced(rows[r]))
    /\ UNCHANGED <<owner, granted>>

CancelRequest(r) ==
    /\ InStore(rows[r])
    /\ ~ IsTerminalStatus(rows[r].status)
    /\ Put(r, CancelRequestFenced(rows[r]))
    /\ UNCHANGED <<owner, granted>>

\* One iteration of markStalledRequests on some replica.
reclaimExpired(r) ==
    /\ FindExpiredRequests(rows[r])
    /\ Reclaimable(rows[r])
    /\ Put(r, ReclaimExpiredRequest(rows[r]))
    /\ UNCHANGED <<owner, granted>>

cleanupTerminalRequests ==
    /\ rows' = [r \in Requests |-> DeleteTerminalRequestsBefore(rows[r])]
    /\ UNCHANGED <<owner, granted>>

\* A machine takes a free tool, or one whose owner's heartbeat went stale;
\* which owners are stale is left open.
ClaimToolOwnership(t, m) ==
    /\ owner' = [owner EXCEPT ![t] = m]
    /\ UNCHANGED <<rows, granted>>

DeleteToolsByMachine(m) ==
    /\ owner' = [t \in Tools |-> IF owner[t] = m THEN NoMachine ELSE owner[t]]
    /\ UNCHANGED <<rows, granted>>

Tick ==
    /\ rows' = [r \in Requests |-> Age(rows[r])]
    /\ UNCHANGED <<owner, granted>>

ResultTypes == {"resolution", "rejection", "streaming"}

ProviderNext ==
    \E r \in Requests, m \in Machines :
        \/ ClaimRequest(r, m)
        \/ \E e \in Epochs :
             \/ \E status \in ProviderStatuses, withResult, slot \in BOOLEAN :
                    UpdateRequest(r, m, e, status, withResult, slot)
             \/ \E resultType \in ResultTypes :
                    SubmitRequestResult(r, m, e, resultType)
             \/ AppendRequestChunks(r, m, e)
             \/ RenewRequestLease(r, m, e)

QueueNext ==
    \/ \E r \in Requests, timeout \in RequestTimeouts : CreateRequest(r, timeout)
    \/ \E r \in Requests : CancelRequest(r) \/ reclaimExpired(r)
    \/ \E m \in Machines, locked \in SUBSET Requests : ClaimPendingRequest(m, locked)
    \/ ProviderNext
    \/ cleanupTerminalRequests
    \/ Tick

RegistryNext ==
    \/ \E t \in Tools, m \in Machines : ClaimToolOwnership(t, m)
    \/ \E m \in Machines : DeleteToolsByMachine(m)

Next == QueueNext \/ RegistryNext

Spec == Init /\ [][Next]_vars

\* Time passes, the reaper and retention tickers of some live replica keep
\* firing, and every machine keeps polling for work it owns, with no tool
\* registration changing hands meanwhile.
FairSpec ==
    /\ Init /\ [][QueueNext]_vars
    /\ WF_vars(Tick)
    /\ \A r \in Requests : WF_vars(reclaimExpired(r))
    /\ \A m \in Machines :
          WF_vars(\E locked \in SUBSET Requests : ClaimPendingRequest(m, locked))
    /\ WF_vars(cleanupTerminalRequests)

(***************************************************************************)
(* Properties.                                                             *)
(***************************************************************************)

\* The columns of the requests and tools tables hold values of their types.
TypeOK ==
    /\ rows \in [Requests -> Row]
    /\ owner \in [Tools -> MachineIDs]
    /\ granted \in [Requests -> [1..MaxAttempts -> MachineIDs]]

\* Attempts and lease epochs move together, and each counts exactly one grant:
\* no requeue, reclaim or update counts an execution twice or forgets one, so
\* a request is executed under at most max_attempts grants.
AttemptsAreGrants ==
    \A r \in Requests :
        rows[r].status # "deleted" =>
            /\ rows[r].attempts = rows[r].epoch
            /\ \A e \in 1..MaxAttempts : granted[r][e] # NoMachine <=> e <= rows[r].epoch

\* A claimed or running request is leased, and whoever holds a lease executes
\* the request and is the machine its current epoch was granted to: at most
\* one machine can pass the fence of a live request.  Finished and
\* dead-lettered requests have no holder.
LeaseIsLatestGrant ==
    \A r \in Requests :
        /\ InFlight(rows[r]) => Leased(rows[r])
        /\ Leased(rows[r]) =>
             /\ rows[r].exec = rows[r].leasedBy
             /\ rows[r].epoch > 0
             /\ granted[r][rows[r].epoch] = rows[r].leasedBy
             /\ ~ IsTerminalStatus(rows[r].status)
             /\ ~ rows[r].deadLetter

\* A renewal never carries a lease past the absolute timeout of the attempt.
\* A claim may: its lease is LeaseDuration even when the timeout is shorter.
LeaseWithinAttempt ==
    \A r \in Requests :
        Leased(rows[r]) =>
            rows[r].visibleIn <= Max2(rows[r].deadlineIn, 0)
                                   + Max2(LeaseDuration - rows[r].timeout, 0)

\* A result is only ever written by the machine that holds the lease at that
\* moment, under the epoch of that lease: a late call of an earlier attempt,
\* or of another machine, leaves the stored result alone (CheckLeaseFence).
ResultFromHolder ==
    [][\A r \in Requests :
          \/ rows'[r].resultBy = NoMachine
          \/ /\ rows'[r].resultBy = rows[r].resultBy
             /\ rows'[r].resultOf = rows[r].resultOf
          \/ /\ rows'[r].resultBy = rows[r].leasedBy
             /\ rows'[r].resultOf = rows[r].epoch]_vars

\* An epoch identifies one machine for ever: the fencing token of a grant is
\* never handed out again.
GrantsAreFinal ==
    [][\A r \in Requests, e \in 1..MaxAttempts :
          granted[r][e] # NoMachine => granted'[r][e] = granted[r][e]]_vars

\* What a consumer or a provider can tell of a row.
Outcome(row) == <<row.status, row.resultBy, row.resultOf, row.epoch, row.deadLetter, row.leasedBy>>

\* Nothing changes the outcome of a cancelled request any more: not a late
\* result or update of its last holder, nor the reaper, nor a claim.
CancelledIsFinal ==
    [][\A r \in Requests :
          rows[r].status = "cancelled" => Outcome(rows'[r]) = Outcome(rows[r])]_vars

\* Once a done or failed result is delivered, no cancel, late submission, update
\* or reclaim replaces it; only the capacity requeue can reopen the request
\* and only the retention sweep can remove it.
DeliveredResultStays ==
    [][\A r \in Requests :
          HasResult(rows[r]) =>
              \/ rows'[r].status \in {"pending", "deleted"}
              \/ /\ rows'[r].status = rows[r].status
                 /\ rows'[r].resultBy = rows[r].resultBy
                 /\ rows'[r].resultOf = rows[r].resultOf]_vars

\* The abstract lease a request row stands for.
PhaseOf(row) ==
    IF row.status = "absent" THEN "absent"
    ELSE IF row.status = "deleted" THEN "gone"
    ELSE IF IsTerminalStatus(row.status) THEN "closed" ELSE "open"

AnswerOf(row) == [by |-> row.resultBy, token |-> row.resultOf]

phaseMap == [r \in Requests |-> PhaseOf(rows[r])]
tokenMap == [r \in Requests |-> rows[r].epoch]
holderMap == [r \in Requests |-> rows[r].leasedBy]
answerMap == [r \in Requests |-> AnswerOf(rows[r])]

Lease == INSTANCE FencedLease WITH
            Items <- Requests, Holders <- Machines, NoHolder <- NoMachine,
            MaxTokens <- MaxAttempts,
            phase <- phaseMap, token <- tokenMap, holder <- holderMap, answer <- answerMap

\* The queue implements the abstract fenced lease: every step of every
\* operation on a request is a lease step or leaves the lease alone.
ImplementsFencedLease == Lease!LeaseSpec

Exhausted(row) == row.status = "pending" /\ row.attempts = MaxAttempts

\* A stored request whose tool is registered finishes, unless the capacity
\* requeue of its last attempt leaves it pending with no attempt left.
RequestsFinish ==
    \A r \in Requests :
        InStore(rows[r]) /\ owner[ToolOf[r]] # NoMachine
            ~> \/ ~ InStore(rows[r])
               \/ IsTerminalStatus(rows[r].status)
               \/ Exhausted(rows[r])

\* Every lease ends, by a result, a requeue, a cancel or the reaper: the
\* absolute timeout bounds an attempt however often its lease is renewed.
EveryLeaseEnds ==
    \A r \in Requests, e \in Epochs :
        Leased(rows[r]) /\ rows[r].epoch = e
            ~> ~ (Leased(rows[r]) /\ rows[r].epoch = e)

(***************************************************************************)
(* Properties the documentation or comments state and the code breaks.     *)
(***************************************************************************)

\* requests_fenced.go:371: "A terminal request cannot be driven back into
\* execution."
TerminalStays ==
    [][\A r \in Requests :
          IsTerminalStatus(rows[r].status) =>
              rows'[r].status \in {rows[r].status, "deleted"}]_vars

\* requests.go:501: "a request that already burned its attempts is only
\* reachable by the reaper (into dead-letter), never a new execution."
ExhaustedReachesDeadLetter ==
    \A r \in Requests :
        InStore(rows[r]) /\ rows[r].attempts = MaxAttempts
            ~> ~ InStore(rows[r]) \/ IsTerminalStatus(rows[r].status)

\* DOCUMENTATION.md:118: provider writes "are rejected with
\* `FAILED_PRECONDITION` once the lease is reclaimed, expired, or mismatched".
ExpiredLeaseCannotWrite ==
    [][\A r \in Requests :
          LeaseExpired(rows[r]) =>
              rows'[r].resultBy \in {NoMachine, rows[r].resultBy}]_vars

\* model/request.go:347: "Every terminal-pair check must include cancelled so a
\* cancelled request is treated as finished everywhere (claims, retention,
\* waiters, slot release)."
CancelledIsRetired ==
    \A r \in Requests : rows[r].status = "cancelled" ~> rows[r].status = "deleted"
=============================================================================
