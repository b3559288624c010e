---------------------------- MODULE ToolRegistry ----------------------------
(***************************************************************************)
(* One tool name of one session: who owns it, and what each replica's copy *)
(* of the registry says.  The tools table has at most one row for the name *)
(* (UNIQUE (session_id, name)); ToolService (pkg/service/tool.go) keeps a  *)
(* map of tools per replica, which may hold several entries for the name   *)
(* under different ids.  Machines (pkg/service/machine.go) appear by their *)
(* row and its heartbeat; their capacity and their drains are the subject  *)
(* of MachineLoad.  A replica is taken to know every machine, and a        *)
(* registration to have passed the check of the drain flag, which the code *)
(* makes before it takes any lock.                                         *)
(*                                                                         *)
(* What holds toolsMutex across its store call is one step.  Lookups,      *)
(* listings, reconciliation, unregistration and the reaper take the lock   *)
(* or go to the store several times, and are one step for each.            *)
(***************************************************************************)
EXTENDS Integers, FiniteSets

CONSTANTS
    Replicas, Machines,
    Calls,          \* bound: calls in progress at the same time
    MaxEvents,      \* bound: registrations, drains, unregistrations, deletions,
                    \* tool pings, lapses, failed store calls and restarts
    None

VARIABLES
    mrow,    \* mrow[m]: the machine's row is missing, fresh or stale
    trow,    \* the row of the tool, or None
    cache,   \* cache[r]: the entries for the name in s.tools
    call,    \* call[c]: a call between two of its steps
    ids,     \* rows inserted so far, which gives them their ids
    count    \* the events so far that MaxEvents bounds

vars == <<mrow, trow, cache, call, ids, count>>

ASSUME RegistryAssumption ==
    MaxEvents \in Nat /\ None \notin Machines

\* A tool is its id and its machine_id.
Tool(i, m) == [id |-> i, owner |-> m]
Row == IF trow = None THEN {} ELSE {trow}
Owns(m) == trow # None /\ trow.owner = m

NoCall == [pc |-> "idle", on |-> None, m |-> None, keeps |-> FALSE, tool |-> None]
\* Calls are interchangeable: a new one takes the first free place.
Begin(c, pc, r, m, keeps, t) ==
    /\ {d \in Calls : call[d].pc = "idle"} # {}
    /\ c = CHOOSE d \in Calls : call[d].pc = "idle"
    /\ call' = [call EXCEPT ![c] =
                   [pc |-> pc, on |-> r, m |-> m, keeps |-> keeps, tool |-> t]]
Goto(c, pc, t) == call' = [call EXCEPT ![c].pc = pc, ![c].tool = t]
Return(c) == call' = [call EXCEPT ![c] = NoCall]

Events(n) == count + n =< MaxEvents /\ count' = count + n
\* A store call that fails, where the code only logs it.
Errors(lost) == IF lost THEN 1 ELSE 0

\* Registered machines; one of them, no matter which, has registered the tool
\* through a replica.
Init ==
    /\ mrow = [m \in Machines |-> "fresh"]
    /\ trow = Tool(1, CHOOSE m \in Machines : TRUE)
    /\ cache = [r \in Replicas |-> IF r = CHOOSE s \in Replicas : TRUE THEN {trow} ELSE {}]
    /\ call = [c \in Calls |-> NoCall]
    /\ ids = 1
    /\ count = 0

-----------------------------------------------------------------------------
(* The registry's operations, each under toolsMutex *)


\* A row read from the store replaces the entry with its id.
cacheTool(r, t) == cache' = [cache EXCEPT ![r] = {u \in @ : u.id # t.id} \cup {t}]

\* A fresh machine may take the name unless another fresh machine has it.
Claimable(m) ==
    /\ mrow[m] = "fresh"
    /\ trow # None /\ trow.owner \notin {m, None} => mrow[trow.owner] # "fresh"

\* The row is inserted under a new id, or changes hands under its own.
ClaimToolOwnership(m) ==
    /\ ids' = IF trow = None THEN ids + 1 ELSE ids
    /\ trow' = IF trow = None THEN Tool(ids + 1, m) ELSE Tool(trow.id, m)

\* A claimed row becomes the only entry for the name.
Register(r, m) ==
    IF Claimable(m)
    THEN ClaimToolOwnership(m) /\ cache' = [cache EXCEPT ![r] = {trow'}]
    ELSE UNCHANGED <<trow, cache, ids>>

RegisterTool(r, m) ==
    /\ Events(1)
    /\ Register(r, m)
    /\ UNCHANGED <<mrow, call>>

\* Nothing for an id that is not cached here; else the entry goes, and the row
\* with that id, whoever owns it by now.
Delete(r, i, lost) ==
    IF \E u \in cache[r] : u.id = i
    THEN /\ cache' = [cache EXCEPT ![r] = {u \in @ : u.id # i}]
         /\ trow' = IF ~lost /\ trow # None /\ trow.id = i THEN None ELSE trow
    ELSE UNCHANGED <<trow, cache>>

DeleteTool(r, i, lost) ==
    /\ Events(1 + Errors(lost))
    /\ Delete(r, i, lost)
    /\ UNCHANGED <<mrow, call, ids>>

\* An upsert by id.  A row under another id makes the insert break
\* UNIQUE (session_id, name).
SaveTool(u) == trow' = IF trow = None \/ trow.id = u.id THEN u ELSE trow

\* The cached entry is saved as it is, and an error only logged.
UpdateToolPing(r, u) ==
    /\ u \in cache[r]
    /\ Events(1)
    /\ SaveTool(u)
    /\ UNCHANGED <<mrow, cache, call, ids>>

\* Mutant of DeleteToolsByMachine: the rows this replica has cached for the
\* machine go, by their ids.
DeleteCachedTools(r, m, lost) ==
    /\ trow' = IF ~lost /\ trow # None /\ Tool(trow.id, m) \in cache[r] THEN None ELSE trow
    /\ cache' = [cache EXCEPT ![r] = {u \in @ : u.owner # m}]

\* The machine's rows in the store, then what is cached under their ids or for
\* the machine.
DeleteToolsByMachine(r, m, lost) ==
    LET deleted == ~lost /\ Owns(m) IN
    /\ trow' = IF deleted THEN None ELSE trow
    /\ cache' = [cache EXCEPT ![r] =
                    {u \in @ : u.owner # m /\ ~(deleted /\ u.id = trow.id)}]

-----------------------------------------------------------------------------
(* Lookups and listings: the store's answer is mirrored by a later step *)

\* The authoritative read.  A store error leaves the cache to answer, which
\* changes nothing.
GetToolByName(c, r) ==
    /\ Begin(c, "read", r, None, FALSE, trow)
    /\ UNCHANGED <<mrow, trow, cache, ids, count>>

\* Mutant of DropMirror: only a miss drops what was cached.
DropOnMiss(c) ==
    /\ call[c].pc = "read"
    /\ IF call[c].tool = None
       THEN Return(c) /\ cache' = [cache EXCEPT ![call[c].on] = {}]
       ELSE Goto(c, "mirror", call[c].tool) /\ UNCHANGED cache
    /\ UNCHANGED <<mrow, trow, ids, count>>

\* All entries for the name are dropped, then, when the store has it, cacheTool.
DropMirror(c) ==
    /\ call[c].pc = "read"
    /\ cache' = [cache EXCEPT ![call[c].on] = {}]
    /\ IF call[c].tool = None THEN Return(c) ELSE Goto(c, "mirror", call[c].tool)
    /\ UNCHANGED <<mrow, trow, ids, count>>

\* A listing that finds the name mirrors it, and drops nothing.
ListTools(c, r) ==
    /\ trow # None
    /\ Begin(c, "mirror", r, None, FALSE, trow)
    /\ UNCHANGED <<mrow, trow, cache, ids, count>>

Mirror(c) ==
    /\ call[c].pc = "mirror"
    /\ cacheTool(call[c].on, call[c].tool)
    /\ Return(c)
    /\ UNCHANGED <<mrow, trow, ids, count>>

-----------------------------------------------------------------------------
(* Machines *)

\* UnregisterMachine has machinesMutex from its first store call to its last.
Locked(r) == \E c \in Calls : call[c].pc = "removing" /\ call[c].on = r

\* The machine's row is saved, with a new heartbeat; then its tools are
\* reconciled with a list that keeps or drops the name.
RegisterMachine(c, r, m, keeps, lost) ==
    /\ ~Locked(r)
    /\ Events(1 + Errors(lost))
    /\ Begin(c, "registered", r, m, keeps, None)
    /\ mrow' = IF lost THEN mrow ELSE [mrow EXCEPT ![m] = "fresh"]
    /\ UNCHANGED <<trow, cache, ids>>

\* The machine's tools by the store, or, when it cannot be read, by the cache.
ToolsByMachine(c) ==
    /\ call[c].pc = "registered"
    /\ \/ /\ UNCHANGED count
          /\ IF Owns(call[c].m) THEN Goto(c, "own", trow) ELSE Goto(c, "reconcile", None)
       \/ LET own == {u \in cache[call[c].on] : u.owner = call[c].m} IN
          /\ Events(1)
          /\ \E t \in IF own = {} THEN {None} ELSE own : Goto(c, "reconcile", t)
    /\ UNCHANGED <<mrow, trow, cache, ids>>

MirrorOwn(c) ==
    /\ call[c].pc = "own"
    /\ cacheTool(call[c].on, call[c].tool)
    /\ Goto(c, "reconcile", call[c].tool)
    /\ UNCHANGED <<mrow, trow, ids, count>>

\* A kept name is registered in place; a listed one that is dropped is deleted
\* by its id.
reconcileMachineTools(c) ==
    LET k == call[c] IN
    /\ k.pc = "reconcile"
    /\ \/ k.keeps /\ Register(k.on, k.m) /\ UNCHANGED count
       \/ ~k.keeps /\ k.tool = None /\ UNCHANGED <<trow, cache, ids, count>>
       \/ /\ ~k.keeps /\ k.tool # None
          /\ \E lost \in BOOLEAN : Delete(k.on, k.tool.id, lost) /\ Events(Errors(lost))
          /\ UNCHANGED ids
    /\ Return(c)
    /\ UNCHANGED mrow

UpdateMachinePing(r, m) ==
    /\ ~Locked(r) /\ mrow[m] = "stale"
    /\ mrow' = [mrow EXCEPT ![m] = "fresh"]
    /\ UNCHANGED <<trow, cache, call, ids, count>>

\* External: a machine stops its heartbeats for machineHeartbeatTTL.
Lapse(m) ==
    /\ mrow[m] = "fresh"
    /\ Events(1)
    /\ mrow' = [mrow EXCEPT ![m] = "stale"]
    /\ UNCHANGED <<trow, cache, call, ids>>

\* A drain takes the machine's tools away at once, and unregisters the machine
\* when its requests are done.
DrainMachine(c, r, m, lost) ==
    /\ Events(1 + Errors(lost))
    /\ Begin(c, "draining", r, m, FALSE, None)
    /\ DeleteToolsByMachine(r, m, lost)
    /\ UNCHANGED <<mrow, ids>>

\* The first half of UnregisterMachine, called by a client or by a drain.
Unregister(c, r, m, lost) ==
    /\ ~Locked(r)
    /\ \/ Events(1 + Errors(lost)) /\ Begin(c, "removing", r, m, FALSE, None)
       \/ /\ call[c].pc = "draining" /\ call[c].on = r /\ call[c].m = m
          /\ Events(Errors(lost)) /\ Goto(c, "removing", None)
    /\ DeleteToolsByMachine(r, m, lost)
    /\ UNCHANGED <<mrow, ids>>

\* Its second half: the machine's row.
DeleteMachine(c, lost) ==
    /\ call[c].pc = "removing"
    /\ Events(Errors(lost))
    /\ mrow' = IF lost THEN mrow ELSE [mrow EXCEPT ![call[c].m] = "none"]
    /\ Return(c)
    /\ UNCHANGED <<trow, cache, ids>>

\* The reaper detaches the tool in the store and deletes the machine's row.  Its
\* candidates may come from the replica's own, old copy of the heartbeats; the
\* transaction decides by the row.
ReclaimMachine(c, r, m) ==
    /\ mrow[m] = "stale"
    /\ mrow' = [mrow EXCEPT ![m] = "none"]
    /\ IF Owns(m)
       THEN Begin(c, "detach", r, m, FALSE, trow) /\ trow' = Tool(trow.id, None)
       ELSE UNCHANGED <<call, trow>>
    /\ UNCHANGED <<cache, ids, count>>

DetachToolsForMachine(c) ==
    LET k == call[c] IN
    /\ k.pc = "detach"
    /\ cache' = [cache EXCEPT ![k.on] =
                    {IF u = k.tool THEN Tool(u.id, None) ELSE u : u \in @}]
    /\ Return(c)
    /\ UNCHANGED <<mrow, trow, ids, count>>

\* A restarted replica loads the tools, or starts without them; its calls end.
NewToolService(r, lost) ==
    /\ Events(1 + Errors(lost))
    /\ cache' = [cache EXCEPT ![r] = IF lost THEN {} ELSE Row]
    /\ call' = [c \in Calls |-> IF call[c].on = r THEN NoCall ELSE call[c]]
    /\ UNCHANGED <<mrow, trow, ids>>

-----------------------------------------------------------------------------
CallStep(c) ==
    \/ DropMirror(c) \/ Mirror(c)
    \/ ToolsByMachine(c) \/ MirrorOwn(c) \/ reconcileMachineTools(c)
    \/ \E r \in Replicas, m \in Machines, lost \in BOOLEAN :
           call[c].pc = "draining" /\ Unregister(c, r, m, lost)
    \/ \E lost \in BOOLEAN : DeleteMachine(c, lost)
    \/ DetachToolsForMachine(c)

Next ==
    \/ \E c \in Calls : CallStep(c)
    \/ \E c \in Calls, r \in Replicas : GetToolByName(c, r) \/ ListTools(c, r)
    \/ \E c \in Calls, r \in Replicas, m \in Machines :
           \/ ReclaimMachine(c, r, m)
           \/ \E lost \in BOOLEAN :
                  \/ DrainMachine(c, r, m, lost)
                  \/ Unregister(c, r, m, lost)
                  \/ \E keeps \in BOOLEAN : RegisterMachine(c, r, m, keeps, lost)
    \/ \E r \in Replicas, m \in Machines : RegisterTool(r, m) \/ UpdateMachinePing(r, m)
    \/ \E r \in Replicas : \E i \in 1..ids, lost \in BOOLEAN : DeleteTool(r, i, lost)
    \/ \E r \in Replicas : \E u \in cache[r] : UpdateToolPing(r, u)
    \/ \E r \in Replicas, lost \in BOOLEAN : NewToolService(r, lost)
    \/ \E m \in Machines : Lapse(m)

Spec == Init /\ [][Next]_vars

\* Calls run to their end, and every replica keeps being asked for the tool.
FairSpec ==
    /\ Spec
    /\ \A c \in Calls : WF_vars(CallStep(c))
    /\ \A r \in Replicas : SF_vars(\E c \in Calls : GetToolByName(c, r))

-----------------------------------------------------------------------------
(* Properties *)

\* The steps that may change the row of a tool whose owner's heartbeat is fresh:
\* the owner's own drain or unregistration; DeleteTool; a re-registration that
\* drops the name and listed it as its own; UpdateToolPing, which writes an old
\* copy back.
MayChangeTool ==
    \/ \E c \in Calls : /\ call'[c].pc \in {"draining", "removing"}
                        /\ call'[c].pc # call[c].pc
                        /\ call'[c].m = trow.owner
    \/ /\ trow' = None /\ UNCHANGED call
       /\ \E r \in Replicas : cache[r] \ cache'[r] # {}
    \/ \E c \in Calls : /\ call[c].pc = "reconcile" /\ call'[c].pc = "idle"
                        /\ ~call[c].keeps /\ call[c].tool # None
                        /\ call[c].tool = Tool(trow.id, call[c].m)
    \/ UNCHANGED <<cache, call>> /\ \E r \in Replicas : trow' \in cache[r]

\* Only those steps change it.  In particular no registration takes it over, no
\* re-registration that keeps the name makes it disappear, and a reaper that has
\* listed the machine leaves it alone after a heartbeat (ReclaimMachine's
\* recheck).
LiveOwnerKeepsTool ==
    [][trow # None /\ trow' # trow /\ trow.owner # None /\ mrow[trow.owner] = "fresh"
       => MayChangeTool]_vars

\* Once the tool is left alone, every replica that keeps being asked for it
\* holds nothing but the current row: what a late mirror, a listing or a
\* deletion elsewhere left behind is dropped by the next lookup.
CacheConverges == <>[](\A r \in Replicas : cache[r] \subseteq Row)

\* "a name held by another live machine keeps its current owner"
\* (reconcileMachineTools).  True of the names in the list.  Violated for a name
\* that a re-registration drops: it is deleted by its id, which a takeover in the
\* meantime has kept.
HeldNameKeepsOwner ==
    [][\A c \in Calls : /\ call[c].pc = "reconcile" /\ call'[c].pc = "idle"
                        /\ call'[c] # call[c]
                        /\ trow # None /\ trow.owner \notin {call[c].m, None}
                        /\ mrow[trow.owner] = "fresh"
                        => trow' = trow]_vars

=============================================================================
