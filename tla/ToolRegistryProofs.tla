------------------------- MODULE ToolRegistryProofs -------------------------
(***************************************************************************)
(* A machine with a fresh heartbeat keeps its tool, for any replicas,      *)
(* machines and calls and any bound on events.                             *)
(***************************************************************************)
EXTENDS ToolRegistry, TLAPS

\* The fields of a call, and the shape of a tool.
CallFields == {"pc", "on", "m", "keeps", "tool"}

IsTool(t) == t = Tool(t.id, t.owner)

\* The inductive invariant.  What a replica has cached are tools, and what a
\* reconciliation has listed is a tool of its own machine.
ListedInv ==
    /\ trow = None \/ IsTool(trow)
    /\ DOMAIN cache = Replicas
    /\ \A r \in Replicas : \A u \in cache[r] : IsTool(u)
    /\ DOMAIN call = Calls
    /\ \A c \in Calls : /\ DOMAIN call[c] = CallFields
                        /\ call[c].pc \notin {"idle"} => call[c].on \in Replicas
                        /\ call[c].tool = None \/ IsTool(call[c].tool)
                        /\ call[c].pc \in {"own", "reconcile"} =>
                               call[c].tool = None \/ call[c].tool.owner = call[c].m
                        /\ call[c].pc \in {"mirror", "own"} => call[c].tool # None

\* The registry starts with a tool and idle calls.
LEMMA InitListed == Init => ListedInv
BY DEF Init, ListedInv, IsTool, Tool, NoCall, CallFields

\* What a call may become: it begins, moves on or ends, and takes along only
\* tools, of its own machine where they were listed as such.
CallsKept ==
    /\ DOMAIN call' = Calls
    /\ \A c \in Calls : /\ DOMAIN call'[c] = CallFields
                        /\ call'[c].pc \notin {"idle"} => call'[c].on \in Replicas
                        /\ call'[c].tool = None \/ IsTool(call'[c].tool)
                        /\ call'[c].pc \in {"own", "reconcile"} =>
                               call'[c].tool = None \/ call'[c].tool.owner = call'[c].m
                        /\ call'[c].pc \in {"mirror", "own"} => call'[c].tool # None

\* A call that ends keeps nothing.
LEMMA ReturnKeeps == ASSUME ListedInv, NEW c \in Calls, Return(c) PROVE CallsKept
BY DEF ListedInv, Return, CallsKept, CallFields, NoCall

\* The operations on the row and one replica's map leave tools there.
ToolsKept ==
    /\ trow' = None \/ IsTool(trow')
    /\ DOMAIN cache' = Replicas
    /\ \A r \in Replicas : \A u \in cache'[r] : IsTool(u)

\* Tool builds tools.
LEMMA ToolIsTool == \A i, m : IsTool(Tool(i, m))
BY DEF IsTool, Tool

\* Mirroring a tool leaves tools in the map.
LEMMA cacheToolKeeps ==
    ASSUME ListedInv, NEW r \in Replicas, NEW t, IsTool(t), cacheTool(r, t), UNCHANGED trow
    PROVE  ToolsKept
BY DEF ListedInv, cacheTool, ToolsKept

\* A claimed row is a tool, and the only entry.
LEMMA RegisterKeeps == ASSUME ListedInv, NEW r \in Replicas, NEW m, Register(r, m) PROVE ToolsKept
<1>1. CASE Claimable(m)
  <2>1. IsTool(trow') /\ cache' = [cache EXCEPT ![r] = {trow'}]
    BY <1>1, ToolIsTool DEF Register, ClaimToolOwnership
  <2> QED BY <2>1 DEF ListedInv, ToolsKept
<1>2. CASE ~Claimable(m)
  BY <1>2 DEF Register, ListedInv, ToolsKept
<1> QED BY <1>1, <1>2

\* A deletion only takes entries and the row away.
LEMMA DeleteKeeps ==
    ASSUME ListedInv, NEW r \in Replicas, NEW i, NEW lost, Delete(r, i, lost)
    PROVE  ToolsKept
BY DEF ListedInv, Delete, ToolsKept

\* So does a deletion by machine.
LEMMA DeleteByMachineKeeps ==
    ASSUME ListedInv, NEW r \in Replicas, NEW m, NEW lost, DeleteToolsByMachine(r, m, lost)
    PROVE  ToolsKept
BY DEF ListedInv, DeleteToolsByMachine, ToolsKept

\* Calls and tools together are the invariant of the next state.
LEMMA KeptIsInv == CallsKept /\ ToolsKept => ListedInv'
BY DEF CallsKept, ToolsKept, ListedInv, IsTool, Tool

\* A step that leaves the calls alone.
LEMMA SameCalls == ListedInv /\ UNCHANGED call => CallsKept
BY DEF ListedInv, CallsKept

\* A step that leaves the row and the maps alone.
LEMMA SameTools == ListedInv /\ UNCHANGED <<trow, cache>> => ToolsKept
BY DEF ListedInv, ToolsKept

-----------------------------------------------------------------------------
(* The invariant is inductive *)

\* The steps of lookups, listings and registrations in progress.
LEMMA MirrorStepKeeps ==
    ASSUME ListedInv, NEW c \in Calls,
           DropMirror(c) \/ Mirror(c) \/ ToolsByMachine(c) \/ MirrorOwn(c) \/ reconcileMachineTools(c)
    PROVE  ListedInv'
<1>a. call[c].pc # "idle" => call[c].on \in Replicas
  BY DEF ListedInv
<1>b. call[c].tool = None \/ IsTool(call[c].tool)
  BY DEF ListedInv
<1>c. call[c].pc \in {"mirror", "own"} => call[c].tool # None
  BY DEF ListedInv
<1>1. CASE DropMirror(c)
  <2>1. CallsKept
    <3>1. CASE call[c].tool = None BY <1>1, <3>1, ReturnKeeps DEF DropMirror
    <3>2. CASE call[c].tool # None BY <1>1, <1>b, <3>2 DEF DropMirror, Goto, ListedInv, CallsKept, CallFields
    <3> QED BY <3>1, <3>2
  <2>2. ToolsKept
    BY <1>1, <1>a DEF DropMirror, ListedInv, ToolsKept
  <2> QED BY <2>1, <2>2, KeptIsInv
<1>2. CASE Mirror(c)
  <2>1. CallsKept
    BY <1>2, ReturnKeeps DEF Mirror
  <2>2. ToolsKept
    BY <1>2, <1>a, <1>b, <1>c, cacheToolKeeps DEF Mirror
  <2> QED BY <2>1, <2>2, KeptIsInv
<1>3. CASE ToolsByMachine(c)
  <2>1. CallsKept
    <3>0. call[c].pc # "idle"
      BY <1>3 DEF ToolsByMachine
    <3>1. CASE Owns(call[c].m) /\ Goto(c, "own", trow)
      BY <3>0, <3>1 DEF Owns, Goto, ListedInv, CallsKept, CallFields
    <3>2. CASE Goto(c, "reconcile", None)
      BY <3>0, <3>2 DEF Goto, ListedInv, CallsKept, CallFields
    <3>3. ASSUME NEW t \in cache[call[c].on], t.owner = call[c].m, Goto(c, "reconcile", t)
          PROVE  CallsKept
      <4>1. IsTool(t)
        BY <1>a, <3>0 DEF ListedInv
      <4> QED BY <3>0, <3>3, <4>1 DEF Goto, ListedInv, CallsKept, CallFields
    <3> QED BY <1>3, <3>1, <3>2, <3>3 DEF ToolsByMachine
  <2>2. ToolsKept
    BY <1>3, SameTools DEF ToolsByMachine
  <2> QED BY <2>1, <2>2, KeptIsInv
<1>4. CASE MirrorOwn(c)
  <2>1. call[c].tool.owner = call[c].m
    BY <1>4, <1>c DEF MirrorOwn, ListedInv
  <2>2. CallsKept
    BY <1>4, <1>b, <2>1 DEF MirrorOwn, Goto, ListedInv, CallsKept, CallFields
  <2>3. ToolsKept
    BY <1>4, <1>a, <1>b, <1>c, cacheToolKeeps DEF MirrorOwn
  <2> QED BY <2>2, <2>3, KeptIsInv
<1>5. CASE reconcileMachineTools(c)
  <2>1. CallsKept
    BY <1>5, ReturnKeeps DEF reconcileMachineTools
  <2>2. ToolsKept
    BY <1>5, <1>a, RegisterKeeps, DeleteKeeps, SameTools DEF reconcileMachineTools
  <2> QED BY <2>1, <2>2, KeptIsInv
<1> QED BY <1>1, <1>2, <1>3, <1>4, <1>5

\* The steps that take a machine's tools away.
LEMMA RemovalKeeps ==
    ASSUME ListedInv, NEW c \in Calls, NEW r \in Replicas, NEW m, NEW lost,
           DrainMachine(c, r, m, lost) \/ Unregister(c, r, m, lost)
    PROVE  ListedInv'
<1>1. CallsKept
  <2>1. CASE DrainMachine(c, r, m, lost)
    BY <2>1 DEF DrainMachine, Begin, ListedInv, CallsKept, CallFields
  <2>2. CASE Begin(c, "removing", r, m, FALSE, None)
    BY <2>2 DEF Begin, ListedInv, CallsKept, CallFields
  <2>3. CASE call[c].pc = "draining" /\ Goto(c, "removing", None)
    BY <2>3 DEF Goto, ListedInv, CallsKept, CallFields
  <2> QED BY <2>1, <2>2, <2>3 DEF Unregister
<1>2. ToolsKept
  BY DeleteByMachineKeeps DEF DrainMachine, Unregister
<1> QED BY <1>1, <1>2, KeptIsInv

\* The reaper's detached copies are tools without an owner.
LEMMA DetachKeeps == ASSUME ListedInv, NEW c \in Calls, DetachToolsForMachine(c) PROVE ListedInv'
<1>1. CallsKept
  BY ReturnKeeps DEF DetachToolsForMachine
<1>2. ToolsKept
  BY ToolIsTool DEF DetachToolsForMachine, ListedInv, ToolsKept
<1> QED BY <1>1, <1>2, KeptIsInv

\* Calls that begin, and machines that come and go.
LEMMA BeginStepKeeps ==
    ASSUME ListedInv, NEW c \in Calls, NEW r \in Replicas, NEW m, NEW keeps, NEW lost,
           \/ GetToolByName(c, r) \/ ListTools(c, r) \/ ReclaimMachine(c, r, m)
           \/ RegisterMachine(c, r, m, keeps, lost)
    PROVE  ListedInv'
<1>t. trow = None \/ IsTool(trow)
  BY DEF ListedInv
<1>1. CASE GetToolByName(c, r)
  <2>1. CallsKept
    BY <1>1, <1>t DEF GetToolByName, Begin, ListedInv, CallsKept, CallFields
  <2>2. ToolsKept
    BY <1>1, SameTools DEF GetToolByName
  <2> QED BY <2>1, <2>2, KeptIsInv
<1>2. CASE ListTools(c, r)
  <2>1. CallsKept
    BY <1>2, <1>t DEF ListTools, Begin, ListedInv, CallsKept, CallFields
  <2>2. ToolsKept
    BY <1>2, SameTools DEF ListTools
  <2> QED BY <2>1, <2>2, KeptIsInv
<1>3. CASE ReclaimMachine(c, r, m)
  <2>1. CallsKept
    <3>1. CASE Begin(c, "detach", r, m, FALSE, trow)
      BY <1>t, <3>1 DEF Begin, ListedInv, CallsKept, CallFields
    <3> QED BY <1>3, <3>1, SameCalls DEF ReclaimMachine
  <2>2. ToolsKept
    <3>1. trow' = trow \/ IsTool(trow')
      BY <1>3, ToolIsTool DEF ReclaimMachine
    <3> QED BY <1>3, <3>1 DEF ReclaimMachine, ListedInv, ToolsKept
  <2> QED BY <2>1, <2>2, KeptIsInv
<1>4. CASE RegisterMachine(c, r, m, keeps, lost)
  <2>1. CallsKept
    BY <1>4 DEF RegisterMachine, Begin, ListedInv, CallsKept, CallFields
  <2>2. ToolsKept
    BY <1>4, SameTools DEF RegisterMachine
  <2> QED BY <2>1, <2>2, KeptIsInv
<1> QED BY <1>1, <1>2, <1>3, <1>4

\* Every step of the registry keeps the invariant.
LEMMA ListedInvInductive == ListedInv /\ [Next]_vars => ListedInv'
<1> SUFFICES ASSUME ListedInv, [Next]_vars PROVE ListedInv'
  OBVIOUS
<1>1. ASSUME NEW c \in Calls, CallStep(c) PROVE ListedInv'
  <2>1. ASSUME NEW lost, DeleteMachine(c, lost) PROVE ListedInv'
    BY <2>1, ReturnKeeps, SameTools, KeptIsInv DEF DeleteMachine
  <2> QED BY <1>1, <2>1, MirrorStepKeeps, RemovalKeeps, DetachKeeps DEF CallStep
<1>2. ASSUME NEW c \in Calls, NEW r \in Replicas, GetToolByName(c, r) \/ ListTools(c, r)
      PROVE  ListedInv'
  BY <1>2, BeginStepKeeps
<1>3. ASSUME NEW c \in Calls, NEW r \in Replicas, NEW m \in Machines, ReclaimMachine(c, r, m)
      PROVE  ListedInv'
  BY <1>3, BeginStepKeeps
<1>4. ASSUME NEW c \in Calls, NEW r \in Replicas, NEW m \in Machines, NEW lost \in BOOLEAN,
             \/ DrainMachine(c, r, m, lost)
             \/ Unregister(c, r, m, lost)
             \/ \E keeps \in BOOLEAN : RegisterMachine(c, r, m, keeps, lost)
      PROVE  ListedInv'
  BY <1>4, BeginStepKeeps, RemovalKeeps
<1>5. ASSUME NEW r \in Replicas, NEW m \in Machines, RegisterTool(r, m) PROVE ListedInv'
  BY <1>5, RegisterKeeps, SameCalls, KeptIsInv DEF RegisterTool
<1>6. ASSUME NEW r \in Replicas, NEW m \in Machines, UpdateMachinePing(r, m) PROVE ListedInv'
  BY <1>6, SameTools, SameCalls, KeptIsInv DEF UpdateMachinePing
<1>7. ASSUME NEW r \in Replicas, NEW i, NEW lost, DeleteTool(r, i, lost) PROVE ListedInv'
  BY <1>7, DeleteKeeps, SameCalls, KeptIsInv DEF DeleteTool
<1>8. ASSUME NEW r \in Replicas, NEW u \in cache[r], UpdateToolPing(r, u) PROVE ListedInv'
  <2>1. ToolsKept
    BY <1>8 DEF UpdateToolPing, SaveTool, ListedInv, ToolsKept
  <2> QED BY <1>8, <2>1, SameCalls, KeptIsInv DEF UpdateToolPing
<1>9. ASSUME NEW r \in Replicas, NEW lost, NewToolService(r, lost) PROVE ListedInv'
  <2>1. CallsKept
    BY <1>9 DEF NewToolService, ListedInv, CallsKept, NoCall, CallFields
  <2>2. ToolsKept
    BY <1>9 DEF NewToolService, Row, ListedInv, ToolsKept
  <2> QED BY <2>1, <2>2, KeptIsInv
<1>10. ASSUME NEW m \in Machines, Lapse(m) PROVE ListedInv'
  BY <1>10, SameTools, SameCalls, KeptIsInv DEF Lapse
<1>11. CASE UNCHANGED vars
  BY <1>11, SameTools, SameCalls, KeptIsInv DEF vars
<1> QED BY <1>1, <1>2, <1>3, <1>4, <1>5, <1>6, <1>7, <1>8, <1>9, <1>10, <1>11 DEF Next

-----------------------------------------------------------------------------
(* What a step does to the row of a live owner *)

\* The tool has an owner whose heartbeat is fresh.
LiveOwner == trow # None /\ trow.owner # None /\ mrow[trow.owner] = "fresh"

\* A registration finds the name claimable only by the owner itself.
LEMMA RegisterLeavesTool ==
    ASSUME ListedInv, LiveOwner, NEW r, NEW m, Register(r, m)
    PROVE  UNCHANGED trow
<1>1. CASE Claimable(m)
  <2>1. trow.owner = m
    BY <1>1 DEF Claimable, LiveOwner
  <2>2. trow' = Tool(trow.id, m)
    BY <1>1 DEF Register, ClaimToolOwnership, LiveOwner
  <2> QED BY <2>1, <2>2 DEF ListedInv, LiveOwner, IsTool
<1>2. CASE ~Claimable(m)
  BY <1>2 DEF Register
<1> QED BY <1>1, <1>2

\* A reconciliation that removes the row had listed it as its own.
LEMMA ReconcileMayChange ==
    ASSUME ListedInv, LiveOwner, NEW c \in Calls, reconcileMachineTools(c), trow' # trow
    PROVE  MayChangeTool
<1>1. call[c].pc = "reconcile" /\ ~call[c].keeps /\ call[c].tool # None
  BY RegisterLeavesTool DEF reconcileMachineTools
<1>2. PICK lost \in BOOLEAN : Delete(call[c].on, call[c].tool.id, lost)
  BY <1>1 DEF reconcileMachineTools
<1>3. trow.id = call[c].tool.id
  BY <1>2 DEF Delete
<1>4. call[c].tool = Tool(call[c].tool.id, call[c].m)
  BY <1>1 DEF ListedInv, IsTool
<1>5. call'[c].pc = "idle"
  BY DEF reconcileMachineTools, Return, NoCall, ListedInv
<1> QED BY <1>1, <1>3, <1>4, <1>5 DEF MayChangeTool

\* A drain or an unregistration takes away its own machine's tool only.
LEMMA RemovalMayChange ==
    ASSUME ListedInv, NEW c \in Calls, NEW r, NEW m, NEW lost, trow' # trow,
           DrainMachine(c, r, m, lost) \/ Unregister(c, r, m, lost)
    PROVE  MayChangeTool
<1>1. trow.owner = m
  BY DEF DrainMachine, Unregister, DeleteToolsByMachine, Owns
<1>2. ASSUME NEW pc, pc \in {"draining", "removing"}, Begin(c, pc, r, m, FALSE, None)
      PROVE  MayChangeTool
  <2>1. call[c].pc = "idle"
    BY <1>2 DEF Begin
  <2>2. call'[c].pc = pc /\ call'[c].m = m
    BY <1>2 DEF Begin, ListedInv
  <2> QED BY <1>1, <1>2, <2>1, <2>2 DEF MayChangeTool
<1>3. ASSUME call[c].pc = "draining", call[c].m = m, Goto(c, "removing", None)
      PROVE  MayChangeTool
  <2>1. call'[c].pc = "removing" /\ call'[c].m = m
    BY <1>3 DEF Goto, ListedInv, CallFields
  <2> QED BY <1>1, <1>3, <2>1 DEF MayChangeTool
<1> QED BY <1>2, <1>3 DEF DrainMachine, Unregister

\* DeleteTool drops the entry with the id along with the row.
LEMMA DeleteMayChange ==
    ASSUME ListedInv, NEW r \in Replicas, NEW i, NEW lost, DeleteTool(r, i, lost), trow' # trow
    PROVE  MayChangeTool
<1>1. PICK u \in cache[r] : u.id = i
  BY DEF DeleteTool, Delete
<1>2. trow' = None /\ UNCHANGED call
  BY DEF DeleteTool, Delete
<1>3. u \notin cache'[r]
  BY <1>1 DEF DeleteTool, Delete, ListedInv
<1> QED BY <1>1, <1>2, <1>3 DEF MayChangeTool

\* Every step that changes a live owner's row is one of those allowed.
LEMMA StepKeepsTool ==
    ASSUME ListedInv, LiveOwner, Next, trow' # trow
    PROVE  MayChangeTool
<1>1. ASSUME NEW c \in Calls, CallStep(c) PROVE MayChangeTool
  BY <1>1, ReconcileMayChange, RemovalMayChange
     DEF CallStep, DropMirror, Mirror, ToolsByMachine, MirrorOwn, DeleteMachine,
         DetachToolsForMachine
<1>2. ASSUME NEW c \in Calls, NEW r \in Replicas, GetToolByName(c, r) \/ ListTools(c, r)
      PROVE  MayChangeTool
  BY <1>2 DEF GetToolByName, ListTools
<1>3. ASSUME NEW c \in Calls, NEW r \in Replicas, NEW m \in Machines, ReclaimMachine(c, r, m)
      PROVE  MayChangeTool
  BY <1>3 DEF ReclaimMachine, Owns, LiveOwner
<1>4. ASSUME NEW c \in Calls, NEW r \in Replicas, NEW m \in Machines, NEW lost \in BOOLEAN,
             \/ DrainMachine(c, r, m, lost)
             \/ Unregister(c, r, m, lost)
             \/ \E keeps \in BOOLEAN : RegisterMachine(c, r, m, keeps, lost)
      PROVE  MayChangeTool
  BY <1>4, RemovalMayChange DEF RegisterMachine
<1>5. ASSUME NEW r \in Replicas, NEW m \in Machines, RegisterTool(r, m) \/ UpdateMachinePing(r, m)
      PROVE  MayChangeTool
  BY <1>5, RegisterLeavesTool DEF RegisterTool, UpdateMachinePing
<1>6. ASSUME NEW r \in Replicas, NEW i, NEW lost, DeleteTool(r, i, lost) PROVE MayChangeTool
  BY <1>6, DeleteMayChange
<1>7. ASSUME NEW r \in Replicas, NEW u \in cache[r], UpdateToolPing(r, u) PROVE MayChangeTool
  BY <1>7 DEF UpdateToolPing, SaveTool, MayChangeTool
<1>8. ASSUME NEW r \in Replicas, NEW lost, NewToolService(r, lost) PROVE MayChangeTool
  BY <1>8 DEF NewToolService
<1>9. ASSUME NEW m \in Machines, Lapse(m) PROVE MayChangeTool
  BY <1>9 DEF Lapse
<1> QED BY <1>1, <1>2, <1>3, <1>4, <1>5, <1>6, <1>7, <1>8, <1>9 DEF Next

\* While its owner's heartbeat is fresh, the tool's row changes only by the
\* owner's drain or unregistration, DeleteTool, a reconciliation that drops a
\* name it listed as its own, or UpdateToolPing: ClaimToolOwnership refuses
\* other machines and ReclaimMachine rechecks the heartbeat.
THEOREM LiveOwnerKept == Spec => LiveOwnerKeepsTool
<1>1. Init => ListedInv
  BY InitListed
<1>2. ListedInv /\ [Next]_vars => ListedInv'
  BY ListedInvInductive
<1>3. ListedInv /\ [Next]_vars =>
        [trow # None /\ trow' # trow /\ trow.owner # None /\ mrow[trow.owner] = "fresh"
         => MayChangeTool]_vars
  BY StepKeepsTool DEF LiveOwner
<1> QED BY <1>1, <1>2, <1>3, PTL DEF Spec, LiveOwnerKeepsTool

=============================================================================
