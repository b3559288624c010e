------------------------------ MODULE McpServer ------------------------------
(***************************************************************************)
(* The MCP facade (pkg/mcp/server.go, tools.go, tasks.go) on several        *)
(* gateways: the session it provisions for a caller that binds none, the    *)
(* request that a tools/call creates or finds again, the wait of a client   *)
(* without the Tasks extension, and cancellation.                           *)
(*                                                                         *)
(* A caller is the hash of its credential.  Tool name and arguments of a    *)
(* call are one value, its input.  Rendering, the tool catalog and chunk    *)
(* windows are left out: they change no state.  The backend is what its     *)
(* modules show of it: creation finds the request with the same session and *)
(* key (ReplicaCache), and a cancel ends a request that has not ended.      *)
(***************************************************************************)
EXTENDS Integers, Sequences, FiniteSets, SequencesExt

CONSTANTS
    Gateways,
    Callers,
    Ids,            \* JSON-RPC ids
    Inputs,
    Metas,          \* what _meta may bind: None, or the session 0
    MaxBound,       \* sessionCacheMaxEntry
    MaxTracked,     \* maxTrackedCalls
    Calls,          \* bound: messages in progress at the same time
    MaxEvents,      \* bound: messages, failed backend calls, idle
                    \* bindings and restarts
    None

VARIABLES
    bound,      \* bound[g]: sessionByKey, least recently used first
    holder,     \* holder[g]: the call that holds sessionsMu, or None
    sessions,   \* sessions provisioned so far
    requests,   \* the requests of the backend, in the order of creation
    tracked,    \* tracked[g]: trackedCalls, a function of caller and id
    order,      \* order[g]: trackedOrder
    call,       \* call[c]: a message being served
    lost,       \* lost[g]: callers whose binding was dropped (history variable)
    count       \* the events so far that MaxEvents bounds

cached == <<bound, holder, sessions, lost>>
tracking == <<tracked, order>>
vars == <<bound, holder, sessions, requests, tracked, order, call, lost, count>>

ASSUME McpAssumption ==
    /\ MaxBound \in Nat \ {0} /\ MaxTracked \in Nat \ {0} /\ MaxEvents \in Nat
    /\ Metas \subseteq {None, 0}

NoCall == [pc |-> "idle", kind |-> None, at |-> None, by |-> None, id |-> None, input |-> None,
           meta |-> None, session |-> None, req |-> 0, again |-> FALSE, newer |-> {}]

Init ==
    /\ bound = [g \in Gateways |-> << >>]
    /\ holder = [g \in Gateways |-> None]
    /\ sessions = 0
    /\ requests = << >>
    /\ tracked = [g \in Gateways |-> << >>]
    /\ order = [g \in Gateways |-> << >>]
    /\ call = [c \in Calls |-> NoCall]
    /\ lost = [g \in Gateways |-> {}]
    /\ count = 0

Event == count < MaxEvents /\ count' = count + 1
Continue(c, x) == call' = [call EXCEPT ![c] = x]
Return(c) == Continue(c, NoCall)

\* Messages are interchangeable: a new one takes the first free place.
Begin(c, x) ==
    /\ Event
    /\ {d \in Calls : call[d].pc = "idle"} # {}
    /\ c = CHOOSE d \in Calls : call[d].pc = "idle"
    /\ Continue(c, x)

-----------------------------------------------------------------------------
(* Sessions *)

\* A request that needs a session: tools/call of a client without or with Tasks
\* ("sync", "task"), tasks/cancel, and the reads (tools/list, tasks/get).  An
\* explicit session wins; otherwise the caller's binding is needed.
dispatch(c, g, k, kind, i, input, meta, q) ==
    /\ Begin(c, [NoCall EXCEPT !.pc = IF meta = None THEN "resolve" ELSE "routed", !.kind = kind,
                               !.at = g, !.by = k, !.id = i, !.input = input,
                               !.meta = meta, !.session = meta, !.req = q])
    /\ UNCHANGED <<cached, requests, tracking>>

ToolsCall(c, g, k, i) ==
    \E kind \in {"sync", "task"}, input \in Inputs, meta \in Metas :
        dispatch(c, g, k, kind, i, input, meta, 0)
TasksCancel(c, g, k) ==
    \E meta \in Metas, q \in DOMAIN requests : dispatch(c, g, k, "cancel", None, None, meta, q)
Read(c, g, k) == \E meta \in Metas : dispatch(c, g, k, "read", None, None, meta, 0)

Entry(k, session, idle) == [by |-> k, session |-> session, idle |-> idle]
Others(g, k) == SelectSeq(bound[g], LAMBDA e : e.by # k)
EntriesOf(g, k) == {e \in Range(bound[g]) : e.by = k}

\* Mutant of resolveSession: sessionsMu is not held across lookup and creation.
ResolveUnlocked(c) ==
    LET x == call[c]  g == x.at  fresh == {e \in EntriesOf(g, x.by) : ~ e.idle} IN
    /\ x.pc = "resolve"
    /\ IF fresh # {}
       THEN \E e \in fresh :
              /\ bound' = [bound EXCEPT ![g] = Append(Others(g, x.by), e)]
              /\ Continue(c, [x EXCEPT !.pc = "routed", !.session = e.session])
              /\ UNCHANGED lost
       ELSE /\ bound' = [bound EXCEPT ![g] = Others(g, x.by)]
            /\ lost' = IF EntriesOf(g, x.by) = {} THEN lost ELSE [lost EXCEPT ![g] = @ \cup {x.by}]
            /\ Continue(c, [x EXCEPT !.pc = "provision"])
    /\ UNCHANGED <<holder, sessions, requests, tracking, count>>

\* Under sessionsMu: a binding in use is refreshed and taken, an idle one is
\* dropped.  The lock is kept for the creation of another session.
resolveSession(c) ==
    LET x == call[c]  g == x.at  fresh == {e \in EntriesOf(g, x.by) : ~ e.idle} IN
    /\ x.pc = "resolve" /\ holder[g] = None
    /\ IF fresh # {}
       THEN \E e \in fresh :
              /\ bound' = [bound EXCEPT ![g] = Append(Others(g, x.by), e)]
              /\ Continue(c, [x EXCEPT !.pc = "routed", !.session = e.session])
              /\ UNCHANGED <<holder, lost>>
       ELSE /\ bound' = [bound EXCEPT ![g] = Others(g, x.by)]
            /\ lost' = IF EntriesOf(g, x.by) = {} THEN lost ELSE [lost EXCEPT ![g] = @ \cup {x.by}]
            /\ holder' = [holder EXCEPT ![g] = c]
            /\ Continue(c, [x EXCEPT !.pc = "provision"])
    /\ UNCHANGED <<sessions, requests, tracking, count>>

\* The session is created and bound, in place of the least recently used binding
\* when there are too many.
provisionSession(c) ==
    LET x == call[c]  g == x.at
        full == Len(bound[g]) >= MaxBound
    IN  /\ x.pc = "provision"
        /\ sessions' = sessions + 1
        /\ bound' = [bound EXCEPT ![g] = Append(IF full THEN Tail(@) ELSE @, Entry(x.by, sessions', FALSE))]
        /\ lost' = IF full THEN [lost EXCEPT ![g] = @ \cup ({Head(bound[g]).by} \ {x.by})] ELSE lost
        /\ holder' = [holder EXCEPT ![g] = None]
        /\ Continue(c, [x EXCEPT !.pc = "routed", !.session = sessions'])
        /\ UNCHANGED <<requests, tracking, count>>

\* Mutant of provisionFails: the error path keeps sessionsMu.
FailLocked(c) ==
    /\ call[c].pc = "provision"
    /\ Event
    /\ Return(c)
    /\ UNCHANGED <<cached, requests, tracking>>

provisionFails(c) ==
    /\ call[c].pc = "provision"
    /\ Event
    /\ holder' = [holder EXCEPT ![call[c].at] = None]
    /\ Return(c)
    /\ UNCHANGED <<bound, sessions, lost, requests, tracking>>

\* External: a caller sends nothing for sessionCacheTTL, nor does any caller whose
\* binding was used before its own.
BindingIdle(g) ==
    /\ Event
    /\ \E i \in DOMAIN bound[g] :
           /\ \A j \in 1..i : bound[g][j].idle <=> j < i
           /\ bound' = [bound EXCEPT ![g][i].idle = TRUE]
    /\ UNCHANGED <<holder, sessions, lost, requests, tracking, call>>

-----------------------------------------------------------------------------
(* tools/call *)

\* The key of a call, which has no part for the caller.
deriveCallIdempotencyKey(x) == <<x.id, x.input>>

\* What the backend has under the call's session and key, or the new request.
\* The rest of the record is who asked first (history).
Found(x) == {q \in DOMAIN requests : /\ requests[q].session = x.session
                                     /\ requests[q].key = deriveCallIdempotencyKey(x)}
NewRequest(x) == [session |-> x.session, key |-> deriveCallIdempotencyKey(x), over |-> FALSE,
                  at |-> x.at, by |-> x.by, meta |-> x.meta]

CreateRequest(c) ==
    LET x == call[c] IN
    /\ x.pc = "routed" /\ x.kind \in {"sync", "task"}
    /\ IF Found(x) = {}
       THEN /\ requests' = Append(requests, NewRequest(x))
            /\ Continue(c, [x EXCEPT !.pc = "created", !.req = Len(requests')])
       ELSE /\ \E q \in Found(x) : Continue(c, [x EXCEPT !.pc = "created", !.req = q])
            /\ UNCHANGED requests
    /\ UNCHANGED <<cached, tracking, count>>

\* The call fails, or its answer is lost after the request was created: nothing
\* is tracked.
CreateFails(c) ==
    LET x == call[c] IN
    /\ x.pc = "routed" /\ x.kind \in {"sync", "task"}
    /\ Event
    /\ \/ UNCHANGED requests
       \/ Found(x) = {} /\ requests' = Append(requests, NewRequest(x))
    /\ Return(c)
    /\ UNCHANGED <<cached, tracking>>

trackingKey(x) == <<x.by, x.id>>

\* The calls that go on waiting at x's gateway see another call tracked; c waits
\* itself, or has answered with its task.
Tracked(c, again) ==
    LET x == call[c] IN
    call' = [d \in Calls |->
        IF d = c THEN IF x.kind = "task" THEN NoCall ELSE [x EXCEPT !.pc = "await", !.again = again]
        ELSE IF call[d].pc = "await" /\ call[d].at = x.at
             THEN [call[d] EXCEPT !.newer = @ \cup {trackingKey(x)}] ELSE call[d]]

Track(c, req) ==
    LET x == call[c]  g == x.at  key == trackingKey(x)
        exists == key \in DOMAIN tracked[g]
        full == ~ exists /\ Cardinality(DOMAIN tracked[g]) >= MaxTracked
        kept == DOMAIN tracked[g] \ (IF full THEN {Head(order[g])} ELSE {})
        queue == IF full THEN Tail(order[g]) ELSE order[g]
    IN  /\ tracked' = [tracked EXCEPT ![g] =
                          [k \in kept \cup {key} |-> IF k = key THEN req ELSE tracked[g][k]]]
        /\ order' = [order EXCEPT ![g] = IF exists THEN queue ELSE Append(queue, key)]
        /\ Tracked(c, exists)

\* Mutant of trackCall: a key that is tracked keeps the request it has.
TrackKeepsFirst(c) ==
    LET x == call[c] IN
    /\ x.pc = "created"
    /\ Track(c, IF trackingKey(x) \in DOMAIN tracked[x.at] THEN tracked[x.at][trackingKey(x)] ELSE x.req)
    /\ UNCHANGED <<cached, requests, count>>

\* Under callsMu: the oldest key makes room for a new one; a key that is there
\* keeps its place in the order and takes the new request.
trackCall(c) ==
    /\ call[c].pc = "created"
    /\ Track(c, call[c].req)
    /\ UNCHANGED <<cached, requests, count>>

\* Mutant of awaitSyncResult: only the request's end ends the wait.
AwaitEnd(c) ==
    /\ call[c].pc = "await"
    /\ requests[call[c].req].over
    /\ Return(c)
    /\ UNCHANGED <<cached, requests, tracking, count>>

\* A poll finds the request ended, fails, or comes after the sync timeout, or the
\* client hangs up: some poll does, whatever becomes of the request.
awaitSyncResult(c) ==
    /\ call[c].pc = "await"
    /\ Return(c)
    /\ UNCHANGED <<cached, requests, tracking, count>>

-----------------------------------------------------------------------------
(* Reads, and the two ways to cancel *)

\* tools/list and tasks/get end after their backend call.  So does tasks/cancel
\* when the call fails, the session has no such request or the request has ended.
GetRequest(c) ==
    LET x == call[c] IN
    /\ x.pc = "routed" /\ x.kind \in {"cancel", "read"}
    /\ \/ /\ x.kind = "cancel" /\ requests[x.req].session = x.session /\ ~ requests[x.req].over
          /\ Continue(c, [x EXCEPT !.pc = "cancel"])
       \/ Return(c)
    /\ UNCHANGED <<cached, requests, tracking, count>>

\* The request that is tracked for the caller and the id is cancelled next; an
\* unknown id is dropped.
handleCancelledNotification(c, g, k, i) ==
    /\ <<k, i>> \in DOMAIN tracked[g]
    /\ Begin(c, [NoCall EXCEPT !.pc = "cancel", !.kind = "stop", !.at = g, !.by = k, !.id = i,
                               !.req = tracked[g][<<k, i>>]])
    /\ UNCHANGED <<cached, requests, tracking>>

\* The backend cancels the request unless it has ended, or is not reached: the
\* facade tries once.
CancelRequest(c) ==
    /\ call[c].pc = "cancel"
    /\ \/ requests' = [requests EXCEPT ![call[c].req].over = TRUE]
       \/ UNCHANGED requests
    /\ Return(c)
    /\ UNCHANGED <<cached, tracking, count>>

\* External: a provider answers, or the backend gives the request up.
RequestEnds(q) ==
    /\ ~ requests[q].over
    /\ requests' = [requests EXCEPT ![q].over = TRUE]
    /\ UNCHANGED <<cached, tracking, call, count>>

\* A gateway is restarted: bindings, tracking and the calls it served are gone.
NewServer(g) ==
    /\ Event
    /\ lost' = [lost EXCEPT ![g] = @ \cup {e.by : e \in Range(bound[g])}
                                       \cup {call[c].by : c \in {d \in Calls : call[d].at = g}}]
    /\ bound' = [bound EXCEPT ![g] = << >>]
    /\ holder' = [holder EXCEPT ![g] = None]
    /\ tracked' = [tracked EXCEPT ![g] = << >>]
    /\ order' = [order EXCEPT ![g] = << >>]
    /\ call' = [c \in Calls |-> IF call[c].at = g THEN NoCall ELSE call[c]]
    /\ UNCHANGED <<sessions, requests>>

-----------------------------------------------------------------------------
Serve(c) ==
    \/ resolveSession(c) \/ provisionSession(c)
    \/ CreateRequest(c) \/ trackCall(c) \/ awaitSyncResult(c)
    \/ GetRequest(c) \/ CancelRequest(c)

Next ==
    \/ \E c \in Calls : Serve(c) \/ provisionFails(c) \/ CreateFails(c)
    \/ \E c \in Calls, g \in Gateways, k \in Callers :
           \/ \E i \in Ids : ToolsCall(c, g, k, i) \/ handleCancelledNotification(c, g, k, i)
           \/ TasksCancel(c, g, k)
           \/ Read(c, g, k)
    \/ \E q \in DOMAIN requests : RequestEnds(q)
    \/ \E g \in Gateways : BindingIdle(g) \/ NewServer(g)

Spec == Init /\ [][Next]_vars

\* Handlers run, sync.Mutex starves nobody, and the sync timeout passes.  Nothing
\* is assumed of the providers.
FairSpec ==
    /\ Spec
    /\ \A c \in Calls : WF_vars(Serve(c)) /\ SF_vars(resolveSession(c))

-----------------------------------------------------------------------------
(* Properties *)

\* "A client retrying the same call lands on the original request": two requests
\* for the same caller, session binding, id and input exist only where the
\* gateway had dropped the caller's session in between (idle, evicted or
\* restarted), or where the calls came to two gateways which provisioned a session
\* each.  In particular concurrent first calls share one session.
RetryFindsOriginal ==
    \A p, q \in DOMAIN requests :
        LET a == requests[p]  b == requests[q] IN
        p # q /\ a.by = b.by /\ a.key = b.key /\ a.meta = b.meta =>
            a.meta = None /\ (a.at # b.at \/ a.by \in lost[a.at])

\* A call that waits for its answer can be stopped: its gateway has its request
\* under its caller and id, until the id is used again, or as many other keys
\* were tracked as the map holds.  A call whose id was tracked before may be
\* dropped earlier, since it took the old place in the order, but is never taken
\* for the earlier call.
AwaitedIsTracked ==
    \A c \in Calls :
        LET x == call[c]  key == trackingKey(x) IN
        x.pc = "await" /\ key \notin x.newer =>
            IF key \in DOMAIN tracked[x.at]
            THEN tracked[x.at][key] = x.req
            ELSE x.again \/ Cardinality(x.newer) >= MaxTracked

\* Every message is answered, also when its request never ends: the mutex of the
\* sessions is released on every path, and the sync timeout ends the wait.
CallsReturn == \A c \in Calls : call[c].pc # "idle" ~> call[c].pc = "idle"

\* "It holds no request state, so any number of instances can serve any request":
\* a retry through any gateway finds the request.  Violated: each gateway
\* provisions a session of its own for the caller.
AnyInstanceServes ==
    \A p, q \in DOMAIN requests :
        LET a == requests[p]  b == requests[q] IN
        p # q /\ a.by = b.by /\ a.key = b.key /\ a.meta = b.meta =>
            a.by \in lost[a.at] \cup lost[b.at]

\* "An intentionally different call never collides": a call is not answered with
\* the request of another caller.  Violated in a session that two callers bind:
\* the key has no part for the caller, and ids are unique per client only.
NoForeignRequest == \A c \in Calls : call[c].pc = "await" => requests[call[c].req].by = call[c].by

=============================================================================
