----------------------------- MODULE SessionKeys -----------------------------
(***************************************************************************)
(* SessionsService (pkg/service/session.go) on several replicas over one   *)
(* store (pkg/storage/sessions.go): one session id that clients create,    *)
(* read, update and delete, and one API key of it.  Each replica keeps the *)
(* session in a map (sessions), the keys it created or loaded in another   *)
(* (apiKeys), and the live grants by hash in a third (keyIndex), which is  *)
(* all that AuthenticateAPIKey looks at; a grant that has not been         *)
(* confirmed for apiKeyRevalidationInterval is read again from the store.  *)
(*                                                                         *)
(* A call is a goroutine between two of its critical sections.  Calls that *)
(* hold apiKeysMutex or sessionsMutex across their store write are single  *)
(* steps.  Answers that change nothing (NotFound, AlreadyExists from the   *)
(* cache, a lookup that fails) are left out.  Time is counted in ticks     *)
(* and told apart only as far as the interval needs it.                    *)
(***************************************************************************)
EXTENDS Integers, FiniteSetsExt

CONSTANTS
    Replicas, Calls,
    Users,         \* who creates the session: its CreatedBy
    Interval,      \* apiKeyRevalidationInterval in ticks (5 s)
    MaxDelay,      \* bound: ticks that one authentication may last
    MaxDeletes,    \* bound: deletions of the session's row
    MaxRestarts,   \* bound: restarts of a replica
    None

ASSUME TimeAssumption == Interval \in Nat /\ MaxDelay \in Nat

\* A session without an owner is told apart from every owner.
ASSUME UsersAssumption == None \notin Users

VARIABLES
    srow,    \* the sessions row: its created_by, or None
    krow,    \* the api_keys row: "none", "live" or "revoked"
    sess,    \* sessions[id] of each replica
    keys,    \* apiKeys[id] of each replica
    index,   \* whether the key is in keyIndex
    age,     \* ticks since keyVerifiedAt, 0 when there is no entry
    call,    \* the calls in progress
    dead,    \* history: ticks since the key was made, or was last live in the store
    hist     \* history: see Init

vars == <<srow, krow, sess, keys, index, age, call, dead, hist>>

Idle == [pc |-> "idle", r |-> None, user |-> None, cur |-> FALSE, live |-> FALSE,
         since |-> 0, ticks |-> 0]

\* A call that starts on replica r.
Start(c, pc, r, user) == [call EXCEPT ![c] = [Idle EXCEPT !.pc = pc, !.r = r, !.user = user]]
Goto(c, pc) == [call EXCEPT ![c].pc = pc]
End(c) == [call EXCEPT ![c] = Idle]

\* userLock: creations and deletions of one owner exclude one another.
UserLockFree(r, u) ==
    \A c \in Calls : ~(/\ call[c].pc \in {"checked", "cached", "removed", "dropped"}
                       /\ call[c].r = r /\ call[c].user = u)

\* OneOwner is not claimed beyond this point, and the winners not followed.
Astray == hist' = [hist EXCEPT !.astray = TRUE, !.winners = {}]

\* keyIndex and keyVerifiedAt gain or lose the key.
Index(r) == index' = [index EXCEPT ![r] = TRUE] /\ age' = [age EXCEPT ![r] = 0]
Unindex(r) == index' = [index EXCEPT ![r] = FALSE] /\ age' = [age EXCEPT ![r] = 0]

\* Once a replica's index entry is replaced or deleted, the object that other
\* calls there hold is no longer the one in the index.
Displaced(r, calls) == [d \in Calls |-> IF calls[d].r = r THEN [calls[d] EXCEPT !.cur = FALSE]
                                        ELSE calls[d]]

\* How long an answer may lag behind the store (AcceptedWasLive); dead is told
\* apart up to one more.
Limit == Interval + MaxDelay

-----------------------------------------------------------------------------
(* CreateSession: check the cache, cache the session, insert the row. *)

CheckAbsent(c, r, u) ==
    /\ call[c].pc = "idle" /\ sess[r] = None /\ UserLockFree(r, u)
    /\ call' = Start(c, "checked", r, u)
    /\ UNCHANGED <<srow, krow, sess, keys, index, age, dead, hist>>

CacheSession(c) ==
    /\ call[c].pc = "checked"
    /\ sess' = [sess EXCEPT ![call[c].r] = call[c].user]
    /\ call' = Goto(c, "cached")
    /\ UNCHANGED <<srow, krow, keys, index, age, dead, hist>>

\* The user is told that the session is theirs.
Won(u) == hist' = [hist EXCEPT !.winners = IF hist.astray THEN @ ELSE @ \cup {u}]

\* Mutant of InsertSessionIfAbsent: SaveSession's upsert in its place.
UpsertSession(c) ==
    /\ call[c].pc = "cached"
    /\ srow' = call[c].user
    /\ Won(call[c].user)
    /\ call' = End(c)
    /\ UNCHANGED <<krow, sess, keys, index, age, dead>>

\* The loser takes the session out of the cache, whoever's object is there.
InsertSessionIfAbsent(c) ==
    /\ call[c].pc = "cached"
    /\ \/ /\ srow = None
          /\ srow' = call[c].user
          /\ Won(call[c].user)
          /\ UNCHANGED sess
       \/ /\ srow # None
          /\ sess' = [sess EXCEPT ![call[c].r] = None]
          /\ UNCHANGED <<srow, hist>>
       \/ Astray /\ UNCHANGED <<srow, sess>>   \* the insert failed, which is only logged
    /\ call' = End(c)
    /\ UNCHANGED <<krow, keys, index, age, dead>>

-----------------------------------------------------------------------------
(* Reading, updating and deleting the session *)

\* A miss reads the row ...
GetSession(c, r) ==
    /\ call[c].pc = "idle" /\ sess[r] = None /\ srow # None
    /\ call' = Start(c, "found", r, srow)
    /\ UNCHANGED <<srow, krow, sess, keys, index, age, dead, hist>>

\* ... and fills the cache unless it was filled meanwhile.
GetSessionByID(c) ==
    /\ call[c].pc = "found"
    /\ sess' = [sess EXCEPT ![call[c].r] = IF @ = None THEN call[c].user ELSE @]
    /\ call' = End(c)
    /\ UNCHANGED <<srow, krow, keys, index, age, dead, hist>>

\* UpdateSession upserts the cached session, created_by included, under the
\* lock; a row deleted elsewhere comes back.  What else it writes, and a write
\* that fails, make no difference here.
UpdateSession(r) ==
    /\ sess[r] # None
    /\ srow' = sess[r]
    /\ IF \E c \in Calls : call[c].pc = "cached" /\ call[c].r = r
       THEN Astray ELSE UNCHANGED hist
    /\ UNCHANGED <<krow, sess, keys, index, age, call, dead>>

\* DeleteSession: out of the cache, under the owner's lock ...
RemoveSession(c, r) ==
    /\ call[c].pc = "idle" /\ sess[r] # None /\ UserLockFree(r, sess[r])
    /\ hist.deletes < MaxDeletes
    /\ hist' = [hist EXCEPT !.deletes = @ + 1, !.winners = {}, !.astray = TRUE]
    /\ sess' = [sess EXCEPT ![r] = None]
    /\ call' = Start(c, "removed", r, sess[r])
    /\ UNCHANGED <<srow, krow, keys, index, age, dead>>

\* ... the index entries of the keys this replica knows ...
DropKeys(c) ==
    /\ call[c].pc = "removed"
    /\ LET r == call[c].r IN
        IF keys[r] = "none"
        THEN call' = Goto(c, "dropped") /\ UNCHANGED <<keys, index, age>>
        ELSE /\ keys' = [keys EXCEPT ![r] = "none"]
             /\ Unindex(r)
             /\ call' = Displaced(r, Goto(c, "dropped"))
    /\ UNCHANGED <<srow, krow, sess, dead, hist>>

\* ... and the row, with its keys (ON DELETE CASCADE).
DeleteSession(c) ==
    /\ call[c].pc = "dropped"
    /\ \/ srow' = None /\ krow' = "none"
       \/ UNCHANGED <<srow, krow>>   \* the write failed, which is only logged
    /\ call' = End(c)
    /\ UNCHANGED <<sess, keys, index, age, dead, hist>>

-----------------------------------------------------------------------------
(* The key *)

\* CreateApiKey looks for the session in the cache, outside the key lock.
FindSession(c, r) ==
    /\ call[c].pc = "idle" /\ sess[r] # None /\ ~hist.created
    /\ hist' = [hist EXCEPT !.created = TRUE]
    /\ call' = Start(c, "minting", r, None)
    /\ UNCHANGED <<srow, krow, sess, keys, index, age, dead>>

\* The key is indexed and saved; without its session's row the foreign key
\* makes SaveApiKey fail.
CreateApiKey(c) ==
    /\ call[c].pc = "minting"
    /\ LET r == call[c].r IN
        /\ keys' = [keys EXCEPT ![r] = "live"]
        /\ Index(r)
    /\ \/ srow # None /\ krow' = "live"
       \/ UNCHANGED krow   \* the write failed, which is only logged
    /\ dead' = 0
    /\ call' = End(c)
    /\ UNCHANGED <<srow, sess, hist>>

\* SaveApiKey of a revoked key.
SaveRevoked ==
    \/ srow # None /\ krow' = "revoked" /\ hist' = [hist EXCEPT !.revoked = TRUE]
    \/ UNCHANGED <<krow, hist>>   \* the write failed, which is only logged

\* RevokeApiKey does it all under the key lock, for a key this replica knows.
RevokeApiKey(r) ==
    /\ keys[r] # "none"
    /\ keys' = [keys EXCEPT ![r] = "revoked"]
    /\ Unindex(r)
    /\ call' = Displaced(r, call)
    /\ SaveRevoked
    /\ UNCHANGED <<srow, sess, dead>>

\* InvalidateSession revokes in memory under the lock ...
InvalidateSession(c, r) ==
    /\ call[c].pc = "idle" /\ keys[r] = "live"
    /\ keys' = [keys EXCEPT ![r] = "revoked"]
    /\ Unindex(r)
    /\ call' = Displaced(r, Start(c, "revoking", r, None))
    /\ UNCHANGED <<srow, krow, sess, dead, hist>>

\* Mutant of PersistInvalidation: it saves copies taken before the revocation.
PersistCopies(c) ==
    /\ call[c].pc = "revoking"
    /\ krow' = IF srow # None THEN "live" ELSE krow
    /\ call' = End(c)
    /\ UNCHANGED <<srow, sess, keys, index, age, dead, hist>>

\* ... and saves outside it.
PersistInvalidation(c) ==
    /\ call[c].pc = "revoking"
    /\ SaveRevoked
    /\ call' = End(c)
    /\ UNCHANGED <<srow, sess, keys, index, age, dead>>

\* An authentication that began when the key had been dead for so long is
\* answered with a principal.
Accept(since) == hist' = [hist EXCEPT !.late = @ \/ since > Limit]

\* AuthenticateAPIKey: the index alone decides while the grant is confirmed.
AuthenticateAPIKey(c, r) ==
    /\ call[c].pc = "idle" /\ index[r]
    /\ IF age[r] > Interval
       THEN /\ call' = [call EXCEPT ![c] =
                           [Idle EXCEPT !.pc = "unconfirmed", !.r = r, !.cur = TRUE,
                                        !.since = dead]]
            /\ UNCHANGED hist
       ELSE Accept(dead) /\ UNCHANGED call
    /\ UNCHANGED <<srow, krow, sess, keys, index, age, dead>>

\* revalidateAPIKeyLocked reads the row without the lock.  When the read
\* fails the object at hand decides, whatever the store says, and nothing
\* changes: the next authentication asks again.
GetAPIKeyByHash(c) ==
    /\ call[c].pc = "unconfirmed"
    /\ \/ call' = [call EXCEPT ![c].pc = "confirming", ![c].live = (krow = "live")]
       \/ call' = End(c)
    /\ UNCHANGED <<srow, krow, sess, keys, index, age, dead, hist>>

\* Mutant of revalidateAPIKeyLocked: a key that is gone keeps its entry and
\* counts as confirmed.
RevalidateAndKeep(c) ==
    /\ call[c].pc = "confirming"
    /\ Index(call[c].r)
    /\ call' = Displaced(call[c].r, End(c))
    /\ UNCHANGED <<srow, krow, sess, keys, dead, hist>>

\* A live row replaces the entry, or brings it back; otherwise the entry goes
\* if it is still the object that was looked up.
revalidateAPIKeyLocked(c) ==
    /\ call[c].pc = "confirming"
    /\ LET r == call[c].r IN
        \/ /\ call[c].live
           /\ Index(r)
           /\ call' = Displaced(r, End(c))
           /\ Accept(call[c].since)
        \/ /\ ~call[c].live /\ call[c].cur
           /\ Unindex(r)
           /\ call' = Displaced(r, End(c))
           /\ UNCHANGED hist
        \/ /\ ~call[c].live /\ ~call[c].cur
           /\ call' = End(c)
           /\ UNCHANGED <<index, age, hist>>
    /\ UNCHANGED <<srow, krow, sess, keys, dead>>

-----------------------------------------------------------------------------
(* Time and restarts *)

Authenticating == {c \in Calls : call[c].pc \in {"unconfirmed", "confirming"}}

Tick ==
    /\ \A c \in Authenticating : call[c].ticks < MaxDelay
    /\ age' = [r \in Replicas |-> IF index[r] THEN Min({age[r] + 1, Interval + 1}) ELSE 0]
    /\ dead' = IF krow = "live" THEN 0 ELSE Min({dead + 1, Limit + 1})
    /\ call' = [c \in Calls |-> IF c \in Authenticating THEN [call[c] EXCEPT !.ticks = @ + 1]
                                ELSE call[c]]
    /\ UNCHANGED <<srow, krow, sess, keys, index, hist>>

\* NewSessionsService loads what the store has; the replica's calls are gone.
NewSessionsService(r) ==
    /\ hist.restarts < MaxRestarts
    /\ hist' = [hist EXCEPT !.restarts = @ + 1]
    /\ sess' = [sess EXCEPT ![r] = srow]
    /\ keys' = [keys EXCEPT ![r] = krow]
    /\ IF krow = "live" THEN Index(r) ELSE Unindex(r)
    /\ call' = [c \in Calls |-> IF call[c].r = r THEN Idle ELSE call[c]]
    /\ UNCHANGED <<srow, krow, dead>>

Init ==
    /\ srow = None /\ krow = "none"
    /\ sess = [r \in Replicas |-> None]
    /\ keys = [r \in Replicas |-> "none"]
    /\ index = [r \in Replicas |-> FALSE]
    /\ age = [r \in Replicas |-> 0]
    /\ call = [c \in Calls |-> Idle]
    /\ dead = 0
    /\ hist = [deletes |-> 0, restarts |-> 0,
               created |-> FALSE,   \* the key has been made
               revoked |-> FALSE,   \* a revocation has reached the store
               late |-> FALSE,      \* a key was accepted long after it died
               astray |-> FALSE,    \* see OneOwner
               winners |-> {}]      \* who was told that they created the row

Next ==
    \/ \E c \in Calls, r \in Replicas, u \in Users : CheckAbsent(c, r, u)
    \/ \E c \in Calls, r \in Replicas :
        \/ GetSession(c, r)
        \/ RemoveSession(c, r)
        \/ FindSession(c, r)
        \/ InvalidateSession(c, r)
        \/ AuthenticateAPIKey(c, r)
    \/ \E c \in Calls :
        \/ CacheSession(c)
        \/ InsertSessionIfAbsent(c)
        \/ GetSessionByID(c)
        \/ DropKeys(c)
        \/ DeleteSession(c)
        \/ CreateApiKey(c)
        \/ PersistInvalidation(c)
        \/ GetAPIKeyByHash(c)
        \/ revalidateAPIKeyLocked(c)
    \/ \E r \in Replicas :
        \/ UpdateSession(r)
        \/ RevokeApiKey(r)
        \/ NewSessionsService(r)
    \/ Tick

Spec == Init /\ [][Next]_vars

-----------------------------------------------------------------------------
(* Properties *)

\* "Revocations propagate to every replica within roughly this interval": an
\* authentication that succeeds anywhere began at most the interval, and the
\* time one revalidation may take, after the key was last live in the store,
\* whether it was revoked, invalidated or deleted with its session, on
\* whichever replica and whatever was in flight.  The one exception is an
\* answer given because the revalidation's read failed.
AcceptedWasLive == ~hist.late

\* A revocation that has reached the store is never undone: across restarts,
\* deletions and re-creations of the session, and the writes of replicas that
\* still hold the key as live, the row is never live again.
RevocationIsFinal == hist.revoked => krow # "live"

\* "two instances racing to create the same client-supplied session ID agree
\* on one winner": at most one user is told that they created it, the row is
\* that user's, and so is the copy of every replica where no creation is
\* under way.  Not claimed once the session has been deleted, once an insert
\* has failed (the caller keeps a session only it has), or once an update ran
\* on the replica of a creation that had only cached its session (it writes
\* that session to the row, also if it is a loser's).
OneOwner ==
    ~hist.astray =>
        /\ hist.winners = (IF srow = None THEN {} ELSE {srow})
        /\ \A r \in Replicas :
            \/ \E c \in Calls : call[c].pc = "cached" /\ call[c].r = r
            \/ sess[r] \in {None, srow}
=============================================================================
