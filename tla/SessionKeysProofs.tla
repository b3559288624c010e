------------------------- MODULE SessionKeysProofs -------------------------
(***************************************************************************)
(* The three invariants of SessionKeys, for any number of replicas, calls, *)
(* users, deletions and restarts.                                          *)
(*                                                                         *)
(* RevocationIsFinal.  The row becomes live in one place only, the save of *)
(* CreateApiKey, so the proof is about when that call can still be under   *)
(* way: as long as it is, no replica and no row has the key, nothing is    *)
(* being revoked, and nothing can be, since every revocation starts from a *)
(* key that some replica knows.                                            *)
(*                                                                         *)
(* OneOwner.  The row is written once, by the winner's insert, and a copy  *)
(* is the row's or that of a creation still under way on its replica.      *)
(*                                                                         *)
(* AcceptedWasLive.  A grant is never further behind the store than the    *)
(* ticks since it was confirmed and those its revalidation took, and an    *)
(* authentication that began with a dead key never reads a live row.       *)
(***************************************************************************)
EXTENDS SessionKeys, TLAPS

HistFields == {"deletes", "restarts", "created", "revoked", "late", "astray", "winners"}
CallFields == {"pc", "r", "user", "cur", "live", "since", "ticks"}

\* The shape of what the proof looks at.
Shape ==
    /\ DOMAIN hist = HistFields
    /\ DOMAIN keys = Replicas
    /\ DOMAIN call = Calls
    /\ \A c \in Calls : DOMAIN call[c] = CallFields

\* Nobody has seen the key.
Fresh ==
    /\ krow = "none"
    /\ \A r \in Replicas : keys[r] = "none"
    /\ \A c \in Calls : call[c].pc # "revoking"
    /\ ~hist.revoked

\* The inductive invariant: there is at most one creation of the key, before
\* its end nobody has seen the key, and a durable revocation is final.
KeyInv ==
    /\ Shape
    /\ ~hist.created => Fresh
    /\ \A c \in Calls : call[c].pc = "minting" => hist.created /\ Fresh
    /\ \A c, d \in Calls : call[c].pc = "minting" /\ call[d].pc = "minting" => c = d
    /\ RevocationIsFinal

\* No call starts to create or to revoke the key.
NoNewKeyCall ==
    \A c \in Calls : call'[c].pc \in {"minting", "revoking"} => call'[c].pc = call[c].pc

\* A step that neither creates nor revokes the key: the row stays or goes, a
\* replica learns of the key only if somebody had seen it.
Quiet ==
    /\ krow' \in {krow, "none"}
    /\ Fresh => \A r \in Replicas : keys'[r] = "none"
    /\ hist'.created = hist.created /\ hist'.revoked = hist.revoked
    /\ NoNewKeyCall

\* Quiet steps keep the invariant.
LEMMA QuietKeeps == ASSUME KeyInv, Shape', Quiet PROVE KeyInv'
<1>1. Fresh => Fresh'
  BY Zenon DEF Fresh, Quiet, NoNewKeyCall
<1>2. ~hist'.created => Fresh'
  BY Zenon, <1>1 DEF KeyInv, Quiet
<1>3. \A c \in Calls : call'[c].pc = "minting" => call[c].pc = "minting"
  BY Zenon DEF Quiet, NoNewKeyCall
<1>4. \A c \in Calls : call'[c].pc = "minting" => hist'.created /\ Fresh'
  BY Zenon, <1>1, <1>3 DEF KeyInv, Quiet
<1>5. \A c, d \in Calls : call'[c].pc = "minting" /\ call'[d].pc = "minting" => c = d
  BY Zenon, <1>3 DEF KeyInv
<1>6. RevocationIsFinal'
  BY Zenon DEF KeyInv, Quiet, RevocationIsFinal
<1> QED BY Zenon, <1>2, <1>4, <1>5, <1>6 DEF KeyInv

\* Creating, reading, updating and deleting the session leaves the key alone,
\* but for the replica's own copy and the row that goes with the session.
LEMMA SessionStepsQuiet ==
    ASSUME KeyInv, NEW c, NEW r, NEW u,
           \/ CheckAbsent(c, r, u) \/ CacheSession(c) \/ InsertSessionIfAbsent(c)
           \/ GetSession(c, r) \/ GetSessionByID(c) \/ UpdateSession(r)
           \/ RemoveSession(c, r) \/ DropKeys(c) \/ DeleteSession(c)
    PROVE  KeyInv'
<1>1. CASE CheckAbsent(c, r, u)
  <2>1. Shape'  BY Zenon, <1>1 DEF KeyInv, Shape, CheckAbsent, Start, Idle, CallFields
  <2>2. Quiet   BY Zenon, <1>1 DEF KeyInv, Shape, Quiet, NoNewKeyCall, Fresh, CheckAbsent, Start, Idle, CallFields
  <2> QED BY Zenon, <2>1, <2>2, QuietKeeps
<1>2. CASE CacheSession(c)
  <2>1. Shape'  BY Zenon, <1>2 DEF KeyInv, Shape, CacheSession, Goto
  <2>2. Quiet   BY Zenon, <1>2 DEF KeyInv, Shape, Quiet, NoNewKeyCall, Fresh, CacheSession, Goto, CallFields
  <2> QED BY Zenon, <2>1, <2>2, QuietKeeps
<1>3. CASE InsertSessionIfAbsent(c)
  <2>1. Shape'
    BY Zenon, <1>3 DEF KeyInv, Shape, InsertSessionIfAbsent, Won, Astray, End, Idle, CallFields
  <2>2. Quiet
    BY Zenon, <1>3 DEF KeyInv, Shape, Quiet, NoNewKeyCall, Fresh, InsertSessionIfAbsent, Won, Astray,
                End, Idle, HistFields, CallFields
  <2> QED BY Zenon, <2>1, <2>2, QuietKeeps
<1>4. CASE GetSession(c, r)
  <2>1. Shape'  BY Zenon, <1>4 DEF KeyInv, Shape, GetSession, Start, Idle, CallFields
  <2>2. Quiet   BY Zenon, <1>4 DEF KeyInv, Shape, Quiet, NoNewKeyCall, Fresh, GetSession, Start, Idle, CallFields
  <2> QED BY Zenon, <2>1, <2>2, QuietKeeps
<1>5. CASE GetSessionByID(c)
  <2>1. Shape'  BY Zenon, <1>5 DEF KeyInv, Shape, GetSessionByID, End, Idle, CallFields
  <2>2. Quiet   BY Zenon, <1>5 DEF KeyInv, Shape, Quiet, NoNewKeyCall, Fresh, GetSessionByID, End, Idle, CallFields
  <2> QED BY Zenon, <2>1, <2>2, QuietKeeps
<1>6. CASE UpdateSession(r)
  <2>1. Shape'  BY Zenon, <1>6 DEF KeyInv, Shape, UpdateSession, Astray
  <2>2. Quiet
    BY Zenon, <1>6 DEF KeyInv, Shape, Quiet, NoNewKeyCall, Fresh, UpdateSession, Astray, HistFields
  <2> QED BY Zenon, <2>1, <2>2, QuietKeeps
<1>7. CASE RemoveSession(c, r)
  <2>1. Shape'  BY Zenon, <1>7 DEF KeyInv, Shape, RemoveSession, Start, Idle, CallFields
  <2>2. Quiet
    BY Zenon, <1>7 DEF KeyInv, Shape, Quiet, NoNewKeyCall, Fresh, RemoveSession, Start, Idle,
                HistFields, CallFields
  <2> QED BY Zenon, <2>1, <2>2, QuietKeeps
<1>8. CASE DropKeys(c)
  <2>1. Shape'  BY <1>8 DEF KeyInv, Shape, DropKeys, Goto, Displaced
  <2>2. Quiet
    BY <1>8 DEF KeyInv, Shape, Quiet, NoNewKeyCall, Fresh, DropKeys, Goto, Displaced, CallFields
  <2> QED BY Zenon, <2>1, <2>2, QuietKeeps
<1>9. CASE DeleteSession(c)
  <2>1. Shape'  BY Zenon, <1>9 DEF KeyInv, Shape, DeleteSession, End, Idle, CallFields
  <2>2. Quiet   BY Zenon, <1>9 DEF KeyInv, Shape, Quiet, NoNewKeyCall, Fresh, DeleteSession, End, Idle, CallFields
  <2> QED BY Zenon, <2>1, <2>2, QuietKeeps
<1> QED BY Zenon, <1>1, <1>2, <1>3, <1>4, <1>5, <1>6, <1>7, <1>8, <1>9

\* Neither do authentication, time and restarts: a revalidation writes only
\* the index, and a restart loads the row as it is.
LEMMA OtherStepsQuiet ==
    ASSUME KeyInv, NEW c, NEW r,
           \/ AuthenticateAPIKey(c, r) \/ GetAPIKeyByHash(c) \/ revalidateAPIKeyLocked(c)
           \/ Tick \/ NewSessionsService(r)
    PROVE  KeyInv'
<1>1. CASE AuthenticateAPIKey(c, r)
  <2>1. Shape'  BY Zenon, <1>1 DEF KeyInv, Shape, AuthenticateAPIKey, Accept, Idle, CallFields
  <2>2. NoNewKeyCall
    <3> DEFINE looking == [Idle EXCEPT !.pc = "unconfirmed", !.r = r, !.cur = TRUE, !.since = dead]
    <3>1. looking.pc = "unconfirmed"
      BY Zenon DEF Idle
    <3>2. call' \in {call, [call EXCEPT ![c] = looking]}
      BY Zenon, <1>1 DEF AuthenticateAPIKey
    <3> HIDE DEF looking
    <3> QED BY Zenon, <3>1, <3>2 DEF KeyInv, Shape, NoNewKeyCall
  <2>3. hist'.created = hist.created /\ hist'.revoked = hist.revoked
    BY Zenon, <1>1 DEF KeyInv, Shape, AuthenticateAPIKey, Accept, HistFields
  <2>4. Quiet
    BY Zenon, <1>1, <2>2, <2>3 DEF Quiet, Fresh, AuthenticateAPIKey
  <2> QED BY Zenon, <2>1, <2>4, QuietKeeps
<1>2. CASE GetAPIKeyByHash(c)
  <2>1. Shape'  BY Zenon, <1>2 DEF KeyInv, Shape, GetAPIKeyByHash, End, Idle, CallFields
  <2>2. Quiet
    BY <1>2 DEF KeyInv, Shape, Quiet, NoNewKeyCall, Fresh, GetAPIKeyByHash, End, Idle, CallFields
  <2> QED BY Zenon, <2>1, <2>2, QuietKeeps
<1>3. CASE revalidateAPIKeyLocked(c)
  <2>1. call' \in {End(c), Displaced(call[c].r, End(c))} /\ UNCHANGED <<krow, keys>>
    BY Zenon, <1>3 DEF revalidateAPIKeyLocked
  <2>2. Shape'
    BY Zenon, <1>3, <2>1 DEF KeyInv, Shape, revalidateAPIKeyLocked, Accept, End, Idle, Displaced, CallFields
  <2>3. NoNewKeyCall
    BY <2>1 DEF KeyInv, Shape, NoNewKeyCall, End, Idle, Displaced, CallFields
  <2>4. hist'.created = hist.created /\ hist'.revoked = hist.revoked
    BY Zenon, <1>3 DEF KeyInv, Shape, revalidateAPIKeyLocked, Accept, HistFields
  <2>5. Quiet
    BY Zenon, <2>1, <2>3, <2>4 DEF Quiet, Fresh
  <2> QED BY Zenon, <2>2, <2>5, QuietKeeps
<1>4. CASE Tick
  <2>1. Shape'  BY Zenon, <1>4 DEF KeyInv, Shape, Tick
  <2>2. Quiet   BY Zenon, <1>4 DEF KeyInv, Shape, Quiet, NoNewKeyCall, Fresh, Tick, CallFields
  <2> QED BY Zenon, <2>1, <2>2, QuietKeeps
<1>5. CASE NewSessionsService(r)
  <2>1. Shape'  BY Zenon, <1>5 DEF KeyInv, Shape, NewSessionsService, Idle, CallFields
  <2>2. Quiet
    BY Zenon, <1>5 DEF KeyInv, Shape, Quiet, NoNewKeyCall, Fresh, NewSessionsService, Idle,
                HistFields, CallFields
  <2> QED BY Zenon, <2>1, <2>2, QuietKeeps
<1> QED BY Zenon, <1>1, <1>2, <1>3, <1>4, <1>5

\* The one creation of the key begins while nobody has seen it ...
LEMMA FindSessionKeeps ==
    ASSUME KeyInv, NEW c \in Calls, NEW r \in Replicas, FindSession(c, r) PROVE KeyInv'
<1>1. Shape'
  BY Zenon DEF KeyInv, Shape, FindSession, Start, Idle, CallFields
<1>2. Fresh /\ Fresh' /\ hist'.created
  BY Zenon DEF KeyInv, Shape, Fresh, FindSession, Start, Idle, HistFields, CallFields
<1>3. \A d \in Calls : call'[d].pc = "minting" => d = c
  BY Zenon DEF KeyInv, Shape, FindSession, Start, Idle, CallFields
<1> QED BY Zenon, <1>1, <1>2, <1>3 DEF KeyInv, Fresh, RevocationIsFinal

\* ... and ends before the first revocation.
LEMMA CreateApiKeyKeeps == ASSUME KeyInv, NEW c \in Calls, CreateApiKey(c) PROVE KeyInv'
<1>1. Shape'
  BY Zenon DEF KeyInv, Shape, CreateApiKey, End, Idle, CallFields
<1>2. hist'.created /\ ~hist'.revoked
  BY Zenon DEF KeyInv, CreateApiKey, Fresh
<1>3. \A d \in Calls : call'[d].pc # "minting"
  BY Zenon DEF KeyInv, Shape, CreateApiKey, End, Idle, CallFields
<1> QED BY Zenon, <1>1, <1>2, <1>3 DEF KeyInv, RevocationIsFinal

\* A revocation needs a key that somebody has seen, so no creation is under
\* way, and it never makes the row live.
LEMMA RevocationKeeps ==
    ASSUME KeyInv, Shape', ~Fresh, hist'.created = hist.created,
           \A d \in Calls : call'[d].pc = "minting" => call[d].pc = "minting",
           \/ krow' = "revoked"
           \/ krow' = krow /\ hist'.revoked = hist.revoked
    PROVE  KeyInv'
BY Zenon DEF KeyInv, RevocationIsFinal

\* RevokeApiKey, InvalidateSession and its save are such steps.
LEMMA RevokingSteps ==
    ASSUME KeyInv, NEW c, NEW r,
           \/ r \in Replicas /\ (RevokeApiKey(r) \/ InvalidateSession(c, r))
           \/ c \in Calls /\ PersistInvalidation(c)
    PROVE  KeyInv'
<1>1. CASE r \in Replicas /\ RevokeApiKey(r)
  <2>1. Shape'
    BY Zenon, <1>1 DEF KeyInv, Shape, RevokeApiKey, SaveRevoked, Displaced
  <2>2. ~Fresh
    BY Zenon, <1>1 DEF RevokeApiKey, Fresh
  <2>3. /\ hist'.created = hist.created
        /\ krow' = "revoked" \/ (krow' = krow /\ hist'.revoked = hist.revoked)
    BY Zenon, <1>1 DEF KeyInv, Shape, RevokeApiKey, SaveRevoked, HistFields
  <2>4. \A d \in Calls : call'[d].pc = "minting" => call[d].pc = "minting"
    BY Zenon, <1>1 DEF KeyInv, Shape, RevokeApiKey, Displaced, CallFields
  <2> QED BY Zenon, <2>1, <2>2, <2>3, <2>4, RevocationKeeps
<1>2. CASE r \in Replicas /\ InvalidateSession(c, r)
  <2>1. Shape'
    BY Zenon, <1>2 DEF KeyInv, Shape, InvalidateSession, Displaced, Start, Idle, CallFields
  <2>2. ~Fresh
    BY Zenon, <1>2 DEF InvalidateSession, Fresh
  <2>3. UNCHANGED <<hist, krow>>
    BY Zenon, <1>2 DEF InvalidateSession
  <2>4. \A d \in Calls : call'[d].pc = "minting" => call[d].pc = "minting"
    BY Zenon, <1>2 DEF KeyInv, Shape, InvalidateSession, Displaced, Start, Idle, CallFields
  <2> QED BY Zenon, <2>1, <2>2, <2>3, <2>4, RevocationKeeps
<1>3. CASE c \in Calls /\ PersistInvalidation(c)
  <2>1. Shape'
    BY Zenon, <1>3 DEF KeyInv, Shape, PersistInvalidation, SaveRevoked, End, Idle, CallFields
  <2>2. ~Fresh
    BY Zenon, <1>3 DEF PersistInvalidation, Fresh
  <2>3. /\ hist'.created = hist.created
        /\ krow' = "revoked" \/ (krow' = krow /\ hist'.revoked = hist.revoked)
    BY Zenon, <1>3 DEF KeyInv, Shape, PersistInvalidation, SaveRevoked, HistFields
  <2>4. \A d \in Calls : call'[d].pc = "minting" => call[d].pc = "minting"
    BY Zenon, <1>3 DEF KeyInv, Shape, PersistInvalidation, End, Idle, CallFields
  <2> QED BY Zenon, <2>1, <2>2, <2>3, <2>4, RevocationKeeps
<1> QED BY Zenon, <1>1, <1>2, <1>3

\* No step breaks the invariant.
LEMMA KeyInvInductive == KeyInv /\ [Next]_vars => KeyInv'
<1> SUFFICES ASSUME KeyInv, [Next]_vars PROVE KeyInv'
  BY Zenon
<1>1. CASE \E c \in Calls, r \in Replicas, u \in Users : CheckAbsent(c, r, u)
  BY Zenon, <1>1, SessionStepsQuiet
<1>2. ASSUME NEW c \in Calls, NEW r \in Replicas,
             \/ GetSession(c, r) \/ RemoveSession(c, r) \/ FindSession(c, r)
             \/ InvalidateSession(c, r) \/ AuthenticateAPIKey(c, r)
      PROVE  KeyInv'
  BY Zenon, <1>2, SessionStepsQuiet, FindSessionKeeps, RevokingSteps, OtherStepsQuiet
<1>3. ASSUME NEW c \in Calls,
             \/ CacheSession(c) \/ InsertSessionIfAbsent(c) \/ GetSessionByID(c)
             \/ DropKeys(c) \/ DeleteSession(c)
      PROVE  KeyInv'
  BY Zenon, <1>3, SessionStepsQuiet
<1>4. ASSUME NEW c \in Calls,
             \/ CreateApiKey(c) \/ PersistInvalidation(c)
             \/ GetAPIKeyByHash(c) \/ revalidateAPIKeyLocked(c)
      PROVE  KeyInv'
  BY Zenon, <1>4, CreateApiKeyKeeps, RevokingSteps, OtherStepsQuiet
<1>5. ASSUME NEW r \in Replicas,
             UpdateSession(r) \/ RevokeApiKey(r) \/ NewSessionsService(r)
      PROVE  KeyInv'
  BY Zenon, <1>5, SessionStepsQuiet, RevokingSteps, OtherStepsQuiet
<1>6. CASE Tick
  BY Zenon, <1>6, OtherStepsQuiet
<1>7. CASE UNCHANGED vars
  BY Zenon, <1>7 DEF vars, KeyInv, Shape, Fresh, RevocationIsFinal
<1> QED BY Zenon, <1>1, <1>2, <1>3, <1>4, <1>5, <1>6, <1>7 DEF Next

\* The invariant holds when nothing has happened yet.
LEMMA KeyInvInit == Init => KeyInv
BY DEF Init, KeyInv, Shape, Fresh, RevocationIsFinal, Idle, HistFields, CallFields

\* RevocationIsFinal in every behaviour: once RevokeApiKey or
\* InvalidateSession has saved the key as revoked, its row is never live
\* again, on however many replicas and through whatever restarts.
THEOREM RevocationFinal == Spec => []RevocationIsFinal
<1>1. KeyInv => RevocationIsFinal
  BY Zenon DEF KeyInv
<1> QED BY <1>1, KeyInvInit, KeyInvInductive, PTL DEF Spec

-----------------------------------------------------------------------------
(* One owner *)

\* The shape of what this proof looks at.
OwnerShape ==
    /\ DOMAIN hist = HistFields
    /\ DOMAIN sess = Replicas
    /\ DOMAIN call = Calls
    /\ \A c \in Calls : DOMAIN call[c] = CallFields

\* A copy of the session is the row's, or that of a creation that has cached
\* it and not tried to insert it yet.
CopyExplained(r) ==
    \/ sess[r] \in {None, srow}
    \/ \E c \in Calls : call[c].pc = "cached" /\ call[c].r = r /\ call[c].user = sess[r]

\* What holds until a deletion, a failed insert or an early update.
Agreed ==
    /\ hist.winners = (IF srow = None THEN {} ELSE {srow})
    /\ \A r \in Replicas : CopyExplained(r)
    /\ \A c \in Calls : call[c].pc = "found" => call[c].user = srow /\ srow # None
    /\ \A c \in Calls : call[c].pc \notin {"removed", "dropped"}

\* The inductive invariant of OneOwner.
OwnerInv ==
    /\ OwnerShape
    /\ \A c \in Calls : call[c].pc \in {"checked", "cached"} => call[c].user # None
    /\ ~hist.astray => Agreed

\* The calls that matter here: those that create, fetch or delete the session.
Owning == {"checked", "cached", "found", "removed", "dropped"}

\* A step that leaves the session, its copies and those calls alone.
OwnerQuiet ==
    /\ UNCHANGED <<srow, sess>>
    /\ hist'.astray = hist.astray /\ hist'.winners = hist.winners
    /\ \A c \in Calls :
        call[c].pc \in Owning \/ call'[c].pc \in Owning =>
            call'[c].pc = call[c].pc /\ call'[c].r = call[c].r /\ call'[c].user = call[c].user

\* Such a step keeps the invariant.
LEMMA OwnerQuietKeeps == ASSUME OwnerInv, OwnerShape', OwnerQuiet PROVE OwnerInv'
<1>1. \A c \in Calls : call'[c].pc \in {"checked", "cached"} => call'[c].user # None
  BY Zenon DEF OwnerInv, OwnerQuiet, Owning
<1>2. ASSUME Agreed PROVE Agreed'
  <2>1. \A r \in Replicas : CopyExplained(r)'
    BY <1>2 DEF Agreed, CopyExplained, OwnerQuiet, Owning
  <2>2. \A c \in Calls : call'[c].pc = "found" => call'[c].user = srow' /\ srow' # None
    BY Zenon, <1>2 DEF Agreed, OwnerQuiet, Owning
  <2>3. \A c \in Calls : call'[c].pc \notin {"removed", "dropped"}
    BY Zenon, <1>2 DEF Agreed, OwnerQuiet, Owning
  <2>4. hist'.winners = (IF srow' = None THEN {} ELSE {srow'})
    BY Zenon, <1>2 DEF Agreed, OwnerQuiet
  <2> QED BY Zenon, <2>1, <2>2, <2>3, <2>4 DEF Agreed
<1> QED BY Zenon, <1>1, <1>2 DEF OwnerInv, OwnerQuiet

\* The key's creation, revocation and revalidation, and time, are such steps.
LEMMA KeyStepsOwnerQuiet ==
    ASSUME OwnerInv, NEW c, NEW r,
           \/ FindSession(c, r) \/ InvalidateSession(c, r) \/ AuthenticateAPIKey(c, r)
           \/ CreateApiKey(c) \/ PersistInvalidation(c) \/ GetAPIKeyByHash(c)
           \/ revalidateAPIKeyLocked(c) \/ RevokeApiKey(r) \/ Tick
    PROVE  OwnerInv'
<1> USE DEF OwnerInv, OwnerShape, CallFields
<1>1. CASE FindSession(c, r)
  <2>1. OwnerShape'  BY Zenon, <1>1 DEF FindSession, Start, Idle
  <2>2. OwnerQuiet   BY Zenon, <1>1 DEF OwnerQuiet, Owning, FindSession, Start, Idle, HistFields
  <2> QED BY Zenon, <2>1, <2>2, OwnerQuietKeeps
<1>2. CASE InvalidateSession(c, r)
  <2>1. OwnerShape'  BY Zenon, <1>2 DEF InvalidateSession, Displaced, Start, Idle
  <2>2. OwnerQuiet   BY <1>2 DEF OwnerQuiet, Owning, InvalidateSession, Displaced, Start, Idle
  <2> QED BY Zenon, <2>1, <2>2, OwnerQuietKeeps
<1>3. CASE AuthenticateAPIKey(c, r)
  <2>1. OwnerShape'  BY Zenon, <1>3 DEF AuthenticateAPIKey, Accept, Idle
  <2>2. \A d \in Calls :
          call[d].pc \in Owning \/ call'[d].pc \in Owning =>
            call'[d].pc = call[d].pc /\ call'[d].r = call[d].r /\ call'[d].user = call[d].user
    <3> DEFINE looking == [Idle EXCEPT !.pc = "unconfirmed", !.r = r, !.cur = TRUE, !.since = dead]
    <3>1. looking.pc = "unconfirmed"
      BY Zenon DEF Idle
    <3>2. call[c].pc = "idle" /\ call' \in {call, [call EXCEPT ![c] = looking]}
      BY Zenon, <1>3 DEF AuthenticateAPIKey
    <3> HIDE DEF looking
    <3> QED BY Zenon, <3>1, <3>2 DEF Owning
  <2>3. hist'.astray = hist.astray /\ hist'.winners = hist.winners /\ UNCHANGED <<srow, sess>>
    BY Zenon, <1>3 DEF AuthenticateAPIKey, Accept, HistFields
  <2>4. OwnerQuiet   BY Zenon, <2>2, <2>3 DEF OwnerQuiet
  <2> QED BY Zenon, <2>1, <2>4, OwnerQuietKeeps
<1>4. CASE CreateApiKey(c)
  <2>1. OwnerShape'  BY Zenon, <1>4 DEF CreateApiKey, End, Idle
  <2>2. OwnerQuiet   BY Zenon, <1>4 DEF OwnerQuiet, Owning, CreateApiKey, End, Idle
  <2> QED BY Zenon, <2>1, <2>2, OwnerQuietKeeps
<1>5. CASE PersistInvalidation(c)
  <2>1. OwnerShape'  BY Zenon, <1>5 DEF PersistInvalidation, SaveRevoked, End, Idle
  <2>2. OwnerQuiet
    BY Zenon, <1>5 DEF OwnerQuiet, Owning, PersistInvalidation, SaveRevoked, End, Idle, HistFields
  <2> QED BY Zenon, <2>1, <2>2, OwnerQuietKeeps
<1>6. CASE GetAPIKeyByHash(c)
  <2>1. OwnerShape'  BY Zenon, <1>6 DEF GetAPIKeyByHash, End, Idle
  <2>2. OwnerQuiet   BY <1>6 DEF OwnerQuiet, Owning, GetAPIKeyByHash, End, Idle
  <2> QED BY Zenon, <2>1, <2>2, OwnerQuietKeeps
<1>7. CASE revalidateAPIKeyLocked(c)
  <2>1. /\ call[c].pc = "confirming" /\ UNCHANGED <<srow, sess>>
        /\ call' \in {End(c), Displaced(call[c].r, End(c))}
    BY Zenon, <1>7 DEF revalidateAPIKeyLocked
  <2>2. DOMAIN hist' = HistFields /\ hist'.astray = hist.astray /\ hist'.winners = hist.winners
    BY Zenon, <1>7 DEF revalidateAPIKeyLocked, Accept, HistFields
  <2>3. OwnerShape'
    BY Zenon, <2>1, <2>2 DEF End, Idle, Displaced
  <2>4. OwnerQuiet
    BY <2>1, <2>2 DEF OwnerQuiet, Owning, End, Idle, Displaced
  <2> QED BY Zenon, <2>3, <2>4, OwnerQuietKeeps
<1>8. CASE RevokeApiKey(r)
  <2>1. OwnerShape'  BY Zenon, <1>8 DEF RevokeApiKey, SaveRevoked, Displaced
  <2>2. OwnerQuiet   BY ZenonT(40), <1>8 DEF OwnerQuiet, Owning, RevokeApiKey, SaveRevoked, Displaced, HistFields
  <2> QED BY Zenon, <2>1, <2>2, OwnerQuietKeeps
<1>9. CASE Tick
  <2>1. OwnerShape'  BY Zenon, <1>9 DEF Tick
  <2>2. OwnerQuiet   BY ZenonT(40), <1>9 DEF OwnerQuiet, Owning, Tick
  <2> QED BY Zenon, <2>1, <2>2, OwnerQuietKeeps
<1> QED BY Zenon, <1>1, <1>2, <1>3, <1>4, <1>5, <1>6, <1>7, <1>8, <1>9

\* A step after which OneOwner is no longer claimed keeps the invariant as
\* long as the creations under way keep their users.
LEMMA AstrayKeeps ==
    ASSUME OwnerInv, OwnerShape', hist'.astray,
           \A c \in Calls : call'[c].pc \in {"checked", "cached"} =>
               call[c].pc \in {"checked", "cached"} /\ call'[c].user = call[c].user
    PROVE  OwnerInv'
BY Zenon DEF OwnerInv

\* CreateSession up to its insert: the copy it caches is explained by itself.
LEMMA CreationKeepsOwner ==
    ASSUME OwnerInv, NEW c \in Calls, NEW r, NEW u,
           \/ u \in Users /\ CheckAbsent(c, r, u)
           \/ CacheSession(c)
    PROVE  OwnerInv'
<1> USE DEF OwnerInv, OwnerShape, CallFields
<1>1. CASE u \in Users /\ CheckAbsent(c, r, u)
  <2>1. OwnerShape'
    BY Zenon, <1>1 DEF CheckAbsent, Start, Idle
  <2>2. call'[c].pc = "checked" /\ call'[c].user = u /\ call[c].pc = "idle"
    BY Zenon, <1>1 DEF CheckAbsent, Start, Idle
  <2>3. \A d \in Calls : d # c => call'[d] = call[d]
    BY Zenon, <1>1 DEF CheckAbsent, Start
  <2>4. UNCHANGED <<srow, sess, hist>>
    BY Zenon, <1>1 DEF CheckAbsent
  <2>5. \A d \in Calls : call'[d].pc \in {"checked", "cached"} => call'[d].user # None
    BY Zenon, <1>1, <2>2, <2>3, UsersAssumption
  <2>6. Agreed => Agreed'
    BY <2>2, <2>3, <2>4 DEF Agreed, CopyExplained
  <2> QED BY Zenon, <2>1, <2>4, <2>5, <2>6
<1>2. CASE CacheSession(c)
  <2>1. OwnerShape'
    BY Zenon, <1>2 DEF CacheSession, Goto
  <2>2. /\ call[c].pc = "checked" /\ call'[c].pc = "cached"
        /\ call'[c].user = call[c].user /\ call'[c].r = call[c].r
    BY Zenon, <1>2 DEF CacheSession, Goto
  <2>3. \A d \in Calls : d # c => call'[d] = call[d]
    BY Zenon, <1>2 DEF CacheSession, Goto
  <2>4. UNCHANGED <<srow, hist>> /\ sess' = [sess EXCEPT ![call[c].r] = call[c].user]
    BY Zenon, <1>2 DEF CacheSession
  <2>5. \A d \in Calls : call'[d].pc \in {"checked", "cached"} => call'[d].user # None
    BY ZenonT(40), <2>2, <2>3
  <2>6. ASSUME Agreed PROVE Agreed'
    <3>1. ASSUME NEW q \in Replicas PROVE CopyExplained(q)'
      <4>1. CASE q = call[c].r
        BY Zenon, <4>1, <2>2, <2>4 DEF CopyExplained
      <4>2. CASE q # call[c].r
        BY <4>2, <2>2, <2>3, <2>4, <2>6 DEF CopyExplained, Agreed
      <4> QED BY Zenon, <4>1, <4>2
    <3> QED BY Zenon, <3>1, <2>2, <2>3, <2>4, <2>6 DEF Agreed
  <2> QED BY Zenon, <2>1, <2>4, <2>5, <2>6
<1> QED BY Zenon, <1>1, <1>2

\* The insert: the first to find no row makes it theirs, and every copy that
\* is not explained by another creation is then the row's; whoever finds a
\* row drops the replica's copy.
LEMMA InsertKeepsOwner == ASSUME OwnerInv, NEW c \in Calls, InsertSessionIfAbsent(c) PROVE OwnerInv'
<1> USE DEF OwnerInv, OwnerShape, CallFields
<1>1. OwnerShape'
  BY Zenon DEF InsertSessionIfAbsent, Won, Astray, End, Idle
<1>2. call[c].pc = "cached" /\ call'[c].pc = "idle" /\ call[c].user # None
  BY Zenon DEF InsertSessionIfAbsent, End, Idle
<1>3. \A d \in Calls : d # c => call'[d] = call[d]
  BY Zenon DEF InsertSessionIfAbsent, End
<1>4. \A d \in Calls : call'[d].pc \in {"checked", "cached"} => call'[d].user # None
  BY Zenon, <1>2, <1>3
<1>5. CASE srow = None /\ srow' = call[c].user /\ Won(call[c].user) /\ UNCHANGED sess
  <2>1. hist'.astray = hist.astray /\ (~hist.astray => hist'.winners = hist.winners \cup {call[c].user})
    BY Zenon, <1>5 DEF Won, HistFields
  <2>2. ASSUME Agreed, ~hist.astray PROVE Agreed'
    <3>1. \A d \in Calls : call'[d].pc # "found"
      BY Zenon, <1>2, <1>3, <1>5, <2>2 DEF Agreed
    <3>2. \A q \in Replicas : CopyExplained(q)'
      BY <1>2, <1>3, <1>5, <2>2 DEF Agreed, CopyExplained
    <3>3. hist'.winners = {srow'} /\ srow' # None
      BY Zenon, <1>2, <1>5, <2>1, <2>2 DEF Agreed
    <3>4. \A d \in Calls : call'[d].pc \notin {"removed", "dropped"}
      BY Zenon, <1>2, <1>3, <2>2 DEF Agreed
    <3> QED BY Zenon, <3>1, <3>2, <3>3, <3>4 DEF Agreed
  <2> QED BY Zenon, <1>1, <1>4, <2>1, <2>2
<1>6. CASE srow # None /\ sess' = [sess EXCEPT ![call[c].r] = None] /\ UNCHANGED <<srow, hist>>
  <2>1. ASSUME Agreed PROVE Agreed'
    <3>1. ASSUME NEW q \in Replicas PROVE CopyExplained(q)'
      <4>1. CASE q = call[c].r
        BY Zenon, <4>1, <1>6 DEF CopyExplained
      <4>2. CASE q # call[c].r
        BY <4>2, <1>2, <1>3, <1>6, <2>1 DEF CopyExplained, Agreed
      <4> QED BY Zenon, <4>1, <4>2
    <3> QED BY Zenon, <3>1, <1>2, <1>3, <1>6, <2>1 DEF Agreed
  <2> QED BY Zenon, <1>1, <1>4, <1>6, <2>1
<1>7. CASE Astray
  <2>1. hist'.astray
    BY Zenon, <1>7 DEF Astray, HistFields
  <2>2. \A d \in Calls : call'[d].pc \in {"checked", "cached"} =>
            call[d].pc \in {"checked", "cached"} /\ call'[d].user = call[d].user
    BY Zenon, <1>2, <1>3
  <2> QED BY Zenon, <1>1, <2>1, <2>2, AstrayKeeps
<1> QED BY Zenon, <1>5, <1>6, <1>7 DEF InsertSessionIfAbsent

\* A miss reads the row, which does not change while the read is on its way.
LEMMA ReadKeepsOwner ==
    ASSUME OwnerInv, NEW c \in Calls, NEW r, GetSession(c, r) \/ GetSessionByID(c)
    PROVE  OwnerInv'
<1> USE DEF OwnerInv, OwnerShape, CallFields
<1>1. CASE GetSession(c, r)
  <2>1. OwnerShape'
    BY Zenon, <1>1 DEF GetSession, Start, Idle
  <2>2. call'[c].pc = "found" /\ call'[c].user = srow /\ call[c].pc = "idle" /\ srow # None
    BY Zenon, <1>1 DEF GetSession, Start, Idle
  <2>3. \A d \in Calls : d # c => call'[d] = call[d]
    BY Zenon, <1>1 DEF GetSession, Start
  <2>4. UNCHANGED <<srow, sess, hist>>
    BY Zenon, <1>1 DEF GetSession
  <2>5. \A d \in Calls : call'[d].pc \in {"checked", "cached"} => call'[d].user # None
    BY Zenon, <2>2, <2>3
  <2>6. ASSUME Agreed PROVE Agreed'
    <3>1. \A q \in Replicas : CopyExplained(q)'
      BY <2>2, <2>3, <2>4, <2>6 DEF Agreed, CopyExplained
    <3> QED BY Zenon, <3>1, <2>2, <2>3, <2>4, <2>6 DEF Agreed
  <2> QED BY Zenon, <2>1, <2>4, <2>5, <2>6
<1>2. CASE GetSessionByID(c)
  <2>1. OwnerShape'
    BY Zenon, <1>2 DEF GetSessionByID, End, Idle
  <2>2. call[c].pc = "found" /\ call'[c].pc = "idle"
    BY Zenon, <1>2 DEF GetSessionByID, End, Idle
  <2>3. \A d \in Calls : d # c => call'[d] = call[d]
    BY Zenon, <1>2 DEF GetSessionByID, End
  <2>4. /\ UNCHANGED <<srow, hist>>
        /\ \A q \in Replicas : sess'[q] \in {sess[q], call[c].user}
    BY Zenon, <1>2 DEF GetSessionByID
  <2>5. \A d \in Calls : call'[d].pc \in {"checked", "cached"} => call'[d].user # None
    BY Zenon, <2>2, <2>3
  <2>6. ASSUME Agreed PROVE Agreed'
    <3>1. \A q \in Replicas : CopyExplained(q)'
      BY <2>2, <2>3, <2>4, <2>6 DEF Agreed, CopyExplained
    <3> QED BY Zenon, <3>1, <2>2, <2>3, <2>4, <2>6 DEF Agreed
  <2> QED BY Zenon, <2>1, <2>4, <2>5, <2>6
<1> QED BY Zenon, <1>1, <1>2

\* An update on a replica without an unfinished creation writes the row back
\* as it is.
LEMMA UpdateKeepsOwner ==
    ASSUME OwnerInv, NEW r \in Replicas, UpdateSession(r) PROVE OwnerInv'
<1> USE DEF OwnerInv, OwnerShape
<1>1. OwnerShape'
  BY Zenon DEF UpdateSession, Astray
<1>2. UNCHANGED <<sess, call>> /\ srow' = sess[r] /\ sess[r] # None
  BY Zenon DEF UpdateSession
<1>3. CASE \E c \in Calls : call[c].pc = "cached" /\ call[c].r = r
  <2>1. hist'.astray
    BY Zenon, <1>3 DEF UpdateSession, Astray, HistFields
  <2> QED BY Zenon, <1>1, <1>2, <2>1, AstrayKeeps
<1>4. CASE ~ \E c \in Calls : call[c].pc = "cached" /\ call[c].r = r
  <2>1. UNCHANGED hist
    BY Zenon, <1>4 DEF UpdateSession
  <2>2. Agreed => srow' = srow
    BY <1>2, <1>4 DEF Agreed, CopyExplained
  <2>3. Agreed => Agreed'
    BY <1>2, <2>1, <2>2 DEF Agreed, CopyExplained
  <2> QED BY Zenon, <1>1, <1>2, <2>1, <2>3
<1> QED BY Zenon, <1>3, <1>4

\* From the first step of a deletion on, OneOwner is no longer claimed.
LEMMA DeletionKeepsOwner ==
    ASSUME OwnerInv, NEW c \in Calls, NEW r,
           RemoveSession(c, r) \/ DropKeys(c) \/ DeleteSession(c)
    PROVE  OwnerInv'
<1> USE DEF OwnerInv, OwnerShape, CallFields
<1>1. CASE RemoveSession(c, r)
  <2>1. OwnerShape'
    BY Zenon, <1>1 DEF RemoveSession, Start, Idle
  <2>2. hist'.astray
    BY Zenon, <1>1 DEF RemoveSession, HistFields
  <2>3. \A d \in Calls : call'[d].pc \in {"checked", "cached"} =>
            call[d].pc \in {"checked", "cached"} /\ call'[d].user = call[d].user
    BY Zenon, <1>1 DEF RemoveSession, Start, Idle
  <2> QED BY Zenon, <2>1, <2>2, <2>3, AstrayKeeps
<1>2. CASE DropKeys(c)
  <2>1. OwnerShape'
    BY Zenon, <1>2 DEF DropKeys, Goto, Displaced
  <2>2. hist'.astray
    BY Zenon, <1>2 DEF DropKeys, Agreed
  <2>3. \A d \in Calls : call'[d].pc \in {"checked", "cached"} =>
            call[d].pc \in {"checked", "cached"} /\ call'[d].user = call[d].user
    BY <1>2 DEF DropKeys, Goto, Displaced
  <2> QED BY Zenon, <2>1, <2>2, <2>3, AstrayKeeps
<1>3. CASE DeleteSession(c)
  <2>1. OwnerShape'
    BY Zenon, <1>3 DEF DeleteSession, End, Idle
  <2>2. hist'.astray
    BY Zenon, <1>3 DEF DeleteSession, Agreed
  <2>3. \A d \in Calls : call'[d].pc \in {"checked", "cached"} =>
            call[d].pc \in {"checked", "cached"} /\ call'[d].user = call[d].user
    BY Zenon, <1>3 DEF DeleteSession, End, Idle
  <2> QED BY Zenon, <2>1, <2>2, <2>3, AstrayKeeps
<1> QED BY Zenon, <1>1, <1>2, <1>3

\* A restarted replica loads the row and forgets its unfinished creations.
LEMMA RestartKeepsOwner ==
    ASSUME OwnerInv, NEW r \in Replicas, NewSessionsService(r) PROVE OwnerInv'
<1> USE DEF OwnerInv, OwnerShape, CallFields
<1>1. OwnerShape'
  BY Zenon DEF NewSessionsService, Idle
<1>2. hist'.astray = hist.astray /\ hist'.winners = hist.winners
  BY Zenon DEF NewSessionsService, HistFields
<1>3. \A d \in Calls : IF call[d].r = r THEN call'[d].pc = "idle" ELSE call'[d] = call[d]
  BY Zenon DEF NewSessionsService, Idle
<1>4. srow' = srow /\ sess' = [sess EXCEPT ![r] = srow]
  BY Zenon DEF NewSessionsService
<1>5. \A d \in Calls : call'[d].pc \in {"checked", "cached"} => call'[d].user # None
  BY Zenon, <1>3
<1>6. ASSUME Agreed PROVE Agreed'
  <2>1. ASSUME NEW q \in Replicas PROVE CopyExplained(q)'
    <3>1. CASE q = r
      BY Zenon, <3>1, <1>4 DEF CopyExplained
    <3>2. CASE q # r
      BY <3>2, <1>3, <1>4, <1>6 DEF CopyExplained, Agreed
    <3> QED BY Zenon, <3>1, <3>2
  <2> QED BY Zenon, <2>1, <1>2, <1>3, <1>4, <1>6 DEF Agreed
<1> QED BY Zenon, <1>1, <1>2, <1>5, <1>6

\* No step breaks the invariant.
LEMMA OwnerInvInductive == OwnerInv /\ [Next]_vars => OwnerInv'
<1> SUFFICES ASSUME OwnerInv, [Next]_vars PROVE OwnerInv'
  BY Zenon
<1>1. ASSUME NEW c \in Calls, NEW r \in Replicas, NEW u \in Users, CheckAbsent(c, r, u)
      PROVE  OwnerInv'
  BY Zenon, <1>1, CreationKeepsOwner
<1>2. ASSUME NEW c \in Calls, NEW r \in Replicas,
             \/ GetSession(c, r) \/ RemoveSession(c, r) \/ FindSession(c, r)
             \/ InvalidateSession(c, r) \/ AuthenticateAPIKey(c, r)
      PROVE  OwnerInv'
  BY Zenon, <1>2, ReadKeepsOwner, DeletionKeepsOwner, KeyStepsOwnerQuiet
<1>3. ASSUME NEW c \in Calls, CacheSession(c)
      PROVE  OwnerInv'
  BY Zenon, <1>3, CreationKeepsOwner
<1>4. ASSUME NEW c \in Calls,
             \/ InsertSessionIfAbsent(c) \/ GetSessionByID(c)
             \/ DropKeys(c) \/ DeleteSession(c)
      PROVE  OwnerInv'
  BY Zenon, <1>4, InsertKeepsOwner, ReadKeepsOwner, DeletionKeepsOwner
<1>5. ASSUME NEW c \in Calls,
             \/ CreateApiKey(c) \/ PersistInvalidation(c)
             \/ GetAPIKeyByHash(c) \/ revalidateAPIKeyLocked(c)
      PROVE  OwnerInv'
  BY Zenon, <1>5, KeyStepsOwnerQuiet
<1>6. ASSUME NEW r \in Replicas,
             UpdateSession(r) \/ RevokeApiKey(r) \/ NewSessionsService(r)
      PROVE  OwnerInv'
  BY Zenon, <1>6, UpdateKeepsOwner, KeyStepsOwnerQuiet, RestartKeepsOwner
<1>7. CASE Tick
  BY Zenon, <1>7, KeyStepsOwnerQuiet
<1>8. CASE UNCHANGED vars
  BY ZenonT(40), <1>8 DEF vars, OwnerInv, OwnerShape, Agreed, CopyExplained
<1> QED BY Zenon, <1>1, <1>2, <1>3, <1>4, <1>5, <1>6, <1>7, <1>8 DEF Next

\* OneOwner in every behaviour: however many replicas and creations race for
\* one session id, one user is told that it is theirs, the row is that user's
\* and so is every settled copy.
THEOREM OwnerAgreed == Spec => []OneOwner
<1>1. Init => OwnerInv
  BY DEF Init, OwnerInv, OwnerShape, Agreed, CopyExplained, Idle, HistFields, CallFields
<1>2. OwnerInv => OneOwner
  BY Zenon DEF OwnerInv, Agreed, CopyExplained, OneOwner
<1> QED BY <1>1, <1>2, OwnerInvInductive, PTL DEF Spec

-----------------------------------------------------------------------------
(* The lag of a revocation *)

\* The types and the shape of what this proof looks at.
LiveShape ==
    /\ DOMAIN hist = HistFields
    /\ DOMAIN index = Replicas
    /\ age \in [Replicas -> Nat]
    /\ dead \in Nat
    /\ DOMAIN call = Calls
    /\ \A c \in Calls : /\ DOMAIN call[c] = CallFields
                        /\ call[c].since \in Nat /\ call[c].ticks \in Nat

\* No replica accepts the key and nobody is checking it.
Unseen == (\A r \in Replicas : ~index[r]) /\ Authenticating = {}

\* A grant confirmed not longer than the interval ago was live at most one
\* revalidation before that.
GrantRecent(r) == index[r] /\ age[r] <= Interval => dead <= age[r] + MaxDelay

\* An authentication under way: one that began when the key was dead never
\* reads a live row, and one that read it did so at most its own age ago.
CheckSound(c) ==
    /\ call[c].ticks <= MaxDelay
    /\ krow = "live" => call[c].since = 0
    /\ call[c].pc = "confirming" /\ call[c].live => call[c].since = 0 /\ dead <= call[c].ticks

\* The inductive invariant of AcceptedWasLive, on top of KeyInv.
LiveInv ==
    /\ LiveShape
    /\ ~hist.created => Unseen
    /\ \A c \in Calls : call[c].pc = "minting" => Unseen
    /\ krow = "live" => dead = 0
    /\ \A r \in Replicas : GrantRecent(r)
    /\ \A c \in Authenticating : CheckSound(c)
    /\ ~hist.late

\* A step that brings no grant, confirms none and starts no authentication.
LiveQuiet ==
    /\ \A r \in Replicas : index'[r] => index[r] /\ age'[r] = age[r]
    /\ dead' = dead
    /\ krow' = "live" => krow = "live"
    /\ hist'.created = hist.created /\ hist'.late = hist.late
    /\ \A c \in Calls : call'[c].pc = "minting" => call[c].pc = "minting"
    /\ \A c \in Calls : call'[c].pc \in {"unconfirmed", "confirming"} =>
           /\ call'[c].pc = call[c].pc /\ call'[c].live = call[c].live
           /\ call'[c].since = call[c].since /\ call'[c].ticks = call[c].ticks

\* Such a step keeps the invariant.
LEMMA LiveQuietKeeps == ASSUME LiveInv, LiveShape', LiveQuiet PROVE LiveInv'
<1>1. \A c \in Authenticating' : c \in Authenticating
  BY Zenon DEF LiveQuiet, Authenticating
<1>2. Unseen => Unseen'
  BY Zenon, <1>1 DEF LiveQuiet, Unseen
<1>3. \A r \in Replicas : GrantRecent(r)'
  BY Zenon DEF LiveInv, LiveQuiet, GrantRecent
<1>4. \A c \in Authenticating' : CheckSound(c)'
  BY ZenonT(40), <1>1 DEF LiveInv, LiveQuiet, CheckSound, Authenticating
<1> QED BY Zenon, <1>2, <1>3, <1>4 DEF LiveInv, LiveQuiet

\* What happens to the session, and the withdrawal of a key, are such steps.
LEMMA SessionStepsLiveQuiet ==
    ASSUME LiveInv, NEW c, NEW r, NEW u,
           \/ CheckAbsent(c, r, u) \/ CacheSession(c) \/ InsertSessionIfAbsent(c)
           \/ GetSession(c, r) \/ GetSessionByID(c) \/ UpdateSession(r)
           \/ RemoveSession(c, r) \/ DropKeys(c) \/ DeleteSession(c)
    PROVE  LiveInv'
<1> USE DEF LiveInv, LiveShape, CallFields
<1>1. CASE CheckAbsent(c, r, u)
  <2>1. LiveShape'  BY Zenon, <1>1 DEF CheckAbsent, Start, Idle
  <2>2. LiveQuiet   BY Zenon, <1>1 DEF LiveQuiet, CheckAbsent, Start, Idle
  <2> QED BY Zenon, <2>1, <2>2, LiveQuietKeeps
<1>2. CASE CacheSession(c)
  <2>1. LiveShape'  BY Zenon, <1>2 DEF CacheSession, Goto
  <2>2. LiveQuiet   BY Zenon, <1>2 DEF LiveQuiet, CacheSession, Goto
  <2> QED BY Zenon, <2>1, <2>2, LiveQuietKeeps
<1>3. CASE InsertSessionIfAbsent(c)
  <2>1. LiveShape'  BY Zenon, <1>3 DEF InsertSessionIfAbsent, Won, Astray, End, Idle
  <2>2. LiveQuiet   BY Zenon, <1>3 DEF LiveQuiet, InsertSessionIfAbsent, Won, Astray, End, Idle, HistFields
  <2> QED BY Zenon, <2>1, <2>2, LiveQuietKeeps
<1>4. CASE GetSession(c, r)
  <2>1. LiveShape'  BY Zenon, <1>4 DEF GetSession, Start, Idle
  <2>2. LiveQuiet   BY Zenon, <1>4 DEF LiveQuiet, GetSession, Start, Idle
  <2> QED BY Zenon, <2>1, <2>2, LiveQuietKeeps
<1>5. CASE GetSessionByID(c)
  <2>1. LiveShape'  BY Zenon, <1>5 DEF GetSessionByID, End, Idle
  <2>2. LiveQuiet   BY Zenon, <1>5 DEF LiveQuiet, GetSessionByID, End, Idle
  <2> QED BY Zenon, <2>1, <2>2, LiveQuietKeeps
<1>6. CASE UpdateSession(r)
  <2>1. LiveShape'  BY Zenon, <1>6 DEF UpdateSession, Astray
  <2>2. LiveQuiet   BY Zenon, <1>6 DEF LiveQuiet, UpdateSession, Astray, HistFields
  <2> QED BY Zenon, <2>1, <2>2, LiveQuietKeeps
<1>7. CASE RemoveSession(c, r)
  <2>1. LiveShape'  BY Zenon, <1>7 DEF RemoveSession, Start, Idle
  <2>2. LiveQuiet   BY Zenon, <1>7 DEF LiveQuiet, RemoveSession, Start, Idle, HistFields
  <2> QED BY Zenon, <2>1, <2>2, LiveQuietKeeps
<1>8. CASE DropKeys(c)
  <2>1. LiveShape'  BY <1>8 DEF DropKeys, Unindex, Goto, Displaced
  <2>2. LiveQuiet   BY <1>8 DEF LiveQuiet, DropKeys, Unindex, Goto, Displaced
  <2> QED BY Zenon, <2>1, <2>2, LiveQuietKeeps
<1>9. CASE DeleteSession(c)
  <2>1. LiveShape'  BY Zenon, <1>9 DEF DeleteSession, End, Idle
  <2>2. LiveQuiet   BY Zenon, <1>9 DEF LiveQuiet, DeleteSession, End, Idle
  <2> QED BY Zenon, <2>1, <2>2, LiveQuietKeeps
<1> QED BY Zenon, <1>1, <1>2, <1>3, <1>4, <1>5, <1>6, <1>7, <1>8, <1>9

\* So are the three that revoke.
LEMMA RevokingStepsLiveQuiet ==
    ASSUME LiveInv, NEW c, NEW r,
           RevokeApiKey(r) \/ InvalidateSession(c, r) \/ PersistInvalidation(c)
    PROVE  LiveInv'
<1> USE DEF LiveInv, LiveShape, CallFields
<1>1. CASE RevokeApiKey(r)
  <2>1. LiveShape'  BY Zenon, <1>1 DEF RevokeApiKey, SaveRevoked, Unindex, Displaced
  <2>2. LiveQuiet   BY Zenon, <1>1 DEF LiveQuiet, RevokeApiKey, SaveRevoked, Unindex, Displaced, HistFields
  <2> QED BY Zenon, <2>1, <2>2, LiveQuietKeeps
<1>2. CASE InvalidateSession(c, r)
  <2>1. LiveShape'  BY Zenon, <1>2 DEF InvalidateSession, Unindex, Displaced, Start, Idle
  <2>2. LiveQuiet   BY ZenonT(40), <1>2 DEF LiveQuiet, InvalidateSession, Unindex, Displaced, Start, Idle
  <2> QED BY Zenon, <2>1, <2>2, LiveQuietKeeps
<1>3. CASE PersistInvalidation(c)
  <2>1. LiveShape'  BY Zenon, <1>3 DEF PersistInvalidation, SaveRevoked, End, Idle
  <2>2. LiveQuiet   BY Zenon, <1>3 DEF LiveQuiet, PersistInvalidation, SaveRevoked, End, Idle, HistFields
  <2> QED BY Zenon, <2>1, <2>2, LiveQuietKeeps
<1> QED BY Zenon, <1>1, <1>2, <1>3

\* CreateApiKey begins before anybody has seen the key.
LEMMA FindSessionKeepsLive ==
    ASSUME LiveInv, NEW c \in Calls, NEW r, FindSession(c, r) PROVE LiveInv'
<1> USE DEF LiveInv, LiveShape, CallFields
<1>1. LiveShape'
  BY Zenon DEF FindSession, Start, Idle
<1>2. hist'.created /\ hist'.late = hist.late /\ UNCHANGED <<krow, index, age, dead>>
  BY Zenon DEF FindSession, HistFields
<1>3. \A d \in Calls : d # c => call'[d] = call[d]
  BY Zenon DEF FindSession, Start
<1>4. call'[c].pc = "minting"
  BY Zenon DEF FindSession, Start, Idle
<1>5. Unseen
  BY Zenon DEF FindSession
<1>6. Unseen'
  BY Zenon, <1>2, <1>3, <1>4, <1>5 DEF Unseen, Authenticating
<1> QED BY Zenon, <1>1, <1>2, <1>6 DEF Unseen, GrantRecent

\* Its end is the first grant, confirmed as it is made.
LEMMA CreateApiKeyKeepsLive ==
    ASSUME KeyInv, LiveInv, NEW c \in Calls, CreateApiKey(c) PROVE LiveInv'
<1> USE DEF LiveInv, LiveShape, CallFields
<1>1. LiveShape'
  BY Zenon DEF CreateApiKey, Index, End, Idle
<1>2. hist'.created /\ ~hist'.late /\ dead' = 0
  BY Zenon DEF KeyInv, CreateApiKey
<1>3. \A d \in Calls : call'[d].pc # "minting"
  BY Zenon DEF KeyInv, CreateApiKey, End, Idle
<1>4. Authenticating' = {}
  BY Zenon DEF CreateApiKey, End, Idle, Unseen, Authenticating
<1>5. \A r \in Replicas : GrantRecent(r)'
  BY <1>1, <1>2, TimeAssumption DEF GrantRecent
<1> QED BY Zenon, <1>1, <1>2, <1>3, <1>4, <1>5

\* An answer to an authentication that began in time is not late.
LEMMA AcceptInTime ==
    ASSUME LiveInv, NEW since \in Nat, since <= Limit, Accept(since)
    PROVE  ~hist'.late /\ hist'.created = hist.created /\ DOMAIN hist' = HistFields
<1>1. ~ (since > Limit)
  BY TimeAssumption DEF Limit
<1> DEFINE late == hist.late \/ since > Limit
<1>2. ~late
  BY Zenon, <1>1 DEF LiveInv
<1>3. hist' = [hist EXCEPT !.late = late]
  BY Zenon DEF Accept
<1> HIDE DEF late
<1> QED BY Zenon, <1>2, <1>3 DEF LiveInv, LiveShape, HistFields

\* AuthenticateAPIKey: a grant that is still confirmed is at most the interval
\* and one revalidation behind the store.
LEMMA AuthenticateKeepsLive ==
    ASSUME KeyInv, LiveInv, NEW c \in Calls, NEW r \in Replicas, AuthenticateAPIKey(c, r)
    PROVE  LiveInv'
<1> USE DEF LiveInv, LiveShape, CallFields
<1> DEFINE looking == [Idle EXCEPT !.pc = "unconfirmed", !.r = r, !.cur = TRUE, !.since = dead]
<1>1. /\ looking.pc = "unconfirmed" /\ looking.since = dead /\ looking.ticks = 0
      /\ looking.live = FALSE /\ DOMAIN looking = CallFields
  BY Zenon DEF Idle
<1>2. index[r] /\ UNCHANGED <<krow, index, age, dead>>
  BY Zenon DEF AuthenticateAPIKey
<1>3. call[c].pc = "idle"
  BY Zenon DEF AuthenticateAPIKey
<1>4. CASE age[r] > Interval
  <2>1. call' = [call EXCEPT ![c] = looking] /\ hist' = hist
    BY Zenon, <1>4 DEF AuthenticateAPIKey
  <2> HIDE DEF looking
  <2>2. call'[c] = looking /\ \A d \in Calls : d # c => call'[d] = call[d]
    BY Zenon, <2>1
  <2>3. LiveShape'
    BY <1>1, <1>2, <2>1, <2>2
  <2>4. hist.created /\ \A d \in Calls : call'[d].pc # "minting"
    BY Zenon, <1>1, <1>2, <2>2 DEF Unseen
  <2>5. \A q \in Replicas : GrantRecent(q)'
    BY Zenon, <1>2 DEF GrantRecent
  <2>6. CheckSound(c)'
    BY <1>1, <1>2, <2>2, TimeAssumption DEF CheckSound
  <2>7. \A d \in Authenticating' : CheckSound(d)'
    BY <1>2, <2>2, <2>6 DEF CheckSound, Authenticating
  <2> QED BY Zenon, <1>2, <2>1, <2>3, <2>4, <2>5, <2>7
<1>5. CASE ~ (age[r] > Interval)
  <2>1. call' = call /\ Accept(dead)
    BY Zenon, <1>5 DEF AuthenticateAPIKey
  <2>2. dead <= Limit
    BY <1>2, <1>5, TimeAssumption DEF GrantRecent, Limit
  <2>3. ~hist'.late /\ hist'.created = hist.created /\ DOMAIN hist' = HistFields
    BY Zenon, <2>1, <2>2, AcceptInTime
  <2> QED
    BY Zenon, <1>2, <2>1, <2>3 DEF Unseen, GrantRecent, CheckSound, Authenticating
<1> QED BY Zenon, <1>4, <1>5

\* The row is read: if it is live, the key is not dead at that moment and was
\* not when the authentication began.
LEMMA ReadRowKeepsLive ==
    ASSUME LiveInv, NEW c \in Calls, GetAPIKeyByHash(c) PROVE LiveInv'
<1> USE DEF LiveInv, LiveShape, CallFields
<1>1. LiveShape'
  BY DEF GetAPIKeyByHash, End, Idle
<1>2. UNCHANGED <<krow, index, age, dead, hist>> /\ call[c].pc = "unconfirmed"
  BY Zenon DEF GetAPIKeyByHash
<1>3. \A d \in Calls : d # c => call'[d] = call[d]
  BY Zenon DEF GetAPIKeyByHash, End
<1>4. \/ call'[c].pc = "idle"
      \/ /\ call'[c].pc = "confirming" /\ (call'[c].live => krow = "live")
         /\ call'[c].since = call[c].since /\ call'[c].ticks = call[c].ticks
  <2> DEFINE isLive == krow = "live"
  <2>1. \/ call' = [call EXCEPT ![c].pc = "confirming", ![c].live = isLive]
        \/ call' = End(c)
    BY Zenon DEF GetAPIKeyByHash
  <2>2. isLive => krow = "live"
    BY Zenon
  <2> HIDE DEF isLive
  <2> QED BY <2>1, <2>2 DEF End, Idle
<1>5. c \in Authenticating
  BY Zenon, <1>2 DEF Authenticating
<1>6. ~Unseen
  BY Zenon, <1>5 DEF Unseen
<1>7. \A d \in Calls : call'[d].pc # "minting"
  BY Zenon, <1>3, <1>4, <1>6
<1>8. call'[c].pc = "confirming" => CheckSound(c)'
  BY <1>2, <1>4, <1>5 DEF CheckSound
<1>9. \A d \in Authenticating' : CheckSound(d)'
  BY <1>2, <1>3, <1>4, <1>8 DEF CheckSound, Authenticating
<1> QED BY Zenon, <1>1, <1>2, <1>6, <1>7, <1>9 DEF GrantRecent

\* revalidateAPIKeyLocked: what it confirms was live when its row was read.
LEMMA RevalidateKeepsLive ==
    ASSUME LiveInv, NEW c \in Calls, revalidateAPIKeyLocked(c) PROVE LiveInv'
<1> USE DEF LiveInv, LiveShape, CallFields
<1>1. /\ UNCHANGED <<krow, dead>> /\ call[c].pc = "confirming"
      /\ call' \in {End(c), Displaced(call[c].r, End(c))}
  BY Zenon DEF revalidateAPIKeyLocked
<1>2. c \in Authenticating /\ ~Unseen
  BY Zenon, <1>1 DEF Authenticating, Unseen
<1>3. /\ DOMAIN call' = Calls
      /\ \A d \in Calls : /\ DOMAIN call'[d] = CallFields
                          /\ call'[d].since \in Nat /\ call'[d].ticks \in Nat
  BY <1>1 DEF End, Idle, Displaced
<1>4. /\ call'[c].pc = "idle"
      /\ \A d \in Calls : d # c =>
            /\ call'[d].pc = call[d].pc /\ call'[d].live = call[d].live
            /\ call'[d].since = call[d].since /\ call'[d].ticks = call[d].ticks
  BY <1>1 DEF End, Idle, Displaced
<1>5. \A d \in Calls : call'[d].pc # "minting"
  BY Zenon, <1>2, <1>4
<1>6. \A d \in Authenticating' : CheckSound(d)'
  BY <1>1, <1>4 DEF CheckSound, Authenticating
<1>7. CASE call[c].live /\ Index(call[c].r) /\ Accept(call[c].since)
  <2>1. call[c].since = 0 /\ dead <= MaxDelay
    BY <1>1, <1>2, <1>7, TimeAssumption DEF CheckSound
  <2>2. ~hist'.late /\ hist'.created = hist.created /\ DOMAIN hist' = HistFields
    <3>1. call[c].since \in Nat /\ call[c].since <= Limit
      BY <2>1, TimeAssumption DEF Limit
    <3> QED BY Zenon, <1>7, <3>1, AcceptInTime
  <2>3. ASSUME NEW q \in Replicas PROVE GrantRecent(q)'
    <3>1. CASE q = call[c].r
      BY <1>1, <1>7, <2>1, <3>1, TimeAssumption DEF GrantRecent, Index
    <3>2. CASE q # call[c].r
      BY Zenon, <1>1, <1>7, <3>2 DEF GrantRecent, Index
    <3> QED BY Zenon, <3>1, <3>2
  <2>4. LiveShape'
    BY Zenon, <1>1, <1>3, <1>7, <2>2 DEF Index
  <2> QED BY Zenon, <1>1, <1>2, <1>5, <1>6, <2>2, <2>3, <2>4
<1>8. CASE Unindex(call[c].r) /\ UNCHANGED hist
  <2>1. \A q \in Replicas : GrantRecent(q)'
    BY Zenon, <1>1, <1>8 DEF GrantRecent, Unindex
  <2>2. LiveShape'
    BY Zenon, <1>1, <1>3, <1>8 DEF Unindex
  <2> QED BY Zenon, <1>1, <1>2, <1>5, <1>6, <1>8, <2>1, <2>2
<1>9. CASE UNCHANGED <<index, age, hist>>
  <2>1. LiveShape' /\ \A q \in Replicas : GrantRecent(q)'
    BY Zenon, <1>1, <1>3, <1>9 DEF GrantRecent
  <2> QED BY Zenon, <1>1, <1>2, <1>5, <1>6, <1>9, <2>1
<1> QED BY Zenon, <1>7, <1>8, <1>9 DEF revalidateAPIKeyLocked

\* FiniteSetsExt's Min, of two numbers.
LEMMA MinOfTwo ==
    ASSUME NEW a \in Nat, NEW b \in Nat
    PROVE  Min({a, b}) = IF a <= b THEN a ELSE b
<1>1. CASE a <= b
  <2>1. a \in {a, b} /\ \A y \in {a, b} : a <= y
    BY <1>1
  <2>2. \A x \in {a, b} : (\A y \in {a, b} : x <= y) => x = a
    BY <1>1
  <2> QED BY <1>1, <2>1, <2>2 DEF Min
<1>2. CASE ~ (a <= b)
  <2>1. b \in {a, b} /\ \A y \in {a, b} : b <= y
    BY <1>2
  <2>2. \A x \in {a, b} : (\A y \in {a, b} : x <= y) => x = b
    BY Zenon, <1>2
  <2> QED BY Zenon, <1>2, <2>1, <2>2 DEF Min
<1> QED BY Zenon, <1>1, <1>2

\* A tick ages the grants, the authentications and the dead key alike.
LEMMA TickKeepsLive == ASSUME LiveInv, Tick PROVE LiveInv'
<1> USE DEF LiveInv, LiveShape, CallFields
<1>1. UNCHANGED <<krow, index, hist>>
  BY Zenon DEF Tick
<1>2. dead' \in Nat /\ dead' <= dead + 1 /\ (krow = "live" => dead' = 0)
  <2>1. Min({dead + 1, Limit + 1}) = IF dead + 1 <= Limit + 1 THEN dead + 1 ELSE Limit + 1
    BY MinOfTwo, TimeAssumption DEF Limit
  <2> QED BY <2>1, TimeAssumption DEF Tick, Limit
<1>3. \A r \in Replicas :
        Min({age[r] + 1, Interval + 1}) = IF age[r] + 1 <= Interval + 1 THEN age[r] + 1 ELSE Interval + 1
  BY MinOfTwo, TimeAssumption
<1>4. age' \in [Replicas -> Nat]
      /\ \A r \in Replicas : index[r] /\ age'[r] <= Interval => age'[r] = age[r] + 1
  BY <1>3, TimeAssumption DEF Tick
<1>5. /\ DOMAIN call' = Calls
      /\ \A c \in Calls :
            /\ DOMAIN call'[c] = CallFields
            /\ call'[c].pc = call[c].pc /\ call'[c].live = call[c].live
            /\ call'[c].since = call[c].since
            /\ call'[c].ticks = IF c \in Authenticating THEN call[c].ticks + 1 ELSE call[c].ticks
  BY Zenon DEF Tick
<1>6. \A c \in Authenticating : call[c].ticks < MaxDelay
  BY Zenon DEF Tick
<1>7. Authenticating' = Authenticating
  BY Zenon, <1>5 DEF Authenticating
<1>8. LiveShape'
  BY <1>1, <1>2, <1>4, <1>5
<1>9. \A r \in Replicas : GrantRecent(r)'
  BY <1>1, <1>2, <1>4, TimeAssumption DEF GrantRecent
<1>10. ASSUME NEW c \in Authenticating PROVE CheckSound(c)'
  <2>1. c \in Calls
    BY Zenon, <1>10 DEF Authenticating
  <2>2. call[c].ticks \in Nat /\ call'[c].ticks = call[c].ticks + 1 /\ call[c].ticks < MaxDelay
    BY Zenon, <1>5, <1>6, <1>10, <2>1
  <2>3. CheckSound(c)
    BY Zenon, <1>10
  <2> QED BY <1>1, <1>2, <1>5, <2>1, <2>2, <2>3, TimeAssumption DEF CheckSound
<1> QED BY Zenon, <1>1, <1>2, <1>5, <1>7, <1>8, <1>9, <1>10 DEF Unseen

\* A restarted replica grants the key only if the row is live.
LEMMA RestartKeepsLive ==
    ASSUME KeyInv, LiveInv, NEW r \in Replicas, NewSessionsService(r) PROVE LiveInv'
<1> USE DEF LiveInv, LiveShape, CallFields
<1>1. /\ UNCHANGED <<krow, dead>> /\ DOMAIN hist' = HistFields
      /\ hist'.late = hist.late /\ hist'.created = hist.created
  BY Zenon DEF NewSessionsService, HistFields
<1>2. /\ DOMAIN call' = Calls
      /\ \A c \in Calls : (call'[c] = Idle) \/ (call'[c] = call[c])
  BY Zenon DEF NewSessionsService
<1>3. /\ DOMAIN index' = Replicas /\ age' \in [Replicas -> Nat]
      /\ \A q \in Replicas :
            \/ index'[q] = index[q] /\ age'[q] = age[q]
            \/ ~index'[q]
            \/ krow = "live"
  BY DEF NewSessionsService, Index, Unindex
<1>4. Idle.pc = "idle" /\ Idle.since = 0 /\ Idle.ticks = 0 /\ DOMAIN Idle = CallFields
  BY Zenon DEF Idle
<1>5. LiveShape'
  BY <1>1, <1>2, <1>3, <1>4
<1>6. \A q \in Replicas : GrantRecent(q)'
  <2>1. krow = "live" => dead' = 0
    BY Zenon, <1>1
  <2> QED BY <1>1, <1>3, <1>5, <2>1, TimeAssumption DEF GrantRecent
<1>7. \A d \in Authenticating' : d \in Authenticating /\ call'[d] = call[d]
  BY Zenon, <1>2, <1>4 DEF Authenticating
<1>8. \A d \in Authenticating' : CheckSound(d)'
  BY Zenon, <1>1, <1>7 DEF CheckSound
<1>9. Fresh /\ Unseen => Unseen'
  BY Zenon, <1>3, <1>7 DEF Fresh, Unseen
<1>10. \A d \in Calls : call'[d].pc = "minting" => call[d].pc = "minting"
  BY Zenon, <1>2, <1>4
<1> QED BY Zenon, <1>1, <1>5, <1>6, <1>8, <1>9, <1>10 DEF KeyInv

\* No step breaks the invariant.
LEMMA LiveInvInductive == KeyInv /\ LiveInv /\ [Next]_vars => LiveInv'
<1> SUFFICES ASSUME KeyInv, LiveInv, [Next]_vars PROVE LiveInv'
  BY Zenon
<1>1. CASE \E c \in Calls, r \in Replicas, u \in Users : CheckAbsent(c, r, u)
  BY Zenon, <1>1, SessionStepsLiveQuiet
<1>2. ASSUME NEW c \in Calls, NEW r \in Replicas,
             \/ GetSession(c, r) \/ RemoveSession(c, r) \/ FindSession(c, r)
             \/ InvalidateSession(c, r) \/ AuthenticateAPIKey(c, r)
      PROVE  LiveInv'
  BY Zenon, <1>2, SessionStepsLiveQuiet, FindSessionKeepsLive, RevokingStepsLiveQuiet,
     AuthenticateKeepsLive
<1>3. ASSUME NEW c \in Calls,
             \/ CacheSession(c) \/ InsertSessionIfAbsent(c) \/ GetSessionByID(c)
             \/ DropKeys(c) \/ DeleteSession(c)
      PROVE  LiveInv'
  BY Zenon, <1>3, SessionStepsLiveQuiet
<1>4. ASSUME NEW c \in Calls,
             \/ CreateApiKey(c) \/ PersistInvalidation(c)
             \/ GetAPIKeyByHash(c) \/ revalidateAPIKeyLocked(c)
      PROVE  LiveInv'
  BY Zenon, <1>4, CreateApiKeyKeepsLive, RevokingStepsLiveQuiet, ReadRowKeepsLive, RevalidateKeepsLive
<1>5. ASSUME NEW r \in Replicas,
             UpdateSession(r) \/ RevokeApiKey(r) \/ NewSessionsService(r)
      PROVE  LiveInv'
  BY Zenon, <1>5, SessionStepsLiveQuiet, RevokingStepsLiveQuiet, RestartKeepsLive
<1>6. CASE Tick
  BY Zenon, <1>6, TickKeepsLive
<1>7. CASE UNCHANGED vars
  BY Zenon, <1>7 DEF vars, LiveInv, LiveShape, Unseen, GrantRecent, CheckSound, Authenticating
<1> QED BY Zenon, <1>1, <1>2, <1>3, <1>4, <1>5, <1>6, <1>7 DEF Next

\* AcceptedWasLive in every behaviour: whatever the interval, the delay of a
\* revalidation and the number of replicas, no authentication succeeds that
\* began longer than the two together after the key was last live.
THEOREM RevocationReachesAll == Spec => []AcceptedWasLive
<1>1. Init => LiveInv
  BY DEF Init, LiveInv, LiveShape, Unseen, GrantRecent, Authenticating, Idle, HistFields, CallFields
<1>2. LiveInv => AcceptedWasLive
  BY Zenon DEF LiveInv, AcceptedWasLive
<1> QED BY <1>1, <1>2, KeyInvInit, KeyInvInductive, LiveInvInductive, PTL DEF Spec
=============================================================================
