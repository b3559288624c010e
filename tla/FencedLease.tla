----------------------------- MODULE FencedLease -----------------------------
(***************************************************************************)
(* What the queue promises of one request, whatever happens to its          *)
(* providers: it is worked on under numbered grants, at most MaxTokens of   *)
(* them, each newer than the last; only the holder of the newest grant can  *)
(* publish an answer, and the answer carries that grant's number.           *)
(***************************************************************************)
EXTENDS Integers

CONSTANTS Items, Holders, NoHolder, MaxTokens

VARIABLES phase,   \* absent, open, closed or gone
          token,   \* the number of the newest grant
          holder,  \* who holds it, or NoHolder
          answer   \* [by, token] of the answer, by = NoHolder if none

leaseVars == <<phase, token, holder, answer>>

NoAnswer == [by |-> NoHolder, token |-> 0]

LeaseInit ==
    /\ phase = [i \in Items |-> "absent"]
    /\ token = [i \in Items |-> 0]
    /\ holder = [i \in Items |-> NoHolder]
    /\ answer = [i \in Items |-> NoAnswer]

Enqueue(i) ==
    /\ phase[i] = "absent"
    /\ phase' = [phase EXCEPT ![i] = "open"]
    /\ UNCHANGED <<token, holder, answer>>

\* A new grant supersedes whatever grant is still out.
GrantTo(i, h) ==
    /\ phase[i] = "open"
    /\ token[i] < MaxTokens
    /\ token' = [token EXCEPT ![i] = @ + 1]
    /\ holder' = [holder EXCEPT ![i] = h]
    /\ UNCHANGED <<phase, answer>>

HeldAnswer(i) == [by |-> holder[i], token |-> token[i]]

\* The holder publishes, with or without closing the item.
Publish(i) ==
    /\ phase[i] = "open"
    /\ holder[i] # NoHolder
    /\ answer' = [answer EXCEPT ![i] = HeldAnswer(i)]
    /\ \/ UNCHANGED <<phase, holder>>
       \/ /\ phase' = [phase EXCEPT ![i] = "closed"]
          /\ holder' = [holder EXCEPT ![i] = NoHolder]
    /\ UNCHANGED token

\* The grant ends with no new answer: the item is open again, or closed as it
\* stands (finished or dead-lettered).
EndGrant(i) ==
    /\ phase[i] = "open"
    /\ holder[i] # NoHolder
    /\ holder' = [holder EXCEPT ![i] = NoHolder]
    /\ \/ UNCHANGED phase
       \/ phase' = [phase EXCEPT ![i] = "closed"]
    /\ UNCHANGED <<token, answer>>

\* The consumer gives up on an open item; a published answer is dropped.
Cancel(i) ==
    /\ phase[i] = "open"
    /\ phase' = [phase EXCEPT ![i] = "closed"]
    /\ holder' = [holder EXCEPT ![i] = NoHolder]
    /\ answer' = [answer EXCEPT ![i] = NoAnswer]
    /\ UNCHANGED token

\* The capacity requeue reopens a closed item, for the next grant.
Reopen(i) ==
    /\ phase[i] = "closed"
    /\ phase' = [phase EXCEPT ![i] = "open"]
    /\ UNCHANGED <<token, holder, answer>>

Discard(S) ==
    /\ \A i \in S : phase[i] = "closed"
    /\ phase' = [i \in Items |-> IF i \in S THEN "gone" ELSE phase[i]]
    /\ token' = [i \in Items |-> IF i \in S THEN 0 ELSE token[i]]
    /\ holder' = [i \in Items |-> IF i \in S THEN NoHolder ELSE holder[i]]
    /\ answer' = [i \in Items |-> IF i \in S THEN NoAnswer ELSE answer[i]]

LeaseNext ==
    \/ \E i \in Items : Enqueue(i) \/ Publish(i) \/ EndGrant(i) \/ Cancel(i) \/ Reopen(i)
    \/ \E i \in Items, h \in Holders : GrantTo(i, h)
    \/ \E S \in SUBSET Items : Discard(S)

LeaseSpec == LeaseInit /\ [][LeaseNext]_leaseVars
=============================================================================
