-------------------------- MODULE ConfigStoreProofs --------------------------
(***************************************************************************)
(* That ConfigStore keeps its promise, for every set of texts, buffer size *)
(* and configuration.  Modules that implement ConfigStore inherit it.      *)
(***************************************************************************)
EXTENDS ConfigStore, TLAPS

\* PromiseKept alone is not inductive: a second Commit, or an outage before
\* Finish, would break a promise that was not about the update in progress.
StoreInv ==
  /\ PromiseKept
  /\ promised # None /\ asked # None => promised = asked

LEMMA StoreInit == Init => StoreInv
BY DEF Init, StoreInv, PromiseKept

LEMMA StoreStep == StoreInv /\ [Next]_storeVars => StoreInv'
<1> SUFFICES ASSUME StoreInv, [Next]_storeVars PROVE StoreInv'
  OBVIOUS
<1> USE DEF StoreInv, PromiseKept
<1>1. CASE Ask
  BY <1>1 DEF Ask
<1>2. CASE Commit
  BY <1>2 DEF Commit
<1>3. CASE Promise
  BY <1>3 DEF Promise
<1>4. CASE Finish
  BY <1>4 DEF Finish
<1>5. CASE Erase
  BY <1>5 DEF Erase
<1>6. CASE Outage
  <2>1. CASE stored' = stored
    BY <1>6, <2>1 DEF Outage
  <2>2. CASE asked = None
    BY <1>6, <2>2 DEF Outage
  <2>3. CASE promised = None
    BY <1>6, <2>3 DEF Outage
  <2>4. ASSUME promised # None, asked # None, stored' # stored PROVE FALSE
    <3>1. stored = Fitted(asked)
      BY <2>4
    <3>2. \A k \in Keys : stored'[k] = Fitted(asked)[k]
      BY <1>6, <2>4, <3>1 DEF Outage
    <3>3. stored' = [k \in Keys |-> Fitted(asked)[k]]
      BY <1>6, <2>4, <3>2 DEF Outage
    <3>4. Fitted(asked) = [k \in Keys |-> Fitted(asked)[k]]
      BY DEF Fitted
    <3> QED
      BY <2>4, <3>1, <3>3, <3>4
  <2> QED
    BY <2>1, <2>2, <2>3, <2>4
<1>7. CASE UNCHANGED storeVars
  BY <1>7 DEF storeVars
<1> QED
  BY <1>1, <1>2, <1>3, <1>4, <1>5, <1>6, <1>7 DEF Next

\* A configuration that was promised stays stored through other clients'
\* failed updates, restarts and power failures, until a request replaces it.
THEOREM StoreKeepsPromise == Spec => []PromiseKept
<1>1. StoreInv => PromiseKept
  BY DEF StoreInv
<1> QED
  BY StoreInit, StoreStep, <1>1, PTL DEF Spec
=============================================================================
