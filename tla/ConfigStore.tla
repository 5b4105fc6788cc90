----------------------------- MODULE ConfigStore -----------------------------
(***************************************************************************)
(* What a provisioning sketch promises about its stored configuration,     *)
(* with no handler, no key-by-key write and no radio in sight:             *)
(*                                                                         *)
(*   - the store changes in one step, from one whole configuration to the  *)
(*     configuration that was asked for (cut to the size of the buffers);  *)
(*   - a client is told "updated" only once its configuration is stored,   *)
(*     and from then on the store keeps it until another request or the    *)
(*     reset button replaces it, whatever power failures there are;        *)
(*   - only a power failure during an update can leave a mixture of the    *)
(*     old configuration and the new one.                                  *)
(***************************************************************************)
EXTENDS DeviceConfig

VARIABLES
  stored,    \* the contents of the store
  asked,     \* the configuration an update in progress was asked for, or None
  promised,  \* the configuration the last "updated" reply was about, or None
  outages    \* power failures so far

storeVars == << stored, asked, promised, outages >>

Init ==
  /\ IsStore(stored)
  /\ asked = None
  /\ promised = None
  /\ outages = 0

\* A request to change the configuration is accepted.
Ask ==
  /\ asked = None
  /\ asked' # None /\ IsConfig(asked')
  /\ promised' = None
  /\ UNCHANGED << stored, outages >>

\* The configuration asked for becomes the stored one, all keys at once.
Commit ==
  /\ asked # None
  /\ stored' = Fitted(asked)
  /\ UNCHANGED << asked, promised, outages >>

\* The client is told that the configuration it asked for is in force.
Promise ==
  /\ asked # None
  /\ stored = Fitted(asked)
  /\ promised' = asked
  /\ UNCHANGED << stored, asked, outages >>

\* The device restarts to use the stored configuration.
Finish ==
  /\ asked # None
  /\ stored = Fitted(asked)
  /\ asked' = None
  /\ UNCHANGED << stored, promised, outages >>

\* The reset button empties the store.
Erase ==
  /\ asked = None
  /\ stored' = EmptyStore
  /\ promised' = None
  /\ UNCHANGED << asked, outages >>

\* Power fails; an update in progress may be left half done.
Outage ==
  /\ outages' = outages + 1
  /\ asked' = None
  /\ \/ stored' = stored
     \/ /\ asked # None
        /\ stored' = [k \in Keys |-> stored'[k]]
        /\ \A k \in Keys : stored'[k] \in {stored[k], Fitted(asked)[k]}
  /\ UNCHANGED promised

Next == Ask \/ Commit \/ Promise \/ Finish \/ Erase \/ Outage

Spec == Init /\ [][Next]_storeVars

\* What was promised is what is stored, but for what did not fit.
PromiseKept == promised # None => stored = Fitted(promised)
=============================================================================
