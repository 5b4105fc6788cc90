------------------------ MODULE DeviceConfigTheorems ------------------------
(***************************************************************************)
(* What the operators of DeviceConfig return, for every set of texts,      *)
(* buffer size and set of ports.                                           *)
(***************************************************************************)
EXTENDS DeviceConfig, Sequences, TLAPS

\* A buffer holds a text or a number of the same key.
LEMMA FitType == ASSUME NEW k \in Keys, NEW v \in ValuesOf(k)
                 PROVE  Fit(k, v) \in ValuesOf(k)
BY ConfigAssumption DEF Fit, ValuesOf

\* Copying to the buffers twice is copying once.
LEMMA FitTwice == ASSUME NEW k \in Keys, NEW v \in ValuesOf(k)
                  PROVE  Fit(k, Fit(k, v)) = Fit(k, v)
BY ConfigAssumption DEF Fit, ValuesOf

\* A configuration cut to the buffers' size is a configuration.
LEMMA FittedType == ASSUME NEW c, IsConfig(c) PROVE IsConfig(Fitted(c))
BY FitType DEF IsConfig, Fitted

LEMMA AbsentIsNoValue == ASSUME NEW k \in Keys PROVE Absent \notin ValuesOf(k)
BY ConfigAssumption DEF ValuesOf

LEMMA NoneIsNoConfig == ASSUME NEW c, IsConfig(c) PROVE c # None
<1>1. \A k \in Keys : c[k] \in Strings \cup Int
  BY ConfigAssumption DEF IsConfig, ValuesOf
<1>2. c \in [Keys -> Strings \cup Int]
  BY <1>1 DEF IsConfig
<1> QED
  BY <1>2, ConfigAssumption

LEMMA ConfigIsStore == ASSUME NEW c, IsConfig(c) PROVE IsStore(c)
BY DEF IsConfig, IsStore

\* loadConfiguration() makes a configuration of whatever the store holds.
LEMMA LoadType == ASSUME NEW s, NEW d, IsStore(s), IsConfig(d)
                  PROVE  IsConfig(Load(s, d))
<1>1. ASSUME NEW k \in Keys PROVE Load(s, d)[k] \in ValuesOf(k)
  <2>1. CASE s[k] = Absent
    BY <2>1, FitType DEF Load, IsConfig
  <2>2. CASE s[k] # Absent
    BY <2>2, FitType DEF Load, IsStore
  <2> QED
    BY <2>1, <2>2
<1>2. Load(s, d) = [k \in Keys |-> Load(s, d)[k]]
  BY DEF Load
<1> QED
  BY <1>1, <1>2 DEF IsConfig

\* What was saved from the buffers is what the next boot loads into them.
LEMMA LoadSaved == ASSUME NEW c, NEW d, IsConfig(c)
                   PROVE  Load(Fitted(c), d) = Fitted(c)
<1>1. ASSUME NEW k \in Keys PROVE Load(Fitted(c), d)[k] = Fitted(c)[k]
  <2>1. c[k] \in ValuesOf(k)
    BY DEF IsConfig
  <2>2. Fitted(c)[k] = Fit(k, c[k])
    BY DEF Fitted
  <2>3. Fitted(c)[k] # Absent
    BY <2>1, <2>2, FitType, AbsentIsNoValue
  <2>4. Fit(k, Fitted(c)[k]) = Fitted(c)[k]
    BY <2>1, <2>2, FitTwice
  <2> QED
    BY <2>3, <2>4 DEF Load
<1> QED
  BY <1>1 DEF Load, Fitted

\* A document of the right shape asks for a configuration.
LEMMA RequestedType == ASSUME NEW c, NEW doc, IsConfig(c), IsDoc(doc), ~Panics(doc)
                       PROVE  IsConfig(Requested(c, doc))
<1>1. ASSUME NEW k \in Keys PROVE Requested(c, doc)[k] \in ValuesOf(k)
  <2>1. CASE k \notin DOMAIN doc
    BY <2>1 DEF Requested, IsConfig
  <2>2. CASE k \in DOMAIN doc /\ k = "mqtt_port"
    BY <2>2, ConfigAssumption DEF Requested, IsDoc, Number, ValuesOf
  <2>3. CASE k \in DOMAIN doc /\ k # "mqtt_port"
    BY <2>3 DEF Requested, IsDoc, Panics, TextKeys
  <2> QED
    BY <2>1, <2>2, <2>3
<1> QED
  BY <1>1 DEF IsConfig, Requested

\* The six writes of saveConfiguration() reach every key.
LEMMA SaveOrderKeys == /\ Len(SaveOrder) = 6
                       /\ \A i \in 1 .. 6 : SaveOrder[i] \in Keys
                       /\ \A k \in Keys : \E i \in 1 .. 6 : k = SaveOrder[i]
                       /\ \A i, j \in 1 .. 6 : SaveOrder[i] = SaveOrder[j] => i = j
<1>1. Len(SaveOrder) = 6
  BY DEF SaveOrder
<1>2. /\ SaveOrder[1] = "ssid"        /\ SaveOrder[2] = "password"
      /\ SaveOrder[3] = "mqtt_server" /\ SaveOrder[4] = "mqtt_username"
      /\ SaveOrder[5] = "mqtt_password" /\ SaveOrder[6] = "mqtt_port"
  BY DEF SaveOrder
<1>3. \A i \in 1 .. 6 : i = 1 \/ i = 2 \/ i = 3 \/ i = 4 \/ i = 5 \/ i = 6
  OBVIOUS
<1>4. 1 \in 1 .. 6 /\ 2 \in 1 .. 6 /\ 3 \in 1 .. 6 /\ 4 \in 1 .. 6 /\ 5 \in 1 .. 6 /\ 6 \in 1 .. 6
  OBVIOUS
<1>5. \A i \in 1 .. 6 : SaveOrder[i] \in Keys
  BY <1>2, <1>3 DEF Keys
<1>6. \A k \in Keys : \E i \in 1 .. 6 : k = SaveOrder[i]
  BY <1>2, <1>4 DEF Keys
<1>7. \A i, j \in 1 .. 6 : SaveOrder[i] = SaveOrder[j] => i = j
  BY <1>2, <1>3
<1> QED
  BY <1>1, <1>5, <1>6, <1>7
=============================================================================
