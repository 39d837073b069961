---------------------------- MODULE Shield_proofs ----------------------------
(***************************************************************************)
(* The shield with its alerts implements the detector on its own, and no    *)
(* alert is lost or doubled on its way, for every set of contacts.          *)
(***************************************************************************)
EXTENDS Shield, ShieldMonitor_proofs

\* Every behaviour of the whole shield is one of the detector: alerting never
\* changes the detector's state, so what is proved of ShieldMonitor holds of
\* the program with its dispatch, queue and flush running beside it.
THEOREM ShieldImplementsMonitor == ShieldSpec => Spec
<1>1. ShieldInit => Init
  BY DEF ShieldInit
<1>2. [ShieldNext]_shieldVars => [Next]_vars
  <2> SUFFICES ASSUME [ShieldNext]_shieldVars PROVE [Next]_vars
    OBVIOUS
  <2>1. CASE Detect \/ GoOn
    BY <2>1 DEF Detect, GoOn, Next
  <2>2. CASE Activate \/ Connected \/ Resolve
    BY <2>2 DEF Activate, Connected, Resolve, Next
  <2>3. ASSUME NEW e \in Emergencies, AlertStep(e) PROVE UNCHANGED vars
    BY <2>3 DEF AlertStep, ActivationContacts, AlertNext, ActivationEnds
  <2>4. ASSUME NEW a \in Alert, NEW ok \in BOOLEAN,
               AlertAnswered(a, ok) \/ FlushAnswered(a, ok)
        PROVE  UNCHANGED vars
    BY <2>4 DEF AlertAnswered, FlushAnswered
  <2>5. ASSUME NEW e \in Emergencies, NEW phone \in Contacts, TellSafe(e, phone)
        PROVE  UNCHANGED vars
    BY <2>5 DEF TellSafe
  <2>6. CASE UNCHANGED shieldVars
    BY <2>6 DEF shieldVars
  <2> QED
    BY <2>1, <2>2, <2>3, <2>4, <2>5, <2>6 DEF ShieldNext
<1> QED
  BY <1>1, <1>2, PTL DEF ShieldSpec, Spec

-----------------------------------------------------------------------------
\* The sets of alerts and the per-emergency records keep their types.
AlertSetsOK ==
    /\ contacts \in [Emergencies -> SUBSET Contacts]
    /\ processed \in [Emergencies -> SUBSET Contacts]
    /\ sending \subseteq Alert
    /\ pending \subseteq Alert
    /\ outbox \subseteq Alert

\* The alerts to some of the contacts are alerts.
LEMMA AlertsToType ==
    ASSUME NEW e \in Emergencies, NEW P \in SUBSET Contacts
    PROVE  AlertsTo(e, P) \subseteq Alert
  BY DEF AlertsTo, Alert

\* No step of the shield disturbs those types.
LEMMA AlertSetsInductive == AlertSetsOK /\ [ShieldNext]_shieldVars => AlertSetsOK'
<1> SUFFICES ASSUME AlertSetsOK, [ShieldNext]_shieldVars PROVE AlertSetsOK'
  OBVIOUS
<1> USE DEF AlertSetsOK
<1>1. CASE Detect \/ GoOn \/ Activate \/ Resolve
  BY <1>1 DEF Detect, GoOn, Activate, Resolve, alertVars
<1>2. CASE Connected
  BY <1>2 DEF Connected
<1>3. ASSUME NEW e \in Emergencies, ActivationContacts(e) PROVE AlertSetsOK'
  BY <1>3 DEF ActivationContacts
<1>4. ASSUME NEW e \in Emergencies, AlertNext(e) PROVE AlertSetsOK'
  <2>1. Unprocessed(e) \in SUBSET Contacts
    BY DEF Unprocessed
  <2>2. CASE hasConn
    <3>1. PICK phone \in Unprocessed(e) :
              /\ processed' = [processed EXCEPT ![e] = @ \cup {phone}]
              /\ sending' = sending \cup AlertsTo(e, {phone})
              /\ UNCHANGED <<pending, contacts, outbox>>
      BY <1>4, <2>2 DEF AlertNext
    <3>2. {phone} \in SUBSET Contacts
      BY <2>1
    <3> QED BY <3>1, <3>2, AlertsToType
  <2>3. CASE ~hasConn
    <3>1. /\ processed' = [processed EXCEPT ![e] = @ \cup contacts[e]]
          /\ pending' = pending \cup AlertsTo(e, Unprocessed(e))
          /\ UNCHANGED <<sending, contacts, outbox>>
      BY <1>4, <2>3 DEF AlertNext
    <3> QED BY <2>1, <3>1, AlertsToType
  <2> QED BY <2>2, <2>3
<1>5. ASSUME NEW e \in Emergencies, ActivationEnds(e) PROVE AlertSetsOK'
  BY <1>5 DEF ActivationEnds
<1>6. ASSUME NEW a \in Alert, NEW ok \in BOOLEAN,
             AlertAnswered(a, ok) \/ FlushAnswered(a, ok)
      PROVE  AlertSetsOK'
  BY <1>6 DEF AlertAnswered, FlushAnswered
<1>7. ASSUME NEW e \in Emergencies, NEW phone \in Contacts, TellSafe(e, phone)
      PROVE  AlertSetsOK'
  BY <1>7 DEF TellSafe
<1>8. CASE UNCHANGED shieldVars
  BY <1>8 DEF shieldVars, alertVars
<1> QED
  BY <1>1, <1>2, <1>3, <1>4, <1>5, <1>6, <1>7, <1>8 DEF ShieldNext, AlertStep

-----------------------------------------------------------------------------
\* The alerts of the contacts an activation is done with.
Handled == {a \in Alert : a.to \in processed[a.em]}

\* Marking more contacts of one emergency adds exactly their alerts.
LEMMA HandledGrows ==
    ASSUME AlertSetsOK, NEW e \in Emergencies, NEW P \in SUBSET Contacts,
           processed' = [processed EXCEPT ![e] = @ \cup P]
    PROVE  Handled' = Handled \cup AlertsTo(e, P)
<1>1. ASSUME NEW a \in Alert
      PROVE  a \in Handled' <=> a \in Handled \/ a \in AlertsTo(e, P)
  <2>1. a.em \in Emergencies /\ a.to \in Contacts
    BY DEF Alert
  <2>2. a \in AlertsTo(e, P) <=> a.em = e /\ a.to \in P
    BY DEF Alert, AlertsTo
  <2>3. processed'[a.em] = IF a.em = e THEN processed[e] \cup P
                                       ELSE processed[a.em]
    BY <2>1 DEF AlertSetsOK
  <2> QED BY <2>1, <2>2, <2>3 DEF Handled
<1>2. Handled' \subseteq Alert /\ Handled \subseteq Alert
  BY DEF Handled
<1>3. AlertsTo(e, P) \subseteq Alert
  BY AlertsToType
<1> QED
  BY <1>1, <1>2, <1>3

\* Every alert of a contact dealt with is in exactly one place, and so it is
\* tried at most once, however loop, connectivity events, flushes and the end
\* of the trip interleave.
THEOREM AlertsAlwaysAccounted == ShieldSpec => []AlertAccounted
<1> USE DEF AlertAccounted
<1>1. ShieldInit => AlertSetsOK /\ AlertAccounted
  <2> SUFFICES ASSUME ShieldInit PROVE AlertSetsOK /\ AlertAccounted
    OBVIOUS
  <2>1. AlertSetsOK
    BY DEF ShieldInit, AlertSetsOK
  <2>2. ASSUME NEW a \in Alert PROVE a.to \notin processed[a.em]
    BY DEF ShieldInit, Alert
  <2> QED BY <2>1, <2>2 DEF ShieldInit
<1>2. AlertSetsOK /\ AlertAccounted /\ [ShieldNext]_shieldVars => AlertAccounted'
  <2> SUFFICES ASSUME AlertSetsOK, AlertAccounted, [ShieldNext]_shieldVars
               PROVE  AlertAccounted'
    OBVIOUS
  <2>1. CASE Detect \/ GoOn \/ Activate \/ Resolve
    BY <2>1 DEF Detect, GoOn, Activate, Resolve, alertVars
  <2>2. CASE Connected
    BY <2>2 DEF Connected
  <2>3. ASSUME NEW e \in Emergencies, ActivationContacts(e) \/ ActivationEnds(e)
        PROVE  AlertAccounted'
    BY <2>3 DEF ActivationContacts, ActivationEnds
  <2>4. ASSUME NEW e \in Emergencies, AlertNext(e) PROVE AlertAccounted'
    <3>1. Unprocessed(e) \in SUBSET Contacts
      BY DEF Unprocessed, AlertSetsOK
    <3>2. ASSUME NEW P \in SUBSET Unprocessed(e)
          PROVE  AlertsTo(e, P) \cap Handled = {}
      BY DEF AlertsTo, Handled, Unprocessed
    <3>3. CASE hasConn
      <4>1. PICK phone \in Unprocessed(e) :
                /\ processed' = [processed EXCEPT ![e] = @ \cup {phone}]
                /\ sending' = sending \cup AlertsTo(e, {phone})
                /\ UNCHANGED <<pending, outbox, delivered, failed>>
        BY <2>4, <3>3 DEF AlertNext
      <4>2. Handled' = Handled \cup AlertsTo(e, {phone})
        <5>1. {phone} \in SUBSET Contacts
          BY <3>1, <4>1
        <5> QED BY <4>1, <5>1, HandledGrows
      <4>3. AlertsTo(e, {phone}) \cap Handled = {}
        BY <3>2
      <4> QED BY <4>1, <4>2, <4>3 DEF Handled
    <3>4. CASE ~hasConn
      <4>1. /\ processed' = [processed EXCEPT ![e] = @ \cup contacts[e]]
            /\ pending' = pending \cup AlertsTo(e, Unprocessed(e))
            /\ UNCHANGED <<sending, outbox, delivered, failed>>
        BY <2>4, <3>4 DEF AlertNext
      <4>2. processed' = [processed EXCEPT ![e] = @ \cup Unprocessed(e)]
        BY <4>1 DEF Unprocessed, AlertSetsOK
      <4>3. Handled' = Handled \cup AlertsTo(e, Unprocessed(e))
        BY <3>1, <4>2, HandledGrows
      <4>4. AlertsTo(e, Unprocessed(e)) \cap Handled = {}
        BY <3>2
      <4> QED BY <4>1, <4>3, <4>4 DEF Handled
    <3> QED BY <3>3, <3>4
  <2>5. ASSUME NEW a \in Alert, NEW ok \in BOOLEAN,
               AlertAnswered(a, ok) \/ FlushAnswered(a, ok)
        PROVE  AlertAccounted'
    BY <2>5 DEF AlertAnswered, FlushAnswered
  <2>6. ASSUME NEW e \in Emergencies, NEW phone \in Contacts, TellSafe(e, phone)
        PROVE  AlertAccounted'
    BY <2>6 DEF TellSafe
  <2>7. CASE UNCHANGED shieldVars
    BY <2>7 DEF shieldVars, alertVars
  <2> QED
    BY <2>1, <2>2, <2>3, <2>4, <2>5, <2>6, <2>7 DEF ShieldNext, AlertStep
<1> QED
  BY <1>1, <1>2, AlertSetsInductive, PTL DEF ShieldSpec

-----------------------------------------------------------------------------
\* A detector's action that turns the belief "offline" into "online" is the
\* start of a trip: neither the callback nor the initial check ever does.
LEMMA DetectKeepsOffline ==
    ASSUME journey \in Nat, Detect \/ GoOn, hasConn' = TRUE, hasConn = FALSE
    PROVE  journey' # journey
<1>1. CASE StartJourney
  BY <1>1 DEF StartJourney
<1>2. ASSUME NEW j \in Journeys,
             StartGps(j) \/ StartSynced(j) \/ Geocode(j) \/ FetchPolyline(j)
      PROVE  UNCHANGED hasConn
  BY <1>2 DEF StartGps, StartSynced, Geocode, FetchPolyline, netVars
<1>3. CASE NetworkDown \/ DeadlinePasses \/ TickStart \/ CountdownTick
             \/ ConfirmSafety \/ Rebuild \/ LeaveDashboard \/ ReturnToDashboard
  BY <1>3 DEF NetworkDown, DeadlinePasses, TickStart, CountdownTick,
     ConfirmSafety, Rebuild, LeaveDashboard, ReturnToDashboard,
     netVars
<1>4. CASE CheckConnectivity
  BY <1>4 DEF CheckConnectivity
<1>5. CASE TickFix
  BY <1>5 DEF TickFix
<1>6. CASE TickProbe
  BY <1>6 DEF TickProbe
<1> QED
  BY <1>1, <1>2, <1>3, <1>4, <1>5, <1>6 DEF Detect, GoOn

\* The alert queue is never left waiting by a shield that believes it is
\* online, except when a new trip starts over an unsent queue.
THEOREM QueueWaitsForConnection == ShieldSpec => QueuedOnlyOffline
<1> DEFINE Kept == pending' # {} /\ hasConn' = TRUE
                     => (pending # {} /\ hasConn = TRUE) \/ journey' # journey
<1>1. TypeOK /\ [ShieldNext]_shieldVars => Kept
  <2> SUFFICES ASSUME TypeOK, [ShieldNext]_shieldVars PROVE Kept
    OBVIOUS
  <2>1. hasConn \in BOOLEAN /\ journey \in Nat
    BY DEF TypeOK, FlagsOK, DataOK
  <2>2. CASE Detect \/ GoOn
    BY <2>1, <2>2, DetectKeepsOffline DEF Detect, GoOn, alertVars
  <2>3. CASE Connected
    BY <2>1, <2>3 DEF Connected, NetworkUp, Reconnects
  <2>4. CASE Activate \/ Resolve
    BY <2>1, <2>4 DEF Activate, Resolve, CountdownExpires, ResolveJourney, netVars
  <2>5. ASSUME NEW e \in Emergencies, AlertStep(e) PROVE Kept
    <3>1. UNCHANGED hasConn /\ (hasConn = TRUE => UNCHANGED pending)
      BY <2>5 DEF AlertStep, ActivationContacts, AlertNext, ActivationEnds, vars,
         netVars
    <3> QED BY <2>1, <3>1
  <2>6. ASSUME NEW a \in Alert, NEW ok \in BOOLEAN,
               AlertAnswered(a, ok) \/ FlushAnswered(a, ok)
        PROVE  Kept
    BY <2>1, <2>6 DEF AlertAnswered, FlushAnswered, vars, netVars
  <2>7. ASSUME NEW e \in Emergencies, NEW phone \in Contacts, TellSafe(e, phone)
        PROVE  Kept
    BY <2>1, <2>7 DEF TellSafe, vars, netVars
  <2>8. CASE UNCHANGED shieldVars
    BY <2>1, <2>8 DEF shieldVars, vars, netVars, alertVars
  <2> QED
    BY <2>2, <2>3, <2>4, <2>5, <2>6, <2>7, <2>8 DEF ShieldNext
<1>2. TypeOK /\ TypeOK' /\ Kept
        => [pending' # {} /\ hasConn'
              => (pending # {} /\ hasConn) \/ journey' # journey]_shieldVars
  BY DEF TypeOK, FlagsOK
<1> QED
  BY <1>1, <1>2, ShieldImplementsMonitor, MonitorTypeCorrect, PTL
     DEF ShieldSpec, QueuedOnlyOffline

-----------------------------------------------------------------------------
\* What AlertSetsOK does not say of the types.
RecordsOK ==
    /\ emergency \in 0..MaxEmergencies
    /\ activation \in [Emergencies -> {"none", "contacts", "loop", "done"}]
    /\ delivered \subseteq Alert
    /\ failed \subseteq Alert
    /\ safe \in [Emergencies -> SUBSET Contacts]
    /\ told \in [Emergencies -> Risks \cup {"none"}]
    /\ cause \in [Emergencies -> Risks \cup {"none"}]

\* The records keep their types.
LEMMA RecordsInductive ==
    TypeOK /\ AlertSetsOK /\ RecordsOK /\ [ShieldNext]_shieldVars
        => RecordsOK'
<1> SUFFICES ASSUME TypeOK, AlertSetsOK, RecordsOK, [ShieldNext]_shieldVars
             PROVE  RecordsOK'
  OBVIOUS
<1> USE EmergenciesAssumption DEF RecordsOK, Emergencies
<1>1. CASE Detect
  BY <1>1 DEF Detect, alertVars, reasonVars
<1>2. CASE GoOn
  BY <1>2 DEF GoOn
<1>3. CASE Activate
  <2>1. risk \in Risks \cup {"none"}
    BY DEF TypeOK, DataOK
  <2> QED BY <1>3, <2>1 DEF Activate
<1>4. CASE Connected
  BY <1>4 DEF Connected, reasonVars
<1>5. CASE Resolve
  <2>1. ASSUME NEW list \in {{}, Contacts},
               safe' = IF list = {} THEN safe
                                    ELSE [safe EXCEPT ![emergency] = list]
        PROVE  safe' \in [Emergencies -> SUBSET Contacts]
    BY <2>1
  <2> QED BY <1>5, <2>1 DEF Resolve, reasonVars
<1>6. ASSUME NEW e \in Emergencies, AlertStep(e) PROVE RecordsOK'
  <2>1. RiskNamed \in Risks
    BY DEF RiskNamed, Risks, TypeOK, DataOK
  <2>2. CASE ActivationContacts(e)
    BY <2>1, <2>2 DEF ActivationContacts
  <2>3. CASE AlertNext(e) \/ ActivationEnds(e)
    BY <2>3 DEF AlertNext, ActivationEnds, reasonVars
  <2> QED BY <1>6, <2>2, <2>3 DEF AlertStep
<1>7. ASSUME NEW a \in Alert, NEW ok \in BOOLEAN,
             AlertAnswered(a, ok) \/ FlushAnswered(a, ok)
      PROVE  RecordsOK'
  BY <1>7 DEF AlertAnswered, FlushAnswered, reasonVars
<1>8. ASSUME NEW e \in Emergencies, NEW phone \in Contacts, TellSafe(e, phone)
      PROVE  RecordsOK'
  BY <1>8 DEF TellSafe, reasonVars
<1>9. CASE UNCHANGED shieldVars
  BY <1>9 DEF shieldVars, alertVars, reasonVars
<1> QED
  BY <1>1, <1>2, <1>3, <1>4, <1>5, <1>6, <1>7, <1>8, <1>9 DEF ShieldNext

\* The variables of Shield keep their types, for every set of contacts and any
\* number of emergencies.
THEOREM AlertsTypeCorrect == ShieldSpec => []AlertTypeOK
<1>1. ShieldInit => AlertSetsOK /\ RecordsOK
  BY EmergenciesAssumption
     DEF ShieldInit, Init, AlertSetsOK, RecordsOK
<1>2. AlertSetsOK /\ RecordsOK => AlertTypeOK
  BY DEF AlertSetsOK, RecordsOK, AlertTypeOK
<1> QED
  BY <1>1, <1>2, AlertSetsInductive, RecordsInductive, ShieldImplementsMonitor,
     MonitorTypeCorrect, PTL DEF ShieldSpec

-----------------------------------------------------------------------------
\* While an activation waits for its contacts, the risk stays what it was:
\* no callback replaces it, for none runs its rules in an emergency or after
\* the end of the trip.
CauseHeld ==
    \A e \in Emergencies :
        /\ activation[e] = "contacts" /\ cause[e] # "none"
               => risk = cause[e] /\ status \in {"emergencyActive", "inactive"}
        /\ activation[e] \in {"loop", "done"} /\ cause[e] # "none"
               => told[e] = cause[e]

\* The detector's own actions leave the risk alone outside a monitored trip.
LEMMA DetectKeepsRisk ==
    ASSUME Detect \/ Connected, status \in {"emergencyActive", "inactive"}
    PROVE  UNCHANGED <<risk, status>>
<1>1. ASSUME TickEnds PROVE UNCHANGED <<risk, status>>
  BY <1>1 DEF TickEnds, RiskRules, Stopped, Strayed, Late, Cut, Watching,
     Monitoring, checkVars
<1>2. CASE TickFix \/ TickProbe
  BY <1>1, <1>2 DEF TickFix, TickProbe, checkVars
<1>3. CASE Detect /\ ~TickFix /\ ~TickProbe
  BY <1>3 DEF Detect, StartGps, StartSynced, Geocode, FetchPolyline,
     CheckConnectivity, NetworkDown, DeadlinePasses, TickStart, CountdownTick,
     Rebuild, LeaveDashboard, ReturnToDashboard, checkVars
<1>4. CASE Connected
  BY <1>4 DEF Connected, NetworkUp, checkVars
<1> QED BY <1>2, <1>3, <1>4

\* Every step keeps the cause of an emergency until its messages name it.
LEMMA CauseInductive ==
    TypeOK /\ SafetyCheckConsistent /\ RecordsOK /\ CauseHeld
        /\ [ShieldNext]_shieldVars
        => CauseHeld'
<1> SUFFICES ASSUME TypeOK, SafetyCheckConsistent, RecordsOK, CauseHeld,
                    [ShieldNext]_shieldVars
             PROVE  CauseHeld'
  OBVIOUS
<1> USE DEF CauseHeld
<1>1. CASE Detect \/ Connected
  <2>1. UNCHANGED <<activation, cause, told>>
    BY <1>1 DEF Detect, Connected, alertVars, reasonVars
  <2> QED BY <1>1, <2>1, DetectKeepsRisk
<1>2. CASE GoOn
  BY <1>2 DEF GoOn
<1>3. CASE Activate
  <2>1. emergency + 1 \in Emergencies
    BY <1>3, EmergenciesAssumption DEF Activate, RecordsOK, Emergencies
  <2>2. status = "riskDetected"
    BY <1>3 DEF Activate, CountdownExpires, SafetyCheckConsistent
  <2>3. /\ activation' = [activation EXCEPT ![emergency + 1] = "contacts"]
        /\ cause' = [cause EXCEPT ![emergency + 1] = risk]
        /\ status' = "emergencyActive"
        /\ UNCHANGED <<risk, told>>
    BY <1>3 DEF Activate, CountdownExpires
  <2> QED BY <2>1, <2>2, <2>3 DEF RecordsOK
<1>4. CASE Resolve
  BY <1>4 DEF Resolve, ResolveJourney, reasonVars
<1>5. ASSUME NEW e \in Emergencies, ActivationContacts(e) PROVE CauseHeld'
  <2>1. /\ activation' = [activation EXCEPT ![e] = "loop"]
        /\ told' = [told EXCEPT ![e] = RiskNamed]
        /\ activation[e] = "contacts"
        /\ UNCHANGED <<risk, status, cause>>
    BY <1>5 DEF ActivationContacts, vars, checkVars
  <2>2. cause[e] # "none" => RiskNamed = cause[e]
    BY <2>1 DEF RiskNamed
  <2> QED BY <2>1, <2>2 DEF RecordsOK
<1>6. ASSUME NEW e \in Emergencies, AlertNext(e) PROVE CauseHeld'
  BY <1>6 DEF AlertNext, vars, checkVars, reasonVars
<1>7. ASSUME NEW e \in Emergencies, ActivationEnds(e) PROVE CauseHeld'
  <2>1. /\ activation' = [activation EXCEPT ![e] = "done"]
        /\ activation[e] = "loop"
        /\ UNCHANGED <<risk, status, cause, told>>
    BY <1>7 DEF ActivationEnds, vars, checkVars, reasonVars
  <2> QED BY <2>1 DEF RecordsOK
<1>8. ASSUME NEW a \in Alert, NEW ok \in BOOLEAN,
             AlertAnswered(a, ok) \/ FlushAnswered(a, ok)
      PROVE  CauseHeld'
  BY <1>8 DEF AlertAnswered, FlushAnswered, vars, checkVars, reasonVars
<1>9. ASSUME NEW e \in Emergencies, NEW phone \in Contacts, TellSafe(e, phone)
      PROVE  CauseHeld'
  BY <1>9 DEF TellSafe, vars, checkVars, reasonVars
<1>10. CASE UNCHANGED shieldVars
  BY <1>10 DEF shieldVars, vars, checkVars, alertVars, reasonVars
<1> QED
  BY <1>1, <1>2, <1>3, <1>4, <1>5, <1>6, <1>7, <1>8, <1>9, <1>10
     DEF ShieldNext, AlertStep

\* Whatever the messages of an emergency wait for, they name the risk that led
\* to it unless the user has gone on before they were written.
THEOREM ContactsAlwaysToldTheRisk == ShieldSpec => []ContactsToldTheRisk
<1>1. ShieldInit => AlertSetsOK /\ RecordsOK /\ CauseHeld
  BY EmergenciesAssumption
     DEF ShieldInit, Init, AlertSetsOK, RecordsOK, CauseHeld
<1>2. CauseHeld => ContactsToldTheRisk
  BY DEF CauseHeld, ContactsToldTheRisk
<1> QED
  BY <1>1, <1>2, CauseInductive, AlertSetsInductive, RecordsInductive,
     ShieldImplementsMonitor, MonitorTypeCorrect, SafetyCheckAlways, PTL
     DEF ShieldSpec

=============================================================================
