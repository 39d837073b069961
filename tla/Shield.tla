------------------------------- MODULE Shield -------------------------------
(***************************************************************************)
(* The whole Silent Evidence Shield: the detector of ShieldMonitor and what *)
(* an emergency sends.  _activateEmergencyMode alerts the contacts one by   *)
(* one or queues their alerts while offline, _flushPendingAlerts sends the  *)
(* queue when connectivity returns, resolveJourney tells the contacts that  *)
(* the user is safe.  An action of the detector that touches none of this   *)
(* is taken over as it is.                                                  *)
(***************************************************************************)
EXTENDS ShieldMonitor

CONSTANTS
    Contacts,        \* phone numbers of the emergency contacts
    MaxEmergencies   \* bound: how many emergencies a behaviour activates

ASSUME EmergenciesAssumption == MaxEmergencies \in Nat \ {0}

Emergencies == 1..MaxEmergencies

\* One emergency's SMS and voice call to one contact.
Alert == [em : Emergencies, to : Contacts]

VARIABLES
    emergency,  \* number of the latest emergency (0 before the first)
    activation, \* where each _activateEmergencyMode call is
    contacts,   \* its contacts list, duplicates removed
    processed,  \* its processedPhones
    sending,    \* alerts whose Twilio calls are awaited by an activation
    pending,    \* _pendingAlerts
    outbox,     \* toSend of the flushes under way, less what they have sent
    delivered,  \* alerts whose SMS went out
    failed,     \* alerts that were tried and did not go out
    safe,       \* contacts each resolveJourney has still to tell
    told,       \* statusStr, the risk each emergency's messages name
    cause       \* history: the risk that became the emergency, "none" once
                \* the user has gone on before the messages were written

reasonVars == <<told, cause>>
alertVars == <<emergency, activation, contacts, processed, sending, pending,
               outbox, delivered, failed, safe, reasonVars>>
shieldVars == <<vars, alertVars>>

AlertTypeOK ==
    /\ emergency \in 0..MaxEmergencies
    /\ activation \in [Emergencies -> {"none", "contacts", "loop", "done"}]
    /\ contacts \in [Emergencies -> SUBSET Contacts]
    /\ processed \in [Emergencies -> SUBSET Contacts]
    /\ sending \subseteq Alert
    /\ pending \subseteq Alert
    /\ outbox \subseteq Alert
    /\ delivered \subseteq Alert
    /\ failed \subseteq Alert
    /\ safe \in [Emergencies -> SUBSET Contacts]
    /\ told \in [Emergencies -> Risks \cup {"none"}]
    /\ cause \in [Emergencies -> Risks \cup {"none"}]

ShieldInit ==
    /\ Init
    /\ emergency = 0
    /\ activation = [e \in Emergencies |-> "none"]
    /\ contacts = [e \in Emergencies |-> {}]
    /\ processed = [e \in Emergencies |-> {}]
    /\ sending = {} /\ pending = {} /\ outbox = {}
    /\ delivered = {} /\ failed = {}
    /\ safe = [e \in Emergencies |-> {}]
    /\ told = [e \in Emergencies |-> "none"]
    /\ cause = [e \in Emergencies |-> "none"]

-----------------------------------------------------------------------------
(* _activateEmergencyMode.  Twilio's sendSMS and makeVoiceCall report a      *)
(* failure by returning FALSE, they never throw; nobody looks at the result. *)

Activate ==
    /\ emergency < MaxEmergencies
    /\ CountdownExpires
    /\ emergency' = emergency + 1
    /\ activation' = [activation EXCEPT ![emergency + 1] = "contacts"]
    /\ cause' = [cause EXCEPT ![emergency + 1] = risk]
    /\ UNCHANGED <<contacts, processed, sending, pending, outbox, delivered,
                   failed, safe, told>>

\* The risk that the messages name, as it is after the awaits.
RiskNamed == IF risk = "none" THEN "Route Deviation" ELSE risk

\* The contacts arrive; a failed read counts as an empty list.  The messages
\* are written.
ActivationContacts(e) ==
    /\ activation[e] = "contacts"
    /\ told' = [told EXCEPT ![e] = RiskNamed]
    /\ \E list \in {{}, Contacts} : contacts' = [contacts EXCEPT ![e] = list]
    /\ activation' = [activation EXCEPT ![e] = "loop"]
    /\ UNCHANGED <<vars, emergency, processed, sending, pending, outbox,
                   delivered, failed, safe, cause>>

Unprocessed(e) == contacts[e] \ processed[e]
AlertsTo(e, phones) == [em : {e}, to : phones]

\* The loop over the contacts: online it calls Twilio for the next one and
\* awaits the answer, offline it queues all that are left without a pause.
AlertNext(e) ==
    /\ activation[e] = "loop"
    /\ sending \cap AlertsTo(e, Contacts) = {}
    /\ Unprocessed(e) # {}
    /\ IF hasConn
       THEN \E phone \in Unprocessed(e) :
                /\ processed' = [processed EXCEPT ![e] = @ \cup {phone}]
                /\ sending' = sending \cup AlertsTo(e, {phone})
                /\ UNCHANGED pending
       ELSE /\ processed' = [processed EXCEPT ![e] = @ \cup contacts[e]]
            /\ pending' = pending \cup AlertsTo(e, Unprocessed(e))
            /\ UNCHANGED sending
    /\ UNCHANGED <<vars, emergency, activation, contacts, outbox, delivered,
                   failed, safe, reasonVars>>

AlertAnswered(a, ok) ==
    /\ a \in sending
    /\ sending' = sending \ {a}
    /\ delivered' = IF ok THEN delivered \cup {a} ELSE delivered
    /\ failed' = IF ok THEN failed ELSE failed \cup {a}
    /\ UNCHANGED <<vars, emergency, activation, contacts, processed, pending,
                   outbox, safe, reasonVars>>

\* Mutant: the loop is left before its end.
ActivationEndsEarly(e) ==
    /\ activation[e] = "loop"
    /\ sending \cap AlertsTo(e, Contacts) = {}
    /\ activation' = [activation EXCEPT ![e] = "done"]
    /\ UNCHANGED <<vars, emergency, contacts, processed, sending, pending,
                   outbox, delivered, failed, safe, reasonVars>>

ActivationEnds(e) ==
    /\ activation[e] = "loop"
    /\ sending \cap AlertsTo(e, Contacts) = {}
    /\ Unprocessed(e) = {}
    /\ activation' = [activation EXCEPT ![e] = "done"]
    /\ UNCHANGED <<vars, emergency, contacts, processed, sending, pending,
                   outbox, delivered, failed, safe, reasonVars>>

-----------------------------------------------------------------------------
(* _flushPendingAlerts                                                      *)

\* Mutant: the queue is copied, not cleared.
ConnectedKeepingQueue ==
    /\ NetworkUp
    /\ outbox' = IF Reconnects THEN outbox \cup pending ELSE outbox
    /\ UNCHANGED <<emergency, activation, contacts, processed, sending, pending,
                   delivered, failed, safe, reasonVars>>

\* Mutant: connectivity returns without a flush.
ConnectedWithoutFlush ==
    /\ NetworkUp
    /\ UNCHANGED alertVars

\* The connectivity event that finds the shield offline copies and clears the
\* queue before the first await.
Connected ==
    /\ NetworkUp
    /\ outbox' = IF Reconnects THEN outbox \cup pending ELSE outbox
    /\ pending' = IF Reconnects THEN {} ELSE pending
    /\ UNCHANGED <<emergency, activation, contacts, processed, sending,
                   delivered, failed, safe, reasonVars>>

\* Mutant: what fails is queued again, but only as a phone number.
FlushAnsweredQueueingPhone(a, ok) ==
    /\ a \in outbox
    /\ outbox' = outbox \ {a}
    /\ delivered' = IF ok THEN delivered \cup {a} ELSE delivered
    /\ pending' = IF ok THEN pending ELSE pending \cup {a.to}
    /\ UNCHANGED <<vars, emergency, activation, contacts, processed, sending,
                   failed, safe, reasonVars>>

\* Mutant: the flush waits when connectivity is lost again.
FlushAnsweredOnline(a, ok) ==
    /\ a \in outbox
    /\ hasConn
    /\ outbox' = outbox \ {a}
    /\ delivered' = IF ok THEN delivered \cup {a} ELSE delivered
    /\ failed' = IF ok THEN failed ELSE failed \cup {a}
    /\ UNCHANGED <<vars, emergency, activation, contacts, processed, sending,
                   pending, safe, reasonVars>>

\* As no exception ever comes, the branch that queues again is dead.
FlushAnswered(a, ok) ==
    /\ a \in outbox
    /\ outbox' = outbox \ {a}
    /\ delivered' = IF ok THEN delivered \cup {a} ELSE delivered
    /\ failed' = IF ok THEN failed ELSE failed \cup {a}
    /\ UNCHANGED <<vars, emergency, activation, contacts, processed, sending,
                   pending, safe, reasonVars>>

-----------------------------------------------------------------------------
(* resolveJourney                                                           *)

\* Out of an emergency the contacts are read again, and each is told; the
\* queue and an activation under way are left as they are.
Resolve ==
    /\ ResolveJourney
    /\ \E list \in IF status = "emergencyActive" THEN {{}, Contacts} ELSE {{}} :
           safe' = IF list = {} THEN safe ELSE [safe EXCEPT ![emergency] = list]
    /\ UNCHANGED <<emergency, activation, contacts, processed, sending,
                   pending, outbox, delivered, failed, reasonVars>>

TellSafe(e, phone) ==
    /\ phone \in safe[e]
    /\ safe' = [safe EXCEPT ![e] = @ \ {phone}]
    /\ UNCHANGED <<vars, emergency, activation, contacts, processed, sending,
                   pending, outbox, delivered, failed, reasonVars>>

-----------------------------------------------------------------------------
\* A confirmation or the start of another trip clears the risk, also while an
\* activation waits for its contacts.
GoOn ==
    /\ ConfirmSafety \/ StartJourney
    /\ cause' = [e \in Emergencies |->
                    IF activation[e] = "contacts" THEN "none" ELSE cause[e]]
    /\ UNCHANGED <<emergency, activation, contacts, processed, sending, pending,
                   outbox, delivered, failed, safe, told>>

\* The detector's other actions leave alerting alone.
Detect ==
    /\ \/ \E j \in Journeys : StartGps(j) \/ StartSynced(j)
       \/ \E j \in Journeys : Geocode(j) \/ FetchPolyline(j)
       \/ CheckConnectivity \/ NetworkDown \/ DeadlinePasses
       \/ TickStart \/ TickFix \/ TickProbe
       \/ CountdownTick
       \/ Rebuild \/ LeaveDashboard \/ ReturnToDashboard
    /\ UNCHANGED alertVars

AlertStep(e) == ActivationContacts(e) \/ AlertNext(e) \/ ActivationEnds(e)

ShieldNext ==
    \/ Detect \/ GoOn
    \/ Activate \/ Connected \/ Resolve
    \/ \E e \in Emergencies : AlertStep(e)
    \/ \E a \in Alert, ok \in BOOLEAN : AlertAnswered(a, ok)
    \/ \E a \in Alert, ok \in BOOLEAN : FlushAnswered(a, ok)
    \/ \E e \in Emergencies, phone \in Contacts : TellSafe(e, phone)

ShieldSpec == ShieldInit /\ [][ShieldNext]_shieldVars

\* Twilio's HTTP calls and the platform's SMS calls return in the end.
ShieldFairness ==
    /\ \A e \in Emergencies : WF_shieldVars(AlertStep(e))
    /\ \A a \in Alert :
           /\ WF_shieldVars(\E ok \in BOOLEAN : AlertAnswered(a, ok))
           /\ WF_shieldVars(\E ok \in BOOLEAN : FlushAnswered(a, ok))

FairShieldSpec == ShieldSpec /\ ShieldFairness

-----------------------------------------------------------------------------
(* Properties                                                               *)

\* Every contact an activation has dealt with has that emergency's alert in
\* exactly one place, and no other contact has it anywhere: no alert is
\* dropped on the way between loop, queue and flush, and none is sent twice.
AlertAccounted ==
    /\ sending \cup pending \cup outbox \cup delivered \cup failed
         = {a \in Alert : a.to \in processed[a.em]}
    /\ sending \cap (pending \cup outbox \cup delivered \cup failed) = {}
    /\ pending \cap (outbox \cup delivered \cup failed) = {}
    /\ outbox \cap (delivered \cup failed) = {}
    /\ delivered \cap failed = {}

\* Alerts wait in the queue only while the shield believes it is offline, so
\* that the next connectivity event is bound to flush them.  The one step that
\* breaks this is the start of another trip, which assumes connectivity.
QueuedOnlyOffline ==
    [][pending' # {} /\ hasConn'
         => (pending # {} /\ hasConn) \/ journey' # journey]_shieldVars

\* The messages of an emergency name the risk that led to it, although
\* _activeRiskType is read only after three awaits: no callback in flight and
\* no end of the trip changes it meanwhile, only the user's going on does.
ContactsToldTheRisk ==
    \A e \in Emergencies :
        activation[e] \in {"loop", "done"} /\ cause[e] # "none"
            => told[e] = cause[e]

\* Comment in _flushPendingAlerts: "Re-queue if still failing", and at the
\* loop of _activateEmergencyMode: "try Twilio; if no internet, queue it".
UndeliveredStaysQueued ==
    [][\A a \in sending \cup outbox :
           a \in (sending' \cup outbox' \cup delivered' \cup pending')]_shieldVars

\* An activation works through its whole list whatever happens meanwhile: no
\* contact stays untouched, and every alert handed to Twilio or to a flush
\* comes to an end.
DispatchCompletes ==
    \A e \in Emergencies :
        activation[e] = "contacts" ~>
            /\ activation[e] = "done"
            /\ contacts[e] = processed[e]

FlushCompletes == \A a \in Alert : a \in outbox ~> a \notin outbox

=============================================================================
