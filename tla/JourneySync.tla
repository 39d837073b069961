---------------------------- MODULE JourneySync ----------------------------
(***************************************************************************)
(* The trip's document in the collection silent_evidence_shields, which     *)
(* guardians watch: _syncJourneyToFirebase of                               *)
(* lib/silent_evidence_shield_service.dart and the steps that call it.  The *)
(* first write of a trip makes the document and learns its id from the      *)
(* answer; every later one updates the document of the id.  What raises a   *)
(* risk is left open (ShieldMonitor has the rules): here a timer callback   *)
(* on a monitored trip may raise one.  Documents are as the server shows    *)
(* them once it has all the writes made so far, which it takes in their     *)
(* order: the one the id names, those whose id is on its way, and those     *)
(* that no id names any more and nothing writes to again.                   *)
(***************************************************************************)
EXTENDS Naturals, Sequences

CONSTANTS
    MaxJourneys, \* bound: how many trips a behaviour starts
    MaxAdds,     \* bound: with so many answers out, the timer and the user wait
    MaxCalls     \* bound: emergencies whose messages are under way at a time

ASSUME BoundsAssumption ==
    /\ MaxJourneys \in Nat \ {0}
    /\ MaxAdds \in Nat \ {0}
    /\ MaxCalls \in Nat \ {0}

Journeys == 1..MaxJourneys

\* Mutant: the enumeration's own names are written.
StatusNameOfEnum ==
    [inactive |-> "inactive", monitoring |-> "monitoring",
     riskDetected |-> "riskDetected", emergencyActive |-> "emergencyActive"]

\* statusStr, the status as it is written
StatusName ==
    [inactive |-> "inactive", monitoring |-> "Monitoring",
     riskDetected |-> "Risk Detected", emergencyActive |-> "Emergency Active"]

Contents == [trip : Journeys,
             status : {"inactive", "Monitoring", "Risk Detected",
                       "Emergency Active"}]

NoDoc == [trip |-> 0, status |-> "none"]

VARIABLES
    status,       \* _status
    overlay,      \* the safety check is on the screen
    journey,      \* number of the latest trip, 0 before the first
    start,        \* where each startJourney call is
    journeyTimer, \* _journeyTimer is running
    tick,         \* a timer callback is at one of its awaits
    activations,  \* _activateEmergencyMode calls at their messages
    farewells,    \* resolveJourney calls at the messages that the user is safe
    current,      \* the document _firebaseJourneyId names, NoDoc for null
    adds,         \* documents whose add() is not answered yet, in order
    left,         \* the documents that no id names any more
    mishaps       \* history: what has gone wrong

screenVars == <<status, overlay>>
startVars == <<journey, start>>
callVars == <<journeyTimer, tick, activations, farewells>>
syncVars == <<current, adds, left>>
vars == <<screenVars, startVars, callVars, syncVars, mishaps>>

TypeOK ==
    /\ status \in DOMAIN StatusName
    /\ overlay \in BOOLEAN
    /\ journey \in 0..MaxJourneys
    /\ start \in [Journeys -> {"none", "gps", "sync", "done"}]
    /\ journeyTimer \in BOOLEAN
    /\ tick \in BOOLEAN
    /\ activations \in Nat
    /\ farewells \in Nat
    /\ current \in Contents \cup {NoDoc}
    /\ adds \in Seq([doc : Contents, starter : 0..MaxJourneys])
    /\ left \subseteq Contents
    /\ mishaps \subseteq {"haste", "refusal"}

Init ==
    /\ status = "inactive"
    /\ overlay = FALSE
    /\ journey = 0
    /\ start = [j \in Journeys |-> "none"]
    /\ journeyTimer = FALSE
    /\ tick = FALSE
    /\ activations = 0
    /\ farewells = 0
    /\ current = NoDoc
    /\ adds = <<>>
    /\ left = {}
    /\ mishaps = {}

-----------------------------------------------------------------------------
(* _syncJourneyToFirebase: status and destination are those of the moment.  *)

Content == [trip |-> journey, status |-> StatusName[status']]

\* Mutant: every write makes a document.
AddDocumentAlways(starter) ==
    /\ adds' = Append(adds, [doc |-> Content, starter |-> starter])
    /\ mishaps' = mishaps \cup (IF adds = <<>> THEN {} ELSE {"haste"})
    /\ UNCHANGED <<current, left>>

\* The first write of the trip: whoever makes it, nobody sees that another is
\* under way.  starter is the trip whose start waits for it, 0 for none.
AddDocument(starter) ==
    /\ current = NoDoc
    /\ adds' = Append(adds, [doc |-> Content, starter |-> starter])
    /\ mishaps' = mishaps \cup (IF adds = <<>> THEN {} ELSE {"haste"})
    /\ UNCHANGED <<current, left>>

\* An update is taken or refused; the error is caught and nothing is retried.
UpdateDocument ==
    /\ current # NoDoc
    /\ \/ current' = Content /\ UNCHANGED mishaps
       \/ mishaps' = mishaps \cup {"refusal"} /\ UNCHANGED current
    /\ UNCHANGED <<adds, left>>

Sync(starter) == AddDocument(starter) \/ UpdateDocument

\* The document the id names, when the id is about to name another or none.
Leave == left' = left \cup ({current} \ {NoDoc})

\* The answer to add(): the id, or an error, which leaves the id as it is.
AddAnswered ==
    /\ adds # <<>>
    /\ adds' = Tail(adds)
    /\ \/ current' = Head(adds).doc /\ Leave /\ UNCHANGED mishaps
       \/ mishaps' = mishaps \cup {"refusal"} /\ UNCHANGED <<current, left>>
    /\ UNCHANGED <<screenVars, startVars, callVars>>

\* No write is under way or about to be made by a call that has begun.
Settled ==
    /\ adds = <<>> /\ activations = 0 /\ farewells = 0
    /\ \A j \in Journeys : start[j] # "gps"

-----------------------------------------------------------------------------
(* The start of a trip                                                      *)

\* Mutant: the id of the last trip is kept.
StartJourneyKeepingId ==
    /\ status = "inactive"
    /\ journey < MaxJourneys
    /\ status' = "monitoring"
    /\ journey' = journey + 1
    /\ start' = [start EXCEPT ![journey + 1] = "gps"]
    /\ mishaps' = mishaps \cup (IF Settled THEN {} ELSE {"haste"})
    /\ UNCHANGED <<overlay, callVars, syncVars>>

\* The id is forgotten; what the last trip has still to write goes to the
\* document of this one.
StartJourney ==
    /\ status = "inactive"
    /\ journey < MaxJourneys
    /\ status' = "monitoring"
    /\ journey' = journey + 1
    /\ start' = [start EXCEPT ![journey + 1] = "gps"]
    /\ current' = NoDoc
    /\ Leave
    /\ mishaps' = mishaps \cup (IF Settled THEN {} ELSE {"haste"})
    /\ UNCHANGED <<overlay, callVars, adds>>

\* The location is known, the document is written and awaited.
StartGps(j) ==
    /\ start[j] = "gps"
    /\ start' = [start EXCEPT ![j] = "sync"]
    /\ UNCHANGED status
    /\ Sync(j)
    /\ UNCHANGED <<overlay, journey, callVars>>

\* The start's own write has been answered: the timer is started and the
\* screen rebuilt.
StartSynced(j) ==
    /\ start[j] = "sync"
    /\ \A i \in DOMAIN adds : adds[i].starter # j
    /\ start' = [start EXCEPT ![j] = "done"]
    /\ journeyTimer' = TRUE
    /\ overlay' = (status = "riskDetected")
    /\ UNCHANGED <<status, journey, tick, activations, farewells, syncVars,
                   mishaps>>

-----------------------------------------------------------------------------
(* The timer and the safety check                                           *)

TickStart ==
    /\ journeyTimer
    /\ ~tick
    /\ \/ status = "inactive" /\ journeyTimer' = FALSE /\ UNCHANGED tick
       \/ status = "monitoring" /\ tick' = TRUE /\ UNCHANGED journeyTimer
    /\ UNCHANGED <<screenVars, startVars, activations, farewells, syncVars,
                   mishaps>>

\* A callback writes once: for the risk it raises, or at its end, whatever has
\* become of the trip at its awaits.
TickEnds ==
    /\ tick
    /\ Len(adds) < MaxAdds
    /\ tick' = FALSE
    /\ \/ UNCHANGED screenVars
       \/ /\ status = "monitoring"
          /\ status' = "riskDetected"
          /\ overlay' = TRUE
    /\ Sync(0)
    /\ UNCHANGED <<startVars, journeyTimer, activations, farewells>>

\* "I AM SAFE", which looks at no state.
ConfirmSafety ==
    /\ overlay
    /\ Len(adds) < MaxAdds
    /\ status' = "monitoring"
    /\ Sync(0)
    /\ UNCHANGED <<overlay, startVars, callVars>>

Rebuild ==
    /\ overlay # (status = "riskDetected")
    /\ overlay' = (status = "riskDetected")
    /\ UNCHANGED <<status, startVars, callVars, syncVars, mishaps>>

\* The countdown runs out and the contacts are alerted (see Shield).
CountdownExpires ==
    /\ status = "riskDetected"
    /\ activations < MaxCalls
    /\ status' = "emergencyActive"
    /\ activations' = activations + 1
    /\ UNCHANGED <<overlay, startVars, journeyTimer, tick, farewells, syncVars,
                   mishaps>>

\* Mutant: the emergency is not written.
AlertedUnwritten ==
    /\ activations > 0
    /\ activations' = activations - 1
    /\ UNCHANGED <<screenVars, startVars, journeyTimer, tick, farewells,
                   syncVars, mishaps>>

\* The alerts are out.
Alerted ==
    /\ activations > 0
    /\ activations' = activations - 1
    /\ UNCHANGED status
    /\ Sync(0)
    /\ UNCHANGED <<overlay, startVars, journeyTimer, tick, farewells>>

\* Mutant: the end of a trip without an emergency is not written.
ResolveJourneyUnwritten ==
    /\ status # "inactive"
    /\ status' = "inactive"
    /\ journeyTimer' = FALSE
    /\ status = "emergencyActive" => farewells < MaxCalls
    /\ farewells' = IF status = "emergencyActive" THEN farewells + 1
                                                  ELSE farewells
    /\ UNCHANGED <<overlay, startVars, tick, activations, syncVars, mishaps>>

\* The end of an emergency is written when the contacts have been told of it.
ResolveJourney ==
    /\ status # "inactive"
    /\ status' = "inactive"
    /\ journeyTimer' = FALSE
    /\ \/ /\ status = "emergencyActive"
          /\ farewells < MaxCalls
          /\ farewells' = farewells + 1
          /\ UNCHANGED <<syncVars, mishaps>>
       \/ /\ status # "emergencyActive"
          /\ Sync(0)
          /\ UNCHANGED farewells
    /\ UNCHANGED <<overlay, startVars, tick, activations>>

FarewellsSent ==
    /\ farewells > 0
    /\ farewells' = farewells - 1
    /\ UNCHANGED status
    /\ Sync(0)
    /\ UNCHANGED <<overlay, startVars, journeyTimer, tick, activations>>

Next ==
    \/ StartJourney
    \/ \E j \in Journeys : StartGps(j) \/ StartSynced(j)
    \/ TickStart \/ TickEnds \/ ConfirmSafety \/ Rebuild
    \/ CountdownExpires \/ Alerted \/ ResolveJourney \/ FarewellsSent
    \/ AddAnswered

Spec == Init /\ [][Next]_vars

\* The message loop ends, whatever Twilio answers.  The network owes nothing.
FairSpec == Spec /\ WF_vars(Alerted)

-----------------------------------------------------------------------------
(* Properties                                                               *)

\* When nothing is under way, guardians see the current trip with its current
\* status in the document the id names, and no other trip as going on.  Only
\* this breaks it: a write the server refuses, a first write made while
\* another is not answered (a second document), and a trip started while
\* writes of the last one are still to come (its document stays as it was).
GhostsOnlyFromMishaps ==
    Settled /\ mishaps = {} =>
        /\ current \in {NoDoc, [trip |-> journey, status |-> StatusName[status]]}
        /\ \A d \in left : d.status = "inactive"

\* Refusals alone do not give a trip a second document: none of its own is
\* left behind while it is the current one, and none is on its way beside the
\* one the id names.
OneDocumentATrip ==
    "haste" \notin mishaps =>
        /\ \A d \in left : d.trip < journey
        /\ adds # <<>> => current = NoDoc /\ Len(adds) = 1

\* Without haste the document of a trip that is over is never written over by
\* a later trip: it stays as the record of its own.
DocumentKeepsTrip ==
    [][("haste" \notin mishaps' /\ current # NoDoc /\ current' # NoDoc)
           => current'.trip = current.trip]_vars

\* An emergency that lasts is written to a document of its trip, whatever
\* other writes under way do to the id, unless the server refuses a write.
EmergencyShown ==
    status = "emergencyActive"
        ~> \/ status # "emergencyActive"
           \/ "refusal" \in mishaps
           \/ [trip |-> journey, status |-> "Emergency Active"]
                \in {current} \cup left \cup {adds[i].doc : i \in DOMAIN adds}

=============================================================================
