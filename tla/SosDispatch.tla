---------------------------- MODULE SosDispatch ----------------------------
(***************************************************************************)
(* triggerSOS and its disarming in lib/Dashboard/Dashboard.dart: every      *)
(* trigger (button, voice, wearable) runs the same long chain of awaits,    *)
(* guarded by one flag, while the user may disarm at any await.  Flag, id   *)
(* and overlay are fields of the Dashboard widget: logging out disposes it, *)
(* logging in makes a new one, and the chains of the old one go on.  The    *)
(* background isolate is a second writer of the alerted preference.  Twilio *)
(* and Firestore are seen as the futures they return.                       *)
(***************************************************************************)
EXTENDS Naturals, Sequences, FiniteSets

CONSTANTS
    Phones,        \* distinct phone numbers of the emergency contacts
    MaxRuns,       \* bound: how many triggers are accepted
    MaxDashboards, \* bound: Dashboards a process may have one after another
    MaxDisarms,    \* bound: disarms whose update is awaited at a time
    MayRefuse      \* the server may refuse a write (its rules, the login)

ASSUME BoundsAssumption ==
    /\ MayRefuse \in BOOLEAN
    /\ MaxRuns \in Nat \ {0}
    /\ MaxDashboards \in Nat \ {0}
    /\ MaxDisarms \in Nat \ {0}

Runs == 1..MaxRuns
Dashboards == 1..MaxDashboards

Awaiting == {"contacts", "creating", "broadcast", "sending", "marking",
             "logging"}
Over == {"done", "empty", "thrown", "interrupted"}
Phases == {"none"} \cup Awaiting \cup Over

VARIABLES
    screen,      \* the Dashboard on screen, 0 after a logout
    latest,      \* the newest Dashboard: the detectors' callbacks are its own
    inProgress,  \* _isSOSInProgress of each Dashboard
    alerted,     \* alerted of each Dashboard
    activeId,    \* _activeAlertId: the run whose document it is, 0 for null
    overlay,     \* showActiveSOSOverlay
    cached,      \* the alerted preference as the Dashboards' isolate sees it
    stored,      \* the alerted preference in storage
    run,         \* number of accepted triggers
    dash,        \* the Dashboard whose triggerSOS it is, 0 for a past process
    phase,       \* the await each run is at, or how it came to its end
    silent,      \* it ends without the overlay
    todo,        \* contacts it has still to reach
    tried,       \* contacts it has called Twilio for, SMS and voice call
    doc,         \* status of its sos_alerts document on the server
    writes,      \* Firestore writes the server has not acknowledged, in order
    online       \* Firestore is reachable

screenVars == <<screen, latest>>
prefVars == <<cached, stored>>
widgetVars == <<inProgress, alerted, activeId, overlay>>
runVars == <<run, dash, phase, silent, todo, tried>>
cloudVars == <<doc, writes>>
vars == <<screenVars, prefVars, widgetVars, runVars, cloudVars, online>>

\* A write gives the document of a run a status, "active" by creating it; the
\* Dashboard that awaits it is 0 when its process is past.
Write(status, r, d) == [status |-> status, to |-> r, dash |-> d]
Writes == [status : {"active", "sent", "resolved"}, to : Runs,
           dash : 0..MaxDashboards]

FlagsOK ==
    /\ inProgress \in [Dashboards -> BOOLEAN]
    /\ alerted \in [Dashboards -> BOOLEAN]
    /\ overlay \in [Dashboards -> BOOLEAN]
    /\ silent \in [Runs -> BOOLEAN]
    /\ cached \in BOOLEAN   /\ stored \in BOOLEAN
    /\ online \in BOOLEAN

DataOK ==
    /\ screen \in 0..MaxDashboards
    /\ latest \in 0..MaxDashboards
    /\ activeId \in [Dashboards -> 0..MaxRuns]
    /\ run \in 0..MaxRuns
    /\ dash \in [Runs -> 0..MaxDashboards]
    /\ phase \in [Runs -> Phases]
    /\ todo \in [Runs -> SUBSET Phones]
    /\ tried \in [Runs -> SUBSET Phones]
    /\ doc \in [Runs -> {"none", "active", "sent", "resolved"}]
    /\ writes \in Seq(Writes)

TypeOK == FlagsOK /\ DataOK

Init ==
    /\ screen = 1
    /\ latest = 1
    /\ inProgress = [d \in Dashboards |-> FALSE]
    /\ alerted = [d \in Dashboards |-> FALSE]
    /\ activeId = [d \in Dashboards |-> 0]
    /\ overlay = [d \in Dashboards |-> FALSE]
    /\ cached = FALSE
    /\ stored = FALSE
    /\ run = 0
    /\ dash = [r \in Runs |-> 0]
    /\ phase = [r \in Runs |-> "none"]
    /\ silent = [r \in Runs |-> FALSE]
    /\ todo = [r \in Runs |-> {}]
    /\ tried = [r \in Runs |-> {}]
    /\ doc = [r \in Runs |-> "none"]
    /\ writes = <<>>
    /\ online \in BOOLEAN

-----------------------------------------------------------------------------
(* triggerSOS                                                               *)

\* The button triggers on the screen and only when nothing is known to be
\* active; the detectors call back at any time, also when nothing is shown.
MayTrigger(kind, d) ==
    IF kind = "manual" THEN d = screen /\ ~alerted[d] ELSE d = latest

\* Voice and wearable triggers may be silent.
TriggerSOS(kind, d) ==
    /\ MayTrigger(kind, d)
    /\ ~inProgress[d]
    /\ run < MaxRuns
    /\ inProgress' = [inProgress EXCEPT ![d] = TRUE]
    /\ run' = run + 1
    /\ dash' = [dash EXCEPT ![run + 1] = d]
    /\ phase' = [phase EXCEPT ![run + 1] = "contacts"]
    /\ \E s \in IF kind = "manual" THEN {FALSE} ELSE BOOLEAN :
           silent' = [silent EXCEPT ![run + 1] = s]
    /\ UNCHANGED <<screenVars, prefVars, alerted, activeId, overlay, todo,
                   tried, cloudVars, online>>

\* No contacts, or an error while reading them: the early return.
ContactsEmpty(r) ==
    /\ phase[r] = "contacts"
    /\ phase' = [phase EXCEPT ![r] = "empty"]
    /\ UNCHANGED <<screenVars, prefVars, widgetVars, run, dash, silent, todo,
                   tried, cloudVars, online>>

\* setState of a disposed Dashboard throws, which ends triggerSOS.  A release
\* build has run the closure by then, a debug build asserts first.
ContactsFoundDisposed(r) ==
    /\ phase[r] = "contacts"
    /\ dash[r] # screen
    /\ phase' = [phase EXCEPT ![r] = "thrown"]
    /\ \/ UNCHANGED <<alerted, prefVars>>
       \/ /\ alerted' = [alerted EXCEPT ![dash[r]] = TRUE]
          /\ cached' = TRUE
          /\ stored' = TRUE
    /\ UNCHANGED <<screenVars, inProgress, activeId, overlay, run, dash,
                   silent, todo, tried, cloudVars, online>>

\* Otherwise the alerted state is set and the document written; its future
\* completes when the server has acknowledged it.
ContactsFound(r) ==
    /\ phase[r] = "contacts"
    /\ dash[r] = screen
    /\ phase' = [phase EXCEPT ![r] = "creating"]
    /\ alerted' = [alerted EXCEPT ![dash[r]] = TRUE]
    /\ cached' = TRUE
    /\ stored' = TRUE
    /\ todo' = [todo EXCEPT ![r] = Phones]
    /\ writes' = Append(writes, Write("active", r, dash[r]))
    /\ UNCHANGED <<screenVars, inProgress, activeId, overlay, run, dash,
                   silent, tried, doc, online>>

\* The server answers the writes of a device in their order: it takes the
\* first of them, and only then guardians see it, or refuses it.
Answered(write) ==
    /\ online
    /\ writes # <<>>
    /\ write = Head(writes)
    /\ writes' = Tail(writes)

Taken(write) == doc' = [doc EXCEPT ![write.to] = write.status]
Refused == MayRefuse /\ UNCHANGED doc

\* Mutant: a refused document leaves the id of an earlier one.
AlertCreatedKeepingId(r) ==
    /\ phase[r] = "creating"
    /\ Answered(Write("active", r, dash[r]))
    /\ phase' = [phase EXCEPT ![r] = "broadcast"]
    /\ \/ /\ Taken(Write("active", r, dash[r]))
          /\ activeId' = [activeId EXCEPT ![dash[r]] = r]
       \/ Refused /\ UNCHANGED activeId
    /\ UNCHANGED <<screenVars, prefVars, inProgress, alerted, overlay, run,
                   dash, silent, todo, tried, online>>

\* createSOSAlert returns the document's id, or null when the server refused.
AlertCreated(r) ==
    /\ phase[r] = "creating"
    /\ Answered(Write("active", r, dash[r]))
    /\ phase' = [phase EXCEPT ![r] = "broadcast"]
    /\ \/ /\ Taken(Write("active", r, dash[r]))
          /\ activeId' = [activeId EXCEPT ![dash[r]] = r]
       \/ /\ Refused
          /\ activeId' = [activeId EXCEPT ![dash[r]] = 0]
    /\ UNCHANGED <<screenVars, prefVars, inProgress, alerted, overlay, run,
                   dash, silent, todo, tried, online>>

\* After the community broadcast, which CommunityNet models, the background
\* service is told to follow the location more closely, which is left out.
BroadcastDone(r) ==
    /\ phase[r] = "broadcast"
    /\ phase' = [phase EXCEPT ![r] = "sending"]
    /\ UNCHANGED <<screenVars, prefVars, widgetVars, run, dash, silent, todo,
                   tried, cloudVars, online>>

\* Mutant: a failure ends the loop.
NotifyContactOrStop(r, phone) ==
    /\ phase[r] = "sending"
    /\ phone \in todo[r]
    /\ \/ /\ todo' = [todo EXCEPT ![r] = @ \ {phone}]
          /\ tried' = [tried EXCEPT ![r] = @ \cup {phone}]
       \/ /\ todo' = [todo EXCEPT ![r] = {}]
          /\ UNCHANGED tried
    /\ UNCHANGED <<screenVars, prefVars, widgetVars, run, dash, phase, silent,
                   cloudVars, online>>

\* SMS and voice call to one contact.  Twilio answers that they went out or
\* that they did not; the answers are counted, and change nothing.
NotifyContact(r, phone) ==
    /\ phase[r] = "sending"
    /\ phone \in todo[r]
    /\ todo' = [todo EXCEPT ![r] = @ \ {phone}]
    /\ tried' = [tried EXCEPT ![r] = @ \cup {phone}]
    /\ UNCHANGED <<screenVars, prefVars, widgetVars, run, dash, phase, silent,
                   cloudVars, online>>

\* Mutant: the status is set while contacts are still to be called.
MarkSentEarly(r) ==
    /\ phase[r] = "sending"
    /\ \/ /\ activeId[dash[r]] # 0
          /\ writes' = Append(writes, Write("sent", activeId[dash[r]], dash[r]))
          /\ phase' = [phase EXCEPT ![r] = "marking"]
       \/ /\ activeId[dash[r]] = 0
          /\ phase' = [phase EXCEPT ![r] = "logging"]
          /\ UNCHANGED writes
    /\ UNCHANGED <<screenVars, prefVars, widgetVars, run, dash, silent, todo,
                   tried, doc, online>>

\* Mutant: a status the guardians do not know.
MarkSentAsDelivered(r) ==
    /\ phase[r] = "sending"
    /\ todo[r] = {}
    /\ activeId[dash[r]] # 0
    /\ writes' = Append(writes, Write("delivered", activeId[dash[r]], dash[r]))
    /\ phase' = [phase EXCEPT ![r] = "marking"]
    /\ UNCHANGED <<screenVars, prefVars, widgetVars, run, dash, silent, todo,
                   tried, doc, online>>

\* Mutant: without a document the dispatch does not go on.
MarkSentNeedingDocument(r) ==
    /\ phase[r] = "sending"
    /\ todo[r] = {}
    /\ activeId[dash[r]] # 0
    /\ writes' = Append(writes, Write("sent", activeId[dash[r]], dash[r]))
    /\ phase' = [phase EXCEPT ![r] = "marking"]
    /\ UNCHANGED <<screenVars, prefVars, widgetVars, run, dash, silent, todo,
                   tried, doc, online>>

\* The status is updated of whatever document _activeAlertId names by now.
MarkSent(r) ==
    /\ phase[r] = "sending"
    /\ todo[r] = {}
    /\ \/ /\ activeId[dash[r]] # 0
          /\ writes' = Append(writes, Write("sent", activeId[dash[r]], dash[r]))
          /\ phase' = [phase EXCEPT ![r] = "marking"]
       \/ /\ activeId[dash[r]] = 0
          /\ phase' = [phase EXCEPT ![r] = "logging"]
          /\ UNCHANGED writes
    /\ UNCHANGED <<screenVars, prefVars, widgetVars, run, dash, silent, todo,
                   tried, doc, online>>

\* Mutant: the flag is reset before the alert is logged.
SentAnsweredResettingFlag(r) ==
    /\ phase[r] = "marking"
    /\ \E write \in Writes :
           /\ write.status = "sent" /\ write.dash = dash[r]
           /\ Answered(write)
           /\ Taken(write) \/ Refused
    /\ phase' = [phase EXCEPT ![r] = "logging"]
    /\ inProgress' = [inProgress EXCEPT ![dash[r]] = FALSE]
    /\ UNCHANGED <<screenVars, prefVars, alerted, activeId, overlay, run,
                   dash, silent, todo, tried, online>>

\* updateSOSStatus catches a refusal, and the dispatch goes on.
SentAnswered(r) ==
    /\ phase[r] = "marking"
    /\ \E write \in Writes :
           /\ write.status = "sent" /\ write.dash = dash[r]
           /\ Answered(write)
           /\ Taken(write) \/ Refused
    /\ phase' = [phase EXCEPT ![r] = "logging"]
    /\ UNCHANGED <<screenVars, prefVars, widgetVars, run, dash, silent, todo,
                   tried, online>>

\* Mutant: the flag is not reset.
DispatchEndsKeepingFlag(r) ==
    /\ phase[r] = "logging"
    /\ phase' = [phase EXCEPT ![r] = "done"]
    /\ overlay' = [overlay EXCEPT ![dash[r]] =
                       @ \/ (~silent[r] /\ dash[r] = screen)]
    /\ UNCHANGED <<screenVars, prefVars, inProgress, alerted, activeId, run,
                   dash, silent, todo, tried, cloudVars, online>>

\* Mutant: the overlay is never shown.
DispatchEndsWithoutOverlay(r) ==
    /\ phase[r] = "logging"
    /\ phase' = [phase EXCEPT ![r] = "done"]
    /\ inProgress' = [inProgress EXCEPT ![dash[r]] = FALSE]
    /\ UNCHANGED <<screenVars, prefVars, alerted, activeId, overlay, run,
                   dash, silent, todo, tried, cloudVars, online>>

\* The alert has been logged.  The overlay needs a Dashboard that is shown;
\* in a disposed one the throw comes after the reset of the flag.
DispatchEnds(r) ==
    /\ phase[r] = "logging"
    /\ phase' = [phase EXCEPT ![r] = "done"]
    /\ inProgress' = [inProgress EXCEPT ![dash[r]] = FALSE]
    /\ overlay' = [overlay EXCEPT ![dash[r]] =
                       @ \/ (~silent[r] /\ dash[r] = screen)]
    /\ UNCHANGED <<screenVars, prefVars, alerted, activeId, run, dash, silent,
                   todo, tried, cloudVars, online>>

-----------------------------------------------------------------------------
(* Disarming, after the PIN where one is set                                *)

Resolves == {i \in DOMAIN writes : writes[i].status = "resolved"}

Disarm(d) ==
    /\ d = screen
    /\ alerted[d] \/ overlay[d]
    /\ overlay' = [overlay EXCEPT ![d] = FALSE]
    /\ \/ /\ activeId[d] # 0
          /\ Cardinality(Resolves) < MaxDisarms
          /\ writes' = Append(writes, Write("resolved", activeId[d], d))
          /\ UNCHANGED <<alerted, prefVars>>
       \/ /\ activeId[d] = 0
          /\ alerted' = [alerted EXCEPT ![d] = FALSE]
          /\ cached' = FALSE
          /\ stored' = FALSE
          /\ UNCHANGED writes
    /\ UNCHANGED <<screenVars, inProgress, activeId, runVars, doc, online>>

\* The rest of _resolveActiveAlert, which also follows a refused update.  It
\* resets the fields whatever a newer SOS has put there; in a disposed Dashboard
\* its setState throws.
DisarmAnswered(r, d) ==
    /\ Answered(Write("resolved", r, d))
    /\ Taken(Write("resolved", r, d)) \/ Refused
    /\ activeId' = [activeId EXCEPT ![d] = 0]
    /\ \/ /\ alerted' = [alerted EXCEPT ![d] = FALSE]
          /\ cached' = FALSE
          /\ stored' = FALSE
       \/ /\ d # screen
          /\ UNCHANGED <<alerted, prefVars>>
    /\ UNCHANGED <<screenVars, inProgress, overlay, runVars, online>>

-----------------------------------------------------------------------------
(* The surroundings                                                         *)

\* Settings: the Dashboard is removed, the detectors keep its callbacks.  The
\* overlay covers the screen.
Logout ==
    /\ screen # 0
    /\ ~overlay[screen]
    /\ screen' = 0
    /\ UNCHANGED <<latest, prefVars, widgetVars, runVars, cloudVars, online>>

\* A new Dashboard, which reads the preference and takes the callbacks over.
Login ==
    /\ screen = 0
    /\ latest < MaxDashboards
    /\ screen' = latest + 1
    /\ latest' = latest + 1
    /\ alerted' = [alerted EXCEPT ![latest + 1] = cached]
    /\ UNCHANGED <<inProgress, activeId, overlay, prefVars, runVars, cloudVars,
                   online>>

\* The shake handler of the background isolate has messaged its contacts.
ShakeSOS ==
    /\ stored' = TRUE
    /\ UNCHANGED <<screenVars, cached, widgetVars, runVars, cloudVars, online>>

\* Firestore's own cache brings the unanswered writes of a process to the next
\* one, where nothing awaits them; in a browser there is none.
Orphan(write) == [write EXCEPT !.dash = 0]
Kept == [i \in DOMAIN writes |-> Orphan(writes[i])]

\* The app is closed and started again: the preferences are read from storage,
\* everything else is lost.
Restart ==
    /\ screen' = IF screen = 0 THEN 0 ELSE 1
    /\ latest' = IF screen = 0 THEN 0 ELSE 1
    /\ cached' = stored
    /\ inProgress' = [d \in Dashboards |-> FALSE]
    /\ alerted' = [d \in Dashboards |-> d = 1 /\ screen # 0 /\ stored]
    /\ activeId' = [d \in Dashboards |-> 0]
    /\ overlay' = [d \in Dashboards |-> FALSE]
    /\ dash' = [r \in Runs |-> 0]
    /\ phase' = [r \in Runs |-> IF phase[r] \in Awaiting THEN "interrupted"
                                                         ELSE phase[r]]
    /\ silent' = [r \in Runs |-> FALSE]
    /\ todo' = [r \in Runs |-> {}]
    /\ writes' \in {<<>>, Kept}
    /\ UNCHANGED <<stored, run, tried, doc, online>>

\* The server answers a write of a past process.
OrphanAnswered ==
    /\ \E write \in Writes :
           /\ write.dash = 0
           /\ Answered(write)
           /\ Taken(write) \/ Refused
    /\ UNCHANGED <<screenVars, prefVars, widgetVars, runVars, online>>

NetworkChanges ==
    /\ online' = ~online
    /\ UNCHANGED <<screenVars, prefVars, widgetVars, runVars, cloudVars>>

\* What a run does by itself.
Dispatch(r) ==
    \/ ContactsEmpty(r) \/ ContactsFoundDisposed(r) \/ ContactsFound(r)
    \/ AlertCreated(r) \/ BroadcastDone(r)
    \/ \E phone \in Phones : NotifyContact(r, phone)
    \/ MarkSent(r) \/ SentAnswered(r) \/ DispatchEnds(r)

Next ==
    \/ \E kind \in {"manual", "voice", "wearable"}, d \in Dashboards :
           TriggerSOS(kind, d)
    \/ \E r \in Runs : Dispatch(r)
    \/ \E d \in Dashboards : Disarm(d)
    \/ \E r \in Runs, d \in Dashboards : DisarmAnswered(r, d)
    \/ OrphanAnswered
    \/ Logout \/ Login \/ ShakeSOS \/ Restart \/ NetworkChanges

Spec == Init /\ [][Next]_vars

\* Futures complete while the network can be reached; the network, the user and
\* the operating system owe nothing.
Fairness ==
    /\ \A r \in Runs : WF_vars(online /\ Dispatch(r))
    /\ WF_vars(\E r \in Runs, d \in Dashboards : DisarmAnswered(r, d))
    /\ WF_vars(OrphanAnswered)

FairSpec == Spec /\ Fairness

-----------------------------------------------------------------------------
(* Properties                                                               *)

\* The flag covers the whole chain of awaits: from the first await to the
\* last no other trigger of the same Dashboard can start a second chain over
\* the first one's data.
FlagCoversDispatch ==
    \A r \in Runs : phase[r] \in Awaiting =>
        /\ inProgress[dash[r]]
        /\ \A s \in Runs : phase[s] \in Awaiting /\ dash[s] = dash[r] => s = r

\* For an alert that guardians can see every contact has been tried, or is about
\* to be: no disarm, no other trigger, no change of Dashboard cuts the messages
\* short, only the end of the process does.  (Whether Twilio gets through to a
\* contact is not asked by the code.)
AlertReachesContacts ==
    \A r \in Runs :
        doc[r] # "none" =>
            \/ tried[r] = Phones
            \/ phase[r] = "interrupted"
            \/ /\ phase[r] \in {"broadcast", "sending"}
               /\ tried[r] \cup todo[r] = Phones

\* The status update at the end of a dispatch never touches the document of
\* another run, although it reads the id anew after all the awaits.
MarksOwnAlert ==
    \A r \in Runs : phase[r] \in {"broadcast", "sending", "marking", "logging"}
        => activeId[dash[r]] \in {0, r}

\* A Dashboard deaf to triggers has a dispatch under way, or had one that
\* ended at one of the two exits that forget the flag: the empty contact
\* list and the throw of a disposed Dashboard.
FlagStuckOnlyAtExit ==
    \A d \in Dashboards : inProgress[d] =>
        \E r \in Runs : /\ dash[r] = d
                        /\ phase[r] \in Awaiting \cup {"empty", "thrown"}

\* An alert whose dispatch is done and whose document the shown Dashboard holds
\* can be disarmed there, or its disarm is on the way to the server, although an
\* earlier disarm may be acknowledged late and reset what the newer alert had
\* set.  A silent alert has no overlay to make up for that, and cannot.
StaysDisarmable ==
    \A r \in Runs :
        (screen # 0 /\ activeId[screen] = r /\ phase[r] = "done") =>
            \/ alerted[screen] \/ overlay[screen]
            \/ \E i \in Resolves : writes[i].dash = screen
            \/ silent[r]

\* When the network stays, every dispatch comes to its end.
DispatchTerminates ==
    <>[]online =>
        \A r \in Runs : phase[r] \in Awaiting ~> phase[r] \notin Awaiting

\* The promise made to contacts and guardians is kept, also by writes that are
\* refused, lost, or answered when their process is past: every step is one of
\* SosPromise or changes nothing that they see.
Promise == INSTANCE SosPromise
    WITH Alerts <- Runs, Contacts <- Phones, status <- doc
PromiseKept == Promise!Spec

\* Comment at _resolveActiveAlert: "Disarms the SOS alert - updates Firestore
\* status to 'resolved'".  Once the shown Dashboard offers no disarm any more
\* and nothing is under way, no document of an uninterrupted run is left open.
DisarmResolves ==
    (/\ screen # 0 /\ ~alerted[screen] /\ ~overlay[screen] /\ writes = <<>>
     /\ \A r \in Runs : phase[r] \notin Awaiting) =>
        \A r \in Runs : doc[r] \in {"none", "resolved"}
                        \/ phase[r] = "interrupted"

=============================================================================
