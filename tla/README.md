# WeSafe in TLA+

TLA+ modules, TLC runs and machine-checked proofs for WeSafe, a Flutter app
(Dart, `src/lib/`) that watches over a trip, raises an SOS, listens for panic
words and warns communities. The modules translate the Dart source.
`PROJECT.json` maps every definition to its lines and lists the components, runs,
mutants, findings, hazards and theorems; this file explains them.

Dart runs each isolate on one event loop: code between two `await`s, timer
callbacks and plugin callbacks is atomic, and everything else may interleave.
So in every module **an action is one stretch of code between two awaits**,
with all the state changes of that stretch; a variable holds "where" each
pending call is.

## 1. Inventory

| Component | State it keeps | Operations | Hard behaviour |
|---|---|---|---|
| Silent Evidence Shield, detector (`silent_evidence_shield_service.dart`) | status, active risk, safety check and countdown, three timers, risk counters, route, connectivity | `startJourney`, route fetch, connectivity listener, 10 s timer, `_triggerRiskAutomatically`, countdown, `confirmSafety`, `resolveJourney` | a timer callback with two awaits against the user's answers; a check that nobody is shown; connectivity inferred from a probe; a start that awaits Firestore |
| Shield, alerts (same file) | `_pendingAlerts`, the loops under way | `_activateEmergencyMode`, `_flushPendingAlerts`, safe messages | queue cleared before an awaited flush; connectivity read again for each contact; the risk named after three awaits; failed calls |
| Shield, journey document (same file, 628-682) | `_firebaseJourneyId`, documents in `silent_evidence_shields` | `_syncJourneyToFirebase` and the six places that call it | first writes that overlap make two documents; an id learnt after the trip is over |
| SOS dispatch and disarm (`Dashboard/Dashboard.dart`) | `_isSOSInProgress`, `alerted`, `_activeAlertId`, overlay of each Dashboard; the `alerted` preference; `sos_alerts` documents | `triggerSOS` (button, voice, wearable), `_resolveActiveAlert`, logout and login, restart | seven awaits under one flag; a disarm at any await; a refused write that looks done; a Dashboard disposed during a dispatch; process end |
| Voice panic detection (`voice_detection_service.dart`) | enabled, listening, score, decay and cooldown timers | `setEnabled`, `setSelectedLanguage`, `startListening`, `stopListening`, delayed restart, `_increasePanicScore` | a session that ends every 30 s and restarts itself across settings that stop and start it |
| Community groups (`community_chat_service.dart`, `CommunityGroupsScreen.dart`) | a membership in four places, the group's count, creator and pinned emergency | create, join, leave, delete, load the list, broadcast | four separate writes per call, which fail or are cut off half-way; one failing group ends a broadcast; a list read while it changes |
| Route service (`route_service.dart`) | none; the shield keeps destination and polyline | geocode with retries, route, decoding, distances | late answers of an earlier trip; integers of two platforms |
| Twilio client (`twilio_service.dart`) | none | `sendSMS`, `makeVoiceCall`, phone formatting | catches everything and returns `false` |
| Cloud service (`cloud_service.dart`) | Firestore | alert create and update, contacts, guardians | a write's future completes at the server's answer only; a refused update is caught and looks done |
| Wearables (`bluetooth_service.dart`) | a list of simulated devices | connect, disconnect, SOS, sync | a trigger that shares the Dashboard's flag |
| Background isolate (`background_services.dart`) | SOS mode, shake detector, own preferences | `startSOSMode`, `stopSOSMode`, shake SOS | a second writer of the `alerted` preference |
| Start-up, login, PIN, stealth; settings, contacts and guardian screens; chat messages; learning hub; parent notification, FCM; cloud functions | flags and lists | forms and navigation | only logout and login, which replace the Dashboard |

How they interact: the Dashboard owns `triggerSOS` and gives it to the voice
detector and the wearables as a callback; it shows the Shield's safety check as
an overlay that follows the Shield's `notifyListeners`, while it is mounted and not
in stealth mode. The Shield and
`triggerSOS` both await Firestore (`CloudService`) and Twilio; `triggerSOS` also
awaits the community broadcast, whose list of groups is a preference that the
groups screen keeps. `startJourney` starts the route fetch and lets it run. The
background isolate shares only the preferences with the Dashboard. Connectivity
events come from a plugin; on the web the loss of the network may come without one.

What makes each component correct:

- *Detector*: an emergency comes only from a check that was left unanswered and that
  any Dashboard on the screen was showing; a check always ends; a confirmed risk is
  not raised again at once; a lost network is noticed even without an event.
- *Alerts*: every contact has each emergency's alert in exactly one place and
  is told the risk that led to it; what is queued waits for a network believed
  lost; loops end.
- *Journey document*: guardians see one document of the trip, with its status.
- *SOS*: one chain of awaits per Dashboard at a time; for every alert with a document
  every contact is tried; the chain never writes another run's document; what can
  be seen of an alert follows a short abstract promise; it ends when the network
  stays.
- *Voice*: an enabled detector keeps coming back, a disabled one goes silent,
  the score cannot accumulate across stops and cooldowns.
- *Communities*: the copies of a membership agree between calls, where no call
  clashed with another or was left half done; a broadcast reaches the groups of the
  user; an emergency stays pinned.
- *Route*: the polyline is the one the server sent and belongs to the trip; the
  fetch ends, and not before its three attempts.

## 2. Modules

| Module | Models |
|---|---|
| `ShieldMonitor` | the detector |
| `Shield` (EXTENDS `ShieldMonitor`) | detector, alerts, queue, flush, safe messages together |
| `JourneySync` | the trip's document and every step that writes it |
| `SosPromise` | abstract specification of an SOS |
| `SosDispatch` (INSTANCE `SosPromise`) | `triggerSOS`, disarm, logout and login, shake, restart |
| `VoiceDetection` | sessions, settings, panic score |
| `CommunityNet` | groups, memberships, the groups screen, the emergency broadcast |
| `Route` | the route fetch and the decoding of polylines |
| `MCShield`, `MCSosDispatch`, `MCCommunityNet`, `MCRoute` | model values, symmetry and routes for TLC |
| `ShieldMonitor_proofs`, `Shield_proofs`, `JourneySync_proofs`, `SosDispatch_proofs`, `VoiceDetection_proofs`, `CommunityNet_proofs`, `RouteDecoding_proofs`, `Route_proofs` | theorems |

Operators whose comment begins with "Mutant:" are plausible bugs. No
specification uses them; each is substituted for the definition that follows it
to see that the property named in `PROJECT.json` really breaks.

### ShieldMonitor

The variables bear the names of the fields (given beside each declaration).
`tick` is the timer callback in flight: `TickStart` is its early returns,
`TickFix` the stretch after the GPS fix, `TickProbe` the one after the Firestore
probe. A shield that believes it is offline makes no probe, so `TickFix` then runs
the rules itself. `RiskRules` keeps the order of the four rules and that the first
one that fires returns; each reads `status` again after the awaits, which is
what protects a trip that was ended meanwhile. `StartGps`/`StartSynced` are the
rest of `startJourney`; `start[j]` is kept per trip because a trip can be ended and
the next one started while the first is still at an await; the same holds for
`fetch`. `shown` says that a Dashboard is mounted and not in stealth mode;
`LeaveDashboard` is the switch to the calculator or a logout, `ReturnToDashboard` the way
back, which builds the page anew. `Notify` is `notifyListeners`: only a Dashboard that is shown
follows it, and a check raised meanwhile runs unseen. `CountdownExpires` notifies nobody,
so `overlay` (what the Dashboard shows) may outlive `checkActive`, and `ConfirmSafety`,
which looks at no state, may be pressed late: both are in the model.

Counters are in ticks or seconds and the limits are constants. Positions are
abstracted to "moved or not" and "off the route or not", times to `overdue`.
Left out: timeline, status labels, the journey document (see `JourneySync`) and
whose route it is (see `Route`).

*Assumption:* at most one timer callback is in flight. Its awaits are
limited by timeouts (4 s for the fix, 3 s for the probe), and the period is 10 s.

### Shield

`Activate` is the end of the countdown with the start of
`_activateEmergencyMode`; `ActivationContacts` is the stretch in which the contacts
arrive and the messages are written, and with them `told`, the risk they name;
`AlertNext` is the loop, which reads `_hasConnectivity`
for each contact; offline there is no await in the loop, so the rest is queued in
one step. `Connected` is the detector's connectivity event with the copy and
the clearing of the queue. `sending` and `outbox` hold the alerts at an awaited
Twilio call or still in a flush's copy (which flush it is makes no difference to
what happens to the alert); `delivered` and `failed` are history. Twilio reports a
failure by returning `false`, so `AlertAnswered` and `FlushAnswered` have no
exception branch: the re-queueing code is dead, as a finding shows. The order of the
contacts is any. SMS and call of one alert are one unit, as the queue holds them
together. `GoOn` stands apart from the detector's other actions because a
confirmation and a new trip clear the risk: `cause` is the history of which risk
became the emergency, and forgets it then.

### JourneySync

The same service seen from its document. The detector's rules are left open (a
timer callback on a monitored trip may raise a risk), so that every order of
writes is there at little cost. `Sync` is one call of `_syncJourneyToFirebase`:
`AddDocument` while no id is known, whoever calls, and `UpdateDocument` afterwards,
which the server takes or refuses. `adds` are the first writes without an answer, in order;
`current` is the document that `_firebaseJourneyId` names, `left` the ones no id
names any more. `TickEnds` writes at the end of the callback whatever became of the
trip meanwhile; an emergency and its end are written only after the messages
(`Alerted`, `FarewellsSent`). The history `mishaps` notes a refusal, and *haste*: a
first write made while another is unanswered, or a trip started while writes of the
last one are still to come.

### SosDispatch and SosPromise

`phase` is the await the accepted trigger is at, one action per stretch, and
`run` numbers the accepted triggers, so that each has its own document `doc[run]`.
`doc` is what the server has, and so what guardians see. `writes` holds the Firestore
writes without an answer; the server answers those of a device in order, and only
`online`. With `MayRefuse` it may refuse any of them. A refused creation gives the
Dashboard no id (`AlertCreated`); a refused update is caught by `updateSOSStatus`, and
the caller goes on as if it were done, with the document as it was (`SentAnswered`,
`DisarmAnswered`). `NotifyContact` calls Twilio for one contact; what Twilio answers is
only counted, so the contact is *tried*, and no property says that it was reached.

Flag, `alerted`, id and overlay are fields of the widget, so they are kept per
Dashboard; `screen` is the one shown (0 after a logout), `latest` the one whose
callbacks the detectors hold. `Logout` disposes of a Dashboard while its dispatch goes
on; `Login` makes the next, which reads the cached preference. In a disposed
Dashboard `setState` throws: before the dispatch proper (`ContactsFoundDisposed`,
where debug and release builds differ in what happened before the throw), or at its
end. `ShakeSOS` is the other isolate's write of the `alerted` preference, which the
Dashboards' isolate sees only after a `Restart` (`stored` and `cached`).
The button can trigger only on the screen and while `alerted` is false, voice and
wearables always. `Restart` ends the process; whether the user was logged in is kept.
Writes without an answer are lost (in a browser) or kept by Firestore's cache and
answered later, with nobody waiting for them (`OrphanAnswered`). The precision of the
background service's location, which dispatch and disarm switch, is read by nothing and
left out.

`SosPromise` is what contacts and guardians may rely on, and no more than the code
keeps: each contact is tried at most once, an alert appears only before anyone was
tried, is called sent only when all were, never vanishes, and resolving it does not stop
the messages. That a message gets through, or that the server takes a disarm, is not
promised. It has two variables, `status` and `tried`, and `SosDispatch` implements it
with `doc` and `tried` in their place.

### VoiceDetection

`starts` counts the `startListening` calls at their awaits, `restarts` the
800 ms timers, `call[c]` the setting calls, which the preferences store in order.
A plugin session (`session`) ends by itself within 30 s; its status and error
callbacks may each ask for a restart. `restarts` saturates at two, since what
matters is none, one or several. `IncreasePanicScore` is one speech result with
all its keywords. Cooldown and decay timers run on across stops, as in the code.

### CommunityNet

A membership is kept in the member document (`members`), the user's
`joinedGroups` (`joined`), the group's `memberCount` (`count`) and the phone's
preference (`local`); a join or a leave writes them in this order, each in an action of
its own (`WriteMember`, `WriteList`, `WriteCount`, `WriteLocal`). `CheckGroup` and
`MakeGroup` are `getOrCreateGroup`: look, then `set` without merge. A deletion takes a
snapshot of the members and removes them one by one, then the document. A call whose
group is gone ends at the count, whose update throws. `LoadReads` and
`LoadApplies` are the groups screen reading its list, where a failed read is an empty list.
`TellGroup` is one turn of the broadcast: message and pin; the pin of a group that is gone
throws and ends the loop. The button of the create sheet is on all the time, since
the sheet is not rebuilt by its screen, and a group without a creator (made with nobody
signed in, `Nobody`) can be deleted by anyone. Behaviours begin in any community that
calls made one at a time may have left.

Any read or write may fail: `CallFails` ends a join or a leave where it is; a deletion
catches the failure, and the screen drops the group all the same. `BroadcastFails` ends
the whole broadcast. `ProcessEnds` ends everything a phone was at; the writes that were
under way are lost or still reach the server (`alone`), beside the calls of the next
process.

Three histories say when the copies may differ: `marred` are groups on which calls
clashed (the same user at two calls on the group, a deletion beside any other call, two
users making it at once, a call that repeats what is so), `cut` the users and groups
whose entries a call left half done (`Halved`: its own user's, or those of the member a
deletion was at), `stale` the users one of whose lists was read while it changed, or not
read at all.

*Assumption:* every user has one phone, and the screen's streams are up to date when
the user taps.

### Route

`fetch[j]` is where the fetch of trip `j` is: waiting for the position, at a geocoding
request, at the delay before the next, at the route request. `Retry` counts
`attempt`. Answers write `dest` and `poly` for whatever trip is current. Angles are
whole numbers of 1e-5 degrees, and the routes of the server stay on the globe
(`RouteAssumption`): so no shift of a difference needs more than 32 bits, and `|=` on
disjoint bits is a sum. `Decoding` gives the loops' variables of `_decodePolyline`
after each character, `Read` is one character, with `scale` for 2^shift, and `Complete`
the end of one of the two inner loops. `Complement` is Dart's `~`, which has 64 bits and a
sign in native builds, 32 bits without one in JavaScript. `Encode` is the reference
definition, the published algorithm by which the server encodes. `late` notes that a
fetch was under way when another trip was started.

## 3. Runs

Every property of a passing run has a mutant that breaks it.

| Run | Asks | Bounds | Distinct states |
|---|---|---|---|
| `ShieldMonitor` | detector: consistency, no unfounded emergency, no re-trigger, risks answered, lost network noticed | 2 trips, countdown and counted limits 2, all conditions but a stop | about 396,000 |
| `Shield` | alerts accounted for, queue only offline, the risk named, activation and flush complete | 1 trip, 1 emergency, 2 contacts, a stop or no network | about 250,000 |
| `JourneySync` | when guardians see the trip as it is | 2 trips, 2 answers out before timer and user wait, 1 emergency's messages at a time | about 855,000 |
| `SosDispatch` | flag, contacts, documents, disarm, termination, refinement | 2 triggers, 2 Dashboards, 2 contacts, 1 disarm awaited, any write refused | about 357,000 |
| `VoiceDetection` | score, restarts, silence, listening again | 3 setting calls, 2 starts at a time, threshold 5, hits 3 and 5, decay 2 | about 82,000 |
| `CommunityNet` | copies agree | 2 users, 1 group, 2 slots (symmetric), 2 calls, 1 load, 1 failure or end of a process | about 668,000 |
| `CommunityNet_lists` | lists cover, broadcasts reach, emergencies stay | 1 user, 2 groups and 2 slots (symmetric), 2 calls, 1 load, 1 broadcast, 1 failure or end of the process | about 2,824,000 |
| `Route` | decoding, ownership, retries, termination | 2 trips, 31 routes of up to two points, word size 2^28 | about 24,000 |
| `ShieldMonitor_retrigger`, `Shield_requeue`, `SosDispatch_disarm`, `CommunityNet_broadcast` | a statement of the repository that the code does not keep | small | stop at the counterexample |

Why the bounds are enough:

- *Two trips*: all per-trip state is a field that the next start overwrites, and
  what can go wrong is a call of the previous trip answering in the next.
- *Limits of two*: a limit of one would make a single measurement a risk, which
  the real limits (60 and 3 ticks) exclude, and "not re-triggered" would be
  false; two is the least value that shows counting, and the theorem
  `CountedRiskRests` covers every larger one. `LostLimit` is one in the code.
- *No stop in `ShieldMonitor`*: it is counted like a deviation, which is there, and
  happens in `Shield`; `CountedRiskRests` is proved of both.
- *One trip and one emergency in `Shield`*: two risks can become the emergency, "I AM
  SAFE" or the end of the trip during the activation clears the one that did, and two
  connectivity events make two flushes. The four safety properties are theorems for any
  number of trips and emergencies.
- *Two contacts*: part of the list online, part offline; symmetric, no contact is
  treated differently.
- *`JourneySync`*: two unanswered first writes are the least that make two
  documents. `MaxAdds` stops only the timer and the user while so many are out; the
  starts, ends and messages go on.
- *Two triggers, two Dashboards*: one whose leftovers (id, flag, overlay,
  documents, a pending disarm) meet the next.
- *Voice*: three setting calls allow off, on and a change of language to
  overlap. Hits 3 and 5 with threshold 5 are one word that is not enough alone
  and one that is; 2 as decay makes the clamp at zero happen.
- *Communities*: every clash is of two calls, on one group, so that two users and one
  group show whether the copies agree; list and broadcast are of one phone, and a second
  group is what they can miss. One failure is enough to leave a call half done; the
  theorems hold for any number of users, groups, calls and failures. The states to begin
  with stand for all that one call at a time could have done before.
- *No refusals in `SosDispatch_disarm`*: the counterexample must not need one.
- *Route*: differences of both signs that take one, two and more groups of bits.
  Words have 2^28 values in the run, since TLC's own integers end at 2^31; all
  values in the routes are smaller, and the theorems hold for any word size.
- Bounds named `Max...` limit what is otherwise unbounded.

The deadlock check is off in `VoiceDetection`, `JourneySync`, `CommunityNet` (and
its violation run) and `Route`: a disabled detector, an ended last trip or phones with no
calls left really stop.

### Fairness

Weak fairness only, and only of what a scheduler or a plugin owes:

- timers fire (`CountdownTick`, `TickStart`, `RestartFires`, decay, cooldown, the
  delay before a geocoding retry);
- awaits with a timeout or an answer complete (GPS, probe, connectivity check,
  Twilio's HTTP calls and so the message loop before `Alerted`, geocoding and route
  requests with their 8 and 10 s, preferences, speech plugin);
- a Firestore write is answered, also one of a past process, and a dispatch goes on
  while the device is online. If the network comes and goes for ever it owes nothing, and
  `DispatchTerminates` is conditional on `<>[]online`;
- a speech session ends within its 30 s.

The user, the network, rebuilds of the screen, the end of the process, the answer
to a journey write and the messages that the user is safe owe nothing.

### What the properties say

- `SafetyCheckConsistent`: check, risk, status and countdown always go together, a
  Dashboard on the screen shows the check, also one that was left and is built again, and
  no timer callback is at an await while a risk is named. In stealth mode and after a
  logout a check runs unseen, which is the code's doing and excluded by nothing.
- `EmergencyOnlyUnanswered`: an emergency starts only at the end of a full countdown
  that nobody answered, and that any Dashboard on the screen was showing; the hazards
  are a late tick, a late button and a countdown that survives its check.
- `CountedRiskNotRetriggered` and its violated sibling
  `ConfirmedRiskNotRetriggered`: a counted risk rests for a tick, even with a
  callback in flight at the confirmation.
- `RiskIsAnswered`, `OfflineNoticed`: liveness of check and probe.
- `AlertAccounted`: `sending`, `pending`, `outbox`, `delivered` and `failed`
  partition the alerts of the processed contacts.
- `ContactsToldTheRisk`: `_activeRiskType`, read three awaits after the end of the
  countdown, is still the risk that led there; only the user's going on changes it.
- `QueuedOnlyOffline`: only the start of another trip leaves alerts queued while
  the shield believes it is online. It does not say that the queue is flushed in time, or
  that a new trip finds it empty: neither is true.
- `DispatchCompletes`, `FlushCompletes`: loops run to their end, the first also when
  the user has meanwhile marked herself safe.
- `GhostsOnlyFromMishaps`, `OneDocumentATrip`, `DocumentKeepsTrip`: at rest
  guardians see the trip as it is, in one document that no other trip writes over.
  Each names exactly which mishaps break it; they are weaker claims than the
  inventory's sentence because the code does not order its writes.
- `EmergencyShown`: an emergency that lasts gets to some document of its trip.
- `FlagCoversDispatch`, `AlertReachesContacts`, `MarksOwnAlert`,
  `DispatchTerminates`: the promises of `triggerSOS`, across Dashboards, refusals and
  restarts. `AlertReachesContacts` says that every contact of an alert on the server is
  *tried*, unless the process ends.
- `FlagStuckOnlyAtExit`: a deaf Dashboard has a dispatch under way, or one ended at
  the two exits that forget the flag.
- `StaysDisarmable`: a dispatched alert on the screen can be disarmed there, although
  an earlier disarm may be answered late and reset what the newer alert had set.
- `PromiseKept`: the refinement of `SosPromise`.
- `ScoreUnderControl`, `RestartUnderWay`, `DisabledGoesSilent`, `ListensAgain`:
  the promises of the voice detector. The last three exempt a start that failed
  (`deaf`): the code gives up there and so does the claim.
- `MembershipAgrees`, `ListCovers`, `BroadcastReaches`, `EmergencyStays`: the
  promises of the communities, each with the clashes and the half-done calls that end it.
  A call left half done ends it for the entries it was at and for the count, not for
  other members; two users making a group at a time are a clash.
- `DecodesRoute`, `RouteOfTrip`, `GivesUpLate`, `FetchEnds`: those of the route;
  `RouteOfTrip` exempts the late answer of an earlier trip, which the code lets through.

## 4. Findings

Each is a run that TLC ends with a counterexample; the quoted lines are in
`PROJECT.json`.

1. `ShieldMonitor_retrigger`: after "I AM SAFE" a *late* user gets the same
   check with the next tick, since the expected arrival is not a counter.
2. `Shield_requeue`: an undeliverable alert is dropped; the code waits for an
   exception that Twilio's client never throws.
3. `SosDispatch_disarm`: a *silent* SOS (voice, wearable) that is disarmed while its
   document is being created: there is no id to resolve yet, the dispatch goes on and marks
   the document "sent", and as a silent one shows no overlay, nothing offers to disarm it
   any more. (One that is not silent shows its overlay at the end, with the id.)
4. `CommunityNet_broadcast`: a deleted group, which stays in the preference of every
   phone, ends the broadcast, and the groups behind it are not told.

Observed while modelling, and part of the models, but with no line of the
repository that a run could hold against the code:

- A trip started offline is not watched: the journey timer waits behind a
  Firestore write (`silent_evidence_shield_service.dart`, 175).
- After a slow probe, alerts are queued with no event to come that would flush
  them (361). An alert of an earlier trip may go out in a later one.
- "Route Deviation" is named to the contacts if the user went on before the
  messages were written (515).
- Two first writes make two journey documents, one of which is never updated
  again; a trip started in haste leaves the last one's document as it was (659, 622).
- An SOS without contacts leaves the in-progress flag set, and all later ones are
  ignored (`Dashboard.dart`, 229); the throw of a disposed Dashboard does the same.
- In stealth mode and after a logout a safety check is raised and counted down with
  nothing on the screen, and ends in an emergency (594).
- A refused update of an alert looks done: the Dashboard shows a disarmed user, the
  guardians the alert (`cloud_service.dart`, 57). The "sent" of a dispatch
  replaces the "resolved" of a disarm that is still unanswered when all contacts have been
  called. After a restart the id of an alert is lost, and a disarm resolves nothing.
- A join, leave or deletion that fails or is cut off half-way is not taken up again: the
  copies of the membership stay apart, and a phone whose list misses the group does not
  broadcast to it (`community_chat_service.dart`, 63-149).
- Without a data connection no SMS of an SOS is sent: the dispatch waits for the
  document first (240).
- A late answer to a disarm resets the alerted state of a newer SOS (405);
  a newer SOS that was silent then has no overlay to be disarmed with.
- The shake handler's isolate never reloads its copy of the contacts
  (`background_services.dart`, 187).
- A join through the create sheet by someone who is a member counts twice; a
  failed or outdated read of the list replaces the phone's preference
  (`CommunityGroupsScreen.dart`, 62); nothing calls `clearPinnedEmergency`.
- In a browser a route that goes south or west anywhere is decoded wrongly
  (`route_service.dart`, 127).

## 5. Proofs

All theorems hold for every value of the constants that satisfies the named
`ASSUME`s (numbers are naturals, limits positive, hits positive, users finitely many).
A type invariant is split in two, `FlagsOK` for Booleans and `DataOK` for the
rest, where the two are proved by different provers.

- `ShieldMonitor_proofs`. `MonitorTypeCorrect` is inductive.
  `SafetyCheckAlways`: `SafetyCheckConsistent` is inductive by itself; that a shown
  Dashboard has the check rests on `Notify` and on the page built anew. Its last
  conjunct (a risk excludes a callback in flight) is what makes it so: without it
  `TickProbe` could raise a risk over an open check. `EmergencyNeedsUnansweredCheck`
  follows from it step by step. `CountedRiskRests` needs `ConfirmedCounters`, the
  bound on each counter since the confirmation (a confirmed stop has at most
  the measurement of the callback in flight), and limits of at least two.
- `Shield_proofs`. `ShieldImplementsMonitor`: each step of the shield is a step of
  the detector or leaves it alone (`ShieldSpec => Spec`), so the theorems above hold
  of the shield. `AlertsAlwaysAccounted`: the inductive invariant adds that the
  sets hold alerts only and that an activation which has not started has
  processed nobody. `QueueWaitsForConnection` is the action property over it.
  `ContactsAlwaysToldTheRisk` adds `CauseHeld`: while an activation waits for its
  contacts, the risk is still the one that caused it, which needs that no
  timer callback raises another outside monitoring.
- `JourneySync_proofs`. One inductive invariant for all its theorems: types, `Started`
  (nothing is under way before the first trip), `OneEach` (without haste everything left
  behind is of an earlier trip, the id names a document of this one, and at most one
  first write is out, none while an id is known) and `Fresh` (without any mishap what is
  left shows its end, and the trip's document shows the status of the moment unless a call
  that has begun has still to write it).
- `SosDispatch_proofs`. `DispatchTypeCorrect` and `FlagAlwaysCovers` are inductive
  together with "an await belongs to an accepted run of a Dashboard that exists".
  `AlwaysMarksOwnAlert` adds the flag: no second trigger of the same Dashboard can
  come between creation and marking. `AlertAlwaysReaches` needs the history of finished
  and of future runs, that later runs have no document and that a run in its loop has
  tried or still has to try everyone. As writes may be answered late, or when their
  process is past, `WritesInv` says of each write on its way what it may do when it is
  taken: a creation is the only one of its run and comes before anyone was tried (or its
  run was interrupted), an update is of a run that has a document. `AlwaysDisarmable` needs `DisarmInv`: an id
  is of a run of its own Dashboard, which exists (so a Dashboard that is shown later has
  none), and on the one shown a dispatch that is done has left an overlay, or was silent, or
  a disarm is among the writes. `alerted` gives no support, since a late answer
  resets it; the invariant holds because a disarm that has an id removes the overlay only
  in the step that queues its write, and the answer forgets the id in the step
  that takes the write away. `DispatchKeepsPromise` is the refinement: over
  these invariants each action is one of `SosPromise` or changes neither `doc` nor
  `tried`.
- `VoiceDetection_proofs`. `VoiceTypeCorrect`, `ScoreAlwaysUnderControl` and
  `RestartAlwaysUnderWay`; the last needs that a session ends with a restart and that
  a stop clears the listening flag.
- `CommunityNet_proofs`. The invariant is stated per group (`Good`, of its calls, its
  copies and the users cut): while it is not marred, the lists of the users who are not
  cut, and the count if nobody is, differ from the member documents exactly by what the
  calls in progress have written and still have to write, and these calls are of
  different users. A call that ends early moves from the calls to the cut, which
  only weakens what is said of it (`MoreCut`, `HalfKeeps`); a write that outlives its
  process changes only entries already cut (`OrphanKeeps`). `MembershipAlwaysAgrees` is the
  instance without calls. `Covered` does the same for each user who is not stale, with the
  screen's load and the broadcast's own list, and gives `ListAlwaysCovers` and
  `BroadcastAlwaysReaches`. The sets of users and
  groups are arbitrary; the users' must be finite, for the cardinalities.
- `RouteDecoding_proofs`. `DecodeInverts`: for every sequence of points the decoder gives
  points back, and other points than were encoded exactly if it runs in a browser and the
  route falls. The library's induction theorems take operators, which the provers cannot
  instantiate; `Induction` does the same for a *set* of numbers, from the least element
  of its complement, and each induction defines the set of the numbers it holds for. Three
  steps follow. `Recursion`, `GroupsDef`, `DecodingSteps` and `EncodingSteps` show that
  the recursive functions exist, so that their definitions are equations. `GroupsRead`, by
  induction over the bits, shows that the groups of a number are read as that number
  wherever they stand. `TracksAll`, by induction over the points, is the argument itself: no
  decoded coordinate is ever below the true one, and a fall read as a jump upwards
  can therefore never be made good by later errors; this is what turns "right unless
  it falls" into "wrong if and only if it falls".
- `Route_proofs`. The invariant has the types, the ownership of destination and route
  (only the latest trip's fetch is at work unless `late`) and the count of attempts at
  each place of a fetch. `Answered` says that the route is none or the decoded answer to
  `way`, and with `DecodeInverts` gives `AlwaysDecodesRoute` and `RouteTypeCorrect` for all
  routes, of any length.

Every safety property of the passing runs is thus a theorem. Only model-checked are
`RiskIsAnswered`, `OfflineNoticed`, `DispatchCompletes`, `FlushCompletes`,
`DispatchTerminates`, `DisabledGoesSilent`, `ListensAgain`, `EmergencyShown` and
`FetchEnds`, which are liveness (fairness and ENABLED are out of the prover's reach), and
the violated statements.

## 6. Not modelled

- Text of messages and timeline, coordinates, layout; formatting of phone numbers
  (no state, one line per case).
- Distances to the route and between positions: floating-point trigonometry, of
  which TLA+ has nothing to say; the detector takes their result as given.
- Chat messages and responses: single appends and server-side increments that no
  other part reads.
- Wearables beyond their triggers: devices are simulated in the code, and their list
  is written after each change.
- Keyword editing and the voice detector's log (lists kept for display); whom the
  shake handler messages; the periodic upload of the location.
- Login, PIN, settings, contacts and guardian screens, learning hub, parent
  notification, FCM: forms and content, or not on the alert path (see
  `PROJECT.json`). `functions/index.js` is cut in the middle in the repository.
- Vendored and generated code (`build/`, `ios/`, `android/`, `macos/`,
  `.dart_tool/`), which is nearly all of the repository's lines.

## 7. Plan

Done, in this order: `ShieldMonitor`, `Shield`, `SosDispatch`, `VoiceDetection`,
`SosPromise` with its refinement, `JourneySync`, `CommunityNet`, `Route`; each with its
safety proved, last `StaysDisarmable` and the decoding of routes.

Left, in the order of their worth:

1. `Wearables`: priority of watch and pendant, once the code talks to real devices.
2. An SOS and a shield emergency at a time, sharing Twilio and the connectivity: today
   they share no state, so that the composition would only be a product.
