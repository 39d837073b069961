--------------------------- MODULE ShieldMonitor ---------------------------
(***************************************************************************)
(* The risk detector of lib/silent_evidence_shield_service.dart: a trip is *)
(* started, a ten-second timer looks for four risk conditions, a risk opens *)
(* a safety check with a countdown, and an unanswered check becomes an     *)
(* emergency.  Every await of the Dart code ends an action here, so that    *)
(* callbacks interleave exactly where the event loop lets them.  What an   *)
(* emergency sends is in module Shield, which extends this one.            *)
(***************************************************************************)
EXTENDS Naturals

CONSTANTS
    MaxJourneys,      \* bound: how many trips a behaviour starts
    SafetyCountdown,  \* seconds of the safety check (15 in the code)
    StationaryLimit,  \* ticks without movement before a risk (60)
    DeviationLimit,   \* consecutive off-route ticks before a risk (3)
    LostLimit,        \* offline ticks before a risk (1)
    Conditions        \* what the surroundings may do: the user stands still,
                      \* a route is found (and may be left), the user is
                      \* late, the network fails, the Dashboard is left for
                      \* the stealth calculator or by a logout

ASSUME LimitsAssumption ==
    /\ MaxJourneys \in Nat \ {0}
    /\ SafetyCountdown \in Nat \ {0}
    /\ StationaryLimit \in Nat \ {0}
    /\ DeviationLimit \in Nat \ {0}
    /\ LostLimit \in Nat \ {0}
    /\ Conditions \subseteq {"still", "route", "late", "offline", "hidden"}

Journeys == 1..MaxJourneys
ShieldStatus == {"inactive", "monitoring", "riskDetected", "emergencyActive"}
Risks == {"Unexpected Stop", "Route Deviation", "Missed Destination",
          "Loss of Connectivity"}

VARIABLES
    status,         \* _status
    risk,           \* _activeRiskType, "none" for null
    checkActive,    \* _isSafetyCheckActive
    countdown,      \* _safetyCheckCountdown
    countdownTimer, \* _countdownTimer is running
    shown,          \* a Dashboard is mounted and not in stealthMode
    overlay,        \* it has the safety check on the screen
    journey,        \* number of the latest trip (0 before the first)
    start,          \* where each startJourney call is
    journeyTimer,   \* _journeyTimer is running
    tick,           \* where the timer callback in flight is
    stationary,     \* _stationarySeconds, in ticks
    deviation,      \* _deviationSeconds, in ticks
    lost,           \* _connectivityLostSeconds, in ticks
    overdue,        \* now is past _expectedArrivalTime + 5 min
    fetch,          \* where each _fetchAndStoreRoute call is
    dest,           \* _destLatitude and _destLongitude are set
    poly,           \* the trip whose route _routePolyline is, 0 when empty
    online,         \* the device has a network (environment)
    hasConn,        \* _hasConnectivity
    sub,            \* _connectivitySubscription listens
    connCheck,      \* the checkConnectivity() future is pending
    confirmed       \* history: risk confirmed safe since the last full tick

screenVars == <<shown, overlay>>
checkVars == <<status, risk, checkActive, countdown, countdownTimer, screenVars>>
startVars == <<journey, start>>
counterVars == <<stationary, deviation, lost>>
routeVars == <<fetch, dest, poly>>
netVars == <<online, hasConn, sub, connCheck>>
vars == <<checkVars, startVars, journeyTimer, tick, counterVars, overdue,
          routeVars, netVars, confirmed>>

FlagsOK ==
    /\ checkActive \in BOOLEAN /\ countdownTimer \in BOOLEAN
    /\ shown \in BOOLEAN       /\ overlay \in BOOLEAN
    /\ journeyTimer \in BOOLEAN
    /\ overdue \in BOOLEAN     /\ dest \in BOOLEAN
    /\ online \in BOOLEAN      /\ hasConn \in BOOLEAN
    /\ sub \in BOOLEAN         /\ connCheck \in BOOLEAN

DataOK ==
    /\ status \in ShieldStatus
    /\ risk \in Risks \cup {"none"}
    /\ confirmed \in Risks \cup {"none"}
    /\ countdown \in 1..SafetyCountdown
    /\ journey \in 0..MaxJourneys
    /\ start \in [Journeys -> {"none", "gps", "sync", "done"}]
    /\ tick \in {"idle", "gps", "probe"}
    /\ stationary \in Nat /\ deviation \in Nat /\ lost \in Nat
    /\ fetch \in [Journeys -> {"none", "geocode", "polyline"}]
    /\ poly \in 0..MaxJourneys

TypeOK == FlagsOK /\ DataOK

Init ==
    /\ status = "inactive"
    /\ risk = "none"
    /\ checkActive = FALSE
    /\ countdown = SafetyCountdown
    /\ countdownTimer = FALSE
    /\ shown = TRUE
    /\ overlay = FALSE
    /\ journey = 0
    /\ start = [j \in Journeys |-> "none"]
    /\ journeyTimer = FALSE
    /\ tick = "idle"
    /\ stationary = 0 /\ deviation = 0 /\ lost = 0
    /\ overdue = FALSE
    /\ fetch = [j \in Journeys |-> "none"]
    /\ dest = FALSE
    /\ poly = 0
    /\ online \in IF "offline" \in Conditions THEN BOOLEAN ELSE {TRUE}
    /\ hasConn = TRUE
    /\ sub = FALSE
    /\ connCheck = FALSE
    /\ confirmed = "none"

-----------------------------------------------------------------------------
(* What the user sees.  A page over the Dashboard only keeps the user from  *)
(* its buttons, and needs no state of its own.                              *)

\* notifyListeners: only a Dashboard that is mounted listens, and in stealth
\* mode it builds the calculator instead of its page.
Notify ==
    /\ overlay' = (checkActive' /\ shown)
    /\ UNCHANGED shown

\* The user switches to the calculator, or logs out.
LeaveDashboard ==
    /\ "hidden" \in Conditions
    /\ shown
    /\ shown' = FALSE
    /\ overlay' = FALSE
    /\ UNCHANGED <<status, risk, checkActive, countdown, countdownTimer,
                   startVars, journeyTimer, tick, counterVars, overdue,
                   routeVars, netVars, confirmed>>

\* The PIN typed into the calculator, or the next login, builds the page.
ReturnToDashboard ==
    /\ ~shown
    /\ shown' = TRUE
    /\ overlay' = checkActive
    /\ UNCHANGED <<status, risk, checkActive, countdown, countdownTimer,
                   startVars, journeyTimer, tick, counterVars, overdue,
                   routeVars, netVars, confirmed>>

-----------------------------------------------------------------------------
(* Starting a trip.  The settings sheet of the Dashboard's home page offers *)
(* the button only when it saw the shield inactive.                         *)

StartJourney ==
    /\ shown
    /\ status = "inactive"
    /\ journey < MaxJourneys
    /\ status' = "monitoring"
    /\ risk' = "none"
    /\ checkActive' = FALSE
    /\ stationary' = 0 /\ deviation' = 0 /\ lost' = 0
    /\ dest' = FALSE
    /\ poly' = 0
    /\ hasConn' = TRUE
    /\ journey' = journey + 1
    /\ start' = [start EXCEPT ![journey + 1] = "gps"]
    /\ confirmed' = "none"
    /\ UNCHANGED <<countdown, countdownTimer, screenVars, journeyTimer, tick,
                   overdue, fetch, online, sub, connCheck>>

\* The GPS fix arrives (or fails): the deadline is set, the connectivity
\* listener and the route fetch start, and the Firestore write is awaited.
StartGps(j) ==
    /\ start[j] = "gps"
    /\ start' = [start EXCEPT ![j] = "sync"]
    /\ overdue' = FALSE
    /\ sub' = TRUE
    /\ connCheck' = TRUE
    /\ fetch' = [fetch EXCEPT ![j] = "geocode"]
    /\ UNCHANGED <<checkVars, journey, journeyTimer, tick, counterVars, dest,
                   poly, online, hasConn, confirmed>>

\* A Firestore write is acknowledged by the server only: its future stays
\* pending as long as the device is offline, and with it the journey timer.
StartSynced(j) ==
    /\ start[j] = "sync"
    /\ online
    /\ start' = [start EXCEPT ![j] = "done"]
    /\ journeyTimer' = TRUE
    /\ UNCHANGED <<status, risk, checkActive, countdown, countdownTimer,
                   journey, tick, counterVars, overdue, routeVars, netVars,
                   confirmed>>
    /\ Notify

Geocode(j) ==
    /\ fetch[j] = "geocode"
    /\ \/ /\ online /\ "route" \in Conditions
          /\ dest' = TRUE
          /\ fetch' = [fetch EXCEPT ![j] = "polyline"]
       \/ /\ fetch' = [fetch EXCEPT ![j] = "none"]
          /\ UNCHANGED dest
    /\ UNCHANGED <<checkVars, startVars, journeyTimer, tick, counterVars,
                   overdue, poly, netVars, confirmed>>

FetchPolyline(j) ==
    /\ fetch[j] = "polyline"
    /\ \/ online /\ poly' = j
       \/ UNCHANGED poly
    /\ fetch' = [fetch EXCEPT ![j] = "none"]
    /\ UNCHANGED <<status, risk, checkActive, countdown, countdownTimer,
                   startVars, journeyTimer, tick, counterVars, overdue, dest,
                   netVars, confirmed>>
    /\ IF poly' = j THEN Notify ELSE UNCHANGED screenVars

-----------------------------------------------------------------------------
(* Connectivity                                                             *)

\* checkConnectivity() answers with what it finds; it never restores.
CheckConnectivity ==
    /\ connCheck
    /\ connCheck' = FALSE
    /\ \/ online /\ UNCHANGED hasConn
       \/ ~online /\ hasConn' = FALSE
    /\ UNCHANGED <<checkVars, startVars, journeyTimer, tick, counterVars,
                   overdue, routeVars, online, sub, confirmed>>

\* On the web the listener may miss that the network went away.
NetworkDown ==
    /\ "offline" \in Conditions
    /\ online
    /\ online' = FALSE
    /\ \/ UNCHANGED hasConn
       \/ sub /\ hasConn' = FALSE
    /\ UNCHANGED <<checkVars, startVars, journeyTimer, tick, counterVars,
                   overdue, routeVars, sub, connCheck, confirmed>>

Reconnects == sub /\ ~hasConn

\* A connectivity event with a network: the network returned, or it changed
\* from one kind to another.
NetworkUp ==
    /\ online' = TRUE
    /\ \/ Reconnects /\ hasConn' = TRUE /\ lost' = 0
       \/ ~Reconnects /\ UNCHANGED <<hasConn, lost>>
    /\ UNCHANGED <<checkVars, startVars, journeyTimer, tick, stationary,
                   deviation, overdue, routeVars, sub, connCheck, confirmed>>

-----------------------------------------------------------------------------
(* The ten-second timer callback: location, Firestore probe, risk rules.    *)

DeadlinePasses ==
    /\ "late" \in Conditions
    /\ status # "inactive"
    /\ ~overdue
    /\ overdue' = TRUE
    /\ UNCHANGED <<checkVars, startVars, journeyTimer, tick, counterVars,
                   routeVars, netVars, confirmed>>

\* A callback that finds the shield inactive stops its own timer; one that
\* finds an emergency or an open safety check does nothing.
TickStart ==
    /\ journeyTimer
    /\ tick = "idle"
    /\ \/ /\ status = "inactive"
          /\ journeyTimer' = FALSE
          /\ UNCHANGED tick
       \/ /\ status \notin {"inactive", "emergencyActive"}
          /\ ~checkActive
          /\ tick' = "gps"
          /\ UNCHANGED journeyTimer
    /\ UNCHANGED <<checkVars, startVars, counterVars, overdue, routeVars,
                   netVars, confirmed>>

\* Mutant: the risk is shown, but no countdown is started.
TriggerRiskNoCountdown(type) ==
    /\ status' = "riskDetected"
    /\ risk' = type
    /\ checkActive' = TRUE
    /\ countdown' = SafetyCountdown
    /\ UNCHANGED countdownTimer
    /\ Notify

\* _triggerRiskAutomatically, with the countdown it starts and the overlay if
\* there is a page to show it.
TriggerRisk(type) ==
    /\ status' = "riskDetected"
    /\ risk' = type
    /\ checkActive' = TRUE
    /\ countdown' = SafetyCountdown
    /\ countdownTimer' = TRUE
    /\ Notify

Monitoring == status = "monitoring"
Watching == Monitoring /\ dest /\ poly # 0

\* The risk rules in their order, the first that fires ends the callback.
Stopped == Monitoring /\ stationary' >= StationaryLimit
Strayed == Watching /\ deviation' >= DeviationLimit
Late == Monitoring /\ overdue
Cut == Monitoring /\ ~hasConn' /\ lost' >= LostLimit

MeasureDeviation ==
    \/ ~Watching /\ UNCHANGED deviation
    \/ Watching /\ deviation' \in {0, deviation + 1}

RiskRules ==
    \/ /\ Stopped
       /\ TriggerRisk("Unexpected Stop")
       /\ UNCHANGED <<deviation, lost>>
    \/ /\ ~Stopped
       /\ MeasureDeviation
       /\ \/ Strayed /\ TriggerRisk("Route Deviation") /\ UNCHANGED lost
          \/ /\ ~Strayed /\ Late
             /\ TriggerRisk("Missed Destination")
             /\ UNCHANGED lost
          \/ /\ ~Strayed /\ ~Late
             /\ \/ hasConn' /\ UNCHANGED lost
                \/ ~hasConn' /\ lost' = lost + 1
             /\ \/ Cut /\ TriggerRisk("Loss of Connectivity")
                \/ ~Cut /\ UNCHANGED checkVars

TickEnds ==
    /\ tick' = "idle"
    /\ RiskRules
    /\ confirmed' = "none"

\* The location is known (moved more than 5 m, or not); the rules follow at
\* once unless the Firestore probe is made first.
TickFix ==
    /\ tick = "gps"
    /\ \/ stationary' = 0
       \/ "still" \in Conditions /\ stationary' = stationary + 1
    /\ UNCHANGED hasConn
    /\ \/ /\ hasConn
          /\ tick' = "probe"
          /\ UNCHANGED <<checkVars, deviation, lost, confirmed>>
       \/ ~hasConn /\ TickEnds
    /\ UNCHANGED <<startVars, journeyTimer, overdue, routeVars, online, sub,
                   connCheck>>

\* Mutant: a failed probe is not taken for lost connectivity.
TickProbeNotInferring ==
    /\ tick = "probe"
    /\ UNCHANGED <<hasConn, stationary>>
    /\ TickEnds
    /\ UNCHANGED <<startVars, journeyTimer, overdue, routeVars, online, sub,
                   connCheck>>

\* The probe fails when the device is offline and may fail when it is not
\* (three-second timeout); a failure counts as lost connectivity.
TickProbe ==
    /\ tick = "probe"
    /\ \/ online /\ UNCHANGED hasConn
       \/ "offline" \in Conditions /\ hasConn' = FALSE
    /\ UNCHANGED stationary
    /\ TickEnds
    /\ UNCHANGED <<startVars, journeyTimer, overdue, routeVars, online, sub,
                   connCheck>>

-----------------------------------------------------------------------------
(* The safety check                                                         *)

\* Mutant: the countdown goes on at one.
CountdownTickPastOne ==
    /\ countdownTimer
    /\ countdown >= 1
    /\ countdown' = countdown - 1
    /\ UNCHANGED <<status, risk, checkActive, countdownTimer, startVars,
                   journeyTimer, tick, counterVars, overdue, routeVars,
                   netVars, confirmed>>
    /\ Notify

CountdownTick ==
    /\ countdownTimer
    /\ countdown > 1
    /\ countdown' = countdown - 1
    /\ UNCHANGED <<status, risk, checkActive, countdownTimer, startVars,
                   journeyTimer, tick, counterVars, overdue, routeVars,
                   netVars, confirmed>>
    /\ Notify

\* The countdown runs out.  Nothing is notified here: the overlay stays on
\* the screen until some later rebuild.
CountdownExpires ==
    /\ countdownTimer
    /\ countdown <= 1
    /\ countdownTimer' = FALSE
    /\ checkActive' = FALSE
    /\ status' = "emergencyActive"
    /\ UNCHANGED <<risk, countdown, screenVars, startVars, journeyTimer, tick,
                   counterVars, overdue, routeVars, netVars, confirmed>>

\* Mutant: the countdown goes on after "I AM SAFE".
ConfirmSafetyKeepingCountdown ==
    /\ overlay
    /\ checkActive' = FALSE
    /\ status' = "monitoring"
    /\ risk' = "none"
    /\ stationary' = 0 /\ deviation' = 0 /\ lost' = 0
    /\ confirmed' = risk
    /\ UNCHANGED <<countdown, countdownTimer, screenVars, startVars,
                   journeyTimer, tick, overdue, routeVars, netVars>>

\* Mutant: the counters keep what they have counted.
ConfirmSafetyKeepingCounters ==
    /\ overlay
    /\ countdownTimer' = FALSE
    /\ checkActive' = FALSE
    /\ status' = "monitoring"
    /\ risk' = "none"
    /\ confirmed' = risk
    /\ UNCHANGED <<countdown, screenVars, startVars, journeyTimer, tick,
                   counterVars, overdue, routeVars, netVars>>

\* The "I AM SAFE" button of the overlay; confirmSafety looks at no state.
ConfirmSafety ==
    /\ overlay
    /\ countdownTimer' = FALSE
    /\ checkActive' = FALSE
    /\ status' = "monitoring"
    /\ risk' = "none"
    /\ stationary' = 0 /\ deviation' = 0 /\ lost' = 0
    /\ confirmed' = risk
    /\ UNCHANGED <<countdown, screenVars, startVars, journeyTimer, tick,
                   overdue, routeVars, netVars>>

\* Mutant: the countdown survives the end of the trip.
ResolveJourneyKeepingCountdown ==
    /\ status # "inactive"
    /\ journeyTimer' = FALSE
    /\ sub' = FALSE
    /\ status' = "inactive"
    /\ checkActive' = FALSE
    /\ UNCHANGED <<risk, countdown, countdownTimer, screenVars, startVars,
                   tick, counterVars, overdue, routeVars, online, hasConn,
                   connCheck, confirmed>>

\* Mutant: the end of the trip forgets the risk, as the start of one does.
ResolveJourneyForgettingRisk ==
    /\ status # "inactive"
    /\ countdownTimer' = FALSE
    /\ journeyTimer' = FALSE
    /\ sub' = FALSE
    /\ status' = "inactive"
    /\ risk' = "none"
    /\ checkActive' = FALSE
    /\ UNCHANGED <<countdown, screenVars, startVars, tick, counterVars,
                   overdue, routeVars, online, hasConn, connCheck, confirmed>>

\* The settings sheet ends a trip it saw active; the PIN pad does the same,
\* and opens after an await, by then perhaps over the calculator.
ResolveJourney ==
    /\ status # "inactive"
    /\ countdownTimer' = FALSE
    /\ journeyTimer' = FALSE
    /\ sub' = FALSE
    /\ status' = "inactive"
    /\ checkActive' = FALSE
    /\ UNCHANGED <<risk, countdown, screenVars, startVars, tick, counterVars,
                   overdue, routeVars, online, hasConn, connCheck, confirmed>>

\* The notifyListeners after an await, or any other rebuild of the Dashboard.
Rebuild ==
    /\ overlay # (checkActive /\ shown)
    /\ UNCHANGED <<status, risk, checkActive, countdown, countdownTimer,
                   startVars, journeyTimer, tick, counterVars, overdue,
                   routeVars, netVars, confirmed>>
    /\ Notify

-----------------------------------------------------------------------------
Next ==
    \/ StartJourney
    \/ \E j \in Journeys : StartGps(j) \/ StartSynced(j)
    \/ \E j \in Journeys : Geocode(j) \/ FetchPolyline(j)
    \/ CheckConnectivity \/ NetworkDown \/ NetworkUp
    \/ DeadlinePasses
    \/ TickStart \/ TickFix \/ TickProbe
    \/ CountdownTick \/ CountdownExpires
    \/ ConfirmSafety \/ ResolveJourney
    \/ Rebuild \/ LeaveDashboard \/ ReturnToDashboard

Spec == Init /\ [][Next]_vars

\* Timers fire and pending futures complete; a Firestore write completes only
\* when the device stays online.  The user, the network and rebuilds owe
\* nothing.
Fairness ==
    /\ WF_vars(CountdownTick) /\ WF_vars(CountdownExpires)
    /\ WF_vars(TickStart) /\ WF_vars(TickFix) /\ WF_vars(TickProbe)
    /\ WF_vars(CheckConnectivity)
    /\ \A j \in Journeys : WF_vars(StartGps(j)) /\ WF_vars(StartSynced(j))

FairSpec == Spec /\ Fairness

-----------------------------------------------------------------------------
(* Properties                                                               *)

\* A detected risk, the flag that shows the safety check and the running
\* countdown always go together; while they last the overlay is on the screen
\* whenever a Dashboard is, also one that was left and is built again.  (In
\* stealth mode and after a logout the check runs unseen.)
\* A named risk rules out a monitored trip and a timer callback in the middle
\* of its awaits, so that no callback can raise a second risk over the first.
SafetyCheckConsistent ==
    /\ checkActive <=> status = "riskDetected"
    /\ countdownTimer <=> checkActive
    /\ overlay => shown
    /\ checkActive /\ shown => overlay
    /\ checkActive => risk # "none"
    /\ risk # "none" => status # "monitoring" /\ tick = "idle"

\* No step starts an emergency except the end of a full countdown that was not
\* answered, and that any Dashboard then on the screen showed: not a late timer
\* callback, not the countdown of a check already confirmed or of a trip
\* already ended.  It need not have been seen: nothing waits for a Dashboard.
EmergencyOnlyUnanswered ==
    [][status' = "emergencyActive" /\ status # "emergencyActive"
         => /\ status = "riskDetected"
            /\ countdown = 1
            /\ shown => overlay]_vars

\* Comment at confirmSafety: "Reset all counters so same condition doesn't
\* immediately re-trigger".  It holds of the two conditions that are counted
\* over several ticks: the first tick after "I AM SAFE" never raises again
\* the risk just answered.
CountedRiskNotRetriggered ==
    [][risk' # risk /\ risk' \in {"Unexpected Stop", "Route Deviation"}
         => risk' # confirmed]_vars

\* The same comment, of every condition.
ConfirmedRiskNotRetriggered ==
    [][risk' # risk /\ risk' # "none" => risk' # confirmed]_vars

\* The counters behind CountedRiskNotRetriggered: a confirmed stop has at most
\* the measurement of the callback in flight, a confirmed deviation none.
ConfirmedCounters ==
    /\ confirmed = "Unexpected Stop" => stationary \in {0, 1}
    /\ confirmed = "Unexpected Stop" /\ tick # "probe" => stationary = 0
    /\ confirmed = "Route Deviation" => deviation = 0

\* Every detected risk is answered, by the user or by the end of the
\* countdown: the check cannot hang.
RiskIsAnswered == status = "riskDetected" ~> status # "riskDetected"

\* While its timer runs, a monitored trip that loses the network is noticed,
\* even if no connectivity event ever comes: the probe stands in for it.
OfflineNoticed ==
    (journeyTimer /\ status = "monitoring" /\ ~online)
        ~> (status # "monitoring" \/ online)

=============================================================================
