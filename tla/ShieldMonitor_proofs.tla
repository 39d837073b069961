------------------------ MODULE ShieldMonitor_proofs ------------------------
(***************************************************************************)
(* What ShieldMonitor keeps for every number of trips and every limit.      *)
(***************************************************************************)
EXTENDS ShieldMonitor, TLAPS

\* What the end of a timer callback can do to the safety check.
LEMMA RulesCheck ==
    ASSUME RiskRules
    PROVE  (\E r \in Risks : TriggerRisk(r)) \/ UNCHANGED checkVars
  BY DEF RiskRules, Risks

\* What the end of a timer callback can do to its counters.
LEMMA RulesCounters ==
    ASSUME RiskRules
    PROVE  /\ UNCHANGED deviation \/ deviation' \in {0, deviation + 1}
           /\ UNCHANGED lost \/ lost' = lost + 1
  BY DEF RiskRules, MeasureDeviation

\* A rebuilt page keeps the screen's flags Boolean.
LEMMA NotifyFlags ==
    ASSUME FlagsOK, Notify PROVE overlay' \in BOOLEAN /\ shown' \in BOOLEAN
  BY DEF FlagsOK, Notify

\* The flags stay Boolean.
LEMMA FlagsCorrect == FlagsOK /\ [Next]_vars => FlagsOK'
<1> SUFFICES ASSUME FlagsOK, [Next]_vars PROVE FlagsOK'
  OBVIOUS
<1> USE DEF FlagsOK, screenVars
<1>1. CASE StartJourney
  BY <1>1 DEF StartJourney
<1>2. ASSUME NEW j \in Journeys, StartGps(j) PROVE FlagsOK'
  BY <1>2 DEF StartGps, checkVars
<1>3. ASSUME NEW j \in Journeys, StartSynced(j) PROVE FlagsOK'
  BY <1>3, NotifyFlags DEF StartSynced, routeVars, netVars
<1>4. ASSUME NEW j \in Journeys, Geocode(j) PROVE FlagsOK'
  <2>1. dest' \in BOOLEAN
    BY <1>4 DEF Geocode
  <2>2. UNCHANGED <<checkVars, journeyTimer, overdue, netVars>>
    BY <1>4 DEF Geocode
  <2> QED BY <2>1, <2>2 DEF checkVars, netVars
<1>5. ASSUME NEW j \in Journeys, FetchPolyline(j) PROVE FlagsOK'
  BY <1>5, NotifyFlags DEF FetchPolyline, netVars
<1>6. CASE CheckConnectivity
  BY <1>6 DEF CheckConnectivity, checkVars, routeVars
<1>7. CASE NetworkDown
  BY <1>7 DEF NetworkDown, checkVars, routeVars
<1>8. CASE NetworkUp
  <2>1. online' = TRUE /\ hasConn' \in BOOLEAN
    BY <1>8 DEF NetworkUp
  <2>2. UNCHANGED <<checkVars, journeyTimer, overdue, routeVars, sub, connCheck>>
    BY <1>8 DEF NetworkUp
  <2> QED BY <2>1, <2>2 DEF checkVars, routeVars
<1>9. CASE DeadlinePasses
  BY <1>9 DEF DeadlinePasses, checkVars, routeVars, netVars
<1>10. CASE TickStart
  BY <1>10 DEF TickStart, checkVars, routeVars, netVars
<1>11. ASSUME TickEnds PROVE /\ checkActive' \in BOOLEAN
                             /\ countdownTimer' \in BOOLEAN
                             /\ overlay' \in BOOLEAN /\ shown' \in BOOLEAN
  BY <1>11, RulesCheck, NotifyFlags DEF TickEnds, TriggerRisk, checkVars
<1>12. CASE TickFix
  <2>1. /\ UNCHANGED <<journeyTimer, overdue, routeVars, online, sub, connCheck,
                       hasConn>>
        /\ UNCHANGED checkVars \/ TickEnds
    BY <1>12 DEF TickFix
  <2> QED BY <2>1, <1>11 DEF checkVars, routeVars
<1>13. CASE TickProbe
  <2>1. /\ UNCHANGED <<journeyTimer, overdue, routeVars, online, sub, connCheck>>
        /\ hasConn' \in BOOLEAN
        /\ TickEnds
    BY <1>13 DEF TickProbe
  <2> QED BY <2>1, <1>11 DEF routeVars
<1>14. CASE CountdownTick
  BY <1>14, NotifyFlags DEF CountdownTick, routeVars, netVars
<1>15. CASE CountdownExpires
  BY <1>15 DEF CountdownExpires, routeVars, netVars
<1>16. CASE ConfirmSafety
  BY <1>16 DEF ConfirmSafety, routeVars, netVars
<1>17. CASE ResolveJourney
  BY <1>17 DEF ResolveJourney, routeVars
<1>18. CASE Rebuild
  BY <1>18, NotifyFlags DEF Rebuild, routeVars, netVars
<1>19. CASE UNCHANGED vars
  BY <1>19 DEF vars, checkVars, routeVars, netVars
<1>20. CASE LeaveDashboard
  BY <1>20 DEF LeaveDashboard, routeVars, netVars
<1>21. CASE ReturnToDashboard
  BY <1>21 DEF ReturnToDashboard, routeVars, netVars
<1> QED
  BY <1>1, <1>2, <1>3, <1>4, <1>5, <1>6, <1>7, <1>8, <1>9, <1>10, <1>12,
     <1>13, <1>14, <1>15, <1>16, <1>17, <1>18, <1>19, <1>20, <1>21
  DEF Next

\* The other variables keep their types.
LEMMA DataCorrect == DataOK /\ [Next]_vars => DataOK'
<1> SUFFICES ASSUME DataOK, [Next]_vars PROVE DataOK'
  OBVIOUS
<1> USE LimitsAssumption DEF DataOK, Journeys, Notify, screenVars
<1>1. CASE StartJourney
  BY <1>1 DEF StartJourney, ShieldStatus
<1>2. ASSUME NEW j \in Journeys, StartGps(j) PROVE DataOK'
  BY <1>2 DEF StartGps, checkVars, counterVars
<1>3. ASSUME NEW j \in Journeys, StartSynced(j) PROVE DataOK'
  BY <1>3 DEF StartSynced, counterVars, routeVars
<1>4. ASSUME NEW j \in Journeys, Geocode(j) PROVE DataOK'
  BY <1>4 DEF Geocode, checkVars, startVars, counterVars
<1>5. ASSUME NEW j \in Journeys, FetchPolyline(j) PROVE DataOK'
  BY <1>5 DEF FetchPolyline, startVars, counterVars
<1>6. CASE CheckConnectivity
  BY <1>6 DEF CheckConnectivity, checkVars, startVars, counterVars, routeVars
<1>7. CASE NetworkDown
  BY <1>7 DEF NetworkDown, checkVars, startVars, counterVars, routeVars
<1>8. CASE NetworkUp
  <2>1. lost' \in Nat
    BY <1>8 DEF NetworkUp
  <2>2. UNCHANGED <<status, risk, confirmed, countdown, startVars, tick,
                    stationary, deviation, routeVars>>
    BY <1>8 DEF NetworkUp, checkVars
  <2> QED BY <2>1, <2>2 DEF startVars, routeVars
<1>9. CASE DeadlinePasses
  BY <1>9 DEF DeadlinePasses, checkVars, startVars, counterVars, routeVars
<1>10. CASE TickStart
  BY <1>10 DEF TickStart, checkVars, startVars, counterVars, routeVars
<1>11. ASSUME TickEnds
       PROVE  /\ status' \in ShieldStatus /\ risk' \in Risks \cup {"none"}
              /\ countdown' \in 1..SafetyCountdown
              /\ confirmed' = "none" /\ tick' = "idle"
              /\ deviation' \in Nat /\ lost' \in Nat
  <2>1. /\ status' \in {status, "riskDetected"}
        /\ risk' \in Risks \cup {risk}
        /\ countdown' \in {countdown, SafetyCountdown}
    BY <1>11, RulesCheck DEF TickEnds, TriggerRisk, checkVars
  <2>2. /\ deviation' \in {deviation, 0, deviation + 1}
        /\ lost' \in {lost, lost + 1}
    BY <1>11, RulesCounters DEF TickEnds
  <2>3. confirmed' = "none" /\ tick' = "idle"
    BY <1>11 DEF TickEnds
  <2> QED BY <2>1, <2>2, <2>3 DEF ShieldStatus
<1>12. CASE TickFix
  <2>1. /\ stationary' \in {0, stationary + 1}
        /\ UNCHANGED <<startVars, routeVars>>
    BY <1>12 DEF TickFix
  <2>2. CASE TickEnds
    BY <2>1, <2>2, <1>11 DEF startVars, routeVars
  <2>3. CASE tick' = "probe" /\ UNCHANGED <<checkVars, deviation, lost, confirmed>>
    BY <2>1, <2>3 DEF checkVars, startVars, routeVars
  <2> QED BY <1>12, <2>2, <2>3 DEF TickFix
<1>13. CASE TickProbe
  <2>1. UNCHANGED <<stationary, startVars, routeVars>> /\ TickEnds
    BY <1>13 DEF TickProbe
  <2> QED BY <2>1, <1>11 DEF startVars, routeVars
<1>14. CASE CountdownTick
  BY <1>14 DEF CountdownTick, startVars, counterVars, routeVars
<1>15. CASE CountdownExpires
  BY <1>15 DEF CountdownExpires, startVars, counterVars, routeVars, ShieldStatus
<1>16. CASE ConfirmSafety
  BY <1>16 DEF ConfirmSafety, startVars, routeVars, ShieldStatus
<1>17. CASE ResolveJourney
  BY <1>17 DEF ResolveJourney, startVars, counterVars, routeVars, ShieldStatus
<1>18. CASE Rebuild
  BY <1>18 DEF Rebuild, startVars, counterVars, routeVars
<1>19. CASE UNCHANGED vars
  BY <1>19 DEF vars, checkVars, startVars, counterVars, routeVars
<1>20. CASE LeaveDashboard \/ ReturnToDashboard
  BY <1>20 DEF LeaveDashboard, ReturnToDashboard, startVars, counterVars,
               routeVars
<1> QED
  BY <1>1, <1>2, <1>3, <1>4, <1>5, <1>6, <1>7, <1>8, <1>9, <1>10, <1>12,
     <1>13, <1>14, <1>15, <1>16, <1>17, <1>18, <1>19, <1>20 DEF Next

\* The variables of ShieldMonitor keep their types, whatever order timers,
\* futures and taps run in.
THEOREM MonitorTypeCorrect == Spec => []TypeOK
<1>1. Init => FlagsOK
  BY DEF Init, FlagsOK
<1>2. Init => DataOK
  BY LimitsAssumption DEF Init, DataOK, ShieldStatus
<1>3. TypeOK /\ [Next]_vars => TypeOK'
  BY FlagsCorrect, DataCorrect DEF TypeOK
<1> QED
  BY <1>1, <1>2, <1>3, PTL DEF Spec, TypeOK

-----------------------------------------------------------------------------
\* Every step keeps flag, countdown, overlay and risk together.
LEMMA SafetyCheckInductive ==
    TypeOK /\ SafetyCheckConsistent /\ [Next]_vars => SafetyCheckConsistent'
<1> SUFFICES ASSUME TypeOK, SafetyCheckConsistent, [Next]_vars
             PROVE  SafetyCheckConsistent'
  OBVIOUS
<1> USE DEF SafetyCheckConsistent, Notify, screenVars
<1>1. CASE StartJourney
  BY <1>1 DEF StartJourney
<1>2. ASSUME NEW j \in Journeys, StartGps(j) PROVE SafetyCheckConsistent'
  BY <1>2 DEF StartGps, checkVars
<1>3. ASSUME NEW j \in Journeys, StartSynced(j) PROVE SafetyCheckConsistent'
  BY <1>3 DEF StartSynced
<1>4. ASSUME NEW j \in Journeys, Geocode(j) PROVE SafetyCheckConsistent'
  BY <1>4 DEF Geocode, checkVars
<1>5. ASSUME NEW j \in Journeys, FetchPolyline(j) PROVE SafetyCheckConsistent'
  BY <1>5 DEF FetchPolyline
<1>6. CASE CheckConnectivity \/ NetworkDown \/ NetworkUp \/ DeadlinePasses
  BY <1>6 DEF CheckConnectivity, NetworkDown, NetworkUp, DeadlinePasses,
              checkVars
<1>7. CASE TickStart
  <2>1. UNCHANGED checkVars
    BY <1>7 DEF TickStart
  <2>2. status \in ShieldStatus
    BY DEF TypeOK, DataOK
  <2>3. \/ UNCHANGED tick
        \/ status \notin {"inactive", "emergencyActive"} /\ ~checkActive
    BY <1>7 DEF TickStart
  <2>4. UNCHANGED tick \/ status = "monitoring"
    BY <2>2, <2>3 DEF ShieldStatus
  <2>5. UNCHANGED tick \/ risk = "none"
    BY <2>4
  <2> QED BY <2>1, <2>5 DEF checkVars
<1>8. ASSUME TickEnds PROVE SafetyCheckConsistent'
  <2>1. CASE UNCHANGED checkVars
    BY <1>8, <2>1 DEF TickEnds, checkVars
  <2>2. ASSUME NEW r \in Risks, TriggerRisk(r) PROVE SafetyCheckConsistent'
    BY <1>8, <2>2 DEF TickEnds, TriggerRisk, Risks
  <2> QED BY <1>8, <2>1, <2>2, RulesCheck DEF TickEnds
<1>9. CASE TickFix
  BY <1>8, <1>9 DEF TickFix, checkVars
<1>10. CASE TickProbe
  BY <1>8, <1>10 DEF TickProbe
<1>11. CASE CountdownTick
  BY <1>11 DEF CountdownTick
<1>12. CASE CountdownExpires
  BY <1>12 DEF CountdownExpires
<1>13. CASE ConfirmSafety
  BY <1>13 DEF ConfirmSafety
<1>14. CASE ResolveJourney
  BY <1>14 DEF ResolveJourney
<1>15. CASE Rebuild
  BY <1>15 DEF Rebuild
<1>16. CASE UNCHANGED vars
  BY <1>16 DEF vars, checkVars
<1>17. CASE LeaveDashboard \/ ReturnToDashboard
  BY <1>17 DEF LeaveDashboard, ReturnToDashboard
<1> QED
  BY <1>1, <1>2, <1>3, <1>4, <1>5, <1>6, <1>7, <1>9, <1>10, <1>11, <1>12,
     <1>13, <1>14, <1>15, <1>16, <1>17 DEF Next

\* The safety check is consistent in every state: the flag, the countdown, the
\* named risk and the overlay of a Dashboard on the screen never come apart.
THEOREM SafetyCheckAlways == Spec => []SafetyCheckConsistent
<1>1. Init => SafetyCheckConsistent
  BY DEF Init, SafetyCheckConsistent
<1>2. TypeOK /\ SafetyCheckConsistent /\ [Next]_vars => SafetyCheckConsistent'
  BY SafetyCheckInductive
<1> QED
  BY <1>1, <1>2, MonitorTypeCorrect, PTL DEF Spec

\* An emergency starts only at the end of an unanswered countdown, which a
\* Dashboard on the screen was showing, for every trip and every interleaving.
THEOREM EmergencyNeedsUnansweredCheck == Spec => EmergencyOnlyUnanswered
<1> DEFINE Guarded == status' = "emergencyActive" /\ status # "emergencyActive"
                        => /\ status = "riskDetected"
                           /\ countdown = 1
                           /\ shown => overlay
<1>1. TypeOK /\ SafetyCheckConsistent /\ [Next]_vars => [Guarded]_vars
  <2> SUFFICES ASSUME TypeOK, SafetyCheckConsistent, Next,
                      status' = "emergencyActive", status # "emergencyActive"
               PROVE  /\ status = "riskDetected"
                      /\ countdown = 1
                      /\ shown => overlay
    OBVIOUS
  <2>1. CASE CountdownExpires
    <3>1. countdownTimer /\ countdown <= 1
      BY <2>1 DEF CountdownExpires
    <3>2. countdown \in 1..SafetyCountdown
      BY DEF TypeOK, DataOK
    <3>3. countdown = 1
      BY <3>1, <3>2, LimitsAssumption
    <3> QED BY <3>1, <3>3 DEF SafetyCheckConsistent
  <2>2. ASSUME TickEnds PROVE FALSE
    BY <2>2, RulesCheck DEF TickEnds, TriggerRisk, checkVars
  <2>3. ~TickFix /\ ~TickProbe
    BY <2>2 DEF TickFix, TickProbe, checkVars
  <2>4. /\ ~StartJourney /\ ~CheckConnectivity /\ ~NetworkDown /\ ~NetworkUp
        /\ ~DeadlinePasses /\ ~TickStart /\ ~CountdownTick /\ ~ConfirmSafety
        /\ ~ResolveJourney /\ ~Rebuild /\ ~LeaveDashboard /\ ~ReturnToDashboard
    BY DEF StartJourney, CheckConnectivity, NetworkDown, NetworkUp,
           DeadlinePasses, TickStart, CountdownTick, ConfirmSafety,
           ResolveJourney, Rebuild, LeaveDashboard, ReturnToDashboard, checkVars
  <2>5. ASSUME NEW j \in Journeys
        PROVE  ~StartGps(j) /\ ~StartSynced(j) /\ ~Geocode(j) /\ ~FetchPolyline(j)
    BY DEF StartGps, StartSynced, Geocode, FetchPolyline, checkVars
  <2> QED
    BY <2>1, <2>3, <2>4, <2>5 DEF Next
<1> QED
  BY <1>1, MonitorTypeCorrect, SafetyCheckAlways, PTL
     DEF Spec, EmergencyOnlyUnanswered

-----------------------------------------------------------------------------
\* One measurement from zero.
LEMMA ZeroPlusOne == 0 + 1 = 1
  OBVIOUS

\* One tick without movement is below a limit of two.
LEMMA OneTickIsNoStop ==
    ASSUME StationaryLimit >= 2, stationary' \in {0, 0 + 1}
    PROVE  ~Stopped
  BY LimitsAssumption DEF Stopped

\* One tick off the route is below a limit of two.
LEMMA OneTickIsNoDeviation ==
    ASSUME DeviationLimit >= 2, deviation' \in {0, 0 + 1}
    PROVE  ~Strayed
  BY LimitsAssumption DEF Strayed

\* The counters behind a confirmed risk stay where confirmSafety put them,
\* but for the measurement of the callback in flight.
LEMMA ConfirmedCountersInductive ==
    TypeOK /\ ConfirmedCounters /\ [Next]_vars => ConfirmedCounters'
<1> SUFFICES ASSUME TypeOK, ConfirmedCounters, [Next]_vars
             PROVE  ConfirmedCounters'
  OBVIOUS
<1> USE DEF ConfirmedCounters
<1>1. CASE StartJourney \/ TickEnds
  BY <1>1 DEF StartJourney, TickEnds
<1>2. CASE ConfirmSafety
  BY <1>2 DEF ConfirmSafety
<1>3. CASE TickStart
  BY <1>3 DEF TickStart, counterVars
<1>4. CASE TickFix
  <2>1. CASE TickEnds
    BY <1>1, <2>1
  <2>2. CASE tick' = "probe" /\ UNCHANGED <<deviation, confirmed>>
    <3>1. tick = "gps" /\ stationary' \in {0, stationary + 1}
      BY <1>4 DEF TickFix
    <3>2. confirmed = "Unexpected Stop" => stationary = 0
      BY <3>1
    <3>3. confirmed = "Unexpected Stop" => stationary' \in {0, 0 + 1}
      BY <3>1, <3>2
    <3> QED BY <2>2, <3>3, ZeroPlusOne
  <2> QED BY <1>4, <2>1, <2>2 DEF TickFix
<1>5. CASE TickProbe
  BY <1>1, <1>5 DEF TickProbe
<1>6. ASSUME UNCHANGED <<confirmed, tick, stationary, deviation>>
      PROVE  ConfirmedCounters'
  BY <1>6
<1>7. ASSUME NEW j \in Journeys,
             StartGps(j) \/ StartSynced(j) \/ Geocode(j) \/ FetchPolyline(j)
      PROVE  ConfirmedCounters'
  BY <1>6, <1>7 DEF StartGps, StartSynced, Geocode, FetchPolyline, counterVars
<1>8. CASE CheckConnectivity \/ NetworkDown \/ NetworkUp \/ DeadlinePasses
  BY <1>6, <1>8 DEF CheckConnectivity, NetworkDown, NetworkUp, DeadlinePasses,
                    counterVars
<1>9. CASE \/ CountdownTick \/ CountdownExpires \/ ResolveJourney
          \/ Rebuild \/ LeaveDashboard \/ ReturnToDashboard
  BY <1>6, <1>9 DEF CountdownTick, CountdownExpires, ResolveJourney, Rebuild,
                    LeaveDashboard, ReturnToDashboard, counterVars
<1>10. CASE UNCHANGED vars
  BY <1>6, <1>10 DEF vars, counterVars
<1> QED
  BY <1>1, <1>2, <1>3, <1>4, <1>5, <1>7, <1>8, <1>9, <1>10 DEF Next

\* With limits of at least two ticks (the code has 60 and 3) the first tick
\* after "I AM SAFE" never raises the counted risk just answered.
THEOREM CountedRiskRests ==
    ASSUME StationaryLimit >= 2, DeviationLimit >= 2
    PROVE  Spec => CountedRiskNotRetriggered
<1> DEFINE Counted == {"Unexpected Stop", "Route Deviation"}
           Rests == risk' # risk /\ risk' \in Counted => risk' # confirmed
<1>1. Init => ConfirmedCounters
  BY DEF Init, ConfirmedCounters
<1>2. TypeOK /\ ConfirmedCounters /\ [Next]_vars => [Rests]_vars
  <2> SUFFICES ASSUME TypeOK, ConfirmedCounters, Next,
                      risk' # risk, risk' \in Counted, risk' = confirmed
               PROVE  FALSE
    OBVIOUS
  <2>1. stationary \in Nat /\ deviation \in Nat
    BY DEF TypeOK, DataOK
  <2>2. ASSUME TickEnds PROVE \/ risk' = "Unexpected Stop" /\ Stopped
                              \/ risk' = "Route Deviation" /\ MeasureDeviation
                                                           /\ Strayed
    BY <2>2 DEF TickEnds, RiskRules, TriggerRisk, checkVars
  <2>3. ASSUME stationary' \in {0, 0 + 1} PROVE ~Stopped
    BY <2>3, OneTickIsNoStop
  <2>4. ASSUME deviation = 0, MeasureDeviation PROVE ~Strayed
    <3>1. deviation' \in {0, 0 + 1}
      BY <2>4 DEF MeasureDeviation
    <3> QED BY <3>1, OneTickIsNoDeviation
  <2>5. ASSUME TickEnds,
               confirmed = "Unexpected Stop" => stationary' \in {0, 0 + 1}
        PROVE  FALSE
    <3>1. CASE risk' = "Unexpected Stop"
      BY <2>2, <2>3, <2>5, <3>1
    <3>2. CASE risk' = "Route Deviation"
      BY <2>2, <2>4, <2>5, <3>2 DEF ConfirmedCounters
    <3> QED BY <3>1, <3>2
  <2>6. CASE TickFix
    <3>1. TickEnds
      BY <2>6 DEF TickFix, checkVars
    <3>2. tick = "gps" /\ stationary' \in {0, stationary + 1}
      BY <2>6 DEF TickFix
    <3>3. confirmed = "Unexpected Stop" => stationary = 0
      BY <3>2 DEF ConfirmedCounters
    <3> QED BY <2>5, <3>1, <3>2, <3>3
  <2>7. CASE TickProbe
    <3>1. TickEnds /\ stationary' = stationary
      BY <2>7 DEF TickProbe
    <3>2. confirmed = "Unexpected Stop" => stationary \in {0, 1}
      BY DEF ConfirmedCounters
    <3> QED BY <2>5, <3>1, <3>2, ZeroPlusOne
  <2>8. /\ ~StartJourney /\ ~CheckConnectivity /\ ~NetworkDown /\ ~NetworkUp
        /\ ~DeadlinePasses /\ ~TickStart /\ ~CountdownTick /\ ~CountdownExpires
        /\ ~ConfirmSafety /\ ~ResolveJourney /\ ~Rebuild /\ ~LeaveDashboard
        /\ ~ReturnToDashboard
    BY DEF StartJourney, CheckConnectivity, NetworkDown, NetworkUp,
           DeadlinePasses, TickStart, CountdownTick, CountdownExpires,
           ConfirmSafety, ResolveJourney, Rebuild, LeaveDashboard,
           ReturnToDashboard, checkVars
  <2>9. ASSUME NEW j \in Journeys
        PROVE  ~StartGps(j) /\ ~StartSynced(j) /\ ~Geocode(j) /\ ~FetchPolyline(j)
    BY DEF StartGps, StartSynced, Geocode, FetchPolyline, checkVars
  <2> QED
    BY <2>6, <2>7, <2>8, <2>9 DEF Next
<1> QED
  BY <1>1, <1>2, ConfirmedCountersInductive, MonitorTypeCorrect, PTL
     DEF Spec, CountedRiskNotRetriggered

=============================================================================
