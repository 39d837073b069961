------------------------ MODULE VoiceDetection_proofs ------------------------
(***************************************************************************)
(* What the voice detector keeps for every threshold, every set of hits and *)
(* every number of settings and starts under way.                           *)
(***************************************************************************)
EXTENDS VoiceDetection, TLAPS

\* The flags stay Boolean.
LEMMA FlagsCorrect == FlagsOK /\ [Next]_vars => FlagsOK'
<1> SUFFICES ASSUME FlagsOK, [Next]_vars PROVE FlagsOK'
  OBVIOUS
<1> USE DEF FlagsOK
<1>1. CASE OpenDashboard
  BY <1>1 DEF OpenDashboard, scoreVars
<1>2. CASE StartReady
  BY <1>2 DEF StartReady, scoreVars
<1>3. CASE StartFails
  BY <1>3 DEF StartFails, scoreVars
<1>4. CASE SessionEnds
  BY <1>4 DEF SessionEnds, scoreVars
<1>5. CASE RestartFires
  BY <1>5 DEF RestartFires, scoreVars
<1>6. ASSUME NEW c \in Calls, NEW value \in BOOLEAN, SetEnabled(c, value) PROVE FlagsOK'
  BY <1>6 DEF SetEnabled, scoreVars
<1>7. ASSUME NEW c \in Calls, SetSelectedLanguage(c) PROVE FlagsOK'
  BY <1>7 DEF SetSelectedLanguage, scoreVars
<1>8. ASSUME NEW c \in Calls, SettingStored(c) PROVE FlagsOK'
  BY <1>8 DEF SettingStored, CallStop, scoreVars
<1>9. ASSUME NEW c \in Calls, Stopped(c) PROVE FlagsOK'
  BY <1>9 DEF Stopped
<1>10. ASSUME NEW hit \in Hits, IncreasePanicScore(hit) PROVE FlagsOK'
  BY <1>10 DEF IncreasePanicScore, sessionVars
<1>11. CASE DecayStarts
  BY <1>11 DEF DecayStarts, sessionVars
<1>12. CASE DecayScore
  BY <1>12 DEF DecayScore, sessionVars
<1>13. CASE CooldownEnds
  BY <1>13 DEF CooldownEnds, sessionVars
<1>14. CASE UNCHANGED vars
  BY <1>14 DEF vars, sessionVars, scoreVars
<1> QED
  BY <1>1, <1>2, <1>3, <1>4, <1>5, <1>6, <1>7, <1>8, <1>9,
     <1>10, <1>11, <1>12, <1>13, <1>14 DEF Next

\* The other variables keep their types.
LEMMA DataCorrect == DataOK /\ [Next]_vars => DataOK'
<1> SUFFICES ASSUME DataOK, [Next]_vars PROVE DataOK'
  OBVIOUS
<1> USE VoiceAssumption DEF DataOK
<1>1. CASE OpenDashboard
  BY <1>1 DEF OpenDashboard, CallStart, scoreVars
<1>2. CASE StartReady
  BY <1>2 DEF StartReady, scoreVars
<1>3. CASE StartFails
  BY <1>3 DEF StartFails, scoreVars
<1>4. CASE SessionEnds
  BY <1>4 DEF SessionEnds, AddRestarts, scoreVars
<1>5. CASE RestartFires
  BY <1>5 DEF RestartFires, CallStart, scoreVars
<1>6. ASSUME NEW c \in Calls, NEW value \in BOOLEAN, SetEnabled(c, value) PROVE DataOK'
  BY <1>6 DEF SetEnabled, scoreVars
<1>7. ASSUME NEW c \in Calls, SetSelectedLanguage(c) PROVE DataOK'
  BY <1>7 DEF SetSelectedLanguage, scoreVars
<1>8. ASSUME NEW c \in Calls, SettingStored(c) PROVE DataOK'
  BY <1>8 DEF SettingStored, CallStart, CallStop, scoreVars
<1>9. ASSUME NEW c \in Calls, Stopped(c) PROVE DataOK'
  BY <1>9 DEF Stopped, CallStart, AddRestarts
<1>10. ASSUME NEW hit \in Hits, IncreasePanicScore(hit) PROVE DataOK'
  BY <1>10 DEF IncreasePanicScore, sessionVars
<1>11. CASE DecayStarts
  BY <1>11 DEF DecayStarts, sessionVars
<1>12. CASE DecayScore
  BY <1>12 DEF DecayScore, sessionVars
<1>13. CASE CooldownEnds
  BY <1>13 DEF CooldownEnds, sessionVars
<1>14. CASE UNCHANGED vars
  BY <1>14 DEF vars, sessionVars, scoreVars
<1> QED
  BY <1>1, <1>2, <1>3, <1>4, <1>5, <1>6, <1>7, <1>8, <1>9,
     <1>10, <1>11, <1>12, <1>13, <1>14 DEF Next

\* Every variable of the detector keeps its type.
THEOREM VoiceTypeCorrect == Spec => []TypeOK
<1>1. Init => FlagsOK
  BY DEF Init, FlagsOK
<1>2. Init => DataOK
  BY VoiceAssumption DEF Init, DataOK
<1> QED
  BY <1>1, <1>2, FlagsCorrect, DataCorrect, PTL DEF Spec, TypeOK

-----------------------------------------------------------------------------
\* Between two callbacks the score stays below the threshold, decays when it is
\* positive, and is zero during a cooldown.
THEOREM ScoreAlwaysUnderControl == Spec => []ScoreUnderControl
<1> USE VoiceAssumption DEF ScoreUnderControl
<1>1. Init => ScoreUnderControl
  BY DEF Init
<1>2. DataOK /\ ScoreUnderControl /\ [Next]_vars => ScoreUnderControl'
  <2> SUFFICES ASSUME DataOK, ScoreUnderControl, [Next]_vars
               PROVE  ScoreUnderControl'
    OBVIOUS
  <2>0. score \in Nat
    BY DEF DataOK
  <2>1. CASE UNCHANGED scoreVars
    BY <2>1 DEF scoreVars
  <2>2. ASSUME NEW c \in Calls, Stopped(c) PROVE ScoreUnderControl'
    BY <2>2 DEF Stopped
  <2>3. ASSUME NEW hit \in Hits, IncreasePanicScore(hit)
        PROVE  ScoreUnderControl'
    BY <2>3 DEF IncreasePanicScore
  <2>4. CASE DecayStarts
    BY <2>4 DEF DecayStarts
  <2>5. CASE DecayScore
    <3>1. CASE score > 0
      <4>1. decay' = "run" /\ UNCHANGED cooldown
            /\ score' = IF score > Decay THEN score - Decay ELSE 0
        BY <2>0, <2>5, <3>1 DEF DecayScore
      <4>2. score' < Threshold /\ (score = 0 => score' = 0)
        BY <2>0, <4>1
      <4> QED BY <4>1, <4>2
    <3>2. CASE score = 0
      BY <2>5, <3>2 DEF DecayScore
    <3> QED BY <2>0, <3>1, <3>2
  <2>6. CASE CooldownEnds
    BY <2>6 DEF CooldownEnds
  <2>7. CASE OpenDashboard \/ StartReady \/ StartFails \/ SessionEnds
               \/ RestartFires
    BY <2>1, <2>7 DEF OpenDashboard, StartReady, StartFails, SessionEnds,
       RestartFires
  <2>8. ASSUME NEW c \in Calls, NEW value \in BOOLEAN,
               \/ SetEnabled(c, value) \/ SetSelectedLanguage(c)
               \/ SettingStored(c)
        PROVE  ScoreUnderControl'
    BY <2>1, <2>8 DEF SetEnabled, SetSelectedLanguage, SettingStored
  <2>9. CASE UNCHANGED vars
    BY <2>1, <2>9 DEF vars
  <2> QED
    BY <2>2, <2>3, <2>4, <2>5, <2>6, <2>7, <2>8, <2>9 DEF Next
<1> QED
  BY <1>1, <1>2, VoiceTypeCorrect, PTL DEF Spec, TypeOK

-----------------------------------------------------------------------------
\* A start called by an enabled detector is under way.
LEMMA StartIsUnderWay ==
    ASSUME DataOK, CallStart, enabled
    PROVE  starts' > 0
<1>1. starts' = starts + 1 /\ starts \in Nat
  BY DEF CallStart, DataOK
<1> QED BY <1>1

\* An enabled detector without a session has a restart, a start or a setting
\* under way that leads to one, unless its latest start has failed.
THEOREM RestartAlwaysUnderWay == Spec => []RestartUnderWay
<1> USE DEF RestartUnderWay
<1>1. Init => RestartUnderWay
  BY DEF Init
<1>2. DataOK /\ RestartUnderWay /\ [Next]_vars => RestartUnderWay'
  <2> SUFFICES ASSUME DataOK, RestartUnderWay, [Next]_vars
               PROVE  RestartUnderWay'
    OBVIOUS
  <2>0. call \in [Calls -> {"none", "on", "off", "language", "stopping",
                            "relocating", "done"}]
    BY DEF DataOK
  <2>1. CASE OpenDashboard
    BY <2>1, StartIsUnderWay DEF OpenDashboard
  <2>2. CASE StartReady \/ StartFails
    BY <2>2 DEF StartReady, StartFails
  <2>3. CASE SessionEnds
    <3>1. ASSUME NEW n \in {1, 2}, AddRestarts(n) PROVE restarts' > 0
      BY <3>1 DEF AddRestarts, DataOK
    <3> QED BY <2>3, <3>1 DEF SessionEnds
  <2>4. CASE RestartFires
    BY <2>4, StartIsUnderWay DEF RestartFires
  <2>5. ASSUME NEW c \in Calls, NEW value \in BOOLEAN, SetEnabled(c, value)
        PROVE  RestartUnderWay'
    <3>1. CASE value = TRUE
      <4>1. call' = [call EXCEPT ![c] = "on"]
        BY <2>5, <3>1 DEF SetEnabled
      <4>2. Storing(c)'
        BY <2>0, <4>1 DEF Storing
      <4> QED BY <4>2
    <3>2. CASE value = FALSE
      BY <2>5, <3>2 DEF SetEnabled
    <3> QED BY <3>1, <3>2
  <2>6. ASSUME NEW c \in Calls, SetSelectedLanguage(c) PROVE RestartUnderWay'
    <3>1. call' = [call EXCEPT ![c] = "language"]
      BY <2>6 DEF SetSelectedLanguage
    <3>2. Storing(c)'
      BY <2>0, <3>1 DEF Storing
    <3> QED BY <3>2
  <2>7. ASSUME NEW c \in Calls, SettingStored(c) PROVE RestartUnderWay'
    <3>1. CASE call[c] = "on"
      BY <2>7, <3>1, StartIsUnderWay DEF SettingStored
    <3>2. CASE call[c] = "off" \/ (call[c] = "language" /\ listening)
      BY <2>7, <3>2 DEF SettingStored, CallStop
    <3>3. CASE call[c] = "language" /\ ~listening
      BY <2>7, <3>3 DEF SettingStored
    <3> QED BY <2>7, <3>1, <3>2, <3>3 DEF SettingStored
  <2>8. ASSUME NEW c \in Calls, Stopped(c) PROVE RestartUnderWay'
    <3>1. CASE call[c] = "relocating"
      BY <2>8, <3>1, StartIsUnderWay DEF Stopped
    <3>2. CASE call[c] = "stopping"
      <4>1. /\ UNCHANGED <<enabled, listening, session, starts, deaf>>
            /\ call' = [call EXCEPT ![c] = "done"]
        BY <2>8, <3>2 DEF Stopped
      <4>2. ASSUME NEW b \in Calls PROVE call[b] = call'[b] \/ call[b] = "stopping"
        BY <2>0, <3>2, <4>1
      <4>3. ASSUME NEW b \in Calls, Storing(b) \/ call[b] = "relocating"
            PROVE  Storing(b)' \/ call'[b] = "relocating"
        BY <4>2, <4>3 DEF Storing
      <4>4. restarts > 0 => restarts' > 0
        BY <2>8 DEF Stopped, AddRestarts, DataOK
      <4> QED BY <4>1, <4>3, <4>4
    <3> QED BY <2>8, <3>1, <3>2 DEF Stopped
  <2>9. CASE UNCHANGED sessionVars
    BY <2>9 DEF sessionVars, Storing
  <2>10. ASSUME NEW hit \in Hits, IncreasePanicScore(hit)
         PROVE  RestartUnderWay'
    BY <2>9, <2>10 DEF IncreasePanicScore
  <2>11. CASE DecayStarts \/ DecayScore \/ CooldownEnds \/ UNCHANGED vars
    BY <2>9, <2>11 DEF DecayStarts, DecayScore, CooldownEnds, vars
  <2> QED
    BY <2>1, <2>2, <2>3, <2>4, <2>5, <2>6, <2>7, <2>8, <2>10, <2>11 DEF Next
<1> QED
  BY <1>1, <1>2, VoiceTypeCorrect, PTL DEF Spec, TypeOK

=============================================================================
