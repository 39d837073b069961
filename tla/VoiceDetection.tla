--------------------------- MODULE VoiceDetection ---------------------------
(***************************************************************************)
(* lib/voice_detection_service.dart: a speech session that restarts itself  *)
(* for as long as the detector is enabled, settings that stop and start it  *)
(* across awaits, and the panic score that raises the voice SOS.  Sessions  *)
(* are the speech_to_text plugin's.                                         *)
(***************************************************************************)
EXTENDS Integers

CONSTANTS
    MaxCalls,   \* bound: how many times the user changes a setting
    MaxStarts,  \* bound: how many startListening calls are under way at once
    Threshold,  \* score that raises the alarm (70)
    Decay,      \* what the score loses every 300 ms (5)
    Hits        \* what one speech result or loud sound adds to the score

ASSUME VoiceAssumption ==
    /\ MaxCalls \in Nat
    /\ MaxStarts \in Nat \ {0}
    /\ Threshold \in Nat \ {0}
    /\ Decay \in Nat \ {0}
    /\ Hits \subseteq Nat \ {0}

Calls == 1..MaxCalls

VARIABLES
    enabled,    \* _isEnabled
    listening,  \* _isListening
    session,    \* the plugin has a speech session open
    starts,     \* startListening calls at one of their awaits
    restarts,   \* delayed restarts pending; more than two count as two
    call,       \* where each setEnabled or setSelectedLanguage call is
    deaf,       \* history: the latest startListening call has failed
    score,      \* _currentScore
    decay,      \* _decayTimer: off, waiting six seconds, or running
    cooldown    \* _isInCooldown, for as long as _cooldownTimer runs

sessionVars == <<enabled, listening, session, starts, restarts, call, deaf>>
scoreVars == <<score, decay, cooldown>>
vars == <<sessionVars, scoreVars>>

FlagsOK ==
    /\ enabled \in BOOLEAN /\ listening \in BOOLEAN /\ session \in BOOLEAN
    /\ deaf \in BOOLEAN    /\ cooldown \in BOOLEAN

DataOK ==
    /\ starts \in 0..MaxStarts
    /\ restarts \in 0..2
    /\ call \in [Calls -> {"none", "on", "off", "language", "stopping",
                           "relocating", "done"}]
    /\ score \in Nat
    /\ decay \in {"off", "wait", "run"}

TypeOK == FlagsOK /\ DataOK

\* The Dashboard starts the detector when the settings say so.
Init ==
    /\ enabled \in BOOLEAN
    /\ listening = FALSE
    /\ session = FALSE
    /\ starts = IF enabled THEN 1 ELSE 0
    /\ restarts = 0
    /\ call = [c \in Calls |-> "none"]
    /\ deaf = FALSE
    /\ score = 0
    /\ decay = "off"
    /\ cooldown = FALSE

-----------------------------------------------------------------------------
(* Listening                                                                *)

\* startListening up to its first await.
CallStart ==
    \/ ~enabled /\ UNCHANGED starts
    \/ enabled /\ starts < MaxStarts /\ starts' = starts + 1

\* Another Dashboard is opened.
OpenDashboard ==
    /\ enabled
    /\ CallStart
    /\ UNCHANGED <<enabled, listening, session, restarts, call, deaf, scoreVars>>

\* Mutant: the session opens, the flag is forgotten.
StartReadyNotListening ==
    /\ starts > 0
    /\ starts' = starts - 1
    /\ session' = TRUE
    /\ deaf' = FALSE
    /\ UNCHANGED <<enabled, listening, restarts, call, scoreVars>>

\* Permission and plugin are there: the session opens, without another look
\* at _isEnabled.
StartReady ==
    /\ starts > 0
    /\ starts' = starts - 1
    /\ listening' = TRUE
    /\ session' = TRUE
    /\ deaf' = FALSE
    /\ UNCHANGED <<enabled, restarts, call, scoreVars>>

\* No permission, no speech service, an exception; or the plugin's listen fails,
\* which nobody awaits, when the detector already takes itself to be listening.
StartFails ==
    /\ starts > 0
    /\ starts' = starts - 1
    /\ listening' \in {listening, TRUE}
    /\ deaf' = TRUE
    /\ UNCHANGED <<enabled, session, restarts, call, scoreVars>>

AddRestarts(n) ==
    restarts' = IF restarts + n > 2 THEN 2 ELSE restarts + n

\* Mutant: one of the two callbacks does not restart.
SessionEndsUnnoticed ==
    /\ session
    /\ session' = FALSE
    /\ \/ enabled /\ listening /\ \E n \in {0, 1} : AddRestarts(n)
       \/ ~(enabled /\ listening) /\ UNCHANGED restarts
    /\ UNCHANGED <<enabled, listening, starts, call, deaf, scoreVars>>

\* Mutant: no time limit ends the session of a disabled detector.
SessionEndsOnError ==
    /\ session
    /\ enabled
    /\ session' = FALSE
    /\ \/ listening /\ \E n \in {1, 2} : AddRestarts(n)
       \/ ~listening /\ UNCHANGED restarts
    /\ UNCHANGED <<enabled, listening, starts, call, deaf, scoreVars>>

\* The session ends by itself, after a pause, 30 seconds or an error.  Status
\* and error callbacks may both come, each with a restart of its own.
SessionEnds ==
    /\ session
    /\ session' = FALSE
    /\ \/ enabled /\ listening /\ \E n \in {1, 2} : AddRestarts(n)
       \/ ~(enabled /\ listening) /\ UNCHANGED restarts
    /\ UNCHANGED <<enabled, listening, starts, call, deaf, scoreVars>>

\* 800 ms later.
RestartFires ==
    /\ restarts > 0
    /\ restarts' = restarts - 1
    /\ \/ listening /\ CallStart
       \/ ~listening /\ UNCHANGED starts
    /\ UNCHANGED <<enabled, listening, session, call, deaf, scoreVars>>

-----------------------------------------------------------------------------
(* Settings.  The preferences store them in the order of the calls.         *)

Storing(c) == call[c] \in {"on", "off", "language"}
IsNext(c) == call[c] = "none" /\ \A b \in 1..(c - 1) : call[b] # "none"
StoredNext(c) == \A b \in 1..(c - 1) : ~Storing(b)

SetEnabled(c, value) ==
    /\ IsNext(c)
    /\ enabled' = value
    /\ call' = [call EXCEPT ![c] = IF value THEN "on" ELSE "off"]
    /\ UNCHANGED <<listening, session, starts, restarts, deaf, scoreVars>>

SetSelectedLanguage(c) ==
    /\ IsNext(c)
    /\ call' = [call EXCEPT ![c] = "language"]
    /\ UNCHANGED <<enabled, listening, session, starts, restarts, deaf,
                   scoreVars>>

\* stopListening up to its await: the plugin closes the session.
CallStop(c, next) ==
    /\ listening' = FALSE
    /\ session' = FALSE
    /\ call' = [call EXCEPT ![c] = next]
    /\ UNCHANGED starts

\* The setting is stored and takes effect.
SettingStored(c) ==
    /\ StoredNext(c)
    /\ \/ /\ call[c] = "on"
          /\ CallStart
          /\ call' = [call EXCEPT ![c] = "done"]
          /\ UNCHANGED <<listening, session>>
       \/ /\ call[c] = "off"
          /\ CallStop(c, "stopping")
       \/ /\ call[c] = "language" /\ listening
          /\ CallStop(c, "relocating")
       \/ /\ call[c] = "language" /\ ~listening
          /\ call' = [call EXCEPT ![c] = "done"]
          /\ UNCHANGED <<listening, session, starts>>
    /\ UNCHANGED <<enabled, restarts, deaf, scoreVars>>

\* The plugin has stopped; a change of language starts again.  The status
\* callback of the stop may find the detector listening once more.
Stopped(c) ==
    /\ \/ call[c] = "stopping" /\ UNCHANGED starts
       \/ call[c] = "relocating" /\ CallStart
    /\ call' = [call EXCEPT ![c] = "done"]
    /\ score' = 0
    /\ \/ enabled /\ listening /\ AddRestarts(1)
       \/ UNCHANGED restarts
    /\ UNCHANGED <<enabled, listening, session, deaf, decay, cooldown>>

-----------------------------------------------------------------------------
(* The panic score                                                          *)

\* Results still arrive while a stop is awaited.
Hearing == session \/ \E c \in Calls : call[c] \in {"stopping", "relocating"}

\* Mutant: results count during the cooldown too.
IncreasePanicScoreAlways(hit) ==
    /\ Hearing
    /\ \/ /\ score + hit >= Threshold
          /\ score' = 0
          /\ cooldown' = TRUE
       \/ /\ score + hit < Threshold
          /\ score' = score + hit
          /\ UNCHANGED cooldown
    /\ decay' = "wait"
    /\ UNCHANGED sessionVars

\* One result with all its keywords: what they add up to counts, because the
\* increases after an alarm fall into its cooldown.  The alarm resets the
\* score and starts the cooldown; either way the decay starts anew.
IncreasePanicScore(hit) ==
    /\ Hearing
    /\ ~cooldown
    /\ \/ /\ score + hit >= Threshold
          /\ score' = 0
          /\ cooldown' = TRUE
       \/ /\ score + hit < Threshold
          /\ score' = score + hit
          /\ UNCHANGED cooldown
    /\ decay' = "wait"
    /\ UNCHANGED sessionVars

DecayStarts ==
    /\ decay = "wait"
    /\ decay' = "run"
    /\ UNCHANGED <<sessionVars, score, cooldown>>

\* Mutant: the clamp at zero is missing.
DecayScoreUnclamped ==
    /\ decay = "run"
    /\ \/ /\ score > 0
          /\ score' = score - Decay
          /\ UNCHANGED decay
       \/ /\ score = 0
          /\ decay' = "off"
          /\ UNCHANGED score
    /\ UNCHANGED <<sessionVars, cooldown>>

DecayScore ==
    /\ decay = "run"
    /\ \/ /\ score > 0
          /\ score' = IF score > Decay THEN score - Decay ELSE 0
          /\ UNCHANGED decay
       \/ /\ score = 0
          /\ decay' = "off"
          /\ UNCHANGED score
    /\ UNCHANGED <<sessionVars, cooldown>>

CooldownEnds ==
    /\ cooldown
    /\ cooldown' = FALSE
    /\ UNCHANGED <<sessionVars, score, decay>>

-----------------------------------------------------------------------------
Next ==
    \/ OpenDashboard
    \/ StartReady \/ StartFails \/ SessionEnds \/ RestartFires
    \/ \E c \in Calls, value \in BOOLEAN : SetEnabled(c, value)
    \/ \E c \in Calls : SetSelectedLanguage(c)
    \/ \E c \in Calls : SettingStored(c) \/ Stopped(c)
    \/ \E hit \in Hits : IncreasePanicScore(hit)
    \/ DecayStarts \/ DecayScore \/ CooldownEnds

Spec == Init /\ [][Next]_vars

\* Timers fire, the plugin and the preferences answer, and no session goes on
\* for more than 30 seconds.  Speech and the user owe nothing.
Fairness ==
    /\ WF_vars(StartReady \/ StartFails)
    /\ WF_vars(SessionEnds)
    /\ WF_vars(RestartFires)
    /\ \A c \in Calls : WF_vars(SettingStored(c)) /\ WF_vars(Stopped(c))
    /\ WF_vars(DecayStarts) /\ WF_vars(DecayScore) /\ WF_vars(CooldownEnds)

FairSpec == Spec /\ Fairness

-----------------------------------------------------------------------------
(* Properties                                                               *)

\* Between two callbacks the score is below the threshold, a positive score
\* has a decay timer under way whatever was stopped or restarted meanwhile,
\* and nothing adds up during a cooldown: the end of it starts from zero.
ScoreUnderControl ==
    /\ score < Threshold
    /\ score > 0 => decay # "off"
    /\ cooldown => score = 0

\* A detector that is enabled and takes itself to be listening, but has no
\* session, has something under way that leads to one: a restart, a start or
\* a setting being stored.  Only a start that fails breaks the chain.
RestartUnderWay ==
    (enabled /\ listening /\ ~session) =>
        \/ restarts > 0 \/ starts > 0 \/ deaf
        \/ \E c \in Calls : Storing(c) \/ call[c] = "relocating"

\* After the last change of settings a disabled detector ends up without a
\* session, although a start under way opens one without looking.
DisabledGoesSilent == ~enabled ~> (enabled \/ (~session /\ starts = 0))

\* An enabled detector comes back to a session after each one, unless it is
\* disabled, stopped for good, or a start fails.
ListensAgain == (enabled /\ ~session) ~> (session \/ ~enabled \/ deaf)

=============================================================================
