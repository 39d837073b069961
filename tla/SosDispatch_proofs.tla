-------------------------- MODULE SosDispatch_proofs --------------------------
(***************************************************************************)
(* What triggerSOS keeps for every set of contacts and any number of        *)
(* triggers, Dashboards, disarms and restarts.                              *)
(***************************************************************************)
EXTENDS SosDispatch, SequenceTheorems, TLAPS

Kinds == {"manual", "voice", "wearable"}

\* A chain of awaits belongs to an accepted trigger of some Dashboard.
RunsStarted ==
    \A r \in Runs : /\ phase[r] \in Awaiting => dash[r] \in Dashboards
                    /\ r > run => phase[r] = "none"

\* The flags stay Boolean.
LEMMA FlagsCorrect == FlagsOK /\ [Next]_vars => FlagsOK'
<1> SUFFICES ASSUME FlagsOK, [Next]_vars PROVE FlagsOK'
  OBVIOUS
<1> USE DEF FlagsOK, screenVars, prefVars, widgetVars, cloudVars
<1>1. ASSUME NEW kind \in Kinds, NEW d \in Dashboards, TriggerSOS(kind, d)
      PROVE  FlagsOK'
  <2>1. PICK s \in BOOLEAN : silent' = [silent EXCEPT ![run + 1] = s]
    BY <1>1, Zenon DEF TriggerSOS
  <2>2. /\ inProgress' = [inProgress EXCEPT ![d] = TRUE]
        /\ UNCHANGED <<alerted, overlay, cached, stored, online>>
    BY <1>1, Zenon DEF TriggerSOS
  <2> QED BY <2>1, <2>2
<1>2. ASSUME NEW r \in Runs, Dispatch(r) PROVE FlagsOK'
  <2>1. CASE ContactsEmpty(r)
    BY <2>1 DEF ContactsEmpty
  <2>2. CASE ContactsFoundDisposed(r)
    BY <2>2 DEF ContactsFoundDisposed
  <2>3. CASE ContactsFound(r)
    BY <2>3 DEF ContactsFound
  <2>4. CASE AlertCreated(r)
    BY <2>4 DEF AlertCreated, Answered
  <2>5. CASE BroadcastDone(r)
    BY <2>5 DEF BroadcastDone
  <2>6. ASSUME NEW phone \in Phones, NotifyContact(r, phone) PROVE FlagsOK'
    BY <2>6 DEF NotifyContact
  <2>7. CASE MarkSent(r)
    BY <2>7 DEF MarkSent
  <2>8. CASE SentAnswered(r)
    BY <2>8 DEF SentAnswered, Answered
  <2>9. CASE DispatchEnds(r)
    BY <2>9 DEF DispatchEnds
  <2> QED
    BY <1>2, <2>1, <2>2, <2>3, <2>4, <2>5, <2>6, <2>7, <2>8, <2>9 DEF Dispatch
<1>3. ASSUME NEW d \in Dashboards, Disarm(d) PROVE FlagsOK'
  BY <1>3 DEF Disarm, runVars
<1>4. ASSUME NEW r \in Runs, NEW d \in Dashboards, DisarmAnswered(r, d)
      PROVE  FlagsOK'
  BY <1>4 DEF DisarmAnswered, Answered, runVars
<1>5. CASE Logout \/ ShakeSOS \/ NetworkChanges \/ OrphanAnswered
  BY <1>5 DEF Logout, ShakeSOS, NetworkChanges, OrphanAnswered, Answered, runVars
<1>6. CASE Login
  BY <1>6 DEF Login, runVars
<1>7. CASE Restart
  BY <1>7 DEF Restart
<1>8. CASE UNCHANGED vars
  BY <1>8 DEF vars, runVars
<1> QED
  BY <1>1, <1>2, <1>3, <1>4, <1>5, <1>6, <1>7, <1>8 DEF Next, Kinds

\* What a write adds and an acknowledgement removes.
LEMMA WritesGrow ==
    ASSUME NEW s \in Seq(Writes), NEW w \in Writes PROVE Append(s, w) \in Seq(Writes)
OBVIOUS

LEMMA WritesShrink ==
    ASSUME NEW s \in Seq(Writes), s # <<>> PROVE Tail(s) \in Seq(Writes)
OBVIOUS

LEMMA WriteTyped ==
    ASSUME NEW s \in {"active", "sent", "resolved"}, NEW r \in Runs,
           NEW d \in 0..MaxDashboards
    PROVE  /\ Write(s, r, d) \in Writes
           /\ Write(s, r, d).status = s
           /\ Write(s, r, d).to = r
           /\ Write(s, r, d).dash = d
BY DEF Write, Writes

\* The writes that a restart leaves have lost their Dashboard, and nothing else.
LEMMA KeptTyped ==
    ASSUME writes \in Seq(Writes)
    PROVE  /\ Kept \in Seq(Writes)
           /\ DOMAIN Kept = DOMAIN writes
           /\ \A i \in DOMAIN writes :
                  /\ Kept[i].status = writes[i].status
                  /\ Kept[i].to = writes[i].to
                  /\ Kept[i].dash = 0
<1>1. DOMAIN writes = 1..Len(writes) /\ Len(writes) \in Nat
  OBVIOUS
<1>2. ASSUME NEW i \in DOMAIN writes
      PROVE  /\ Kept[i] = Orphan(writes[i])
             /\ Orphan(writes[i]) \in Writes
             /\ Orphan(writes[i]).status = writes[i].status
             /\ Orphan(writes[i]).to = writes[i].to
             /\ Orphan(writes[i]).dash = 0
  <2>1. writes[i] \in Writes
    OBVIOUS
  <2>2. Kept[i] = Orphan(writes[i])
    BY DEF Kept
  <2> QED BY <2>1, <2>2, BoundsAssumption DEF Orphan, Writes
<1>3. Kept \in [1..Len(writes) -> Writes]
  BY <1>1, <1>2 DEF Kept
<1>4. Kept \in Seq(Writes)
  BY <1>1, <1>3, SeqDef
<1> QED BY <1>1, <1>2, <1>3, <1>4

\* Where the writes are after one more of them, and after an answer.
LEMMA WritesAppended ==
    ASSUME writes \in Seq(Writes), NEW w \in Writes, writes' = Append(writes, w)
    PROVE  /\ \A i \in DOMAIN writes :
                  i \in DOMAIN writes' /\ writes'[i] = writes[i]
           /\ \E n \in DOMAIN writes' :
                  /\ writes'[n] = w
                  /\ \A i \in DOMAIN writes' : i # n => i \in DOMAIN writes
<1>1. /\ DOMAIN writes = 1..Len(writes) /\ Len(writes) \in Nat
      /\ DOMAIN writes' = 1..(Len(writes) + 1)
      /\ \A i \in DOMAIN writes : writes'[i] = writes[i]
      /\ writes'[Len(writes) + 1] = w
  OBVIOUS
<1>2. \A i \in 1..(Len(writes) + 1) :
          i \in 1..Len(writes) \/ i = Len(writes) + 1
  BY <1>1
<1>3. Len(writes) + 1 \in DOMAIN writes'
  BY <1>1
<1> QED BY <1>1, <1>2, <1>3

LEMMA WritesPopped ==
    ASSUME writes \in Seq(Writes), writes # <<>>, writes' = Tail(writes)
    PROVE  /\ 1 \in DOMAIN writes /\ writes[1] = Head(writes)
           /\ \A i \in DOMAIN writes' :
                  i + 1 \in DOMAIN writes /\ i + 1 # 1 /\ writes'[i] = writes[i + 1]
           /\ \A i \in DOMAIN writes : i # 1 =>
                  i - 1 \in DOMAIN writes' /\ writes'[i - 1] = writes[i]
           /\ \A i, j \in DOMAIN writes' : i + 1 = j + 1 => i = j
<1>1. /\ DOMAIN writes = 1..Len(writes) /\ Len(writes) \in Nat \ {0}
      /\ Head(writes) = writes[1]
      /\ DOMAIN writes' = 1..(Len(writes) - 1)
      /\ \A j \in DOMAIN writes' : writes'[j] = writes[j + 1]
  OBVIOUS
<1> QED BY <1>1

\* The server gives a document one of the statuses, or none.
LEMMA TakenTyped ==
    ASSUME doc \in [Runs -> {"none", "active", "sent", "resolved"}],
           NEW w \in Writes, Taken(w) \/ Refused
    PROVE  doc' \in [Runs -> {"none", "active", "sent", "resolved"}]
<1>1. w.to \in Runs /\ w.status \in {"active", "sent", "resolved"}
  BY DEF Writes
<1> QED BY <1>1 DEF Taken, Refused

\* The other variables keep their types.
LEMMA DataCorrect == DataOK /\ RunsStarted /\ [Next]_vars => DataOK'
<1> SUFFICES ASSUME DataOK, RunsStarted, [Next]_vars PROVE DataOK'
  OBVIOUS
<1> USE BoundsAssumption
    DEF DataOK, screenVars, prefVars, widgetVars, cloudVars
<1>0. /\ \A r \in Runs : r \in 0..MaxRuns
      /\ \A d \in Dashboards : d \in 0..MaxDashboards
      /\ \A r \in 0..MaxRuns : r # 0 => r \in Runs
  BY DEF Runs, Dashboards
<1>1. ASSUME NEW kind \in Kinds, NEW d \in Dashboards, TriggerSOS(kind, d)
      PROVE  DataOK'
  <2>1. run + 1 \in 0..MaxRuns
    BY <1>1 DEF TriggerSOS
  <2>2. d \in 0..MaxDashboards /\ "contacts" \in Phases
    BY <1>0 DEF Phases, Awaiting
  <2> QED BY <1>1, <2>1, <2>2 DEF TriggerSOS
<1>2. ASSUME NEW r \in Runs, Dispatch(r) PROVE DataOK'
  <2>0. phase[r] \in Awaiting => dash[r] \in Dashboards
    BY DEF RunsStarted
  <2> USE DEF Phases, Awaiting, Over
  <2>1. CASE ContactsEmpty(r)
    BY <2>1 DEF ContactsEmpty
  <2>2. CASE ContactsFoundDisposed(r)
    BY <2>2 DEF ContactsFoundDisposed
  <2>3. CASE ContactsFound(r)
    <3>1. Append(writes, Write("active", r, dash[r])) \in Seq(Writes)
      BY <2>0, <2>3, WriteTyped, WritesGrow DEF ContactsFound
    <3> QED BY <2>3, <3>1 DEF ContactsFound
  <2>4. CASE AlertCreated(r)
    <3>1. writes' \in Seq(Writes)
      BY <2>4, WritesShrink DEF AlertCreated, Answered
    <3>2. activeId' \in [Dashboards -> 0..MaxRuns]
      <4>1. r \in 0..MaxRuns /\ 0 \in 0..MaxRuns
        BY <1>0
      <4>2. \E i \in 0..MaxRuns : activeId' = [activeId EXCEPT ![dash[r]] = i]
        BY <2>4, <4>1, Zenon DEF AlertCreated
      <4> QED BY <4>2
    <3>3. doc' \in [Runs -> {"none", "active", "sent", "resolved"}]
      <4>1. /\ Write("active", r, dash[r]).to = r
            /\ Write("active", r, dash[r]).status = "active"
        BY <2>0, <2>4, <1>0, WriteTyped DEF AlertCreated
      <4> QED BY <2>4, <4>1 DEF AlertCreated, Taken, Refused
    <3> QED BY <2>4, <3>1, <3>2, <3>3 DEF AlertCreated
  <2>5. CASE BroadcastDone(r)
    BY <2>5 DEF BroadcastDone
  <2>6. ASSUME NEW phone \in Phones, NotifyContact(r, phone) PROVE DataOK'
    BY <2>6 DEF NotifyContact
  <2>7. CASE MarkSent(r)
    <3>1. writes' \in Seq(Writes)
      <4>1. CASE UNCHANGED writes
        BY <4>1
      <4>2. CASE /\ activeId[dash[r]] # 0
                 /\ writes' = Append(writes, Write("sent", activeId[dash[r]], dash[r]))
        <5>1. dash[r] \in Dashboards
          BY <2>0, <2>7 DEF MarkSent
        <5>2. Write("sent", activeId[dash[r]], dash[r]) \in Writes
          BY <1>0, <4>2, <5>1, WriteTyped
        <5> QED BY <4>2, <5>2, WritesGrow
      <4> QED BY <2>7, <4>1, <4>2 DEF MarkSent
    <3> QED BY <2>7, <3>1 DEF MarkSent
  <2>8. CASE SentAnswered(r)
    <3>1. PICK w \in Writes : Answered(w) /\ (Taken(w) \/ Refused)
      BY <2>8 DEF SentAnswered
    <3>2. writes' \in Seq(Writes)
      BY <3>1, WritesShrink DEF Answered
    <3>3. doc' \in [Runs -> {"none", "active", "sent", "resolved"}]
      BY <3>1, TakenTyped
    <3> QED BY <2>8, <3>2, <3>3 DEF SentAnswered
  <2>9. CASE DispatchEnds(r)
    BY <2>9 DEF DispatchEnds
  <2> QED
    BY <1>2, <2>1, <2>2, <2>3, <2>4, <2>5, <2>6, <2>7, <2>8, <2>9 DEF Dispatch
<1>3. ASSUME NEW d \in Dashboards, Disarm(d) PROVE DataOK'
  <2>1. writes' \in Seq(Writes)
    <3>1. CASE UNCHANGED writes
      BY <3>1
    <3>2. CASE /\ activeId[d] # 0
               /\ writes' = Append(writes, Write("resolved", activeId[d], d))
      <4>1. Write("resolved", activeId[d], d) \in Writes
        BY <1>0, <3>2, WriteTyped
      <4> QED BY <3>2, <4>1, WritesGrow
    <3> QED BY <1>3, <3>1, <3>2 DEF Disarm
  <2> QED BY <1>3, <2>1 DEF Disarm, runVars
<1>4. ASSUME NEW r \in Runs, NEW d \in Dashboards, DisarmAnswered(r, d)
      PROVE  DataOK'
  <2>1. writes' \in Seq(Writes)
    BY <1>4, WritesShrink DEF DisarmAnswered, Answered
  <2>2. doc' \in [Runs -> {"none", "active", "sent", "resolved"}]
    BY <1>0, <1>4, WriteTyped, TakenTyped DEF DisarmAnswered
  <2> QED BY <1>4, <2>1, <2>2 DEF DisarmAnswered, runVars
<1>5. CASE Logout \/ ShakeSOS \/ NetworkChanges
  BY <1>5 DEF Logout, ShakeSOS, NetworkChanges, runVars
<1>6. CASE Login
  BY <1>6 DEF Login, runVars
<1>7. CASE Restart
  <2>1. phase' \in [Runs -> Phases]
    BY <1>7 DEF Restart, Phases, Over
  <2>2. writes' \in Seq(Writes)
    <3>1. writes' \in {<<>>, Kept}
      BY <1>7 DEF Restart
    <3>2. <<>> \in Seq(Writes)
      OBVIOUS
    <3>3. Kept \in Seq(Writes)
      BY KeptTyped
    <3> QED BY <3>1, <3>2, <3>3
  <2> QED BY <1>7, <2>1, <2>2 DEF Restart
<1>9. CASE OrphanAnswered
  <2>1. PICK w \in Writes : Answered(w) /\ (Taken(w) \/ Refused)
    BY <1>9 DEF OrphanAnswered
  <2>2. writes' \in Seq(Writes)
    BY <2>1, WritesShrink DEF Answered
  <2>3. doc' \in [Runs -> {"none", "active", "sent", "resolved"}]
    BY <2>1, TakenTyped
  <2> QED BY <1>9, <2>2, <2>3 DEF OrphanAnswered, runVars
<1>8. CASE UNCHANGED vars
  BY <1>8 DEF vars, runVars
<1> QED
  BY <1>1, <1>2, <1>3, <1>4, <1>5, <1>6, <1>7, <1>8, <1>9 DEF Next, Kinds

\* What the steps of a run have in common: they leave other runs alone, and
\* the flag is reset where the run is done.
LEMMA DispatchEffect ==
    ASSUME DataOK, NEW r \in Runs, Dispatch(r)
    PROVE  /\ phase[r] \in Awaiting
           /\ UNCHANGED <<screen, latest, run, dash, silent>>
           /\ \A s \in Runs \ {r} : /\ phase'[s] = phase[s]
                                    /\ todo'[s] = todo[s]
                                    /\ tried'[s] = tried[s]
           /\ phase'[r] \in Awaiting \cup {"done", "empty", "thrown"}
           /\ \/ phase'[r] # "done" /\ UNCHANGED inProgress
              \/ /\ phase'[r] = "done"
                 /\ inProgress' = [inProgress EXCEPT ![dash[r]] = FALSE]
<1> USE DEF DataOK, Awaiting, screenVars, widgetVars
<1>1. CASE ContactsEmpty(r)
  BY <1>1 DEF ContactsEmpty
<1>2. CASE ContactsFoundDisposed(r)
  BY <1>2 DEF ContactsFoundDisposed
<1>3. CASE ContactsFound(r)
  BY <1>3 DEF ContactsFound
<1>4. CASE AlertCreated(r)
  BY <1>4 DEF AlertCreated
<1>5. CASE BroadcastDone(r)
  BY <1>5 DEF BroadcastDone
<1>6. ASSUME NEW phone \in Phones, NotifyContact(r, phone)
      PROVE  /\ phase[r] = "sending"
             /\ UNCHANGED <<screen, latest, run, dash, silent, phase, inProgress>>
             /\ \A s \in Runs \ {r} : /\ todo'[s] = todo[s]
                                      /\ tried'[s] = tried[s]
  BY <1>6 DEF NotifyContact
<1>7. CASE MarkSent(r)
  BY <1>7 DEF MarkSent
<1>8. CASE SentAnswered(r)
  BY <1>8 DEF SentAnswered
<1>9. CASE DispatchEnds(r)
  BY <1>9 DEF DispatchEnds
<1> QED
  BY <1>1, <1>2, <1>3, <1>4, <1>5, <1>6, <1>7, <1>8, <1>9 DEF Dispatch

\* What the start of a run does, and that it takes a new number.
LEMMA TriggerEffect ==
    ASSUME DataOK, RunsStarted, NEW kind \in Kinds, NEW d \in Dashboards,
           TriggerSOS(kind, d)
    PROVE  /\ run + 1 \in Runs /\ run' = run + 1
           /\ ~inProgress[d] /\ inProgress' = [inProgress EXCEPT ![d] = TRUE]
           /\ phase[run + 1] = "none"
           /\ phase'[run + 1] = "contacts" /\ dash'[run + 1] = d
           /\ \A s \in Runs \ {run + 1} : phase'[s] = phase[s] /\ dash'[s] = dash[s]
           /\ \A s \in Runs : s > run + 1 => s > run /\ s # run + 1
           /\ UNCHANGED <<activeId, todo, tried, doc, writes>>
<1>0. /\ run \in 0..MaxRuns /\ Runs = 1..MaxRuns /\ MaxRuns \in Nat
      /\ phase \in [Runs -> Phases] /\ dash \in [Runs -> 0..MaxDashboards]
  BY BoundsAssumption DEF DataOK, Runs
<1>1. /\ run < MaxRuns /\ run' = run + 1
      /\ ~inProgress[d] /\ inProgress' = [inProgress EXCEPT ![d] = TRUE]
      /\ phase' = [phase EXCEPT ![run + 1] = "contacts"]
      /\ dash' = [dash EXCEPT ![run + 1] = d]
      /\ UNCHANGED <<activeId, todo, tried, doc, writes>>
  BY DEF TriggerSOS, cloudVars
<1>2. run + 1 \in Runs /\ run + 1 > run
  BY <1>0, <1>1
<1>3. phase[run + 1] = "none"
  BY <1>2 DEF RunsStarted
<1>4. \A s \in Runs : s > run + 1 => s > run /\ s # run + 1
  BY <1>0
<1> QED BY <1>0, <1>1, <1>2, <1>3, <1>4

\* Only a trigger starts a chain, on a Dashboard.
LEMMA StartedInductive == DataOK /\ RunsStarted /\ [Next]_vars => RunsStarted'
<1> SUFFICES ASSUME DataOK, RunsStarted, [Next]_vars PROVE RunsStarted'
  OBVIOUS
<1>1. ASSUME NEW kind \in Kinds, NEW d \in Dashboards, TriggerSOS(kind, d)
      PROVE  RunsStarted'
  <2>1. ASSUME NEW r \in Runs
        PROVE  /\ phase'[r] \in Awaiting => dash'[r] \in Dashboards
               /\ r > run' => phase'[r] = "none"
    <3>1. CASE r = run + 1
      <4>1. ~ (r > run + 1)
        BY <3>1 DEF Runs
      <4> QED BY <1>1, <3>1, <4>1, TriggerEffect
    <3>2. CASE r # run + 1
      BY <1>1, <3>2, TriggerEffect DEF RunsStarted
    <3> QED BY <3>1, <3>2
  <2> QED BY <2>1 DEF RunsStarted
<1>2. ASSUME NEW r \in Runs, Dispatch(r) PROVE RunsStarted'
  <2>1. "none" \notin Awaiting
    BY DEF Awaiting
  <2> QED BY <1>2, <2>1, DispatchEffect DEF RunsStarted
<1> USE DEF RunsStarted
<1>3. CASE Restart
  <2>1. /\ \A r \in Runs : phase'[r] = IF phase[r] \in Awaiting
                                       THEN "interrupted" ELSE phase[r]
        /\ run' = run
    BY <1>3 DEF Restart
  <2>2. "interrupted" \notin Awaiting /\ "none" \notin Awaiting
    BY DEF Awaiting
  <2> QED BY <2>1, <2>2
<1>4. CASE UNCHANGED <<run, phase, dash>>
  BY <1>4
<1> QED
  BY <1>1, <1>2, <1>3, <1>4 DEF Next, Kinds, Disarm, DisarmAnswered,
     Logout, Login, ShakeSOS, OrphanAnswered, NetworkChanges, vars, runVars

\* Every variable of a dispatch keeps its type.
THEOREM DispatchTypeCorrect == Spec => [](TypeOK /\ RunsStarted)
<1>1. Init => FlagsOK
  BY DEF Init, FlagsOK
<1>2. Init => DataOK
  <2> SUFFICES ASSUME Init PROVE DataOK
    OBVIOUS
  <2>1. writes \in Seq(Writes)
    BY DEF Init
  <2> QED
    BY <2>1, BoundsAssumption DEF Init, DataOK, Phases
<1>3. Init => RunsStarted
  BY DEF Init, RunsStarted, Awaiting
<1> QED
  BY <1>1, <1>2, <1>3, FlagsCorrect, DataCorrect, StartedInductive, PTL
     DEF Spec, TypeOK

-----------------------------------------------------------------------------
\* From the first await of a dispatch to its last the flag keeps every other
\* trigger of its Dashboard out.
LEMMA FlagInductive ==
    TypeOK /\ RunsStarted /\ FlagCoversDispatch /\ [Next]_vars
        => FlagCoversDispatch'
<1> SUFFICES ASSUME TypeOK, RunsStarted, FlagCoversDispatch, [Next]_vars
             PROVE  FlagCoversDispatch'
  OBVIOUS
<1>0. DataOK /\ inProgress \in [Dashboards -> BOOLEAN]
  BY DEF TypeOK, FlagsOK
<1>1. ASSUME NEW kind \in Kinds, NEW d \in Dashboards, TriggerSOS(kind, d)
      PROVE  FlagCoversDispatch'
  <2>1. \A r \in Runs : phase[r] \in Awaiting => dash[r] # d
    BY <1>0, <1>1, TriggerEffect DEF FlagCoversDispatch
  <2>2. \A r \in Runs \ {run + 1} : phase'[r] \in Awaiting =>
            phase[r] \in Awaiting /\ dash'[r] = dash[r] /\ inProgress'[dash[r]]
    BY <1>0, <1>1, <2>1, TriggerEffect DEF FlagCoversDispatch, RunsStarted
  <2>3. dash'[run + 1] = d /\ inProgress'[d]
    BY <1>0, <1>1, TriggerEffect
  <2> QED BY <2>1, <2>2, <2>3 DEF FlagCoversDispatch
<1>2. ASSUME NEW r \in Runs, Dispatch(r) PROVE FlagCoversDispatch'
  <2>1. CASE phase'[r] = "done"
    <3>1. "done" \notin Awaiting
      BY DEF Awaiting
    <3>2. \A s \in Runs : phase'[s] \in Awaiting =>
              s # r /\ phase[s] \in Awaiting /\ dash[s] # dash[r]
      BY <1>0, <1>2, <2>1, <3>1, DispatchEffect DEF FlagCoversDispatch
    <3> QED
      BY <1>0, <1>2, <2>1, <3>2, DispatchEffect
         DEF FlagCoversDispatch, RunsStarted
  <2>2. CASE phase'[r] # "done"
    BY <1>0, <1>2, <2>2, DispatchEffect DEF FlagCoversDispatch
  <2> QED BY <2>1, <2>2
<1>3. CASE Restart
  <2>1. \A r \in Runs : phase'[r] \notin Awaiting
    BY <1>3 DEF Restart, Awaiting
  <2> QED BY <2>1 DEF FlagCoversDispatch
<1>4. CASE UNCHANGED <<phase, dash, inProgress>>
  BY <1>4 DEF FlagCoversDispatch
<1> QED
  BY <1>1, <1>2, <1>3, <1>4 DEF Next, Kinds, Disarm, DisarmAnswered,
     Logout, Login, ShakeSOS, OrphanAnswered, NetworkChanges, vars, runVars, widgetVars

\* The chains of one Dashboard never overlap.
THEOREM FlagAlwaysCovers == Spec => []FlagCoversDispatch
<1>1. Init => FlagCoversDispatch
  BY DEF Init, FlagCoversDispatch, Awaiting
<1> QED
  BY <1>1, FlagInductive, DispatchTypeCorrect, PTL DEF Spec

\* A Dashboard that ignores triggers has a dispatch under way or left one of
\* them by the empty list or by the throw.
THEOREM FlagStuckAlwaysAtExit == Spec => []FlagStuckOnlyAtExit
<1>1. Init => FlagStuckOnlyAtExit
  BY DEF Init, FlagStuckOnlyAtExit
<1>2. TypeOK /\ RunsStarted /\ FlagStuckOnlyAtExit /\ [Next]_vars
      => FlagStuckOnlyAtExit'
  <2> SUFFICES ASSUME TypeOK, RunsStarted, FlagStuckOnlyAtExit, [Next]_vars
               PROVE  FlagStuckOnlyAtExit'
    OBVIOUS
  <2>0. DataOK /\ inProgress \in [Dashboards -> BOOLEAN]
    BY DEF TypeOK, FlagsOK
  <2> DEFINE Held == Awaiting \cup {"empty", "thrown"}
  <2>a. "none" \notin Held /\ "contacts" \in Held /\ "done" \notin Held
    BY DEF Awaiting
  <2>1. ASSUME NEW kind \in Kinds, NEW d \in Dashboards, TriggerSOS(kind, d)
        PROVE  FlagStuckOnlyAtExit'
    <3> SUFFICES ASSUME NEW e \in Dashboards, inProgress'[e]
                 PROVE  \E r \in Runs : dash'[r] = e /\ phase'[r] \in Held
      BY DEF FlagStuckOnlyAtExit
    <3>1. CASE e = d
      BY <2>0, <2>a, <2>1, <3>1, TriggerEffect
    <3>2. CASE e # d
      <4>1. inProgress[e]
        BY <2>0, <2>1, <3>2, TriggerEffect
      <4>2. PICK r \in Runs : dash[r] = e /\ phase[r] \in Held
        BY <4>1 DEF FlagStuckOnlyAtExit
      <4> QED BY <2>0, <2>a, <2>1, <4>2, TriggerEffect
    <3> QED BY <3>1, <3>2
  <2>2. ASSUME NEW r \in Runs, Dispatch(r) PROVE FlagStuckOnlyAtExit'
    <3> SUFFICES ASSUME NEW e \in Dashboards, inProgress'[e]
                 PROVE  \E s \in Runs : dash'[s] = e /\ phase'[s] \in Held
      BY DEF FlagStuckOnlyAtExit
    <3>1. inProgress[e] /\ (phase'[r] = "done" => e # dash[r])
      BY <2>0, <2>2, DispatchEffect
    <3>2. PICK s \in Runs : dash[s] = e /\ phase[s] \in Held
      BY <3>1 DEF FlagStuckOnlyAtExit
    <3> QED BY <2>0, <2>2, <3>1, <3>2, DispatchEffect
  <2>3. CASE Restart
    BY <2>3 DEF Restart, FlagStuckOnlyAtExit
  <2>4. CASE UNCHANGED <<phase, dash, inProgress>>
    BY <2>4 DEF FlagStuckOnlyAtExit
  <2> QED
    BY <2>1, <2>2, <2>3, <2>4 DEF Next, Kinds, Disarm, DisarmAnswered,
       Logout, Login, ShakeSOS, OrphanAnswered, NetworkChanges, vars, runVars, widgetVars
<1> QED
  BY <1>1, <1>2, DispatchTypeCorrect, PTL DEF Spec

-----------------------------------------------------------------------------
(* The life of one alert.  AlertReachesContacts is not inductive: it does not *)
(* say which runs have no document yet, who has been tried at which await,    *)
(* and what the writes on the way to the server are about.                    *)

RunState(r) ==
    /\ phase[r] \in {"none", "contacts", "empty", "thrown", "creating"} =>
           doc[r] = "none" /\ tried[r] = {}
    /\ phase[r] = "creating" => todo[r] = Phones
    /\ phase[r] \in {"broadcast", "sending"} =>
           /\ tried[r] \cup todo[r] = Phones
           /\ tried[r] \cap todo[r] = {}
    /\ phase[r] \in {"marking", "logging", "done"} => tried[r] = Phones

\* A Dashboard holds the id of a created document only.
IdState(d) ==
    activeId[d] # 0 =>
        /\ doc[activeId[d]] # "none"
        /\ phase[activeId[d]] \in {"broadcast", "sending", "marking", "logging",
                                   "done"}

\* The write that creates a document finds none and no one tried, and its run
\* still waits for it or ended with its process; one that updates a document
\* finds it, and one that calls it sent finds everyone tried.
Carried(w) ==
    /\ w.status = "active" =>
           /\ doc[w.to] = "none" /\ tried[w.to] = {}
           /\ w.dash # 0 => phase[w.to] = "creating"
           /\ w.dash = 0 => phase[w.to] = "interrupted"
    /\ w.status = "sent" => doc[w.to] # "none" /\ tried[w.to] = Phones
    /\ w.status = "resolved" => doc[w.to] # "none"

CreatedOnce ==
    \A i, j \in DOMAIN writes :
        /\ writes[i].status = "active" /\ writes[j].status = "active"
        /\ writes[i].to = writes[j].to
        => i = j

WritesInv == CreatedOnce /\ \A i \in DOMAIN writes : Carried(writes[i])

AlertInv ==
    /\ MarksOwnAlert
    /\ \A r \in Runs : RunState(r)
    /\ \A d \in Dashboards : IdState(d)
    /\ WritesInv

LEMMA WriteOf ==
    ASSUME writes \in Seq(Writes), WritesInv, NEW i \in DOMAIN writes
    PROVE  /\ writes[i] \in Writes /\ writes[i].to \in Runs
           /\ Carried(writes[i])
<1>1. writes[i] \in Writes
  OBVIOUS
<1>2. writes[i].to \in Runs
  BY <1>1 DEF Writes
<1> QED BY <1>1, <1>2 DEF WritesInv

\* What the writes say stays true while documents stay, contacts that were
\* tried stay tried and the runs that wait for a creation are left alone.
LEMMA WritesStay ==
    ASSUME writes \in Seq(Writes), WritesInv, UNCHANGED writes,
           \A s \in Runs :
               /\ doc[s] # "none" => doc'[s] # "none"
               /\ tried[s] = Phones => tried'[s] = Phones
               /\ phase[s] \in {"creating", "interrupted"} =>
                      /\ doc'[s] = doc[s] /\ tried'[s] = tried[s]
                      /\ phase'[s] = phase[s]
    PROVE  WritesInv'
<1>1. CreatedOnce'
  BY DEF WritesInv, CreatedOnce
<1>2. ASSUME NEW i \in DOMAIN writes PROVE Carried(writes[i])'
  <2>1. writes[i] \in Writes /\ writes[i].to \in Runs /\ Carried(writes[i])
    BY WriteOf
  <2> QED BY <2>1 DEF Carried
<1> QED BY <1>1, <1>2 DEF WritesInv

\* A write that is sent off.
LEMMA WritesGrowRight ==
    ASSUME writes \in Seq(Writes), WritesInv,
           NEW w \in Writes, writes' = Append(writes, w), Carried(w)',
           w.status = "active" => phase[w.to] = "contacts",
           UNCHANGED <<doc, tried>>,
           \A s \in Runs : phase[s] \in {"creating", "interrupted"} =>
                               phase'[s] = phase[s]
    PROVE  WritesInv'
<1>1. PICK n \in DOMAIN writes' :
          /\ writes'[n] = w
          /\ \A i \in DOMAIN writes' : i # n => i \in DOMAIN writes
  BY WritesAppended
<1>2. \A i \in DOMAIN writes : i \in DOMAIN writes' /\ writes'[i] = writes[i]
  BY WritesAppended
<1>3. ASSUME NEW i \in DOMAIN writes
      PROVE  /\ writes[i].to \in Runs /\ Carried(writes[i])
             /\ Carried(writes[i])'
  <2>1. writes[i] \in Writes /\ writes[i].to \in Runs /\ Carried(writes[i])
    BY WriteOf
  <2>2. writes'[i] = writes[i]
    BY <1>2
  <2> QED BY <2>1, <2>2 DEF Carried
<1>4. ASSUME NEW i \in DOMAIN writes PROVE writes[i].status = "active" /\
          w.status = "active" => writes[i].to # w.to
  BY <1>3 DEF Carried
<1>5. CreatedOnce'
  BY <1>1, <1>2, <1>4 DEF WritesInv, CreatedOnce
<1>6. ASSUME NEW i \in DOMAIN writes' PROVE Carried(writes[i])'
  BY <1>1, <1>3
<1> QED BY <1>5, <1>6 DEF WritesInv

\* An answered write was right, and the ones behind it stay so: a document that
\* is created has no second creation on the way.
LEMMA WritesAnswered ==
    ASSUME writes \in Seq(Writes), WritesInv,
           doc \in [Runs -> {"none", "active", "sent", "resolved"}],
           NEW w \in Writes, Answered(w), Taken(w) \/ Refused, UNCHANGED tried,
           \A s \in Runs \ {w.to} : phase[s] \in {"creating", "interrupted"} =>
                                        phase'[s] = phase[s]
    PROVE  /\ Carried(w) /\ WritesInv'
           /\ \A s \in Runs : doc[s] # "none" => doc'[s] # "none"
           /\ \A s \in Runs \ {w.to} : doc'[s] = doc[s]
<1>0. w.to \in Runs /\ w.status \in {"active", "sent", "resolved"}
  BY DEF Writes
<1>1. /\ \A s \in Runs : doc[s] # "none" => doc'[s] # "none"
      /\ \A s \in Runs \ {w.to} : doc'[s] = doc[s]
  BY <1>0 DEF Taken, Refused
<1>2. /\ 1 \in DOMAIN writes /\ writes[1] = w
      /\ \A i \in DOMAIN writes' :
             i + 1 \in DOMAIN writes /\ i + 1 # 1 /\ writes'[i] = writes[i + 1]
      /\ \A i, j \in DOMAIN writes' : i + 1 = j + 1 => i = j
  BY WritesPopped DEF Answered
<1>3. Carried(w)
  BY <1>2 DEF WritesInv
<1>4. ASSUME NEW i \in DOMAIN writes, i # 1
      PROVE  /\ writes[i] \in Writes /\ writes[i].to \in Runs
             /\ Carried(writes[i])
             /\ writes[i].status = "active" => writes[i].to # w.to
  <2>1. writes[i] \in Writes /\ writes[i].to \in Runs /\ Carried(writes[i])
    BY WriteOf
  <2>2. CASE w.status = "active"
    BY <1>2, <1>4, <2>1, <2>2 DEF WritesInv, CreatedOnce
  <2>3. CASE w.status # "active"
    BY <1>0, <1>3, <2>1, <2>3 DEF Carried
  <2> QED BY <2>1, <2>2, <2>3
<1>5. CreatedOnce'
  BY <1>2 DEF WritesInv, CreatedOnce
<1>6. ASSUME NEW i \in DOMAIN writes' PROVE Carried(writes[i])'
  <2>1. i + 1 \in DOMAIN writes /\ i + 1 # 1 /\ writes'[i] = writes[i + 1]
    BY <1>2
  <2>2. /\ writes[i + 1].to \in Runs /\ Carried(writes[i + 1])
        /\ writes[i + 1].status = "active" => writes[i + 1].to # w.to
    BY <1>4, <2>1
  <2> QED BY <1>1, <2>1, <2>2 DEF Carried
<1> QED BY <1>1, <1>3, <1>5, <1>6 DEF WritesInv

\* After a restart the writes that are left belong to nobody.
LEMMA WritesOrphaned ==
    ASSUME writes \in Seq(Writes), WritesInv, writes' \in {<<>>, Kept},
           UNCHANGED <<doc, tried>>,
           \A r \in Runs : phase'[r] = IF phase[r] \in Awaiting
                                       THEN "interrupted" ELSE phase[r]
    PROVE  WritesInv'
<1>1. CASE writes' = <<>>
  BY <1>1 DEF WritesInv, CreatedOnce
<1>2. CASE writes' = Kept
  <2>1. /\ DOMAIN writes' = DOMAIN writes
        /\ \A i \in DOMAIN writes : /\ writes'[i].status = writes[i].status
                                    /\ writes'[i].to = writes[i].to
                                    /\ writes'[i].dash = 0
    BY <1>2, KeptTyped
  <2>2. CreatedOnce'
    BY <2>1 DEF WritesInv, CreatedOnce
  <2>3. ASSUME NEW i \in DOMAIN writes PROVE Carried(writes[i])'
    <3>1. writes[i].to \in Runs /\ Carried(writes[i])
      BY WriteOf
    <3>2. writes[i].status = "active" => phase'[writes[i].to] = "interrupted"
      BY <3>1 DEF Carried, Awaiting
    <3> QED BY <2>1, <3>1, <3>2 DEF Carried
  <2> QED BY <2>1, <2>2, <2>3 DEF WritesInv
<1> QED BY <1>1, <1>2

\* A step of a run keeps the invariant: no other run of the same Dashboard is
\* under way, and the answer it waits for is to its own write.
LEMMA DispatchKeepsAlerts ==
    ASSUME DataOK, RunsStarted, FlagCoversDispatch, AlertInv,
           NEW r \in Runs, Dispatch(r)
    PROVE  AlertInv'
<1>0. /\ dash[r] \in Dashboards /\ r # 0
      /\ activeId \in [Dashboards -> 0..MaxRuns]
      /\ doc \in [Runs -> {"none", "active", "sent", "resolved"}]
      /\ phase \in [Runs -> Phases] /\ todo \in [Runs -> SUBSET Phones]
      /\ tried \in [Runs -> SUBSET Phones]
      /\ writes \in Seq(Writes)
      /\ \A d \in Dashboards : activeId[d] # 0 => activeId[d] \in Runs
      /\ \A d \in Dashboards : d # 0 /\ d \in 0..MaxDashboards
      /\ RunState(r) /\ WritesInv
  <2>1. RunState(r) /\ WritesInv
    BY DEF AlertInv
  <2>2. dash[r] \in Dashboards
    BY DispatchEffect DEF RunsStarted
  <2> QED BY <2>1, <2>2, BoundsAssumption DEF DataOK, Runs, Dashboards
<1> DEFINE Late == {"broadcast", "sending", "marking", "logging"}
<1>1. ASSUME \A s \in Runs : doc[s] # "none" => doc'[s] # "none",
             \A s \in Runs : /\ phase[s] \in {"none", "contacts", "empty",
                                              "thrown", "creating"}
                             => doc'[s] = doc[s],
             UNCHANGED activeId, RunState(r)', WritesInv',
             phase'[r] \in Late => phase[r] \in Late,
             phase[r] \in Late => phase'[r] \in Late \cup {"done"}
      PROVE  AlertInv'
  <2>1. MarksOwnAlert'
    BY <1>1, DispatchEffect DEF AlertInv, MarksOwnAlert
  <2>2. ASSUME NEW s \in Runs PROVE RunState(s)'
    BY <1>1, DispatchEffect DEF AlertInv, RunState
  <2>3. ASSUME NEW d \in Dashboards PROVE IdState(d)'
    <3> SUFFICES ASSUME activeId[d] # 0
                 PROVE  /\ doc'[activeId[d]] # "none"
                        /\ phase'[activeId[d]] \in Late \cup {"done"}
      BY <1>1 DEF IdState
    <3>1. /\ activeId[d] \in Runs /\ doc[activeId[d]] # "none"
          /\ phase[activeId[d]] \in Late \cup {"done"}
      BY <1>0 DEF AlertInv, IdState
    <3>2. CASE activeId[d] = r
      <4>1. phase[r] \in Late
        BY <3>1, <3>2, DispatchEffect DEF Awaiting
      <4> QED BY <1>1, <3>1, <3>2, <4>1
    <3>3. CASE activeId[d] # r
      BY <1>1, <3>1, <3>3, DispatchEffect
    <3> QED BY <3>2, <3>3
  <2> QED BY <1>1, <2>1, <2>2, <2>3 DEF AlertInv
\* Steps that neither write nor are an answer.
<1>a. ASSUME UNCHANGED <<writes, doc>>,
             phase[r] \notin {"creating", "interrupted"},
             tried[r] = Phones => tried'[r] = Phones
      PROVE  WritesInv'
  BY <1>0, <1>a, WritesStay, DispatchEffect
<1>2. CASE ContactsEmpty(r)
  <2>1. /\ phase[r] = "contacts" /\ phase'[r] = "empty"
        /\ UNCHANGED <<activeId, doc, tried, writes>>
    BY <1>0, <1>2 DEF ContactsEmpty, widgetVars, cloudVars
  <2> QED BY <1>0, <1>1, <1>a, <2>1 DEF RunState
<1>3. CASE ContactsFoundDisposed(r)
  <2>1. /\ phase[r] = "contacts" /\ phase'[r] = "thrown"
        /\ UNCHANGED <<activeId, doc, tried, writes>>
    BY <1>0, <1>3 DEF ContactsFoundDisposed, cloudVars
  <2> QED BY <1>0, <1>1, <1>a, <2>1 DEF RunState
<1>4. CASE ContactsFound(r)
  <2>1. /\ phase[r] = "contacts" /\ phase'[r] = "creating"
        /\ todo'[r] = Phones
        /\ UNCHANGED <<activeId, tried, doc>>
        /\ writes' = Append(writes, Write("active", r, dash[r]))
    BY <1>0, <1>4 DEF ContactsFound
  <2>2. /\ Write("active", r, dash[r]) \in Writes
        /\ Write("active", r, dash[r]).status = "active"
        /\ Write("active", r, dash[r]).to = r
        /\ Write("active", r, dash[r]).dash = dash[r]
    BY <1>0, WriteTyped
  <2>3. UNCHANGED dash
    BY DispatchEffect
  <2>4. Carried(Write("active", r, dash[r]))'
    BY <1>0, <2>1, <2>2, <2>3 DEF Carried, RunState
  <2>5. WritesInv'
    BY <1>0, <2>1, <2>2, <2>3, <2>4, WritesGrowRight, DispatchEffect
  <2> QED BY <1>0, <1>1, <2>1, <2>5 DEF RunState
<1>5. CASE AlertCreated(r)
  <2> DEFINE w == Write("active", r, dash[r])
  <2>0. /\ w \in Writes /\ w.status = "active" /\ w.to = r /\ w.dash = dash[r]
    BY <1>0, WriteTyped
  <2> HIDE DEF w
  <2>1. /\ phase[r] = "creating" /\ phase'[r] = "broadcast"
        /\ UNCHANGED <<todo, tried, dash>>
        /\ Answered(w)
        /\ \A d \in Dashboards \ {dash[r]} : activeId'[d] = activeId[d]
        /\ \/ activeId'[dash[r]] = r /\ Taken(w)
           \/ activeId'[dash[r]] = 0 /\ Refused
    BY <1>0, <1>5 DEF AlertCreated, w
  <2>a. /\ \A s \in Runs \ {r} : doc'[s] = doc[s]
        /\ WritesInv'
        /\ activeId'[dash[r]] = r => doc'[r] = "active"
    <3>1. \A s \in Runs \ {r} : phase'[s] = phase[s]
      BY DispatchEffect
    <3>2. activeId'[dash[r]] = r => doc'[r] = "active"
      BY <1>0, <2>0, <2>1 DEF Taken
    <3> QED BY <1>0, <2>0, <2>1, <3>1, <3>2, WritesAnswered
  <2>2. ASSUME NEW s \in Runs PROVE RunState(s)'
    <3>1. CASE s = r
      BY <1>0, <2>1, <3>1 DEF RunState
    <3>2. CASE s # r
      BY <2>1, <2>a, <3>2, DispatchEffect DEF AlertInv, RunState
    <3> QED BY <3>1, <3>2
  <2>3. ASSUME NEW s \in Runs, s # r, phase'[s] \in Late
        PROVE  /\ dash[s] # dash[r] /\ dash[s] \in Dashboards
               /\ phase[s] = phase'[s]
    BY <2>3, DispatchEffect DEF FlagCoversDispatch, RunsStarted, Awaiting
  <2>4. MarksOwnAlert'
    BY <1>0, <2>1, <2>3 DEF AlertInv, MarksOwnAlert
  <2>5. ASSUME NEW d \in Dashboards PROVE IdState(d)'
    <3>1. CASE d = dash[r]
      BY <2>1, <2>a, <3>1 DEF IdState
    <3>2. CASE d # dash[r]
      <4>1. /\ activeId'[d] = activeId[d]
            /\ activeId[d] # 0 => activeId[d] \in Runs \ {r}
        BY <1>0, <2>1, <3>2 DEF AlertInv, IdState
      <4> QED BY <2>a, <4>1, DispatchEffect DEF AlertInv, IdState
    <3> QED BY <3>1, <3>2
  <2> QED BY <2>2, <2>4, <2>5, <2>a DEF AlertInv
<1>6. CASE BroadcastDone(r)
  <2>1. /\ phase[r] = "broadcast" /\ phase'[r] = "sending"
        /\ UNCHANGED <<activeId, doc, todo, tried, writes>>
    BY <1>0, <1>6 DEF BroadcastDone, widgetVars, cloudVars
  <2> QED BY <1>0, <1>1, <1>a, <2>1 DEF RunState
<1>7. ASSUME NEW phone \in Phones, NotifyContact(r, phone) PROVE AlertInv'
  <2>1. /\ phase[r] = "sending" /\ phone \in todo[r]
        /\ todo'[r] = todo[r] \ {phone}
        /\ tried'[r] = tried[r] \cup {phone}
        /\ UNCHANGED <<activeId, doc, phase, writes>>
    BY <1>0, <1>7 DEF NotifyContact, widgetVars, cloudVars
  <2>2. RunState(r)' /\ (tried[r] = Phones => tried'[r] = Phones)
    <3>1. /\ tried'[r] \cup todo'[r] = tried[r] \cup todo[r]
          /\ tried[r] \cap todo[r] = {} => tried'[r] \cap todo'[r] = {}
          /\ tried[r] = Phones => tried'[r] = Phones
      BY <1>0, <2>1
    <3> QED BY <1>0, <2>1, <3>1 DEF RunState
  <2> QED BY <1>0, <1>1, <1>a, <2>1, <2>2
<1>8. CASE MarkSent(r)
  <2>1. /\ phase[r] = "sending" /\ todo[r] = {}
        /\ phase'[r] \in {"marking", "logging"}
        /\ UNCHANGED <<activeId, todo, tried, doc>>
        /\ \/ /\ activeId[dash[r]] # 0
              /\ writes' = Append(writes, Write("sent", activeId[dash[r]], dash[r]))
           \/ UNCHANGED writes
    BY <1>0, <1>8 DEF MarkSent, widgetVars, cloudVars
  <2>2. CASE UNCHANGED writes
    BY <1>0, <1>1, <1>a, <2>1, <2>2 DEF RunState
  <2>3. CASE /\ activeId[dash[r]] # 0
             /\ writes' = Append(writes, Write("sent", activeId[dash[r]], dash[r]))
    <3>1. activeId[dash[r]] = r
      BY <2>1, <2>3 DEF AlertInv, MarksOwnAlert
    <3>2. /\ Write("sent", r, dash[r]) \in Writes
          /\ Write("sent", r, dash[r]).status = "sent"
          /\ Write("sent", r, dash[r]).to = r
      BY <1>0, WriteTyped
    <3>3. doc[r] # "none" /\ tried[r] = Phones
      BY <1>0, <2>1, <2>3, <3>1 DEF AlertInv, IdState, RunState
    <3>4. Carried(Write("sent", r, dash[r]))'
      <4>1. UNCHANGED dash
        BY DispatchEffect
      <4> QED BY <2>1, <3>2, <3>3, <4>1 DEF Carried
    <3>5. WritesInv'
      <4>1. UNCHANGED dash /\ \A s \in Runs \ {r} : phase'[s] = phase[s]
        BY DispatchEffect
      <4> QED
        BY <1>0, <2>1, <2>3, <3>1, <3>2, <3>4, <4>1, WritesGrowRight
    <3> QED BY <1>0, <1>1, <2>1, <3>3, <3>5 DEF RunState
  <2> QED BY <2>1, <2>2, <2>3
<1>9. CASE SentAnswered(r)
  <2>1. PICK w \in Writes : /\ w.status = "sent" /\ Answered(w)
                            /\ Taken(w) \/ Refused
    BY <1>9 DEF SentAnswered
  <2>2. /\ phase[r] = "marking" /\ phase'[r] = "logging"
        /\ UNCHANGED <<activeId, todo, tried>>
    BY <1>0, <1>9 DEF SentAnswered, widgetVars
  <2>3. \A s \in Runs \ {r} : phase'[s] = phase[s]
    BY DispatchEffect
  <2>4. /\ Carried(w) /\ WritesInv' /\ w.to \in Runs
        /\ \A s \in Runs : doc[s] # "none" => doc'[s] # "none"
        /\ \A s \in Runs \ {w.to} : doc'[s] = doc[s]
    BY <1>0, <2>1, <2>2, <2>3, WritesAnswered DEF Writes
  <2>5. ASSUME NEW s \in Runs, phase[s] \in {"none", "contacts", "empty",
                                             "thrown", "creating"}
        PROVE  doc'[s] = doc[s]
    <3>1. doc[s] = "none"
      BY <2>5 DEF AlertInv, RunState
    <3>2. s # w.to
      BY <2>1, <2>4, <3>1 DEF Carried
    <3> QED BY <2>4, <3>2
  <2> QED BY <1>0, <1>1, <2>2, <2>4, <2>5 DEF RunState
<1>10. CASE DispatchEnds(r)
  <2>1. /\ phase[r] = "logging" /\ phase'[r] = "done"
        /\ UNCHANGED <<activeId, doc, todo, tried, writes>>
    BY <1>0, <1>10 DEF DispatchEnds, cloudVars
  <2> QED BY <1>0, <1>1, <1>a, <2>1 DEF RunState
<1> QED
  BY <1>2, <1>3, <1>4, <1>5, <1>6, <1>7, <1>8, <1>9, <1>10 DEF Dispatch

\* A disarm only asks for a change of a document that is there.
LEMMA DisarmKeepsAlerts ==
    ASSUME DataOK, RunsStarted, AlertInv, NEW d \in Dashboards, Disarm(d)
    PROVE  AlertInv'
<1>0. /\ activeId[d] # 0 => activeId[d] \in Runs
      /\ d \in 0..MaxDashboards /\ writes \in Seq(Writes)
  BY BoundsAssumption DEF DataOK, Runs, Dashboards
<1>1. /\ UNCHANGED <<activeId, phase, dash, todo, tried, doc>>
      /\ \/ /\ activeId[d] # 0
            /\ writes' = Append(writes, Write("resolved", activeId[d], d))
         \/ UNCHANGED writes
  BY DEF Disarm, runVars, cloudVars
<1>2. WritesInv'
  <2>1. CASE UNCHANGED writes
    BY <1>0, <1>1, <2>1, WritesStay DEF AlertInv
  <2>2. CASE /\ activeId[d] # 0
             /\ writes' = Append(writes, Write("resolved", activeId[d], d))
    <3>1. PICK r \in Runs : r = activeId[d]
      BY <1>0, <2>2
    <3>2. doc[r] # "none"
      BY <2>2, <3>1 DEF AlertInv, IdState
    <3>3. /\ Write("resolved", r, d) \in Writes
          /\ Write("resolved", r, d).status = "resolved"
          /\ Write("resolved", r, d).to = r
      BY <1>0, WriteTyped
    <3>4. PICK w : w = Write("resolved", r, d)
      OBVIOUS
    <3>5. /\ w \in Writes /\ w.status = "resolved" /\ w.to = r
          /\ writes' = Append(writes, w)
      BY <2>2, <3>1, <3>3, <3>4
    <3>6. Carried(w)' /\ WritesInv
      BY <1>1, <3>2, <3>5 DEF Carried, AlertInv
    <3> QED BY <1>0, <1>1, <3>5, <3>6, WritesGrowRight
  <2> QED BY <1>1, <2>1, <2>2
<1>3. MarksOwnAlert' /\ \A r \in Runs : RunState(r)'
  BY <1>1 DEF AlertInv, MarksOwnAlert, RunState
<1>4. \A e \in Dashboards : IdState(e)'
  BY <1>1 DEF AlertInv, IdState
<1> QED BY <1>2, <1>3, <1>4 DEF AlertInv

\* The answer to a write that no run waits for: to a disarm, or to whatever a
\* process left.
LEMMA AnswerKeepsAlerts ==
    ASSUME DataOK, RunsStarted, AlertInv, NEW w \in Writes, Answered(w),
           Taken(w) \/ Refused, w.status = "resolved" \/ w.dash = 0,
           UNCHANGED <<phase, dash, todo, tried>>,
           \A d \in Dashboards : activeId'[d] \in {0, activeId[d]}
    PROVE  AlertInv'
<1>1. /\ Carried(w) /\ WritesInv' /\ w.to \in Runs
      /\ \A s \in Runs : doc[s] # "none" => doc'[s] # "none"
      /\ \A s \in Runs \ {w.to} : doc'[s] = doc[s]
  BY WritesAnswered DEF DataOK, AlertInv, Writes
<1>2. ASSUME NEW s \in Runs PROVE RunState(s)'
  <2>1. phase[s] \in {"none", "contacts", "empty", "thrown", "creating"} =>
            doc'[s] = doc[s]
    <3>1. CASE s # w.to
      BY <1>1, <3>1
    <3>2. CASE s = w.to
      <4>1. doc[s] # "none" \/ phase[s] = "interrupted"
        BY <1>1, <3>2 DEF Carried, Writes
      <4> QED BY <4>1 DEF AlertInv, RunState
    <3> QED BY <3>1, <3>2
  <2> QED BY <2>1 DEF AlertInv, RunState
<1>3. MarksOwnAlert'
  <2>1. \A r \in Runs : phase[r] \in Awaiting => dash[r] \in Dashboards
    BY DEF RunsStarted
  <2> QED BY <2>1 DEF AlertInv, MarksOwnAlert, Awaiting
<1>4. ASSUME NEW d \in Dashboards PROVE IdState(d)'
  <2>1. activeId[d] # 0 => activeId[d] \in Runs
    BY DEF DataOK, Runs
  <2> QED BY <1>1, <2>1 DEF AlertInv, IdState
<1> QED BY <1>1, <1>2, <1>3, <1>4 DEF AlertInv

\* Every step keeps the invariant.
LEMMA AlertInductive ==
    TypeOK /\ RunsStarted /\ FlagCoversDispatch /\ AlertInv /\ [Next]_vars
        => AlertInv'
<1> SUFFICES ASSUME TypeOK, RunsStarted, FlagCoversDispatch, AlertInv,
                    [Next]_vars
             PROVE  AlertInv'
  OBVIOUS
<1>0. /\ DataOK /\ activeId \in [Dashboards -> 0..MaxRuns]
      /\ writes \in Seq(Writes)
      /\ \A d \in Dashboards : activeId[d] # 0 => activeId[d] \in Runs
      /\ \A d \in Dashboards : d \in 0..MaxDashboards
  BY BoundsAssumption DEF TypeOK, DataOK, Runs, Dashboards
<1>1. ASSUME NEW kind \in Kinds, NEW d \in Dashboards, TriggerSOS(kind, d)
      PROVE  AlertInv'
  <2>1. MarksOwnAlert'
    BY <1>0, <1>1, TriggerEffect DEF AlertInv, MarksOwnAlert
  <2>2. ASSUME NEW r \in Runs PROVE RunState(r)'
    <3>1. CASE r = run + 1
      BY <1>0, <1>1, <3>1, TriggerEffect DEF AlertInv, RunState
    <3>2. CASE r # run + 1
      BY <1>0, <1>1, <3>2, TriggerEffect DEF AlertInv, RunState
    <3> QED BY <3>1, <3>2
  <2>3. ASSUME NEW e \in Dashboards PROVE IdState(e)'
    <3>1. activeId[e] # 0 => activeId[e] \in Runs \ {run + 1}
      BY <1>0, <1>1, TriggerEffect DEF AlertInv, IdState
    <3> QED BY <1>0, <1>1, <3>1, TriggerEffect DEF AlertInv, IdState
  <2>4. WritesInv'
    BY <1>0, <1>1, TriggerEffect, WritesStay DEF AlertInv
  <2> QED BY <2>1, <2>2, <2>3, <2>4 DEF AlertInv
<1>2. ASSUME NEW r \in Runs, Dispatch(r) PROVE AlertInv'
  BY <1>0, <1>2, DispatchKeepsAlerts
<1>3. ASSUME NEW d \in Dashboards, Disarm(d) PROVE AlertInv'
  BY <1>0, <1>3, DisarmKeepsAlerts
<1>4. ASSUME NEW r \in Runs, NEW d \in Dashboards, DisarmAnswered(r, d)
      PROVE  AlertInv'
  <2> DEFINE w == Write("resolved", r, d)
  <2>1. w \in Writes /\ w.status = "resolved"
    BY <1>0, WriteTyped
  <2> HIDE DEF w
  <2>2. /\ activeId' = [activeId EXCEPT ![d] = 0]
        /\ UNCHANGED <<phase, dash, todo, tried>>
        /\ Answered(w) /\ (Taken(w) \/ Refused)
    BY <1>4 DEF DisarmAnswered, runVars, w
  <2>3. \A e \in Dashboards : activeId'[e] \in {0, activeId[e]}
    BY <1>0, <2>2
  <2> QED BY <1>0, <2>1, <2>2, <2>3, AnswerKeepsAlerts
<1>5. CASE OrphanAnswered
  <2>1. PICK w \in Writes : /\ w.dash = 0 /\ Answered(w)
                            /\ Taken(w) \/ Refused
    BY <1>5 DEF OrphanAnswered
  <2>2. UNCHANGED <<activeId, phase, dash, todo, tried>>
    BY <1>5 DEF OrphanAnswered, widgetVars, runVars
  <2> QED BY <1>0, <2>1, <2>2, AnswerKeepsAlerts
<1>6. CASE Restart
  <2>1. /\ activeId' = [d \in Dashboards |-> 0] /\ UNCHANGED <<doc, tried>>
        /\ \A r \in Runs : phase'[r] = IF phase[r] \in Awaiting
                                       THEN "interrupted" ELSE phase[r]
        /\ writes' \in {<<>>, Kept}
    BY <1>6 DEF Restart
  <2>2. \A r \in Runs : phase'[r] \notin {"contacts", "creating", "broadcast",
                                          "sending", "marking", "logging"}
    BY <2>1 DEF Awaiting
  <2>3. MarksOwnAlert'
    BY <2>2 DEF MarksOwnAlert
  <2>4. ASSUME NEW r \in Runs PROVE RunState(r)'
    <3>1. phase'[r] \in {phase[r], "interrupted"}
      BY <2>1
    <3> QED BY <2>1, <2>2, <3>1 DEF AlertInv, RunState
  <2>5. \A d \in Dashboards : IdState(d)'
    BY <2>1 DEF IdState
  <2>6. WritesInv'
    BY <1>0, <2>1, WritesOrphaned DEF AlertInv
  <2> QED BY <2>3, <2>4, <2>5, <2>6 DEF AlertInv
<1>7. CASE UNCHANGED <<activeId, phase, dash, todo, tried, doc, writes>>
  <2>1. WritesInv'
    BY <1>0, <1>7, WritesStay DEF AlertInv
  <2> QED BY <1>7, <2>1 DEF AlertInv, MarksOwnAlert, RunState, IdState
<1> QED
  BY <1>1, <1>2, <1>3, <1>4, <1>5, <1>6, <1>7 DEF Next, Kinds, Logout, Login,
     ShakeSOS, NetworkChanges, vars, runVars, cloudVars, widgetVars

LEMMA AlertAlways ==
    Spec => [](TypeOK /\ RunsStarted /\ FlagCoversDispatch /\ AlertInv)
<1>1. Init => AlertInv
  <2> SUFFICES ASSUME Init PROVE AlertInv
    OBVIOUS
  <2>1. /\ \A r \in Runs : phase[r] = "none" /\ doc[r] = "none" /\ tried[r] = {}
        /\ \A d \in Dashboards : activeId[d] = 0
        /\ writes = <<>>
    BY DEF Init
  <2>2. WritesInv
    BY <2>1 DEF WritesInv, CreatedOnce
  <2> QED BY <2>1, <2>2 DEF AlertInv, MarksOwnAlert, RunState, IdState
<1> QED
  BY <1>1, AlertInductive, DispatchTypeCorrect, FlagAlwaysCovers, PTL DEF Spec

\* The document a dispatch marks as sent at its end is its own or none, although
\* it reads _activeAlertId anew after every await before.
THEOREM AlwaysMarksOwnAlert == Spec => []MarksOwnAlert
<1>1. AlertInv => MarksOwnAlert
  BY DEF AlertInv
<1> QED BY <1>1, AlertAlways, PTL

\* For every alert that guardians can see every contact is tried, whatever is
\* disarmed, triggered or refused meanwhile, unless the process ends.
THEOREM AlertAlwaysReaches == Spec => []AlertReachesContacts
<1>1. DataOK /\ AlertInv => AlertReachesContacts
  <2> SUFFICES ASSUME DataOK, AlertInv, NEW r \in Runs, doc[r] # "none"
               PROVE  \/ tried[r] = Phones
                      \/ phase[r] = "interrupted"
                      \/ /\ phase[r] \in {"broadcast", "sending"}
                         /\ tried[r] \cup todo[r] = Phones
    BY DEF AlertReachesContacts
  <2>1. phase[r] \in Phases /\ RunState(r)
    BY DEF DataOK, AlertInv
  <2> QED BY <2>1 DEF RunState, Phases, Awaiting, Over
<1> QED BY <1>1, AlertAlways, PTL DEF TypeOK

-----------------------------------------------------------------------------
(* StaysDisarmable is not inductive: it speaks of the shown Dashboard only,   *)
(* and a Dashboard that is shown later must have no alert from before.        *)

\* A disarm of the Dashboard is on the way to the server.
Pending(d) == \E i \in DOMAIN writes :
                  writes[i].status = "resolved" /\ writes[i].dash = d

\* Runs and ids belong to Dashboards that exist, an id to its run's own.
Placed ==
    /\ screen <= latest
    /\ \A r \in Runs : phase[r] \in Awaiting => dash[r] <= latest
    /\ \A d \in Dashboards :
           activeId[d] # 0 => d <= latest /\ dash[activeId[d]] = d

Shows(d) ==
    d = screen /\ activeId[d] # 0 /\ phase[activeId[d]] = "done"
        => overlay[d] \/ silent[activeId[d]] \/ Pending(d)

DisarmInv == Placed /\ \A d \in Dashboards : Shows(d)

\* One write more keeps what is pending; the acknowledgement of another does.
LEMMA PendingGrows ==
    ASSUME writes \in Seq(Writes), NEW w \in Writes,
           writes' = Append(writes, w), NEW d
    PROVE  /\ Pending(d) => Pending(d)'
           /\ w.status = "resolved" /\ w.dash = d => Pending(d)'
<1>1. /\ DOMAIN writes = 1..Len(writes) /\ Len(writes) \in Nat
      /\ DOMAIN writes' = 1..(Len(writes) + 1)
      /\ \A i \in DOMAIN writes : writes'[i] = writes[i]
      /\ writes'[Len(writes) + 1] = w
  OBVIOUS
<1>2. /\ \A i \in DOMAIN writes : i \in DOMAIN writes'
      /\ Len(writes) + 1 \in DOMAIN writes'
  BY <1>1
<1> QED BY <1>1, <1>2 DEF Pending

LEMMA PendingShrinks ==
    ASSUME writes \in Seq(Writes), writes # <<>>, writes' = Tail(writes),
           NEW d, ~(Head(writes).status = "resolved" /\ Head(writes).dash = d)
    PROVE  Pending(d) => Pending(d)'
<1> SUFFICES ASSUME NEW i \in DOMAIN writes,
                    writes[i].status = "resolved", writes[i].dash = d
             PROVE  Pending(d)'
  BY DEF Pending
<1>1. /\ DOMAIN writes = 1..Len(writes) /\ Len(writes) \in Nat
      /\ Head(writes) = writes[1]
      /\ DOMAIN writes' = 1..(Len(writes) - 1)
      /\ \A j \in DOMAIN writes' : writes'[j] = writes[j + 1]
  OBVIOUS
<1>2. i # 1 /\ i - 1 \in DOMAIN writes' /\ writes'[i - 1] = writes[i]
  BY <1>1
<1> QED BY <1>2 DEF Pending

\* What the steps of a run do to ids, overlays and writes.
LEMMA DispatchShows ==
    ASSUME DataOK, RunsStarted, NEW r \in Runs, Dispatch(r)
    PROVE  /\ \/ UNCHANGED activeId
              \/ /\ phase'[r] = "broadcast"
                 /\ \E i \in {0, r} :
                        activeId' = [activeId EXCEPT ![dash[r]] = i]
           /\ \/ UNCHANGED overlay /\ phase'[r] # "done"
              \/ /\ phase'[r] = "done"
                 /\ overlay' = [overlay EXCEPT ![dash[r]] =
                                    @ \/ (~silent[r] /\ dash[r] = screen)]
           /\ \A d \in Dashboards : Pending(d) => Pending(d)'
<1>0. /\ writes \in Seq(Writes) /\ phase \in [Runs -> Phases]
      /\ dash[r] \in Dashboards
  BY DispatchEffect DEF DataOK, RunsStarted
<1>1. CASE ContactsFound(r)
  <2>1. /\ UNCHANGED <<activeId, overlay>> /\ phase'[r] = "creating"
        /\ writes' = Append(writes, Write("active", r, dash[r]))
    BY <1>0, <1>1 DEF ContactsFound
  <2>2. dash[r] \in 0..MaxDashboards
    BY <1>0, BoundsAssumption DEF Dashboards
  <2> QED BY <1>0, <2>1, <2>2, WriteTyped, PendingGrows
<1>2. CASE AlertCreated(r)
  <2>1. /\ UNCHANGED overlay /\ phase'[r] = "broadcast"
        /\ writes # <<>> /\ writes' = Tail(writes)
        /\ Head(writes) = Write("active", r, dash[r])
    BY <1>0, <1>2 DEF AlertCreated, Answered
  <2>2. Head(writes).status # "resolved"
    BY <2>1 DEF Write
  <2>3. \E i \in {0, r} : activeId' = [activeId EXCEPT ![dash[r]] = i]
    BY <1>2, Zenon DEF AlertCreated
  <2> QED BY <1>0, <2>1, <2>2, <2>3, PendingShrinks
<1>3. CASE MarkSent(r)
  <2>1. /\ UNCHANGED <<activeId, overlay>> /\ phase'[r] # "done"
        /\ \/ /\ activeId[dash[r]] # 0
              /\ writes' = Append(writes, Write("sent", activeId[dash[r]], dash[r]))
           \/ UNCHANGED writes
    BY <1>0, <1>3 DEF MarkSent, widgetVars, cloudVars
  <2>2. CASE UNCHANGED writes
    BY <2>1, <2>2 DEF Pending
  <2>3. CASE /\ activeId[dash[r]] # 0
             /\ writes' = Append(writes, Write("sent", activeId[dash[r]], dash[r]))
    <3>1. activeId[dash[r]] \in Runs /\ dash[r] \in 0..MaxDashboards
      BY <1>0, <2>3, BoundsAssumption DEF DataOK, Runs, Dashboards
    <3>2. Write("sent", activeId[dash[r]], dash[r]) \in Writes
      BY <3>1, WriteTyped
    <3> QED BY <1>0, <2>1, <2>3, <3>2, PendingGrows
  <2> QED BY <2>1, <2>2, <2>3
<1>4. CASE SentAnswered(r)
  <2>1. UNCHANGED <<activeId, overlay>> /\ phase'[r] = "logging"
    BY <1>0, <1>4 DEF SentAnswered, widgetVars
  <2>2. /\ writes # <<>> /\ writes' = Tail(writes)
        /\ Head(writes).status # "resolved"
    BY <1>4 DEF SentAnswered, Answered
  <2> QED BY <1>0, <2>1, <2>2, PendingShrinks
<1>5. CASE DispatchEnds(r)
  <2>1. /\ UNCHANGED <<activeId, writes>> /\ phase'[r] = "done"
        /\ overlay' = [overlay EXCEPT ![dash[r]] =
                           @ \/ (~silent[r] /\ dash[r] = screen)]
    BY <1>0, <1>5 DEF DispatchEnds, cloudVars
  <2> QED BY <2>1 DEF Pending
<1>6. ASSUME NEW phone \in Phones, NotifyContact(r, phone)
      PROVE  UNCHANGED <<activeId, overlay, writes>> /\ phase'[r] = "sending"
  BY <1>6 DEF NotifyContact, widgetVars, cloudVars
<1>7. CASE ContactsEmpty(r) \/ ContactsFoundDisposed(r) \/ BroadcastDone(r)
  BY <1>0, <1>7 DEF ContactsEmpty, ContactsFoundDisposed, BroadcastDone,
     widgetVars, cloudVars, Pending
<1> QED
  BY <1>1, <1>2, <1>3, <1>4, <1>5, <1>6, <1>7 DEF Dispatch, Pending

LEMMA DispatchKeepsDisarm ==
    ASSUME TypeOK, RunsStarted, AlertInv, DisarmInv, NEW r \in Runs, Dispatch(r)
    PROVE  DisarmInv'
<1>0. /\ DataOK /\ dash[r] \in Dashboards /\ dash[r] <= latest /\ r # 0
      /\ activeId \in [Dashboards -> 0..MaxRuns]
      /\ overlay \in [Dashboards -> BOOLEAN]
      /\ "broadcast" # "done"
  BY DispatchEffect DEF TypeOK, DataOK, FlagsOK, RunsStarted, DisarmInv, Placed,
     Runs
<1>1. Placed'
  <2>1. \A s \in Runs : phase'[s] \in Awaiting => phase[s] \in Awaiting
    BY <1>0, DispatchEffect
  <2>2. \A d \in Dashboards : activeId'[d] # 0 =>
            d <= latest /\ dash[activeId'[d]] = d
    BY <1>0, DispatchShows DEF DisarmInv, Placed
  <2> QED BY <1>0, <2>1, <2>2, DispatchEffect DEF DisarmInv, Placed
<1>2. ASSUME NEW d \in Dashboards PROVE Shows(d)'
  <2> SUFFICES ASSUME d = screen, activeId'[d] # 0, phase'[activeId'[d]] = "done"
               PROVE  overlay'[d] \/ silent[activeId'[d]] \/ Pending(d)'
    BY <1>0, DispatchEffect DEF Shows
  <2>1. activeId'[d] = activeId[d]
    BY <1>0, DispatchShows
  <2>2. activeId[d] \in Runs /\ dash[activeId[d]] = d
    BY <1>0, <2>1 DEF DisarmInv, Placed, Runs
  <2>3. CASE activeId[d] = r
    BY <1>0, <2>1, <2>2, <2>3, DispatchShows
  <2>4. CASE activeId[d] # r
    <3>1. phase[activeId[d]] = "done"
      BY <1>0, <2>1, <2>2, <2>4, DispatchEffect
    <3>2. overlay[d] \/ silent[activeId[d]] \/ Pending(d)
      BY <2>1, <3>1 DEF DisarmInv, Shows
    <3>3. overlay[d] => overlay'[d]
      BY <1>0, DispatchShows
    <3> QED BY <1>0, <2>1, <3>2, <3>3, DispatchShows
  <2> QED BY <2>3, <2>4
<1> QED BY <1>1, <1>2 DEF DisarmInv

\* The shown Dashboard keeps an overlay, or a disarm that is pending, for an
\* alert that is done.
LEMMA DisarmInductive ==
    TypeOK /\ RunsStarted /\ FlagCoversDispatch /\ AlertInv /\ DisarmInv
        /\ [Next]_vars => DisarmInv'
<1> SUFFICES ASSUME TypeOK, RunsStarted, AlertInv, DisarmInv, [Next]_vars
             PROVE  DisarmInv'
  OBVIOUS
<1>0. /\ DataOK /\ screen \in 0..MaxDashboards /\ latest \in 0..MaxDashboards
      /\ writes \in Seq(Writes)
      /\ activeId \in [Dashboards -> 0..MaxRuns]
      /\ overlay \in [Dashboards -> BOOLEAN] /\ silent \in [Runs -> BOOLEAN]
      /\ \A d \in Dashboards : activeId[d] # 0 => activeId[d] \in Runs
      /\ \A d \in Dashboards : d # 0 /\ d \in Nat /\ d \in 0..MaxDashboards
      /\ MaxDashboards \in Nat
  BY BoundsAssumption DEF TypeOK, DataOK, FlagsOK, Runs, Dashboards
<1>1. ASSUME NEW kind \in Kinds, NEW d \in Dashboards, TriggerSOS(kind, d)
      PROVE  DisarmInv'
  <2>1. /\ d = screen \/ d = latest
        /\ UNCHANGED <<screen, latest, activeId, overlay, writes>>
    BY <1>1 DEF TriggerSOS, MayTrigger, screenVars, cloudVars
  <2>2. \A s \in Runs \ {run + 1} : silent'[s] = silent[s]
    <3>1. PICK b \in BOOLEAN : silent' = [silent EXCEPT ![run + 1] = b]
      BY <1>1, Zenon DEF TriggerSOS
    <3> QED BY <1>0, <3>1
  <2>3. \A e \in Dashboards : activeId[e] # 0 => activeId[e] \in Runs \ {run + 1}
    BY <1>0, <1>1, TriggerEffect DEF AlertInv, IdState
  <2>4. d <= latest
    BY <1>0, <2>1 DEF DisarmInv, Placed
  <2>5. ASSUME NEW r \in Runs, phase'[r] \in Awaiting PROVE dash'[r] <= latest
    <3>1. CASE r = run + 1
      BY <1>0, <1>1, <2>4, <3>1, TriggerEffect
    <3>2. CASE r # run + 1
      BY <1>0, <1>1, <2>5, <3>2, TriggerEffect DEF DisarmInv, Placed
    <3> QED BY <3>1, <3>2
  <2>6. Placed'
    BY <1>0, <1>1, <2>1, <2>3, <2>5, TriggerEffect DEF DisarmInv, Placed
  <2>7. ASSUME NEW e \in Dashboards PROVE Shows(e)'
    BY <1>0, <1>1, <2>1, <2>2, <2>3, TriggerEffect
       DEF DisarmInv, Shows, Pending
  <2> QED BY <2>6, <2>7 DEF DisarmInv
<1>2. ASSUME NEW r \in Runs, Dispatch(r) PROVE DisarmInv'
  BY <1>2, DispatchKeepsDisarm
<1>3. ASSUME NEW d \in Dashboards, Disarm(d) PROVE DisarmInv'
  <2>1. /\ UNCHANGED <<screen, latest, activeId, phase, dash, silent>>
        /\ overlay' = [overlay EXCEPT ![d] = FALSE]
        /\ \/ /\ activeId[d] # 0
              /\ writes' = Append(writes, Write("resolved", activeId[d], d))
           \/ activeId[d] = 0 /\ UNCHANGED writes
    BY <1>3 DEF Disarm, screenVars, runVars, cloudVars
  <2>2. Placed'
    BY <2>1 DEF DisarmInv, Placed
  <2>3. ASSUME NEW e \in Dashboards PROVE Shows(e)'
    <3>1. CASE activeId[d] # 0
      <4>1. Write("resolved", activeId[d], d) \in Writes
        BY <1>0, <3>1, WriteTyped
      <4>2. /\ Pending(e) => Pending(e)'
            /\ e = d => Pending(e)'
        BY <1>0, <2>1, <3>1, <4>1, PendingGrows DEF Write
      <4> QED BY <1>0, <2>1, <4>2 DEF DisarmInv, Shows
    <3>2. CASE activeId[d] = 0
      BY <1>0, <2>1, <3>2 DEF DisarmInv, Shows, Pending
    <3> QED BY <3>1, <3>2
  <2> QED BY <2>2, <2>3 DEF DisarmInv
<1>4. ASSUME NEW r \in Runs, NEW d \in Dashboards, DisarmAnswered(r, d)
      PROVE  DisarmInv'
  <2>1. /\ UNCHANGED <<screen, latest, overlay, phase, dash, silent>>
        /\ activeId' = [activeId EXCEPT ![d] = 0]
        /\ writes # <<>> /\ writes' = Tail(writes)
        /\ Head(writes) = Write("resolved", r, d)
    BY <1>4 DEF DisarmAnswered, Answered, screenVars, runVars
  <2>2. Placed'
    BY <1>0, <2>1 DEF DisarmInv, Placed
  <2>3. ASSUME NEW e \in Dashboards PROVE Shows(e)'
    <3>1. CASE e = d
      BY <1>0, <2>1, <3>1 DEF Shows
    <3>2. CASE e # d
      <4>1. Head(writes).dash # e
        BY <2>1, <3>2 DEF Write
      <4>2. Pending(e) => Pending(e)'
        BY <1>0, <2>1, <4>1, PendingShrinks
      <4> QED BY <1>0, <2>1, <3>2, <4>2 DEF DisarmInv, Shows
    <3> QED BY <3>1, <3>2
  <2> QED BY <2>2, <2>3 DEF DisarmInv
<1>5. CASE Logout
  <2>1. /\ screen' = 0
        /\ UNCHANGED <<latest, activeId, phase, dash>>
    BY <1>5 DEF Logout, widgetVars, runVars
  <2> QED BY <1>0, <2>1 DEF DisarmInv, Placed, Shows
<1>6. CASE Login
  <2>1. /\ screen' = latest + 1 /\ latest' = latest + 1
        /\ UNCHANGED <<activeId, phase, dash>>
    BY <1>6 DEF Login, runVars
  <2>2. \A r \in Runs : phase[r] \in Awaiting => dash[r] \in Nat
    BY <1>0 DEF RunsStarted
  <2>3. Placed'
    BY <1>0, <2>1, <2>2 DEF DisarmInv, Placed
  <2>4. \A d \in Dashboards : Shows(d)'
    BY <1>0, <2>1 DEF DisarmInv, Placed, Shows
  <2> QED BY <2>3, <2>4 DEF DisarmInv
<1>7. CASE Restart
  <2>1. /\ screen' <= latest'
        /\ activeId' = [d \in Dashboards |-> 0]
        /\ \A r \in Runs : phase'[r] \notin Awaiting
    BY <1>7 DEF Restart, Awaiting
  <2> QED BY <2>1 DEF DisarmInv, Placed, Shows
<1>8. CASE ShakeSOS \/ NetworkChanges \/ UNCHANGED vars
  <2>1. UNCHANGED <<screen, latest, activeId, overlay, phase, dash, silent,
                  writes>>
    BY <1>8 DEF ShakeSOS, NetworkChanges, vars, screenVars, widgetVars, runVars,
       cloudVars
  <2> QED BY <2>1 DEF DisarmInv, Placed, Shows, Pending
<1>9. CASE OrphanAnswered
  <2>1. /\ UNCHANGED <<screen, latest, activeId, overlay, phase, dash, silent>>
        /\ writes # <<>> /\ writes' = Tail(writes) /\ Head(writes).dash = 0
    BY <1>9 DEF OrphanAnswered, Answered, screenVars, widgetVars, runVars
  <2>2. \A e \in Dashboards : Pending(e) => Pending(e)'
    BY <1>0, <2>1, PendingShrinks
  <2> QED BY <2>1, <2>2 DEF DisarmInv, Placed, Shows
<1> QED
  BY <1>1, <1>2, <1>3, <1>4, <1>5, <1>6, <1>7, <1>8, <1>9 DEF Next, Kinds

\* An alert that is done and still held by the shown Dashboard can be disarmed
\* there, or is being disarmed, or is silent: across all the late answers of
\* earlier disarms, the newer alerts, the logouts and the restarts.
THEOREM AlwaysDisarmable == Spec => []StaysDisarmable
<1>1. Init => DisarmInv
  BY DEF Init, DisarmInv, Placed, Shows, Awaiting
<1>2. TypeOK /\ DisarmInv => StaysDisarmable
  <2> SUFFICES ASSUME TypeOK, DisarmInv, NEW r \in Runs,
                      screen # 0, activeId[screen] = r, phase[r] = "done"
               PROVE  \/ overlay[screen]
                      \/ \E i \in Resolves : writes[i].dash = screen
                      \/ silent[r]
    BY DEF StaysDisarmable
  <2>1. screen \in Dashboards /\ r # 0
    BY BoundsAssumption DEF TypeOK, DataOK, Dashboards, Runs
  <2>2. overlay[screen] \/ silent[r] \/ Pending(screen)
    BY <2>1 DEF DisarmInv, Shows
  <2> QED BY <2>2 DEF Pending, Resolves
<1> QED
  BY <1>1, <1>2, DisarmInductive, AlertAlways, PTL DEF Spec

-----------------------------------------------------------------------------
\* The whole chain, with several Dashboards and runs at once, refused writes and
\* answers to processes that are gone, implements SosPromise: guardians and
\* contacts never see anything it does not allow.
THEOREM DispatchKeepsPromise == Spec => PromiseKept
<1>1. Init => Promise!Init
  BY DEF Init, Promise!Init
<1>2. TypeOK /\ RunsStarted /\ FlagCoversDispatch /\ AlertInv /\ [Next]_vars
      => [Promise!Next]_(Promise!vars)
  <2> SUFFICES ASSUME TypeOK, RunsStarted, AlertInv, [Next]_vars
               PROVE  Promise!Next \/ UNCHANGED <<doc, tried>>
    BY DEF Promise!vars
  <2>0. /\ DataOK /\ writes \in Seq(Writes)
        /\ \A d \in Dashboards : d \in 0..MaxDashboards
    BY BoundsAssumption DEF TypeOK, DataOK, Dashboards
  \* Every answer is a step of the promise, or a refusal.
  <2>1. ASSUME NEW w \in Writes, Answered(w), Taken(w) \/ Refused,
               UNCHANGED tried
        PROVE  Promise!Next \/ UNCHANGED <<doc, tried>>
    <3>1. /\ w.to \in Runs /\ w.status \in {"active", "sent", "resolved"}
          /\ Carried(w)
      <4>1. 1 \in DOMAIN writes /\ writes[1] = w
        BY <2>0, <2>1, WritesPopped DEF Answered
      <4> QED BY <4>1 DEF AlertInv, WritesInv, Writes
    <3>2. CASE Refused
      BY <2>1, <3>2 DEF Refused
    <3>3. CASE Taken(w)
      <4>1. CASE w.status = "active"
        <5>1. Promise!Raise(w.to)
          BY <2>1, <3>1, <3>3, <4>1 DEF Taken, Carried, Promise!Raise
        <5> QED BY <3>1, <5>1 DEF Promise!Next
      <4>2. CASE w.status = "sent"
        <5>1. Promise!CallSent(w.to)
          BY <2>1, <3>1, <3>3, <4>2 DEF Taken, Carried, Promise!CallSent
        <5> QED BY <3>1, <5>1 DEF Promise!Next
      <4>3. CASE w.status = "resolved"
        <5>1. Promise!Resolve(w.to)
          BY <2>1, <3>1, <3>3, <4>3 DEF Taken, Carried, Promise!Resolve
        <5> QED BY <3>1, <5>1 DEF Promise!Next
      <4> QED BY <3>1, <4>1, <4>2, <4>3
    <3> QED BY <2>1, <3>2, <3>3
  <2>2. ASSUME NEW r \in Runs, Dispatch(r)
        PROVE  Promise!Next \/ UNCHANGED <<doc, tried>>
    <3>0. RunState(r) /\ dash[r] \in 0..MaxDashboards
      BY <2>0, <2>2, DispatchEffect DEF AlertInv, RunsStarted
    <3>1. CASE AlertCreated(r)
      <4> DEFINE w == Write("active", r, dash[r])
      <4>1. w \in Writes
        BY <3>0, WriteTyped
      <4>2. Answered(w) /\ (Taken(w) \/ Refused) /\ UNCHANGED tried
        BY <3>1 DEF AlertCreated
      <4> HIDE DEF w
      <4> QED BY <2>1, <4>1, <4>2
    <3>2. CASE SentAnswered(r)
      <4>1. UNCHANGED tried
        BY <3>2 DEF SentAnswered
      <4>2. PICK w \in Writes : Answered(w) /\ (Taken(w) \/ Refused)
        BY <3>2 DEF SentAnswered
      <4> QED BY <2>1, <4>1, <4>2
    <3>3. ASSUME NEW phone \in Phones, NotifyContact(r, phone)
          PROVE  Promise!Next
      <4>1. Promise!Try(r, phone)
        BY <3>0, <3>3 DEF NotifyContact, RunState, cloudVars, Promise!Try
      <4> QED BY <4>1 DEF Promise!Next
    <3>4. CASE \/ ContactsEmpty(r) \/ ContactsFoundDisposed(r)
               \/ ContactsFound(r) \/ BroadcastDone(r) \/ MarkSent(r)
               \/ DispatchEnds(r)
      BY <3>4 DEF ContactsEmpty, ContactsFoundDisposed, ContactsFound,
         BroadcastDone, MarkSent, DispatchEnds, cloudVars
    <3> QED BY <2>2, <3>1, <3>2, <3>3, <3>4 DEF Dispatch
  <2>3. ASSUME NEW r \in Runs, NEW d \in Dashboards, DisarmAnswered(r, d)
        PROVE  Promise!Next \/ UNCHANGED <<doc, tried>>
    <3> DEFINE w == Write("resolved", r, d)
    <3>1. w \in Writes
      BY <2>0, WriteTyped
    <3>2. Answered(w) /\ (Taken(w) \/ Refused) /\ UNCHANGED tried
      BY <2>3 DEF DisarmAnswered, runVars
    <3> HIDE DEF w
    <3> QED BY <2>1, <3>1, <3>2
  <2>4. CASE OrphanAnswered
    <3>1. UNCHANGED tried
      BY <2>4 DEF OrphanAnswered, runVars
    <3>2. PICK w \in Writes : Answered(w) /\ (Taken(w) \/ Refused)
      BY <2>4 DEF OrphanAnswered
    <3> QED BY <2>1, <3>1, <3>2
  <2>5. CASE UNCHANGED <<doc, tried>>
    BY <2>5
  <2> QED
    BY <2>2, <2>3, <2>4, <2>5 DEF Next, TriggerSOS, Disarm, Logout, Login,
       ShakeSOS, Restart, NetworkChanges, vars, runVars, cloudVars
<1> QED
  BY <1>1, <1>2, AlertAlways, PTL DEF Spec, Promise!Spec, PromiseKept

=============================================================================
