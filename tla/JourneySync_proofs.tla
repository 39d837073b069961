------------------------ MODULE JourneySync_proofs -------------------------
(***************************************************************************)
(* What JourneySync keeps for any bounds: its types, that without haste a   *)
(* trip has one document, and that without a mishap guardians see the trip  *)
(* as it is.  The two facts that make them inductive are OneEach, which     *)
(* says of which trip every document is, and Fresh, which says when the     *)
(* document shows the status of the moment.                                 *)
(***************************************************************************)
EXTENDS JourneySync, SequenceTheorems, TLAPS

Now == [trip |-> journey, status |-> StatusName[status]]

\* Before the first trip nothing has begun.
Started ==
    \/ journey # 0
    \/ /\ status = "inactive" /\ overlay = FALSE /\ tick = FALSE
       /\ activations = 0 /\ farewells = 0
       /\ \A j \in Journeys : start[j] = "none"

OneEach ==
    "haste" \notin mishaps =>
        /\ \A d \in left : d.trip < journey
        /\ current # NoDoc => current.trip = journey
        /\ adds # <<>> =>
               current = NoDoc /\ Len(adds) = 1 /\ adds[1].doc.trip = journey

\* No call will write a status that is not written yet.
Quiet ==
    /\ activations = 0 /\ farewells = 0
    /\ \A j \in Journeys : start[j] # "gps"

Fresh ==
    mishaps = {} =>
        /\ \A d \in left : d.status = "inactive"
        /\ Quiet => /\ current \in {NoDoc, Now}
                    /\ adds # <<>> => adds[1].doc = Now

Inv == TypeOK /\ Started /\ OneEach /\ Fresh

DocsTyped ==
    /\ current \in Contents \cup {NoDoc}
    /\ adds \in Seq([doc : Contents, starter : 0..MaxJourneys])
    /\ left \subseteq Contents
    /\ mishaps \subseteq {"haste", "refusal"}

-----------------------------------------------------------------------------

\* The facts about names that the rest uses: what is written of a trip is a
\* document, and no document is NoDoc.
LEMMA NowIsDocument ==
    ASSUME NEW j \in Journeys, NEW s \in DOMAIN StatusName
    PROVE  /\ [trip |-> j, status |-> StatusName[s]] \in Contents
           /\ [trip |-> j, status |-> StatusName[s]] # NoDoc
<1>1. DOMAIN StatusName =
          {"inactive", "monitoring", "riskDetected", "emergencyActive"}
  BY DEF StatusName
<1>2. StatusName[s] \in {"inactive", "Monitoring", "Risk Detected",
                         "Emergency Active"}
  <2>1. CASE s = "inactive"
    BY <2>1 DEF StatusName
  <2>2. CASE s = "monitoring"
    BY <2>2 DEF StatusName
  <2>3. CASE s = "riskDetected"
    BY <2>3 DEF StatusName
  <2>4. CASE s = "emergencyActive"
    BY <2>4 DEF StatusName
  <2> QED
    BY <1>1, <2>1, <2>2, <2>3, <2>4
<1>3. StatusName[s] # "none"
  BY <1>2
<1> QED
  BY <1>2, <1>3 DEF Contents, NoDoc

\* A write of the trip's status keeps the types and OneEach, and without a
\* mishap leaves the trip's document showing the status of the moment.
LEMMA SyncEffect ==
    ASSUME TypeOK, OneEach, journey \in Journeys, journey' = journey,
           status' \in DOMAIN StatusName,
           NEW starter \in 0..MaxJourneys, Sync(starter)
    PROVE  /\ DocsTyped'
           /\ OneEach'
           /\ mishaps' = {} =>
                 /\ mishaps = {}
                 /\ left' = left
                 /\ current' \in {NoDoc, Now'}
                 /\ adds' # <<>> => adds'[1].doc = Now'
<1>1. /\ Content \in Contents /\ Content # NoDoc
      /\ Content = Now' /\ Content.trip = journey
  BY NowIsDocument DEF Content, Now
<1>2. CASE AddDocument(starter)
  <2>1. [doc |-> Content, starter |-> starter]
            \in [doc : Contents, starter : 0..MaxJourneys]
    BY <1>1
  <2>2. DocsTyped'
    BY <1>2, <2>1 DEF AddDocument, DocsTyped, TypeOK
  <2>3. "haste" \notin mishaps' => /\ adds = <<>> /\ mishaps' = mishaps
                                   /\ Len(adds') = 1
                                   /\ adds'[1].doc = Content
    BY <1>2, <2>1 DEF AddDocument, TypeOK
  <2>4. OneEach'
    BY <1>1, <1>2, <2>3 DEF AddDocument, OneEach
  <2> QED
    BY <1>1, <1>2, <2>2, <2>3, <2>4 DEF AddDocument
<1>3. CASE UpdateDocument
  <2>1. DocsTyped'
    BY <1>1, <1>3 DEF UpdateDocument, DocsTyped, TypeOK
  <2>2. "haste" \notin mishaps' => adds' = <<>> /\ left' = left
    BY <1>3 DEF UpdateDocument, OneEach
  <2>3. OneEach'
    BY <1>1, <1>3, <2>2 DEF UpdateDocument, OneEach
  <2>4. mishaps' = {} => mishaps = {} /\ current' = Content
    BY <1>3 DEF UpdateDocument
  <2> QED
    BY <1>1, <1>3, <2>1, <2>2, <2>3, <2>4 DEF UpdateDocument
<1> QED
  BY <1>2, <1>3 DEF Sync

\* Of a sequence that is not empty.
LEMMA HeadAndTail ==
    ASSUME NEW S, NEW s \in Seq(S), s # <<>>
    PROVE  /\ Head(s) = s[1] /\ s[1] \in S
           /\ Tail(s) \in Seq(S)
           /\ Len(s) = 1 => Tail(s) = <<>>
<1>1. Len(s) \in Nat /\ Len(s) > 0
  BY EmptySeq, LenProperties
<1>2. s[1] \in S
  BY <1>1, ElementOfSeq
<1>3. /\ Head(s) = s[1] /\ Tail(s) \in Seq(S) /\ Len(Tail(s)) = Len(s) - 1
  BY HeadTailProperties
<1>4. Len(s) = 1 => Tail(s) = <<>>
  <2>1. \A t \in Seq(S) : Len(t) = 0 => t = <<>>
    BY EmptySeq
  <2>2. Len(s) = 1 => Len(Tail(s)) = 0
    BY <1>1, <1>3
  <2>3. Tail(s) \in Seq(S)
    BY <1>3
  <2> QED
    BY <2>1, <2>2, <2>3, Zenon
<1> QED
  BY <1>2, <1>3, <1>4

LEMMA InitInv == Init => Inv
<1> SUFFICES ASSUME Init PROVE Inv
  OBVIOUS
<1>1. TypeOK
  <2>1. status \in DOMAIN StatusName
    BY DEF Init, StatusName
  <2>2. adds \in Seq([doc : Contents, starter : 0..MaxJourneys])
    BY DEF Init
  <2>3. start \in [Journeys -> {"none", "gps", "sync", "done"}]
    BY DEF Init
  <2>4. /\ current \in Contents \cup {NoDoc} /\ left \subseteq Contents
        /\ mishaps \subseteq {"haste", "refusal"}
    BY DEF Init
  <2>5. overlay \in BOOLEAN /\ journeyTimer \in BOOLEAN /\ tick \in BOOLEAN
    BY DEF Init
  <2>6. journey \in 0..MaxJourneys /\ activations \in Nat /\ farewells \in Nat
    BY BoundsAssumption DEF Init
  <2> QED
    BY <2>1, <2>2, <2>3, <2>4, <2>5, <2>6 DEF TypeOK
<1>2. Started /\ OneEach /\ Fresh
  BY DEF Init, Started, OneEach, Fresh
<1> QED
  BY <1>1, <1>2 DEF Inv

LEMMA NextInv == Inv /\ [Next]_vars => Inv'
<1> SUFFICES ASSUME Inv, [Next]_vars PROVE Inv'
  OBVIOUS
<1> USE BoundsAssumption
<1>0. TypeOK /\ Started /\ OneEach /\ Fresh
  BY DEF Inv
<1>a. DOMAIN StatusName =
          {"inactive", "monitoring", "riskDetected", "emergencyActive"}
  BY DEF StatusName
<1>b. \* a step that writes keeps the invariant if it keeps the other types
      ASSUME NEW starter \in 0..MaxJourneys, Sync(starter),
             journey \in Journeys, journey' = journey,
             status' \in DOMAIN StatusName, overlay' \in BOOLEAN,
             start' \in [Journeys -> {"none", "gps", "sync", "done"}],
             journeyTimer' \in BOOLEAN, tick' \in BOOLEAN,
             activations' \in Nat, farewells' \in Nat
      PROVE  Inv'
  <2>1. /\ DocsTyped' /\ OneEach'
        /\ mishaps' = {} => /\ mishaps = {} /\ left' = left
                            /\ current' \in {NoDoc, Now'}
                            /\ adds' # <<>> => adds'[1].doc = Now'
    BY <1>0, <1>b, SyncEffect
  <2>2. TypeOK'
    BY <1>0, <1>b, <2>1 DEF TypeOK, DocsTyped
  <2>3. Fresh'
    BY <1>0, <2>1 DEF Fresh
  <2>4. Started'
    BY <1>b DEF Started, Journeys
  <2> QED
    BY <2>1, <2>2, <2>3, <2>4 DEF Inv
<1>c. journey = 0 \/ journey \in Journeys
  BY <1>0 DEF TypeOK, Journeys
<1>1. CASE StartJourney
  <2>1. journey + 1 \in Journeys /\ journey' = journey + 1
    BY <1>0, <1>1 DEF StartJourney, TypeOK, Journeys
  <2>2. TypeOK'
    BY <1>0, <1>1, <1>a, <2>1
    DEF StartJourney, TypeOK, Leave, callVars, Journeys
  <2>3. Started'
    BY <2>1 DEF Started, Journeys
  <2>4. "haste" \notin mishaps' => Settled /\ mishaps' = mishaps
    BY <1>0, <1>1 DEF StartJourney, TypeOK
  <2>5. OneEach'
    <3> SUFFICES ASSUME "haste" \notin mishaps' PROVE OneEach'
      BY DEF OneEach
    <3>1. adds' = <<>> /\ current' = NoDoc
      BY <1>1, <2>4 DEF StartJourney, Settled
    <3>2. ASSUME NEW d \in left' PROVE d.trip < journey'
      <4>1. d \in left \/ (d = current /\ current # NoDoc)
        BY <1>1 DEF StartJourney, Leave
      <4>2. d.trip <= journey /\ d.trip \in Nat
        <5>1. d \in Contents
          BY <1>0, <4>1 DEF TypeOK
        <5>2. d.trip \in Nat /\ journey \in Nat
          <6>1. d.trip \in Journeys
            BY <5>1 DEF Contents
          <6>2. journey \in 0..MaxJourneys
            BY <1>0 DEF TypeOK
          <6> QED
            BY <6>1, <6>2 DEF Journeys
        <5>3. d.trip < journey \/ d.trip = journey
          BY <1>0, <2>4, <4>1 DEF OneEach
        <5> QED
          BY <5>2, <5>3
      <4> QED
        BY <1>0, <2>1, <4>2 DEF TypeOK
    <3> QED
      BY <3>1, <3>2 DEF OneEach
  <2>6. Fresh'
    <3> SUFFICES ASSUME mishaps' = {} PROVE Fresh'
      BY DEF Fresh
    <3>1. /\ Settled /\ mishaps = {} /\ Quiet
      BY <2>4 DEF Settled, Quiet
    <3>2. current \in {NoDoc, Now} /\ Now.status = "inactive"
      BY <1>0, <1>1, <3>1 DEF Fresh, StartJourney, Now, StatusName
    <3>3. \A d \in left' : d.status = "inactive"
      BY <1>0, <1>1, <3>1, <3>2 DEF StartJourney, Leave, Fresh
    <3>4. current' = NoDoc /\ adds' = <<>>
      BY <1>1, <3>1 DEF StartJourney, Settled
    <3> QED
      BY <3>3, <3>4 DEF Fresh
  <2> QED
    BY <2>2, <2>3, <2>5, <2>6 DEF Inv
<1>2. ASSUME NEW j \in Journeys, StartGps(j) PROVE Inv'
  <2>1. journey \in Journeys
    BY <1>0, <1>2, <1>c DEF StartGps, Started
  <2>2. j \in 0..MaxJourneys
    BY DEF Journeys
  <2> QED
    BY <1>0, <1>2, <1>b, <2>1, <2>2 DEF StartGps, TypeOK, callVars
<1>3. ASSUME NEW j \in Journeys, StartSynced(j) PROVE Inv'
  <2>1. TypeOK'
    BY <1>0, <1>3 DEF StartSynced, TypeOK, syncVars
  <2>2. Started'
    BY <1>0, <1>3 DEF StartSynced, Started
  <2>3. Quiet' => Quiet
    BY <1>0, <1>3 DEF StartSynced, Quiet, TypeOK
  <2>4. Fresh' /\ OneEach'
    BY <1>0, <1>3, <2>3 DEF StartSynced, Fresh, OneEach, Now, syncVars
  <2> QED
    BY <2>1, <2>2, <2>4 DEF Inv
<1>4. CASE TickStart
  <2>1. TypeOK' /\ Started'
    BY <1>0, <1>4 DEF TickStart, TypeOK, Started, screenVars, startVars,
                      syncVars
  <2>2. Fresh' /\ OneEach'
    BY <1>0, <1>4 DEF TickStart, Fresh, OneEach, Now, Quiet, screenVars,
                      startVars, syncVars
  <2> QED
    BY <2>1, <2>2 DEF Inv
<1>5. CASE TickEnds
  <2>1. journey \in Journeys
    BY <1>0, <1>5, <1>c DEF TickEnds, Started
  <2>2. status' \in DOMAIN StatusName /\ overlay' \in BOOLEAN
    BY <1>0, <1>5, <1>a DEF TickEnds, TypeOK, screenVars
  <2>3. 0 \in 0..MaxJourneys /\ Sync(0)
    BY <1>5 DEF TickEnds
  <2> QED
    BY <1>0, <1>5, <1>b, <2>1, <2>2, <2>3 DEF TickEnds, TypeOK, startVars
<1>6. CASE ConfirmSafety
  BY <1>0, <1>6, <1>a, <1>b, <1>c
  DEF ConfirmSafety, TypeOK, Started, startVars, callVars
<1>7. CASE Rebuild
  <2>1. TypeOK'
    BY <1>0, <1>7 DEF Rebuild, TypeOK, startVars, callVars, syncVars
  <2>2. Started'
    BY <1>0, <1>7 DEF Rebuild, Started, startVars, callVars
  <2>3. Fresh' /\ OneEach'
    BY <1>0, <1>7 DEF Rebuild, Fresh, OneEach, Now, Quiet, startVars,
                      callVars, syncVars
  <2> QED
    BY <2>1, <2>2, <2>3 DEF Inv
<1>8. CASE CountdownExpires
  <2>1. TypeOK'
    BY <1>0, <1>8, <1>a DEF CountdownExpires, TypeOK, startVars, syncVars
  <2>2. Started'
    BY <1>0, <1>8 DEF CountdownExpires, Started, startVars
  <2>3. ~Quiet'
    BY <1>0, <1>8 DEF CountdownExpires, Quiet, TypeOK
  <2>4. Fresh' /\ OneEach'
    BY <1>0, <1>8, <2>3 DEF CountdownExpires, Fresh, OneEach, startVars,
                            syncVars
  <2> QED
    BY <2>1, <2>2, <2>4 DEF Inv
<1>9. CASE Alerted
  <2>1. activations' \in Nat
    BY <1>0, <1>9 DEF Alerted, TypeOK
  <2> QED
    BY <1>0, <1>9, <1>b, <1>c, <2>1 DEF Alerted, TypeOK, Started, startVars
<1>10. CASE ResolveJourney
  <2>1. CASE status = "emergencyActive"
    <3>1. TypeOK'
      <4>1. /\ farewells' \in Nat /\ status' \in DOMAIN StatusName
            /\ UNCHANGED <<syncVars, mishaps>>
        BY <1>0, <1>10, <1>a, <2>1 DEF ResolveJourney, TypeOK
      <4> QED
        BY <1>0, <1>10, <4>1 DEF ResolveJourney, TypeOK, startVars, syncVars
    <3>2. Started'
      BY <1>0, <1>10, <2>1 DEF ResolveJourney, Started, startVars
    <3>3. ~Quiet'
      BY <1>0, <1>10, <2>1 DEF ResolveJourney, Quiet, TypeOK
    <3>4. Fresh' /\ OneEach'
      BY <1>0, <1>10, <2>1, <3>3
      DEF ResolveJourney, Fresh, OneEach, startVars, syncVars
    <3> QED
      BY <3>1, <3>2, <3>4 DEF Inv
  <2>2. CASE status # "emergencyActive"
    <3>1. journey \in Journeys
      BY <1>0, <1>10, <1>c DEF ResolveJourney, Started
    <3>2. /\ Sync(0) /\ farewells' = farewells /\ 0 \in 0..MaxJourneys
          /\ status' \in DOMAIN StatusName
      BY <1>10, <1>a, <2>2 DEF ResolveJourney
    <3> QED
      BY <1>0, <1>10, <1>b, <3>1, <3>2 DEF ResolveJourney, TypeOK, startVars
  <2> QED
    BY <2>1, <2>2
<1>11. CASE FarewellsSent
  <2>1. farewells' \in Nat
    BY <1>0, <1>11 DEF FarewellsSent, TypeOK
  <2> QED
    BY <1>0, <1>11, <1>b, <1>c, <2>1
    DEF FarewellsSent, TypeOK, Started, startVars
<1>12. CASE AddAnswered
  <2>1. /\ adds \in Seq([doc : Contents, starter : 0..MaxJourneys])
        /\ adds # <<>>
    BY <1>0, <1>12 DEF AddAnswered, TypeOK
  <2>2. /\ Head(adds) = adds[1] /\ adds[1].doc \in Contents
        /\ Tail(adds) \in Seq([doc : Contents, starter : 0..MaxJourneys])
        /\ Len(adds) = 1 => Tail(adds) = <<>>
    <3>1. /\ Head(adds) = adds[1]
          /\ adds[1] \in [doc : Contents, starter : 0..MaxJourneys]
          /\ Tail(adds) \in Seq([doc : Contents, starter : 0..MaxJourneys])
          /\ Len(adds) = 1 => Tail(adds) = <<>>
      BY <2>1, HeadAndTail
    <3> QED
      BY <3>1
  <2>3. TypeOK'
    BY <1>0, <1>12, <2>2
    DEF AddAnswered, Leave, TypeOK, screenVars, startVars, callVars
  <2>4. Started'
    BY <1>0, <1>12 DEF AddAnswered, Started, screenVars, startVars, callVars
  <2>5. "haste" \notin mishaps' =>
            /\ current = NoDoc /\ adds' = <<>> /\ left' = left
            /\ current' \in {NoDoc, adds[1].doc}
    BY <1>0, <1>12, <2>2 DEF AddAnswered, Leave, OneEach
  <2>6. mishaps \subseteq mishaps'
    BY <1>12 DEF AddAnswered
  <2>7. OneEach'
    BY <1>0, <1>12, <2>1, <2>5, <2>6
    DEF AddAnswered, OneEach, startVars
  <2>8. Fresh'
    BY <1>0, <1>12, <2>1, <2>5, <2>6
    DEF AddAnswered, Fresh, Now, Quiet, screenVars, startVars, callVars
  <2> QED
    BY <2>3, <2>4, <2>7, <2>8 DEF Inv
<1>13. CASE UNCHANGED vars
  BY <1>0, <1>13 DEF Inv, TypeOK, Started, OneEach, Fresh, Now, Quiet, vars,
                     screenVars, startVars, callVars, syncVars
<1> QED
  BY <1>1, <1>2, <1>3, <1>4, <1>5, <1>6, <1>7, <1>8, <1>9, <1>10, <1>11,
     <1>12, <1>13 DEF Next

\* The invariant of every behaviour.
THEOREM SyncInvariant == Spec => []Inv
<1> QED
  BY InitInv, NextInv, PTL DEF Spec

-----------------------------------------------------------------------------

\* Every variable keeps its type, with or without mishaps.
THEOREM SyncTypeCorrect == Spec => []TypeOK
<1>1. Inv => TypeOK
  BY DEF Inv
<1> QED
  BY SyncInvariant, <1>1, PTL

\* A trip whose writes do not overlap has one document, whatever the server
\* refuses.
THEOREM AlwaysOneDocument == Spec => []OneDocumentATrip
<1>1. Inv => OneDocumentATrip
  BY DEF Inv, OneEach, OneDocumentATrip
<1> QED
  BY SyncInvariant, <1>1, PTL

\* At rest guardians see the trip as it is, and no earlier one as going on.
THEOREM GhostsAlwaysFromMishaps == Spec => []GhostsOnlyFromMishaps
<1>1. Inv => GhostsOnlyFromMishaps
  BY DEF Inv, Fresh, Quiet, Settled, Now, GhostsOnlyFromMishaps
<1> QED
  BY SyncInvariant, <1>1, PTL

\* No document passes from a trip to a later one without haste.
THEOREM DocumentAlwaysKeepsTrip == Spec => DocumentKeepsTrip
<1>1. Inv /\ Inv' /\ [Next]_vars =>
          [("haste" \notin mishaps' /\ current # NoDoc /\ current' # NoDoc)
              => current'.trip = current.trip]_vars
  <2> SUFFICES ASSUME Inv, Inv', [Next]_vars, "haste" \notin mishaps',
                      current # NoDoc, current' # NoDoc
               PROVE  current'.trip = current.trip
    OBVIOUS
  <2>1. "haste" \notin mishaps
    BY DEF Next, vars, StartJourney, StartGps, StartSynced, TickStart,
           TickEnds, ConfirmSafety, Rebuild, CountdownExpires, Alerted,
           ResolveJourney, FarewellsSent, AddAnswered, Sync, AddDocument,
           UpdateDocument
  <2>2. current.trip = journey /\ current'.trip = journey'
    BY <2>1 DEF Inv, OneEach
  <2>3. ~StartJourney
    BY DEF StartJourney
  <2>4. journey' = journey
    BY <2>3 DEF Next, vars, startVars, StartGps, StartSynced, TickStart,
                TickEnds, ConfirmSafety, Rebuild, CountdownExpires, Alerted,
                ResolveJourney, FarewellsSent, AddAnswered
  <2> QED
    BY <2>2, <2>4
<1> QED
  BY SyncInvariant, <1>1, PTL DEF Spec, DocumentKeepsTrip

=============================================================================
