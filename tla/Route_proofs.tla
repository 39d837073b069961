---------------------------- MODULE Route_proofs ----------------------------
(***************************************************************************)
(* Proofs about Route: its types, whose the destination and the route are,  *)
(* when a destination is given up, and that the route is what the server    *)
(* answered, which rests on RouteDecoding_proofs.                           *)
(***************************************************************************)
EXTENDS RouteDecoding_proofs, TLAPS

Types ==
    /\ journey \in 0..MaxJourneys
    /\ active \in BOOLEAN
    /\ fetch \in [Journeys -> {"none", "gps", "request", "wait", "route"}]
    /\ attempt \in [Journeys -> 0..maxRetries]
    /\ dest \in 0..MaxJourneys
    /\ of \in 0..MaxJourneys
    /\ outcome \in [Journeys -> {"none", "found", "empty", "failed"}]
    /\ late \in BOOLEAN

\* As long as no fetch was overtaken, the only fetch is the latest trip's, and
\* it asks for the route only with the destination stored.
Owned ==
    ~late =>
        /\ dest \in {0, journey}
        /\ of \in {0, dest}
        /\ \A j \in Journeys :
              /\ fetch[j] # "none" => j = journey
              /\ fetch[j] = "route" => dest = journey

\* Only trips that were started have fetches; a fetch that waits has attempts
\* left, and one that failed has used them and is never started again.
Counted ==
    \A j \in Journeys :
        /\ fetch[j] # "none" => j <= journey
        /\ fetch[j] = "wait" => attempt[j] < maxRetries
        /\ outcome[j] = "failed" => /\ attempt[j] = maxRetries
                                    /\ fetch[j] = "none"
                                    /\ j <= journey

Inv == Types /\ Owned /\ Counted

LEMMA InitInv == Init => Inv
<1> SUFFICES ASSUME Init PROVE Inv
  OBVIOUS
<1> USE RouteAssumption DEF RouteAssumption, Init, Journeys, maxRetries
<1>1. Types
  <2>1. fetch \in [Journeys -> {"none", "gps", "request", "wait", "route"}]
    OBVIOUS
  <2>2. outcome \in [Journeys -> {"none", "found", "empty", "failed"}]
    OBVIOUS
  <2>3. attempt \in [Journeys -> 0..maxRetries]
    OBVIOUS
  <2>4. /\ journey \in 0..MaxJourneys
        /\ dest \in 0..MaxJourneys
        /\ of \in 0..MaxJourneys
    OBVIOUS
  <2> QED
    BY <2>1, <2>2, <2>3, <2>4 DEF Types
<1>2. Owned /\ Counted
  BY DEF Owned, Counted
<1> QED
  BY <1>1, <1>2 DEF Inv

LEMMA NextTypes ==
  ASSUME Inv, [Next]_vars
  PROVE  Types'
<1> USE RouteAssumption
        DEF RouteAssumption, Inv, Types, Counted, Journeys, maxRetries
<1>1. CASE StartJourney
  BY <1>1 DEF StartJourney
<1>2. CASE ResolveJourney
  BY <1>2 DEF ResolveJourney, fetchVars, routeVars, historyVars
<1>3. ASSUME NEW j \in Journeys, StartFetch(j) PROVE Types'
  BY <1>3 DEF StartFetch, routeVars, historyVars
<1>4. ASSUME NEW j \in Journeys, GeocodeFound(j) PROVE Types'
  BY <1>4 DEF GeocodeFound
<1>5. ASSUME NEW j \in Journeys, GeocodeEmpty(j) PROVE Types'
  BY <1>5 DEF GeocodeEmpty, routeVars
<1>6. ASSUME NEW j \in Journeys, GeocodeFails(j) PROVE Types'
  BY <1>6 DEF GeocodeFails, routeVars
<1>7. ASSUME NEW j \in Journeys, Retry(j) PROVE Types'
  <2>1. attempt' \in [Journeys -> 0..maxRetries]
    BY <1>7 DEF Retry
  <2> QED
    BY <1>7, <2>1 DEF Retry, routeVars, historyVars
<1>8. ASSUME NEW j \in Journeys, RouteFound(j) PROVE Types'
  <2>1. of' \in {of, j}
    BY <1>8 DEF RouteFound
  <2> QED
    BY <1>8, <2>1 DEF RouteFound
<1>9. ASSUME NEW j \in Journeys, RouteFails(j) PROVE Types'
  BY <1>9 DEF RouteFails, routeVars, historyVars
<1>10. CASE UNCHANGED vars
  BY <1>10 DEF vars, fetchVars, routeVars, historyVars
<1> QED
  BY <1>1, <1>2, <1>3, <1>4, <1>5, <1>6, <1>7, <1>8, <1>9, <1>10
     DEF Next, GeocodeAnswered, RouteAnswered

LEMMA NextOwned ==
  ASSUME Inv, [Next]_vars
  PROVE  Owned'
<1> USE RouteAssumption DEF RouteAssumption, Inv, Types, Owned, Journeys
<1>1. CASE StartJourney
  BY <1>1 DEF StartJourney
<1>2. CASE ResolveJourney
  BY <1>2 DEF ResolveJourney, fetchVars, routeVars, historyVars
<1>3. ASSUME NEW j \in Journeys, StartFetch(j) PROVE Owned'
  BY <1>3 DEF StartFetch, routeVars, historyVars
<1>4. ASSUME NEW j \in Journeys, GeocodeFound(j) PROVE Owned'
  BY <1>4 DEF GeocodeFound
<1>5. ASSUME NEW j \in Journeys, GeocodeEmpty(j) PROVE Owned'
  BY <1>5 DEF GeocodeEmpty, routeVars
<1>6. ASSUME NEW j \in Journeys, GeocodeFails(j) PROVE Owned'
  BY <1>6 DEF GeocodeFails, routeVars
<1>7. ASSUME NEW j \in Journeys, Retry(j) PROVE Owned'
  BY <1>7 DEF Retry, routeVars, historyVars
<1>8. ASSUME NEW j \in Journeys, RouteFound(j) PROVE Owned'
  <2>1. of' \in {of, j}
    BY <1>8 DEF RouteFound
  <2> QED
    BY <1>8, <2>1 DEF RouteFound
<1>9. ASSUME NEW j \in Journeys, RouteFails(j) PROVE Owned'
  BY <1>9 DEF RouteFails, routeVars, historyVars
<1>10. CASE UNCHANGED vars
  BY <1>10 DEF vars, fetchVars, routeVars, historyVars
<1> QED
  BY <1>1, <1>2, <1>3, <1>4, <1>5, <1>6, <1>7, <1>8, <1>9, <1>10
     DEF Next, GeocodeAnswered, RouteAnswered

LEMMA NextCounted ==
  ASSUME Inv, [Next]_vars
  PROVE  Counted'
<1> USE RouteAssumption
        DEF RouteAssumption, Inv, Types, Counted, Journeys, maxRetries
<1>1. CASE StartJourney
  BY <1>1 DEF StartJourney
<1>2. CASE ResolveJourney
  BY <1>2 DEF ResolveJourney, fetchVars, routeVars, historyVars
<1>3. ASSUME NEW j \in Journeys, StartFetch(j) PROVE Counted'
  BY <1>3 DEF StartFetch, routeVars, historyVars
<1>4. ASSUME NEW j \in Journeys, GeocodeFound(j) PROVE Counted'
  BY <1>4 DEF GeocodeFound
<1>5. ASSUME NEW j \in Journeys, GeocodeEmpty(j) PROVE Counted'
  BY <1>5 DEF GeocodeEmpty, routeVars
<1>6. ASSUME NEW j \in Journeys, GeocodeFails(j) PROVE Counted'
  BY <1>6 DEF GeocodeFails, routeVars
<1>7. ASSUME NEW j \in Journeys, Retry(j) PROVE Counted'
  BY <1>7 DEF Retry, routeVars, historyVars
<1>8. ASSUME NEW j \in Journeys, RouteFound(j) PROVE Counted'
  BY <1>8 DEF RouteFound
<1>9. ASSUME NEW j \in Journeys, RouteFails(j) PROVE Counted'
  BY <1>9 DEF RouteFails, routeVars, historyVars
<1>10. CASE UNCHANGED vars
  BY <1>10 DEF vars, fetchVars, routeVars, historyVars
<1> QED
  BY <1>1, <1>2, <1>3, <1>4, <1>5, <1>6, <1>7, <1>8, <1>9, <1>10
     DEF Next, GeocodeAnswered, RouteAnswered

\* The inductive invariant holds, for any number of trips and any routes.
THEOREM RouteInvariant == Spec => []Inv
<1>1. Inv /\ [Next]_vars => Inv'
  BY NextTypes, NextOwned, NextCounted DEF Inv
<1> QED
  BY InitInv, <1>1, PTL DEF Spec

\* The destination and the route are the latest trip's, unless a fetch was
\* under way when a trip was started.
THEOREM RouteAlwaysOfTrip == Spec => []RouteOfTrip
<1>1. Inv => RouteOfTrip
  BY DEF Inv, Owned, RouteOfTrip
<1> QED
  BY RouteInvariant, <1>1, PTL

\* No destination is given up before its third failure.
THEOREM GivesUpAlwaysLate == Spec => []GivesUpLate
<1>1. Inv => GivesUpLate
  BY DEF Inv, Counted, GivesUpLate
<1> QED
  BY RouteInvariant, <1>1, PTL


-----------------------------------------------------------------------------
(* The route itself                                                         *)

\* The route is none, or what the program makes of one the server may answer.
Answered ==
    /\ web \in BOOLEAN
    /\ \/ way \in Ways /\ poly = Received[web][way]
       \/ way = <<>> /\ poly = <<>>

\* Only a start of a trip and an answer of the server change the route.
LEMMA NextAnswered == Answered /\ [Next]_vars => Answered'
<1> SUFFICES ASSUME Answered, [Next]_vars PROVE Answered'
  OBVIOUS
<1>1. CASE StartJourney
  BY <1>1 DEF StartJourney, Answered
<1>2. ASSUME NEW j \in Journeys, RouteFound(j) PROVE Answered'
  <2>1. PICK w \in Ways : \/ UNCHANGED <<poly, way>>
                          \/ poly' = Received[web][w] /\ way' = w
    BY <1>2, Zenon DEF RouteFound
  <2>2. web' = web
    BY <1>2 DEF RouteFound
  <2> QED BY <2>1, <2>2 DEF Answered
<1>3. CASE UNCHANGED <<web, poly, way>>
  BY <1>3 DEF Answered
<1> QED
  BY <1>1, <1>2, <1>3 DEF Next, GeocodeAnswered, RouteAnswered, ResolveJourney,
     StartFetch, GeocodeFound, GeocodeEmpty, GeocodeFails, Retry, RouteFails,
     vars, routeVars, historyVars

LEMMA AnsweredAlways == Spec => []Answered
<1>1. Init => Answered
  BY DEF Init, Answered
<1> QED BY <1>1, NextAnswered, PTL DEF Spec

\* What the decoder makes of a route of the server.
LEMMA AnsweredDecodes ==
    ASSUME Answered
    PROVE  poly \in Seq(Points) /\ (poly # way <=> web /\ Falls(way))
<1>1. CASE way \in Ways /\ poly = Received[web][way]
  <2>1. way \in Seq(Points)
    <3>1. way \in Seq([lat : Latitudes, lng : Longitudes])
      BY <1>1, RouteAssumption
    <3>2. Degree \in Int
      BY SMT DEF Degree
    <3>3. Latitudes \subseteq Int /\ Longitudes \subseteq Int
      BY <3>2 DEF Latitudes, Longitudes
    <3>4. [lat : Latitudes, lng : Longitudes] \subseteq Points
      BY <3>3 DEF Points
    <3> QED BY <3>1, <3>4, SeqMonotonic
  <2>2. web \in BOOLEAN /\ poly = Decode(Encode(way), web)
    BY <1>1 DEF Answered, Received
  <2> QED BY <2>1, <2>2, DecodeInverts
<1>2. CASE way = <<>> /\ poly = <<>>
  <2>1. ~ Falls(<<>>)
    BY DEF Falls
  <2> QED BY <1>2, <2>1
<1> QED BY <1>1, <1>2 DEF Answered

\* For all routes of the server, of any length, and on both platforms: the
\* trip is watched against the route that was answered, except in a browser
\* if the route goes south or west anywhere.
THEOREM AlwaysDecodesRoute == Spec => []DecodesRoute
<1>1. Answered => DecodesRoute
  BY AnsweredDecodes DEF DecodesRoute
<1> QED BY <1>1, AnsweredAlways, PTL

\* Every variable keeps its type, the decoded route among them.
THEOREM RouteTypeCorrect == Spec => []TypeOK
<1>1. Inv /\ Answered => TypeOK
  BY AnsweredDecodes DEF Inv, Types, Answered, TypeOK, Points
<1> QED BY <1>1, RouteInvariant, AnsweredAlways, PTL

=============================================================================
