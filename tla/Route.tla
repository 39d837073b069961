------------------------------- MODULE Route -------------------------------
(***************************************************************************)
(* The route of a trip: lib/route_service.dart, and _fetchAndStoreRoute of  *)
(* lib/silent_evidence_shield_service.dart, which runs beside the trip.     *)
(* The name of the destination is geocoded, with up to three requests; the  *)
(* route to it is asked for once, and comes as an encoded polyline.  Angles *)
(* are whole numbers of 1e-5 degrees, characters are their code units.      *)
(* What the route is compared with is in ShieldMonitor.                     *)
(***************************************************************************)
EXTENDS Integers, Sequences

CONSTANTS
    MaxJourneys, \* bound: how many trips a behaviour starts
    Ways,        \* the routes the server may answer, as sequences of points
    WordSize     \* 2^32; less in instances, as TLC's numbers end below

Degree == 100000

\* So small that the 32 bits of a shift hold twice the difference of any two.
Latitudes == (-90 * Degree)..(90 * Degree)
Longitudes == (-180 * Degree)..(180 * Degree)

ASSUME RouteAssumption ==
    /\ MaxJourneys \in Nat \ {0}
    /\ Ways \subseteq Seq([lat : Latitudes, lng : Longitudes])
    /\ WordSize \in Nat \ {0}

Journeys == 1..MaxJourneys
maxRetries == 3

VARIABLES
    web,     \* the program runs in a browser
    journey, \* number of the latest trip, 0 before the first
    active,  \* the latest trip is not resolved
    fetch,   \* where the fetch of each trip is
    attempt, \* attempt of each fetch, 0 before the first
    dest,    \* the trip whose destination _destLatitude is, 0 for null
    poly,    \* _routePolyline
    way,     \* history: the route of which poly is the answer
    of,      \* history: the trip poly was fetched for
    outcome, \* history: what the geocoding of each trip has come to
    late     \* history: a fetch was under way when another trip started

fetchVars == <<fetch, attempt>>
routeVars == <<dest, poly>>
historyVars == <<way, of, outcome, late>>
vars == <<web, journey, active, fetchVars, routeVars, historyVars>>

TypeOK ==
    /\ web \in BOOLEAN
    /\ journey \in 0..MaxJourneys
    /\ active \in BOOLEAN
    /\ fetch \in [Journeys -> {"none", "gps", "request", "wait", "route"}]
    /\ attempt \in [Journeys -> 0..maxRetries]
    /\ dest \in 0..MaxJourneys
    /\ poly \in Seq([lat : Int, lng : Int])
    /\ way \in Ways \cup {<<>>}
    /\ of \in 0..MaxJourneys
    /\ outcome \in [Journeys -> {"none", "found", "empty", "failed"}]
    /\ late \in BOOLEAN

Init ==
    /\ web \in BOOLEAN
    /\ journey = 0
    /\ active = FALSE
    /\ fetch = [j \in Journeys |-> "none"]
    /\ attempt = [j \in Journeys |-> 0]
    /\ dest = 0
    /\ poly = <<>>
    /\ way = <<>>
    /\ of = 0
    /\ outcome = [j \in Journeys |-> "none"]
    /\ late = FALSE

-----------------------------------------------------------------------------
(* _decodePolyline.  A coordinate comes as the difference from the last, in *)
(* groups of five bits, the lowest first; the lowest bit of all is its      *)
(* sign.                                                                    *)

\* Operator ~ : of 32 bits without sign in a browser.
Complement(n, inWeb) == IF inWeb THEN WordSize - 1 - n ELSE -n - 1

\* Mutant: the sign bit negates.
DifferenceNegated(bits, inWeb) ==
    IF bits % 2 = 1 THEN -(bits \div 2) ELSE bits \div 2

Difference(bits, inWeb) ==
    IF bits % 2 = 1 THEN Complement(bits \div 2, inWeb) ELSE bits \div 2

\* The loops' variables: axis is the one whose bits are being read, scale is
\* 2^shift.
Start == [axis |-> "lat", scale |-> 1, bits |-> 0, lat |-> 0, lng |-> 0,
          result |-> <<>>]

\* A difference has been read; one of longitudes completes a point.
Complete(state, difference) ==
    IF state.axis = "lat"
       THEN [state EXCEPT !.axis = "lng", !.scale = 1, !.bits = 0,
                          !.lat = @ + difference]
       ELSE [state EXCEPT !.axis = "lat", !.scale = 1, !.bits = 0,
                          !.lng = @ + difference,
                          !.result = Append(@, [lat |-> state.lat,
                                                lng |-> state.lng + difference])]

Read(state, char, inWeb) ==
    LET b    == char - 63
        bits == state.bits + (b % 32) * state.scale
    IN  IF b >= 32 THEN [state EXCEPT !.scale = @ * 32, !.bits = bits]
                   ELSE Complete(state, Difference(bits, inWeb))

Decoding(encoded, inWeb) ==
    LET state[n \in 0..Len(encoded)] ==
            IF n = 0 THEN Start ELSE Read(state[n - 1], encoded[n], inWeb)
    IN  state

Decode(encoded, inWeb) == Decoding(encoded, inWeb)[Len(encoded)].result

(* The algorithm as its authors give it, which the server encodes with.     *)

Groups[bits \in Nat] ==
    IF bits < 32 THEN <<bits + 63>>
                 ELSE <<(bits % 32) + 32 + 63>> \o Groups[bits \div 32]

EncodeNumber(n) == Groups[IF n < 0 THEN -2 * n - 1 ELSE 2 * n]

EncodePoint(points, i) ==
    LET last == IF i = 1 THEN [lat |-> 0, lng |-> 0] ELSE points[i - 1]
    IN  EncodeNumber(points[i].lat - last.lat)
            \o EncodeNumber(points[i].lng - last.lng)

Encoding(points) ==
    LET code[i \in 0..Len(points)] ==
            IF i = 0 THEN <<>> ELSE code[i - 1] \o EncodePoint(points, i)
    IN  code

Encode(points) == Encoding(points)[Len(points)]

\* What the program makes of the answer of each route.
Received ==
    [inWeb \in BOOLEAN |-> [w \in Ways |-> Decode(Encode(w), inWeb)]]

-----------------------------------------------------------------------------
(* The trip                                                                 *)

\* Mutant: the route of the last trip is kept.
StartJourneyKeepingRoute ==
    /\ ~active
    /\ journey < MaxJourneys
    /\ active' = TRUE
    /\ journey' = journey + 1
    /\ fetch' = [fetch EXCEPT ![journey + 1] = "gps"]
    /\ late' = (late \/ \E j \in Journeys : fetch[j] # "none")
    /\ UNCHANGED <<web, attempt, routeVars, way, of, outcome>>

StartJourney ==
    /\ ~active
    /\ journey < MaxJourneys
    /\ active' = TRUE
    /\ journey' = journey + 1
    /\ fetch' = [fetch EXCEPT ![journey + 1] = "gps"]
    /\ dest' = 0
    /\ poly' = <<>>
    /\ way' = <<>>
    /\ of' = 0
    /\ late' = (late \/ \E j \in Journeys : fetch[j] # "none")
    /\ UNCHANGED <<web, attempt, outcome>>

\* The fetch goes on.
ResolveJourney ==
    /\ active
    /\ active' = FALSE
    /\ UNCHANGED <<web, journey, fetchVars, routeVars, historyVars>>

\* The start of the trip has its position and fetches, whatever has become of
\* the trip.
StartFetch(j) ==
    /\ fetch[j] = "gps"
    /\ fetch' = [fetch EXCEPT ![j] = "request"]
    /\ attempt' = [attempt EXCEPT ![j] = 1]
    /\ UNCHANGED <<web, journey, active, routeVars, historyVars>>

-----------------------------------------------------------------------------
(* geocodeDestination                                                       *)

GeocodeFound(j) ==
    /\ fetch[j] = "request"
    /\ fetch' = [fetch EXCEPT ![j] = "route"]
    /\ dest' = j
    /\ outcome' = [outcome EXCEPT ![j] = "found"]
    /\ UNCHANGED <<web, journey, active, attempt, poly, way, of, late>>

\* An answer without a place ends it at once.
GeocodeEmpty(j) ==
    /\ fetch[j] = "request"
    /\ fetch' = [fetch EXCEPT ![j] = "none"]
    /\ outcome' = [outcome EXCEPT ![j] = "empty"]
    /\ UNCHANGED <<web, journey, active, attempt, routeVars, way, of, late>>

\* Mutant: the second failure is the last.
GeocodeFailsEarly(j) ==
    /\ fetch[j] = "request"
    /\ IF attempt[j] + 1 < maxRetries
          THEN /\ fetch' = [fetch EXCEPT ![j] = "wait"]
               /\ UNCHANGED outcome
          ELSE /\ fetch' = [fetch EXCEPT ![j] = "none"]
               /\ outcome' = [outcome EXCEPT ![j] = "failed"]
    /\ UNCHANGED <<web, journey, active, attempt, routeVars, way, of, late>>

\* Mutant: one request more.
GeocodeFailsOnceMore(j) ==
    /\ fetch[j] = "request"
    /\ IF attempt[j] <= maxRetries
          THEN /\ fetch' = [fetch EXCEPT ![j] = "wait"]
               /\ UNCHANGED outcome
          ELSE /\ fetch' = [fetch EXCEPT ![j] = "none"]
               /\ outcome' = [outcome EXCEPT ![j] = "failed"]
    /\ UNCHANGED <<web, journey, active, attempt, routeVars, way, of, late>>

\* Another status, an exception, or no answer in eight seconds.
GeocodeFails(j) ==
    /\ fetch[j] = "request"
    /\ IF attempt[j] < maxRetries
          THEN /\ fetch' = [fetch EXCEPT ![j] = "wait"]
               /\ UNCHANGED outcome
          ELSE /\ fetch' = [fetch EXCEPT ![j] = "none"]
               /\ outcome' = [outcome EXCEPT ![j] = "failed"]
    /\ UNCHANGED <<web, journey, active, attempt, routeVars, way, of, late>>

\* Mutant: the attempts are not counted.
RetryUncounted(j) ==
    /\ fetch[j] = "wait"
    /\ fetch' = [fetch EXCEPT ![j] = "request"]
    /\ UNCHANGED <<web, journey, active, attempt, routeVars, historyVars>>

\* After two seconds, then after four.
Retry(j) ==
    /\ fetch[j] = "wait"
    /\ fetch' = [fetch EXCEPT ![j] = "request"]
    /\ attempt' = [attempt EXCEPT ![j] = @ + 1]
    /\ UNCHANGED <<web, journey, active, routeVars, historyVars>>

-----------------------------------------------------------------------------
(* fetchRoutePolyline                                                       *)

RouteFound(j) ==
    /\ fetch[j] = "route"
    /\ fetch' = [fetch EXCEPT ![j] = "none"]
    /\ \E w \in Ways :
          IF Received[web][w] = <<>>
             THEN UNCHANGED <<poly, way, of>>
             ELSE poly' = Received[web][w] /\ way' = w /\ of' = j
    /\ UNCHANGED <<web, journey, active, attempt, dest, outcome, late>>

\* No route, another status, an exception, or no answer in ten seconds.
RouteFails(j) ==
    /\ fetch[j] = "route"
    /\ fetch' = [fetch EXCEPT ![j] = "none"]
    /\ UNCHANGED <<web, journey, active, attempt, routeVars, historyVars>>

GeocodeAnswered(j) == GeocodeFound(j) \/ GeocodeEmpty(j) \/ GeocodeFails(j)

RouteAnswered(j) == RouteFound(j) \/ RouteFails(j)

Next ==
    \/ StartJourney \/ ResolveJourney
    \/ \E j \in Journeys :
          \/ StartFetch(j) \/ GeocodeAnswered(j) \/ Retry(j)
          \/ RouteAnswered(j)

Spec == Init /\ [][Next]_vars

\* Every request and every delay ends in time.
FairSpec ==
    /\ Spec
    /\ \A j \in Journeys :
          WF_vars(GeocodeAnswered(j) \/ Retry(j) \/ RouteAnswered(j))

-----------------------------------------------------------------------------
(* Properties                                                               *)

\* A coordinate of the route is less than the one before it.
Falls(w) ==
    \/ w # <<>> /\ (w[1].lat < 0 \/ w[1].lng < 0)
    \/ \E i \in 2..Len(w) :
          w[i].lat < w[i - 1].lat \/ w[i].lng < w[i - 1].lng

\* The route the trip is watched against is what the server answered, except
\* that in a browser a route that goes south or west anywhere is wrong.
DecodesRoute == poly # way <=> web /\ Falls(way)

\* It is the route of the trip, and the destination is the trip's, unless the
\* fetch of an earlier trip was still under way when a trip was started: such
\* a fetch writes over them.
RouteOfTrip ==
    ~late => dest \in {0, journey} /\ of \in {0, dest}

\* Deviation detection is given up for a destination that can be found only
\* after three failures.
GivesUpLate ==
    \A j \in Journeys : outcome[j] = "failed" => attempt[j] = maxRetries

\* Every fetch ends, whatever the servers do.
FetchEnds == \A j \in Journeys : fetch[j] = "request" ~> fetch[j] = "none"

=============================================================================
