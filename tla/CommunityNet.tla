---------------------------- MODULE CommunityNet ---------------------------
(***************************************************************************)
(* The community groups of lib/community_chat_service.dart with the screen  *)
(* Dashboard/Community/CommunityGroupsScreen.dart that lists them, and the  *)
(* emergency broadcast an SOS makes to them.  A membership is kept in four  *)
(* places: the member document of the group, the joinedGroups of the user's *)
(* document, the memberCount of the group and the joined_groups preference  *)
(* of the phone, which the broadcast reads.  Each write is awaited before   *)
(* the next, so the calls of the users, and of one user, interleave; one    *)
(* that fails, or the end of the process, leaves a call half done.  Every   *)
(* user has one phone and is signed in; streams are up to date when a user  *)
(* taps.  Messages other than emergencies change nothing here and are left  *)
(* out.                                                                     *)
(***************************************************************************)
EXTENDS Integers, FiniteSets

CONSTANTS
    Users,    \* the users, each at one phone, in the order of their ids
    Groups,   \* the keys of groups
    Slots,    \* bound: calls of a user in progress at a time
    MaxCalls, \* bound: calls a behaviour makes
    MaxLoads, \* bound: times the list is loaded
    MaxBroadcasts, \* bound: emergencies
    MaxFailures    \* bound: failures and ends of processes

\* The creatorId of a group that was made with nobody signed in.
Nobody == 0

ASSUME BoundsAssumption ==
    /\ Users \subseteq Nat \ {Nobody}
    /\ IsFiniteSet(Users)
    /\ MaxCalls \in Nat
    /\ MaxLoads \in Nat
    /\ MaxBroadcasts \in Nat
    /\ MaxFailures \in Nat

VARIABLES
    groups,    \* the groups that have a document
    count,     \* memberCount of each
    active,    \* hasActiveEmergency of each
    creator,   \* creatorId of each
    members,   \* the member documents, as pairs <<user, group>>
    joined,    \* joinedGroups of each user's document
    local,     \* the joined_groups preference of each phone
    shown,     \* _joinedGroupIds of each phone's groups screen
    calls,     \* the calls in progress
    load,      \* where _loadJoinedGroups of each screen is
    loaded,    \* the list it has read
    broadcast, \* the emergency broadcast of each user
    budget,    \* calls, loads, broadcasts and failures still to come
    marred,    \* history: groups on which calls have clashed
    cut,       \* history: users and groups whose call was left half done
    stale      \* history: users with a list read while it changed, or not read

groupVars == <<groups, count, active, creator>>
listVars == <<local, shown>>
loadVars == <<load, loaded>>
historyVars == <<marred, cut, stale>>
vars == <<groupVars, members, joined, listVars, calls, loadVars, broadcast,
          budget, historyVars>>

\* at: the write or read that comes next; here: the screen that made the call
\* is still open; alone: its process has ended, and the phone only brings the
\* write under way to the server; rest: the members a deletion has to remove.
Call == [user : Users, slot : Slots, group : Groups,
         op : {"join", "leave", "delete"},
         at : {"check", "make", "member", "list", "count", "local",
               "snapshot", "unlist", "unmember", "document"},
         here : BOOLEAN, alone : BOOLEAN, rest : SUBSET Users]

\* owed: the groups the user is a member of, and is not about to leave.
Broadcast == [at : {"none", "fetched", "sending", "done", "stopped"},
              todo : SUBSET Groups, told : SUBSET Groups,
              owed : SUBSET Groups]

TypeOK ==
    /\ groups \subseteq Groups
    /\ count \in [Groups -> Int]
    /\ active \in [Groups -> BOOLEAN]
    /\ creator \in [Groups -> Users \cup {Nobody}]
    /\ members \subseteq Users \X Groups
    /\ joined \in [Users -> SUBSET Groups]
    /\ local \in [Users -> SUBSET Groups]
    /\ shown \in [Users -> SUBSET Groups]
    /\ calls \subseteq Call
    /\ load \in [Users -> {"none", "reading", "read", "done"}]
    /\ loaded \in [Users -> SUBSET Groups]
    /\ broadcast \in [Users -> Broadcast]
    /\ budget \in [calls : 0..MaxCalls, loads : 0..MaxLoads,
                   broadcasts : 0..MaxBroadcasts, failures : 0..MaxFailures]
    /\ marred \subseteq Groups
    /\ cut \subseteq Users \X Groups
    /\ stale \subseteq Users

MembersOf(g) == {u \in Users : <<u, g>> \in members}

CallsOf(u) == {c \in calls : c.user = u}

\* Any communities that calls made one at a time may have left; a user has the
\* groups screen open or not.
Init ==
    /\ groups \in SUBSET Groups
    /\ members \in SUBSET (Users \X groups)
    /\ count = [g \in Groups |-> Cardinality(MembersOf(g))]
    /\ active = [g \in Groups |-> FALSE]
    /\ creator \in [Groups -> Users \cup {Nobody}]
    /\ \A g \in Groups \ groups : creator[g] = Nobody
    /\ joined = [u \in Users |-> {g \in groups : <<u, g>> \in members}]
    /\ local = joined
    /\ load \in [Users -> {"none", "done"}]
    /\ shown = [u \in Users |-> IF load[u] = "done" THEN local[u] ELSE {}]
    /\ calls = {}
    /\ loaded = [u \in Users |-> {}]
    /\ broadcast = [u \in Users |-> [at |-> "none", todo |-> {}, told |-> {},
                                     owed |-> {}]]
    /\ budget = [calls |-> MaxCalls, loads |-> MaxLoads,
                 broadcasts |-> MaxBroadcasts, failures |-> MaxFailures]
    /\ marred = {}
    /\ cut = {}
    /\ stale = {}

-----------------------------------------------------------------------------
(* Calls                                                                    *)

\* The same user is at two calls on a group, a group is deleted while another
\* call is at it, two users make it at a time, or a call repeats what is so.
Clash(u, g, op, at) ==
    \/ \E c \in calls : /\ c.group = g
                        /\ \/ c.user = u
                           \/ "delete" \in {c.op, op}
                           \/ at = "check" /\ c.at \in {"check", "make"}
    \/ op = "join" /\ <<u, g>> \in members
    \/ op = "leave" /\ <<u, g>> \notin members

\* A user with the groups screen open taps.
Begin(u, g, op, at) ==
    /\ load[u] # "none"
    /\ budget.calls > 0
    /\ budget' = [budget EXCEPT !.calls = @ - 1]
    /\ \E s \in Slots :
          /\ \A c \in CallsOf(u) : c.slot # s
          /\ calls' = calls \cup {[user |-> u, slot |-> s, group |-> g,
                                   op |-> op, at |-> at, here |-> TRUE,
                                   alone |-> FALSE, rest |-> {}]}
    /\ marred' = marred \cup {h \in {g} : Clash(u, h, op, at)}
    /\ stale' = stale \cup {v \in {u} : \/ load[v] \in {"reading", "read"}
                                        \/ broadcast[v].at = "fetched"}
    /\ UNCHANGED <<groupVars, members, joined, listVars, loadVars, broadcast,
                   cut>>

Join(u, g) == g \in groups \ shown[u] /\ Begin(u, g, "join", "member")

Leave(u, g) == g \in groups \cap shown[u] /\ Begin(u, g, "leave", "member")

\* The sheet is not rebuilt by its screen: its button may be on all the time.
CreateAndJoin(u, g) == Begin(u, g, "join", "check")

Delete(u, g) ==
    /\ g \in groups
    /\ creator[g] \in {u, Nobody}
    /\ Begin(u, g, "delete", "snapshot")

Ends(c) == calls' = calls \ {c}

\* The await is over; where the process is, too, nothing follows.
Goes(c, at) ==
    IF c.alone THEN Ends(c)
               ELSE calls' = (calls \ {c}) \cup {[c EXCEPT !.at = at]}

\* What a join adds to a set and a leave takes from it.
Changed(set, c, x) == IF c.op = "join" THEN set \cup {x} ELSE set \ {x}

\* Mutant: the group is made without looking.
CheckGroupNot(c) ==
    /\ c.at = "check"
    /\ Goes(c, "make")
    /\ UNCHANGED <<groupVars, members, joined, listVars, loadVars, broadcast,
                   budget, historyVars>>

CheckGroup(c) ==
    /\ c.at = "check"
    /\ Goes(c, IF c.group \in groups THEN "member" ELSE "make")
    /\ UNCHANGED <<groupVars, members, joined, listVars, loadVars, broadcast,
                   budget, historyVars>>

\* Mutant: the group is entered as its own creator.
MakeGroupOfItself(c) ==
    /\ c.at = "make"
    /\ groups' = groups \cup {c.group}
    /\ count' = [count EXCEPT ![c.group] = 0]
    /\ active' = [active EXCEPT ![c.group] = FALSE]
    /\ creator' = [creator EXCEPT ![c.group] = c.group]
    /\ Goes(c, "member")
    /\ UNCHANGED <<members, joined, listVars, loadVars, broadcast, budget,
                   historyVars>>

\* set() without merge: a document made in the meantime is written over.
MakeGroup(c) ==
    /\ c.at = "make"
    /\ groups' = groups \cup {c.group}
    /\ count' = [count EXCEPT ![c.group] = 0]
    /\ active' = [active EXCEPT ![c.group] = FALSE]
    /\ creator' = [creator EXCEPT ![c.group] = c.user]
    /\ Goes(c, "member")
    /\ UNCHANGED <<members, joined, listVars, loadVars, broadcast, budget,
                   historyVars>>

WriteMember(c) ==
    /\ c.at = "member"
    /\ members' = Changed(members, c, <<c.user, c.group>>)
    /\ Goes(c, "list")
    /\ UNCHANGED <<groupVars, joined, listVars, loadVars, broadcast, budget,
                   historyVars>>

WriteList(c) ==
    /\ c.at = "list"
    /\ joined' = [joined EXCEPT ![c.user] = Changed(@, c, c.group)]
    /\ Goes(c, "count")
    /\ UNCHANGED <<groupVars, members, listVars, loadVars, broadcast, budget,
                   historyVars>>

\* update() of a document that is not there throws, and the call ends.
WriteCount(c) ==
    /\ c.at = "count"
    /\ IF c.group \in groups
          THEN /\ count' = [count EXCEPT ![c.group] =
                               IF c.op = "join" THEN @ + 1 ELSE @ - 1]
               /\ Goes(c, "local")
          ELSE Ends(c) /\ UNCHANGED count
    /\ UNCHANGED <<groups, active, creator, members, joined, listVars,
                   loadVars, broadcast, budget, historyVars>>

\* Mutant: the preference is not written.
WriteLocalShownOnly(c) ==
    /\ c.at = "local"
    /\ shown' = IF c.here
                   THEN [shown EXCEPT ![c.user] = Changed(@, c, c.group)]
                   ELSE shown
    /\ Ends(c)
    /\ UNCHANGED <<groupVars, members, joined, local, loadVars, broadcast,
                   budget, historyVars>>

\* The preference, and the list of the screen if it is still there.
WriteLocal(c) ==
    /\ c.at = "local"
    /\ local' = [local EXCEPT ![c.user] = Changed(@, c, c.group)]
    /\ shown' = IF c.here
                   THEN [shown EXCEPT ![c.user] = Changed(@, c, c.group)]
                   ELSE shown
    /\ Ends(c)
    /\ UNCHANGED <<groupVars, members, joined, loadVars, broadcast, budget,
                   historyVars>>

-----------------------------------------------------------------------------
(* deleteGroup: the members as they are at the snapshot, one by one, then   *)
(* the document.                                                            *)

First(set) == CHOOSE m \in set : \A n \in set : m <= n

Remaining(c, rest) ==
    IF c.alone THEN Ends(c)
               ELSE calls' = (calls \ {c}) \cup
                        {[c EXCEPT !.rest = rest,
                                   !.at = IF rest = {} THEN "document"
                                                       ELSE "unlist"]}

TakeSnapshot(c) ==
    /\ c.at = "snapshot"
    /\ Remaining(c, MembersOf(c.group))
    /\ UNCHANGED <<groupVars, members, joined, listVars, loadVars, broadcast,
                   budget, historyVars>>

UnlistMember(c) ==
    /\ c.at = "unlist"
    /\ joined' = [joined EXCEPT ![First(c.rest)] = @ \ {c.group}]
    /\ Goes(c, "unmember")
    /\ UNCHANGED <<groupVars, members, listVars, loadVars, broadcast, budget,
                   historyVars>>

RemoveMember(c) ==
    /\ c.at = "unmember"
    /\ members' = members \ {<<First(c.rest), c.group>>}
    /\ Remaining(c, c.rest \ {First(c.rest)})
    /\ UNCHANGED <<groupVars, joined, listVars, loadVars, broadcast, budget,
                   historyVars>>

\* The preferences of the phones, the deleter's too, keep the group.
DeleteDocument(c) ==
    /\ c.at = "document"
    /\ groups' = groups \ {c.group}
    /\ count' = [count EXCEPT ![c.group] = 0]
    /\ active' = [active EXCEPT ![c.group] = FALSE]
    /\ creator' = [creator EXCEPT ![c.group] = Nobody]
    /\ shown' = IF c.here
                   THEN [shown EXCEPT ![c.user] = @ \ {c.group}]
                   ELSE shown
    /\ Ends(c)
    /\ UNCHANGED <<members, joined, local, loadVars, broadcast, budget,
                   historyVars>>

-----------------------------------------------------------------------------
(* Calls that are left half done                                            *)

\* What a call would leave if it ended before its next write, or, when its
\* process ends, at a write under way: its user's entries for the group, or
\* those of the member a deletion is at, need not agree.
Halved(c, writing) ==
    {<<u, c.group>> : u \in {v \in Users :
        \/ /\ v = c.user
           /\ c.at \in {"list", "count", "local", "unlist", "unmember",
                        "document"} \cup writing
        \/ /\ v \in c.rest
           /\ v = First(c.rest)
           /\ c.at \in {"unmember"} \cup writing}}

\* Mutant: a deletion that fails goes on to the document.
CallFailsGoingOn(c) ==
    /\ ~c.alone
    /\ budget.failures > 0
    /\ budget' = [budget EXCEPT !.failures = @ - 1]
    /\ IF c.op = "delete" THEN Goes(c, "document") ELSE Ends(c)
    /\ cut' = cut \cup Halved(c, {})
    /\ UNCHANGED <<groupVars, members, joined, listVars, loadVars, broadcast,
                   marred, stale>>

\* The next read or write throws, refused by the server or lost.  A deletion
\* catches that itself, and the screen drops the group as if it were gone.
CallFails(c) ==
    /\ ~c.alone
    /\ budget.failures > 0
    /\ budget' = [budget EXCEPT !.failures = @ - 1]
    /\ Ends(c)
    /\ shown' = IF c.op = "delete" /\ c.here
                   THEN [shown EXCEPT ![c.user] = @ \ {c.group}]
                   ELSE shown
    /\ cut' = cut \cup Halved(c, {})
    /\ UNCHANGED <<groupVars, members, joined, local, loadVars, broadcast,
                   marred, stale>>

Writing(c) == c.at \in {"make", "member", "list", "count", "unlist", "unmember",
                        "document"}

\* The phone ends the process: its calls and its broadcast end where they are.
\* The cache of the phone brings the writes under way to the server all the
\* same; in a browser there is none.
ProcessEnds(u) ==
    /\ budget.failures > 0
    /\ budget' = [budget EXCEPT !.failures = @ - 1]
    /\ \E kept \in {{}, {c \in CallsOf(u) : Writing(c)}} :
           calls' = (calls \ CallsOf(u)) \cup
               {[c EXCEPT !.here = FALSE, !.alone = TRUE] : c \in kept}
    /\ shown' = [shown EXCEPT ![u] = {}]
    /\ load' = [load EXCEPT ![u] = "none"]
    /\ loaded' = [loaded EXCEPT ![u] = {}]
    /\ broadcast' = [broadcast EXCEPT ![u].at =
                         IF @ \in {"fetched", "sending"} THEN "stopped" ELSE @]
    /\ cut' = cut \cup UNION {Halved(c, {"member", "unlist"}) : c \in CallsOf(u)}
    /\ UNCHANGED <<groupVars, members, joined, local, marred, stale>>

-----------------------------------------------------------------------------
(* The groups screen                                                        *)

\* The screen is opened, or opened again: what the calls made from the one
\* before have still to show is lost.
OpenScreen(u) ==
    /\ load[u] \in {"none", "done"}
    /\ budget.loads > 0
    /\ budget' = [budget EXCEPT !.loads = @ - 1]
    /\ load' = [load EXCEPT ![u] = "reading"]
    /\ shown' = [shown EXCEPT ![u] = local[u]]
    /\ calls' = (calls \ CallsOf(u)) \cup
                    {[c EXCEPT !.here = FALSE] : c \in CallsOf(u)}
    /\ stale' = stale \cup {v \in {u} : CallsOf(v) # {}}
    /\ UNCHANGED <<groupVars, members, joined, local, loaded, broadcast,
                   marred, cut>>

\* fetchJoinedGroupIds: a failure is caught and answers the empty list.
LoadReads(u) ==
    /\ load[u] = "reading"
    /\ load' = [load EXCEPT ![u] = "read"]
    /\ \E list \in {joined[u], {}} :
          /\ loaded' = [loaded EXCEPT ![u] = list]
          /\ stale' = stale \cup {v \in {u} : list # joined[v]}
    /\ UNCHANGED <<groupVars, members, joined, listVars, calls, broadcast,
                   budget, marred, cut>>

\* The list read replaces the preference if it differs from what is shown.
LoadApplies(u) ==
    /\ load[u] = "read"
    /\ load' = [load EXCEPT ![u] = "done"]
    /\ local' = [local EXCEPT ![u] = IF shown[u] = loaded[u] THEN @
                                                              ELSE loaded[u]]
    /\ shown' = [shown EXCEPT ![u] = loaded[u]]
    /\ loaded' = [loaded EXCEPT ![u] = {}]
    /\ UNCHANGED <<groupVars, members, joined, calls, broadcast, budget,
                   historyVars>>

-----------------------------------------------------------------------------
(* broadcastEmergencyToUserGroups                                           *)

Sending(todo) == IF todo = {} THEN "done" ELSE "sending"

\* The list of the phone, or, if it is empty, that of the server.
StartBroadcast(u) ==
    /\ broadcast[u].at = "none"
    /\ budget.broadcasts > 0
    /\ budget' = [budget EXCEPT !.broadcasts = @ - 1]
    /\ \E todo \in IF local[u] = {} THEN {joined[u], {}} ELSE {local[u]} :
          /\ broadcast' = [broadcast EXCEPT ![u] =
                [at |-> IF local[u] = {} THEN "fetched" ELSE "sending",
                 todo |-> todo,
                 told |-> {},
                 owed |-> {g \in groups : /\ g \in joined[u]
                                          /\ \A c \in CallsOf(u) :
                                                c.group # g}]]
          /\ stale' = stale \cup {v \in {u} : /\ local[v] = {}
                                              /\ \/ CallsOf(v) # {}
                                                 \/ todo # joined[v]}
    /\ UNCHANGED <<groupVars, members, joined, listVars, calls, loadVars,
                   marred, cut>>

StoreFetched(u) ==
    /\ broadcast[u].at = "fetched"
    /\ local' = [local EXCEPT ![u] = IF broadcast[u].todo = {}
                                        THEN @ ELSE broadcast[u].todo]
    /\ broadcast' = [broadcast EXCEPT ![u].at = Sending(broadcast[u].todo)]
    /\ UNCHANGED <<groupVars, members, joined, shown, calls, loadVars, budget,
                   historyVars>>

\* Mutant: a group that cannot be told ends the broadcast as if all were.
TellGroupOnly(u, g) ==
    /\ broadcast[u].at = "sending"
    /\ g \in broadcast[u].todo
    /\ active' = [active EXCEPT ![g] = @ \/ g \in groups]
    /\ broadcast' = [broadcast EXCEPT ![u] =
                         [at |-> "done",
                          todo |-> broadcast[u].todo,
                          told |-> broadcast[u].told \cup {g},
                          owed |-> broadcast[u].owed]]
    /\ UNCHANGED <<groups, count, creator, members, joined, listVars, calls,
                   loadVars, budget, historyVars>>

\* The message, then the pin; the pin of a group that is gone throws, and the
\* groups behind it in the list are not told.
TellGroup(u, g) ==
    /\ broadcast[u].at = "sending"
    /\ g \in broadcast[u].todo
    /\ IF g \in groups
          THEN /\ active' = [active EXCEPT ![g] = TRUE]
               /\ broadcast' = [broadcast EXCEPT ![u] =
                     [at |-> Sending(broadcast[u].todo \ {g}),
                      todo |-> broadcast[u].todo \ {g},
                      told |-> broadcast[u].told \cup {g},
                      owed |-> broadcast[u].owed]]
          ELSE /\ broadcast' = [broadcast EXCEPT ![u].at = "stopped"]
               /\ UNCHANGED active
    /\ UNCHANGED <<groups, count, creator, members, joined, listVars, calls,
                   loadVars, budget, historyVars>>

\* A preference, a message or a pin that fails ends the whole broadcast.
BroadcastFails(u) ==
    /\ broadcast[u].at \in {"fetched", "sending"}
    /\ budget.failures > 0
    /\ budget' = [budget EXCEPT !.failures = @ - 1]
    /\ broadcast' = [broadcast EXCEPT ![u].at = "stopped"]
    /\ UNCHANGED <<groupVars, members, joined, listVars, calls, loadVars,
                   historyVars>>

Next ==
    \/ \E u \in Users, g \in Groups :
          \/ Join(u, g) \/ Leave(u, g) \/ CreateAndJoin(u, g) \/ Delete(u, g)
          \/ TellGroup(u, g)
    \/ \E c \in calls :
          \/ CheckGroup(c) \/ MakeGroup(c)
          \/ WriteMember(c) \/ WriteList(c) \/ WriteCount(c) \/ WriteLocal(c)
          \/ TakeSnapshot(c) \/ UnlistMember(c) \/ RemoveMember(c)
          \/ DeleteDocument(c) \/ CallFails(c)
    \/ \E u \in Users :
          \/ OpenScreen(u) \/ LoadReads(u) \/ LoadApplies(u)
          \/ StartBroadcast(u) \/ StoreFetched(u) \/ BroadcastFails(u)
          \/ ProcessEnds(u)

Spec == Init /\ [][Next]_vars

-----------------------------------------------------------------------------
(* Properties                                                               *)

AtRest(g) == \A c \in calls : c.group # g

\* Between calls the member documents of a group, the lists of its members
\* and its count agree, and a group that is gone has none, unless two calls
\* have clashed on it: the four writes of a call are not one transaction.  A
\* call that was left half done takes the entries of its own user out, and the
\* count, but nobody else's.
MembershipAgrees ==
    \A g \in Groups \ marred : AtRest(g) =>
        /\ \A u \in Users : <<u, g>> \notin cut =>
               (<<u, g>> \in members <=> g \in joined[u])
        /\ (\A u \in Users : <<u, g>> \notin cut) =>
               count[g] = Cardinality(MembersOf(g))
        /\ g \notin groups => MembersOf(g) = {}

\* The list the broadcast reads has all groups of the user, as long as no
\* list was read while the user's calls changed it, or not read at all, but
\* for those where a call of the user, or the deletion, was left half done.
ListCovers ==
    \A u \in Users \ stale, g \in Groups \ marred :
        /\ g \in joined[u] /\ <<u, g>> \notin cut
        /\ \A c \in CallsOf(u) : c.group # g
        => g \in local[u]

\* Under the same conditions a broadcast that gets to its end has told every
\* group of the user.
BroadcastReaches ==
    \A u \in Users \ stale :
        broadcast[u].at = "done" =>
            \A g \in broadcast[u].owed \ marred :
                g \in broadcast[u].told \/ <<u, g>> \in cut

\* The emergency of a group goes only with the group.
EmergencyStays ==
    [][\A g \in Groups \ marred' :
           active[g] /\ ~active'[g] => g \notin groups']_vars

\* The comment at the broadcast: it goes to all groups the user belongs to.
\* Even where the list of the phone has them all, one that has been deleted
\* keeps those behind it from being told.
EveryGroupTold ==
    \A u \in Users \ stale :
        broadcast[u].at \in {"done", "stopped"} =>
            broadcast[u].owed \cap groups \subseteq broadcast[u].told

=============================================================================
