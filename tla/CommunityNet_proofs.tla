------------------------ MODULE CommunityNet_proofs -------------------------
(***************************************************************************)
(* Proofs about CommunityNet, for any number of users, groups and calls.    *)
(* What is true of a group on which no calls have clashed depends on the    *)
(* calls at it, its members, its listed users, its count, whether it has a  *)
(* document, and the users whose entries a call has left half done: Good    *)
(* says it of these six, and the first part shows that each step of a call, *)
(* and its end anywhere, keeps it, without a word about the other groups.   *)
(***************************************************************************)
EXTENDS CommunityNet, FiniteSetTheorems, TLAPS

Deleting == {"snapshot", "unlist", "unmember", "document"}

Making == {"check", "make"}

Typed(C) ==
    \A c \in C : /\ c.user \in Users
                 /\ c.op \in {"join", "leave", "delete"}
                 /\ c.at \in {"check", "make", "member", "list", "count",
                              "local", "snapshot", "unlist", "unmember",
                              "document"}

\* No clash: one call a user, one that makes the group, and a deletion alone.
One(C) ==
    \A c, d \in C : c # d => /\ c.user # d.user
                             /\ c.op # "delete"
                             /\ c.at \notin Making \/ d.at \notin Making

Kinds(C) ==
    \A c \in C : /\ c.op = "delete" <=> c.at \in Deleting
                 /\ c.at \in Making => c.op = "join"

Placed(C, M, L, there, X) ==
    /\ \A c \in C : /\ c.at = "make" => ~there
                    /\ c.at \notin Making => there
    /\ ~there => M = {} /\ L \subseteq X

\* A call of an ended process has its last write under way, and the users whose
\* entries it can leave half done are known.
Orphaned(C, X) ==
    \A c \in C : c.alone =>
        /\ c.at \in {"make", "member", "list", "count", "unlist", "unmember",
                     "document"}
        /\ c.at # "make" => c.user \in X
        /\ c.at = "unlist" => \A v \in c.rest : v = First(c.rest) => v \in X

Joins(C, M, L, X) ==
    \A c \in C : c.op = "join" =>
        /\ c.user \in M <=> c.at \in {"list", "count", "local"}
        /\ c.user \notin X => (c.user \in L <=> c.at \in {"count", "local"})

Leaves(C, M, L, X) ==
    \A c \in C : c.op = "leave" =>
        /\ c.user \in M <=> c.at = "member"
        /\ c.user \notin X => (c.user \in L <=> c.at \in {"member", "list"})

Deletes(C, M, L, X) ==
    \A c \in C : c.op = "delete" =>
        /\ c.at \in {"unlist", "unmember"} => c.rest = M
        /\ c.at = "document" => M = {}
        /\ \A u \in Users \ X :
              u \in L <=> /\ u \in M
                          /\ c.at = "unmember" => u # First(c.rest)

Others(C, M, L, X) ==
    \A u \in Users \ X :
        (\A c \in C : c.user # u /\ c.op # "delete") => (u \in M <=> u \in L)

\* The users the count has: a call counts after its other writes.
Counted(C, M) ==
    {u \in Users :
        \/ \E c \in C : /\ c.user = u
                        /\ c.op = "leave"
                        /\ c.at \in {"member", "list", "count"}
        \/ /\ u \in M
           /\ \A c \in C : c.user = u /\ c.op = "join" => c.at = "local"}

Tally(C, M, n, X) ==
    X = {} /\ (\A c \in C : c.op = "delete" => c.at = "snapshot") =>
        n = Cardinality(Counted(C, M))

Good(C, M, L, n, there, X) ==
    /\ Typed(C) /\ One(C) /\ Kinds(C) /\ Placed(C, M, L, there, X)
    /\ Orphaned(C, X)
    /\ Joins(C, M, L, X) /\ Leaves(C, M, L, X) /\ Deletes(C, M, L, X)
    /\ Others(C, M, L, X) /\ Tally(C, M, n, X)

\* What a step of a call leaves as it is.
Same(c, d) == d.user = c.user /\ d.op = c.op /\ ~d.alone

-----------------------------------------------------------------------------
(* Each step of a call keeps Good.                                          *)

\* A new call that clashes with none.
New(C, M, k, there) ==
    /\ Typed({k}) /\ Kinds({k}) /\ ~k.alone
    /\ \A c \in C : /\ c.user # k.user
                    /\ c.op # "delete"
                    /\ k.op # "delete"
                    /\ ~(k.at = "check" /\ c.at \in Making)
    /\ k.op = "join" => k.at \in {"check", "member"} /\ k.user \notin M
    /\ k.op = "leave" => k.at = "member" /\ k.user \in M
    /\ k.op = "delete" => k.at = "snapshot"
    /\ k.at # "check" => there

LEMMA BeginKeeps ==
  ASSUME NEW C, NEW M \in SUBSET Users, NEW L \in SUBSET Users, NEW n \in Int,
         NEW there \in BOOLEAN, NEW X,
         Good(C, M, L, n, there, X),
         NEW k, New(C, M, k, there)
  PROVE  Good(C \cup {k}, M, L, n, there, X)
<1> USE DEF New
<1> DEFINE D == C \cup {k}
<1>1. Typed(D) /\ Kinds(D) /\ Orphaned(D, X)
  BY DEF Good, Typed, Kinds, Orphaned
<1>2. One(D)
  BY DEF Good, Typed, Kinds, One, Making, Deleting
<1>3. Placed(D, M, L, there, X)
  BY DEF Good, Placed, Making, Kinds, Deleting
<1>4. \A c \in C : c.op # "delete" /\ c.user # k.user
  OBVIOUS
<1>5. k.op # "delete" /\ k.user \notin X => (k.user \in M <=> k.user \in L)
  BY DEF Good, Others, Typed
<1>6. k.op = "delete" => \A u \in Users \ X : u \in M <=> u \in L
  BY DEF Good, Others
<1>7. Joins(D, M, L, X) /\ Leaves(D, M, L, X)
  BY <1>5 DEF Good, Joins, Leaves
<1>8. Deletes(D, M, L, X)
  BY <1>6 DEF Good, Deletes
<1>9. Others(D, M, L, X)
  BY <1>4 DEF Good, Others
<1>10. Tally(D, M, n, X)
  <2>1. Counted(D, M) = Counted(C, M)
    BY DEF Counted, Typed
  <2> QED
    BY <1>4, <2>1 DEF Good, Tally
<1> QED
  BY <1>1, <1>2, <1>3, <1>7, <1>8, <1>9, <1>10 DEF Good

\* The step of a join that looks whether the group is there.
LEMMA CheckKeeps ==
  ASSUME NEW C, NEW M \in SUBSET Users, NEW L \in SUBSET Users, NEW n \in Int,
         NEW there \in BOOLEAN, NEW X,
         Good(C, M, L, n, there, X),
         NEW c \in C, c.at = "check",
         NEW d, Same(c, d), d.at = IF there THEN "member" ELSE "make"
  PROVE  Good((C \ {c}) \cup {d}, M, L, n, there, X)
<1> DEFINE D == (C \ {c}) \cup {d}
<1> USE DEF Same
<1>1. Typed(D) /\ Kinds(D) /\ Orphaned(D, X)
  BY DEF Good, Typed, Kinds, Orphaned, Making, Deleting
<1>2. One(D)
  BY DEF Good, One, Making
<1>3. Placed(D, M, L, there, X)
  BY DEF Good, Placed, Making
<1>4. /\ c.op = "join" /\ d.op = "join" /\ d.user \notin M
      /\ d.user \notin X => d.user \notin L
  BY DEF Good, Joins, Kinds, Making
<1>5. Joins(D, M, L, X) /\ Leaves(D, M, L, X) /\ Deletes(D, M, L, X)
  BY <1>4 DEF Good, Joins, Leaves, Deletes
<1>6. Others(D, M, L, X)
  BY DEF Good, Others
<1>7. Tally(D, M, n, X)
  <2>1. Counted(D, M) = Counted(C, M)
    BY <1>4 DEF Counted
  <2> QED
    BY <1>4, <2>1 DEF Good, Tally
<1> QED
  BY <1>1, <1>2, <1>3, <1>5, <1>6, <1>7 DEF Good

\* Until its group has a document a call is the only one.
LEMMA MakeAlone ==
  ASSUME NEW C, NEW M \in SUBSET Users, NEW L \in SUBSET Users, NEW n \in Int,
         NEW there \in BOOLEAN, NEW X,
         Good(C, M, L, n, there, X),
         NEW c \in C, c.at = "make"
  PROVE  C = {c} /\ c.op = "join" /\ M = {} /\ L \subseteq X
<1>1. ~there /\ M = {} /\ L \subseteq X /\ c.op = "join"
  BY DEF Good, Placed, Kinds, Making
<1> QED
  BY <1>1 DEF Good, Placed, One, Making

LEMMA MakeKeeps ==
  ASSUME NEW L, NEW X, L \subseteq X,
         NEW d, d.user \in Users, d.op = "join", d.at = "member", ~d.alone,
         NEW now \in BOOLEAN, now
  PROVE  Good({d}, {}, L, 0, now, X)
<1>1. /\ Typed({d}) /\ Kinds({d}) /\ One({d}) /\ Orphaned({d}, X)
      /\ Placed({d}, {}, L, now, X)
  BY DEF Typed, Kinds, One, Orphaned, Placed, Making, Deleting
<1>2. /\ Joins({d}, {}, L, X) /\ Leaves({d}, {}, L, X)
      /\ Deletes({d}, {}, L, X) /\ Others({d}, {}, L, X)
  BY DEF Joins, Leaves, Deletes, Others
<1>3. Counted({d}, {}) = {}
  BY DEF Counted
<1>4. Tally({d}, {}, 0, X)
  BY <1>3, FS_EmptySet DEF Tally
<1> QED
  BY <1>1, <1>2, <1>4 DEF Good

LEMMA MemberKeeps ==
  ASSUME NEW C, NEW M \in SUBSET Users, NEW L \in SUBSET Users, NEW n \in Int,
         NEW there \in BOOLEAN, NEW X,
         Good(C, M, L, n, there, X),
         NEW c \in C, c.at = "member",
         NEW d, Same(c, d), d.at = "list"
  PROVE  Good((C \ {c}) \cup {d}, Changed(M, c, c.user), L, n, there, X)
<1> DEFINE D == (C \ {c}) \cup {d}
           N == Changed(M, c, c.user)
<1> USE DEF Same
<1>1. Typed(D) /\ Kinds(D) /\ Orphaned(D, X)
  BY DEF Good, Typed, Kinds, Orphaned, Making, Deleting
<1>2. One(D)
  BY DEF Good, One, Making
<1>3. Placed(D, N, L, there, X)
  BY DEF Good, Placed, Making
<1>4. /\ c.op \in {"join", "leave"}
      /\ \A b \in C : b.op # "delete" /\ (b # c => b.user # c.user)
  BY DEF Good, Kinds, One, Deleting, Typed
<1>5. \A u \in Users : u # c.user => (u \in M <=> u \in N)
  BY DEF Changed
<1>6. c.user \in N <=> c.op = "join"
  BY <1>4 DEF Changed
<1>7. \A b \in C : b.user \in Users
  BY DEF Good, Typed
<1>8. Joins(D, N, L, X) /\ Leaves(D, N, L, X)
  BY <1>4, <1>5, <1>6, <1>7 DEF Good, Joins, Leaves
<1>9. Deletes(D, N, L, X)
  BY <1>4 DEF Deletes
<1>10. Others(D, N, L, X)
  BY <1>4, <1>5 DEF Good, Others
<1>11. Tally(D, N, n, X)
  <2>1. Counted(D, N) = Counted(C, M)
    BY <1>4, <1>5, <1>6, <1>7 DEF Counted
  <2> QED
    BY <1>4, <2>1 DEF Good, Tally
<1> QED
  BY <1>1, <1>2, <1>3, <1>8, <1>9, <1>10, <1>11 DEF Good

LEMMA ListKeeps ==
  ASSUME NEW C, NEW M \in SUBSET Users, NEW L \in SUBSET Users, NEW n \in Int,
         NEW there \in BOOLEAN, NEW X,
         Good(C, M, L, n, there, X),
         NEW c \in C, c.at = "list",
         NEW d, Same(c, d), d.at = "count"
  PROVE  Good((C \ {c}) \cup {d}, M, Changed(L, c, c.user), n, there, X)
<1> DEFINE D == (C \ {c}) \cup {d}
           N == Changed(L, c, c.user)
<1> USE DEF Same
<1>1. Typed(D) /\ Kinds(D) /\ Orphaned(D, X)
  BY DEF Good, Typed, Kinds, Orphaned, Making, Deleting
<1>2. One(D)
  BY DEF Good, One, Making
<1>3. Placed(D, M, N, there, X)
  BY DEF Good, Placed, Making
<1>4. /\ c.op \in {"join", "leave"}
      /\ \A b \in C : b.op # "delete" /\ (b # c => b.user # c.user)
  BY DEF Good, Kinds, One, Deleting, Typed
<1>5. \A u \in Users : u # c.user => (u \in L <=> u \in N)
  BY DEF Changed
<1>6. c.user \in N <=> c.op = "join"
  BY <1>4 DEF Changed
<1>7. \A b \in C : b.user \in Users
  BY DEF Good, Typed
<1>8. Joins(D, M, N, X) /\ Leaves(D, M, N, X)
  BY <1>4, <1>5, <1>6, <1>7 DEF Good, Joins, Leaves
<1>9. Deletes(D, M, N, X)
  BY <1>4 DEF Deletes
<1>10. Others(D, M, N, X)
  BY <1>4, <1>5 DEF Good, Others
<1>11. Tally(D, M, n, X)
  <2>1. Counted(D, M) = Counted(C, M)
    BY <1>4 DEF Counted
  <2> QED
    BY <1>4, <2>1 DEF Good, Tally
<1> QED
  BY <1>1, <1>2, <1>3, <1>8, <1>9, <1>10, <1>11 DEF Good

LEMMA OneMore ==
  ASSUME NEW S, IsFiniteSet(S), NEW x, x \notin S, NEW S2, S2 = S \cup {x},
         NEW n, n = Cardinality(S)
  PROVE  Cardinality(S2) = n + 1
  BY FS_AddElement

LEMMA OneLess ==
  ASSUME NEW S, IsFiniteSet(S), NEW x, x \in S, NEW S2, S2 = S \ {x},
         NEW n, n = Cardinality(S)
  PROVE  Cardinality(S2) = n - 1
  BY FS_RemoveElement

LEMMA CountKeeps ==
  ASSUME NEW C, NEW M \in SUBSET Users, NEW L \in SUBSET Users, NEW n \in Int,
         NEW there \in BOOLEAN, NEW X,
         Good(C, M, L, n, there, X),
         NEW c \in C, c.at = "count",
         NEW d, Same(c, d), d.at = "local",
         NEW N, N = IF c.op = "join" THEN n + 1 ELSE n - 1
  PROVE  Good((C \ {c}) \cup {d}, M, L, N, there, X)
<1> DEFINE D == (C \ {c}) \cup {d}
<1> USE DEF Same
<1>1. Typed(D) /\ Kinds(D) /\ Orphaned(D, X)
  BY DEF Good, Typed, Kinds, Orphaned, Making, Deleting
<1>2. One(D)
  BY DEF Good, One, Making
<1>3. Placed(D, M, L, there, X)
  BY DEF Good, Placed, Making
<1>4. /\ c.op \in {"join", "leave"}
      /\ \A b \in C : b.op # "delete" /\ (b # c => b.user # c.user)
  BY DEF Good, Kinds, One, Deleting, Typed
<1>5. Joins(D, M, L, X) /\ Leaves(D, M, L, X) /\ Deletes(D, M, L, X)
  BY <1>4 DEF Good, Joins, Leaves, Deletes
<1>6. Others(D, M, L, X)
  BY <1>4 DEF Good, Others
<1>7. Tally(D, M, N, X)
  <2> SUFFICES ASSUME X = {} PROVE N = Cardinality(Counted(D, M))
    BY DEF Tally
  <2>1. c.user \in Users
    BY DEF Good, Typed
  <2>2. n = Cardinality(Counted(C, M))
    BY <1>4 DEF Good, Tally
  <2>3. IsFiniteSet(Counted(C, M))
    BY BoundsAssumption, FS_Subset DEF BoundsAssumption, Counted
  <2>4. CASE c.op = "join"
    <3>1. c.user \notin Counted(C, M)
      BY <1>4, <2>4 DEF Counted
    <3>2. c.user \in M
      BY <2>4 DEF Good, Joins
    <3>3. Counted(D, M) = Counted(C, M) \cup {c.user}
      BY <1>4, <2>1, <2>4, <3>2 DEF Counted
    <3>4. Cardinality(Counted(D, M)) = n + 1
      BY <2>2, <2>3, <3>1, <3>3, OneMore
    <3> QED
      BY <2>4, <3>4
  <2>5. CASE c.op = "leave"
    <3>1. c.user \in Counted(C, M)
      BY <2>1, <2>5 DEF Counted
    <3>2. c.user \notin M
      BY <2>5 DEF Good, Leaves
    <3>3. Counted(D, M) = Counted(C, M) \ {c.user}
      BY <1>4, <2>5, <3>2 DEF Counted
    <3>4. Cardinality(Counted(D, M)) = n - 1
      BY <2>2, <2>3, <3>1, <3>3, OneLess
    <3> QED
      BY <2>5, <3>4
  <2> QED
    BY <1>4, <2>4, <2>5
<1> QED
  BY <1>1, <1>2, <1>3, <1>5, <1>6, <1>7 DEF Good

\* A join or leave that ends before its first write or after its last.
LEMMA WholeKeeps ==
  ASSUME NEW C, NEW M \in SUBSET Users, NEW L \in SUBSET Users, NEW n \in Int,
         NEW there \in BOOLEAN, NEW X,
         Good(C, M, L, n, there, X),
         NEW c \in C, c.at \in {"check", "make", "member", "local"}
  PROVE  Good(C \ {c}, M, L, n, there, X)
<1> DEFINE D == C \ {c}
<1>1. /\ Typed(D) /\ Kinds(D) /\ One(D) /\ Placed(D, M, L, there, X)
      /\ Orphaned(D, X)
  BY DEF Good, Typed, Kinds, One, Placed, Orphaned
<1>2. /\ c.op \in {"join", "leave"}
      /\ \A b \in C : b.op # "delete" /\ (b # c => b.user # c.user)
  BY DEF Good, Kinds, One, Deleting, Typed
<1>3. Joins(D, M, L, X) /\ Leaves(D, M, L, X) /\ Deletes(D, M, L, X)
  BY DEF Good, Joins, Leaves, Deletes
<1>4. /\ c.user \notin X => (c.user \in M <=> c.user \in L)
      /\ c.op = "join" => (c.user \in M <=> c.at = "local")
      /\ c.op = "leave" => (c.user \in M <=> c.at = "member")
      /\ c.op = "leave" => c.at \in {"member", "local"}
  BY <1>2 DEF Good, Joins, Leaves, Kinds, Making
<1>5. Others(D, M, L, X)
  BY <1>2, <1>4 DEF Good, Others
<1>6. Tally(D, M, n, X)
  <2>1. Counted(D, M) = Counted(C, M)
    BY <1>2, <1>4 DEF Counted
  <2> QED
    BY <1>2, <2>1 DEF Good, Tally
<1> QED
  BY <1>1, <1>3, <1>5, <1>6 DEF Good

\* A deletion is alone, whatever it removes.
LEMMA DeleteAlone ==
  ASSUME NEW C, NEW M, NEW L, NEW n, NEW there \in BOOLEAN, NEW X,
         Good(C, M, L, n, there, X),
         NEW c \in C, c.at \in Deleting
  PROVE  C = {c} /\ c.op = "delete" /\ c.user \in Users /\ there
<1>1. c.op = "delete" /\ c.user \in Users
  BY DEF Good, Kinds, Typed
<1>2. C = {c}
  BY <1>1 DEF Good, One
<1> QED
  BY <1>1, <1>2 DEF Good, Placed, Deleting, Making

\* A deletion goes on to the next member or to the document.
LEMMA DeleteKeeps ==
  ASSUME NEW C, NEW M \in SUBSET Users, NEW L \in SUBSET Users, NEW n \in Int,
         NEW there \in BOOLEAN, NEW X,
         Good(C, M, L, n, there, X),
         NEW c \in C, c.at \in Deleting,
         NEW d, Same(c, d), d.at \in Deleting, d.at # "snapshot",
         NEW M2 \in SUBSET Users, NEW L2 \in SUBSET Users,
         Deletes({d}, M2, L2, X)
  PROVE  Good((C \ {c}) \cup {d}, M2, L2, n, there, X)
<1>1. C = {c} /\ c.op = "delete" /\ c.user \in Users /\ there
  BY DeleteAlone
<1>2. (C \ {c}) \cup {d} = {d}
  BY <1>1
<1>3. /\ Typed({d}) /\ Kinds({d}) /\ One({d})
      /\ Placed({d}, M2, L2, there, X) /\ Orphaned({d}, X)
  BY <1>1 DEF Typed, Kinds, One, Placed, Orphaned, Same, Deleting, Making
<1>4. /\ Joins({d}, M2, L2, X) /\ Leaves({d}, M2, L2, X)
      /\ Others({d}, M2, L2, X) /\ Tally({d}, M2, n, X)
  BY <1>1 DEF Joins, Leaves, Others, Tally, Same
<1> QED
  BY <1>2, <1>3, <1>4 DEF Good

\* When the document goes only what was left half done is left.
LEMMA DocumentLast ==
  ASSUME NEW C, NEW M \in SUBSET Users, NEW L \in SUBSET Users, NEW n,
         NEW there \in BOOLEAN, NEW X,
         Good(C, M, L, n, there, X),
         NEW c \in C, c.at = "document"
  PROVE  C = {c} /\ M = {} /\ L \subseteq X
<1>1. C = {c} /\ c.op = "delete"
  BY DeleteAlone DEF Deleting
<1> QED
  BY <1>1 DEF Good, Deletes

LEMMA EmptyGood ==
  ASSUME NEW L, NEW X, L \subseteq X, NEW there \in BOOLEAN
  PROVE  Good({}, {}, L, 0, there, X)
<1>1. /\ Typed({}) /\ Kinds({}) /\ One({}) /\ Placed({}, {}, L, there, X)
      /\ Joins({}, {}, L, X) /\ Leaves({}, {}, L, X) /\ Deletes({}, {}, L, X)
      /\ Others({}, {}, L, X) /\ Orphaned({}, X)
  BY DEF Typed, Kinds, One, Placed, Orphaned, Joins, Leaves, Deletes, Others
<1>2. Counted({}, {}) = {}
  BY DEF Counted
<1> QED
  BY <1>1, <1>2, FS_EmptySet DEF Good, Tally

-----------------------------------------------------------------------------
(* Each end of a call on the way keeps Good, with its users taken out.      *)

LEMMA MoreCut ==
  ASSUME NEW C, NEW M, NEW L, NEW n, NEW there \in BOOLEAN,
         NEW X, NEW Y, X \subseteq Y,
         Good(C, M, L, n, there, X)
  PROVE  Good(C, M, L, n, there, Y)
<1>1. Placed(C, M, L, there, Y) /\ Orphaned(C, Y)
  BY DEF Good, Placed, Orphaned
<1>2. /\ Joins(C, M, L, Y) /\ Leaves(C, M, L, Y) /\ Deletes(C, M, L, Y)
      /\ Others(C, M, L, Y)
  BY DEF Good, Joins, Leaves, Deletes, Others
<1>3. Tally(C, M, n, Y)
  BY DEF Good, Tally
<1> QED
  BY <1>1, <1>2, <1>3 DEF Good

\* A join or leave that ends anywhere, a last write of its own having landed
\* or not.
LEMMA HalfKeeps ==
  ASSUME NEW C, NEW M \in SUBSET Users, NEW L \in SUBSET Users, NEW n,
         NEW there \in BOOLEAN, NEW X,
         Good(C, M, L, n, there, X),
         NEW c \in C, c.op # "delete", c.at # "make", c.user \in X,
         NEW M2 \in SUBSET Users, NEW L2 \in SUBSET Users, NEW m,
         c.at = "check" => M2 = M /\ L2 = L,
         \A u \in Users \ {c.user} : /\ u \in M2 <=> u \in M
                                     /\ u \in L2 <=> u \in L
  PROVE  Good(C \ {c}, M2, L2, m, there, X)
<1> DEFINE D == C \ {c}
<1>1. Typed(D) /\ Kinds(D) /\ One(D) /\ Orphaned(D, X)
  BY DEF Good, Typed, Kinds, One, Orphaned
<1>2. Placed(D, M2, L2, there, X)
  BY DEF Good, Placed, Making
<1>3. \A b \in D : b.user \in Users /\ b.user # c.user /\ b.op # "delete"
  BY DEF Good, One, Typed
<1>4. Joins(D, M2, L2, X) /\ Leaves(D, M2, L2, X)
  BY <1>3 DEF Good, Joins, Leaves
<1>5. Deletes(D, M2, L2, X)
  BY <1>3 DEF Deletes
<1>6. Others(D, M2, L2, X)
  BY <1>3 DEF Good, Others
<1>7. Tally(D, M2, m, X)
  BY DEF Tally
<1> QED
  BY <1>1, <1>2, <1>4, <1>5, <1>6, <1>7 DEF Good

\* A deletion that ends with the entries of all others alike.
LEMMA HalfDeleted ==
  ASSUME NEW C, NEW M, NEW L, NEW n, NEW there \in BOOLEAN, NEW X,
         Good(C, M, L, n, there, X),
         NEW c \in C, c.at \in Deleting, c.user \in X,
         NEW M2 \in SUBSET Users, NEW L2 \in SUBSET Users, NEW m,
         \A u \in Users \ X : u \in M2 <=> u \in L2
  PROVE  Good(C \ {c}, M2, L2, m, there, X)
<1>1. C \ {c} = {} /\ there
  BY DeleteAlone
<1>2. /\ Typed({}) /\ Kinds({}) /\ One({}) /\ Placed({}, M2, L2, there, X)
      /\ Joins({}, M2, L2, X) /\ Leaves({}, M2, L2, X)
      /\ Deletes({}, M2, L2, X) /\ Others({}, M2, L2, X) /\ Orphaned({}, X)
  BY <1>1 DEF Typed, Kinds, One, Placed, Orphaned, Joins, Leaves, Deletes,
              Others
<1>3. Tally({}, M2, m, X)
  BY DEF Tally
<1> QED
  BY <1>1, <1>2, <1>3 DEF Good

\* A deletion that ends before it has the members.
LEMMA NotDeleted ==
  ASSUME NEW C, NEW M \in SUBSET Users, NEW L \in SUBSET Users, NEW n,
         NEW there \in BOOLEAN, NEW X,
         Good(C, M, L, n, there, X),
         NEW c \in C, c.at = "snapshot"
  PROVE  Good(C \ {c}, M, L, n, there, X)
<1>1. C \ {c} = {} /\ there /\ C = {c} /\ c.op = "delete"
  BY DeleteAlone DEF Deleting
<1>2. \A u \in Users \ X : u \in M <=> u \in L
  BY <1>1 DEF Good, Deletes
<1>3. /\ Typed({}) /\ Kinds({}) /\ One({}) /\ Placed({}, M, L, there, X)
      /\ Joins({}, M, L, X) /\ Leaves({}, M, L, X)
      /\ Deletes({}, M, L, X) /\ Others({}, M, L, X) /\ Orphaned({}, X)
  BY <1>1, <1>2 DEF Typed, Kinds, One, Placed, Orphaned, Joins, Leaves,
                    Deletes, Others
<1>4. Tally({}, M, n, X)
  <2>1. Counted({}, M) = Counted(C, M)
    BY <1>1 DEF Counted
  <2> QED
    BY <1>1, <2>1 DEF Good, Tally
<1> QED
  BY <1>1, <1>3, <1>4 DEF Good

\* The users whose entries a call leaves half done where it ends.
Half(c, writing) ==
    {v \in Users :
        \/ /\ v = c.user
           /\ c.at \in {"list", "count", "local", "unlist", "unmember",
                        "document"} \cup writing
        \/ /\ v \in c.rest
           /\ v = First(c.rest)
           /\ c.at \in {"unmember"} \cup writing}

\* The call ends where it is.
LEMMA EndKeeps ==
  ASSUME NEW C, NEW M \in SUBSET Users, NEW L \in SUBSET Users, NEW n \in Int,
         NEW there \in BOOLEAN, NEW X,
         Good(C, M, L, n, there, X),
         NEW c \in C, NEW Y, X \cup Half(c, {}) \subseteq Y
  PROVE  Good(C \ {c}, M, L, n, there, Y)
<1>1. Good(C, M, L, n, there, Y)
  BY MoreCut
<1>2. /\ c.user \in Users
      /\ c.at \in {"check", "make", "member", "list", "count", "local",
                   "snapshot", "unlist", "unmember", "document"}
      /\ c.op = "delete" <=> c.at \in Deleting
  BY DEF Good, Typed, Kinds
<1>3. CASE c.at \in {"check", "make", "member", "local"}
  BY <1>1, <1>3, WholeKeeps
<1>4. CASE c.at \in {"list", "count"}
  <2>1. c.user \in Y /\ c.op # "delete"
    BY <1>2, <1>4 DEF Half, Deleting
  <2> QED
    BY <1>1, <1>4, <2>1, HalfKeeps
<1>5. CASE c.at = "snapshot"
  BY <1>1, <1>5, NotDeleted
<1>6. CASE c.at \in {"unlist", "unmember", "document"}
  <2>1. c.user \in Y /\ c.at \in Deleting
    BY <1>2, <1>6 DEF Half, Deleting
  <2>2. /\ c.at \in {"unlist", "unmember"} => c.rest = M
        /\ \A u \in Users \ X :
              u \in L <=> u \in M /\ (c.at = "unmember" => u # First(c.rest))
    BY <1>2, <2>1 DEF Good, Deletes
  <2>3. \A u \in Users : c.at = "unmember" /\ u \in M /\ u = First(c.rest)
                           => u \in Y
    BY <2>2 DEF Half
  <2>4. \A u \in Users \ Y : u \in M <=> u \in L
    BY <2>2, <2>3
  <2> QED
    BY <1>1, <2>1, <2>4, HalfDeleted
<1> QED
  BY <1>2, <1>3, <1>4, <1>5, <1>6

\* A call after its screen is closed, and after its process has ended.
Unmounted(c, u) == IF c.user = u THEN [c EXCEPT !.here = FALSE] ELSE c

Orphan(c) == [c EXCEPT !.here = FALSE, !.alone = TRUE]

LEMMA UnmountedFields ==
  ASSUME NEW c \in Call, NEW u
  PROVE  /\ Unmounted(c, u) \in Call
         /\ Unmounted(c, u).user = c.user
         /\ Unmounted(c, u).group = c.group
         /\ Unmounted(c, u).op = c.op
         /\ Unmounted(c, u).at = c.at
         /\ Unmounted(c, u).rest = c.rest
         /\ Unmounted(c, u).alone = c.alone
  BY DEF Unmounted, Call

LEMMA OrphanFields ==
  ASSUME NEW c \in Call
  PROVE  /\ Orphan(c) \in Call
         /\ Orphan(c).user = c.user
         /\ Orphan(c).group = c.group
         /\ Orphan(c).op = c.op
         /\ Orphan(c).at = c.at
         /\ Orphan(c).rest = c.rest
         /\ Orphan(c).alone = TRUE
  BY DEF Orphan, Call

\* Calls that are where others were.
Standing(d, c) == /\ d.user = c.user /\ d.op = c.op
                  /\ d.at = c.at /\ d.rest = c.rest

LEMMA StandKeeps ==
  ASSUME NEW C, NEW M \in SUBSET Users, NEW L \in SUBSET Users, NEW n \in Int,
         NEW there \in BOOLEAN, NEW X, NEW D, Good(C, M, L, n, there, X),
         \A d \in D : \E c \in C : Standing(d, c),
         \A c \in C : \E d \in D : Standing(d, c),
         Orphaned(D, X), One(D)
  PROVE  Good(D, M, L, n, there, X)
<1> USE DEF Standing
<1>1. Typed(D) /\ Kinds(D)
  BY DEF Good, Typed, Kinds
<1>2. Placed(D, M, L, there, X)
  BY DEF Good, Placed
<1>3. Joins(D, M, L, X) /\ Leaves(D, M, L, X) /\ Deletes(D, M, L, X)
  BY DEF Good, Joins, Leaves, Deletes
<1>4. Others(D, M, L, X)
  BY DEF Good, Others
<1>5. Tally(D, M, n, X)
  <2>1. Counted(D, M) = Counted(C, M)
    BY DEF Counted
  <2> QED
    BY <2>1 DEF Good, Tally
<1> QED
  BY <1>1, <1>2, <1>3, <1>4, <1>5 DEF Good

LEMMA UnmountKeeps ==
  ASSUME NEW C \in SUBSET Call, NEW M \in SUBSET Users,
         NEW L \in SUBSET Users, NEW n \in Int, NEW there \in BOOLEAN, NEW X,
         Good(C, M, L, n, there, X),
         NEW u
  PROVE  Good({Unmounted(c, u) : c \in C}, M, L, n, there, X)
<1> DEFINE D == {Unmounted(c, u) : c \in C}
<1>1. \A d \in D : \E c \in C : /\ d = Unmounted(c, u) /\ Standing(d, c)
                                /\ d.alone = c.alone
  BY UnmountedFields DEF Standing
<1>2. \A c \in C : \E d \in D : Standing(d, c)
  BY UnmountedFields DEF Standing
<1> HIDE DEF D
<1>3. Orphaned(D, X)
  BY <1>1 DEF Good, Orphaned, Standing
<1>4. One(D)
  BY <1>1 DEF Good, One, Standing
<1>5. Good(D, M, L, n, there, X)
  BY <1>1, <1>2, <1>3, <1>4, StandKeeps
<1> QED
  BY <1>5 DEF D

\* The write under way of a call whose process has ended.
LEMMA OrphanKeeps ==
  ASSUME NEW C \in SUBSET Call, NEW M \in SUBSET Users,
         NEW L \in SUBSET Users, NEW n \in Int, NEW there \in BOOLEAN, NEW X,
         Good(C, M, L, n, there, X),
         NEW c \in C, Writing(c),
         NEW Y, X \cup Half(c, {"member", "unlist"}) \subseteq Y
  PROVE  Good((C \ {c}) \cup {Orphan(c)}, M, L, n, there, Y)
<1> DEFINE o == Orphan(c)
           D == (C \ {c}) \cup {o}
<1>1. Standing(o, c) /\ o.alone
  BY OrphanFields DEF Standing
<1> HIDE DEF o
<1>2. Good(C, M, L, n, there, Y)
  BY MoreCut
<1>3. c.user \in Users /\ c.rest \subseteq Users
  BY DEF Call
<1>4. \A d \in D : \E b \in C : Standing(d, b)
  BY <1>1 DEF Standing
<1>5. \A b \in C : \E d \in D : Standing(d, b)
  BY <1>1 DEF Standing
<1>6. Orphaned(D, Y)
  <2>1. /\ c.at # "make" => c.user \in Y
        /\ c.at = "unlist" => \A v \in c.rest : v = First(c.rest) => v \in Y
    BY <1>3 DEF Half, Writing
  <2> QED
    BY <1>1, <1>2, <2>1 DEF Good, Orphaned, Standing, Writing
<1>7. One(D)
  BY <1>1, <1>2 DEF Good, One, Standing
<1> HIDE DEF D
<1>8. Good(D, M, L, n, there, Y)
  BY <1>2, <1>4, <1>5, <1>6, <1>7, StandKeeps
<1> QED
  BY <1>8 DEF D, o

-----------------------------------------------------------------------------
(* Types                                                                    *)

Ats == {"check", "make", "member", "list", "count", "local", "snapshot",
        "unlist", "unmember", "document"}

\* The call after a step, and after a step of a deletion.
Moved(c, at) == [c EXCEPT !.at = at]

Left(c, rest) ==
    [c EXCEPT !.rest = rest, !.at = IF rest = {} THEN "document" ELSE "unlist"]

LEMMA MovedFields ==
  ASSUME NEW c \in Call, NEW at \in Ats
  PROVE  /\ Moved(c, at) \in Call
         /\ Moved(c, at).user = c.user
         /\ Moved(c, at).group = c.group
         /\ Moved(c, at).op = c.op
         /\ Moved(c, at).rest = c.rest
         /\ Moved(c, at).at = at
         /\ Moved(c, at).alone = c.alone
  BY DEF Moved, Call, Ats

LEMMA LeftFields ==
  ASSUME NEW c \in Call, NEW rest \in SUBSET Users
  PROVE  /\ Left(c, rest) \in Call
         /\ Left(c, rest).user = c.user
         /\ Left(c, rest).group = c.group
         /\ Left(c, rest).op = c.op
         /\ Left(c, rest).rest = rest
         /\ Left(c, rest).at = IF rest = {} THEN "document" ELSE "unlist"
         /\ Left(c, rest).alone = c.alone
  BY DEF Left, Call

LEMMA GoesType ==
  ASSUME calls \subseteq Call, NEW c \in calls, NEW at \in Ats, Goes(c, at)
  PROVE  calls' \subseteq Call
<1>1. CASE c.alone
  BY <1>1 DEF Goes, Ends
<1>2. CASE ~c.alone
  <2>1. calls' = (calls \ {c}) \cup {Moved(c, at)}
    BY <1>2 DEF Goes, Moved
  <2>2. Moved(c, at) \in Call
    BY MovedFields
  <2> QED
    BY <2>1, <2>2
<1> QED
  BY <1>1, <1>2

LEMMA RemainingType ==
  ASSUME calls \subseteq Call, NEW c \in calls, NEW rest \in SUBSET Users,
         Remaining(c, rest)
  PROVE  calls' \subseteq Call
<1>1. CASE c.alone
  BY <1>1 DEF Remaining, Ends
<1>2. CASE ~c.alone
  <2>1. calls' = (calls \ {c}) \cup {Left(c, rest)}
    BY <1>2 DEF Remaining, Left
  <2>2. Left(c, rest) \in Call
    BY LeftFields
  <2> QED
    BY <2>1, <2>2
<1> QED
  BY <1>1, <1>2

\* The entries that a call leaves half done are of its group.
LEMMA HalvedAt ==
  ASSUME NEW c, NEW w
  PROVE  /\ \A u, g :
              <<u, g>> \in Halved(c, w) <=> g = c.group /\ u \in Half(c, w)
         /\ c \in Call => Halved(c, w) \subseteq Users \X Groups
<1>1. Halved(c, w) = {<<u, c.group>> : u \in Half(c, w)}
  BY DEF Halved, Half
<1>2. Half(c, w) \subseteq Users
  BY DEF Half
<1> QED
  BY <1>1, <1>2 DEF Call

\* The calls that the end of a process leaves.
Survivors(u, kept) == (calls \ CallsOf(u)) \cup {Orphan(c) : c \in kept}

LEMMA ProcessEndsCalls ==
  ASSUME NEW u, ProcessEnds(u)
  PROVE  \E kept \in {{}, {c \in CallsOf(u) : Writing(c)}} :
            calls' = Survivors(u, kept)
  BY DEF ProcessEnds, Survivors, Orphan

\* The screen closes on every call of its user.
LEMMA OpenScreenCalls ==
  ASSUME TypeOK, NEW u \in Users, OpenScreen(u)
  PROVE  calls' = {Unmounted(c, u) : c \in calls}
  BY DEF OpenScreen, CallsOf, Unmounted

LEMMA InitType == Init => TypeOK
<1> SUFFICES ASSUME Init PROVE TypeOK
  OBVIOUS
<1> USE BoundsAssumption DEF BoundsAssumption, Init
<1>1. count \in [Groups -> Int]
  <2>1. \A g \in Groups : Cardinality(MembersOf(g)) \in Int
    <3> SUFFICES ASSUME NEW g \in Groups
                 PROVE  Cardinality(MembersOf(g)) \in Int
      OBVIOUS
    <3>1. IsFiniteSet(MembersOf(g))
      BY FS_Subset DEF MembersOf
    <3> QED
      BY <3>1, FS_CardinalityType
  <2> QED
    BY <2>1
<1>2. members \subseteq Users \X Groups /\ groups \subseteq Groups
  OBVIOUS
<1>3. joined \in [Users -> SUBSET Groups]
  OBVIOUS
<1>4. broadcast \in [Users -> Broadcast]
  BY DEF Broadcast
<1>5. /\ shown \in [Users -> SUBSET Groups]
      /\ loaded \in [Users -> SUBSET Groups]
      /\ active \in [Groups -> BOOLEAN]
      /\ load \in [Users -> {"none", "reading", "read", "done"}]
  OBVIOUS
<1>6. budget \in [calls : 0..MaxCalls, loads : 0..MaxLoads,
                  broadcasts : 0..MaxBroadcasts,
                  failures : 0..MaxFailures]
  OBVIOUS
<1> QED
  BY <1>1, <1>2, <1>3, <1>4, <1>5, <1>6 DEF TypeOK

LEMMA BeginType ==
  ASSUME TypeOK, NEW u \in Users, NEW g \in Groups,
         NEW op \in {"join", "leave", "delete"}, NEW at \in Ats,
         Begin(u, g, op, at)
  PROVE  TypeOK'
<1> USE BoundsAssumption DEF BoundsAssumption
<1>1. calls' \subseteq Call
  <2>1. PICK s \in Slots :
           calls' = calls \cup {[user |-> u, slot |-> s, group |-> g,
                                 op |-> op, at |-> at, here |-> TRUE,
                                 alone |-> FALSE, rest |-> {}]}
    BY DEF Begin
  <2>2. [user |-> u, slot |-> s, group |-> g, op |-> op, at |-> at,
         here |-> TRUE, alone |-> FALSE, rest |-> {}] \in Call
    BY DEF Call, Ats
  <2> QED
    BY <2>1, <2>2 DEF TypeOK
<1>2. budget' \in [calls : 0..MaxCalls, loads : 0..MaxLoads,
                   broadcasts : 0..MaxBroadcasts,
                  failures : 0..MaxFailures]
  BY DEF Begin, TypeOK
<1> QED
  BY <1>1, <1>2
     DEF Begin, TypeOK, groupVars, listVars, loadVars

LEMMA CallType ==
  ASSUME TypeOK, NEW c \in calls,
         \/ CheckGroup(c) \/ MakeGroup(c)
         \/ WriteMember(c) \/ WriteList(c) \/ WriteCount(c) \/ WriteLocal(c)
         \/ TakeSnapshot(c) \/ UnlistMember(c) \/ RemoveMember(c)
         \/ DeleteDocument(c) \/ CallFails(c)
  PROVE  TypeOK'
<1> USE DEF groupVars, listVars, loadVars, historyVars
<1>1. /\ c \in Call /\ calls \subseteq Call
      /\ c.user \in Users /\ c.group \in Groups /\ c.rest \subseteq Users
  BY DEF TypeOK, Call
<1>2. CASE CheckGroup(c)
  <2>1. calls' \subseteq Call
    BY <1>1, <1>2, GoesType DEF CheckGroup, Ats
  <2> QED
    BY <1>2, <2>1 DEF CheckGroup, TypeOK
<1>3. CASE MakeGroup(c)
  <2>1. calls' \subseteq Call
    BY <1>1, <1>3, GoesType DEF MakeGroup, Ats
  <2> QED
    BY <1>1, <1>3, <2>1 DEF MakeGroup, TypeOK
<1>4. CASE WriteMember(c)
  <2>1. calls' \subseteq Call
    BY <1>1, <1>4, GoesType DEF WriteMember, Ats
  <2> QED
    BY <1>1, <1>4, <2>1 DEF WriteMember, Changed, TypeOK
<1>5. CASE WriteList(c)
  <2>1. calls' \subseteq Call
    BY <1>1, <1>5, GoesType DEF WriteList, Ats
  <2> QED
    BY <1>1, <1>5, <2>1 DEF WriteList, Changed, TypeOK
<1>6. CASE WriteCount(c)
  <2>1. calls' \subseteq Call
    BY <1>1, <1>6, GoesType DEF WriteCount, Ends, Ats
  <2> QED
    BY <1>1, <1>6, <2>1 DEF WriteCount, TypeOK
<1>7. CASE WriteLocal(c)
  BY <1>1, <1>7 DEF WriteLocal, Changed, Ends, TypeOK
<1>8. CASE TakeSnapshot(c)
  <2>1. calls' \subseteq Call
    BY <1>1, <1>8, RemainingType DEF TakeSnapshot, MembersOf
  <2> QED
    BY <1>8, <2>1 DEF TakeSnapshot, TypeOK
<1>9. CASE UnlistMember(c)
  <2>1. calls' \subseteq Call
    BY <1>1, <1>9, GoesType DEF UnlistMember, Ats
  <2> QED
    BY <1>9, <2>1 DEF UnlistMember, TypeOK
<1>10. CASE RemoveMember(c)
  <2>1. calls' \subseteq Call
    BY <1>1, <1>10, RemainingType DEF RemoveMember
  <2> QED
    BY <1>10, <2>1 DEF RemoveMember, TypeOK
<1>11. CASE DeleteDocument(c)
  BY <1>1, <1>11 DEF DeleteDocument, Ends, TypeOK
<1>12. CASE CallFails(c)
  <2>1. cut' \subseteq Users \X Groups
    BY <1>1, <1>12, HalvedAt DEF CallFails, TypeOK
  <2>2. budget' \in [calls : 0..MaxCalls, loads : 0..MaxLoads,
                     broadcasts : 0..MaxBroadcasts, failures : 0..MaxFailures]
    BY <1>12, BoundsAssumption DEF CallFails, TypeOK, BoundsAssumption
  <2>3. shown' \in [Users -> SUBSET Groups] /\ calls' \subseteq Call
    BY <1>1, <1>12 DEF CallFails, Ends, TypeOK
  <2> QED
    BY <1>12, <2>1, <2>2, <2>3 DEF CallFails, TypeOK
<1> QED
  BY <1>2, <1>3, <1>4, <1>5, <1>6, <1>7, <1>8, <1>9, <1>10, <1>11, <1>12

LEMMA ScreenType ==
  ASSUME TypeOK, NEW u \in Users,
         \/ OpenScreen(u) \/ LoadReads(u) \/ LoadApplies(u)
         \/ StartBroadcast(u) \/ StoreFetched(u) \/ BroadcastFails(u)
         \/ \E g \in Groups : TellGroup(u, g)
  PROVE  TypeOK'
<1> USE BoundsAssumption
        DEF BoundsAssumption, groupVars, listVars, loadVars, historyVars
<1>1. CASE OpenScreen(u)
  <2>1. calls' \subseteq Call
    BY <1>1, OpenScreenCalls, UnmountedFields DEF TypeOK
  <2>2. budget' \in [calls : 0..MaxCalls, loads : 0..MaxLoads,
                     broadcasts : 0..MaxBroadcasts,
                  failures : 0..MaxFailures]
    BY <1>1 DEF OpenScreen, TypeOK
  <2> QED
    BY <1>1, <2>1, <2>2 DEF OpenScreen, TypeOK
<1>2. CASE LoadReads(u)
  <2>1. PICK list \in {joined[u], {}} :
           /\ loaded' = [loaded EXCEPT ![u] = list]
           /\ stale' = stale \cup {v \in {u} : list # joined[v]}
    BY <1>2 DEF LoadReads
  <2>2. list \subseteq Groups
    BY DEF TypeOK
  <2>3. stale' \subseteq Users
    BY <2>1 DEF TypeOK
  <2> QED
    BY <1>2, <2>1, <2>2, <2>3 DEF LoadReads, TypeOK
<1>3. CASE LoadApplies(u)
  BY <1>3 DEF LoadApplies, TypeOK
<1>4. CASE StartBroadcast(u)
  <2>1. PICK todo \in SUBSET Groups :
           broadcast' = [broadcast EXCEPT ![u] =
              [at |-> IF local[u] = {} THEN "fetched" ELSE "sending",
               todo |-> todo,
               told |-> {},
               owed |-> {g \in groups : /\ g \in joined[u]
                                        /\ \A c \in CallsOf(u) :
                                              c.group # g}]]
    BY <1>4 DEF StartBroadcast, TypeOK
  <2>2. broadcast' \in [Users -> Broadcast]
    BY <2>1 DEF Broadcast, TypeOK
  <2>3. budget' \in [calls : 0..MaxCalls, loads : 0..MaxLoads,
                     broadcasts : 0..MaxBroadcasts,
                  failures : 0..MaxFailures]
    BY <1>4 DEF StartBroadcast, TypeOK
  <2>4. stale' \subseteq Users
    BY <1>4 DEF StartBroadcast, TypeOK
  <2> QED
    BY <1>4, <2>2, <2>3, <2>4 DEF StartBroadcast, TypeOK
<1>5. CASE StoreFetched(u)
  <2>1. broadcast' \in [Users -> Broadcast]
    <3>1. /\ broadcast[u] \in Broadcast
          /\ Sending(broadcast[u].todo) \in {"done", "sending"}
      BY DEF Sending, TypeOK
    <3> QED
      BY <1>5, <3>1 DEF StoreFetched, Broadcast, TypeOK
  <2>2. local' \in [Users -> SUBSET Groups]
    BY <1>5 DEF StoreFetched, Broadcast, TypeOK
  <2> QED
    BY <1>5, <2>1, <2>2 DEF StoreFetched, TypeOK
<1>6. ASSUME NEW g \in Groups, TellGroup(u, g) PROVE TypeOK'
  <2>1. broadcast' \in [Users -> Broadcast]
    <3>1. broadcast[u] \in Broadcast
      BY DEF TypeOK
    <3>2. PICK b \in Broadcast : broadcast' = [broadcast EXCEPT ![u] = b]
      <4>1. CASE g \in groups
        <5>1. [at |-> Sending(broadcast[u].todo \ {g}),
               todo |-> broadcast[u].todo \ {g},
               told |-> broadcast[u].told \cup {g},
               owed |-> broadcast[u].owed] \in Broadcast
          BY <3>1 DEF Broadcast, Sending
        <5> QED
          BY <1>6, <4>1, <5>1 DEF TellGroup
      <4>2. CASE g \notin groups
        <5>1. [broadcast[u] EXCEPT !.at = "stopped"] \in Broadcast
          BY <3>1 DEF Broadcast
        <5> QED
          BY <1>6, <4>2, <5>1 DEF TellGroup
      <4> QED
        BY <4>1, <4>2
    <3> QED
      BY <3>2 DEF TypeOK
  <2> QED
    BY <1>6, <2>1 DEF TellGroup, TypeOK
<1>7. CASE BroadcastFails(u)
  <2>1. broadcast' \in [Users -> Broadcast]
    <3>1. broadcast[u] \in Broadcast
      BY DEF TypeOK
    <3>2. [broadcast[u] EXCEPT !.at = "stopped"] \in Broadcast
      BY <3>1 DEF Broadcast
    <3>3. broadcast' = [broadcast EXCEPT
                           ![u] = [broadcast[u] EXCEPT !.at = "stopped"]]
      BY <1>7 DEF BroadcastFails
    <3> QED
      BY <3>2, <3>3 DEF TypeOK
  <2>2. budget' \in [calls : 0..MaxCalls, loads : 0..MaxLoads,
                     broadcasts : 0..MaxBroadcasts, failures : 0..MaxFailures]
    BY <1>7 DEF BroadcastFails, TypeOK
  <2> QED
    BY <1>7, <2>1, <2>2 DEF BroadcastFails, TypeOK
<1> QED
  BY <1>1, <1>2, <1>3, <1>4, <1>5, <1>6, <1>7

LEMMA ProcessType ==
  ASSUME TypeOK, NEW u \in Users, ProcessEnds(u)
  PROVE  TypeOK'
<1> USE BoundsAssumption
        DEF BoundsAssumption, groupVars, listVars, loadVars, historyVars
<1>1. /\ budget' = [budget EXCEPT !.failures = @ - 1] /\ budget.failures > 0
      /\ shown' = [shown EXCEPT ![u] = {}]
      /\ load' = [load EXCEPT ![u] = "none"]
      /\ loaded' = [loaded EXCEPT ![u] = {}]
      /\ broadcast' = [broadcast EXCEPT ![u].at =
                           IF @ \in {"fetched", "sending"} THEN "stopped" ELSE @]
      /\ cut' = cut \cup UNION {Halved(c, {"member", "unlist"}) : c \in CallsOf(u)}
      /\ UNCHANGED <<groups, count, active, creator, members, joined, local,
                     marred, stale>>
  BY Zenon DEF ProcessEnds
<1>2. CallsOf(u) \subseteq Call
  BY DEF CallsOf, TypeOK
<1>3. calls' \subseteq Call
  <2>1. PICK kept \in {{}, {c \in CallsOf(u) : Writing(c)}} :
           calls' = Survivors(u, kept)
    BY ProcessEndsCalls
  <2>2. \A c \in kept : Orphan(c) \in Call
    BY <1>2, <2>1, OrphanFields
  <2> QED
    BY <2>1, <2>2 DEF Survivors, TypeOK
<1>4. cut' \subseteq Users \X Groups
  <2>1. \A c \in CallsOf(u) :
           Halved(c, {"member", "unlist"}) \subseteq Users \X Groups
    BY <1>2, HalvedAt
  <2> QED
    BY <1>1, <2>1 DEF TypeOK
<1>5. broadcast' \in [Users -> Broadcast]
  <2>1. broadcast[u] \in Broadcast
    BY DEF TypeOK
  <2>2. [broadcast[u] EXCEPT !.at =
            IF @ \in {"fetched", "sending"} THEN "stopped" ELSE @] \in Broadcast
    BY <2>1 DEF Broadcast
  <2> QED
    BY <1>1, <2>2 DEF TypeOK
<1>6. budget' \in [calls : 0..MaxCalls, loads : 0..MaxLoads,
                   broadcasts : 0..MaxBroadcasts, failures : 0..MaxFailures]
  BY <1>1 DEF TypeOK
<1> QED
  BY <1>3, <1>4, <1>5, <1>6, <1>1 DEF TypeOK

LEMMA NextType ==
  ASSUME TypeOK, [Next]_vars
  PROVE  TypeOK'
<1>1. ASSUME NEW u \in Users, NEW g \in Groups,
             \/ Join(u, g) \/ Leave(u, g) \/ CreateAndJoin(u, g)
             \/ Delete(u, g)
      PROVE  TypeOK'
  BY <1>1, BeginType DEF Join, Leave, CreateAndJoin, Delete, Ats
<1>2. CASE UNCHANGED vars
  BY <1>2 DEF vars, groupVars, listVars, loadVars, historyVars, TypeOK
<1> QED
  BY <1>1, <1>2, CallType, ScreenType, ProcessType DEF Next

\* Every variable keeps its type: the count too, which never stops being a
\* number, though it may go below zero.
THEOREM CommunityTypeCorrect == Spec => []TypeOK
  BY InitType, NextType, PTL DEF Spec

-----------------------------------------------------------------------------
(* Groups                                                                   *)

CallsAt(g) == {c \in calls : c.group = g}

Listed(g) == {u \in Users : g \in joined[u]}

CutAt(g) == {u \in Users : <<u, g>> \in cut}

GoodAt(g) ==
    Good(CallsAt(g), MembersOf(g), Listed(g), count[g], g \in groups, CutAt(g))

Groupwise == \A g \in Groups \ marred : GoodAt(g)

\* A step keeps what is said of a group it does not touch.
LEMMA Elsewhere ==
  ASSUME NEW g, GoodAt(g),
         CallsAt(g)' = CallsAt(g), MembersOf(g)' = MembersOf(g),
         Listed(g)' = Listed(g), count'[g] = count[g],
         g \in groups' <=> g \in groups, CutAt(g)' = CutAt(g)
  PROVE  GoodAt(g)'
<1>1. (g \in groups') = (g \in groups)
  OBVIOUS
<1> QED
  BY <1>1, Zenon DEF GoodAt

LEMMA GroupTypes ==
  ASSUME TypeOK, NEW g \in Groups
  PROVE  /\ CallsAt(g) \in SUBSET Call
         /\ MembersOf(g) \in SUBSET Users
         /\ Listed(g) \in SUBSET Users
         /\ count[g] \in Int
         /\ (g \in groups) \in BOOLEAN
  BY DEF TypeOK, CallsAt, MembersOf, Listed

\* A call that goes on, or ends, changes the calls of its group only.
LEMMA CallGoes ==
  ASSUME NEW c \in calls, NEW d, d.group = c.group,
         calls' = (calls \ {c}) \cup {d}
  PROVE  /\ CallsAt(c.group)' = (CallsAt(c.group) \ {c}) \cup {d}
         /\ \A g : g # c.group => CallsAt(g)' = CallsAt(g)
  BY DEF CallsAt

LEMMA CallEnds ==
  ASSUME NEW c \in calls, Ends(c)
  PROVE  /\ CallsAt(c.group)' = CallsAt(c.group) \ {c}
         /\ \A g : g # c.group => CallsAt(g)' = CallsAt(g)
  BY DEF CallsAt, Ends

LEMMA InitGroups == Init => Groupwise
<1> SUFFICES ASSUME Init, NEW g \in Groups PROVE GoodAt(g)
  BY DEF Groupwise
<1>1. CallsAt(g) = {}
  BY DEF Init, CallsAt
<1>2. MembersOf(g) = Listed(g)
  BY DEF Init, MembersOf, Listed
<1>3. count[g] = Cardinality(MembersOf(g))
  BY DEF Init
<1>4. g \notin groups => MembersOf(g) = {}
  BY DEF Init, MembersOf
<1>5. Counted({}, MembersOf(g)) = MembersOf(g)
  BY DEF Counted, MembersOf
<1>6. CutAt(g) = {}
  BY DEF Init, CutAt
<1> QED
  BY <1>1, <1>2, <1>3, <1>4, <1>5, <1>6
     DEF GoodAt, Good, Typed, One, Kinds, Placed, Orphaned, Joins, Leaves,
         Deletes, Others, Tally

\* A call that begins marks its group, or clashes with none and may.
LEMMA BeginGroups ==
  ASSUME TypeOK, Groupwise, NEW u \in Users, NEW h \in Groups,
         Join(u, h) \/ Leave(u, h) \/ CreateAndJoin(u, h) \/ Delete(u, h)
  PROVE  Groupwise'
<1>1. PICK op \in {"join", "leave", "delete"}, at \in Ats :
         /\ Begin(u, h, op, at)
         /\ op = "join" => at \in {"check", "member"}
         /\ op = "leave" => at = "member"
         /\ op = "delete" => at = "snapshot"
         /\ at # "check" => h \in groups
  BY DEF Join, Leave, CreateAndJoin, Delete, Ats
<1>2. PICK s \in Slots :
         calls' = calls \cup {[user |-> u, slot |-> s, group |-> h,
                               op |-> op, at |-> at, here |-> TRUE,
                               alone |-> FALSE, rest |-> {}]}
  BY <1>1 DEF Begin
<1> DEFINE k == [user |-> u, slot |-> s, group |-> h, op |-> op, at |-> at,
                 here |-> TRUE, alone |-> FALSE, rest |-> {}]
<1>3. k.user = u /\ k.group = h /\ k.op = op /\ k.at = at /\ ~k.alone
  OBVIOUS
<1>4. calls' = calls \cup {k}
  BY <1>2
<1> HIDE DEF k
<1>5. /\ groups' = groups /\ count' = count /\ members' = members
      /\ joined' = joined /\ cut' = cut
      /\ marred' = marred \cup {g \in {h} : Clash(u, g, op, at)}
  BY <1>1 DEF Begin, groupVars
<1> SUFFICES ASSUME NEW g \in Groups, g \notin marred' PROVE GoodAt(g)'
  BY DEF Groupwise
<1>6. GoodAt(g)
  BY <1>5 DEF Groupwise
<1>7. /\ MembersOf(g)' = MembersOf(g) /\ Listed(g)' = Listed(g)
      /\ CutAt(g)' = CutAt(g)
  BY <1>5 DEF MembersOf, Listed, CutAt
<1>8. CASE g = h
  <2>1. ~Clash(u, g, op, at)
    BY <1>5, <1>8
  <2>2. CallsAt(g)' = CallsAt(g) \cup {k}
    BY <1>3, <1>4, <1>8 DEF CallsAt
  <2>3. \A c \in CallsAt(g) : /\ c.user # k.user
                              /\ c.op # "delete"
                              /\ k.op # "delete"
                              /\ ~(k.at = "check" /\ c.at \in Making)
    BY <1>3, <2>1 DEF Clash, CallsAt, Making
  <2>4. /\ k.op = "join" => k.user \notin MembersOf(g)
        /\ k.op = "leave" => k.user \in MembersOf(g)
    BY <1>3, <2>1 DEF Clash, MembersOf
  <2>5. Typed({k}) /\ Kinds({k})
    BY <1>1, <1>3 DEF Typed, Kinds, Ats, Deleting, Making
  <2>6. Good(CallsAt(g) \cup {k}, MembersOf(g), Listed(g), count[g],
             g \in groups, CutAt(g))
    <3>1. Good(CallsAt(g), MembersOf(g), Listed(g), count[g], g \in groups,
               CutAt(g))
      BY <1>6 DEF GoodAt
    <3>2. k.at # "check" => g \in groups
      BY <1>1, <1>3, <1>8
    <3>3. /\ k.op = "join" => /\ k.at \in {"check", "member"}
                              /\ k.user \notin MembersOf(g)
          /\ k.op = "leave" => k.at = "member" /\ k.user \in MembersOf(g)
          /\ k.op = "delete" => k.at = "snapshot"
      BY <1>1, <1>3, <2>4
    <3> DEFINE there == g \in groups
    <3>4. /\ MembersOf(g) \in SUBSET Users /\ Listed(g) \in SUBSET Users
          /\ count[g] \in Int /\ there \in BOOLEAN
          /\ Good(CallsAt(g), MembersOf(g), Listed(g), count[g], there,
                  CutAt(g))
      BY <3>1, GroupTypes
    <3>6. New(CallsAt(g), MembersOf(g), k, there)
      BY <1>3, <2>3, <2>5, <3>2, <3>3 DEF New
    <3> HIDE DEF there
    <3>5. Good(CallsAt(g) \cup {k}, MembersOf(g), Listed(g), count[g], there,
               CutAt(g))
      BY <3>4, <3>6, BeginKeeps
    <3> QED
      BY <3>5 DEF there
  <2> QED
    BY <1>5, <1>7, <2>2, <2>6, Zenon DEF GoodAt
<1>9. CASE g # h
  <2>1. CallsAt(g)' = CallsAt(g)
    BY <1>3, <1>4, <1>9 DEF CallsAt
  <2> QED
    BY <1>5, <1>6, <1>7, <2>1, Elsewhere
<1> QED
  BY <1>8, <1>9

LEMMA StepGroups ==
  ASSUME Groupwise, marred' = marred, NEW h,
         \A g \in Groups \ {h} : /\ CallsAt(g)' = CallsAt(g)
                                 /\ MembersOf(g)' = MembersOf(g)
                                 /\ Listed(g)' = Listed(g)
                                 /\ count'[g] = count[g]
                                 /\ g \in groups' <=> g \in groups
                                 /\ CutAt(g)' = CutAt(g),
         GoodAt(h) => GoodAt(h)'
  PROVE  Groupwise'
<1> SUFFICES ASSUME NEW g \in Groups, g \notin marred PROVE GoodAt(g)'
  BY DEF Groupwise
<1>1. GoodAt(g)
  BY DEF Groupwise
<1>2. CASE g = h
  BY <1>1, <1>2
<1>3. CASE g # h
  BY <1>1, <1>3, Elsewhere
<1> QED
  BY <1>2, <1>3

\* The steps of joins and leaves.
LEMMA WriteGroups ==
  ASSUME TypeOK, Groupwise, NEW c \in calls, ~c.alone,
         \/ CheckGroup(c) \/ MakeGroup(c)
         \/ WriteMember(c) \/ WriteList(c) \/ WriteCount(c) \/ WriteLocal(c)
  PROVE  Groupwise'
<1> DEFINE h == c.group
           C == CallsAt(h)
           M == MembersOf(h)
           L == Listed(h)
           n == count[h]
           there == h \in groups
           X == CutAt(h)
<1>1. c \in Call /\ c \in C /\ h \in Groups /\ c.user \in Users
  BY DEF TypeOK, Call, CallsAt
<1>2. /\ M \in SUBSET Users /\ L \in SUBSET Users /\ n \in Int
      /\ there \in BOOLEAN
  BY <1>1, GroupTypes
<1>3. GoodAt(h) <=> Good(C, M, L, n, there, X)
  BY Zenon DEF GoodAt
<1>4. GoodAt(h)' <=> Good(C', M', L', n', there', X')
  BY Zenon DEF GoodAt
<1>5. marred' = marred /\ X' = X /\ \A g : CutAt(g)' = CutAt(g)
  BY DEF CutAt, CheckGroup, MakeGroup, WriteMember, WriteList, WriteCount,
         WriteLocal, historyVars
<1>6. ASSUME NEW at \in Ats, Goes(c, at)
      PROVE  /\ C' = (C \ {c}) \cup {Moved(c, at)}
             /\ \A g : g # h => CallsAt(g)' = CallsAt(g)
             /\ Same(c, Moved(c, at)) /\ Moved(c, at).at = at
  <2>1. calls' = (calls \ {c}) \cup {Moved(c, at)}
    BY <1>6 DEF Goes, Moved
  <2>2. Moved(c, at).group = c.group
    BY <1>1, <1>6, MovedFields
  <2>3. Same(c, Moved(c, at)) /\ Moved(c, at).at = at
    BY <1>1, <1>6, MovedFields DEF Same
  <2> HIDE DEF Moved
  <2> QED
    BY <2>1, <2>2, <2>3, CallGoes
<1> HIDE DEF C, M, L, n, there, X
<1>7. CASE CheckGroup(c)
  <2> DEFINE at == IF there THEN "member" ELSE "make"
  <2>1. c.at = "check" /\ Goes(c, at) /\ at \in Ats
    BY <1>7 DEF CheckGroup, Ats, there
  <2>2. /\ groups' = groups /\ count' = count /\ members' = members
        /\ joined' = joined
    BY <1>7 DEF CheckGroup, groupVars
  <2>3. M' = M /\ L' = L /\ n' = n /\ there' = there
    BY <2>2 DEF M, L, n, there, MembersOf, Listed
  <2>4. GoodAt(h) => GoodAt(h)'
    <3> SUFFICES ASSUME Good(C, M, L, n, there, X)
                 PROVE  Good(C', M', L', n', there', X')
      BY <1>3, <1>4
    <3>1. /\ C' = (C \ {c}) \cup {Moved(c, at)}
          /\ Same(c, Moved(c, at)) /\ Moved(c, at).at = at
      BY <1>6, <2>1
    <3>2. Good((C \ {c}) \cup {Moved(c, at)}, M, L, n, there, X)
      BY <1>1, <1>2, <2>1, <3>1, CheckKeeps
    <3> QED
      BY <1>5, <2>1, <2>3, <3>1, <3>2
  <2> QED
    BY <1>5, <1>6, <2>1, <2>2, <2>4, StepGroups DEF MembersOf, Listed
<1>8. CASE MakeGroup(c)
  <2>1. c.at = "make" /\ Goes(c, "member") /\ "member" \in Ats
    BY <1>8 DEF MakeGroup, Ats
  <2>2. /\ groups' = groups \cup {h} /\ count' = [count EXCEPT ![h] = 0]
        /\ members' = members /\ joined' = joined
    BY <1>8 DEF MakeGroup
  <2>3. M' = M /\ L' = L /\ n' = 0 /\ there' = TRUE
    BY <1>1, <2>2 DEF M, L, n, there, MembersOf, Listed, TypeOK
  <2>4. GoodAt(h) => GoodAt(h)'
    <3> SUFFICES ASSUME Good(C, M, L, n, there, X)
                 PROVE  Good(C', M', L', n', there', X')
      BY <1>3, <1>4
    <3>1. /\ C' = (C \ {c}) \cup {Moved(c, "member")}
          /\ Same(c, Moved(c, "member")) /\ Moved(c, "member").at = "member"
      BY <1>6, <2>1
    <3>2. C = {c} /\ c.op = "join" /\ M = {} /\ L \subseteq X
      BY <1>1, <1>2, <2>1, MakeAlone
    <3>3. C' = {Moved(c, "member")}
      BY <3>1, <3>2
    <3>4. Good({Moved(c, "member")}, {}, L, 0, there', X)
      BY <1>1, <2>3, <3>1, <3>2, MakeKeeps DEF Same
    <3> QED
      BY <1>5, <2>3, <3>2, <3>3, <3>4
  <2>5. \A g \in Groups \ {h} : count'[g] = count[g]
    BY <2>2 DEF TypeOK
  <2> QED
    BY <1>5, <1>6, <2>1, <2>2, <2>4, <2>5, StepGroups DEF MembersOf, Listed
<1>9. CASE WriteMember(c)
  <2>1. c.at = "member" /\ Goes(c, "list") /\ "list" \in Ats
    BY <1>9 DEF WriteMember, Ats
  <2>2. /\ groups' = groups /\ count' = count /\ joined' = joined
        /\ members' = Changed(members, c, <<c.user, h>>)
    BY <1>9 DEF WriteMember, groupVars
  <2>3. M' = Changed(M, c, c.user) /\ L' = L /\ n' = n /\ there' = there
    BY <1>1, <2>2 DEF M, L, n, there, MembersOf, Listed, Changed
  <2>4. GoodAt(h) => GoodAt(h)'
    <3> SUFFICES ASSUME Good(C, M, L, n, there, X)
                 PROVE  Good(C', M', L', n', there', X')
      BY <1>3, <1>4
    <3>1. /\ C' = (C \ {c}) \cup {Moved(c, "list")}
          /\ Same(c, Moved(c, "list")) /\ Moved(c, "list").at = "list"
      BY <1>6, <2>1
    <3>2. Good((C \ {c}) \cup {Moved(c, "list")}, Changed(M, c, c.user), L, n,
               there, X)
      BY <1>1, <1>2, <2>1, <3>1, MemberKeeps
    <3> QED
      BY <1>5, <2>1, <2>3, <3>1, <3>2
  <2>5. \A g \in Groups \ {h} : MembersOf(g)' = MembersOf(g)
    BY <2>2 DEF MembersOf, Changed
  <2> QED
    BY <1>5, <1>6, <2>1, <2>2, <2>4, <2>5, StepGroups DEF Listed
<1>10. CASE WriteList(c)
  <2>1. c.at = "list" /\ Goes(c, "count") /\ "count" \in Ats
    BY <1>10 DEF WriteList, Ats
  <2>2. /\ groups' = groups /\ count' = count /\ members' = members
        /\ joined' = [joined EXCEPT ![c.user] = Changed(@, c, h)]
    BY <1>10 DEF WriteList, groupVars
  <2>3. L' = Changed(L, c, c.user) /\ M' = M /\ n' = n /\ there' = there
    BY <1>1, <2>2 DEF M, L, n, there, MembersOf, Listed, Changed, TypeOK
  <2>4. GoodAt(h) => GoodAt(h)'
    <3> SUFFICES ASSUME Good(C, M, L, n, there, X)
                 PROVE  Good(C', M', L', n', there', X')
      BY <1>3, <1>4
    <3>1. /\ C' = (C \ {c}) \cup {Moved(c, "count")}
          /\ Same(c, Moved(c, "count")) /\ Moved(c, "count").at = "count"
      BY <1>6, <2>1
    <3>2. Good((C \ {c}) \cup {Moved(c, "count")}, M, Changed(L, c, c.user), n,
               there, X)
      BY <1>1, <1>2, <2>1, <3>1, ListKeeps
    <3> QED
      BY <1>5, <2>1, <2>3, <3>1, <3>2
  <2>5. \A g \in Groups \ {h} : Listed(g)' = Listed(g)
    BY <2>2 DEF Listed, Changed, TypeOK
  <2> QED
    BY <1>5, <1>6, <2>1, <2>2, <2>4, <2>5, StepGroups DEF MembersOf
<1>11. CASE WriteCount(c)
  <2>1. c.at = "count" /\ "local" \in Ats
    BY <1>11 DEF WriteCount, Ats
  <2>2. groups' = groups /\ members' = members /\ joined' = joined
    BY <1>11 DEF WriteCount
  <2>3. M' = M /\ L' = L /\ there' = there
    BY <2>2 DEF M, L, there, MembersOf, Listed
  <2>4. CASE there
    <3>1. /\ Goes(c, "local")
          /\ count' = [count EXCEPT ![h] =
                          IF c.op = "join" THEN @ + 1 ELSE @ - 1]
      BY <1>11, <2>4 DEF WriteCount, there
    <3>2. n' = IF c.op = "join" THEN n + 1 ELSE n - 1
      BY <1>1, <3>1 DEF n, TypeOK
    <3>3. GoodAt(h) => GoodAt(h)'
      <4> SUFFICES ASSUME Good(C, M, L, n, there, X)
                   PROVE  Good(C', M', L', n', there', X')
        BY <1>3, <1>4
      <4>1. /\ C' = (C \ {c}) \cup {Moved(c, "local")}
            /\ Same(c, Moved(c, "local")) /\ Moved(c, "local").at = "local"
        BY <1>6, <2>1, <3>1
      <4>2. Good((C \ {c}) \cup {Moved(c, "local")}, M, L, n', there, X)
        BY <1>1, <1>2, <2>1, <3>2, <4>1, CountKeeps
      <4> QED
        BY <1>5, <2>3, <4>1, <4>2
    <3>4. \A g \in Groups \ {h} : count'[g] = count[g]
      BY <3>1 DEF TypeOK
    <3> QED
      BY <1>5, <1>6, <2>1, <2>2, <3>1, <3>3, <3>4, StepGroups
         DEF MembersOf, Listed
  <2>5. CASE ~there
    <3>1. Ends(c) /\ count' = count
      BY <1>11, <2>5 DEF WriteCount, there
    <3>2. ~GoodAt(h)
      BY <1>1, <1>3, <2>1, <2>5 DEF Good, Placed, Making
    <3>3. \A g : g # h => CallsAt(g)' = CallsAt(g)
      BY <3>1, CallEnds
    <3> QED
      BY <1>5, <2>2, <3>1, <3>2, <3>3, StepGroups DEF MembersOf, Listed
  <2> QED
    BY <2>4, <2>5
<1>12. CASE WriteLocal(c)
  <2>1. c.at = "local" /\ Ends(c)
    BY <1>12 DEF WriteLocal
  <2>2. /\ groups' = groups /\ count' = count /\ members' = members
        /\ joined' = joined
    BY <1>12 DEF WriteLocal, groupVars
  <2>3. M' = M /\ L' = L /\ n' = n /\ there' = there
    BY <2>2 DEF M, L, n, there, MembersOf, Listed
  <2>4. /\ C' = C \ {c}
        /\ \A g : g # h => CallsAt(g)' = CallsAt(g)
    BY <2>1, CallEnds DEF C
  <2>5. GoodAt(h) => GoodAt(h)'
    <3> SUFFICES ASSUME Good(C, M, L, n, there, X)
                 PROVE  Good(C', M', L', n', there', X')
      BY <1>3, <1>4
    <3>1. Good(C \ {c}, M, L, n, there, X)
      BY <1>1, <1>2, <2>1, WholeKeeps
    <3> QED
      BY <1>5, <2>3, <2>4, <3>1
  <2> QED
    BY <1>5, <2>2, <2>4, <2>5, StepGroups DEF MembersOf, Listed
<1> QED
  BY <1>7, <1>8, <1>9, <1>10, <1>11, <1>12

\* The steps of a deletion.
LEMMA DeleteGroups ==
  ASSUME TypeOK, Groupwise, NEW c \in calls,
         \/ /\ ~c.alone
            /\ TakeSnapshot(c) \/ UnlistMember(c) \/ RemoveMember(c)
         \/ DeleteDocument(c)
  PROVE  Groupwise'
<1> DEFINE h == c.group
           C == CallsAt(h)
           M == MembersOf(h)
           L == Listed(h)
           n == count[h]
           there == h \in groups
           X == CutAt(h)
<1>1. /\ c \in Call /\ c \in C /\ h \in Groups /\ c.user \in Users
      /\ c.rest \in SUBSET Users
  BY DEF TypeOK, Call, CallsAt
<1>2. /\ M \in SUBSET Users /\ L \in SUBSET Users /\ n \in Int
      /\ there \in BOOLEAN
  BY <1>1, GroupTypes
<1>3. GoodAt(h) <=> Good(C, M, L, n, there, X)
  BY Zenon DEF GoodAt
<1>4. GoodAt(h)' <=> Good(C', M', L', n', there', X')
  BY Zenon DEF GoodAt
<1>5. marred' = marred /\ X' = X /\ \A g : CutAt(g)' = CutAt(g)
  BY DEF CutAt, TakeSnapshot, UnlistMember, RemoveMember, DeleteDocument,
         historyVars
<1>6. ASSUME NEW d \in Call, d.group = c.group,
             calls' = (calls \ {c}) \cup {d}
      PROVE  /\ C' = (C \ {c}) \cup {d}
             /\ \A g : g # h => CallsAt(g)' = CallsAt(g)
  BY <1>6, CallGoes
<1> HIDE DEF C, M, L, n, there, X
<1>7. CASE ~c.alone /\ TakeSnapshot(c)
  <2> DEFINE d == Left(c, M)
  <2>1. c.at = "snapshot" /\ calls' = (calls \ {c}) \cup {d}
    BY <1>7 DEF TakeSnapshot, Remaining, Left, M
  <2>2. /\ groups' = groups /\ count' = count /\ members' = members
        /\ joined' = joined
    BY <1>7 DEF TakeSnapshot, groupVars
  <2>3. M' = M /\ L' = L /\ n' = n /\ there' = there
    BY <2>2 DEF M, L, n, there, MembersOf, Listed
  <2>4. /\ d \in Call /\ d.group = c.group /\ Same(c, d) /\ d.rest = M
        /\ d.at = IF M = {} THEN "document" ELSE "unlist"
    BY <1>1, <1>2, <1>7, LeftFields DEF Same
  <2> HIDE DEF d
  <2>5. GoodAt(h) => GoodAt(h)'
    <3> SUFFICES ASSUME Good(C, M, L, n, there, X)
                 PROVE  Good(C', M', L', n', there', X')
      BY <1>3, <1>4
    <3>1. c.op = "delete" /\ \A u \in Users \ X : u \in L <=> u \in M
      BY <1>1, <2>1 DEF Good, Kinds, Deletes, Deleting
    <3>2. Deletes({d}, M, L, X)
      BY <2>4, <3>1 DEF Deletes
    <3>3. c.at \in Deleting /\ d.at \in Deleting /\ d.at # "snapshot"
      BY <2>1, <2>4 DEF Deleting
    <3>4. Good((C \ {c}) \cup {d}, M, L, n, there, X)
      BY <1>1, <1>2, <2>4, <3>2, <3>3, DeleteKeeps
    <3> QED
      BY <1>5, <1>6, <2>1, <2>3, <2>4, <3>4
  <2> QED
    BY <1>5, <1>6, <2>1, <2>2, <2>4, <2>5, StepGroups DEF MembersOf, Listed
<1>8. CASE ~c.alone /\ UnlistMember(c)
  <2> DEFINE d == Moved(c, "unmember")
             f == First(c.rest)
  <2>1. c.at = "unlist" /\ calls' = (calls \ {c}) \cup {d}
    BY <1>8 DEF UnlistMember, Goes, Moved
  <2>2. /\ groups' = groups /\ count' = count /\ members' = members
        /\ joined' = [joined EXCEPT ![f] = @ \ {h}]
    BY <1>8 DEF UnlistMember, groupVars
  <2> HIDE DEF f
  <2>3. M' = M /\ L' = L \ {f} /\ n' = n /\ there' = there
    BY <2>2 DEF M, L, n, there, MembersOf, Listed, TypeOK
  <2>4. /\ d \in Call /\ d.group = c.group /\ Same(c, d) /\ d.rest = c.rest
        /\ d.at = "unmember"
    BY <1>1, <1>8, MovedFields DEF Same, Ats
  <2> HIDE DEF d
  <2>5. GoodAt(h) => GoodAt(h)'
    <3> SUFFICES ASSUME Good(C, M, L, n, there, X)
                 PROVE  Good(C', M', L', n', there', X')
      BY <1>3, <1>4
    <3>1. /\ c.op = "delete" /\ c.rest = M
          /\ \A u \in Users \ X : u \in L <=> u \in M
      BY <1>1, <2>1 DEF Good, Kinds, Deletes, Deleting
    <3>2. Deletes({d}, M, L \ {f}, X)
      BY <2>4, <3>1 DEF Deletes, f
    <3>3. /\ c.at \in Deleting /\ d.at \in Deleting /\ d.at # "snapshot"
          /\ L \ {f} \in SUBSET Users
      BY <1>2, <2>1, <2>4 DEF Deleting
    <3>4. Good((C \ {c}) \cup {d}, M, L \ {f}, n, there, X)
      BY <1>1, <1>2, <2>4, <3>2, <3>3, DeleteKeeps
    <3> QED
      BY <1>5, <1>6, <2>1, <2>3, <2>4, <3>4
  <2>6. \A g \in Groups \ {h} : Listed(g)' = Listed(g)
    BY <2>2 DEF Listed, TypeOK
  <2> QED
    BY <1>5, <1>6, <2>1, <2>2, <2>4, <2>5, <2>6, StepGroups DEF MembersOf
<1>9. CASE ~c.alone /\ RemoveMember(c)
  <2> DEFINE f == First(c.rest)
             d == Left(c, c.rest \ {f})
  <2>1. c.at = "unmember" /\ calls' = (calls \ {c}) \cup {d}
    BY <1>9 DEF RemoveMember, Remaining, Left
  <2>2. /\ groups' = groups /\ count' = count /\ joined' = joined
        /\ members' = members \ {<<f, h>>}
    BY <1>9 DEF RemoveMember, groupVars
  <2>3. /\ d \in Call /\ d.group = c.group /\ Same(c, d)
        /\ d.rest = c.rest \ {f}
        /\ d.at = IF d.rest = {} THEN "document" ELSE "unlist"
    BY <1>1, <1>9, LeftFields DEF Same
  <2> HIDE DEF d, f
  <2>4. M' = M \ {f} /\ L' = L /\ n' = n /\ there' = there
    BY <2>2 DEF M, L, n, there, MembersOf, Listed
  <2>5. GoodAt(h) => GoodAt(h)'
    <3> SUFFICES ASSUME Good(C, M, L, n, there, X)
                 PROVE  Good(C', M', L', n', there', X')
      BY <1>3, <1>4
    <3>1. /\ c.op = "delete" /\ c.rest = M
          /\ \A u \in Users \ X : u \in L <=> u \in M /\ u # f
      BY <1>1, <2>1 DEF Good, Kinds, Deletes, Deleting, f
    <3>2. Deletes({d}, M \ {f}, L, X)
      BY <2>3, <3>1 DEF Deletes
    <3>3. /\ c.at \in Deleting /\ d.at \in Deleting /\ d.at # "snapshot"
          /\ M \ {f} \in SUBSET Users
      BY <1>2, <2>1, <2>3 DEF Deleting
    <3>4. Good((C \ {c}) \cup {d}, M \ {f}, L, n, there, X)
      BY <1>1, <1>2, <2>3, <3>2, <3>3, DeleteKeeps
    <3> QED
      BY <1>5, <1>6, <2>1, <2>3, <2>4, <3>4
  <2>6. \A g \in Groups \ {h} : MembersOf(g)' = MembersOf(g)
    BY <2>2 DEF MembersOf
  <2> QED
    BY <1>5, <1>6, <2>1, <2>2, <2>3, <2>5, <2>6, StepGroups DEF Listed
<1>10. CASE DeleteDocument(c)
  <2>1. c.at = "document" /\ Ends(c)
    BY <1>10 DEF DeleteDocument
  <2>2. /\ groups' = groups \ {h} /\ count' = [count EXCEPT ![h] = 0]
        /\ members' = members /\ joined' = joined
    BY <1>10 DEF DeleteDocument
  <2>3. M' = M /\ L' = L /\ n' = 0 /\ there' = FALSE
    BY <1>1, <2>2 DEF M, L, n, there, MembersOf, Listed, TypeOK
  <2>4. /\ C' = C \ {c}
        /\ \A g : g # h => CallsAt(g)' = CallsAt(g)
    BY <2>1, CallEnds DEF C
  <2>5. GoodAt(h) => GoodAt(h)'
    <3> SUFFICES ASSUME Good(C, M, L, n, there, X)
                 PROVE  Good(C', M', L', n', there', X')
      BY <1>3, <1>4
    <3>1. C = {c} /\ M = {} /\ L \subseteq X
      BY <1>1, <1>2, <2>1, DocumentLast
    <3>2. Good({}, {}, L, 0, FALSE, X)
      BY <3>1, EmptyGood
    <3> QED
      BY <1>5, <2>3, <2>4, <3>1, <3>2
  <2>6. \A g \in Groups \ {h} : count'[g] = count[g]
    BY <2>2 DEF TypeOK
  <2> QED
    BY <1>5, <2>2, <2>4, <2>5, <2>6, StepGroups DEF MembersOf, Listed
<1> QED
  BY <1>7, <1>8, <1>9, <1>10

\* The last write of a call whose process has ended.
LEMMA AloneGroups ==
  ASSUME TypeOK, Groupwise, NEW c \in calls, c.alone,
         \/ CheckGroup(c) \/ MakeGroup(c)
         \/ WriteMember(c) \/ WriteList(c) \/ WriteCount(c) \/ WriteLocal(c)
         \/ TakeSnapshot(c) \/ UnlistMember(c) \/ RemoveMember(c)
  PROVE  Groupwise'
<1> DEFINE h == c.group
           C == CallsAt(h)
           M == MembersOf(h)
           L == Listed(h)
           n == count[h]
           there == h \in groups
           X == CutAt(h)
<1>1. c \in Call /\ c \in C /\ h \in Groups /\ c.user \in Users
  BY DEF TypeOK, Call, CallsAt
<1>2. /\ M \in SUBSET Users /\ L \in SUBSET Users /\ n \in Int
      /\ there \in BOOLEAN
  BY <1>1, GroupTypes
<1>3. GoodAt(h) <=> Good(C, M, L, n, there, X)
  BY Zenon DEF GoodAt
<1>4. GoodAt(h)' <=> Good(C', M', L', n', there', X')
  BY Zenon DEF GoodAt
<1>5. marred' = marred /\ X' = X /\ \A g : CutAt(g)' = CutAt(g)
  BY DEF CutAt, CheckGroup, MakeGroup, WriteMember, WriteList, WriteCount,
         WriteLocal, TakeSnapshot, UnlistMember, RemoveMember, historyVars
<1>6. Ends(c)
  BY DEF CheckGroup, MakeGroup, WriteMember, WriteList, WriteCount,
         WriteLocal, TakeSnapshot, UnlistMember, RemoveMember, Goes, Remaining
<1>7. C' = C \ {c} /\ \A g : g # h => CallsAt(g)' = CallsAt(g)
  BY <1>6, CallEnds
<1> HIDE DEF C, M, L, n, there, X
<1>8. ASSUME Good(C, M, L, n, there, X)
      PROVE  /\ c.at \notin {"check", "local", "snapshot"}
             /\ c.at # "make" => c.user \in X
             /\ c.at = "unlist" => \A v \in c.rest : v = First(c.rest) => v \in X
             /\ c.op = "delete" <=> c.at \in Deleting
             /\ c.at \notin Making => there
  BY <1>1, <1>8 DEF Good, Orphaned, Kinds, Placed
<1>9. CASE CheckGroup(c) \/ WriteLocal(c) \/ TakeSnapshot(c)
  <2>1. /\ groups' = groups /\ count' = count /\ members' = members
        /\ joined' = joined
    BY <1>9 DEF CheckGroup, WriteLocal, TakeSnapshot, groupVars
  <2>2. ~GoodAt(h)
    BY <1>3, <1>8, <1>9 DEF CheckGroup, WriteLocal, TakeSnapshot
  <2> QED
    BY <1>5, <1>7, <2>1, <2>2, StepGroups DEF MembersOf, Listed
<1>10. CASE MakeGroup(c)
  <2>1. /\ c.at = "make"
        /\ groups' = groups \cup {h} /\ count' = [count EXCEPT ![h] = 0]
        /\ members' = members /\ joined' = joined
    BY <1>10 DEF MakeGroup
  <2>2. M' = M /\ L' = L /\ n' = 0 /\ there' = TRUE
    BY <1>1, <2>1 DEF M, L, n, there, MembersOf, Listed, TypeOK
  <2>3. GoodAt(h) => GoodAt(h)'
    <3> SUFFICES ASSUME Good(C, M, L, n, there, X)
                 PROVE  Good(C', M', L', n', there', X')
      BY <1>3, <1>4
    <3>1. C = {c} /\ M = {} /\ L \subseteq X
      BY <1>1, <1>2, <2>1, MakeAlone
    <3>2. Good({}, {}, L, 0, TRUE, X)
      BY <3>1, EmptyGood
    <3> QED
      BY <1>5, <1>7, <2>2, <3>1, <3>2
  <2>4. \A g \in Groups \ {h} : count'[g] = count[g]
    BY <2>1 DEF TypeOK
  <2> QED
    BY <1>5, <1>7, <2>1, <2>3, <2>4, StepGroups DEF MembersOf, Listed
<1>11. CASE WriteMember(c) \/ WriteList(c) \/ WriteCount(c)
  <2>1. groups' = groups /\ c.at \in {"member", "list", "count"}
    BY <1>11 DEF WriteMember, WriteList, WriteCount, groupVars
  <2>2. /\ \A g \in Groups \ {h} : /\ MembersOf(g)' = MembersOf(g)
                                   /\ Listed(g)' = Listed(g)
                                   /\ count'[g] = count[g]
        /\ \A u \in Users \ {c.user} : /\ u \in M' <=> u \in M
                                       /\ u \in L' <=> u \in L
    <3>1. CASE WriteMember(c)
      BY <1>1, <3>1 DEF WriteMember, Changed, groupVars, M, L, MembersOf, Listed
    <3>2. CASE WriteList(c)
      <4>1. /\ joined' = [joined EXCEPT ![c.user] = Changed(@, c, h)]
            /\ members' = members /\ count' = count
        BY <3>2 DEF WriteList, groupVars
      <4>2. /\ \A u \in Users \ {c.user} : joined'[u] = joined[u]
            /\ \A g \in Groups \ {h} :
                  g \in joined'[c.user] <=> g \in joined[c.user]
        BY <1>1, <4>1 DEF Changed, TypeOK
      <4> QED
        BY <1>1, <4>1, <4>2 DEF M, L, MembersOf, Listed
    <3>3. CASE WriteCount(c)
      <4>1. members' = members /\ joined' = joined
        BY <3>3 DEF WriteCount
      <4>2. \A g \in Groups \ {h} : count'[g] = count[g]
        BY <3>3 DEF WriteCount, TypeOK
      <4> QED
        BY <4>1, <4>2 DEF M, L, MembersOf, Listed
    <3> QED
      BY <1>11, <3>1, <3>2, <3>3
  <2>3. M' \in SUBSET Users /\ L' \in SUBSET Users /\ there' = there
    BY <2>1 DEF M, L, there, MembersOf, Listed
  <2>4. GoodAt(h) => GoodAt(h)'
    <3> SUFFICES ASSUME Good(C, M, L, n, there, X)
                 PROVE  Good(C', M', L', n', there', X')
      BY <1>3, <1>4
    <3>1. c.op # "delete" /\ c.at \notin {"check", "make"} /\ c.user \in X
      BY <1>8, <2>1 DEF Deleting
    <3>2. Good(C \ {c}, M', L', n', there, X)
      BY <1>1, <1>2, <2>2, <2>3, <3>1, HalfKeeps
    <3> QED
      BY <1>5, <1>7, <2>3, <3>2
  <2> QED
    BY <1>5, <1>7, <2>1, <2>2, <2>4, StepGroups
<1>12. CASE UnlistMember(c) \/ RemoveMember(c)
  <2> DEFINE f == First(c.rest)
  <2>1. groups' = groups /\ count' = count /\ c.at \in {"unlist", "unmember"}
    BY <1>12 DEF UnlistMember, RemoveMember, groupVars
  <2>2. /\ UnlistMember(c) => /\ c.at = "unlist"
                              /\ joined' = [joined EXCEPT ![f] = @ \ {h}]
                              /\ members' = members
        /\ RemoveMember(c) => /\ c.at = "unmember"
                              /\ members' = members \ {<<f, h>>}
                              /\ joined' = joined
    BY DEF UnlistMember, RemoveMember
  <2> HIDE DEF f
  <2>3. /\ \A g \in Groups \ {h} : /\ MembersOf(g)' = MembersOf(g)
                                   /\ Listed(g)' = Listed(g)
        /\ UnlistMember(c) => M' = M /\ L' = L \ {f}
        /\ RemoveMember(c) => M' = M \ {f} /\ L' = L
    BY <1>12, <2>2 DEF M, L, MembersOf, Listed, TypeOK
  <2>4. M' \in SUBSET Users /\ L' \in SUBSET Users /\ there' = there
    BY <2>1 DEF M, L, there, MembersOf, Listed
  <2>5. GoodAt(h) => GoodAt(h)'
    <3> SUFFICES ASSUME Good(C, M, L, n, there, X)
                 PROVE  Good(C', M', L', n', there', X')
      BY <1>3, <1>4
    <3>1. c.op = "delete" /\ c.at \in Deleting /\ c.user \in X
      BY <1>8, <2>1 DEF Deleting
    <3>2. /\ c.rest = M
          /\ \A u \in Users \ X :
                u \in L <=> u \in M /\ (c.at = "unmember" => u # f)
      BY <1>1, <2>1, <3>1 DEF Good, Deletes, f
    <3>3. c.at = "unlist" => \A u \in M : u = f => u \in X
      BY <1>8, <3>2 DEF f
    <3>4. \A u \in Users \ X : u \in M' <=> u \in L'
      BY <1>12, <2>2, <2>3, <3>2, <3>3
    <3>5. Good(C \ {c}, M', L', n', there, X)
      BY <1>1, <1>2, <2>4, <3>1, <3>4, HalfDeleted
    <3> QED
      BY <1>5, <1>7, <2>4, <3>5
  <2> QED
    BY <1>5, <1>7, <2>1, <2>3, <2>5, StepGroups
<1> QED
  BY <1>9, <1>10, <1>11, <1>12

\* A call that fails, with the users it leaves half done.
LEMMA FailGroups ==
  ASSUME TypeOK, Groupwise, NEW c \in calls, CallFails(c)
  PROVE  Groupwise'
<1> DEFINE h == c.group
           C == CallsAt(h)
           M == MembersOf(h)
           L == Listed(h)
           n == count[h]
           there == h \in groups
           X == CutAt(h)
<1>1. c \in Call /\ c \in C /\ h \in Groups
  BY DEF TypeOK, Call, CallsAt
<1>2. /\ M \in SUBSET Users /\ L \in SUBSET Users /\ n \in Int
      /\ there \in BOOLEAN
  BY <1>1, GroupTypes
<1>3. GoodAt(h) <=> Good(C, M, L, n, there, X)
  BY Zenon DEF GoodAt
<1>4. GoodAt(h)' <=> Good(C', M', L', n', there', X')
  BY Zenon DEF GoodAt
<1>5. /\ groups' = groups /\ count' = count /\ members' = members
      /\ joined' = joined /\ marred' = marred /\ Ends(c)
      /\ cut' = cut \cup Halved(c, {})
  BY DEF CallFails, groupVars
<1>6. C' = C \ {c} /\ \A g : g # h => CallsAt(g)' = CallsAt(g)
  BY <1>5, CallEnds
<1>7. M' = M /\ L' = L /\ n' = n /\ there' = there
  BY <1>5 DEF MembersOf, Listed
<1>8. /\ X' = X \cup Half(c, {})
      /\ \A g : g # h => CutAt(g)' = CutAt(g)
  BY <1>5, HalvedAt DEF CutAt, Half
<1> HIDE DEF C, M, L, n, there, X
<1>9. GoodAt(h) => GoodAt(h)'
  <2> SUFFICES ASSUME Good(C, M, L, n, there, X)
               PROVE  Good(C', M', L', n', there', X')
    BY <1>3, <1>4
  <2>1. PICK Y : Y = X \cup Half(c, {})
    OBVIOUS
  <2>2. Good(C \ {c}, M, L, n, there, Y)
    BY <1>1, <1>2, <2>1, EndKeeps
  <2> QED
    BY <1>6, <1>7, <1>8, <2>1, <2>2
<1> QED
  BY <1>5, <1>6, <1>8, <1>9, StepGroups DEF MembersOf, Listed

\* A process that ends with at most one call at each group.
LEMMA ProcessGroups ==
  ASSUME TypeOK, Groupwise, NEW v \in Users, ProcessEnds(v)
  PROVE  Groupwise'
<1>1. PICK kept \in {{}, {c \in CallsOf(v) : Writing(c)}} :
         calls' = Survivors(v, kept)
  BY ProcessEndsCalls
<1>2. /\ groups' = groups /\ count' = count /\ members' = members
      /\ joined' = joined /\ marred' = marred
      /\ cut' = cut \cup
                   UNION {Halved(c, {"member", "unlist"}) : c \in CallsOf(v)}
  BY Zenon DEF ProcessEnds, groupVars
<1> SUFFICES ASSUME NEW g \in Groups, g \notin marred PROVE GoodAt(g)'
  BY <1>2 DEF Groupwise
<1> DEFINE C == CallsAt(g)
           M == MembersOf(g)
           L == Listed(g)
           n == count[g]
           there == g \in groups
           X == CutAt(g)
<1>3. Good(C, M, L, n, there, X)
  BY Zenon DEF Groupwise, GoodAt
<1>4. GoodAt(g)' <=> Good(C', M', L', n', there', X')
  BY Zenon DEF GoodAt
<1>5. /\ C \in SUBSET Call /\ M \in SUBSET Users /\ L \in SUBSET Users
      /\ n \in Int /\ there \in BOOLEAN
  BY GroupTypes
<1>6. M' = M /\ L' = L /\ n' = n /\ there' = there
  BY <1>2 DEF MembersOf, Listed
<1>7. /\ X \subseteq X'
      /\ \A c \in C : c.user = v => Half(c, {"member", "unlist"}) \subseteq X'
  <2>1. X \subseteq X'
    BY <1>2 DEF CutAt
  <2>2. ASSUME NEW c \in C, c.user = v, NEW u \in Half(c, {"member", "unlist"})
        PROVE  u \in X'
    <3>1. c \in CallsOf(v) /\ c.group = g /\ u \in Users
      BY <2>2 DEF CallsOf, CallsAt, Half
    <3>2. <<u, g>> \in Halved(c, {"member", "unlist"})
      BY <2>2, <3>1, HalvedAt
    <3> QED
      BY <1>2, <3>1, <3>2 DEF CutAt
  <2> QED
    BY <2>1, <2>2
<1>8. \A c \in calls : /\ Orphan(c).user = c.user /\ Orphan(c).group = c.group
  BY OrphanFields DEF TypeOK
<1>9. kept \subseteq CallsOf(v) /\ \A c \in kept : Writing(c)
  OBVIOUS
<1>10. C' = {c \in C : c.user # v} \cup {Orphan(c) : c \in C \cap kept}
  BY <1>1, <1>8, <1>9 DEF Survivors, CallsOf, CallsAt
<1> HIDE DEF C, M, L, n, there, X
<1>11. PICK Y : Y = X'
  OBVIOUS
<1>12. CASE \A c \in C : c.user # v
  <2>1. C' = C
    <3>1. C \cap kept = {}
      BY <1>9, <1>12 DEF CallsOf
    <3> QED
      BY <1>10, <1>12, <3>1
  <2>2. Good(C, M, L, n, there, Y)
    BY <1>3, <1>5, <1>7, <1>11, MoreCut
  <2> QED
    BY <1>4, <1>6, <1>11, <2>1, <2>2
<1>13. ASSUME NEW c \in C, c.user = v PROVE GoodAt(g)'
  <2>1. {b \in C : b.user # v} = C \ {c} /\ C \cap kept \subseteq {c}
    <3>1. \A b \in C : b # c => b.user # v
      BY <1>3, <1>13 DEF Good, One
    <3> QED
      BY <1>9, <1>13, <3>1 DEF CallsOf
  <2>2. /\ X \cup Half(c, {"member", "unlist"}) \subseteq Y
        /\ X \cup Half(c, {}) \subseteq Y
    BY <1>7, <1>11, <1>13 DEF Half
  <2>3. CASE c \in kept
    <3>1. C' = (C \ {c}) \cup {Orphan(c)}
      <4>1. C \cap kept = {c}
        BY <1>13, <2>1, <2>3
      <4> QED
        BY <1>10, <2>1, <4>1
    <3>2. Good((C \ {c}) \cup {Orphan(c)}, M, L, n, there, Y)
      BY <1>3, <1>5, <1>9, <1>13, <2>2, <2>3, OrphanKeeps
    <3> QED
      BY <1>4, <1>6, <1>11, <3>1, <3>2
  <2>4. CASE c \notin kept
    <3>1. C' = C \ {c}
      <4>1. C \cap kept = {}
        BY <2>1, <2>4
      <4> QED
        BY <1>10, <2>1, <4>1
    <3>2. Good(C \ {c}, M, L, n, there, Y)
      BY <1>3, <1>5, <1>13, <2>2, EndKeeps
    <3> QED
      BY <1>4, <1>6, <1>11, <3>1, <3>2
  <2> QED
    BY <2>3, <2>4
<1> QED
  BY <1>12, <1>13

LEMMA NextGroups ==
  ASSUME TypeOK, Groupwise, [Next]_vars
  PROVE  Groupwise'
<1>1. ASSUME UNCHANGED <<groups, count, members, joined, calls, marred, cut>>
      PROVE  Groupwise'
  BY <1>1, Elsewhere DEF Groupwise, CallsAt, MembersOf, Listed, CutAt
<1>2. ASSUME NEW u \in Users, OpenScreen(u) PROVE Groupwise'
  <2>1. calls' = {Unmounted(c, u) : c \in calls}
    BY <1>2, OpenScreenCalls
  <2>2. /\ groups' = groups /\ count' = count /\ members' = members
        /\ joined' = joined /\ marred' = marred /\ cut' = cut
    BY <1>2 DEF OpenScreen, groupVars
  <2> SUFFICES ASSUME NEW g \in Groups, g \notin marred PROVE GoodAt(g)'
    BY <2>2 DEF Groupwise
  <2> DEFINE there == g \in groups
  <2>3. \A c \in calls : c \in Call /\ Unmounted(c, u).group = c.group
    BY UnmountedFields DEF TypeOK
  <2>4. CallsAt(g)' = {Unmounted(c, u) : c \in CallsAt(g)}
    BY <2>1, <2>3 DEF CallsAt
  <2>5. Good(CallsAt(g), MembersOf(g), Listed(g), count[g], there, CutAt(g))
    BY Zenon DEF Groupwise, GoodAt
  <2>6. there \in BOOLEAN
    OBVIOUS
  <2> HIDE DEF there
  <2>7. Good({Unmounted(c, u) : c \in CallsAt(g)}, MembersOf(g), Listed(g),
             count[g], there, CutAt(g))
    BY <2>5, <2>6, GroupTypes, UnmountKeeps
  <2>8. /\ MembersOf(g)' = MembersOf(g) /\ Listed(g)' = Listed(g)
        /\ there' = there /\ CutAt(g)' = CutAt(g)
    BY <2>2 DEF MembersOf, Listed, there, CutAt
  <2>9. Good(CallsAt(g)', MembersOf(g)', Listed(g)', count[g]', there',
             CutAt(g)')
    BY <2>2, <2>4, <2>7, <2>8
  <2> QED
    BY <2>9, Zenon DEF GoodAt, there
<1>3. ASSUME NEW u \in Users,
             \/ LoadReads(u) \/ LoadApplies(u)
             \/ StartBroadcast(u) \/ StoreFetched(u) \/ BroadcastFails(u)
             \/ \E g \in Groups : TellGroup(u, g)
      PROVE  Groupwise'
  BY <1>1, <1>3 DEF LoadReads, LoadApplies, StartBroadcast, StoreFetched,
                    BroadcastFails, TellGroup, groupVars, historyVars
<1>4. CASE UNCHANGED vars
  BY <1>1, <1>4 DEF vars, groupVars, historyVars
<1> QED
  BY <1>2, <1>3, <1>4, BeginGroups, WriteGroups, DeleteGroups, AloneGroups,
     FailGroups, ProcessGroups DEF Next

LEMMA GroupsAlways == Spec => [](TypeOK /\ Groupwise)
  BY InitType, InitGroups, NextType, NextGroups, PTL DEF Spec

\* Between calls the three server-side records of a membership agree, on every
\* group on which no calls have clashed and for every user of whose entries no
\* call was left half done, for any number of users, calls and failures.
THEOREM MembershipAlwaysAgrees == Spec => []MembershipAgrees
<1>1. Groupwise => MembershipAgrees
  <2> SUFFICES ASSUME Groupwise, NEW g \in Groups \ marred, AtRest(g)
               PROVE  /\ \A u \in Users : <<u, g>> \notin cut =>
                             (<<u, g>> \in members <=> g \in joined[u])
                      /\ (\A u \in Users : <<u, g>> \notin cut) =>
                             count[g] = Cardinality(MembersOf(g))
                      /\ g \notin groups => MembersOf(g) = {}
    BY DEF MembershipAgrees
  <2>1. CallsAt(g) = {}
    BY DEF CallsAt, AtRest
  <2>2. Good({}, MembersOf(g), Listed(g), count[g], g \in groups, CutAt(g))
    BY <2>1 DEF Groupwise, GoodAt
  <2>3. \A u \in Users : <<u, g>> \notin cut =>
           (<<u, g>> \in members <=> g \in joined[u])
    BY <2>2 DEF Good, Others, MembersOf, Listed, CutAt
  <2>4. Counted({}, MembersOf(g)) = MembersOf(g)
    BY DEF Counted, MembersOf
  <2>5. (\A u \in Users : <<u, g>> \notin cut) =>
           count[g] = Cardinality(MembersOf(g))
    <3>1. (\A u \in Users : <<u, g>> \notin cut) => CutAt(g) = {}
      BY DEF CutAt
    <3> QED
      BY <2>2, <2>4, <3>1 DEF Good, Tally
  <2>6. g \notin groups => MembersOf(g) = {}
    BY <2>2 DEF Good, Placed
  <2> QED
    BY <2>3, <2>5, <2>6
<1> QED
  BY GroupsAlways, <1>1, PTL

-----------------------------------------------------------------------------
(* Emergencies of groups                                                    *)

ActiveThere == \A g \in Groups : active[g] => g \in groups

LEMMA NextActive ==
  ASSUME TypeOK, ActiveThere, [Next]_vars
  PROVE  ActiveThere'
<1> USE DEF ActiveThere, TypeOK, groupVars
<1>1. ASSUME UNCHANGED <<groups, active>> PROVE ActiveThere'
  BY <1>1
<1>2. ASSUME NEW u \in Users, NEW g \in Groups,
             \/ Join(u, g) \/ Leave(u, g) \/ CreateAndJoin(u, g)
             \/ Delete(u, g)
      PROVE  ActiveThere'
  BY <1>1, <1>2 DEF Join, Leave, CreateAndJoin, Delete, Begin
<1>3. ASSUME NEW u \in Users, NEW g \in Groups, TellGroup(u, g)
      PROVE  ActiveThere'
  BY <1>3 DEF TellGroup
<1>4. ASSUME NEW c \in calls, MakeGroup(c) \/ DeleteDocument(c)
      PROVE  ActiveThere'
  BY <1>4 DEF MakeGroup, DeleteDocument, Call
<1>5. ASSUME NEW c \in calls,
             \/ CheckGroup(c) \/ WriteMember(c) \/ WriteList(c)
             \/ WriteCount(c) \/ WriteLocal(c) \/ TakeSnapshot(c)
             \/ UnlistMember(c) \/ RemoveMember(c) \/ CallFails(c)
      PROVE  ActiveThere'
  BY <1>1, <1>5 DEF CheckGroup, WriteMember, WriteList, WriteCount,
                    WriteLocal, TakeSnapshot, UnlistMember, RemoveMember,
                    CallFails
<1>6. ASSUME NEW u \in Users,
             \/ OpenScreen(u) \/ LoadReads(u) \/ LoadApplies(u)
             \/ StartBroadcast(u) \/ StoreFetched(u) \/ BroadcastFails(u)
      PROVE  ActiveThere'
  BY <1>1, <1>6 DEF OpenScreen, LoadReads, LoadApplies, StartBroadcast,
                    StoreFetched, BroadcastFails
<1>8. ASSUME NEW u \in Users, ProcessEnds(u) PROVE ActiveThere'
  <2>1. UNCHANGED <<groups, active>>
    BY <1>8, Zenon DEF ProcessEnds
  <2> QED
    BY <1>1, <2>1
<1>7. CASE UNCHANGED vars
  BY <1>1, <1>7 DEF vars
<1> QED
  BY <1>2, <1>3, <1>4, <1>5, <1>6, <1>7, <1>8 DEF Next

\* A step that ends the emergency of a group, on which no calls have clashed,
\* deletes the group: a group made again never ends one under way.
THEOREM EmergencyAlwaysStays == Spec => EmergencyStays
<1> DEFINE Stays ==
      \A g \in Groups \ marred' : active[g] /\ ~active'[g] => g \notin groups'
<1>1. TypeOK /\ Groupwise /\ ActiveThere /\ [Next]_vars => [Stays]_vars
  <2> SUFFICES ASSUME TypeOK, Groupwise, ActiveThere, Next,
                      NEW g \in Groups, g \notin marred', active[g],
                      ~active'[g]
               PROVE  g \notin groups'
    OBVIOUS
  <2> USE DEF groupVars
  <2>1. g \in groups
    BY DEF ActiveThere
  <2>2. ASSUME NEW c \in calls, MakeGroup(c) PROVE FALSE
    <3>1. c.group = g /\ c.at = "make" /\ marred' = marred
      BY <2>2 DEF MakeGroup, TypeOK, historyVars
    <3>2. Good(CallsAt(g), MembersOf(g), Listed(g), count[g], g \in groups,
               CutAt(g))
      BY <3>1 DEF Groupwise, GoodAt
    <3> QED
      BY <2>1, <3>1, <3>2 DEF Good, Placed, CallsAt
  <2>3. ASSUME NEW c \in calls, DeleteDocument(c) PROVE g \notin groups'
    BY <2>3 DEF DeleteDocument, TypeOK
  <2>4. ASSUME NEW u \in Users, NEW h \in Groups, TellGroup(u, h)
        PROVE  FALSE
    BY <2>4 DEF TellGroup, TypeOK
  <2>5. ASSUME active' = active PROVE FALSE
    BY <2>5
  <2>6. ASSUME NEW u \in Users, NEW h \in Groups,
               \/ Join(u, h) \/ Leave(u, h) \/ CreateAndJoin(u, h)
               \/ Delete(u, h)
        PROVE  FALSE
    BY <2>5, <2>6 DEF Join, Leave, CreateAndJoin, Delete, Begin
  <2>7. ASSUME NEW c \in calls,
               \/ CheckGroup(c) \/ WriteMember(c) \/ WriteList(c)
               \/ WriteCount(c) \/ WriteLocal(c) \/ TakeSnapshot(c)
               \/ UnlistMember(c) \/ RemoveMember(c) \/ CallFails(c)
        PROVE  FALSE
    BY <2>5, <2>7 DEF CheckGroup, WriteMember, WriteList, WriteCount,
                      WriteLocal, TakeSnapshot, UnlistMember, RemoveMember,
                      CallFails
  <2>8. ASSUME NEW u \in Users,
               \/ OpenScreen(u) \/ LoadReads(u) \/ LoadApplies(u)
               \/ StartBroadcast(u) \/ StoreFetched(u) \/ BroadcastFails(u)
        PROVE  FALSE
    BY <2>5, <2>8 DEF OpenScreen, LoadReads, LoadApplies, StartBroadcast,
                      StoreFetched, BroadcastFails
  <2>9. ASSUME NEW u \in Users, ProcessEnds(u) PROVE FALSE
    <3>1. active' = active
      BY <2>9, Zenon DEF ProcessEnds
    <3> QED
      BY <2>5, <3>1
  <2> QED
    BY <2>2, <2>3, <2>4, <2>6, <2>7, <2>8, <2>9 DEF Next
<1>2. Init => ActiveThere
  BY DEF Init, ActiveThere
<1>3. TypeOK /\ ActiveThere /\ [Next]_vars => ActiveThere'
  BY NextActive
<1> QED
  BY <1>1, <1>2, <1>3, GroupsAlways, PTL DEF Spec, EmergencyStays

-----------------------------------------------------------------------------
(* The lists of the phones and the broadcast                                *)

\* What a call is at before it has written anything of a member.
Early == {"check", "make", "member", "snapshot"}

\* The group is on the phone's list, or a call of the user has begun to write
\* about it, or was left half done.
Covered(u) ==
    \A g \in Groups \ marred :
        /\ g \in joined[u] /\ <<u, g>> \notin cut
        /\ \A c \in CallsOf(u) : c.group = g => c.at \in Early
        => g \in local[u]

\* A list being read, of which the server's stays a part, excludes calls.
Reading(u) ==
    /\ load[u] \in {"reading", "read"} => CallsOf(u) = {}
    /\ load[u] = "read" => joined[u] \subseteq loaded[u]
    /\ broadcast[u].at = "fetched" => /\ CallsOf(u) = {}
                                      /\ joined[u] \subseteq broadcast[u].todo

Owing(u) ==
    /\ broadcast[u].at \in {"fetched", "sending", "done"} =>
          \A g \in broadcast[u].owed \ marred : <<u, g>> \notin cut =>
              g \in broadcast[u].told \cup broadcast[u].todo
    /\ broadcast[u].at = "done" => broadcast[u].todo = {}

ListsAt(u) == Covered(u) /\ Reading(u) /\ Owing(u)

Lists == \A u \in Users \ stale : ListsAt(u)

\* A step after which a user is at the calls she was at, or at more, with no
\* more groups and the same list.
LEMMA ListsStay ==
  ASSUME NEW u \in Users, ListsAt(u),
         marred \subseteq marred', cut \subseteq cut',
         joined'[u] \subseteq joined[u],
         local'[u] = local[u], load'[u] = load[u], loaded'[u] = loaded[u],
         broadcast'[u] = broadcast[u],
         \A c \in CallsOf(u) : c.at \notin Early =>
            \E d \in CallsOf(u)' : d.group = c.group /\ d.at \notin Early,
         CallsOf(u) = {} => \/ CallsOf(u)' = {}
                            \/ /\ load[u] \notin {"reading", "read"}
                               /\ broadcast[u].at # "fetched"
  PROVE  ListsAt(u)'
<1>1. Covered(u)'
  BY DEF ListsAt, Covered
<1>2. Reading(u)'
  BY DEF ListsAt, Reading
<1>3. Owing(u)'
  BY DEF ListsAt, Owing
<1> QED
  BY <1>1, <1>2, <1>3 DEF ListsAt

LEMMA BeginLists ==
  ASSUME TypeOK, Lists, NEW v \in Users, NEW g \in Groups,
         Join(v, g) \/ Leave(v, g) \/ CreateAndJoin(v, g) \/ Delete(v, g)
  PROVE  Lists'
<1>1. PICK op \in {"join", "leave", "delete"}, at \in Ats : Begin(v, g, op, at)
  BY DEF Join, Leave, CreateAndJoin, Delete, Ats
<1>2. PICK k : calls' = calls \cup {k} /\ k.user = v
  <2>1. PICK s \in Slots :
           calls' = calls \cup {[user |-> v, slot |-> s, group |-> g,
                                 op |-> op, at |-> at, here |-> TRUE,
                                 alone |-> FALSE, rest |-> {}]}
    BY <1>1 DEF Begin
  <2> DEFINE k == [user |-> v, slot |-> s, group |-> g, op |-> op, at |-> at,
                   here |-> TRUE, alone |-> FALSE, rest |-> {}]
  <2>2. calls' = calls \cup {k} /\ k.user = v
    BY <2>1
  <2> HIDE DEF k
  <2> QED
    BY <2>2
<1>3. /\ joined' = joined /\ local' = local /\ load' = load
      /\ loaded' = loaded /\ broadcast' = broadcast
      /\ marred \subseteq marred' /\ cut' = cut
      /\ stale' = stale \cup {w \in {v} : \/ load[w] \in {"reading", "read"}
                                          \/ broadcast[w].at = "fetched"}
  BY <1>1 DEF Begin, listVars, loadVars
<1> SUFFICES ASSUME NEW u \in Users, u \notin stale' PROVE ListsAt(u)'
  BY DEF Lists
<1>4. ListsAt(u)
  BY <1>3 DEF Lists
<1>5. u # v => CallsOf(u)' = CallsOf(u)
  BY <1>2 DEF CallsOf
<1>6. CallsOf(u) \subseteq CallsOf(u)'
  BY <1>2 DEF CallsOf
<1>7. u = v => load[u] \notin {"reading", "read"} /\ broadcast[u].at # "fetched"
  BY <1>3
<1> QED
  BY <1>3, <1>4, <1>5, <1>6, <1>7, ListsStay

\* A step of a call that goes on and gives its user no more groups.
LEMMA GoingLists ==
  ASSUME TypeOK, Lists, NEW c \in calls, NEW d,
         d.user = c.user, d.group = c.group, calls' = (calls \ {c}) \cup {d},
         c.at \notin Early => d.at \notin Early,
         UNCHANGED <<local, load, loaded, broadcast, marred, cut, stale>>,
         NEW u \in Users, u \notin stale, joined'[u] \subseteq joined[u]
  PROVE  ListsAt(u)'
<1>1. ListsAt(u)
  BY DEF Lists
<1>2. \A b \in CallsOf(u) : b.at \notin Early =>
         \E e \in CallsOf(u)' : e.group = b.group /\ e.at \notin Early
  BY DEF CallsOf
<1>3. CallsOf(u) = {} => CallsOf(u)' = {}
  BY DEF CallsOf
<1> QED
  BY <1>1, <1>2, <1>3, ListsStay

\* A call that ends with the list of its user as its group's state asks.
LEMMA EndingLists ==
  ASSUME TypeOK, Lists, NEW c \in calls, Ends(c),
         UNCHANGED <<load, loaded, broadcast, marred, stale>>,
         cut \subseteq cut',
         \A v \in Users \ {c.user} : /\ local'[v] = local[v]
                                     /\ joined'[v] \subseteq joined[v],
         \A g \in Groups \ {c.group} :
            /\ g \in local[c.user] => g \in local'[c.user]
            /\ g \in joined'[c.user] => g \in joined[c.user],
         c.group \notin marred /\ c.group \in joined'[c.user]
            => c.group \in local'[c.user] \/ <<c.user, c.group>> \in cut',
         NEW u \in Users, u \notin stale
  PROVE  ListsAt(u)'
<1>1. ListsAt(u)
  BY DEF Lists
<1>2. CASE u # c.user
  <2>1. CallsOf(u)' = CallsOf(u)
    BY <1>2 DEF CallsOf, Ends
  <2> QED
    BY <1>1, <1>2, <2>1, ListsStay
<1>3. CASE u = c.user
  <2>1. CallsOf(u) # {}
    BY <1>3 DEF CallsOf
  <2>2. Reading(u)'
    BY <1>1, <2>1 DEF ListsAt, Reading
  <2>3. Owing(u)'
    BY <1>1 DEF ListsAt, Owing
  <2>4. Covered(u)'
    <3> SUFFICES ASSUME NEW g \in Groups, g \notin marred, g \in joined'[u],
                        <<u, g>> \notin cut',
                        \A b \in CallsOf(u)' : b.group = g => b.at \in Early
                 PROVE  g \in local'[u]
      BY DEF Covered
    <3>1. CASE g = c.group
      BY <1>3, <3>1
    <3>2. CASE g # c.group
      <4>1. \A b \in CallsOf(u) : b.group = g => b.at \in Early
        BY <3>2 DEF CallsOf, Ends
      <4> QED
        BY <1>1, <1>3, <3>2, <4>1 DEF ListsAt, Covered
    <3> QED
      BY <3>1, <3>2
  <2> QED
    BY <2>2, <2>3, <2>4 DEF ListsAt
<1> QED
  BY <1>2, <1>3

\* Where a call is on a group that no calls have clashed on.
LEMMA CallPlaced ==
  ASSUME TypeOK, Groupwise, NEW c \in calls, c.group \notin marred
  PROVE  /\ c.at \notin Making => c.group \in groups
         /\ <<c.user, c.group>> \notin cut =>
              /\ c.at = "local" => (c.group \in joined[c.user] <=> c.op = "join")
              /\ c.at = "make" => c.group \notin joined[c.user]
              /\ c.at = "document" => c.group \notin joined[c.user]
         /\ c.alone => /\ c.at \notin {"check", "local", "snapshot"}
                       /\ c.at # "make" => <<c.user, c.group>> \in cut
<1>1. c.user \in Users /\ c.group \in Groups /\ c \in CallsAt(c.group)
  BY DEF TypeOK, Call, CallsAt
<1>2. Good(CallsAt(c.group), MembersOf(c.group), Listed(c.group),
           count[c.group], c.group \in groups, CutAt(c.group))
  BY <1>1 DEF Groupwise, GoodAt
<1>3. /\ c.user \in CutAt(c.group) <=> <<c.user, c.group>> \in cut
      /\ c.user \in Listed(c.group) <=> c.group \in joined[c.user]
  BY <1>1 DEF CutAt, Listed
<1>4. c.at \notin Making => c.group \in groups
  BY <1>1, <1>2 DEF Good, Placed
<1>5. c.alone => /\ c.at \notin {"check", "local", "snapshot"}
                 /\ c.at # "make" => c.user \in CutAt(c.group)
  BY <1>1, <1>2 DEF Good, Orphaned
<1>6. c.user \notin CutAt(c.group) =>
         /\ c.at = "local" => (c.user \in Listed(c.group) <=> c.op = "join")
         /\ c.at = "make" => c.user \notin Listed(c.group)
  BY <1>1, <1>2 DEF Good, Joins, Leaves, Kinds, Typed, Deleting, Making
<1>7. c.user \notin CutAt(c.group) /\ c.at = "document" =>
         c.user \notin Listed(c.group)
  BY <1>1, <1>2 DEF Good, Kinds, Deletes, Deleting
<1> QED
  BY <1>3, <1>4, <1>5, <1>6, <1>7

LEMMA CallLists ==
  ASSUME TypeOK, Groupwise, Lists, NEW c \in calls, ~c.alone,
         \/ CheckGroup(c) \/ MakeGroup(c)
         \/ WriteMember(c) \/ WriteList(c) \/ WriteCount(c) \/ WriteLocal(c)
         \/ TakeSnapshot(c) \/ UnlistMember(c) \/ RemoveMember(c)
  PROVE  Lists'
<1> USE DEF listVars, loadVars, historyVars
<1> SUFFICES ASSUME NEW u \in Users, u \notin stale' PROVE ListsAt(u)'
  BY DEF Lists
<1>1. /\ c \in Call /\ c.user \in Users /\ c.group \in Groups
      /\ c.rest \in SUBSET Users
  BY DEF TypeOK, Call
<1>2. ASSUME NEW at \in Ats, Goes(c, at)
      PROVE  /\ calls' = (calls \ {c}) \cup {Moved(c, at)}
             /\ Moved(c, at).user = c.user /\ Moved(c, at).group = c.group
             /\ Moved(c, at).at = at
  BY <1>1, <1>2, MovedFields DEF Goes, Moved
<1>3. ASSUME NEW rest \in SUBSET Users, Remaining(c, rest)
      PROVE  /\ calls' = (calls \ {c}) \cup {Left(c, rest)}
             /\ Left(c, rest).user = c.user /\ Left(c, rest).group = c.group
             /\ Left(c, rest).at \notin Early
  <2>1. calls' = (calls \ {c}) \cup {Left(c, rest)}
    BY <1>3 DEF Remaining, Left
  <2>2. /\ Left(c, rest).user = c.user /\ Left(c, rest).group = c.group
        /\ Left(c, rest).at \notin Early
    BY <1>1, <1>3, LeftFields DEF Early
  <2> QED
    BY <2>1, <2>2
<1>5. CASE CheckGroup(c)
  <2> DEFINE at == IF c.group \in groups THEN "member" ELSE "make"
  <2>1. at \in Ats /\ Goes(c, at)
    BY <1>5 DEF CheckGroup, Ats
  <2> QED
    BY <1>2, <1>5, <2>1, GoingLists DEF CheckGroup, Early
<1>6. CASE MakeGroup(c)
  <2>1. "member" \in Ats /\ Goes(c, "member")
    BY <1>6 DEF MakeGroup, Ats
  <2> QED
    BY <1>2, <1>6, <2>1, GoingLists DEF MakeGroup, Early
<1>7. CASE WriteMember(c)
  <2>1. "list" \in Ats /\ Goes(c, "list")
    BY <1>7 DEF WriteMember, Ats
  <2> QED
    BY <1>2, <1>7, <2>1, GoingLists DEF WriteMember, Early
<1>8. CASE WriteList(c)
  <2> DEFINE d == Moved(c, "count")
  <2>1. "count" \in Ats /\ Goes(c, "count")
    BY <1>8 DEF WriteList, Ats
  <2>2. /\ calls' = (calls \ {c}) \cup {d}
        /\ d.user = c.user /\ d.group = c.group /\ d.at \notin Early
    BY <1>2, <2>1 DEF Early
  <2> HIDE DEF d
  <2>3. /\ joined' = [joined EXCEPT ![c.user] = Changed(@, c, c.group)]
        /\ UNCHANGED <<local, load, loaded, broadcast, marred, cut, stale>>
    BY <1>8 DEF WriteList
  <2>4. CASE u # c.user
    <3>1. joined'[u] \subseteq joined[u]
      BY <2>3, <2>4 DEF TypeOK
    <3> QED
      BY <2>2, <2>3, <3>1, GoingLists
  <2>5. CASE u = c.user
    <3>1. ListsAt(u) /\ CallsOf(u) # {} /\ d \in CallsOf(u)'
      BY <2>2, <2>3, <2>5 DEF Lists, CallsOf
    <3>2. Reading(u)' /\ Owing(u)'
      BY <2>3, <3>1 DEF ListsAt, Reading, Owing
    <3>3. Covered(u)'
      <4> SUFFICES ASSUME NEW g \in Groups, g \notin marred, g \in joined'[u],
                          <<u, g>> \notin cut,
                          \A b \in CallsOf(u)' : b.group = g => b.at \in Early
                   PROVE  g \in local[u]
        BY <2>3 DEF Covered
      <4>1. g # c.group
        BY <2>2, <3>1
      <4>2. g \in joined[u]
        BY <1>1, <2>3, <2>5, <4>1 DEF Changed, TypeOK
      <4>3. \A b \in CallsOf(u) : b.group = g => b.at \in Early
        BY <2>2, <4>1 DEF CallsOf
      <4> QED
        BY <3>1, <4>2, <4>3 DEF ListsAt, Covered
    <3> QED
      BY <3>2, <3>3 DEF ListsAt
  <2> QED
    BY <2>4, <2>5
<1>9. CASE WriteCount(c)
  <2>1. CASE c.group \in groups
    <3>1. "local" \in Ats /\ Goes(c, "local")
      BY <1>9, <2>1 DEF WriteCount, Ats
    <3> QED
      BY <1>2, <1>9, <3>1, GoingLists DEF WriteCount, Early
  <2>2. CASE c.group \notin groups
    <3>1. Ends(c)
      BY <1>9, <2>2 DEF WriteCount
    <3>2. c.group \in marred
      BY <1>9, <2>2, CallPlaced DEF WriteCount, Making
    <3> QED
      BY <1>9, <3>1, <3>2, EndingLists DEF WriteCount
  <2> QED
    BY <2>1, <2>2
<1>10. CASE WriteLocal(c)
  <2>1. /\ Ends(c) /\ c.at = "local"
        /\ local' = [local EXCEPT ![c.user] = Changed(@, c, c.group)]
        /\ UNCHANGED <<joined, load, loaded, broadcast, marred, cut, stale>>
    BY <1>10 DEF WriteLocal
  <2>2. \A v \in Users \ {c.user} : local'[v] = local[v]
    BY <2>1 DEF TypeOK
  <2>3. local'[c.user] = Changed(local[c.user], c, c.group)
    BY <1>1, <2>1 DEF TypeOK
  <2>4. \A g \in Groups \ {c.group} :
           g \in local[c.user] => g \in local'[c.user]
    BY <2>3 DEF Changed
  <2>5. c.group \notin marred /\ c.group \in joined[c.user]
           => c.group \in local'[c.user] \/ <<c.user, c.group>> \in cut
    BY <2>1, <2>3, CallPlaced DEF Changed
  <2> QED
    BY <2>1, <2>2, <2>4, <2>5, EndingLists
<1>11. CASE TakeSnapshot(c)
  <2>1. MembersOf(c.group) \in SUBSET Users
    BY DEF MembersOf
  <2> QED
    BY <1>3, <1>11, <2>1, GoingLists DEF TakeSnapshot
<1>12. CASE UnlistMember(c)
  <2>1. "unmember" \in Ats /\ Goes(c, "unmember")
    BY <1>12 DEF UnlistMember, Ats
  <2>2. joined'[u] \subseteq joined[u]
    BY <1>12 DEF UnlistMember, TypeOK
  <2> QED
    BY <1>2, <1>12, <2>1, <2>2, GoingLists DEF UnlistMember, Early
<1>13. CASE RemoveMember(c)
  <2>1. c.rest \ {First(c.rest)} \in SUBSET Users
    BY <1>1
  <2> QED
    BY <1>3, <1>13, <2>1, GoingLists DEF RemoveMember
<1> QED
  BY <1>5, <1>6, <1>7, <1>8, <1>9, <1>10, <1>11, <1>12, <1>13

\* The last step of a call: of one whose process has ended, or has failed.
LEMMA EndLists ==
  ASSUME TypeOK, Groupwise, Lists, NEW c \in calls,
         \/ /\ c.alone
            /\ \/ CheckGroup(c) \/ MakeGroup(c)
               \/ WriteMember(c) \/ WriteList(c) \/ WriteCount(c)
               \/ WriteLocal(c)
               \/ TakeSnapshot(c) \/ UnlistMember(c) \/ RemoveMember(c)
         \/ DeleteDocument(c)
         \/ CallFails(c)
  PROVE  Lists'
<1> USE DEF listVars, loadVars, historyVars
<1> SUFFICES ASSUME NEW u \in Users, u \notin stale' PROVE ListsAt(u)'
  BY DEF Lists
<1>1. c \in Call /\ c.user \in Users /\ c.group \in Groups
  BY DEF TypeOK, Call
<1>2. CASE c.alone /\ (CheckGroup(c) \/ WriteLocal(c) \/ TakeSnapshot(c))
  <2>1. c.group \in marred
    BY <1>2, CallPlaced DEF CheckGroup, WriteLocal, TakeSnapshot
  <2>2. /\ Ends(c)
        /\ UNCHANGED <<joined, load, loaded, broadcast, marred, cut, stale>>
    BY <1>2 DEF CheckGroup, WriteLocal, TakeSnapshot, Goes, Remaining
  <2>3. /\ \A v \in Users \ {c.user} : local'[v] = local[v]
        /\ \A g \in Groups \ {c.group} :
              g \in local[c.user] => g \in local'[c.user]
    <3>1. CASE local' = local
      BY <3>1
    <3>2. CASE local' = [local EXCEPT ![c.user] = Changed(@, c, c.group)]
      BY <1>1, <3>2 DEF Changed, TypeOK
    <3> QED
      BY <1>2, <3>1, <3>2 DEF CheckGroup, WriteLocal, TakeSnapshot
  <2> QED
    BY <2>1, <2>2, <2>3, EndingLists
<1>3. CASE c.alone /\ (\/ MakeGroup(c) \/ WriteMember(c) \/ WriteList(c)
                        \/ WriteCount(c) \/ UnlistMember(c) \/ RemoveMember(c))
  <2>1. /\ Ends(c)
        /\ UNCHANGED <<local, load, loaded, broadcast, marred, cut, stale>>
    BY <1>3 DEF MakeGroup, WriteMember, WriteList, WriteCount, UnlistMember,
                RemoveMember, Goes, Remaining
  <2>2. /\ \A v \in Users \ {c.user} : joined'[v] \subseteq joined[v]
        /\ \A g \in Groups \ {c.group} :
              g \in joined'[c.user] => g \in joined[c.user]
    <3>1. CASE joined' = joined
      BY <3>1
    <3>2. CASE joined' = [joined EXCEPT ![c.user] = Changed(@, c, c.group)]
      BY <1>1, <3>2 DEF Changed, TypeOK
    <3>3. CASE joined' = [joined EXCEPT ![First(c.rest)] = @ \ {c.group}]
      BY <1>1, <3>3 DEF TypeOK
    <3> QED
      BY <1>3, <3>1, <3>2, <3>3 DEF MakeGroup, WriteMember, WriteList,
                                    WriteCount, UnlistMember, RemoveMember
  <2>3. c.group \notin marred /\ c.group \in joined'[c.user]
           => <<c.user, c.group>> \in cut'
    <3>1. CASE MakeGroup(c)
      BY <1>3, <3>1, CallPlaced DEF MakeGroup
    <3>2. CASE ~MakeGroup(c)
      BY <1>3, <2>1, <3>2, CallPlaced
         DEF WriteMember, WriteList, WriteCount, UnlistMember, RemoveMember
    <3> QED
      BY <3>1, <3>2
  <2> QED
    BY <2>1, <2>2, <2>3, EndingLists
<1>4. CASE DeleteDocument(c)
  <2>1. /\ Ends(c) /\ c.at = "document"
        /\ UNCHANGED <<joined, local, load, loaded, broadcast, marred, cut,
                       stale>>
    BY <1>4 DEF DeleteDocument
  <2> QED
    BY <1>1, <2>1, CallPlaced, EndingLists
<1>5. CASE CallFails(c)
  <2>1. /\ Ends(c) /\ cut' = cut \cup Halved(c, {})
        /\ UNCHANGED <<joined, local, load, loaded, broadcast, marred, stale>>
    BY <1>5 DEF CallFails
  <2>2. CASE c.at \in Early
    <3>1. ListsAt(u)
      BY <2>1 DEF Lists
    <3>2. \A b \in CallsOf(u) : b.at \notin Early =>
             \E d \in CallsOf(u)' : d.group = b.group /\ d.at \notin Early
      BY <2>1, <2>2 DEF CallsOf, Ends
    <3>3. CallsOf(u) = {} => CallsOf(u)' = {}
      BY <2>1 DEF CallsOf, Ends
    <3> QED
      BY <2>1, <3>1, <3>2, <3>3, ListsStay
  <2>3. CASE c.at \notin Early
    <3>1. c.user \in Half(c, {})
      BY <1>1, <2>3 DEF Half, Early, Call
    <3>2. <<c.user, c.group>> \in cut'
      BY <2>1, <3>1, HalvedAt
    <3> QED
      BY <2>1, <3>2, EndingLists
  <2> QED
    BY <2>2, <2>3
<1> QED
  BY <1>2, <1>3, <1>4, <1>5

LEMMA ProcessLists ==
  ASSUME TypeOK, Lists, NEW v \in Users, ProcessEnds(v)
  PROVE  Lists'
<1>1. PICK kept \in {{}, {c \in CallsOf(v) : Writing(c)}} :
         calls' = Survivors(v, kept)
  BY ProcessEndsCalls
<1>2. /\ load' = [load EXCEPT ![v] = "none"]
      /\ loaded' = [loaded EXCEPT ![v] = {}]
      /\ broadcast' = [broadcast EXCEPT ![v].at =
                           IF @ \in {"fetched", "sending"} THEN "stopped" ELSE @]
      /\ cut' = cut \cup
                   UNION {Halved(c, {"member", "unlist"}) : c \in CallsOf(v)}
      /\ UNCHANGED <<joined, local, marred, stale>>
  BY Zenon DEF ProcessEnds
<1> SUFFICES ASSUME NEW u \in Users, u \notin stale PROVE ListsAt(u)'
  BY <1>2 DEF Lists
<1>3. ListsAt(u)
  BY DEF Lists
<1>4. CASE u # v
  <2>1. CallsOf(u)' = CallsOf(u)
    <3>1. \A c \in kept : Orphan(c).user = v
      <4>1. \A c \in kept : c \in Call /\ c.user = v
        BY DEF CallsOf, TypeOK
      <4> QED
        BY <4>1, OrphanFields
    <3>2. \A c : c \in calls' <=> \/ c \in calls /\ c \notin CallsOf(v)
                                 \/ \E k \in kept : c = Orphan(k)
      BY <1>1, Zenon DEF Survivors
    <3> HIDE DEF Orphan
    <3>3. \A c : c.user = u => (c \in calls' <=> c \in calls)
      BY <1>4, <3>1, <3>2 DEF CallsOf
    <3> QED
      BY <3>3 DEF CallsOf
  <2>2. /\ load'[u] = load[u] /\ loaded'[u] = loaded[u]
        /\ broadcast'[u] = broadcast[u]
    BY <1>2, <1>4 DEF TypeOK
  <2> QED
    BY <1>2, <1>3, <2>1, <2>2, ListsStay
<1>5. CASE u = v
  <2>1. /\ load'[u] = "none"
        /\ broadcast'[u].at \in {"none", "done", "stopped"}
        /\ broadcast'[u].at # "stopped" => broadcast'[u].at = broadcast[u].at
        /\ broadcast'[u].todo = broadcast[u].todo
        /\ broadcast'[u].told = broadcast[u].told
        /\ broadcast'[u].owed = broadcast[u].owed
    <3>1. broadcast[u] \in Broadcast
      BY DEF TypeOK
    <3>2. broadcast'[u] = [broadcast[u] EXCEPT !.at =
                              IF @ \in {"fetched", "sending"} THEN "stopped"
                                                              ELSE @]
      BY <1>2, <1>5 DEF TypeOK
    <3>3. load'[u] = "none"
      BY <1>2, <1>5 DEF TypeOK
    <3> QED
      BY <3>1, <3>2, <3>3 DEF Broadcast
  <2>2. Reading(u)'
    BY <2>1 DEF Reading
  <2>3. Owing(u)'
    BY <1>2, <1>3, <2>1 DEF ListsAt, Owing
  <2>4. Covered(u)'
    <3> SUFFICES ASSUME NEW g \in Groups, g \notin marred, g \in joined[u],
                        <<u, g>> \notin cut'
                 PROVE  g \in local[u]
      BY <1>2 DEF Covered
    <3>1. ASSUME NEW c \in CallsOf(u), c.group = g, c.at \notin Early
          PROVE  FALSE
      <4>1. c.user = u /\ c \in Call
        BY DEF CallsOf, TypeOK
      <4>2. u \in Half(c, {"member", "unlist"})
        BY <3>1, <4>1 DEF Half, Early, Call
      <4>3. <<u, g>> \in Halved(c, {"member", "unlist"})
        BY <3>1, <4>2, HalvedAt
      <4> QED
        BY <1>2, <1>5, <4>3
    <3> QED
      BY <1>2, <1>3, <3>1 DEF ListsAt, Covered
  <2> QED
    BY <2>2, <2>3, <2>4 DEF ListsAt
<1> QED
  BY <1>4, <1>5

\* The screens and broadcasts of a user change nothing of another's.
LEMMA ScreenLists ==
  ASSUME TypeOK, Lists, NEW v \in Users,
         \/ OpenScreen(v) \/ LoadReads(v) \/ LoadApplies(v)
         \/ StartBroadcast(v) \/ StoreFetched(v) \/ BroadcastFails(v)
         \/ \E g \in Groups : TellGroup(v, g)
  PROVE  Lists'
<1> USE DEF listVars, loadVars, historyVars
<1> SUFFICES ASSUME NEW u \in Users, u \notin stale' PROVE ListsAt(u)'
  BY DEF Lists
<1>1. /\ joined' = joined /\ marred' = marred /\ cut' = cut
      /\ stale \subseteq stale'
  BY DEF OpenScreen, LoadReads, LoadApplies, StartBroadcast, StoreFetched,
         BroadcastFails, TellGroup
<1>2. ListsAt(u)
  BY <1>1 DEF Lists
<1>3. CASE OpenScreen(v)
  <2>1. calls' = {Unmounted(c, v) : c \in calls}
    BY <1>3, OpenScreenCalls
  <2>2. \A c \in calls : /\ Unmounted(c, v).user = c.user
                         /\ Unmounted(c, v).group = c.group
                         /\ Unmounted(c, v).at = c.at
    BY UnmountedFields DEF TypeOK
  <2>3. \A c \in CallsOf(u) : c.at \notin Early =>
           \E d \in CallsOf(u)' : d.group = c.group /\ d.at \notin Early
    BY <2>1, <2>2 DEF CallsOf
  <2>4. CallsOf(u) = {} => CallsOf(u)' = {}
    BY <2>1, <2>2 DEF CallsOf
  <2>5. /\ local' = local /\ loaded' = loaded /\ broadcast' = broadcast
        /\ load' = [load EXCEPT ![v] = "reading"]
        /\ stale' = stale \cup {w \in {v} : CallsOf(w) # {}}
    BY <1>3 DEF OpenScreen
  <2>6. CASE u # v
    <3>1. load'[u] = load[u]
      BY <2>5, <2>6 DEF TypeOK
    <3> QED
      BY <1>1, <1>2, <2>3, <2>4, <2>5, <3>1, ListsStay
  <2>7. CASE u = v
    <3>1. CallsOf(u) = {} /\ CallsOf(u)' = {} /\ load'[u] = "reading"
      BY <2>4, <2>5, <2>7 DEF TypeOK
    <3>2. Reading(u)'
      BY <1>1, <1>2, <2>5, <3>1 DEF ListsAt, Reading
    <3>3. Covered(u)'
      BY <1>1, <1>2, <2>5, <3>1 DEF ListsAt, Covered
    <3>4. Owing(u)'
      BY <1>1, <1>2, <2>5 DEF ListsAt, Owing
    <3> QED
      BY <3>2, <3>3, <3>4 DEF ListsAt
  <2> QED
    BY <2>6, <2>7
<1>4. ASSUME calls' = calls PROVE CallsOf(u)' = CallsOf(u)
  BY <1>4 DEF CallsOf
<1>5. CASE LoadReads(v)
  <2>1. PICK list \in {joined[v], {}} :
           /\ loaded' = [loaded EXCEPT ![v] = list]
           /\ stale' = stale \cup {w \in {v} : list # joined[w]}
    BY <1>5 DEF LoadReads
  <2>2. /\ load[v] = "reading" /\ load' = [load EXCEPT ![v] = "read"]
        /\ local' = local /\ broadcast' = broadcast
        /\ CallsOf(u)' = CallsOf(u)
    BY <1>4, <1>5 DEF LoadReads
  <2>3. u = v => loaded'[u] = joined[u]
    BY <2>1 DEF TypeOK
  <2>4. u # v => loaded'[u] = loaded[u] /\ load'[u] = load[u]
    BY <2>1, <2>2 DEF TypeOK
  <2>5. Reading(u)'
    BY <1>1, <1>2, <2>2, <2>3, <2>4 DEF ListsAt, Reading, TypeOK
  <2>6. Covered(u)' /\ Owing(u)'
    BY <1>1, <1>2, <2>2 DEF ListsAt, Covered, Owing
  <2> QED
    BY <2>5, <2>6 DEF ListsAt
<1>6. CASE LoadApplies(v)
  <2>1. /\ load[v] = "read" /\ load' = [load EXCEPT ![v] = "done"]
        /\ local' = [local EXCEPT ![v] = IF shown[v] = loaded[v]
                                            THEN @ ELSE loaded[v]]
        /\ loaded' = [loaded EXCEPT ![v] = {}]
        /\ broadcast' = broadcast /\ CallsOf(u)' = CallsOf(u)
    BY <1>4, <1>6 DEF LoadApplies
  <2>2. Reading(u)'
    BY <1>1, <1>2, <2>1 DEF ListsAt, Reading, TypeOK
  <2>3. u = v => joined[u] \subseteq loaded[u]
    BY <1>2, <2>1 DEF ListsAt, Reading
  <2>4. local'[u] = IF u = v /\ shown[v] # loaded[v] THEN loaded[u]
                                                     ELSE local[u]
    BY <2>1 DEF TypeOK
  <2>5. Covered(u)'
    BY <1>1, <1>2, <2>1, <2>3, <2>4 DEF ListsAt, Covered
  <2>6. Owing(u)'
    BY <1>1, <1>2, <2>1 DEF ListsAt, Owing
  <2> QED
    BY <2>2, <2>5, <2>6 DEF ListsAt
<1>7. CASE StartBroadcast(v)
  <2> DEFINE owed == {g \in groups : /\ g \in joined[v]
                                     /\ \A c \in CallsOf(v) : c.group # g}
             at == IF local[v] = {} THEN "fetched" ELSE "sending"
  <2>1. PICK todo \in IF local[v] = {} THEN {joined[v], {}} ELSE {local[v]} :
           /\ broadcast' = [broadcast EXCEPT ![v] =
                 [at |-> at, todo |-> todo, told |-> {}, owed |-> owed]]
           /\ stale' = stale \cup {w \in {v} : /\ local[w] = {}
                                               /\ \/ CallsOf(w) # {}
                                                  \/ todo # joined[w]}
    BY <1>7 DEF StartBroadcast
  <2>2. /\ local' = local /\ load' = load /\ loaded' = loaded
        /\ CallsOf(u)' = CallsOf(u)
    BY <1>4, <1>7 DEF StartBroadcast
  <2>3. CASE u # v
    <3>1. broadcast'[u] = broadcast[u]
      BY <2>1, <2>3 DEF TypeOK
    <3> QED
      BY <1>1, <1>2, <2>2, <3>1, ListsStay
  <2>4. CASE u = v
    <3> HIDE DEF owed
    <3>1. /\ broadcast'[u].at = at /\ broadcast'[u].todo = todo
          /\ broadcast'[u].told = {} /\ broadcast'[u].owed = owed
      BY <2>1, <2>4 DEF TypeOK
    <3>2. local[u] = {} => CallsOf(u) = {} /\ todo = joined[u]
      BY <2>1, <2>4
    <3>3. local[u] # {} => todo = local[u]
      BY <2>1, <2>4
    <3>4. \A g \in owed : /\ g \in Groups /\ g \in joined[u]
                          /\ \A c \in CallsOf(u) : c.group # g
      BY <2>4 DEF owed, TypeOK
    <3>5. \A g \in owed \ marred : <<u, g>> \notin cut => g \in todo
      BY <1>2, <3>2, <3>3, <3>4 DEF ListsAt, Covered
    <3>6. Owing(u)'
      BY <1>1, <3>1, <3>5 DEF Owing
    <3>7. Reading(u)'
      BY <1>1, <1>2, <2>2, <2>4, <3>1, <3>2 DEF ListsAt, Reading
    <3>8. Covered(u)'
      BY <1>1, <1>2, <2>2 DEF ListsAt, Covered
    <3> QED
      BY <3>6, <3>7, <3>8 DEF ListsAt
  <2> QED
    BY <2>3, <2>4
<1>8. CASE StoreFetched(v)
  <2>1. /\ broadcast[v].at = "fetched"
        /\ local' = [local EXCEPT ![v] = IF broadcast[v].todo = {}
                                            THEN @ ELSE broadcast[v].todo]
        /\ broadcast' = [broadcast EXCEPT
                            ![v].at = Sending(broadcast[v].todo)]
        /\ load' = load /\ loaded' = loaded /\ CallsOf(u)' = CallsOf(u)
    BY <1>4, <1>8 DEF StoreFetched
  <2>2. CASE u # v
    <3>1. broadcast'[u] = broadcast[u] /\ local'[u] = local[u]
      BY <2>1, <2>2 DEF TypeOK
    <3> QED
      BY <1>1, <1>2, <2>1, <3>1, ListsStay
  <2>3. CASE u = v
    <3>1. broadcast[u] \in Broadcast
      BY DEF TypeOK
    <3>2. /\ broadcast'[u].at = Sending(broadcast[u].todo)
          /\ broadcast'[u].todo = broadcast[u].todo
          /\ broadcast'[u].told = broadcast[u].told
          /\ broadcast'[u].owed = broadcast[u].owed
      BY <2>1, <2>3, <3>1 DEF Broadcast, TypeOK
    <3>3. local'[u] = IF broadcast[u].todo = {} THEN local[u]
                                                ELSE broadcast[u].todo
      BY <2>1, <2>3 DEF TypeOK
    <3>4. joined[u] \subseteq broadcast[u].todo
      BY <1>2, <2>1, <2>3 DEF ListsAt, Reading
    <3>5. Covered(u)'
      BY <1>1, <2>1, <3>3, <3>4 DEF Covered
    <3>6. Reading(u)'
      BY <1>1, <1>2, <2>1, <3>2 DEF ListsAt, Reading, Sending
    <3>7. Owing(u)'
      BY <1>1, <1>2, <2>1, <2>3, <3>2 DEF ListsAt, Owing, Sending
    <3> QED
      BY <3>5, <3>6, <3>7 DEF ListsAt
  <2> QED
    BY <2>2, <2>3
<1>9. ASSUME NEW g \in Groups, TellGroup(v, g) PROVE ListsAt(u)'
  <2>1. /\ local' = local /\ load' = load /\ loaded' = loaded
        /\ CallsOf(u)' = CallsOf(u)
    BY <1>4, <1>9 DEF TellGroup
  <2>2. CASE u # v
    <3>1. broadcast'[u] = broadcast[u]
      BY <1>9, <2>2 DEF TellGroup, TypeOK
    <3> QED
      BY <1>1, <1>2, <2>1, <3>1, ListsStay
  <2>3. CASE u = v
    <3>1. broadcast[u] \in Broadcast /\ broadcast[u].at = "sending"
      BY <1>9, <2>3 DEF TellGroup, TypeOK
    <3>2. CASE g \in groups
      <4>1. /\ broadcast'[u].at = Sending(broadcast[u].todo \ {g})
            /\ broadcast'[u].todo = broadcast[u].todo \ {g}
            /\ broadcast'[u].told = broadcast[u].told \cup {g}
            /\ broadcast'[u].owed = broadcast[u].owed
        BY <1>9, <2>3, <3>2 DEF TellGroup, TypeOK
      <4>2. Owing(u)'
        BY <1>1, <1>2, <3>1, <4>1 DEF ListsAt, Owing, Sending
      <4>3. Covered(u)' /\ Reading(u)'
        BY <1>1, <1>2, <2>1, <4>1 DEF ListsAt, Covered, Reading, Sending
      <4> QED
        BY <4>2, <4>3 DEF ListsAt
    <3>3. CASE g \notin groups
      <4>1. broadcast'[u].at = "stopped"
        BY <1>9, <2>3, <3>1, <3>3 DEF TellGroup, TypeOK, Broadcast
      <4>2. Covered(u)' /\ Reading(u)' /\ Owing(u)'
        BY <1>1, <1>2, <2>1, <4>1 DEF ListsAt, Covered, Reading, Owing
      <4> QED
        BY <4>2 DEF ListsAt
    <3> QED
      BY <3>2, <3>3
  <2> QED
    BY <2>2, <2>3
<1>10. CASE BroadcastFails(v)
  <2>1. /\ local' = local /\ load' = load /\ loaded' = loaded
        /\ CallsOf(u)' = CallsOf(u)
        /\ broadcast' = [broadcast EXCEPT ![v].at = "stopped"]
    BY <1>4, <1>10 DEF BroadcastFails
  <2>2. CASE u # v
    <3>1. broadcast'[u] = broadcast[u]
      BY <2>1, <2>2 DEF TypeOK
    <3> QED
      BY <1>1, <1>2, <2>1, <3>1, ListsStay
  <2>3. CASE u = v
    <3>1. broadcast'[u].at = "stopped"
      BY <2>1, <2>3 DEF TypeOK, Broadcast
    <3>2. Covered(u)' /\ Reading(u)' /\ Owing(u)'
      BY <1>1, <1>2, <2>1, <3>1 DEF ListsAt, Covered, Reading, Owing
    <3> QED
      BY <3>2 DEF ListsAt
  <2> QED
    BY <2>2, <2>3
<1> QED
  BY <1>3, <1>5, <1>6, <1>7, <1>8, <1>9, <1>10

LEMMA NextLists ==
  ASSUME TypeOK, Groupwise, Lists, [Next]_vars
  PROVE  Lists'
<1>1. CASE UNCHANGED vars
  <2> SUFFICES ASSUME NEW u \in Users, u \notin stale PROVE ListsAt(u)'
    BY <1>1 DEF Lists, vars, historyVars
  <2>1. ListsAt(u) /\ CallsOf(u)' = CallsOf(u)
    BY <1>1 DEF Lists, vars, CallsOf
  <2> QED
    BY <1>1, <2>1, ListsStay DEF vars, listVars, loadVars, historyVars
<1> QED
  BY <1>1, BeginLists, CallLists, EndLists, ScreenLists, ProcessLists DEF Next

LEMMA InitLists == Init => Lists
  BY DEF Init, Lists, ListsAt, Covered, Reading, Owing

LEMMA ListsAlways == Spec => []Lists
<1>1. TypeOK /\ Groupwise /\ Lists /\ [Next]_vars => Lists'
  BY NextLists
<1> QED
  BY InitLists, GroupsAlways, <1>1, PTL DEF Spec

\* The phone's list has every group of its user, unless it was read while her
\* calls were changing it, or could not be read, or a call was left half done.
THEOREM ListAlwaysCovers == Spec => []ListCovers
<1>1. Lists => ListCovers
  BY DEF Lists, ListsAt, Covered, ListCovers
<1> QED
  BY ListsAlways, <1>1, PTL

\* A broadcast that gets to its end has told every group it owed, but for those
\* where a call of the user was left half done.
THEOREM BroadcastAlwaysReaches == Spec => []BroadcastReaches
<1>1. Lists => BroadcastReaches
  BY DEF Lists, ListsAt, Owing, BroadcastReaches
<1> QED
  BY ListsAlways, <1>1, PTL

=============================================================================
