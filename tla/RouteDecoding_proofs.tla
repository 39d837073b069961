------------------------ MODULE RouteDecoding_proofs ------------------------
(***************************************************************************)
(* The decoder of Route inverts the encoding of every route: a proof about  *)
(* recursive functions over data of any length.  Induction is over sets of  *)
(* numbers, from the least element of each; it gives functions defined by   *)
(* recursion their equations, and then goes along the characters of one     *)
(* difference (GroupsRead) and the points of the route (TracksAll).         *)
(***************************************************************************)
EXTENDS Route, SequenceTheorems, WellFoundedInduction, TLAPS

-----------------------------------------------------------------------------
(* Induction and recursion                                                  *)

\* Every set of natural numbers has a least.
LEMMA Least ==
    ASSUME NEW S, S \subseteq Nat, S # {}
    PROVE  \E m \in S : \A k \in S : m <= k
<1>1. IsWellFoundedOn(OpToRel(<, Nat), Nat)
  BY NatLessThanWellFounded
<1>2. PICK m \in S : \A k \in S : ~ (<<k, m>> \in OpToRel(<, Nat))
  BY <1>1, WFMin, Zenon
<1>3. \A k \in S : ~ (k < m)
  BY <1>2 DEF OpToRel
<1> QED BY <1>3

\* Strong induction over the natural numbers, for a set.
LEMMA Induction ==
    ASSUME NEW S, 0 \in S, \A n \in Nat : (\A k \in 0..n : k \in S) => n + 1 \in S
    PROVE  Nat \subseteq S
<1> SUFFICES ASSUME Nat \ S # {} PROVE FALSE
  OBVIOUS
<1>1. PICK m \in Nat \ S : \A k \in Nat \ S : m <= k
  BY Least
<1>2. m # 0 /\ m - 1 \in Nat /\ \A k \in 0..(m - 1) : k \in S
  BY <1>1
<1>3. (m - 1) + 1 \in S
  BY <1>2
<1> QED BY <1>1, <1>3

\* f starts with v and goes on by the steps.
Recurs(f, N, v, step) == f[0] = v /\ \A n \in 1..N : f[n] = step[n][f[n - 1]]

\* There is a function that does, for any steps.
LEMMA Recursion ==
    ASSUME NEW N \in Nat, NEW V, NEW v \in V, NEW step \in [1..N -> [V -> V]]
    PROVE  \E f \in [0..N -> V] : Recurs(f, N, v, step)
<1> DEFINE Follows(f, n) == \A i \in 0..n :
                                f[i] = IF i = 0 THEN v ELSE step[i][f[i - 1]]
           S == {n \in Nat : n <= N => \E f \in [0..N -> V] : Follows(f, n)}
<1>1. 0 \in S
  <2>1. [i \in 0..N |-> v] \in [0..N -> V] /\ Follows([i \in 0..N |-> v], 0)
    OBVIOUS
  <2> QED BY <2>1
<1>2. ASSUME NEW n \in Nat, n \in S PROVE n + 1 \in S
  <2> SUFFICES ASSUME n + 1 <= N
               PROVE  \E f \in [0..N -> V] : Follows(f, n + 1)
    OBVIOUS
  <2>1. PICK f \in [0..N -> V] : Follows(f, n)
    BY <1>2
  <2> DEFINE g == [f EXCEPT ![n + 1] = step[n + 1][f[n]]]
  <2>2. n + 1 \in 1..N /\ n + 1 \in 0..N /\ n \in 0..N
    OBVIOUS
  <2>3. step[n + 1][f[n]] \in V
    BY <2>2
  <2>4. g \in [0..N -> V]
    BY <2>3
  <2>5. /\ g[n + 1] = step[n + 1][f[n]]
        /\ \A i \in 0..n : g[i] = f[i]
    BY <2>2
  <2>6. ASSUME NEW i \in 0..(n + 1)
        PROVE  g[i] = IF i = 0 THEN v ELSE step[i][g[i - 1]]
    <3> HIDE DEF g
    <3>1. CASE i = n + 1
      BY <2>5, <3>1
    <3>2. CASE i # n + 1
      <4>1. i \in 0..n /\ (i = 0 \/ i - 1 \in 0..n)
        BY <3>2
      <4> QED BY <2>1, <2>5, <4>1
    <3> QED BY <3>1, <3>2
  <2> QED BY <2>4, <2>6
<1>3. N \in S
  <2> HIDE DEF S
  <2>1. \A n \in Nat : (\A k \in 0..n : k \in S) => n + 1 \in S
    BY <1>2
  <2> QED BY <1>1, <2>1, Induction
<1>4. PICK f \in [0..N -> V] : Follows(f, N)
  BY <1>3
<1>5. Recurs(f, N, v, step)
  BY <1>4 DEF Recurs
<1> QED BY <1>5

-----------------------------------------------------------------------------
(* The encoding of one number                                               *)

\* The groups of bits, if those of fewer bits are in groups.
Group(groups, bits) ==
    IF bits < 32 THEN <<bits + 63>>
                 ELSE <<(bits % 32) + 32 + 63>> \o groups[bits \div 32]

\* g gives the groups of numbers up to n.
GroupsTo(n, g) == g = [bits \in 0..n |-> Group(g, bits)]

\* Two such functions agree.
LEMMA GroupsUnique ==
    ASSUME NEW m \in Nat, NEW n \in Nat, NEW g, NEW h, GroupsTo(m, g), GroupsTo(n, h),
           NEW bits \in Nat, bits <= m, bits <= n
    PROVE  g[bits] = h[bits]
<1> DEFINE S == {b \in Nat : b <= m /\ b <= n => g[b] = h[b]}
<1>1. /\ \A b \in 0..m : g[b] = Group(g, b)
      /\ \A b \in 0..n : h[b] = Group(h, b)
  BY DEF GroupsTo
<1>2. 0 \in S
  <2>1. g[0] = Group(g, 0) /\ h[0] = Group(h, 0)
    BY <1>1
  <2>2. Group(g, 0) = Group(h, 0)
    BY DEF Group
  <2> QED BY <2>1, <2>2
<1>3. ASSUME NEW b \in Nat, \A k \in 0..b : k \in S PROVE b + 1 \in S
  <2> SUFFICES ASSUME b + 1 <= m, b + 1 <= n PROVE g[b + 1] = h[b + 1]
    OBVIOUS
  <2>1. b + 1 >= 32 => (b + 1) \div 32 \in 0..b
    OBVIOUS
  <2>2. b + 1 >= 32 => g[(b + 1) \div 32] = h[(b + 1) \div 32]
    BY <1>3, <2>1
  <2>3. Group(g, b + 1) = Group(h, b + 1)
    BY <2>2 DEF Group
  <2>4. g[b + 1] = Group(g, b + 1) /\ h[b + 1] = Group(h, b + 1)
    BY <1>1
  <2> QED BY <2>3, <2>4
<1>4. Nat \subseteq S
  <2> HIDE DEF S
  <2> QED BY <1>2, <1>3, Induction
<1> QED BY <1>4

\* There is one for every n.
LEMMA GroupsExist ==
    ASSUME NEW n \in Nat PROVE \E g : GroupsTo(n, g)
<1> DEFINE S == {b \in Nat : \E g : GroupsTo(b, g)}
<1>1. 0 \in S
  <2>1. GroupsTo(0, [bits \in 0..0 |-> <<63>>])
    BY DEF GroupsTo, Group
  <2> QED BY <2>1
<1>2. ASSUME NEW b \in Nat, b \in S PROVE b + 1 \in S
  <2>1. PICK g : GroupsTo(b, g)
    BY <1>2
  <2> DEFINE h == [bits \in 0..(b + 1) |-> Group(g, bits)]
  <2>2. \A bits \in 0..b : g[bits] = Group(g, bits)
    BY <2>1 DEF GroupsTo
  <2>3. ASSUME NEW bits \in 0..(b + 1) PROVE Group(h, bits) = Group(g, bits)
    <3>1. bits >= 32 => bits \div 32 \in 0..b
      OBVIOUS
    <3>2. bits >= 32 => h[bits \div 32] = g[bits \div 32]
      BY <2>2, <3>1
    <3> QED BY <3>2 DEF Group
  <2>4. GroupsTo(b + 1, h)
    BY <2>3 DEF GroupsTo
  <2> QED BY <2>4
<1>3. Nat \subseteq S
  <2> HIDE DEF S
  <2> QED BY <1>1, <1>2, Induction
<1> QED BY <1>3

\* So Groups, the one for all numbers, is what its definition says.
LEMMA GroupsDef == ASSUME NEW bits \in Nat PROVE Groups[bits] = Group(Groups, bits)
<1> DEFINE Upto(n) == CHOOSE g : GroupsTo(n, g)
           P(g) == g = [n \in Nat |-> Group(g, n)]
           h == [n \in Nat |-> Upto(n)[n]]
<1>1. \A n \in Nat : GroupsTo(n, Upto(n))
  BY GroupsExist, Zenon
<1>2. ASSUME NEW n \in Nat PROVE h[n] = Group(h, n)
  <2>1. Upto(n)[n] = Group(Upto(n), n)
    <3> HIDE DEF Upto
    <3> QED BY <1>1 DEF GroupsTo
  <2>2. CASE n >= 32
    <3>1. n \div 32 \in Nat /\ n \div 32 <= n
      BY <2>2
    <3>2. Upto(n)[n \div 32] = Upto(n \div 32)[n \div 32]
      <4> HIDE DEF Upto
      <4> QED BY <1>1, <3>1, GroupsUnique
    <3> HIDE DEF Upto
    <3> QED BY <2>1, <3>1, <3>2 DEF Group
  <2>3. CASE n < 32
    <3> HIDE DEF Upto
    <3> QED BY <2>1, <2>3 DEF Group
  <2> QED BY <2>2, <2>3
<1>3. P(h)
  <2>1. h = [n \in Nat |-> h[n]]
    OBVIOUS
  <2> HIDE DEF h
  <2> QED BY <1>2, <2>1
<1>4. Groups = CHOOSE g : P(g)
  BY DEF Groups, Group
<1> HIDE DEF P, h
<1>5. P(CHOOSE g : P(g))
  BY <1>3, Zenon
<1>6. P(Groups)
  BY <1>4, <1>5
<1> QED BY <1>6 DEF P

-----------------------------------------------------------------------------
(* The decoder, step by step                                                *)

\* A point before its place on the globe is known.
Points == [lat : Int, lng : Int]

\* What the loops' variables may be.
States == [axis : {"lat", "lng"}, scale : Nat, bits : Nat, lat : Int, lng : Int,
           result : Seq(Points)]

\* A difference is a number.
LEMMA DifferenceType ==
    ASSUME NEW bits \in Nat, NEW inWeb PROVE Difference(bits, inWeb) \in Int
<1>1. bits \div 2 \in Nat /\ WordSize \in Nat
  BY RouteAssumption
<1> QED BY <1>1 DEF Difference, Complement

\* What the end of a difference does to each variable.
LEMMA CompleteEffect ==
    ASSUME NEW s \in States, NEW d \in Int
    PROVE  /\ Complete(s, d) \in States
           /\ s.axis = "lat" =>
                  Complete(s, d) = [axis |-> "lng", scale |-> 1, bits |-> 0,
                                    lat |-> s.lat + d, lng |-> s.lng,
                                    result |-> s.result]
           /\ s.axis = "lng" =>
                  Complete(s, d) = [axis |-> "lat", scale |-> 1, bits |-> 0,
                                    lat |-> s.lat, lng |-> s.lng + d,
                                    result |-> Append(s.result,
                                        [lat |-> s.lat, lng |-> s.lng + d])]
<1>1. s.axis = "lat" =>
                  Complete(s, d) = [axis |-> "lng", scale |-> 1, bits |-> 0,
                                    lat |-> s.lat + d, lng |-> s.lng,
                                    result |-> s.result]
  BY DEF Complete, States
<1>2. s.axis = "lng" =>
                  Complete(s, d) = [axis |-> "lat", scale |-> 1, bits |-> 0,
                                    lat |-> s.lat, lng |-> s.lng + d,
                                    result |-> Append(s.result,
                                        [lat |-> s.lat, lng |-> s.lng + d])]
  BY DEF Complete, States
<1>3. Append(s.result, [lat |-> s.lat, lng |-> s.lng + d]) \in Seq(Points)
  BY DEF States, Points
<1>4. Complete(s, d) \in States
  <2>1. s.lat + d \in Int /\ s.lng + d \in Int /\ s.lat \in Int /\ s.lng \in Int
        /\ s.result \in Seq(Points) /\ 0 \in Nat /\ 1 \in Nat
    BY DEF States
  <2>2. CASE s.axis = "lat"
    BY <1>1, <2>1, <2>2 DEF States
  <2>3. CASE s.axis = "lng"
    <3> DEFINE R == Append(s.result, [lat |-> s.lat, lng |-> s.lng + d])
    <3>1. R \in Seq(Points)
      BY <1>3
    <3>2. Complete(s, d) = [axis |-> "lat", scale |-> 1, bits |-> 0,
                            lat |-> s.lat, lng |-> s.lng + d, result |-> R]
      BY <1>2, <2>3
    <3> HIDE DEF R
    <3> QED BY <2>1, <3>1, <3>2 DEF States
  <2> QED BY <2>2, <2>3 DEF States
<1> QED BY <1>1, <1>2, <1>4

\* The bits with those of one more character.
Total(s, char) == s.bits + ((char - 63) % 32) * s.scale

\* What a character does: the bits grow, or a difference ends.
LEMMA ReadEffect ==
    ASSUME NEW s \in States, NEW char \in Int, NEW inWeb
    PROVE  /\ Total(s, char) \in Nat
           /\ Read(s, char, inWeb) \in States
           /\ char - 63 >= 32 =>
                  Read(s, char, inWeb) =
                      [s EXCEPT !.scale = s.scale * 32, !.bits = Total(s, char)]
           /\ char - 63 < 32 =>
                  Read(s, char, inWeb) =
                      Complete(s, Difference(Total(s, char), inWeb))
<1>1. (char - 63) % 32 \in Nat /\ s.scale \in Nat /\ s.bits \in Nat
  BY DEF States
<1>2. ((char - 63) % 32) * s.scale \in Nat /\ s.scale * 32 \in Nat
  BY <1>1
<1>3. Total(s, char) \in Nat
  BY <1>1, <1>2 DEF Total
<1>4. CASE char - 63 >= 32
  <2>1. Read(s, char, inWeb) =
            [s EXCEPT !.scale = s.scale * 32, !.bits = Total(s, char)]
    BY <1>4 DEF Read, Total
  <2>2. [s EXCEPT !.scale = s.scale * 32, !.bits = Total(s, char)] \in States
    BY <1>2, <1>3 DEF States
  <2> QED BY <1>3, <1>4, <2>1, <2>2
<1>5. CASE ~(char - 63 >= 32)
  <2>1. Read(s, char, inWeb) = Complete(s, Difference(Total(s, char), inWeb))
    BY <1>5 DEF Read, Total
  <2> QED BY <1>3, <1>5, <2>1, CompleteEffect, DifferenceType
<1> QED BY <1>4, <1>5

\* A character keeps the types of the variables.
LEMMA ReadType ==
    ASSUME NEW s \in States, NEW char \in Int, NEW inWeb
    PROVE  Read(s, char, inWeb) \in States
BY ReadEffect

\* Decoding is what its definition says: a character is a step.
LEMMA DecodingSteps ==
    ASSUME NEW encoded \in Seq(Int), NEW inWeb
    PROVE  /\ Decoding(encoded, inWeb) \in [0..Len(encoded) -> States]
           /\ Decoding(encoded, inWeb)[0] = Start
           /\ \A n \in 1..Len(encoded) :
                  Decoding(encoded, inWeb)[n] =
                      Read(Decoding(encoded, inWeb)[n - 1], encoded[n], inWeb)
<1> DEFINE N == Len(encoded)
           step == [n \in 1..N |-> [s \in States |-> Read(s, encoded[n], inWeb)]]
           P(g) == g = [n \in 0..N |->
               IF n = 0 THEN Start ELSE Read(g[n - 1], encoded[n], inWeb)]
<1>1. N \in Nat /\ \A n \in 1..N : encoded[n] \in Int
  OBVIOUS
<1>2. Start \in States
  BY DEF Start, States
<1>3. step \in [1..N -> [States -> States]]
  BY <1>1, ReadType
<1>4. PICK f \in [0..N -> States] : Recurs(f, N, Start, step)
  <2>1. N \in Nat
    BY <1>1
  <2> HIDE DEF step, N
  <2> QED BY <1>2, <1>3, <2>1, Recursion
<1>5. \A n \in 1..N : n - 1 \in 0..N /\ step[n][f[n - 1]] = Read(f[n - 1], encoded[n], inWeb)
  BY <1>1
<1>6. P(f)
  <2> HIDE DEF step
  <2> QED BY <1>4, <1>5 DEF Recurs
<1>7. Decoding(encoded, inWeb) = CHOOSE g : P(g)
  BY DEF Decoding
<1> DEFINE D == Decoding(encoded, inWeb)
<1>8. P(D)
  <2> HIDE DEF P
  <2> QED BY <1>6, <1>7, Zenon
<1>9. D[0] = Start /\ \A n \in 1..N : D[n] = Read(D[n - 1], encoded[n], inWeb)
  <2> HIDE DEF D
  <2> QED BY <1>1, <1>8
<1>10. \A n \in Nat : n <= N => D[n] \in States
  <2> DEFINE S == {n \in Nat : n <= N => D[n] \in States}
  <2>1. 0 \in S
    BY <1>2, <1>9
  <2>2. ASSUME NEW n \in Nat, \A k \in 0..n : k \in S PROVE n + 1 \in S
    <3> HIDE DEF D, N
    <3> SUFFICES ASSUME n + 1 <= N PROVE D[n + 1] \in States
      OBVIOUS
    <3>1. D[n + 1] = Read(D[n], encoded[n + 1], inWeb) /\ encoded[n + 1] \in Int
      BY <1>1, <1>9
    <3>2. D[n] \in States
      BY <1>1, <2>2
    <3> QED BY <3>1, <3>2, ReadType
  <2> HIDE DEF S
  <2>3. Nat \subseteq S
    BY <2>1, <2>2, Induction
  <2> QED BY <2>3 DEF S
<1>11. D \in [0..N -> States]
  <2> HIDE DEF D
  <2> QED BY <1>1, <1>8, <1>10
<1> QED BY <1>9, <1>11

-----------------------------------------------------------------------------
(* The encoding of one number is read as that number                        *)

\* Fewer than 32 are one group.
LEMMA GroupsSmall ==
    ASSUME NEW bits \in Nat, bits < 32 PROVE Groups[bits] = <<bits + 63>>
<1>1. Groups[bits] = Group(Groups, bits)
  BY GroupsDef
<1> QED BY <1>1 DEF Group

\* More are the lowest five bits and the groups of the others.
LEMMA GroupsLarge ==
    ASSUME NEW bits \in Nat, bits >= 32
    PROVE  Groups[bits] = <<(bits % 32) + 32 + 63>> \o Groups[bits \div 32]
<1>1. Groups[bits] = Group(Groups, bits)
  BY GroupsDef
<1>2. ~ (bits < 32)
  OBVIOUS
<1> QED BY <1>1, <1>2 DEF Group

\* A number is encoded as characters.
LEMMA GroupsType == \A bits \in Nat : Groups[bits] \in Seq(Int)
<1> DEFINE S == {b \in Nat : Groups[b] \in Seq(Int)}
<1>1. ASSUME NEW b \in Nat, b < 32 PROVE b \in S
  <2>1. Groups[b] = <<b + 63>> /\ b + 63 \in Int
    BY <1>1, GroupsSmall
  <2>2. <<b + 63>> \in Seq(Int)
    BY <2>1
  <2> QED BY <2>1, <2>2
<1>2. ASSUME NEW b \in Nat, \A k \in 0..b : k \in S PROVE b + 1 \in S
  <2>1. CASE b + 1 < 32
    BY <1>1, <2>1
  <2>2. CASE b + 1 >= 32
    <3> DEFINE c == ((b + 1) % 32) + 32 + 63
               q == (b + 1) \div 32
    <3>1. q \in 0..b /\ c \in Int
      BY <2>2
    <3>2. Groups[q] \in Seq(Int)
      BY <1>2, <3>1
    <3>3. Groups[b + 1] = <<c>> \o Groups[q]
      <4>1. b + 1 \in Nat
        OBVIOUS
      <4> QED BY <2>2, <4>1, GroupsLarge, Zenon
    <3> HIDE DEF c, q
    <3>4. PICK s : s = <<c>>
      OBVIOUS
    <3>5. s \in Seq(Int)
      BY <3>1, <3>4
    <3>6. s \o Groups[q] \in Seq(Int)
      BY <3>2, <3>5, ConcatProperties
    <3>7. Groups[b + 1] \in Seq(Int)
      BY <3>3, <3>4, <3>6, Zenon
    <3> QED BY <3>7
  <2> QED BY <2>1, <2>2
<1>3. 0 \in S
  BY <1>1
<1> HIDE DEF S
<1>4. Nat \subseteq S
  BY <1>2, <1>3, Induction
<1> QED BY <1>4 DEF S

\* The characters of group stand in encoded after the first i.
At(encoded, i, group) ==
    /\ i + Len(group) <= Len(encoded)
    /\ \A k \in 1..Len(group) : encoded[i + k] = group[k]

\* The length of a concatenation, with a name.
LEMMA ConcatLength ==
    ASSUME NEW s \in Seq(Int), NEW t \in Seq(Int), NEW u, u = s \o t
    PROVE  Len(u) = Len(s) + Len(t)
BY ConcatProperties

\* Where s and t stand, s stands, and t after it.
LEMMA AtPrefix ==
    ASSUME NEW encoded \in Seq(Int), NEW i \in Nat, NEW s \in Seq(Int),
           NEW t \in Seq(Int), NEW u, u = s \o t, At(encoded, i, u),
           NEW j, j = i + Len(s)
    PROVE  At(encoded, i, s) /\ At(encoded, j, t) /\ j \in Nat
<1>1. /\ Len(s) \in Nat /\ Len(t) \in Nat /\ Len(encoded) \in Nat
      /\ Len(u) = Len(s) + Len(t)
      /\ \A k \in 1..(Len(s) + Len(t)) :
            u[k] = IF k <= Len(s) THEN s[k] ELSE t[k - Len(s)]
  BY ConcatProperties
<1>2. \A k \in 1..Len(s) : k \in 1..(Len(s) + Len(t)) /\ u[k] = s[k]
  BY <1>1
<1>3. At(encoded, i, s)
  <2>1. i + Len(s) <= Len(encoded)
    BY <1>1 DEF At
  <2>2. \A k \in 1..Len(s) : encoded[i + k] = s[k]
    BY <1>1, <1>2 DEF At
  <2> QED BY <2>1, <2>2 DEF At
<1>4. ASSUME NEW k \in 1..Len(t) PROVE encoded[(i + Len(s)) + k] = t[k]
  <2>1. PICK n \in 1..(Len(s) + Len(t)) :
            n = Len(s) + k /\ ~ (n <= Len(s)) /\ n - Len(s) = k
    <3>1. PICK m \in Nat, l \in Nat : m = Len(s) /\ l = Len(t)
      BY LenProperties
    <3>2. /\ m + k \in 1..(m + l)
          /\ ~ (m + k <= m) /\ (m + k) - m = k
      BY <3>1
    <3> QED BY <3>1, <3>2
  <2>2. u[n] = t[k]
    BY <1>1, <2>1
  <2>3. encoded[i + n] = u[n]
    BY <1>1, <2>1 DEF At
  <2>4. i + n = (i + Len(s)) + k
    BY <1>1, <2>1
  <2> QED BY <2>2, <2>3, <2>4
<1>5. At(encoded, i + Len(s), t)
  BY <1>1, <1>4 DEF At
<1> QED BY <1>1, <1>3, <1>5

\* The end of a difference looks at neither scale nor bits.
LEMMA CompleteAgain ==
    ASSUME NEW s \in States, NEW r \in States, NEW d \in Int,
           r.axis = s.axis, r.lat = s.lat, r.lng = s.lng, r.result = s.result
    PROVE  Complete(r, d) = Complete(s, d)
<1>1. s.axis \in {"lat", "lng"}
  BY DEF States
<1>2. CASE s.axis = "lat"
  <2>1. Complete(r, d) = [axis |-> "lng", scale |-> 1, bits |-> 0,
                          lat |-> r.lat + d, lng |-> r.lng, result |-> r.result]
    BY <1>2, CompleteEffect
  <2>2. Complete(s, d) = [axis |-> "lng", scale |-> 1, bits |-> 0,
                          lat |-> s.lat + d, lng |-> s.lng, result |-> s.result]
    BY <1>2, CompleteEffect
  <2> QED BY <2>1, <2>2
<1>3. CASE s.axis = "lng"
  <2>1. Complete(r, d) =
            [axis |-> "lat", scale |-> 1, bits |-> 0, lat |-> r.lat, lng |-> r.lng + d,
             result |-> Append(r.result, [lat |-> r.lat, lng |-> r.lng + d])]
    BY <1>3, CompleteEffect
  <2>2. Complete(s, d) =
            [axis |-> "lat", scale |-> 1, bits |-> 0, lat |-> s.lat, lng |-> s.lng + d,
             result |-> Append(s.result, [lat |-> s.lat, lng |-> s.lng + d])]
    BY <1>3, CompleteEffect
  <2> QED BY <2>1, <2>2
<1> QED BY <1>1, <1>2, <1>3

\* The type of the bits with one more group.
LEMMA ProductNat ==
    ASSUME NEW m \in Nat, NEW n \in Nat, NEW k \in Nat PROVE m + n * k \in Nat
<1>1. n * k \in Nat
  OBVIOUS
<1> QED BY <1>1

\* The lowest five bits and the others are the number, at any scale.
LEMMA Regroup ==
    ASSUME NEW n \in Nat, NEW q, NEW r, q = n \div 32, r = n % 32
    PROVE  /\ q \in Nat /\ r \in Nat /\ (r + 32) % 32 = r
           /\ n >= 32 => q < n
           /\ \A scale, bits \in Nat :
                  (bits + r * scale) + q * (scale * 32) = bits + n * scale
<1>1. /\ q \in Nat /\ r \in Nat /\ n = 32 * q + r /\ (r + 32) % 32 = r
      /\ n >= 32 => q < n
  OBVIOUS
<1>2. ASSUME NEW scale \in Nat, NEW bits \in Nat
      PROVE  (bits + r * scale) + q * (scale * 32) = bits + n * scale
  <2>1. n * scale = 32 * q * scale + r * scale
    BY <1>1
  <2>2. q * (scale * 32) = 32 * q * scale
    BY <1>1
  <2> QED BY <1>1, <2>1, <2>2
<1> QED BY <1>1, <1>2

\* After s, bits with their scale complete a difference.
Completed(s, bits, inWeb) ==
    Complete(s, Difference(s.bits + bits * s.scale, inWeb))

\* The groups of bits are read as bits, wherever they stand in encoded.
Reads(encoded, inWeb, bits) ==
    \A i \in 0..Len(encoded) : At(encoded, i, Groups[bits]) =>
        Decoding(encoded, inWeb)[i + Len(Groups[bits])] =
            Completed(Decoding(encoded, inWeb)[i], bits, inWeb)

\* One character is one step.
LEMMA OneRead ==
    ASSUME NEW encoded \in Seq(Int), NEW inWeb, NEW i \in 0..Len(encoded),
           NEW c \in Int, At(encoded, i, <<c>>)
    PROVE  /\ i + 1 \in 0..Len(encoded) /\ Len(<<c>>) = 1
           /\ Decoding(encoded, inWeb)[i] \in States
           /\ Decoding(encoded, inWeb)[i + 1] =
                  Read(Decoding(encoded, inWeb)[i], c, inWeb)
<1>1. /\ i + 1 <= Len(encoded) /\ encoded[i + 1] = c /\ Len(<<c>>) = 1
  BY DEF At
<1>2. i + 1 \in 1..Len(encoded) /\ (i + 1) - 1 = i /\ i + 1 \in 0..Len(encoded)
  BY <1>1
<1> QED BY <1>1, <1>2, DecodingSteps

\* One group is read as its bits.
LEMMA ReadsSmall ==
    ASSUME NEW encoded \in Seq(Int), NEW inWeb, NEW bits \in Nat, bits < 32
    PROVE  Reads(encoded, inWeb, bits)
<1> SUFFICES ASSUME NEW i \in 0..Len(encoded), At(encoded, i, Groups[bits])
             PROVE  Decoding(encoded, inWeb)[i + Len(Groups[bits])] =
                        Completed(Decoding(encoded, inWeb)[i], bits, inWeb)
  BY DEF Reads
<1>1. Groups[bits] = <<bits + 63>>
  BY GroupsSmall
<1>2. PICK c \in Int : c = bits + 63
  OBVIOUS
<1>3. /\ Len(Groups[bits]) = 1
      /\ Decoding(encoded, inWeb)[i] \in States
      /\ Decoding(encoded, inWeb)[i + 1] = Read(Decoding(encoded, inWeb)[i], c, inWeb)
  BY <1>1, <1>2, OneRead
<1>4. (c - 63) % 32 = bits /\ c - 63 < 32
  BY <1>2
<1>5. ASSUME NEW s \in States PROVE Read(s, c, inWeb) = Completed(s, bits, inWeb)
  <2>1. Read(s, c, inWeb) = Complete(s, Difference(Total(s, c), inWeb))
    BY <1>4, ReadEffect
  <2>2. Total(s, c) = s.bits + bits * s.scale
    BY <1>4 DEF Total
  <2> QED BY <2>1, <2>2 DEF Completed
<1> QED BY <1>3, <1>5

\* A group more is, if the others are.
LEMMA ReadsLarge ==
    ASSUME NEW encoded \in Seq(Int), NEW inWeb, NEW bits \in Nat, bits >= 32,
           Reads(encoded, inWeb, bits \div 32)
    PROVE  Reads(encoded, inWeb, bits)
<1> SUFFICES ASSUME NEW i \in 0..Len(encoded), At(encoded, i, Groups[bits])
             PROVE  Decoding(encoded, inWeb)[i + Len(Groups[bits])] =
                        Completed(Decoding(encoded, inWeb)[i], bits, inWeb)
  BY DEF Reads
<1>1. PICK q, r, c, s, t :
          /\ q = bits \div 32 /\ r = bits % 32 /\ c = r + 32 + 63
          /\ s = Decoding(encoded, inWeb)[i] /\ t = Decoding(encoded, inWeb)[i + 1]
  OBVIOUS
<1>2. q \in Nat /\ r \in Nat /\ c \in Int /\ (r + 32) % 32 = r
  BY <1>1, Regroup
<1>3. Groups[bits] = <<c>> \o Groups[q]
  BY <1>1, GroupsLarge
<1>4. PICK first \in Seq(Int) : first = <<c>>
  <2>1. <<c>> \in Seq(Int)
    BY <1>2
  <2> QED BY <2>1
<1>5. PICK rest \in Seq(Int) : rest = Groups[q]
  BY <1>2, GroupsType
<1>6. PICK all : all = first \o rest
  OBVIOUS
<1>7. all = Groups[bits]
  BY <1>3, <1>4, <1>5, <1>6
<1>8. At(encoded, i, all)
  BY <1>7
<1>9. /\ At(encoded, i, <<c>>) /\ At(encoded, i + 1, Groups[q])
      /\ i + Len(Groups[bits]) = (i + 1) + Len(Groups[q])
  <2>1. PICK j : j = i + Len(first)
    OBVIOUS
  <2>2. Len(first) = 1 /\ i \in Nat /\ Len(rest) \in Nat
    BY <1>4
  <2>3. At(encoded, i, first) /\ At(encoded, j, rest)
    BY <1>6, <1>8, <2>1, <2>2, AtPrefix
  <2>4. j = i + 1
    BY <2>1, <2>2
  <2>5. i + Len(all) = (i + 1) + Len(rest)
    <3>1. Len(all) = Len(first) + Len(rest)
      BY <1>6, ConcatLength
    <3> QED BY <2>2, <3>1
  <2> QED BY <1>4, <1>5, <1>7, <2>3, <2>4, <2>5
<1>10. /\ i + 1 \in 0..Len(encoded) /\ s \in States /\ t = Read(s, c, inWeb)
  BY <1>1, <1>2, <1>4, <1>9, OneRead
<1>11. PICK scale \in Nat, had \in Nat : s.scale = scale /\ s.bits = had
  BY <1>10 DEF States
<1>12. PICK total : total = Total(s, c)
  OBVIOUS
<1>13. c - 63 >= 32 /\ (c - 63) % 32 = r
  <2>1. c - 63 = r + 32
    BY <1>1, <1>2
  <2> QED BY <1>2, <2>1
<1>14. PICK next \in Nat : next = scale * 32
  OBVIOUS
<1>15. total \in Nat /\ t = [s EXCEPT !.scale = next, !.bits = total]
  BY <1>2, <1>10, <1>11, <1>12, <1>13, <1>14, ReadEffect
<1>16. total = had + r * scale
  BY <1>11, <1>12, <1>13 DEF Total
<1>17. /\ t \in States /\ t.scale = scale * 32 /\ t.bits = total
      /\ t.axis = s.axis /\ t.lat = s.lat /\ t.lng = s.lng /\ t.result = s.result
  BY <1>10, <1>15, <1>14 DEF States
<1>18. total + q * (scale * 32) = had + bits * scale
  BY <1>1, <1>16, Regroup
<1>19. had + bits * scale \in Nat
  BY ProductNat
<1>20. PICK d \in Int : d = Difference(had + bits * scale, inWeb)
  BY <1>19, DifferenceType
<1>21. Complete(t, d) = Complete(s, d)
  BY <1>10, <1>17, CompleteAgain
<1>22. Completed(t, q, inWeb) = Completed(s, bits, inWeb)
  BY <1>11, <1>17, <1>18, <1>20, <1>21 DEF Completed
<1>23. Decoding(encoded, inWeb)[(i + 1) + Len(Groups[q])] = Completed(t, q, inWeb)
  BY <1>1, <1>9, <1>10 DEF Reads
<1> QED BY <1>1, <1>9, <1>22, <1>23

\* All groups are read as the bits they encode.
LEMMA GroupsRead ==
    ASSUME NEW encoded \in Seq(Int), NEW inWeb
    PROVE  \A bits \in Nat : Reads(encoded, inWeb, bits)
<1> DEFINE S == {b \in Nat : Reads(encoded, inWeb, b)}
<1>1. ASSUME NEW b \in Nat, \A k \in 0..b : k \in S PROVE b + 1 \in S
  <2>1. CASE b + 1 < 32
    BY <2>1, ReadsSmall
  <2>2. CASE b + 1 >= 32
    <3>1. (b + 1) \div 32 \in 0..b
      BY <2>2
    <3>2. Reads(encoded, inWeb, (b + 1) \div 32)
      BY <1>1, <3>1
    <3> QED BY <2>2, <3>2, ReadsLarge
  <2> QED BY <2>1, <2>2
<1>2. 0 \in S
  BY ReadsSmall
<1> HIDE DEF S
<1>3. Nat \subseteq S
  BY <1>1, <1>2, Induction
<1> QED BY <1>3 DEF S

\* What the program makes of a difference.
Moved(n, inWeb) == IF inWeb /\ n < 0 THEN n + WordSize ELSE n

\* It is too large for a fall in a browser, and right otherwise.
LEMMA MovedType ==
    ASSUME NEW n \in Int, NEW inWeb
    PROVE  /\ Moved(n, inWeb) \in Int /\ Moved(n, inWeb) >= n
           /\ inWeb /\ n < 0 => Moved(n, inWeb) > n
           /\ ~ (inWeb /\ n < 0) => Moved(n, inWeb) = n
BY RouteAssumption DEF Moved

\* A number is encoded in bits of which the program makes Moved.
LEMMA NumberBits ==
    ASSUME NEW n \in Int
    PROVE  \E bits \in Nat : /\ EncodeNumber(n) = Groups[bits]
                             /\ \A inWeb : Difference(bits, inWeb) = Moved(n, inWeb)
<1>1. PICK bits : bits = IF n < 0 THEN -2 * n - 1 ELSE 2 * n
  OBVIOUS
<1>2. bits \in Nat /\ EncodeNumber(n) = Groups[bits]
  BY <1>1 DEF EncodeNumber
<1>3. WordSize \in Int
  BY RouteAssumption
<1>4. CASE n < 0
  <2>1. bits = -2 * n - 1 /\ bits % 2 = 1 /\ bits \div 2 = -n - 1
    BY <1>1, <1>4
  <2>2. ASSUME NEW inWeb PROVE Difference(bits, inWeb) = Moved(n, inWeb)
    BY <1>3, <1>4, <2>1 DEF Difference, Complement, Moved
  <2> QED BY <1>2, <2>2
<1>5. CASE ~ (n < 0)
  <2>1. bits % 2 = 0 /\ bits \div 2 = n
    BY <1>1, <1>5
  <2>2. ASSUME NEW inWeb PROVE Difference(bits, inWeb) = Moved(n, inWeb)
    BY <1>5, <2>1 DEF Difference, Moved
  <2> QED BY <1>2, <2>2
<1> QED BY <1>4, <1>5

\* An encoded number is characters.
LEMMA NumberType == ASSUME NEW n \in Int PROVE EncodeNumber(n) \in Seq(Int)
BY NumberBits, GroupsType

\* By the j-th character n has been read in state s.
HasRead(encoded, inWeb, j, s, n) ==
    Decoding(encoded, inWeb)[j] = Complete(s, Moved(n, inWeb))

\* An encoded number is read as Moved, wherever it stands.
LEMMA NumberRead ==
    ASSUME NEW encoded \in Seq(Int), NEW inWeb, NEW n \in Int,
           NEW code, code = EncodeNumber(n),
           NEW i \in 0..Len(encoded), At(encoded, i, code),
           NEW j, j = i + Len(code),
           NEW s, s = Decoding(encoded, inWeb)[i], s.scale = 1, s.bits = 0
    PROVE  /\ j \in 0..Len(encoded) /\ s \in States
           /\ HasRead(encoded, inWeb, j, s, n)
<1>1. PICK bits \in Nat : /\ EncodeNumber(n) = Groups[bits]
                          /\ Difference(bits, inWeb) = Moved(n, inWeb)
  BY NumberBits
<1>2. Reads(encoded, inWeb, bits)
  BY GroupsRead
<1>3. Decoding(encoded, inWeb)[j] = Completed(s, bits, inWeb)
  BY <1>1, <1>2 DEF Reads
<1>4. s.bits + bits * s.scale = bits
  OBVIOUS
<1>5. Len(code) \in Nat /\ Len(encoded) \in Nat
  <2>1. code \in Seq(Int)
    BY NumberType
  <2> QED BY <2>1, LenProperties
<1>6. j \in 0..Len(encoded)
  BY <1>5 DEF At
<1>7. s \in States
  BY DecodingSteps
<1> QED BY <1>1, <1>3, <1>4, <1>6, <1>7 DEF Completed, HasRead

-----------------------------------------------------------------------------
(* The encoding of one point is read as that point                          *)

\* The point before the k-th.
Before(points, k) == IF k = 1 THEN [lat |-> 0, lng |-> 0] ELSE points[k - 1]

\* It is a point.
LEMMA BeforeType ==
    ASSUME NEW points \in Seq(Points), NEW k \in 1..(Len(points) + 1)
    PROVE  Before(points, k) \in Points
<1>1. CASE k = 1
  BY <1>1 DEF Before, Points
<1>2. CASE k # 1
  <2>1. k - 1 \in 1..Len(points)
    BY <1>2
  <2>2. points[k - 1] \in Points
    BY <2>1, ElementOfSeq
  <2> QED BY <1>2, <2>2 DEF Before
<1> QED BY <1>1, <1>2

\* A point is encoded as how far it is north and east of the one before.
LEMMA PointCode ==
    ASSUME NEW points \in Seq(Points), NEW k \in 1..Len(points)
    PROVE  \E north, east \in Int :
               /\ north = points[k].lat - Before(points, k).lat
               /\ east = points[k].lng - Before(points, k).lng
               /\ points[k] \in Points /\ Before(points, k) \in Points
               /\ EncodePoint(points, k) = EncodeNumber(north) \o EncodeNumber(east)
               /\ EncodePoint(points, k) \in Seq(Int)
<1>1. points[k] \in Points /\ Before(points, k) \in Points
  <2>1. k \in 1..(Len(points) + 1)
    OBVIOUS
  <2> QED BY <2>1, BeforeType, ElementOfSeq
<1>2. PICK north, east \in Int : /\ north = points[k].lat - Before(points, k).lat
                                 /\ east = points[k].lng - Before(points, k).lng
  BY <1>1 DEF Points
<1>3. EncodePoint(points, k) = EncodeNumber(north) \o EncodeNumber(east)
  BY <1>2 DEF EncodePoint, Before
<1>4. PICK s \in Seq(Int), t \in Seq(Int) : s = EncodeNumber(north) /\ t = EncodeNumber(east)
  BY NumberType
<1>5. s \o t \in Seq(Int)
  BY ConcatProperties
<1> QED BY <1>1, <1>2, <1>3, <1>4, <1>5

\* The state t after the k-th point, from s before it.
AddsPoint(points, k, inWeb, s, t) ==
    \E lat, lng \in Int :
        /\ lat = s.lat + Moved(points[k].lat - Before(points, k).lat, inWeb)
        /\ lng = s.lng + Moved(points[k].lng - Before(points, k).lng, inWeb)
        /\ t = [axis |-> "lat", scale |-> 1, bits |-> 0, lat |-> lat, lng |-> lng,
                result |-> Append(s.result, [lat |-> lat, lng |-> lng])]

\* The code of a point adds it, wherever it stands.
LEMMA PointRead ==
    ASSUME NEW points \in Seq(Points), NEW k \in 1..Len(points),
           NEW encoded \in Seq(Int), NEW inWeb,
           NEW code, code = EncodePoint(points, k),
           NEW i \in 0..Len(encoded), At(encoded, i, code),
           NEW j, j = i + Len(code),
           NEW s, s = Decoding(encoded, inWeb)[i],
           s.axis = "lat", s.scale = 1, s.bits = 0
    PROVE  AddsPoint(points, k, inWeb, s, Decoding(encoded, inWeb)[j])
<1>1. PICK north, east \in Int :
          /\ north = points[k].lat - Before(points, k).lat
          /\ east = points[k].lng - Before(points, k).lng
          /\ EncodePoint(points, k) = EncodeNumber(north) \o EncodeNumber(east)
  BY PointCode
<1>2. PICK a \in Seq(Int), b \in Seq(Int) : a = EncodeNumber(north) /\ b = EncodeNumber(east)
  BY NumberType
<1>3. code = a \o b
  BY <1>1, <1>2
<1>4. i \in Nat
  OBVIOUS
<1>5. PICK m : m = i + Len(a)
  OBVIOUS
<1>6. At(encoded, i, a) /\ At(encoded, m, b)
  BY <1>3, <1>4, <1>5, AtPrefix
<1>7. j = m + Len(b)
  <2>1. Len(code) = Len(a) + Len(b) /\ Len(a) \in Nat /\ Len(b) \in Nat
    BY <1>3, ConcatLength, LenProperties
  <2> QED BY <1>4, <1>5, <2>1
<1>8. /\ m \in 0..Len(encoded) /\ s \in States
      /\ HasRead(encoded, inWeb, m, s, north)
  BY <1>2, <1>5, <1>6, NumberRead
<1>9. PICK u : u = Decoding(encoded, inWeb)[m]
  OBVIOUS
<1>10. Moved(north, inWeb) \in Int /\ Moved(east, inWeb) \in Int
  BY MovedType
<1>11. PICK lat \in Int : lat = s.lat + Moved(north, inWeb)
  <2>1. s.lat \in Int
    BY <1>8 DEF States
  <2> QED BY <1>10, <2>1
<1>12. /\ u = [axis |-> "lng", scale |-> 1, bits |-> 0, lat |-> lat, lng |-> s.lng,
              result |-> s.result]
       /\ u \in States
  <2>1. PICK d \in Int : d = Moved(north, inWeb)
    BY <1>10
  <2>2. u = Complete(s, d)
    BY <1>8, <1>9, <2>1 DEF HasRead
  <2>3. Complete(s, d) \in States
    BY <1>8, CompleteEffect
  <2>4. Complete(s, d) = [axis |-> "lng", scale |-> 1, bits |-> 0,
                          lat |-> s.lat + d, lng |-> s.lng,
                          result |-> s.result]
    BY <1>8, CompleteEffect
  <2>5. s.lat + d = lat
    BY <1>11, <2>1
  <2> QED BY <2>2, <2>3, <2>4, <2>5
<1>13. /\ u.axis = "lng" /\ u.scale = 1 /\ u.bits = 0 /\ u.lat = lat
       /\ u.lng = s.lng /\ u.result = s.result
  BY <1>12
<1>14. Decoding(encoded, inWeb)[j] = Complete(u, Moved(east, inWeb))
  <2>1. HasRead(encoded, inWeb, j, u, east)
    BY <1>2, <1>6, <1>7, <1>8, <1>9, <1>13, NumberRead
  <2> QED BY <2>1 DEF HasRead
<1>15. PICK lng \in Int : lng = s.lng + Moved(east, inWeb)
  <2>1. s.lng \in Int
    BY <1>8 DEF States
  <2> QED BY <1>10, <2>1
<1>16. Complete(u, Moved(east, inWeb)) =
           [axis |-> "lat", scale |-> 1, bits |-> 0, lat |-> u.lat,
            lng |-> u.lng + Moved(east, inWeb),
            result |-> Append(u.result, [lat |-> u.lat,
                                         lng |-> u.lng + Moved(east, inWeb)])]
  BY <1>10, <1>12, <1>13, CompleteEffect
<1>17. Decoding(encoded, inWeb)[j] =
           [axis |-> "lat", scale |-> 1, bits |-> 0, lat |-> lat, lng |-> lng,
            result |-> Append(s.result, [lat |-> lat, lng |-> lng])]
  BY <1>13, <1>14, <1>15, <1>16
<1> QED BY <1>1, <1>11, <1>15, <1>17 DEF AddsPoint

-----------------------------------------------------------------------------
(* The encoding of a route begins with that of its first points             *)

\* Encoding is what its definition says: a point is a step.
LEMMA EncodingSteps ==
    ASSUME NEW points \in Seq(Points)
    PROVE  /\ Encoding(points) \in [0..Len(points) -> Seq(Int)]
           /\ Encoding(points)[0] = <<>>
           /\ \A k \in 1..Len(points) :
                  Encoding(points)[k] = Encoding(points)[k - 1] \o EncodePoint(points, k)
<1> DEFINE step == [k \in 1..Len(points) |->
                       [code \in Seq(Int) |-> code \o EncodePoint(points, k)]]
           P(g) == g = [k \in 0..Len(points) |->
               IF k = 0 THEN <<>> ELSE g[k - 1] \o EncodePoint(points, k)]
<1>1. Len(points) \in Nat /\ <<>> \in Seq(Int)
  OBVIOUS
<1>2. step \in [1..Len(points) -> [Seq(Int) -> Seq(Int)]]
  <2>1. ASSUME NEW k \in 1..Len(points), NEW code \in Seq(Int)
        PROVE  code \o EncodePoint(points, k) \in Seq(Int)
    <3>1. EncodePoint(points, k) \in Seq(Int)
      BY PointCode
    <3> QED BY <3>1, ConcatProperties
  <2> QED BY <2>1
<1>3. PICK N \in Nat, v \in Seq(Int) : N = Len(points) /\ v = <<>>
  BY <1>1
<1>4. PICK f \in [0..N -> Seq(Int)] : Recurs(f, N, v, step)
  <2> HIDE DEF step
  <2> QED BY <1>2, <1>3, Recursion
<1>5. \A k \in 1..Len(points) :
          f[k - 1] \in Seq(Int) /\ step[k][f[k - 1]] = f[k - 1] \o EncodePoint(points, k)
  <2>1. \A k \in 1..Len(points) : f[k - 1] \in Seq(Int)
    BY <1>3
  <2> QED BY <2>1
<1>6. P(f)
  <2> HIDE DEF step
  <2>1. f[0] = <<>>
    BY <1>3, <1>4 DEF Recurs
  <2>2. \A k \in 1..Len(points) : f[k] = f[k - 1] \o EncodePoint(points, k)
    BY <1>3, <1>4, <1>5 DEF Recurs
  <2>3. ASSUME NEW k \in 0..Len(points)
        PROVE  f[k] = IF k = 0 THEN <<>> ELSE f[k - 1] \o EncodePoint(points, k)
    <3>1. k = 0 \/ k \in 1..Len(points)
      OBVIOUS
    <3> QED BY <2>1, <2>2, <3>1
  <2> QED BY <1>3, <2>3
<1>7. Encoding(points) = CHOOSE g : P(g)
  BY DEF Encoding
<1> DEFINE C == Encoding(points)
<1>8. P(C)
  <2> HIDE DEF P
  <2> QED BY <1>6, <1>7, Zenon
<1>9. /\ C[0] = <<>>
      /\ \A k \in 1..Len(points) : C[k] = C[k - 1] \o EncodePoint(points, k)
  <2> HIDE DEF C
  <2>1. ASSUME NEW k \in 0..Len(points)
        PROVE  C[k] = IF k = 0 THEN <<>> ELSE C[k - 1] \o EncodePoint(points, k)
    BY <1>8
  <2>2. C[0] = <<>>
    BY <1>1, <2>1
  <2>3. ASSUME NEW k \in 1..Len(points)
        PROVE  C[k] = C[k - 1] \o EncodePoint(points, k)
    <3>1. k \in 0..Len(points) /\ k # 0
      OBVIOUS
    <3> QED BY <2>1, <3>1
  <2> QED BY <2>2, <2>3
<1>10. \A n \in Nat : n <= Len(points) => C[n] \in Seq(Int)
  <2> DEFINE S == {n \in Nat : n <= Len(points) => C[n] \in Seq(Int)}
  <2>1. 0 \in S
    BY <1>1, <1>9
  <2>2. ASSUME NEW n \in Nat, \A k \in 0..n : k \in S PROVE n + 1 \in S
    <3> HIDE DEF C
    <3> SUFFICES ASSUME n + 1 <= Len(points) PROVE C[n + 1] \in Seq(Int)
      OBVIOUS
    <3>1. n + 1 \in 1..Len(points) /\ (n + 1) - 1 = n
      BY <1>1
    <3>2. C[n + 1] = C[n] \o EncodePoint(points, n + 1)
      BY <1>9, <3>1
    <3>3. C[n] \in Seq(Int)
      BY <1>1, <2>2
    <3>4. EncodePoint(points, n + 1) \in Seq(Int)
      BY <3>1, PointCode
    <3> QED BY <3>2, <3>3, <3>4, ConcatProperties
  <2> HIDE DEF S
  <2>3. Nat \subseteq S
    BY <2>1, <2>2, Induction
  <2> QED BY <2>3 DEF S
<1>11. C \in [0..Len(points) -> Seq(Int)]
  <2> HIDE DEF C
  <2> QED BY <1>1, <1>8, <1>10
<1> QED BY <1>9, <1>11

\* The code of the first k points begins the code of all.
LEMMA EncodingBegins ==
    ASSUME NEW points \in Seq(Points), NEW k \in 0..Len(points)
    PROVE  At(Encode(points), 0, Encoding(points)[k])
<1>1. PICK C \in [0..Len(points) -> Seq(Int)] :
          /\ C = Encoding(points)
          /\ \A n \in 1..Len(points) : C[n] = C[n - 1] \o EncodePoint(points, n)
  BY EncodingSteps
<1>2. Len(points) \in Nat /\ k \in Nat /\ \A n \in 0..Len(points) : C[n] \in Seq(Int)
  BY <1>1
<1> DEFINE S == {n \in Nat : k + n <= Len(points) => At(C[k + n], 0, C[k])}
<1>3. 0 \in S
  <2>1. C[k] \in Seq(Int)
    BY <1>2
  <2>2. At(C[k], 0, C[k])
    BY <2>1 DEF At
  <2>3. k + 0 = k
    BY <1>2
  <2> QED BY <2>2, <2>3
<1>4. ASSUME NEW n \in Nat, \A m \in 0..n : m \in S PROVE n + 1 \in S
  <2> SUFFICES ASSUME k + (n + 1) <= Len(points) PROVE At(C[k + (n + 1)], 0, C[k])
    OBVIOUS
  <2>1. /\ k + n \in 0..Len(points) /\ k + (n + 1) \in 1..Len(points)
        /\ (k + (n + 1)) - 1 = k + n
    BY <1>2
  <2>2. At(C[k + n], 0, C[k])
    <3>1. n \in S
      BY <1>4
    <3> QED BY <2>1, <3>1
  <2>3. PICK b \in Seq(Int) : b = C[k + n]
    BY <1>2, <2>1
  <2>4. PICK code \in Seq(Int) : code = EncodePoint(points, k + (n + 1))
    BY <2>1, PointCode
  <2>5. PICK a \in Seq(Int) : a = C[k]
    BY <1>2
  <2>6. PICK c \in Seq(Int) : c = C[k + (n + 1)]
    BY <1>2, <2>1
  <2>7. c = b \o code
    BY <1>1, <2>1, <2>3, <2>4, <2>6
  <2>8. /\ Len(a) \in Nat /\ Len(b) \in Nat /\ Len(code) \in Nat /\ Len(a) <= Len(b)
        /\ \A i \in 1..Len(a) : b[i] = a[i]
    <3>1. At(b, 0, a)
      BY <2>2, <2>3, <2>5
    <3>2. \A i \in 1..Len(a) : b[0 + i] = a[i] /\ 0 + i = i
      BY <3>1 DEF At
    <3> QED BY <3>1, <3>2, LenProperties DEF At
  <2>9. Len(c) = Len(b) + Len(code) /\ \A i \in 1..Len(b) : c[i] = b[i]
    BY <2>7, <2>8, ConcatProperties
  <2>10. ASSUME NEW i \in 1..Len(a) PROVE c[0 + i] = a[i]
    <3>1. i \in 1..Len(b) /\ 0 + i = i
      <4>1. PICK m \in Nat, l \in Nat : m = Len(a) /\ l = Len(b) /\ m <= l
        BY <2>8
      <4> QED BY <4>1
    <3> QED BY <2>8, <2>9, <3>1
  <2>11. At(c, 0, a)
    BY <2>8, <2>9, <2>10 DEF At
  <2> QED BY <2>5, <2>6, <2>11
<1>5. Len(points) - k \in S
  <2>1. Len(points) - k \in Nat
    BY <1>2
  <2> HIDE DEF S
  <2> QED BY <1>3, <1>4, <2>1, Induction
<1>6. k + (Len(points) - k) = Len(points) /\ Len(points) - k \in Nat
  BY <1>2
<1>7. At(C[Len(points)], 0, C[k])
  BY <1>2, <1>5, <1>6
<1> QED BY <1>1, <1>7 DEF Encode

\* After the code of k points stands that of the next.
LEMMA EncodingGoesOn ==
    ASSUME NEW points \in Seq(Points), NEW k \in 1..Len(points), NEW i, NEW j,
           i = Len(Encoding(points)[k - 1]), j = Len(Encoding(points)[k])
    PROVE  /\ Encode(points) \in Seq(Int)
           /\ i \in 0..Len(Encode(points))
           /\ At(Encode(points), i, EncodePoint(points, k))
           /\ j = i + Len(EncodePoint(points, k))
<1>1. PICK a \in Seq(Int), c \in Seq(Int) :
          a = Encoding(points)[k - 1] /\ c = Encoding(points)[k]
  <2>1. Encoding(points) \in [0..Len(points) -> Seq(Int)]
    BY EncodingSteps
  <2>2. k - 1 \in 0..Len(points) /\ k \in 0..Len(points)
    OBVIOUS
  <2> QED BY <2>1, <2>2
<1>2. PICK b \in Seq(Int) : b = EncodePoint(points, k)
  BY PointCode
<1>3. c = a \o b
  BY <1>1, <1>2, EncodingSteps
<1>4. PICK e \in Seq(Int) : e = Encode(points)
  <2>1. Len(points) \in 0..Len(points)
    BY LenProperties
  <2>2. Encoding(points)[Len(points)] \in Seq(Int)
    BY <2>1, EncodingSteps
  <2> QED BY <2>2 DEF Encode
<1>5. At(e, 0, c) /\ At(e, 0, a)
  BY <1>1, <1>4, EncodingBegins
<1>6. i = 0 + Len(a) /\ i \in 0..Len(e)
  BY <1>1, <1>5 DEF At
<1>7. At(e, i, b)
  BY <1>3, <1>5, <1>6, AtPrefix
<1>8. j = i + Len(b)
  BY <1>1, <1>3, <1>6, ConcatLength
<1> QED BY <1>2, <1>4, <1>6, <1>7, <1>8

-----------------------------------------------------------------------------
(* The decoder tracks the route                                             *)

\* The route goes south or west to the k-th point.
FallsAt(points, k) ==
    \/ points[k].lat < Before(points, k).lat
    \/ points[k].lng < Before(points, k).lng

\* A route falls if it does so at some point.
LEMMA FallsSomewhere ==
    ASSUME NEW points \in Seq(Points)
    PROVE  Falls(points) <=> \E k \in 1..Len(points) : FallsAt(points, k)
<1>1. ASSUME points # <<>>, points[1].lat < 0 \/ points[1].lng < 0
      PROVE  \E k \in 1..Len(points) : FallsAt(points, k)
  <2>1. 1 \in 1..Len(points)
    BY <1>1
  <2>2. FallsAt(points, 1)
    BY <1>1 DEF FallsAt, Before
  <2> QED BY <2>1, <2>2
<1>2. ASSUME NEW i \in 2..Len(points),
             points[i].lat < points[i - 1].lat \/ points[i].lng < points[i - 1].lng
      PROVE  \E k \in 1..Len(points) : FallsAt(points, k)
  <2>1. i \in 1..Len(points) /\ i # 1
    OBVIOUS
  <2>2. FallsAt(points, i)
    BY <1>2, <2>1 DEF FallsAt, Before
  <2> QED BY <2>1, <2>2
<1>3. ASSUME NEW k \in 1..Len(points), FallsAt(points, k) PROVE Falls(points)
  <2>1. CASE k = 1
    <3>1. points # <<>>
      OBVIOUS
    <3>2. points[1].lat < 0 \/ points[1].lng < 0
      BY <1>3, <2>1 DEF FallsAt, Before
    <3> QED BY <3>1, <3>2 DEF Falls
  <2>2. CASE k # 1
    <3>1. k \in 2..Len(points)
      BY <2>2
    <3>2. points[k].lat < points[k - 1].lat \/ points[k].lng < points[k - 1].lng
      BY <1>3, <2>2 DEF FallsAt, Before
    <3> QED BY <3>1, <3>2 DEF Falls
  <2> QED BY <2>1, <2>2
<1> QED BY <1>1, <1>2, <1>3 DEF Falls

\* Where a browser goes wrong.
Strays(points, k, inWeb) == inWeb /\ FallsAt(points, k)

\* The state after k points: no coordinate is below the route's, all are right
\* if no point so far strays, and those of a point that does are wrong.
Tracks(points, k, inWeb, s) ==
    /\ s \in States /\ s.axis = "lat" /\ s.scale = 1 /\ s.bits = 0
    /\ Len(s.result) = k
    /\ s.lat >= Before(points, k + 1).lat
    /\ s.lng >= Before(points, k + 1).lng
    /\ (\A j \in 1..k : ~ Strays(points, j, inWeb)) =>
           /\ s.lat = Before(points, k + 1).lat
           /\ s.lng = Before(points, k + 1).lng
           /\ \A j \in 1..k : s.result[j] = points[j]
    /\ \A j \in 1..k : Strays(points, j, inWeb) => s.result[j] # points[j]

\* A coordinate that is decoded from at, where the route goes from before to now.
NextAt(at, before, now, inWeb) == at + Moved(now - before, inWeb)

\* It is never less than it should be, more where it falls in a browser,
\* and right if it was right and did not.
LEMMA NextAtEffect ==
    ASSUME NEW at \in Int, NEW before \in Int, NEW now \in Int, NEW inWeb \in BOOLEAN,
           at >= before, NEW next, next = NextAt(at, before, now, inWeb)
    PROVE  /\ next >= now
           /\ inWeb /\ now < before => next > now
           /\ ~ (inWeb /\ now < before) /\ at = before => next = now
BY RouteAssumption DEF NextAt, Moved

\* One more point is tracked.
LEMMA TracksOn ==
    ASSUME NEW points \in Seq(Points), NEW k \in 1..Len(points), NEW inWeb \in BOOLEAN,
           NEW s, Tracks(points, k - 1, inWeb, s), NEW lat \in Int, NEW lng \in Int,
           lat = s.lat + Moved(points[k].lat - Before(points, k).lat, inWeb),
           lng = s.lng + Moved(points[k].lng - Before(points, k).lng, inWeb),
           NEW t, t = [axis |-> "lat", scale |-> 1, bits |-> 0, lat |-> lat, lng |-> lng,
                       result |-> Append(s.result, [lat |-> lat, lng |-> lng])]
    PROVE  Tracks(points, k, inWeb, t)
<1>1. PICK p \in Points, b \in Points : p = points[k] /\ b = Before(points, k)
  BY PointCode
<1>2. /\ p.lat \in Int /\ p.lng \in Int /\ b.lat \in Int /\ b.lng \in Int
      /\ p = [lat |-> p.lat, lng |-> p.lng]
  BY DEF Points
<1>3. /\ s \in States /\ s.lat \in Int /\ s.lng \in Int /\ s.result \in Seq(Points)
      /\ Len(s.result) = k - 1
      /\ s.lat >= b.lat /\ s.lng >= b.lng
  BY <1>1 DEF Tracks, States
<1>4. /\ Before(points, k + 1) = p
      /\ (Strays(points, k, inWeb) <=> inWeb /\ (p.lat < b.lat \/ p.lng < b.lng))
  <2>1. k + 1 # 1 /\ (k + 1) - 1 = k
    OBVIOUS
  <2>2. Before(points, k + 1) = p
    BY <1>1, <2>1 DEF Before
  <2>3. FallsAt(points, k) <=> p.lat < b.lat \/ p.lng < b.lng
    BY <1>1 DEF FallsAt
  <2> QED BY <2>2, <2>3 DEF Strays
<1>5. PICK new \in Points : new = [lat |-> lat, lng |-> lng]
  BY DEF Points
<1>6. /\ lat >= p.lat /\ lng >= p.lng
      /\ Strays(points, k, inWeb) => lat # p.lat \/ lng # p.lng
      /\ ~ Strays(points, k, inWeb) /\ s.lat = b.lat /\ s.lng = b.lng =>
             lat = p.lat /\ lng = p.lng
  <2>1. /\ lat = NextAt(s.lat, b.lat, p.lat, inWeb)
        /\ lng = NextAt(s.lng, b.lng, p.lng, inWeb)
    BY <1>1 DEF NextAt
  <2>2. /\ lat >= p.lat
        /\ inWeb /\ p.lat < b.lat => lat > p.lat
        /\ ~ (inWeb /\ p.lat < b.lat) /\ s.lat = b.lat => lat = p.lat
    <3>1. s.lat \in Int /\ b.lat \in Int /\ p.lat \in Int /\ s.lat >= b.lat
      BY <1>2, <1>3
    <3> QED BY <2>1, <3>1, NextAtEffect
  <2>3. /\ lng >= p.lng
        /\ inWeb /\ p.lng < b.lng => lng > p.lng
        /\ ~ (inWeb /\ p.lng < b.lng) /\ s.lng = b.lng => lng = p.lng
    <3>1. s.lng \in Int /\ b.lng \in Int /\ p.lng \in Int /\ s.lng >= b.lng
      BY <1>2, <1>3
    <3> QED BY <2>1, <3>1, NextAtEffect
  <2> QED BY <1>2, <1>4, <2>2, <2>3
<1>7. PICK r \in Seq(Points) : r = Append(s.result, new)
  BY <1>3, AppendProperties
<1>8. /\ Len(r) = k /\ r[k] = new
      /\ \A j \in 1..(k - 1) : r[j] = s.result[j]
  BY <1>3, <1>7, AppendProperties
<1>9. t \in States /\ t.axis = "lat" /\ t.scale = 1 /\ t.bits = 0 /\ t.lat = lat
      /\ t.lng = lng /\ t.result = r
  BY <1>5, <1>7 DEF States
<1>10. ASSUME \A j \in 1..k : ~ Strays(points, j, inWeb)
       PROVE  lat = p.lat /\ lng = p.lng /\ \A j \in 1..k : r[j] = points[j]
  <2>1. \A j \in 1..(k - 1) : ~ Strays(points, j, inWeb)
    BY <1>10
  <2>2. s.lat = b.lat /\ s.lng = b.lng /\ \A j \in 1..(k - 1) : s.result[j] = points[j]
    BY <1>1, <2>1 DEF Tracks
  <2>3. ~ Strays(points, k, inWeb)
    BY <1>10
  <2>4. lat = p.lat /\ lng = p.lng
    BY <1>6, <2>2, <2>3
  <2>5. new = p
    BY <1>2, <1>5, <2>4
  <2>6. ASSUME NEW j \in 1..k PROVE r[j] = points[j]
    <3>1. CASE j = k
      BY <1>1, <1>8, <2>5, <3>1
    <3>2. CASE j # k
      <4>1. j \in 1..(k - 1)
        BY <3>2
      <4> QED BY <1>8, <2>2, <4>1
    <3> QED BY <3>1, <3>2
  <2> QED BY <2>4, <2>6
<1>11. ASSUME NEW j \in 1..k, Strays(points, j, inWeb) PROVE r[j] # points[j]
  <2>1. CASE j = k
    <3>1. lat # p.lat \/ lng # p.lng
      BY <1>6, <1>11, <2>1
    <3>2. new # p
      BY <1>2, <1>5, <3>1
    <3> QED BY <1>1, <1>8, <2>1, <3>2
  <2>2. CASE j # k
    <3>1. j \in 1..(k - 1)
      BY <2>2
    <3>2. s.result[j] # points[j]
      BY <1>11, <3>1 DEF Tracks
    <3> QED BY <1>8, <3>1, <3>2
  <2> QED BY <2>1, <2>2
<1>12. PICK q : q = Before(points, k + 1)
  OBVIOUS
<1>13. /\ Len(t.result) = k
       /\ t.lat >= q.lat
       /\ t.lng >= q.lng
  BY <1>4, <1>6, <1>8, <1>9, <1>12
<1>14. (\A j \in 1..k : ~ Strays(points, j, inWeb)) =>
           /\ t.lat = q.lat
           /\ t.lng = q.lng
           /\ \A j \in 1..k : t.result[j] = points[j]
  BY <1>4, <1>9, <1>10, <1>12
<1>15. \A j \in 1..k : Strays(points, j, inWeb) => t.result[j] # points[j]
  BY <1>9, <1>11
<1> QED BY <1>9, <1>12, <1>13, <1>14, <1>15 DEF Tracks

\* By induction the whole route is tracked.
LEMMA TracksAll ==
    ASSUME NEW points \in Seq(Points), NEW inWeb \in BOOLEAN
    PROVE  Tracks(points, Len(points), inWeb,
                  Decoding(Encode(points), inWeb)[Len(Encode(points))])
<1> DEFINE ReadBy(k) == Len(Encoding(points)[k])
           S == {k \in Nat : k <= Len(points) =>
                     Tracks(points, k, inWeb, Decoding(Encode(points), inWeb)[ReadBy(k)])}
<1>1. Len(points) \in Nat /\ Encode(points) \in Seq(Int)
  <2>1. Len(points) \in Nat /\ Len(points) \in 0..Len(points)
    BY LenProperties
  <2>2. Encoding(points)[Len(points)] \in Seq(Int)
    BY <2>1, EncodingSteps
  <2> QED BY <2>1, <2>2 DEF Encode
<1>2. 0 \in S
  <2>1. ReadBy(0) = 0
    BY EncodingSteps
  <2>2. Decoding(Encode(points), inWeb)[0] = Start
    BY <1>1, DecodingSteps
  <2>3. Tracks(points, 0, inWeb, Start)
    BY DEF Tracks, Start, States, Before
  <2> QED BY <2>1, <2>2, <2>3
<1>3. ASSUME NEW n \in Nat, \A m \in 0..n : m \in S PROVE n + 1 \in S
  <2> SUFFICES ASSUME n + 1 <= Len(points)
               PROVE  Tracks(points, n + 1, inWeb,
                             Decoding(Encode(points), inWeb)[ReadBy(n + 1)])
    OBVIOUS
  <2>1. PICK k \in 1..Len(points) : k = n + 1
    BY <1>1
  <2>2. PICK e \in Seq(Int) : e = Encode(points)
    BY <1>1
  <2>3. PICK i : i = ReadBy(k - 1)
    OBVIOUS
  <2>4. PICK j : j = ReadBy(k)
    OBVIOUS
  <2>5. PICK s : s = Decoding(e, inWeb)[i]
    OBVIOUS
  <2>6. PICK t : t = Decoding(e, inWeb)[j]
    OBVIOUS
  <2>7. PICK code : code = EncodePoint(points, k)
    OBVIOUS
  <2>8. Tracks(points, k - 1, inWeb, s)
    <3>1. n \in S /\ k - 1 = n
      BY <1>3, <2>1
    <3> QED BY <2>1, <2>2, <2>3, <2>5, <3>1
  <2>9. i \in 0..Len(e) /\ At(e, i, code) /\ j = i + Len(code)
    BY <2>2, <2>3, <2>4, <2>7, EncodingGoesOn
  <2>10. s.axis = "lat" /\ s.scale = 1 /\ s.bits = 0
    BY <2>8 DEF Tracks
  <2>11. AddsPoint(points, k, inWeb, s, t)
    BY <2>5, <2>6, <2>7, <2>9, <2>10, PointRead
  <2>12. Tracks(points, k, inWeb, t)
    BY <2>8, <2>11, TracksOn DEF AddsPoint
  <2> QED BY <2>1, <2>2, <2>4, <2>6, <2>12
<1>4. Len(points) \in S
  <2> HIDE DEF S
  <2> QED BY <1>1, <1>2, <1>3, Induction
<1> QED BY <1>1, <1>4 DEF Encode

\* The decoder inverts the encoding of every route, except in a browser where
\* the route falls.
THEOREM DecodeInverts ==
    ASSUME NEW points \in Seq(Points), NEW inWeb \in BOOLEAN
    PROVE  /\ Decode(Encode(points), inWeb) \in Seq(Points)
           /\ Decode(Encode(points), inWeb) # points <=> inWeb /\ Falls(points)
<1>1. PICK s : s = Decoding(Encode(points), inWeb)[Len(Encode(points))]
  OBVIOUS
<1>2. PICK r : r = Decode(Encode(points), inWeb)
  OBVIOUS
<1>3. PICK n \in Nat : n = Len(points)
  BY LenProperties
<1>4. /\ r = Decode(Encode(points), inWeb) /\ r = s.result /\ n = Len(points)
      /\ Tracks(points, n, inWeb, s)
  BY <1>1, <1>2, <1>3, TracksAll DEF Decode
<1>5. r \in Seq(Points) /\ Len(r) = n
  BY <1>4 DEF Tracks, States
<1>6. CASE inWeb /\ Falls(points)
  <2>1. PICK k \in 1..n : Strays(points, k, inWeb)
    BY <1>4, <1>6, FallsSomewhere DEF Strays
  <2>2. r[k] # points[k]
    BY <1>4, <2>1 DEF Tracks
  <2> QED BY <1>4, <1>5, <1>6, <2>2
<1>7. CASE ~ (inWeb /\ Falls(points))
  <2>1. \A k \in 1..n : ~ Strays(points, k, inWeb)
    BY <1>4, <1>7, FallsSomewhere DEF Strays
  <2>2. \A k \in 1..n : r[k] = points[k]
    BY <1>4, <2>1 DEF Tracks
  <2>3. r = points
    BY <1>4, <1>5, <2>2, SeqEqual
  <2> QED BY <1>4, <1>5, <1>7, <2>3
<1> QED BY <1>6, <1>7

=============================================================================
