--------------------------- MODULE ClientIndexProofs ---------------------------
(* The index agrees with itself and, when nothing overlaps, with the database,    *)
(* and the sweep ends exactly what ran out: for any number of accounts, addresses, *)
(* operators, visits and requests.                                                *)
EXTENDS ClientIndex, FiniteSetTheorems, SequenceTheorems, WellFoundedInduction, TLAPS

------------------------------------------------------------------------------
(* Recursion *)

\* A set of naturals has a least element.
LEMMA LeastNatural ==
  ASSUME NEW S \in SUBSET Nat, S # {}
  PROVE  \E n \in S : \A m \in S : n <= m
<1> DEFINE less == OpToRel(<, Nat)
<1>1. IsWellFoundedOn(less, Nat)
  BY NatLessThanWellFounded
<1>2. \A m, n \in Nat : m < n => <<m, n>> \in less
  BY DEF OpToRel
<1> HIDE DEF less
<1>3. \E n \in S : \A m \in S : <<m, n>> \notin less
  BY <1>1, WFMin, Zenon
<1>4. PICK n \in S : \A m \in S : <<m, n>> \notin less
  BY <1>3
<1>5. \A m \in S : ~(m < n) /\ m \in Nat /\ n \in Nat
  BY <1>2, <1>4, Zenon
<1> QED BY <1>4, <1>5

\* Induction up to a bound, of a set rather than of a predicate.
LEMMA Counting ==
  ASSUME NEW N \in Nat, NEW S, 0 \in S,
         \A n \in 1 .. N : n - 1 \in S => n \in S
  PROVE  \A n \in 0 .. N : n \in S
<1> DEFINE T == { n \in 0 .. N : n \notin S }
<1> SUFFICES ASSUME T # {} PROVE FALSE
  OBVIOUS
<1>1. T \in SUBSET Nat
  OBVIOUS
<1>2. PICK n \in T : \A m \in T : n <= m
  BY <1>1, LeastNatural
<1>3. n \in 1 .. N /\ n - 1 \in 0 .. N
  BY <1>2
<1>4. n - 1 \notin T
  BY <1>2, <1>3
<1> QED BY <1>2, <1>3, <1>4

\* A function that starts somewhere and steps from each argument to the next.
Steps(f, N, a, step) == f[0] = a /\ \A n \in 1 .. N : f[n] = step[n][f[n - 1]]

LEMMA Stepping ==
  ASSUME NEW N \in Nat, NEW V, NEW a \in V, NEW step \in [1 .. N -> [V -> V]]
  PROVE  \E f \in [0 .. N -> V] : Steps(f, N, a, step)
<1> DEFINE Good(f, n) == f[0] = a /\ \A k \in 1 .. n : f[k] = step[k][f[k - 1]]
<1> DEFINE S == { n \in 0 .. N : \E f \in [0 .. n -> V] : Good(f, n) }
<1>1. 0 \in S
  <2>1. [k \in 0 .. 0 |-> a] \in [0 .. 0 -> V] /\ Good([k \in 0 .. 0 |-> a], 0)
    OBVIOUS
  <2> HIDE DEF Good
  <2>2. \E f \in [0 .. 0 -> V] : Good(f, 0)
    BY <2>1
  <2> QED BY <2>2
<1>2. ASSUME NEW n \in 1 .. N, n - 1 \in S PROVE n \in S
  <2>1. PICK f \in [0 .. (n - 1) -> V] : Good(f, n - 1)
    BY <1>2
  <2>2. step[n] \in [V -> V] /\ f[n - 1] \in V
    BY <2>1
  <2> DEFINE v == step[n][f[n - 1]]
  <2>3. v \in V
    BY <2>2
  <2> HIDE DEF v
  <2> DEFINE g == [k \in 0 .. n |-> IF k = n THEN v ELSE f[k]]
  <2>4. g \in [0 .. n -> V]
    BY <2>3
  <2>5. Good(g, n)
    <3>1. g[0] = a
      BY <2>1
    <3>2. ASSUME NEW k \in 1 .. n PROVE g[k] = step[k][g[k - 1]]
      <4>1. CASE k = n
        BY <4>1 DEF v
      <4>2. CASE k # n
        <5>1. k \in 1 .. (n - 1) /\ g[k] = f[k] /\ g[k - 1] = f[k - 1]
          BY <4>2
        <5> QED BY <2>1, <5>1
      <4> QED BY <4>1, <4>2
    <3> QED BY <3>1, <3>2
  <2> HIDE DEF Good, g
  <2>6. \E h \in [0 .. n -> V] : Good(h, n)
    BY <2>4, <2>5
  <2> QED BY <2>6
<1> HIDE DEF Good
<1>3. N \in S
  <2>1. \A n \in 0 .. N : n \in S
    <3> HIDE DEF S
    <3> QED BY <1>1, <1>2, Counting
  <2> QED BY <2>1
<1>4. PICK f \in [0 .. N -> V] : Good(f, N)
  BY <1>3
<1>5. Steps(f, N, a, step)
  BY <1>4 DEF Good, Steps
<1> QED BY <1>5

------------------------------------------------------------------------------
(* Lists *)

Distinct(s) == \A i, j \in DOMAIN s : s[i] = s[j] => i = j

\* What the loop has copied after each element.
Copied(f, s, e) ==
    /\ f[0] = << >>
    /\ \A n \in 1 .. Len(s) : f[n] = IF s[n] = e THEN f[n - 1] ELSE Append(f[n - 1], s[n])

LEMMA WithoutDef ==
  ASSUME NEW S, NEW s \in Seq(S), NEW e
  PROVE  \E f \in [0 .. Len(s) -> Seq(S)] :
            Without(s, e) = f[Len(s)] /\ Copied(f, s, e)
<1> DEFINE rec(f) == [n \in 0 .. Len(s) |->
                        IF n = 0 THEN << >>
                        ELSE IF s[n] = e THEN f[n - 1] ELSE Append(f[n - 1], s[n])]
<1> DEFINE N == Len(s)
<1> DEFINE step == [n \in 1 .. N |-> [t \in Seq(S) |-> IF s[n] = e THEN t ELSE Append(t, s[n])]]
<1>1. N \in Nat /\ \A n \in 1 .. N : s[n] \in S
  OBVIOUS
<1>2. step \in [1 .. N -> [Seq(S) -> Seq(S)]]
  <2>1. ASSUME NEW n \in 1 .. N, NEW t \in Seq(S)
        PROVE  (IF s[n] = e THEN t ELSE Append(t, s[n])) \in Seq(S)
    BY <1>1, <2>1
  <2> QED BY <2>1
<1>3. PICK g \in [0 .. N -> Seq(S)] : g[0] = << >> /\ \A n \in 1 .. N : g[n] = step[n][g[n - 1]]
  <2>1. << >> \in Seq(S)
    OBVIOUS
  <2> HIDE DEF step, N
  <2>2. PICK g \in [0 .. N -> Seq(S)] : Steps(g, N, << >>, step)
    BY <1>1, <1>2, <2>1, Stepping
  <2> QED BY <2>2 DEF Steps
<1>4. \A n \in 1 .. N : g[n] = IF s[n] = e THEN g[n - 1] ELSE Append(g[n - 1], s[n])
  <2>1. ASSUME NEW n \in 1 .. N PROVE g[n] = IF s[n] = e THEN g[n - 1] ELSE Append(g[n - 1], s[n])
    <3> HIDE DEF N
    <3>1. g[n - 1] \in Seq(S)
      BY <1>1, <1>3
    <3>2. step[n] = [t \in Seq(S) |-> IF s[n] = e THEN t ELSE Append(t, s[n])]
      OBVIOUS
    <3>3. g[n] = step[n][g[n - 1]]
      BY <1>3
    <3> QED BY <3>1, <3>2, <3>3
  <2> QED BY <2>1
<1>5. g = rec(g)
  <2> HIDE DEF N
  <2>1. ASSUME NEW n \in 0 .. N
        PROVE  g[n] = IF n = 0 THEN << >>
                      ELSE IF s[n] = e THEN g[n - 1] ELSE Append(g[n - 1], s[n])
    <3>1. n = 0 \/ n \in 1 .. N
      BY <1>1
    <3> QED BY <1>3, <1>4, <3>1
  <2>2. g = [n \in 0 .. N |-> g[n]]
    BY <1>3
  <2> HIDE DEF step
  <2>3. g = [n \in 0 .. N |-> IF n = 0 THEN << >>
                             ELSE IF s[n] = e THEN g[n - 1] ELSE Append(g[n - 1], s[n])]
    BY <2>1, <2>2
  <2> QED BY <2>3 DEF N
<1>6. PICK f : f = rec(f) /\ Without(s, e) = f[N]
  <2> DEFINE c == CHOOSE f : f = rec(f)
  <2>1. c = rec(c)
    <3> HIDE DEF rec
    <3> QED BY <1>5
  <2>2. Without(s, e) = c[N]
    BY DEF Without
  <2> HIDE DEF c, rec, N
  <2> QED BY <2>1, <2>2
<1> HIDE DEF step
<1>7. f = [n \in 0 .. N |-> IF n = 0 THEN << >>
                          ELSE IF s[n] = e THEN f[n - 1] ELSE Append(f[n - 1], s[n])]
  BY <1>6
<1> HIDE DEF N, rec
<1>8. f[0] = << >> /\ \A n \in 1 .. N : f[n] = IF s[n] = e THEN f[n - 1] ELSE Append(f[n - 1], s[n])
  <2>1. 0 \in 0 .. N /\ \A n \in 1 .. N : n \in 0 .. N /\ n # 0
    BY <1>1
  <2> QED BY <1>7, <2>1
<1>9. \A n \in 0 .. N : f[n] \in Seq(S)
  <2> DEFINE T == { n \in 0 .. N : f[n] \in Seq(S) }
  <2>1. 0 \in T
    <3>1. << >> \in Seq(S) /\ 0 \in 0 .. N
      BY <1>1
    <3> QED BY <1>8, <3>1
  <2>2. ASSUME NEW n \in 1 .. N, n - 1 \in T PROVE n \in T
    <3>1. n \in 0 .. N /\ f[n - 1] \in Seq(S) /\ s[n] \in S
      BY <1>1, <2>2
    <3>2. Append(f[n - 1], s[n]) \in Seq(S)
      BY <3>1
    <3> QED BY <1>8, <3>1, <3>2
  <2>3. \A n \in 0 .. N : n \in T
    <3> HIDE DEF T
    <3> QED BY <1>1, <2>1, <2>2, Counting
  <2> QED BY <2>3
<1>10. f \in [0 .. N -> Seq(S)]
  BY <1>7, <1>9
<1>11. Copied(f, s, e)
  BY <1>8 DEF Copied, N
<1> QED BY <1>6, <1>10, <1>11 DEF N

LEMMA AppendIs ==
  ASSUME NEW S, NEW t \in Seq(S), NEW x \in S
  PROVE  /\ Append(t, x) \in Seq(S) /\ Len(Append(t, x)) = Len(t) + 1
         /\ Range(Append(t, x)) = Range(t) \cup {x}
         /\ Distinct(t) /\ x \notin Range(t) => Distinct(Append(t, x))
<1> DEFINE a == Append(t, x)
<1>1. /\ a \in Seq(S) /\ Len(a) = Len(t) + 1 /\ Len(t) \in Nat
      /\ DOMAIN a = 1 .. (Len(t) + 1) /\ DOMAIN t = 1 .. Len(t)
      /\ \A k \in 1 .. Len(t) : a[k] = t[k]
      /\ a[Len(t) + 1] = x
  OBVIOUS
<1> HIDE DEF a
<1>2. \A k \in 1 .. (Len(t) + 1) : k \in 1 .. Len(t) \/ k = Len(t) + 1
  BY <1>1
<1>3. 1 .. Len(t) \subseteq 1 .. (Len(t) + 1) /\ Len(t) + 1 \in 1 .. (Len(t) + 1)
  BY <1>1
<1>4. Range(a) = Range(t) \cup {x}
  <2>1. \A k \in DOMAIN a : a[k] \in Range(t) \cup {x}
    BY <1>1, <1>2 DEF Range
  <2>2. \A k \in DOMAIN t : t[k] \in Range(a)
    BY <1>1, <1>3 DEF Range
  <2>3. x \in Range(a)
    BY <1>1, <1>3 DEF Range
  <2> QED BY <2>1, <2>2, <2>3 DEF Range
<1>5. ASSUME Distinct(t), x \notin Range(t) PROVE Distinct(a)
  <2>1. \A k \in 1 .. Len(t) : t[k] # x
    BY <1>1, <1>5 DEF Range
  <2> QED BY <1>1, <1>2, <1>5, <2>1 DEF Distinct
<1> QED BY <1>1, <1>4, <1>5 DEF a

\* Of its elements a list loses the one, and no order of them is needed.
LEMMA WithoutIs ==
  ASSUME NEW S, NEW s \in Seq(S), NEW e
  PROVE  /\ Without(s, e) \in Seq(S) /\ Len(Without(s, e)) <= Len(s)
         /\ Range(Without(s, e)) = Range(s) \ {e}
         /\ Distinct(s) => Distinct(Without(s, e))
<1>1. PICK f \in [0 .. Len(s) -> Seq(S)] : Without(s, e) = f[Len(s)] /\ Copied(f, s, e)
  BY WithoutDef
<1> DEFINE N == Len(s)
<1>2. /\ N \in Nat /\ DOMAIN s = 1 .. N /\ \A n \in 1 .. N : s[n] \in S
      /\ f \in [0 .. N -> Seq(S)] /\ Without(s, e) = f[N] /\ f[0] = << >>
      /\ \A n \in 1 .. N : f[n] = IF s[n] = e THEN f[n - 1] ELSE Append(f[n - 1], s[n])
  BY <1>1 DEF Copied
<1> HIDE DEF N
<1> DEFINE First(n) == { s[k] : k \in 1 .. n }
<1> DEFINE P(n) == /\ Len(f[n]) <= n /\ Range(f[n]) = First(n) \ {e}
                   /\ Distinct(s) => Distinct(f[n])
<1> DEFINE T == { n \in 0 .. N : P(n) }
<1>3. 0 \in T
  <2>1. Len(f[0]) = 0 /\ DOMAIN f[0] = {} /\ First(0) = {}
    BY <1>2
  <2>2. Range(f[0]) = {} /\ Distinct(f[0])
    BY <2>1 DEF Range, Distinct
  <2>3. 0 \in 0 .. N
    BY <1>2
  <2> HIDE DEF First
  <2> QED BY <2>1, <2>2, <2>3
<1>4. ASSUME NEW n \in 1 .. N, n - 1 \in T PROVE n \in T
  <2>1. /\ n \in 0 .. N /\ n - 1 \in 0 .. N /\ n \in Nat /\ n - 1 \in Nat
        /\ f[n - 1] \in Seq(S) /\ Len(f[n - 1]) \in Nat /\ s[n] \in S /\ P(n - 1)
    <3>1. n \in 0 .. N /\ n - 1 \in 0 .. N /\ n \in Nat /\ n - 1 \in Nat
      BY <1>2
    <3>2. f[n - 1] \in Seq(S) /\ s[n] \in S
      BY <1>2, <3>1
    <3> HIDE DEF P
    <3>3. P(n - 1)
      BY <1>4
    <3> QED BY <3>1, <3>2, <3>3
  <2>2. First(n) = First(n - 1) \cup {s[n]}
    <3>1. \A k \in 1 .. n : k \in 1 .. (n - 1) \/ k = n
      BY <2>1
    <3>2. 1 .. (n - 1) \subseteq 1 .. n /\ n \in 1 .. n
      BY <2>1
    <3> QED BY <3>1, <3>2
  <2>3. CASE s[n] = e
    <3>1. f[n] = f[n - 1]
      BY <1>2, <2>3
    <3> HIDE DEF First
    <3>2. P(n)
      BY <2>1, <2>2, <2>3, <3>1
    <3> QED BY <2>1, <3>2
  <2>4. CASE s[n] # e
    <3>1. f[n] = Append(f[n - 1], s[n])
      BY <1>2, <2>4
    <3>2. /\ Len(f[n]) = Len(f[n - 1]) + 1
          /\ Range(f[n]) = Range(f[n - 1]) \cup {s[n]}
          /\ Distinct(f[n - 1]) /\ s[n] \notin Range(f[n - 1]) => Distinct(f[n])
      BY <2>1, <3>1, AppendIs
    <3>3. Distinct(s) => s[n] \notin First(n - 1)
      <4>1. \A k \in 1 .. (n - 1) : k \in 1 .. N /\ k # n
        BY <1>2, <2>1
      <4> QED BY <1>2, <4>1 DEF Distinct
    <3> HIDE DEF First
    <3>4. Len(f[n]) <= n
      BY <2>1, <3>2
    <3>5. Range(f[n]) = First(n) \ {e}
      BY <2>1, <2>2, <2>4, <3>2
    <3>6. Distinct(s) => Distinct(f[n])
      BY <2>1, <3>2, <3>3
    <3> QED BY <2>1, <3>4, <3>5, <3>6
  <2> QED BY <2>3, <2>4
<1>5. N \in T
  <2>1. \A n \in 0 .. N : n \in T
    <3> HIDE DEF T
    <3> QED BY <1>2, <1>3, <1>4, Counting
  <2>2. N \in 0 .. N
    BY <1>2
  <2> HIDE DEF T
  <2> QED BY <2>1, <2>2
<1>6. P(N) /\ f[N] \in Seq(S)
  BY <1>2, <1>5
<1>7. First(N) = Range(s)
  BY <1>2 DEF Range
<1> QED BY <1>2, <1>6, <1>7 DEF N

\* A list that has no element twice is no longer than there are elements.
LEMMA DistinctLen ==
  ASSUME NEW S, NEW s \in Seq(S), Distinct(s)
  PROVE  /\ IsFiniteSet(Range(s)) /\ Cardinality(Range(s)) = Len(s)
         /\ IsFiniteSet(S) => Len(s) <= Cardinality(S)
<1>1. Len(s) \in Nat /\ DOMAIN s = 1 .. Len(s) /\ s \in [1 .. Len(s) -> S]
  OBVIOUS
<1>2. s \in Bijection(1 .. Len(s), Range(s))
  <2>1. s \in [1 .. Len(s) -> Range(s)]
    BY <1>1 DEF Range
  <2>2. \A t \in Range(s) : \E k \in 1 .. Len(s) : s[k] = t
    BY <1>1 DEF Range
  <2> QED BY <1>1, <2>1, <2>2 DEF Distinct, Bijection, Injection, Surjection, IsInjective
<1>3. IsFiniteSet(Range(s)) /\ Cardinality(Range(s)) = Len(s)
  <2>1. ExistsBijection(1 .. Len(s), Range(s))
    BY <1>2 DEF ExistsBijection
  <2> QED BY <1>1, <2>1, FS_CountingElements, FS_NatBijection
<1>4. Range(s) \subseteq S
  BY <1>1 DEF Range
<1> QED BY <1>3, <1>4, FS_Subset

LEMMA ContainsIs ==
  ASSUME NEW S, NEW s \in Seq(S), NEW x
  PROVE  /\ Contains(s, x) <=> x \in Range(s)
         /\ Range(s) \subseteq S
         /\ s = << >> <=> Range(s) = {}
<1>1. Len(s) \in Nat /\ DOMAIN s = 1 .. Len(s) /\ \A k \in 1 .. Len(s) : s[k] \in S
  OBVIOUS
<1>2. s = << >> <=> Len(s) = 0
  OBVIOUS
<1>3. Len(s) # 0 => 1 \in DOMAIN s
  BY <1>1
<1>4. s = << >> <=> Range(s) = {}
  <2>1. CASE Len(s) = 0
    <3>1. DOMAIN s = {}
      BY <1>1, <2>1
    <3> QED BY <1>2, <2>1, <3>1 DEF Range
  <2>2. CASE Len(s) # 0
    <3>1. s[1] \in Range(s)
      BY <1>3, <2>2 DEF Range
    <3> QED BY <1>2, <2>2, <3>1
  <2> QED BY <2>1, <2>2
<1> QED BY <1>1, <1>4 DEF Contains, Range

------------------------------------------------------------------------------
(* The index *)

Indexes == [ recs : [Ids -> Rec \cup {NoRec}], lists : [Ips -> Seq(Ids)],
             tops : [Ips -> Ids \cup {NoId}] ]

\* An address leads to accounts that have it and were enabled when they were filed,
\* each once, one of them first of all; and an active account is under its addresses.
Sound(ix, t) ==
    /\ \A p \in Ips : /\ Distinct(ix.lists[p])
                      /\ \A i \in Range(ix.lists[p]) :
                            ix.recs[i] # NoRec /\ p \in Range(ix.recs[i].ips) /\ ix.recs[i].on
                      /\ Range(ix.lists[p]) = {} => ix.tops[p] = NoId
                      /\ Range(ix.lists[p]) # {} => ix.tops[p] \in Range(ix.lists[p])
    /\ \A i \in Ids : (ix.recs[i] # NoRec /\ Active(ix.recs[i], t))
                         => \A p \in Range(ix.recs[i].ips) \cap Ips : i \in Range(ix.lists[p])

\* Nobody in the lists has run out.
Live(ix, t) == \A p \in Ips : \A i \in Range(ix.lists[p]) : Active(ix.recs[i], t)

LEMMA RecIs ==
  ASSUME NEW r \in Rec
  PROVE  /\ r.on \in BOOLEAN /\ r.exp \in Nat /\ r.max \in Nat \ {0}
         /\ r.ips \in Seq(Ips) /\ Range(r.ips) \subseteq Ips /\ Distinct(r.ips) /\ r # NoRec
         /\ Len(r.ips) <= Cardinality(Ips)
<1>1. r.on \in BOOLEAN /\ r.exp \in Nat /\ r.max \in Nat \ {0} /\ r.ips \in IpLists
  BY DEF Rec
<1>2. PICK n \in 0 .. Cardinality(Ips) : r.ips \in [1 .. n -> Ips]
  BY <1>1 DEF IpLists
<1>3. Cardinality(Ips) \in Nat
  BY IndexAssumption, FS_CardinalityType
<1>4. n \in Nat /\ n <= Cardinality(Ips)
  BY <1>2, <1>3
<1>5. r.ips \in Seq(Ips) /\ Len(r.ips) = n
  BY <1>2, <1>4
<1>6. Distinct(r.ips)
  BY <1>1 DEF IpLists, Distinct
<1> QED BY <1>1, <1>4, <1>5, <1>6, ContainsIs, IndexAssumption

\* What is in IpLists, without its bound.
LEMMA IpListIs ==
  ASSUME NEW s \in Seq(Ips), Distinct(s)
  PROVE  s \in IpLists
<1>1. Len(s) \in Nat /\ s \in [1 .. Len(s) -> Ips] /\ DOMAIN s = 1 .. Len(s)
  OBVIOUS
<1>2. Len(s) <= Cardinality(Ips) /\ Cardinality(Ips) \in Nat
  BY DistinctLen, IndexAssumption, FS_CardinalityType
<1>3. Len(s) \in 0 .. Cardinality(Ips)
  BY <1>1, <1>2
<1> QED BY <1>1, <1>3 DEF IpLists, Distinct

LEMMA FiledType ==
  ASSUME NEW ix \in Indexes, NEW i \in Ids, NEW r \in Rec
  PROVE  Filed(ix, i, r) \in Indexes
<1>1. \A p \in Ips : ix.lists[p] \in Seq(Ids) /\ Append(ix.lists[p], i) \in Seq(Ids)
  BY AppendIs DEF Indexes
<1>2. Range(r.ips) \subseteq Ips
  BY RecIs
<1> QED BY <1>1, <1>2 DEF Indexes, Filed

\* A newcomer is filed under each of its addresses if it is active, else under none.
LEMMA FiledSound ==
  ASSUME NEW ix \in Indexes, NEW i \in Ids, NEW r \in Rec, now \in Nat,
         Sound(ix, now), ix.recs[i] = NoRec
  PROVE  /\ Sound(Filed(ix, i, r), now)
         /\ Filed(ix, i, r).recs = [ix.recs EXCEPT ![i] = r]
         /\ Live(ix, now) => Live(Filed(ix, i, r), now)
<1> DEFINE jx == Filed(ix, i, r)
<1> DEFINE mine == IF Active(r, now) THEN Range(r.ips) ELSE {}
<1>1. /\ jx.recs = [ix.recs EXCEPT ![i] = r] /\ jx.recs[i] = r
      /\ \A j \in Ids : j # i => jx.recs[j] = ix.recs[j]
      /\ DOMAIN ix.recs = Ids
  BY DEF Filed, Indexes
<1>2. /\ r.on \in BOOLEAN /\ r # NoRec /\ Range(r.ips) \subseteq Ips
      /\ mine \subseteq Ips /\ (mine # {} => r.on)
  BY RecIs DEF Active
<1>3. \A p \in Ips : ix.lists[p] \in Seq(Ids) /\ Range(ix.lists[p]) \subseteq Ids /\ i \notin Range(ix.lists[p])
  BY ContainsIs DEF Sound, Indexes
<1>4. \A p \in mine : /\ jx.tops[p] = i
                      /\ Range(jx.lists[p]) = Range(ix.lists[p]) \cup {i}
                      /\ Distinct(jx.lists[p])
  <2>1. \A p \in mine : jx.lists[p] = Append(ix.lists[p], i) /\ jx.tops[p] = i
    BY <1>2 DEF Filed
  <2> HIDE DEF jx, mine
  <2> SUFFICES ASSUME NEW p \in mine
               PROVE  Range(jx.lists[p]) = Range(ix.lists[p]) \cup {i} /\ Distinct(jx.lists[p])
    BY <2>1
  <2>2. p \in Ips /\ Distinct(ix.lists[p])
    BY <1>2 DEF Sound
  <2>3. ix.lists[p] \in Seq(Ids) /\ i \notin Range(ix.lists[p])
    BY <1>3, <2>2
  <2> DEFINE l == ix.lists[p]
  <2>4. l \in Seq(Ids) /\ Distinct(l) /\ i \notin Range(l) /\ jx.lists[p] = Append(l, i)
    BY <2>1, <2>2, <2>3
  <2> HIDE DEF l
  <2>5. Range(Append(l, i)) = Range(l) \cup {i} /\ Distinct(Append(l, i))
    BY <2>4, AppendIs
  <2> QED BY <2>4, <2>5 DEF l
<1>5. \A p \in Ips : p \notin mine => jx.lists[p] = ix.lists[p] /\ jx.tops[p] = ix.tops[p]
  BY DEF Filed
<1>6. mine = IF Active(r, now) THEN Range(r.ips) ELSE {}
  OBVIOUS
<1> HIDE DEF jx, mine
<1>7. ASSUME NEW p \in Ips
      PROVE  /\ Distinct(jx.lists[p])
             /\ \A j \in Range(jx.lists[p]) :
                   jx.recs[j] # NoRec /\ p \in Range(jx.recs[j].ips) /\ jx.recs[j].on
             /\ Range(jx.lists[p]) = {} => jx.tops[p] = NoId
             /\ Range(jx.lists[p]) # {} => jx.tops[p] \in Range(jx.lists[p])
  <2>1. CASE p \in mine
    <3>1. p \in Range(r.ips) /\ r.on
      BY <1>2, <1>6, <2>1
    <3>2. \A j \in Range(jx.lists[p]) : j = i \/ (j # i /\ j \in Ids /\ j \in Range(ix.lists[p]))
      BY <1>3, <1>4, <2>1
    <3>3. \A j \in Range(ix.lists[p]) :
             ix.recs[j] # NoRec /\ p \in Range(ix.recs[j].ips) /\ ix.recs[j].on
      BY DEF Sound
    <3>4. \A j \in Range(jx.lists[p]) :
             jx.recs[j] # NoRec /\ p \in Range(jx.recs[j].ips) /\ jx.recs[j].on
      BY <1>1, <1>2, <3>1, <3>2, <3>3
    <3> QED BY <1>4, <2>1, <3>4
  <2>2. CASE p \notin mine
    BY <1>1, <1>3, <1>5, <2>2 DEF Sound
  <2> QED BY <2>1, <2>2
<1>8. ASSUME NEW j \in Ids, jx.recs[j] # NoRec, Active(jx.recs[j], now),
             NEW p \in Range(jx.recs[j].ips) \cap Ips
      PROVE  j \in Range(jx.lists[p])
  <2>1. CASE j = i
    BY <1>1, <1>4, <1>6, <1>8, <2>1
  <2>2. CASE j # i
    <3>1. j \in Range(ix.lists[p])
      BY <1>1, <1>8, <2>2 DEF Sound
    <3> QED BY <1>4, <1>5, <1>8, <3>1
  <2> QED BY <2>1, <2>2
<1>9. ASSUME Live(ix, now), NEW p \in Ips, NEW j \in Range(jx.lists[p]) PROVE Active(jx.recs[j], now)
  <2>1. CASE j = i
    <3>1. p \in mine
      BY <1>3, <1>5, <1>9, <2>1
    <3> QED BY <1>1, <1>6, <2>1, <3>1
  <2>2. CASE j # i
    <3>1. j \in Range(ix.lists[p]) /\ j \in Ids
      BY <1>3, <1>4, <1>5, <1>9, <2>2
    <3> QED BY <1>1, <1>9, <2>2, <3>1 DEF Live
  <2> QED BY <2>1, <2>2
<1> QED BY <1>1, <1>7, <1>8, <1>9 DEF Sound, Live, jx

\* What is taken out leaves the others, under every address, as they were.
LEMMA DeindexedSound ==
  ASSUME NEW ix \in Indexes, NEW i \in Ids, NEW t, Sound(ix, t)
  PROVE  /\ Deindexed(ix, i) \in Indexes
         /\ Sound(Deindexed(ix, i), t)
         /\ Deindexed(ix, i).recs = [ix.recs EXCEPT ![i] = NoRec]
<1> DEFINE jx == Deindexed(ix, i)
<1> DEFINE mine == Range(ix.recs[i].ips)
<1>1. CASE ix.recs[i] = NoRec
  <2>1. ix.recs \in [Ids -> Rec \cup {NoRec}]
    BY DEF Indexes
  <2>2. ix.recs = [ix.recs EXCEPT ![i] = NoRec]
    BY <1>1, <2>1
  <2>3. jx = ix
    BY <1>1 DEF Deindexed
  <2> QED BY <2>2, <2>3
<1>2. CASE ix.recs[i] # NoRec
  <2>1. /\ jx.recs = [ix.recs EXCEPT ![i] = NoRec] /\ jx.recs[i] = NoRec
        /\ \A j \in Ids : j # i => jx.recs[j] = ix.recs[j]
        /\ ix.recs[i] \in Rec
    BY <1>2 DEF Deindexed, Indexes
  <2>2. mine \subseteq Ips
    BY <2>1, RecIs
  <2>3. \A p \in Ips : /\ ix.lists[p] \in Seq(Ids) /\ Range(ix.lists[p]) \subseteq Ids
                       /\ Others(ix, i, p) \in Seq(Ids)
                       /\ Range(Others(ix, i, p)) = Range(ix.lists[p]) \ {i}
                       /\ Distinct(Others(ix, i, p))
    BY ContainsIs, WithoutIs DEF Indexes, Sound, Others
  <2>4. \A p \in Ips : p \in mine => /\ jx.lists[p] = Others(ix, i, p)
                                     /\ ix.tops[p] # i => jx.tops[p] = ix.tops[p]
                                     /\ (ix.tops[p] = i /\ Others(ix, i, p) = << >>) => jx.tops[p] = NoId
                                     /\ (ix.tops[p] = i /\ Others(ix, i, p) # << >>)
                                            => jx.tops[p] = Last(Others(ix, i, p))
    BY <1>2 DEF Deindexed
  <2>5. \A p \in Ips : p \notin mine => jx.lists[p] = ix.lists[p] /\ jx.tops[p] = ix.tops[p]
    BY <1>2 DEF Deindexed
  <2>6. /\ DOMAIN jx.lists = Ips /\ DOMAIN jx.tops = Ips
        /\ jx = [recs |-> jx.recs, lists |-> jx.lists, tops |-> jx.tops]
        /\ jx.lists = [p \in Ips |-> jx.lists[p]] /\ jx.tops = [p \in Ips |-> jx.tops[p]]
    BY <1>2 DEF Deindexed
  <2>7. \A p \in Ips : p \notin mine => i \notin Range(ix.lists[p])
    BY DEF Sound
  <2>8. \A p \in Ips : Others(ix, i, p) # << >> => Last(Others(ix, i, p)) \in Range(Others(ix, i, p))
    <3>1. ASSUME NEW s \in Seq(Ids), s # << >> PROVE Last(s) \in Range(s)
      <4>1. Len(s) \in DOMAIN s
        BY <3>1
      <4> QED BY <4>1 DEF Last, Range
    <3> QED BY <2>3, <3>1
  <2>9. NoId \notin Ids
    BY IndexAssumption
  <2>10. \A p \in Ips : Others(ix, i, p) = << >> <=> Range(Others(ix, i, p)) = {}
    BY <2>3, ContainsIs
  <2>11. \A p \in Ips : ix.tops[p] \in Ids \cup {NoId}
    BY DEF Indexes
  <2> HIDE DEF jx, mine
  <2>12. ASSUME NEW p \in Ips
         PROVE  /\ Distinct(jx.lists[p]) /\ jx.lists[p] \in Seq(Ids) /\ jx.tops[p] \in Ids \cup {NoId}
                /\ Range(jx.lists[p]) = Range(ix.lists[p]) \ {i}
                /\ Range(jx.lists[p]) = {} => jx.tops[p] = NoId
                /\ Range(jx.lists[p]) # {} => jx.tops[p] \in Range(jx.lists[p])
    <3>1. CASE p \notin mine
      BY <2>3, <2>5, <2>7, <2>11, <3>1 DEF Sound
    <3>2. CASE p \in mine /\ ix.tops[p] # i
      <4>1. jx.lists[p] = Others(ix, i, p) /\ jx.tops[p] = ix.tops[p]
        BY <2>4, <3>2
      <4>2. Range(ix.lists[p]) = {} => ix.tops[p] = NoId
        BY DEF Sound
      <4>3. Range(ix.lists[p]) # {} => ix.tops[p] \in Range(ix.lists[p]) \ {i}
        BY <3>2 DEF Sound
      <4> QED BY <2>3, <2>11, <4>1, <4>2, <4>3
    <3>3. CASE p \in mine /\ ix.tops[p] = i
      BY <2>3, <2>4, <2>8, <2>10, <3>3
    <3> QED BY <3>1, <3>2, <3>3
  <2>13. jx \in Indexes
    <3>1. jx.recs \in [Ids -> Rec \cup {NoRec}]
      BY <2>1 DEF Indexes
    <3>2. jx.lists \in [Ips -> Seq(Ids)] /\ jx.tops \in [Ips -> Ids \cup {NoId}]
      BY <2>6, <2>12
    <3> QED BY <2>6, <3>1, <3>2 DEF Indexes
  <2>14. ASSUME NEW p \in Ips, NEW j \in Range(jx.lists[p])
         PROVE  jx.recs[j] # NoRec /\ p \in Range(jx.recs[j].ips) /\ jx.recs[j].on
    <3>1. j \in Range(ix.lists[p]) /\ j # i /\ j \in Ids
      BY <2>3, <2>12, <2>14
    <3> QED BY <2>1, <3>1 DEF Sound
  <2>15. ASSUME NEW j \in Ids, jx.recs[j] # NoRec, Active(jx.recs[j], t),
                NEW p \in Range(jx.recs[j].ips) \cap Ips
         PROVE  j \in Range(jx.lists[p])
    <3>1. j # i /\ jx.recs[j] = ix.recs[j]
      BY <2>1, <2>15
    <3>2. j \in Range(ix.lists[p])
      BY <2>15, <3>1 DEF Sound
    <3> QED BY <2>12, <2>15, <3>1, <3>2
  <2> QED BY <2>1, <2>12, <2>13, <2>14, <2>15 DEF Sound, jx
<1> QED BY <1>1, <1>2
------------------------------------------------------------------------------
(* The loop of reloadCache *)

\* The indexes after each account.
Reloaded(f, list) ==
    /\ f[0] = EmptyIndex
    /\ \A n \in 1 .. Accounts :
          f[n] = IF list[n] = NoRec THEN f[n - 1] ELSE Filed(f[n - 1], n, list[n])

LEMMA EmptyIs ==
  ASSUME NEW t
  PROVE  EmptyIndex \in Indexes /\ Sound(EmptyIndex, t) /\ Live(EmptyIndex, t)
<1>1. << >> \in Seq(Ids) /\ Range(<< >>) = {} /\ Distinct(<< >>)
  <2>1. DOMAIN << >> = {}
    OBVIOUS
  <2> QED BY <2>1 DEF Range, Distinct
<1>2. EmptyIndex \in Indexes
  BY <1>1 DEF EmptyIndex, Indexes
<1>3. \A p \in Ips : EmptyIndex.lists[p] = << >> /\ EmptyIndex.tops[p] = NoId
  BY DEF EmptyIndex
<1>4. \A i \in Ids : EmptyIndex.recs[i] = NoRec
  BY DEF EmptyIndex
<1> QED BY <1>1, <1>2, <1>3, <1>4 DEF Sound, Live

LEMMA RebuiltDef ==
  ASSUME NEW list \in [Ids -> Rec \cup {NoRec}]
  PROVE  \E f \in [0 .. Accounts -> Indexes] :
            Rebuilt(list) = f[Accounts] /\ Reloaded(f, list)
<1> DEFINE next(ix, n) == IF list[n] = NoRec THEN ix ELSE Filed(ix, n, list[n])
<1> DEFINE rec(f) == [n \in 0 .. Accounts |-> IF n = 0 THEN EmptyIndex ELSE
                        IF list[n] = NoRec THEN f[n - 1] ELSE Filed(f[n - 1], n, list[n])]
<1> DEFINE step == [n \in 1 .. Accounts |-> [ix \in Indexes |-> next(ix, n)]]
<1>1. Accounts \in Nat
  BY IndexAssumption
<1>2. step \in [1 .. Accounts -> [Indexes -> Indexes]]
  <2>1. ASSUME NEW n \in 1 .. Accounts, NEW ix \in Indexes PROVE next(ix, n) \in Indexes
    <3>1. n \in Ids /\ list[n] \in Rec \cup {NoRec}
      BY DEF Ids
    <3> QED BY <3>1, FiledType
  <2> HIDE DEF next
  <2> QED BY <2>1
<1>3. EmptyIndex \in Indexes
  BY EmptyIs
<1>4. PICK g \in [0 .. Accounts -> Indexes] :
         g[0] = EmptyIndex /\ \A n \in 1 .. Accounts : g[n] = step[n][g[n - 1]]
  <2> HIDE DEF step
  <2>1. PICK g \in [0 .. Accounts -> Indexes] : Steps(g, Accounts, EmptyIndex, step)
    BY <1>1, <1>2, <1>3, Stepping
  <2> QED BY <2>1 DEF Steps
<1>5. ASSUME NEW n \in 1 .. Accounts PROVE g[n] = next(g[n - 1], n)
  <2>1. g[n - 1] \in Indexes
    BY <1>1, <1>4
  <2> HIDE DEF next
  <2>2. step[n] = [ix \in Indexes |-> next(ix, n)]
    OBVIOUS
  <2>3. g[n] = step[n][g[n - 1]]
    BY <1>4
  <2> QED BY <2>1, <2>2, <2>3
<1>6. g = rec(g)
  <2>1. ASSUME NEW n \in 0 .. Accounts
        PROVE  g[n] = IF n = 0 THEN EmptyIndex ELSE next(g[n - 1], n)
    <3>1. n = 0 \/ n \in 1 .. Accounts
      BY <1>1
    <3> HIDE DEF next, step
    <3>2. CASE n = 0
      BY <1>4, <3>2
    <3>3. CASE n # 0
      BY <1>5, <3>1, <3>3
    <3> QED BY <3>2, <3>3
  <2>2. g = [n \in 0 .. Accounts |-> g[n]]
    BY <1>4
  <2> HIDE DEF next, step
  <2>3. g = [n \in 0 .. Accounts |-> IF n = 0 THEN EmptyIndex ELSE next(g[n - 1], n)]
    BY <2>1, <2>2
  <2> QED BY <2>3 DEF next
<1>7. PICK f : f = rec(f) /\ Rebuilt(list) = f[Accounts]
  <2> DEFINE c == CHOOSE f : f = rec(f)
  <2>1. c = rec(c)
    <3> HIDE DEF rec
    <3> QED BY <1>6
  <2>2. Rebuilt(list) = c[Accounts]
    BY DEF Rebuilt
  <2> HIDE DEF c, rec
  <2> QED BY <2>1, <2>2
<1> HIDE DEF step
<1>8. f = [n \in 0 .. Accounts |-> IF n = 0 THEN EmptyIndex ELSE next(f[n - 1], n)]
  BY <1>7
<1> HIDE DEF rec
<1>9. f[0] = EmptyIndex /\ \A n \in 1 .. Accounts : f[n] = next(f[n - 1], n)
  <2>1. 0 \in 0 .. Accounts /\ \A n \in 1 .. Accounts : n \in 0 .. Accounts /\ n # 0
    BY <1>1
  <2> HIDE DEF next
  <2> QED BY <1>8, <2>1
<1>10. \A n \in 0 .. Accounts : f[n] \in Indexes
  <2> DEFINE T == { n \in 0 .. Accounts : f[n] \in Indexes }
  <2>1. 0 \in T
    BY <1>1, <1>3, <1>9
  <2>2. ASSUME NEW n \in 1 .. Accounts, n - 1 \in T PROVE n \in T
    <3>1. n \in 0 .. Accounts /\ f[n - 1] \in Indexes /\ n \in Ids /\ list[n] \in Rec \cup {NoRec}
      BY <1>1, <2>2 DEF Ids
    <3>2. next(f[n - 1], n) \in Indexes
      BY <3>1, FiledType
    <3> HIDE DEF next
    <3> QED BY <1>9, <3>1, <3>2
  <2>3. \A n \in 0 .. Accounts : n \in T
    <3> HIDE DEF T
    <3> QED BY <1>1, <2>1, <2>2, Counting
  <2> QED BY <2>3
<1>11. f \in [0 .. Accounts -> Indexes]
  <2> HIDE DEF next
  <2> QED BY <1>8, <1>10
<1>12. Reloaded(f, list)
  BY <1>9 DEF Reloaded
<1> QED BY <1>7, <1>11, <1>12

\* The new index holds every account of the list, and under addresses only the active.
LEMMA RebuiltIs ==
  ASSUME NEW list \in [Ids -> Rec \cup {NoRec}], now \in Nat
  PROVE  /\ Rebuilt(list) \in Indexes /\ Rebuilt(list).recs = list
         /\ Sound(Rebuilt(list), now) /\ Live(Rebuilt(list), now)
<1>1. PICK f \in [0 .. Accounts -> Indexes] : Rebuilt(list) = f[Accounts] /\ Reloaded(f, list)
  BY RebuiltDef
<1>2. Accounts \in Nat
  BY IndexAssumption
<1> DEFINE upto(n) == [i \in Ids |-> IF i <= n THEN list[i] ELSE NoRec]
<1> DEFINE P(n) == f[n].recs = upto(n) /\ Sound(f[n], now) /\ Live(f[n], now)
<1> DEFINE T == { n \in 0 .. Accounts : P(n) }
<1>3. 0 \in T
  <2>1. f[0] = EmptyIndex
    BY <1>1 DEF Reloaded
  <2>2. \A i \in Ids : ~(i <= 0)
    BY <1>2 DEF Ids
  <2>3. EmptyIndex.recs = upto(0)
    BY <2>2 DEF EmptyIndex
  <2> HIDE DEF upto
  <2> QED BY <1>2, <2>1, <2>3, EmptyIs
<1>4. ASSUME NEW n \in 1 .. Accounts, n - 1 \in T PROVE n \in T
  <2>1. n \in 0 .. Accounts /\ n \in Ids /\ n - 1 \in 0 .. Accounts
    BY <1>2 DEF Ids
  <2>2. P(n - 1) /\ f[n - 1] \in Indexes /\ f[n] \in Indexes
    <3> HIDE DEF P
    <3> QED BY <1>4, <2>1
  <2>3. f[n] = IF list[n] = NoRec THEN f[n - 1] ELSE Filed(f[n - 1], n, list[n])
    BY <1>1 DEF Reloaded
  <2>4. upto(n) = [upto(n - 1) EXCEPT ![n] = list[n]]
    <3>1. \A i \in Ids : i <= n <=> (i <= n - 1 \/ i = n)
      BY <2>1 DEF Ids
    <3>2. DOMAIN upto(n) = Ids /\ \A i \in Ids : upto(n)[i] = IF i <= n THEN list[i] ELSE NoRec
      OBVIOUS
    <3>3. \A i \in Ids : [upto(n - 1) EXCEPT ![n] = list[n]][i] = IF i <= n THEN list[i] ELSE NoRec
      BY <2>1, <3>1
    <3> QED BY <2>1, <3>2, <3>3
  <2>5. f[n - 1].recs[n] = NoRec
    <3>1. ~(n <= n - 1)
      BY <2>1
    <3> QED BY <2>1, <2>2, <3>1
  <2>6. P(n)
    <3> HIDE DEF upto
    <3>1. CASE list[n] = NoRec
      <4>1. upto(n - 1) = [upto(n - 1) EXCEPT ![n] = NoRec]
        <5>1. upto(n - 1) = [i \in Ids |-> upto(n - 1)[i]]
          BY DEF upto
        <5> QED BY <2>2, <2>5, <5>1
      <4> QED BY <2>2, <2>3, <2>4, <3>1, <4>1
    <3>2. CASE list[n] # NoRec
      <4>1. list[n] \in Rec
        BY <2>1, <3>2
      <4> QED BY <2>1, <2>2, <2>3, <2>4, <2>5, <3>2, <4>1, FiledSound
    <3> QED BY <3>1, <3>2
  <2> HIDE DEF P
  <2> QED BY <2>1, <2>6
<1>5. Accounts \in T
  <2>1. \A n \in 0 .. Accounts : n \in T
    <3> HIDE DEF T
    <3> QED BY <1>2, <1>3, <1>4, Counting
  <2> HIDE DEF T
  <2> QED BY <1>2, <2>1
<1>6. P(Accounts) /\ f[Accounts] \in Indexes
  <2> HIDE DEF P
  <2> QED BY <1>2, <1>5
<1>7. upto(Accounts) = list
  <2>1. \A i \in Ids : i <= Accounts
    BY <1>2 DEF Ids
  <2> QED BY <2>1
<1> QED BY <1>1, <1>6, <1>7
------------------------------------------------------------------------------
(* Types, and the index's tables *)

LEMMA MinIs ==
  ASSUME NEW S \in SUBSET Nat, S # {}
  PROVE  Min(S) \in S /\ \A m \in S : Min(S) <= m
<1>1. \E n \in S : \A m \in S : n <= m
  BY LeastNatural
<1> QED BY <1>1 DEF Min

LEMMA Numbers ==
  Ids \subseteq Nat /\ NoId \notin Ids /\ NoRec \notin Rec /\ Sweeper \in Procs
  /\ Operators \subseteq Procs /\ Portals \subseteq Procs /\ Term \in Nat
BY IndexAssumption DEF Ids, Procs

\* Whose addresses change keeps a list of them.
LEMMA RecOf ==
  ASSUME NEW r \in Rec
  PROVE  /\ \A b \in BOOLEAN : [r EXCEPT !.on = b] \in Rec
         /\ \A n \in Nat : [r EXCEPT !.exp = n] \in Rec
         /\ \A n \in Nat \ {0} : [r EXCEPT !.max = n] \in Rec
         /\ \A l \in Seq(Ips) : Distinct(l) => [r EXCEPT !.ips = l] \in Rec
<1>1. \A l \in Seq(Ips) : Distinct(l) => l \in IpLists
  BY IpListIs
<1> QED BY <1>1 DEF Rec

LEMMA ShortLists ==
  /\ << >> \in Seq(Ips) /\ Distinct(<< >>)
  /\ \A p \in Ips : << p >> \in Seq(Ips) /\ Distinct(<< p >>)
<1>1. DOMAIN << >> = {}
  OBVIOUS
<1>2. ASSUME NEW p \in Ips PROVE << p >> \in Seq(Ips) /\ DOMAIN << p >> = {1}
  OBVIOUS
<1> QED BY <1>1, <1>2 DEF Distinct

LEMMA EditedType ==
  ASSUME NEW r \in Rec, NEW kind \in Kinds, now \in Nat
  PROVE  Edited(kind, r) \subseteq Rec
<1>1. r.on \in BOOLEAN /\ r.exp \in Nat /\ r.ips \in Seq(Ips) /\ Distinct(r.ips)
  BY RecIs
<1>2. Extended(r) \in Rec
  <2>1. (IF r.exp = 0 \/ now > r.exp THEN now ELSE r.exp) + Term \in Nat
    BY <1>1, Numbers
  <2>2. Extended(r) = [r EXCEPT !.exp = (IF r.exp = 0 \/ now > r.exp THEN now ELSE r.exp) + Term]
    BY DEF Extended, Rec
  <2> QED BY <2>1, <2>2, RecOf
<1>3. CASE kind = "toggle"
  <2>1. Toggled(r) = [r EXCEPT !.on = ~r.on]
    BY DEF Toggled, Rec
  <2>2. Toggled(r) \in Rec
    BY <1>1, <2>1, RecOf
  <2> QED BY <1>3, <2>2 DEF Edited
<1>4. CASE kind = "renew"
  <2>1. Renewed(r) \in Rec
    BY <1>2, RecOf DEF Renewed
  <2> QED BY <1>4, <2>1 DEF Edited
<1>5. CASE kind = "ip"
  <2>1. ASSUME NEW l \in { << >> } \cup { << p >> : p \in Ips } PROVE [r EXCEPT !.ips = l] \in Rec
    <3>1. l \in Seq(Ips) /\ Distinct(l)
      BY ShortLists
    <3> QED BY <3>1, RecOf
  <2>2. Readdressed(r) \subseteq Rec
    BY <2>1 DEF Readdressed
  <2> QED BY <1>5, <2>2 DEF Edited
<1>6. CASE kind = "remove"
  <2>1. ASSUME NEW p \in Ips PROVE [r EXCEPT !.ips = Without(@, p)] \in Rec
    <3>1. Without(r.ips, p) \in Seq(Ips) /\ Distinct(Without(r.ips, p))
      BY <1>1, WithoutIs
    <3>2. [r EXCEPT !.ips = Without(@, p)] = [r EXCEPT !.ips = Without(r.ips, p)]
      BY DEF Rec
    <3> QED BY <3>1, <3>2, RecOf
  <2>2. Removed(r) \subseteq Rec
    BY <2>1 DEF Removed
  <2> QED BY <1>6, <2>2 DEF Edited
<1>7. CASE kind = "update"
  <2>1. ASSUME NEW n \in 1 .. 2 PROVE [r EXCEPT !.max = n] \in Rec
    <3>1. n \in Nat \ {0}
      OBVIOUS
    <3> QED BY <3>1, RecOf
  <2>2. Updated(r) \subseteq Rec
    BY <1>2, <2>1 DEF Updated
  <2> QED BY <1>7, <2>2 DEF Edited
<1>8. CASE kind \in {"domain", "secret"}
  BY <1>8 DEF Edited
<1> QED BY <1>3, <1>4, <1>5, <1>6, <1>7, <1>8 DEF Kinds

LEMMA BoundType ==
  ASSUME NEW r \in Rec, NEW ip \in Ips
  PROVE  Bound(r, ip) \in Rec
<1> DEFINE l == r.ips
<1> DEFINE known == Without(l, ip)
<1> DEFINE from == Len(l) - r.max + 2
<1> DEFINE newest == SubSeq(l, from, Len(l))
<1> DEFINE kept == IF Len(known) < Len(l) \/ Len(l) < r.max THEN known ELSE newest
<1>1. l \in Seq(Ips) /\ Distinct(l) /\ r.max \in Nat \ {0} /\ Len(l) \in Nat
  BY RecIs
<1>2. known \in Seq(Ips) /\ Distinct(known) /\ Range(known) = Range(l) \ {ip} /\ Len(known) <= Len(l)
  BY <1>1, WithoutIs
<1>3. ip \in Range(l) => Len(known) < Len(l)
  <2> HIDE DEF l, known
  <2>1. ASSUME ip \in Range(l) PROVE Len(known) # Len(l)
    <3>1. /\ IsFiniteSet(Range(l)) /\ Cardinality(Range(l)) = Len(l)
          /\ Cardinality(Range(known)) = Len(known)
      BY <1>1, <1>2, DistinctLen
    <3>2. Cardinality(Range(l) \ {ip}) = Cardinality(Range(l)) - 1
      BY <2>1, <3>1, FS_RemoveElement
    <3> QED BY <1>1, <1>2, <3>1, <3>2
  <2>2. Len(known) \in Nat
    BY <1>2
  <2> QED BY <1>1, <1>2, <2>1, <2>2
<1>4. Len(l) >= r.max => newest \in Seq(Ips) /\ Distinct(newest) /\ Range(newest) \subseteq Range(l)
  <2> SUFFICES ASSUME Len(l) >= r.max
               PROVE  newest \in Seq(Ips) /\ Distinct(newest) /\ Range(newest) \subseteq Range(l)
    OBVIOUS
  <2>1. from \in Nat /\ from >= 2
    BY <1>1
  <2> HIDE DEF from, l
  <2>2. /\ newest \in Seq(Ips)
        /\ \A k \in DOMAIN newest : from + k - 1 \in DOMAIN l /\ newest[k] = l[from + k - 1]
        /\ DOMAIN newest \subseteq Nat
    BY <1>1, <2>1
  <2> HIDE DEF newest
  <2>3. Distinct(newest)
    <3>1. \A i, j \in DOMAIN newest : newest[i] = newest[j] => from + i - 1 = from + j - 1
      BY <1>1, <2>2 DEF Distinct
    <3>2. \A i, j \in Nat : from + i - 1 = from + j - 1 => i = j
      BY <2>1
    <3> QED BY <2>2, <3>1, <3>2 DEF Distinct
  <2> QED BY <2>2, <2>3 DEF Range
<1>5. kept \in Seq(Ips) /\ Distinct(kept) /\ ip \notin Range(kept)
  <2> HIDE DEF known, newest, l
  <2> QED BY <1>1, <1>2, <1>3, <1>4
<1>6. Bound(r, ip) = [r EXCEPT !.ips = Append(kept, ip)]
  BY DEF Bound
<1> HIDE DEF kept
<1>7. Append(kept, ip) \in Seq(Ips) /\ Distinct(Append(kept, ip))
  BY <1>5, AppendIs
<1> QED BY <1>6, <1>7, RecOf
\* What every step keeps: the types, and the index's tables.
Base == TypeOK /\ Sound(Index, now)

LEMMA IdleIs ==
  Idle \in Frame /\ Ready(Idle)
<1>1. Idle.pc = "idle"
  BY DEF Idle
<1>2. Ready(Idle)
  BY <1>1 DEF Ready
<1>3. [i \in Ids |-> NoRec] \in [Ids -> Rec \cup {NoRec}]
  OBVIOUS
<1>4. "idle" \in PCs
  BY DEF PCs
<1>5. "" \in Kinds \cup {""}
  OBVIOUS
<1>6. 0 \in Nat /\ {} \in SUBSET Ids
  OBVIOUS
<1>7. Idle \in Frame
  BY <1>3, <1>4, <1>5, <1>6 DEF Idle, Frame
<1> QED BY <1>2, <1>7

LEMMA FrameOf ==
  ASSUME NEW f \in Frame
  PROVE  /\ \A pc \in PCs : [f EXCEPT !.pc = pc] \in Frame
         /\ f.pc \in PCs /\ f.id \in Ids \cup {NoId} /\ f.ip \in Ips \cup {NoIp}
         /\ f.rec \in Rec \cup {NoRec} /\ f.list \in [Ids -> Rec \cup {NoRec}]
         /\ f.todo \subseteq Ids /\ f.at \in Nat /\ f.changed \in BOOLEAN
BY DEF Frame

LEMMA Becomes ==
  ASSUME TypeOK, NEW p \in Procs, NEW f, Become(p, f)
  PROVE  /\ proc'[p] = f /\ \A q \in Procs : q # p => proc'[q] = proc[q]
         /\ f \in Frame /\ Ready(f)
              => proc' \in [Procs -> Frame] /\ \A q \in Procs : Ready(proc'[q])
<1>1. proc \in [Procs -> Frame] /\ \A q \in Procs : Ready(proc[q])
  BY DEF TypeOK
<1>2. proc' = [proc EXCEPT ![p] = f]
  BY DEF Become
<1>3. proc'[p] = f /\ \A q \in Procs : q # p => proc'[q] = proc[q]
  BY <1>1, <1>2
<1>4. f \in Frame => proc' \in [Procs -> Frame]
  BY <1>1, <1>2
<1>5. Ready(f) => \A q \in Procs : Ready(proc'[q])
  BY <1>1, <1>3
<1> QED BY <1>3, <1>4, <1>5

LEMMA IndexIs ==
  ASSUME TypeOK
  PROVE  /\ Index \in Indexes
         /\ Index.recs = idMap /\ Index.lists = ipClients /\ Index.tops = ipMap
BY DEF TypeOK, Index, Indexes

\* A step that moves one process, and saves or does not.
LEMMA Steady ==
  ASSUME Base, NEW p \in Procs, NEW f \in Frame, Ready(f), Become(p, f),
         UNCHANGED << now, index >>,
         born' \subseteq Ids, requests' \in Nat, visits' \in Nat, clash' \in BOOLEAN,
         db' \in [Ids -> Rec \cup {NoRec}]
  PROVE  Base'
<1>1. proc' \in [Procs -> Frame] /\ \A q \in Procs : Ready(proc'[q])
  BY Becomes DEF Base
<1>2. now' = now /\ idMap' = idMap /\ ipClients' = ipClients /\ ipMap' = ipMap
  BY DEF index
<1>3. Index' = Index
  BY <1>2 DEF Index
<1>4. Sound(Index', now')
  BY <1>2, <1>3 DEF Base
<1>5. TypeOK'
  BY <1>1, <1>2 DEF Base, TypeOK
<1> QED BY <1>4, <1>5 DEF Base

LEMMA Still ==
  ASSUME Base, UNCHANGED vars
  PROVE  Base'
<1>1. /\ now' = now /\ idMap' = idMap /\ ipClients' = ipClients /\ ipMap' = ipMap
      /\ db' = db /\ born' = born /\ proc' = proc /\ requests' = requests /\ visits' = visits
      /\ clash' = clash
  BY DEF vars, index
<1>2. Index' = Index
  BY <1>1 DEF Index
<1> QED BY <1>1, <1>2 DEF Base, TypeOK

\* A step that installs an index and is over.
LEMMA Installs ==
  ASSUME Base, NEW p \in Procs, NEW ix \in Indexes, Installed(ix), Sound(ix, now), Finished(p),
         UNCHANGED << now, db, born, requests, visits, clash >>
  PROVE  Base' /\ Index' = ix /\ idMap' = ix.recs
<1>1. idMap' = ix.recs /\ ipClients' = ix.lists /\ ipMap' = ix.tops
  BY DEF Installed
<1>2. Index' = [recs |-> ix.recs, lists |-> ix.lists, tops |-> ix.tops]
  BY <1>1 DEF Index
<1>3. ix = [recs |-> ix.recs, lists |-> ix.lists, tops |-> ix.tops]
  BY DEF Indexes
<1>4. Index' = ix
  BY <1>2, <1>3
<1>5. ix.recs \in [Ids -> Rec \cup {NoRec}] /\ ix.lists \in [Ips -> Seq(Ids)]
      /\ ix.tops \in [Ips -> Ids \cup {NoId}]
  BY DEF Indexes
<1>6. proc' \in [Procs -> Frame] /\ \A q \in Procs : Ready(proc'[q])
  BY IdleIs, Becomes DEF Base, Finished
<1>7. TypeOK'
  BY <1>1, <1>5, <1>6 DEF Base, TypeOK
<1> QED BY <1>1, <1>4, <1>7 DEF Base

LEMMA Saves ==
  ASSUME TypeOK, NEW i \in Ids, NEW r \in Rec \cup {NoRec}, db' = [db EXCEPT ![i] = r]
  PROVE  /\ db' \in [Ids -> Rec \cup {NoRec}] /\ db'[i] = r
         /\ \A j \in Ids : j # i => db'[j] = db[j]
BY DEF TypeOK

LEMMA Asks ==
  ASSUME TypeOK, Request
  PROVE  requests' \in Nat
BY DEF TypeOK, Request

LEMMA Overlaps ==
  ASSUME NEW p, Writes(p), clash \in BOOLEAN
  PROVE  clash' \in BOOLEAN
BY DEF Writes
LEMMA ProvisionType ==
  ASSUME now \in Nat, NEW ips \in { << >> } \cup { << p >> : p \in Ips }
  PROVE  [ on |-> TRUE, exp |-> now + Term, ips |-> ips, max |-> 1 ] \in Rec
<1>1. ips \in Seq(Ips) /\ Distinct(ips)
  BY ShortLists
<1>2. ips \in IpLists
  BY <1>1, IpListIs
<1>3. now + Term \in Nat
  BY Numbers
<1> QED BY <1>2, <1>3 DEF Rec

LEMMA TickBase ==
  ASSUME Base, Tick
  PROVE  Base'
<1>1. now \in Nat /\ now' = now + 1 /\ UNCHANGED << db, index, born, proc, requests, visits, clash >>
  BY DEF Base, TypeOK, Tick
<1>2. idMap' = idMap /\ ipClients' = ipClients /\ ipMap' = ipMap /\ Index' = Index
  BY <1>1 DEF index, Index
<1>3. TypeOK'
  BY <1>1, <1>2 DEF Base, TypeOK
<1>4. \A i \in Ids : (Index.recs[i] # NoRec /\ Active(Index.recs[i], now + 1)) => Active(Index.recs[i], now)
  <2>1. \A i \in Ids : Index.recs[i] # NoRec => Index.recs[i].exp \in Nat
    BY IndexIs, RecIs DEF Base, Indexes
  <2>2. \A n \in Nat : ~(n # 0 /\ now + 1 > n) => ~(n # 0 /\ now > n)
    BY <1>1
  <2> QED BY <2>1, <2>2 DEF Active, Expired
<1>5. Sound(Index, now + 1)
  BY <1>4 DEF Sound, Base
<1>6. Sound(Index', now')
  BY <1>1, <1>2, <1>5
<1> QED BY <1>3, <1>6 DEF Base

LEMMA ReloadListBase ==
  ASSUME Base, NEW p \in Procs, ReloadList(p)
  PROVE  Base'
<1> DEFINE f == [proc[p] EXCEPT !.pc = "install", !.list = db]
<1>1. proc[p] \in Frame /\ db \in [Ids -> Rec \cup {NoRec}]
  BY DEF Base, TypeOK
<1>2. f \in Frame /\ f.pc = "install"
  BY <1>1 DEF Frame, PCs
<1>3. Become(p, f) /\ UNCHANGED << now, db, index, born, requests, visits, clash >>
  BY DEF ReloadList
<1> HIDE DEF f
<1>4. Ready(f)
  BY <1>2 DEF Ready
<1>5. born' \subseteq Ids /\ requests' \in Nat /\ visits' \in Nat /\ clash' \in BOOLEAN
      /\ db' \in [Ids -> Rec \cup {NoRec}]
  BY <1>3 DEF Base, TypeOK
<1> QED BY <1>2, <1>3, <1>4, <1>5, Steady

LEMMA ReloadInstallBase ==
  ASSUME Base, NEW p \in Procs, ReloadInstall(p)
  PROVE  /\ Base' /\ idMap' = proc[p].list
         /\ Live(Index', now)
<1> DEFINE ix == Rebuilt(proc[p].list)
<1>1. proc[p].list \in [Ids -> Rec \cup {NoRec}] /\ now \in Nat
  BY FrameOf DEF Base, TypeOK
<1>2. ix \in Indexes /\ Sound(ix, now) /\ Live(ix, now) /\ ix.recs = proc[p].list
  BY <1>1, RebuiltIs
<1>3. /\ Installed(ix) /\ Finished(p)
      /\ UNCHANGED << now, db, born, requests, visits, clash >>
  BY DEF ReloadInstall
<1> HIDE DEF ix
<1>4. Base' /\ Index' = ix /\ idMap' = ix.recs
  BY <1>2, <1>3, Installs
<1> QED BY <1>2, <1>4

LEMMA RefreshBase ==
  ASSUME Base, NEW p \in Procs, RefreshClientIndex(p)
  PROVE  /\ Base' /\ idMap' = [idMap EXCEPT ![proc[p].id] = proc[p].rec]
<1> DEFINE i == proc[p].id
<1> DEFINE r == proc[p].rec
<1> DEFINE out == Deindexed(Index, i)
<1> DEFINE ix == Filed(out, i, r)
<1>1. i \in Ids /\ r \in Rec /\ now \in Nat
  BY DEF Base, TypeOK, Ready, RefreshClientIndex
<1>2. Index \in Indexes /\ Sound(Index, now) /\ Index.recs = idMap
  BY IndexIs DEF Base
<1>3. out \in Indexes /\ Sound(out, now) /\ out.recs = [idMap EXCEPT ![i] = NoRec]
  BY <1>1, <1>2, DeindexedSound
<1>4. out.recs[i] = NoRec
  BY <1>1, <1>3 DEF Base, TypeOK
<1> HIDE DEF out
<1>5. ix \in Indexes /\ Sound(ix, now) /\ ix.recs = [out.recs EXCEPT ![i] = r]
  <2> HIDE DEF i, r
  <2>1. ix \in Indexes
    BY <1>1, <1>3, FiledType
  <2>2. out.recs[i] = NoRec /\ out \in Indexes /\ Sound(out, now) /\ i \in Ids /\ r \in Rec /\ now \in Nat
    BY <1>1, <1>3, <1>4
  <2>3. Sound(ix, now)
    BY <2>2, FiledSound
  <2>4. ix.recs = [out.recs EXCEPT ![i] = r]
    BY <2>2, FiledSound
  <2> QED BY <2>1, <2>3, <2>4
<1>6. /\ Installed(ix) /\ Finished(p)
      /\ UNCHANGED << now, db, born, requests, visits, clash >>
  BY DEF RefreshClientIndex, out
<1> HIDE DEF ix
<1>7. Base' /\ idMap' = ix.recs
  BY <1>5, <1>6, Installs
<1>8. ix.recs = [idMap EXCEPT ![i] = r]
  BY <1>3, <1>5
<1> QED BY <1>7, <1>8

LEMMA EditReadBase ==
  ASSUME Base, NEW e \in Operators, NEW i \in Ids, NEW kind \in Edits \ {"provision", "delete"},
         EditRead(e, i, kind)
  PROVE  Base'
<1>1. kind \in Kinds /\ e \in Procs
  BY IndexAssumption, Numbers
<1>2. PICK r \in Edited(kind, db[i]) :
         Become(e, [Idle EXCEPT !.pc = "save", !.id = i, !.kind = kind, !.rec = r])
  BY DEF EditRead
<1> DEFINE f == [Idle EXCEPT !.pc = "save", !.id = i, !.kind = kind, !.rec = r]
<1>3. r \in Rec
  <2>1. db[i] \in Rec /\ now \in Nat
    BY DEF EditRead, Base, TypeOK
  <2> QED BY <1>1, <1>2, <2>1, EditedType
<1>4. f \in Frame /\ f.pc = "save" /\ f.id = i /\ f.rec = r
  BY <1>1, <1>3, IdleIs DEF Frame, PCs
<1>5. Become(e, f)
  BY <1>2
<1> HIDE DEF f
<1>6. Ready(f)
  BY <1>3, <1>4 DEF Ready
<1>7. Request /\ UNCHANGED << now, db, index, born, visits, clash >>
  BY DEF EditRead
<1>8. born' \subseteq Ids /\ requests' \in Nat /\ visits' \in Nat /\ clash' \in BOOLEAN
      /\ db' \in [Ids -> Rec \cup {NoRec}]
  BY <1>7, Asks DEF Base, TypeOK
<1> QED BY <1>1, <1>4, <1>5, <1>6, <1>7, <1>8, Steady

LEMMA EditSaveBase ==
  ASSUME Base, NEW e \in Operators, EditSave(e)
  PROVE  Base'
<1> DEFINE f == proc[e]
<1>1. e \in Procs /\ f \in Frame /\ f.pc = "save" /\ f.id \in Ids /\ f.rec \in Rec
  BY Numbers DEF Base, TypeOK, EditSave, Ready
<1>2. UNCHANGED << now, index, born, requests, visits >>
  BY DEF EditSave
<1>3. CASE db' = [db EXCEPT ![f.id] = f.rec] /\ Writes(e)
           /\ (Move(e, "reread") \/ Finished(e) \/ Move(e, "list"))
  <2>1. db' \in [Ids -> Rec \cup {NoRec}]
    BY <1>1, <1>3, Saves DEF Base
  <2>2. clash' \in BOOLEAN
    BY <1>3, Overlaps DEF Base, TypeOK
  <2>3. born' \subseteq Ids /\ requests' \in Nat /\ visits' \in Nat
    BY <1>2 DEF Base, TypeOK
  <2>4. \A pc \in {"reread", "list"} :
           [f EXCEPT !.pc = pc] \in Frame /\ Ready([f EXCEPT !.pc = pc])
    <3>1. ASSUME NEW pc \in {"reread", "list"}
          PROVE  [f EXCEPT !.pc = pc] \in Frame /\ Ready([f EXCEPT !.pc = pc])
      <4> DEFINE g == [f EXCEPT !.pc = pc]
      <4>1. g \in Frame /\ g.pc = pc /\ g.id = f.id
        BY <1>1 DEF Frame, PCs
      <4> HIDE DEF g
      <4>2. Ready(g)
        BY <1>1, <4>1 DEF Ready
      <4> QED BY <4>1, <4>2 DEF g
    <3> QED BY <3>1
  <2>5. CASE Finished(e)
    BY <1>1, <1>2, <2>1, <2>2, <2>3, <2>5, IdleIs, Steady DEF Finished
  <2>6. CASE Move(e, "reread") \/ Move(e, "list")
    <3>1. PICK pc \in {"reread", "list"} : Become(e, [f EXCEPT !.pc = pc])
      BY <2>6 DEF Move
    <3> DEFINE g == [f EXCEPT !.pc = pc]
    <3>2. g \in Frame /\ Ready(g) /\ Become(e, g)
      BY <2>4, <3>1
    <3> HIDE DEF g
    <3> QED BY <1>1, <1>2, <2>1, <2>2, <2>3, <3>2, Steady
  <2> QED BY <1>3, <2>5, <2>6
<1>4. CASE Finished(e) /\ UNCHANGED << db, clash >>
  <2>1. born' \subseteq Ids /\ requests' \in Nat /\ visits' \in Nat /\ clash' \in BOOLEAN
        /\ db' \in [Ids -> Rec \cup {NoRec}]
    BY <1>2, <1>4 DEF Base, TypeOK
  <2> QED BY <1>1, <1>2, <1>4, <2>1, IdleIs, Steady DEF Finished
<1> QED BY <1>3, <1>4 DEF EditSave
LEMMA EditRereadBase ==
  ASSUME Base, NEW e \in Operators, EditReread(e)
  PROVE  Base'
<1> DEFINE f == proc[e]
<1>1. e \in Procs /\ f \in Frame /\ f.id \in Ids
  BY Numbers DEF Base, TypeOK, EditReread, Ready
<1>2. UNCHANGED << now, db, index, born, requests, visits, clash >>
  BY DEF EditReread
<1>3. born' \subseteq Ids /\ requests' \in Nat /\ visits' \in Nat /\ clash' \in BOOLEAN
      /\ db' \in [Ids -> Rec \cup {NoRec}]
  BY <1>2 DEF Base, TypeOK
<1>4. CASE db[f.id] = NoRec
  BY <1>1, <1>2, <1>3, <1>4, IdleIs, Steady DEF EditReread, Finished
<1>5. CASE db[f.id] # NoRec
  <2> DEFINE g == [f EXCEPT !.pc = "refresh", !.rec = db[f.id]]
  <2>1. db[f.id] \in Rec
    BY <1>1, <1>5 DEF Base, TypeOK
  <2>2. g \in Frame /\ g.pc = "refresh" /\ g.id = f.id /\ g.rec \in Rec
    BY <1>1, <2>1 DEF Frame, PCs
  <2>3. Become(e, g)
    BY <1>5 DEF EditReread
  <2> HIDE DEF g
  <2>4. Ready(g)
    BY <1>1, <2>2 DEF Ready
  <2> QED BY <1>1, <1>2, <1>3, <2>2, <2>3, <2>4, Steady
<1> QED BY <1>4, <1>5

LEMMA ProvisionBase ==
  ASSUME Base, NEW e \in Operators, NEW i \in Ids, NEW ips \in { << >> } \cup { << p >> : p \in Ips },
         ProvisionClient(e, i, ips)
  PROVE  Base'
<1> DEFINE f == [Idle EXCEPT !.pc = "list"]
<1> DEFINE r == [ on |-> TRUE, exp |-> now + Term, ips |-> ips, max |-> 1 ]
<1>1. e \in Procs /\ now \in Nat
  BY Numbers DEF Base, TypeOK
<1>2. /\ Request /\ db' = [db EXCEPT ![i] = r] /\ born' = born \cup {i} /\ Writes(e)
      /\ Become(e, f) /\ UNCHANGED << now, index, visits >>
  BY DEF ProvisionClient
<1>3. r \in Rec
  BY <1>1, ProvisionType
<1> HIDE DEF r
<1>4. db' \in [Ids -> Rec \cup {NoRec}]
  BY <1>2, <1>3, Saves DEF Base
<1>5. born' \subseteq Ids /\ requests' \in Nat /\ visits' \in Nat /\ clash' \in BOOLEAN
  BY <1>2, Asks, Overlaps DEF Base, TypeOK
<1>6. f \in Frame /\ f.pc = "list"
  BY IdleIs DEF Frame, PCs
<1> HIDE DEF f
<1>7. Ready(f)
  BY <1>6 DEF Ready
<1> QED BY <1>1, <1>2, <1>4, <1>5, <1>6, <1>7, Steady

LEMMA DeleteBase ==
  ASSUME Base, NEW e \in Operators, NEW i \in Ids, DeleteClient(e, i)
  PROVE  Base'
<1> DEFINE f == [Idle EXCEPT !.pc = "list"]
<1>1. e \in Procs
  BY Numbers
<1>2. /\ Request /\ db' = [db EXCEPT ![i] = NoRec] /\ Writes(e)
      /\ Become(e, f) /\ UNCHANGED << now, index, born, visits >>
  BY DEF DeleteClient
<1>3. db' \in [Ids -> Rec \cup {NoRec}]
  BY <1>2, Saves DEF Base
<1>4. born' \subseteq Ids /\ requests' \in Nat /\ visits' \in Nat /\ clash' \in BOOLEAN
  BY <1>2, Asks, Overlaps DEF Base, TypeOK
<1>5. f \in Frame /\ f.pc = "list"
  BY IdleIs DEF Frame, PCs
<1> HIDE DEF f
<1>6. Ready(f)
  BY <1>5 DEF Ready
<1> QED BY <1>1, <1>2, <1>3, <1>4, <1>5, <1>6, Steady

LEMMA RegisterLookupBase ==
  ASSUME Base, NEW p \in Portals, NEW i \in Ids, NEW ip \in Ips, RegisterLookup(p, i, ip)
  PROVE  Base'
<1> DEFINE f == [Idle EXCEPT !.pc = "lock", !.id = i, !.ip = ip]
<1>1. p \in Procs
  BY Numbers
<1>2. /\ visits' = visits + 1 /\ Become(p, f)
      /\ UNCHANGED << now, db, index, born, requests, clash >>
  BY DEF RegisterLookup
<1>3. born' \subseteq Ids /\ requests' \in Nat /\ visits' \in Nat /\ clash' \in BOOLEAN
      /\ db' \in [Ids -> Rec \cup {NoRec}]
  BY <1>2 DEF Base, TypeOK
<1>4. f \in Frame /\ f.pc = "lock" /\ f.id = i /\ f.ip = ip
  BY IdleIs DEF Frame, PCs
<1> HIDE DEF f
<1>5. Ready(f)
  BY <1>4 DEF Ready
<1> QED BY <1>1, <1>2, <1>3, <1>4, <1>5, Steady

LEMMA RegisterLockBase ==
  ASSUME Base, NEW p \in Portals, RegisterLock(p)
  PROVE  Base'
<1> DEFINE f == [proc[p] EXCEPT !.pc = "bind"]
<1>1. p \in Procs /\ proc[p] \in Frame /\ proc[p].id \in Ids /\ proc[p].ip \in Ips
  BY Numbers DEF Base, TypeOK, RegisterLock, Ready
<1>2. Become(p, f) /\ UNCHANGED << now, db, index, born, requests, visits, clash >>
  BY DEF RegisterLock, Move
<1>3. born' \subseteq Ids /\ requests' \in Nat /\ visits' \in Nat /\ clash' \in BOOLEAN
      /\ db' \in [Ids -> Rec \cup {NoRec}]
  BY <1>2 DEF Base, TypeOK
<1>4. f \in Frame /\ f.pc = "bind" /\ f.id \in Ids /\ f.ip \in Ips
  BY <1>1 DEF Frame, PCs
<1> HIDE DEF f
<1>5. Ready(f)
  BY <1>4 DEF Ready
<1> QED BY <1>1, <1>2, <1>3, <1>4, <1>5, Steady

LEMMA RegisterReadBase ==
  ASSUME Base, NEW p \in Portals, RegisterRead(p)
  PROVE  Base'
<1> DEFINE f == proc[p]
<1> DEFINE r == db[f.id]
<1>1. p \in Procs /\ f \in Frame /\ f.id \in Ids /\ f.ip \in Ips
  BY Numbers DEF Base, TypeOK, RegisterRead, Ready
<1>2. UNCHANGED << now, db, index, born, requests, visits, clash >>
  BY DEF RegisterRead
<1>3. born' \subseteq Ids /\ requests' \in Nat /\ visits' \in Nat /\ clash' \in BOOLEAN
      /\ db' \in [Ids -> Rec \cup {NoRec}]
  BY <1>2 DEF Base, TypeOK
<1>4. r # NoRec => r \in Rec
  BY <1>1 DEF Base, TypeOK
<1>5. ASSUME NEW pc \in {"saveExpired", "saveBind", "refresh"}, NEW s \in Rec,
             Become(p, [f EXCEPT !.pc = pc, !.rec = s])
      PROVE  Base'
  <2> DEFINE g == [f EXCEPT !.pc = pc, !.rec = s]
  <2>1. g \in Frame /\ g.pc = pc /\ g.id = f.id /\ g.rec = s
    BY <1>1 DEF Frame, PCs
  <2>2. Become(p, g)
    BY <1>5
  <2> HIDE DEF g
  <2>3. Ready(g)
    BY <1>1, <2>1 DEF Ready
  <2> QED BY <1>1, <1>2, <1>3, <2>1, <2>2, <2>3, Steady
<1>6. CASE r # NoRec /\ Become(p, [f EXCEPT !.pc = "saveExpired", !.rec = [r EXCEPT !.on = FALSE]])
  <2>1. [r EXCEPT !.on = FALSE] \in Rec
    BY <1>4, <1>6, RecOf
  <2> QED BY <1>5, <1>6, <2>1
<1>7. CASE Finished(p)
  BY <1>1, <1>2, <1>3, <1>7, IdleIs, Steady DEF Finished
<1>8. CASE r # NoRec /\ Become(p, [f EXCEPT !.pc = "saveBind", !.rec = Bound(r, f.ip)])
  <2>1. Bound(r, f.ip) \in Rec
    BY <1>1, <1>4, <1>8, BoundType
  <2> QED BY <1>5, <1>8, <2>1
<1>9. CASE r # NoRec /\ Become(p, [f EXCEPT !.pc = "refresh", !.rec = r])
  BY <1>4, <1>5, <1>9
<1> QED BY <1>6, <1>7, <1>8, <1>9 DEF RegisterRead

LEMMA RegisterSaveBase ==
  ASSUME Base, NEW p \in Portals, RegisterSave(p)
  PROVE  Base'
<1> DEFINE f == proc[p]
<1> DEFINE g == [f EXCEPT !.pc = "refresh"]
<1>1. p \in Procs /\ f \in Frame /\ f.id \in Ids /\ f.rec \in Rec
  BY Numbers DEF Base, TypeOK, RegisterSave, Ready
<1>2. UNCHANGED << now, index, born, requests, visits >>
  BY DEF RegisterSave
<1>3. \/ db' = [db EXCEPT ![f.id] = f.rec] /\ Writes(p) /\ Become(p, g)
      \/ (Become(p, g) \/ Finished(p)) /\ UNCHANGED << db, clash >>
  BY DEF RegisterSave, Move
<1>4. db' \in [Ids -> Rec \cup {NoRec}]
  BY <1>1, <1>3, Saves DEF Base, TypeOK
<1>5. clash' \in BOOLEAN
  BY <1>3, Overlaps DEF Base, TypeOK
<1>6. born' \subseteq Ids /\ requests' \in Nat /\ visits' \in Nat
  BY <1>2 DEF Base, TypeOK
<1>7. g \in Frame /\ g.pc = "refresh" /\ g.id \in Ids /\ g.rec \in Rec
  BY <1>1 DEF Frame, PCs
<1> HIDE DEF g
<1>8. Ready(g)
  BY <1>7 DEF Ready
<1>9. CASE Become(p, g)
  BY <1>1, <1>2, <1>4, <1>5, <1>6, <1>7, <1>8, <1>9, Steady
<1>10. CASE Finished(p)
  BY <1>1, <1>2, <1>4, <1>5, <1>6, <1>10, IdleIs, Steady DEF Finished
<1> QED BY <1>3, <1>9, <1>10

LEMMA SweepListBase ==
  ASSUME Base, SweepList
  PROVE  Base'
<1> DEFINE some == { i \in Ids : Outdated(db[i], now) }
<1> DEFINE f == [Idle EXCEPT !.pc = "each", !.at = now, !.list = db, !.todo = some]
<1>1. Become(Sweeper, f) /\ UNCHANGED << now, db, index, born, requests, visits, clash >>
  BY DEF SweepList
<1>2. now \in Nat /\ db \in [Ids -> Rec \cup {NoRec}] /\ some \in SUBSET Ids
  BY DEF Base, TypeOK
<1> HIDE DEF some
<1>3. f \in Frame /\ f.pc = "each"
  BY <1>2, IdleIs DEF Frame, PCs
<1> HIDE DEF f
<1>4. Ready(f)
  BY <1>3 DEF Ready
<1>5. born' \subseteq Ids /\ requests' \in Nat /\ visits' \in Nat /\ clash' \in BOOLEAN
      /\ db' \in [Ids -> Rec \cup {NoRec}]
  BY <1>1 DEF Base, TypeOK
<1> QED BY <1>1, <1>3, <1>4, <1>5, Numbers, Steady

LEMMA SweepReadBase ==
  ASSUME Base, SweepRead
  PROVE  Base' /\ Min(proc[Sweeper].todo) \in proc[Sweeper].todo
<1> DEFINE f == proc[Sweeper]
<1> DEFINE i == Min(f.todo)
<1>1. f \in Frame /\ f.todo \subseteq Ids /\ f.todo # {} /\ f.pc = "each"
  BY Numbers, FrameOf DEF Base, TypeOK, SweepRead
<1>2. i \in f.todo
  BY <1>1, Numbers, MinIs
<1>3. UNCHANGED << now, db, index, born, requests, visits, clash >>
  BY DEF SweepRead
<1>4. born' \subseteq Ids /\ requests' \in Nat /\ visits' \in Nat /\ clash' \in BOOLEAN
      /\ db' \in [Ids -> Rec \cup {NoRec}]
  BY <1>3 DEF Base, TypeOK
<1>5. CASE Outdated(db[i], f.at)
  <2> DEFINE g == [f EXCEPT !.pc = "saveOff", !.id = i, !.rec = [db[i] EXCEPT !.on = FALSE]]
  <2>1. db[i] \in Rec /\ i \in Ids
    BY <1>1, <1>2, <1>5 DEF Outdated, Base, TypeOK
  <2>2. [db[i] EXCEPT !.on = FALSE] \in Rec
    BY <2>1, RecOf
  <2>3. Become(Sweeper, g)
    BY <1>5 DEF SweepRead
  <2> HIDE DEF i
  <2>4. g \in Frame /\ g.pc = "saveOff" /\ g.id = i /\ g.rec \in Rec
    BY <1>1, <2>1, <2>2 DEF Frame, PCs
  <2> HIDE DEF g
  <2>5. Ready(g)
    BY <2>1, <2>4 DEF Ready
  <2>6. Base'
    BY <1>3, <1>4, <2>3, <2>4, <2>5, Numbers, Steady
  <2> QED BY <1>2, <2>6 DEF i
<1>6. CASE ~Outdated(db[i], f.at)
  <2> DEFINE g == [f EXCEPT !.todo = @ \ {i}]
  <2>1. Become(Sweeper, g)
    BY <1>6 DEF SweepRead
  <2> HIDE DEF i
  <2>2. g \in Frame /\ g.pc = "each"
    BY <1>1 DEF Frame, PCs
  <2> HIDE DEF g
  <2>3. Ready(g)
    BY <2>2 DEF Ready
  <2>4. Base'
    BY <1>3, <1>4, <2>1, <2>2, <2>3, Numbers, Steady
  <2> QED BY <1>2, <2>4 DEF i
<1> QED BY <1>5, <1>6

LEMMA SweepSavedFrame ==
  ASSUME Base, NEW ok \in BOOLEAN, SweepSaved(ok)
  PROVE  /\ \E g \in Frame : Ready(g) /\ Become(Sweeper, g)
         /\ proc[Sweeper].id \in Ids /\ proc[Sweeper].rec \in Rec
         /\ UNCHANGED << now, index, born, requests, visits >>
<1> DEFINE f == proc[Sweeper]
<1> DEFINE g == [f EXCEPT !.pc = "each", !.todo = @ \ {f.id}, !.rec = NoRec, !.changed = @ \/ ok]
<1>1. f \in Frame /\ f.id \in Ids /\ f.rec \in Rec /\ f.changed \in BOOLEAN
  BY Numbers, FrameOf DEF Base, TypeOK, SweepSaved, Ready
<1>2. (f.changed \/ ok) \in BOOLEAN
  OBVIOUS
<1>3. Become(Sweeper, g) /\ UNCHANGED << now, index, born, requests, visits >>
  BY DEF SweepSaved
<1>4. g \in Frame /\ g.pc = "each"
  BY <1>1, <1>2 DEF Frame, PCs
<1> HIDE DEF g
<1>5. Ready(g)
  BY <1>4 DEF Ready
<1> QED BY <1>1, <1>3, <1>4, <1>5

LEMMA SweepSaveBase ==
  ASSUME Base, SweepSave \/ SweepFail
  PROVE  Base'
<1>1. PICK ok \in BOOLEAN : SweepSaved(ok)
  BY DEF SweepSave, SweepFail
<1>2. PICK g \in Frame : Ready(g) /\ Become(Sweeper, g)
  BY <1>1, SweepSavedFrame
<1>3. proc[Sweeper].id \in Ids /\ proc[Sweeper].rec \in Rec
      /\ UNCHANGED << now, index, born, requests, visits >>
  BY <1>1, SweepSavedFrame
<1>4. db' \in [Ids -> Rec \cup {NoRec}] /\ clash' \in BOOLEAN
  <2>1. CASE SweepSave
    BY <1>3, <2>1, Saves, Overlaps DEF Base, TypeOK, SweepSave
  <2>2. CASE SweepFail
    BY <2>2 DEF Base, TypeOK, SweepFail
  <2> QED BY <2>1, <2>2
<1>5. born' \subseteq Ids /\ requests' \in Nat /\ visits' \in Nat
  BY <1>3 DEF Base, TypeOK
<1> QED BY <1>2, <1>3, <1>4, <1>5, Numbers, Steady

LEMMA SweepDoneBase ==
  ASSUME Base, SweepDone
  PROVE  Base'
<1> DEFINE f == [Idle EXCEPT !.pc = "list", !.at = proc[Sweeper].at]
<1>1. UNCHANGED << now, db, index, born, requests, visits, clash >>
      /\ (Become(Sweeper, f) \/ Finished(Sweeper))
  BY DEF SweepDone
<1>2. born' \subseteq Ids /\ requests' \in Nat /\ visits' \in Nat /\ clash' \in BOOLEAN
      /\ db' \in [Ids -> Rec \cup {NoRec}]
  BY <1>1 DEF Base, TypeOK
<1>3. proc[Sweeper].at \in Nat
  BY Numbers, FrameOf DEF Base, TypeOK
<1>4. f \in Frame /\ f.pc = "list"
  BY <1>3, IdleIs DEF Frame, PCs
<1> HIDE DEF f
<1>5. Ready(f)
  BY <1>4 DEF Ready
<1> QED BY <1>1, <1>2, <1>4, <1>5, IdleIs, Numbers, Steady DEF Finished

LEMMA BaseInit ==
  Init => Base
<1> SUFFICES ASSUME Init PROVE Base
  OBVIOUS
<1>1. db \in [Ids -> Rec \cup {NoRec}] /\ now = 0
  BY IndexAssumption DEF Init
<1> DEFINE ix == Rebuilt(db)
<1>2. ix \in Indexes /\ Sound(ix, now) /\ now \in Nat
  BY <1>1, RebuiltIs
<1>3. idMap = ix.recs /\ ipClients = ix.lists /\ ipMap = ix.tops
  BY DEF Init
<1> HIDE DEF ix
<1>4. Index = ix
  BY <1>2, <1>3 DEF Index, Indexes
<1>5. idMap \in [Ids -> Rec \cup {NoRec}] /\ ipClients \in [Ips -> Seq(Ids)] /\ ipMap \in [Ips -> Ids \cup {NoId}]
  BY <1>2, <1>3 DEF Indexes
<1>6. proc \in [Procs -> Frame] /\ \A p \in Procs : Ready(proc[p])
  <2>1. proc = [p \in Procs |-> Idle]
    BY DEF Init
  <2> QED BY <2>1, IdleIs
<1>7. now \in Nat /\ requests \in Nat /\ visits \in Nat /\ clash \in BOOLEAN /\ born \subseteq Ids
  <2>1. requests = 0 /\ visits = 0 /\ clash = FALSE
    BY DEF Init
  <2>2. born = { i \in Ids : db[i] # NoRec }
    BY DEF Init
  <2> QED BY <1>2, <2>1, <2>2
<1>8. TypeOK
  BY <1>1, <1>5, <1>6, <1>7 DEF TypeOK
<1> QED BY <1>2, <1>4, <1>8 DEF Base

LEMMA BaseStep ==
  Base /\ [Next]_vars => Base'
<1> SUFFICES ASSUME Base, [Next]_vars PROVE Base'
  OBVIOUS
<1>1. CASE UNCHANGED vars
  BY <1>1, Still
<1>2. CASE Tick
  BY <1>2, TickBase
<1>3. ASSUME NEW e \in Operators, NEW i \in Ids,
             \/ \E kind \in Edits \ {"provision", "delete"} : EditRead(e, i, kind)
             \/ \E ips \in { << >> } \cup { << p >> : p \in Ips } : ProvisionClient(e, i, ips)
             \/ DeleteClient(e, i)
      PROVE  Base'
  BY <1>3, EditReadBase, ProvisionBase, DeleteBase
<1>4. ASSUME NEW e \in Operators, OperatorStep(e) PROVE Base'
  BY <1>4, Numbers, EditSaveBase, EditRereadBase, RefreshBase, ReloadListBase, ReloadInstallBase
     DEF OperatorStep, Reload
<1>5. ASSUME NEW p \in Portals, NEW i \in Ids, NEW ip \in Ips, RegisterLookup(p, i, ip) PROVE Base'
  BY <1>5, RegisterLookupBase
<1>6. ASSUME NEW p \in Portals, PortalStep(p) PROVE Base'
  BY <1>6, Numbers, RegisterLockBase, RegisterReadBase, RegisterSaveBase, RefreshBase DEF PortalStep
<1>7. CASE SweepStep
  BY <1>7, Numbers, SweepListBase, SweepReadBase, SweepDoneBase, ReloadListBase, ReloadInstallBase
     DEF SweepStep, Reload
<1>8. CASE SweepSave \/ SweepFail
  BY <1>8, SweepSaveBase
<1> QED BY <1>1, <1>2, <1>3, <1>4, <1>5, <1>6, <1>7, <1>8 DEF Next
LEMMA BaseHolds ==
  Spec => []Base
BY BaseInit, BaseStep, PTL DEF Spec

\* Every variable keeps its type, and whoever is about to save or to file an account has
\* its id and a record to do it with.
THEOREM TypeCorrect == Spec => []TypeOK
<1>1. Base => TypeOK
  BY DEF Base
<1> QED BY <1>1, BaseHolds, PTL

\* The tables of the index (deindexLocked, indexLocked, reloadCache) agree: an address
\* leads to accounts that have it, each once, one of them its entry in ipMap, and an
\* account that is active is under all its addresses.
THEOREM IndexAgreesHolds == Spec => []IndexAgrees
<1>1. ASSUME Base PROVE IndexAgrees
  <2>1. /\ Sound(Index, now) /\ Index.recs = idMap /\ Index.lists = ipClients /\ Index.tops = ipMap
        /\ idMap \in [Ids -> Rec \cup {NoRec}] /\ ipClients \in [Ips -> Seq(Ids)]
    BY <1>1, IndexIs DEF Base, TypeOK
  <2>2. ASSUME NEW i \in Ids, idMap[i] # NoRec
        PROVE  Range(idMap[i].ips) \subseteq Ips /\ \A p \in Ips : Contains(idMap[i].ips, p) <=> p \in Range(idMap[i].ips)
    <3>1. idMap[i] \in Rec
      BY <2>1, <2>2
    <3> QED BY <3>1, RecIs, ContainsIs
  <2>3. ASSUME NEW p \in Ips
        PROVE  /\ \A i \in Range(ipClients[p]) : idMap[i] # NoRec /\ Contains(idMap[i].ips, p)
               /\ Cardinality(Range(ipClients[p])) = Len(ipClients[p])
               /\ IF ipClients[p] = << >> THEN ipMap[p] = NoId ELSE ipMap[p] \in Range(ipClients[p])
    <3> DEFINE l == ipClients[p]
    <3>1. /\ l \in Seq(Ids) /\ Distinct(l)
          /\ \A i \in Range(l) : idMap[i] # NoRec /\ p \in Range(idMap[i].ips)
          /\ Range(l) = {} => ipMap[p] = NoId
          /\ Range(l) # {} => ipMap[p] \in Range(l)
      BY <2>1 DEF Sound
    <3> HIDE DEF l
    <3>2. Range(l) \subseteq Ids /\ (l = << >> <=> Range(l) = {})
      BY <3>1, ContainsIs
    <3>3. Cardinality(Range(l)) = Len(l)
      BY <3>1, DistinctLen
    <3>4. \A i \in Range(l) : idMap[i] # NoRec /\ Contains(idMap[i].ips, p)
      BY <2>2, <3>1, <3>2
    <3> QED BY <3>1, <3>2, <3>3, <3>4 DEF l
  <2>4. ASSUME NEW i \in Ids, idMap[i] # NoRec, Active(idMap[i], now), NEW p \in Range(idMap[i].ips)
        PROVE  Contains(ipClients[p], i)
    <3>1. p \in Ips
      BY <2>2, <2>4
    <3>2. i \in Range(ipClients[p])
      BY <2>1, <2>4, <3>1 DEF Sound
    <3> DEFINE l == ipClients[p]
    <3>3. l \in Seq(Ids) /\ i \in Range(l)
      BY <2>1, <3>1, <3>2
    <3> HIDE DEF l
    <3>4. Contains(l, i)
      BY <3>3, ContainsIs
    <3> QED BY <3>4 DEF l
  <2> QED BY <2>3, <2>4 DEF IndexAgrees
<1> QED BY <1>1, BaseHolds, PTL

\* An account that may be served at an address is never shadowed there by one that may
\* not (IsIPAllowed), whatever was filed after it.
THEOREM ActiveServedHolds == Spec => []ActiveServed
<1>1. ASSUME Base PROVE ActiveServed
  <2>1. /\ Sound(Index, now) /\ Index.recs = idMap /\ Index.lists = ipClients /\ Index.tops = ipMap
        /\ idMap \in [Ids -> Rec \cup {NoRec}] /\ ipClients \in [Ips -> Seq(Ids)] /\ now \in Nat
    BY <1>1, IndexIs DEF Base, TypeOK
  <2> SUFFICES ASSUME NEW p \in Ips, NEW i \in Ids, idMap[i] # NoRec, Served(idMap[i], now),
                      Contains(idMap[i].ips, p)
               PROVE  IsIPAllowed(p) # NoId /\ Served(idMap[IsIPAllowed(p)], now)
    BY DEF ActiveServed
  <2> DEFINE l == ipClients[p]
  <2>2. idMap[i] \in Rec
    BY <2>1
  <2>3. p \in Range(idMap[i].ips) /\ idMap[i].exp \in Nat
    BY <2>2, RecIs, ContainsIs
  <2>4. Active(idMap[i], now)
    BY <2>1, <2>3 DEF Served, Active, Expired
  <2>5. i \in Range(l) /\ ipMap[p] \in Range(l) /\ l \in Seq(Ids)
    BY <2>1, <2>3, <2>4 DEF Sound
  <2> DEFINE served == { n \in DOMAIN l : Served(idMap[l[n]], now) }
  <2>6. IsIPAllowed(p) = IF ipMap[p] = NoId \/ Served(idMap[ipMap[p]], now) \/ served = {}
                         THEN ipMap[p] ELSE l[Min(served)]
    BY DEF IsIPAllowed
  <2> HIDE DEF l
  <2>7. PICK n \in DOMAIN l : l[n] = i
    BY <2>5 DEF Range
  <2>8. n \in served
    BY <2>7
  <2>9. DOMAIN l \subseteq Nat /\ \A k \in DOMAIN l : l[k] \in Ids
    BY <2>5
  <2>10. served \in SUBSET Nat /\ served # {}
    BY <2>8, <2>9
  <2>11. \A k \in served : Served(idMap[l[k]], now) /\ l[k] \in Ids
    BY <2>9
  <2> HIDE DEF served
  <2>12. Min(served) \in served
    BY <2>10, MinIs
  <2>13. ipMap[p] # NoId
    BY <2>5, ContainsIs, Numbers
  <2> QED BY <2>6, <2>10, <2>11, <2>12, <2>13, Numbers
<1> QED BY <1>1, BaseHolds, PTL
------------------------------------------------------------------------------
(* The index and the database *)

Off(r) == [r EXCEPT !.on = FALSE]

\* What the index may hold of a record: the record, or that it is over.
Follows(r, d, t) == r = d \/ (d # NoRec /\ Expired(d, t) /\ r = Off(d))

PortalPCs   == { "idle", "lock", "bind", "saveBind", "saveExpired", "refresh" }
SweeperPCs  == { "idle", "each", "saveOff", "list", "install" }
OperatorPCs == { "idle", "save", "reread", "refresh", "list", "install" }
BindPCs     == { "bind", "saveBind", "saveExpired", "refresh" }

\* What one process has read is still so.
Current(f, d, t) ==
    /\ f.pc = "install" => f.list = d
    /\ f.pc = "refresh" => Follows(f.rec, d[f.id], t)
    /\ f.pc = "saveExpired" => d[f.id] # NoRec /\ Expired(d[f.id], t) /\ f.rec = Off(d[f.id])
    /\ f.pc = "save" /\ f.kind \in {"domain", "secret"} => f.rec = d[f.id]
    /\ f.pc = "saveOff" => Outdated(d[f.id], f.at) /\ f.rec = Off(d[f.id])

\* It is going to file the account.
Pends(f, d, i) ==
    \/ f.pc \in {"list", "install"}
    \/ f.pc = "refresh" /\ f.id = i
    \/ f.pc = "reread" /\ f.id = i /\ d[i] # NoRec
    \/ f.pc \in {"each", "saveOff"} /\ f.changed

Fits(p, g) ==
    /\ p \in Portals => g.pc \in PortalPCs
    /\ p = Sweeper => g.pc \in SweeperPCs
    /\ p \in Operators => g.pc \in OperatorPCs

Roles    == \A p \in Procs : Fits(p, proc[p])
Locked   == \A p, q \in Portals : (Binding(p) /\ Binding(q) /\ proc[p].id = proc[q].id) => p = q
Past     == proc[Sweeper].at <= now
Fresh    == ~clash => \A p \in Procs : Current(proc[p], db, now)
Followed == ~clash => \A i \in Ids : \/ Follows(idMap[i], db[i], now)
                                     \/ \E p \in Procs : Pends(proc[p], db, i)

Meanwhile == Roles /\ Locked /\ Past /\ Fresh /\ Followed

\* A process may be there next.
Placed(p, g) ==
    /\ Fits(p, g)
    /\ p = Sweeper => g.at <= now
    /\ p \in Portals /\ g.pc \in BindPCs
         => (proc[p].pc \in BindPCs /\ g.id = proc[p].id) \/ Unlocked(g.id)

LEMMA PlacedStep ==
  ASSUME Base, Meanwhile, NEW p \in Procs, NEW g, Become(p, g), Placed(p, g), now' = now
  PROVE  Roles' /\ Locked' /\ Past'
<1>1. proc'[p] = g /\ \A q \in Procs : q # p => proc'[q] = proc[q]
  BY Becomes DEF Base
<1>2. Roles'
  BY <1>1 DEF Roles, Meanwhile, Placed
<1>3. Past'
  BY <1>1, Numbers DEF Past, Meanwhile, Placed
<1>4. ASSUME NEW q \in Portals, NEW r \in Portals, q # r,
             proc'[q].pc \in BindPCs, proc'[r].pc \in BindPCs, proc'[q].id = proc'[r].id
      PROVE  FALSE
  <2>1. \A s \in Portals : Binding(s) <=> proc[s].pc \in BindPCs
    BY DEF Binding, BindPCs
  <2>2. Portals \subseteq Procs
    BY Numbers
  <2>3. \A s, u \in Portals : (proc[s].pc \in BindPCs /\ proc[u].pc \in BindPCs /\ proc[s].id = proc[u].id) => s = u
    BY <2>1 DEF Meanwhile, Locked
  <2>4. CASE q # p /\ r # p
    BY <1>1, <1>4, <2>2, <2>3, <2>4
  <2>5. CASE q = p
    <3>1. proc[r].pc \in BindPCs /\ proc[r].id = g.id /\ g.pc \in BindPCs
      BY <1>1, <1>4, <2>2, <2>5
    <3>2. ~Unlocked(g.id)
      BY <2>1, <3>1 DEF Unlocked
    <3> QED BY <1>4, <2>3, <2>5, <3>1, <3>2 DEF Placed
  <2>6. CASE r = p
    <3>1. proc[q].pc \in BindPCs /\ proc[q].id = g.id /\ g.pc \in BindPCs
      BY <1>1, <1>4, <2>2, <2>6
    <3>2. ~Unlocked(g.id)
      BY <2>1, <3>1 DEF Unlocked
    <3> QED BY <1>4, <2>3, <2>6, <3>1, <3>2 DEF Placed
  <2> QED BY <2>4, <2>5, <2>6
<1>5. Locked'
  BY <1>4 DEF Locked, Binding, BindPCs
<1> QED BY <1>2, <1>3, <1>5

\* A step that writes nothing and files nothing.
LEMMA MoveStep ==
  ASSUME Base, Meanwhile, NEW p \in Procs, NEW g, Become(p, g), Placed(p, g),
         now' = now, db' = db, idMap' = idMap, clash' = clash,
         ~clash => Current(g, db, now),
         ~clash => \A i \in Ids : Pends(proc[p], db, i)
                                    => Pends(g, db, i) \/ Follows(idMap[i], db[i], now)
  PROVE  Meanwhile'
<1>1. proc'[p] = g /\ \A q \in Procs : q # p => proc'[q] = proc[q]
  BY Becomes DEF Base
<1>2. Fresh'
  <2> SUFFICES ASSUME ~clash, NEW q \in Procs PROVE Current(proc'[q], db, now)
    BY DEF Fresh
  <2> QED BY <1>1 DEF Fresh, Meanwhile
<1>3. Followed'
  <2> SUFFICES ASSUME ~clash, NEW i \in Ids
               PROVE  Follows(idMap[i], db[i], now) \/ \E q \in Procs : Pends(proc'[q], db, i)
    BY DEF Followed
  <2>1. CASE Follows(idMap[i], db[i], now)
    BY <2>1
  <2>2. CASE ~Follows(idMap[i], db[i], now)
    <3>1. PICK q \in Procs : Pends(proc[q], db, i)
      BY <2>2 DEF Followed, Meanwhile
    <3>2. CASE q = p
      BY <1>1, <2>2, <3>1, <3>2
    <3>3. CASE q # p
      BY <1>1, <3>1, <3>3
    <3> QED BY <3>2, <3>3
  <2> QED BY <2>1, <2>2
<1>4. Roles' /\ Locked' /\ Past'
  BY PlacedStep
<1> QED BY <1>2, <1>3, <1>4 DEF Meanwhile

LEMMA IdleFields ==
  Idle.pc = "idle" /\ Idle.at = 0 /\ Idle.kind = ""
BY DEF Idle

LEMMA IdlePlaced ==
  ASSUME Base, NEW p \in Procs
  PROVE  Placed(p, Idle) /\ \A d, t : Current(Idle, d, t)
<1>1. now \in Nat
  BY DEF Base, TypeOK
<1>2. Idle.at <= now
  <2>1. 0 <= now
    BY <1>1
  <2>2. Idle.at = 0
    BY IdleFields, Zenon
  <2> QED BY <2>1, <2>2, Zenon
<1>3. Placed(p, Idle)
  BY <1>2, IdleFields DEF Placed, Fits, PortalPCs, SweeperPCs, OperatorPCs, BindPCs
<1>4. ASSUME NEW d, NEW t PROVE Current(Idle, d, t)
  BY IdleFields DEF Current
<1> QED BY <1>3, <1>4

\* Who ends without filing owed nothing.
LEMMA EndStep ==
  ASSUME Base, Meanwhile, NEW p \in Procs, Finished(p),
         now' = now, db' = db, idMap' = idMap, clash' = clash,
         ~clash => \A i \in Ids : Pends(proc[p], db, i) => Follows(idMap[i], db[i], now)
  PROVE  Meanwhile'
<1>1. Become(p, Idle)
  BY DEF Finished
<1> QED BY <1>1, IdlePlaced, MoveStep

\* A step that writes: nobody else held anything, or they hold other accounts.
LEMMA WriteStep ==
  ASSUME Base, Meanwhile, NEW p \in Procs, NEW g, Become(p, g), Placed(p, g),
         NEW i \in Ids, NEW r \in Rec \cup {NoRec},
         db' = [db EXCEPT ![i] = r], Writes(p), now' = now, idMap' = idMap,
         p \in Portals => proc[p].pc \in BindPCs /\ proc[p].id = i,
         ~clash => Current(g, db', now),
         ~clash => db' = db \/ Pends(g, db', i),
         ~clash => \A j \in Ids : Pends(proc[p], db, j) => Pends(g, db', j)
  PROVE  Meanwhile'
<1>1. proc'[p] = g /\ \A q \in Procs : q # p => proc'[q] = proc[q]
  BY Becomes DEF Base
<1>2. \A j \in Ids : j # i => db'[j] = db[j]
  BY Saves DEF Base
<1>3. clash' = (clash \/ \E q \in Procs \ {p} : Holds(q) /\ ~({p, q} \subseteq Portals))
  BY DEF Writes
<1>4. Fresh'
  <2> SUFFICES ASSUME ~clash', NEW q \in Procs PROVE Current(proc'[q], db', now)
    BY DEF Fresh
  <2>1. CASE q = p
    BY <1>1, <1>3, <2>1
  <2>2. CASE q # p
    <3>1. ~clash /\ (~Holds(q) \/ {p, q} \subseteq Portals)
      BY <1>3, <2>2
    <3>2. proc'[q] = proc[q] /\ Current(proc[q], db, now)
      BY <1>1, <2>2, <3>1 DEF Fresh, Meanwhile
    <3>3. CASE ~Holds(q)
      BY <3>2, <3>3 DEF Holds, Current
    <3>4. CASE {p, q} \subseteq Portals /\ Holds(q)
      <4>1. proc[q].pc \in {"saveBind", "saveExpired", "refresh"}
        BY <3>4 DEF Holds, Meanwhile, Roles, Fits, PortalPCs
      <4>2. proc[q].id # i
        BY <2>2, <3>4, <4>1 DEF Meanwhile, Locked, Binding, BindPCs
      <4>3. proc[q].id \in Ids
        BY <4>1 DEF Base, TypeOK, Ready
      <4>4. db'[proc[q].id] = db[proc[q].id]
        BY <1>2, <4>2, <4>3
      <4> QED BY <3>2, <4>1, <4>4 DEF Current
    <3> QED BY <3>1, <3>3, <3>4
  <2> QED BY <2>1, <2>2
<1>5. Followed'
  <2> SUFFICES ASSUME ~clash', NEW j \in Ids
               PROVE  Follows(idMap[j], db'[j], now) \/ \E q \in Procs : Pends(proc'[q], db', j)
    BY DEF Followed
  <2>1. ~clash
    BY <1>3
  <2>2. CASE Pends(g, db', j)
    BY <1>1, <2>2
  <2>3. CASE ~Pends(g, db', j)
    <3>1. db'[j] = db[j] /\ ~Pends(proc[p], db, j)
      BY <1>2, <2>1, <2>3
    <3>2. CASE Follows(idMap[j], db[j], now)
      BY <3>1, <3>2
    <3>3. CASE ~Follows(idMap[j], db[j], now)
      <4>1. PICK q \in Procs : Pends(proc[q], db, j)
        BY <2>1, <3>3 DEF Followed, Meanwhile
      <4>2. proc'[q] = proc[q]
        BY <1>1, <3>1, <4>1
      <4>3. Pends(proc'[q], db', j)
        BY <3>1, <4>1, <4>2 DEF Pends
      <4> QED BY <4>3
    <3> QED BY <3>2, <3>3
  <2> QED BY <2>2, <2>3
<1>6. Roles' /\ Locked' /\ Past'
  BY PlacedStep
<1> QED BY <1>4, <1>5, <1>6 DEF Meanwhile
LEMMA LaterFollows ==
  ASSUME NEW r, NEW d \in Rec \cup {NoRec}, now \in Nat, Follows(r, d, now)
  PROVE  Follows(r, d, now + 1)
<1>1. d # NoRec => d.exp \in Nat
  BY RecIs
<1>2. \A n \in Nat : now > n => now + 1 > n
  OBVIOUS
<1> QED BY <1>1, <1>2 DEF Follows, Expired

LEMMA TickStep ==
  ASSUME Base, Meanwhile, Tick
  PROVE  Meanwhile'
<1>1. /\ now \in Nat /\ now' = now + 1 /\ db' = db /\ idMap' = idMap /\ proc' = proc /\ clash' = clash
      /\ db \in [Ids -> Rec \cup {NoRec}]
  BY DEF Tick, Base, TypeOK, index
<1>2. Roles' /\ Locked'
  BY <1>1 DEF Meanwhile, Roles, Locked, Binding
<1>3. Past'
  <2>1. proc[Sweeper].at \in Nat
    BY Numbers, FrameOf DEF Base, TypeOK
  <2> QED BY <1>1, <2>1 DEF Meanwhile, Past
<1>4. Fresh'
  <2> SUFFICES ASSUME ~clash, NEW p \in Procs PROVE Current(proc[p], db, now + 1)
    BY <1>1 DEF Fresh
  <2>1. Current(proc[p], db, now)
    BY DEF Meanwhile, Fresh
  <2>2. proc[p].pc \in {"refresh", "saveExpired"} => proc[p].id \in Ids
    BY DEF Base, TypeOK, Ready
  <2>3. proc[p].pc = "refresh" => Follows(proc[p].rec, db[proc[p].id], now + 1)
    <3>1. ASSUME proc[p].pc = "refresh" PROVE Follows(proc[p].rec, db[proc[p].id], now + 1)
      <4>1. db[proc[p].id] \in Rec \cup {NoRec} /\ Follows(proc[p].rec, db[proc[p].id], now)
        BY <1>1, <2>1, <2>2, <3>1 DEF Current
      <4> QED BY <1>1, <4>1, LaterFollows
    <3> QED BY <3>1
  <2>4. proc[p].pc = "saveExpired" => Expired(db[proc[p].id], now + 1)
    <3>1. ASSUME proc[p].pc = "saveExpired" PROVE Expired(db[proc[p].id], now + 1)
      <4>1. db[proc[p].id] \in Rec /\ Expired(db[proc[p].id], now)
        BY <1>1, <2>1, <2>2, <3>1 DEF Current
      <4>2. db[proc[p].id].exp \in Nat
        BY <4>1, RecIs
      <4> QED BY <1>1, <4>1, <4>2 DEF Expired
    <3> QED BY <3>1
  <2> QED BY <2>1, <2>3, <2>4 DEF Current
<1>5. Followed'
  <2> SUFFICES ASSUME ~clash, NEW i \in Ids
               PROVE  Follows(idMap[i], db[i], now + 1) \/ \E p \in Procs : Pends(proc[p], db, i)
    BY <1>1 DEF Followed
  <2>1. db[i] \in Rec \cup {NoRec}
    BY <1>1
  <2>2. Follows(idMap[i], db[i], now) \/ \E p \in Procs : Pends(proc[p], db, i)
    BY DEF Followed, Meanwhile
  <2> QED BY <1>1, <2>1, <2>2, LaterFollows
<1> QED BY <1>2, <1>3, <1>4, <1>5 DEF Meanwhile

LEMMA SameStep ==
  ASSUME Meanwhile, UNCHANGED vars
  PROVE  Meanwhile'
<1>1. now' = now /\ db' = db /\ idMap' = idMap /\ proc' = proc /\ clash' = clash
  BY DEF vars, index
<1> QED BY <1>1 DEF Meanwhile, Roles, Locked, Past, Fresh, Followed, Binding

LEMMA ReloadListStep ==
  ASSUME Base, Meanwhile, NEW p \in Procs, ReloadList(p)
  PROVE  Meanwhile'
<1> DEFINE f == proc[p]
<1> DEFINE g == [f EXCEPT !.pc = "install", !.list = db]
<1>1. f \in Frame /\ f.pc = "list" /\ p \notin Portals
  <2>1. f \in Frame /\ f.pc = "list"
    BY DEF ReloadList, Base, TypeOK
  <2>2. f.pc \notin PortalPCs
    BY <2>1 DEF PortalPCs
  <2> QED BY <2>1, <2>2 DEF Meanwhile, Roles, Fits
<1>2. g.pc = "install" /\ g.list = db /\ g.at = f.at
  BY <1>1 DEF Frame
<1>3. Become(p, g) /\ now' = now /\ db' = db /\ idMap' = idMap /\ clash' = clash
  BY DEF ReloadList, index
<1> HIDE DEF g
<1>4. Placed(p, g)
  BY <1>1, <1>2 DEF Meanwhile, Past, Placed, Fits, SweeperPCs, OperatorPCs
<1>5. Current(g, db, now)
  BY <1>2 DEF Current
<1>6. \A i \in Ids : Pends(g, db, i)
  BY <1>2 DEF Pends
<1> QED BY <1>3, <1>4, <1>5, <1>6, MoveStep

\* What files something is done with it.
LEMMA FileStep ==
  ASSUME Base, Meanwhile, NEW p \in Procs, Finished(p),
         now' = now, db' = db, clash' = clash,
         ~clash => \A i \in Ids : \/ Follows(idMap'[i], db[i], now)
                                  \/ idMap'[i] = idMap[i] /\ ~Pends(proc[p], db, i)
  PROVE  Meanwhile'
<1>1. Become(p, Idle) /\ Placed(p, Idle) /\ Current(Idle, db, now)
  BY IdlePlaced DEF Finished
<1>2. proc'[p] = Idle /\ \A q \in Procs : q # p => proc'[q] = proc[q]
  BY <1>1, Becomes DEF Base
<1>3. Fresh'
  <2> SUFFICES ASSUME ~clash, NEW q \in Procs PROVE Current(proc'[q], db, now)
    BY DEF Fresh
  <2> QED BY <1>1, <1>2 DEF Fresh, Meanwhile
<1>4. Followed'
  <2> SUFFICES ASSUME ~clash, NEW i \in Ids, ~Follows(idMap'[i], db[i], now)
               PROVE  \E q \in Procs : Pends(proc'[q], db, i)
    BY DEF Followed
  <2>1. idMap'[i] = idMap[i] /\ ~Pends(proc[p], db, i)
    OBVIOUS
  <2>2. PICK q \in Procs : Pends(proc[q], db, i)
    BY <2>1 DEF Followed, Meanwhile
  <2> QED BY <1>2, <2>1, <2>2
<1>5. Roles' /\ Locked' /\ Past'
  BY <1>1, PlacedStep
<1> QED BY <1>3, <1>4, <1>5 DEF Meanwhile

LEMMA ReloadInstallStep ==
  ASSUME Base, Meanwhile, NEW p \in Procs, ReloadInstall(p)
  PROVE  Meanwhile'
<1>1. idMap' = proc[p].list
  BY ReloadInstallBase
<1>2. Finished(p) /\ now' = now /\ db' = db /\ clash' = clash /\ proc[p].pc = "install"
  BY DEF ReloadInstall
<1>3. ~clash => idMap' = db
  BY <1>1, <1>2 DEF Meanwhile, Fresh, Current
<1>4. ~clash => \A i \in Ids : Follows(idMap'[i], db[i], now)
  BY <1>3 DEF Follows
<1> QED BY <1>2, <1>4, FileStep

LEMMA RefreshStep ==
  ASSUME Base, Meanwhile, NEW p \in Procs, RefreshClientIndex(p)
  PROVE  Meanwhile'
<1> DEFINE f == proc[p]
<1>1. idMap' = [idMap EXCEPT ![f.id] = f.rec]
  BY RefreshBase
<1>2. Finished(p) /\ now' = now /\ db' = db /\ clash' = clash /\ f.pc = "refresh"
  BY DEF RefreshClientIndex
<1>3. f.id \in Ids /\ idMap \in [Ids -> Rec \cup {NoRec}]
  BY <1>2 DEF Base, TypeOK, Ready
<1>4. ~clash => Follows(f.rec, db[f.id], now)
  BY <1>2 DEF Meanwhile, Fresh, Current
<1>5. idMap'[f.id] = f.rec /\ \A i \in Ids : i # f.id => idMap'[i] = idMap[i]
  BY <1>1, <1>3
<1>6. \A i \in Ids : i # f.id => ~Pends(f, db, i)
  BY <1>2 DEF Pends
<1> QED BY <1>2, <1>4, <1>5, <1>6, FileStep
LEMMA EditReadStep ==
  ASSUME Base, Meanwhile, NEW e \in Operators, NEW i \in Ids,
         NEW kind \in Edits \ {"provision", "delete"}, EditRead(e, i, kind)
  PROVE  Meanwhile'
<1>1. e \in Procs /\ e \notin Portals /\ e # Sweeper
  BY IndexAssumption, Numbers
<1>2. PICK r \in Edited(kind, db[i]) :
         Become(e, [Idle EXCEPT !.pc = "save", !.id = i, !.kind = kind, !.rec = r])
  BY DEF EditRead
<1> DEFINE g == [Idle EXCEPT !.pc = "save", !.id = i, !.kind = kind, !.rec = r]
<1>3. g.pc = "save" /\ g.id = i /\ g.kind = kind /\ g.rec = r
  BY IdleIs DEF Frame
<1>4. Become(e, g)
  BY <1>2
<1> HIDE DEF g
<1>5. now' = now /\ db' = db /\ idMap' = idMap /\ clash' = clash /\ proc[e].pc = "idle"
  BY DEF EditRead, index
<1>6. Placed(e, g)
  BY <1>1, <1>3 DEF Placed, Fits, OperatorPCs
<1>7. Current(g, db, now)
  <2>1. kind \in {"domain", "secret"} => r = db[i]
    BY <1>2 DEF Edited
  <2> QED BY <1>3, <2>1 DEF Current
<1>8. \A j \in Ids : ~Pends(proc[e], db, j)
  BY <1>5 DEF Pends
<1> QED BY <1>1, <1>4, <1>5, <1>6, <1>7, <1>8, MoveStep

LEMMA EditSaveStep ==
  ASSUME Base, Meanwhile, NEW e \in Operators, EditSave(e)
  PROVE  Meanwhile'
<1> DEFINE f == proc[e]
<1>1. e \in Procs /\ e \notin Portals /\ e # Sweeper
  BY IndexAssumption, Numbers
<1>2. f \in Frame /\ f.pc = "save" /\ f.id \in Ids /\ f.rec \in Rec
  BY <1>1 DEF Base, TypeOK, EditSave, Ready
<1>3. now' = now /\ idMap' = idMap
  BY DEF EditSave, index
<1>4. \A j \in Ids : ~Pends(f, db, j)
  BY <1>2 DEF Pends
<1>5. CASE Finished(e) /\ UNCHANGED << db, clash >>
  BY <1>1, <1>3, <1>4, <1>5, EndStep
<1>6. CASE /\ db' = [db EXCEPT ![f.id] = f.rec] /\ Writes(e)
           /\ f.kind = "secret" /\ Finished(e)
  <2>1. Become(e, Idle) /\ Placed(e, Idle) /\ Current(Idle, db', now)
    BY <1>1, <1>6, IdlePlaced DEF Finished
  <2>2. ~clash => db' = db
    <3>1. ~clash => f.rec = db[f.id]
      BY <1>1, <1>2, <1>6 DEF Meanwhile, Fresh, Current
    <3> QED BY <1>2, <1>6, <3>1 DEF Base, TypeOK
  <2> QED BY <1>1, <1>2, <1>3, <1>4, <1>6, <2>1, <2>2, WriteStep
<1>7. ASSUME NEW pc \in {"reread", "list"}, db' = [db EXCEPT ![f.id] = f.rec], Writes(e), Move(e, pc)
      PROVE  Meanwhile'
  <2> DEFINE g == [f EXCEPT !.pc = pc]
  <2>1. g.pc = pc /\ g.id = f.id
    BY <1>2 DEF Frame
  <2>2. Become(e, g)
    BY <1>7 DEF Move
  <2> HIDE DEF g
  <2>3. Placed(e, g) /\ Current(g, db', now)
    BY <1>1, <2>1 DEF Placed, Fits, OperatorPCs, Current
  <2>4. db'[f.id] # NoRec
    BY <1>2, <1>7, Saves, Numbers DEF Base
  <2>5. Pends(g, db', f.id)
    BY <2>1, <2>4 DEF Pends
  <2> QED BY <1>1, <1>2, <1>3, <1>4, <1>7, <2>2, <2>3, <2>5, WriteStep
<1> QED BY <1>5, <1>6, <1>7 DEF EditSave

LEMMA EditRereadStep ==
  ASSUME Base, Meanwhile, NEW e \in Operators, EditReread(e)
  PROVE  Meanwhile'
<1> DEFINE f == proc[e]
<1>1. e \in Procs /\ e \notin Portals /\ e # Sweeper
  BY IndexAssumption, Numbers
<1>2. f \in Frame /\ f.pc = "reread"
  BY <1>1 DEF Base, TypeOK, EditReread
<1>3. now' = now /\ db' = db /\ idMap' = idMap /\ clash' = clash
  BY DEF EditReread, index
<1>4. CASE db[f.id] = NoRec
  <2>1. \A j \in Ids : ~Pends(f, db, j)
    BY <1>2, <1>4 DEF Pends
  <2> QED BY <1>1, <1>3, <1>4, <2>1, EndStep DEF EditReread
<1>5. CASE db[f.id] # NoRec
  <2> DEFINE g == [f EXCEPT !.pc = "refresh", !.rec = db[f.id]]
  <2>1. g.pc = "refresh" /\ g.id = f.id /\ g.rec = db[f.id]
    BY <1>2 DEF Frame
  <2>2. Become(e, g)
    BY <1>5 DEF EditReread
  <2> HIDE DEF g
  <2>3. Placed(e, g) /\ Current(g, db, now)
    BY <1>1, <2>1 DEF Placed, Fits, OperatorPCs, Current, Follows
  <2>4. \A j \in Ids : Pends(f, db, j) => Pends(g, db, j)
    BY <1>2, <2>1 DEF Pends
  <2> QED BY <1>1, <1>3, <2>2, <2>3, <2>4, MoveStep
<1> QED BY <1>4, <1>5

LEMMA ListAfter ==
  ASSUME Base, Meanwhile, NEW e \in Operators, NEW i \in Ids, NEW r \in Rec \cup {NoRec},
         proc[e].pc = "idle", db' = [db EXCEPT ![i] = r], Writes(e),
         Become(e, [Idle EXCEPT !.pc = "list"]), now' = now, idMap' = idMap
  PROVE  Meanwhile'
<1> DEFINE g == [Idle EXCEPT !.pc = "list"]
<1>1. e \in Procs /\ e \notin Portals /\ e # Sweeper
  BY IndexAssumption, Numbers
<1>2. g.pc = "list" /\ Become(e, g)
  BY IdleIs DEF Frame
<1> HIDE DEF g
<1>3. Placed(e, g) /\ Current(g, db', now) /\ \A j \in Ids : Pends(g, db', j)
  BY <1>1, <1>2 DEF Placed, Fits, OperatorPCs, Current, Pends
<1> QED BY <1>1, <1>2, <1>3, WriteStep

LEMMA ProvisionStep ==
  ASSUME Base, Meanwhile, NEW e \in Operators, NEW i \in Ids,
         NEW ips \in { << >> } \cup { << p >> : p \in Ips }, ProvisionClient(e, i, ips)
  PROVE  Meanwhile'
<1> DEFINE r == [ on |-> TRUE, exp |-> now + Term, ips |-> ips, max |-> 1 ]
<1>1. r \in Rec
  BY ProvisionType DEF Base, TypeOK
<1>2. /\ proc[e].pc = "idle" /\ db' = [db EXCEPT ![i] = r] /\ Writes(e)
      /\ Become(e, [Idle EXCEPT !.pc = "list"]) /\ now' = now /\ idMap' = idMap
  BY DEF ProvisionClient, index
<1> HIDE DEF r
<1> QED BY <1>1, <1>2, ListAfter

LEMMA DeleteStep ==
  ASSUME Base, Meanwhile, NEW e \in Operators, NEW i \in Ids, DeleteClient(e, i)
  PROVE  Meanwhile'
<1>1. /\ proc[e].pc = "idle" /\ db' = [db EXCEPT ![i] = NoRec] /\ Writes(e)
      /\ Become(e, [Idle EXCEPT !.pc = "list"]) /\ now' = now /\ idMap' = idMap
  BY DEF DeleteClient, index
<1> QED BY <1>1, ListAfter

LEMMA RegisterLookupStep ==
  ASSUME Base, Meanwhile, NEW p \in Portals, NEW i \in Ids, NEW ip \in Ips, RegisterLookup(p, i, ip)
  PROVE  Meanwhile'
<1> DEFINE g == [Idle EXCEPT !.pc = "lock", !.id = i, !.ip = ip]
<1>1. p \in Procs /\ p \notin Operators /\ p # Sweeper
  BY IndexAssumption, Numbers
<1>2. g.pc = "lock" /\ Become(p, g)
  BY IdleIs DEF Frame, RegisterLookup
<1> HIDE DEF g
<1>3. /\ now' = now /\ db' = db /\ idMap' = idMap /\ clash' = clash /\ proc[p].pc = "idle"
  BY DEF RegisterLookup, index
<1>4. Placed(p, g) /\ Current(g, db, now)
  BY <1>1, <1>2 DEF Placed, Fits, PortalPCs, BindPCs, Current
<1>5. \A j \in Ids : ~Pends(proc[p], db, j)
  BY <1>3 DEF Pends
<1> QED BY <1>1, <1>2, <1>3, <1>4, <1>5, MoveStep

LEMMA RegisterLockStep ==
  ASSUME Base, Meanwhile, NEW p \in Portals, RegisterLock(p)
  PROVE  Meanwhile'
<1> DEFINE g == [proc[p] EXCEPT !.pc = "bind"]
<1>1. p \in Procs /\ p \notin Operators /\ p # Sweeper /\ proc[p] \in Frame
  BY IndexAssumption, Numbers DEF Base, TypeOK
<1>2. g.pc = "bind" /\ g.id = proc[p].id /\ Become(p, g)
  BY <1>1 DEF Frame, RegisterLock, Move
<1> HIDE DEF g
<1>3. /\ now' = now /\ db' = db /\ idMap' = idMap /\ clash' = clash /\ proc[p].pc = "lock"
      /\ Unlocked(g.id)
  BY <1>2 DEF RegisterLock, index
<1>4. Placed(p, g) /\ Current(g, db, now)
  BY <1>1, <1>2, <1>3 DEF Placed, Fits, PortalPCs, Current
<1>5. \A j \in Ids : ~Pends(proc[p], db, j)
  BY <1>3 DEF Pends
<1> QED BY <1>1, <1>2, <1>3, <1>4, <1>5, MoveStep

LEMMA RegisterReadStep ==
  ASSUME Base, Meanwhile, NEW p \in Portals, RegisterRead(p)
  PROVE  Meanwhile'
<1> DEFINE f == proc[p]
<1> DEFINE r == db[f.id]
<1>1. p \in Procs /\ p \notin Operators /\ p # Sweeper /\ f \in Frame /\ f.pc = "bind"
  BY IndexAssumption, Numbers DEF Base, TypeOK, RegisterRead
<1>2. now' = now /\ db' = db /\ idMap' = idMap /\ clash' = clash
  BY DEF RegisterRead, index
<1>3. \A j \in Ids : ~Pends(f, db, j)
  BY <1>1 DEF Pends
<1>4. ASSUME NEW pc \in {"saveExpired", "saveBind", "refresh"}, NEW s,
             Become(p, [f EXCEPT !.pc = pc, !.rec = s]),
             pc = "saveExpired" => r # NoRec /\ Expired(r, now) /\ s = Off(r),
             pc = "refresh" => s = r
      PROVE  Meanwhile'
  <2> DEFINE g == [f EXCEPT !.pc = pc, !.rec = s]
  <2>1. g.pc = pc /\ g.id = f.id /\ g.rec = s /\ Become(p, g)
    BY <1>1, <1>4 DEF Frame
  <2> HIDE DEF g
  <2>2. Placed(p, g)
    BY <1>1, <2>1 DEF Placed, Fits, PortalPCs, BindPCs
  <2>3. Current(g, db, now)
    BY <1>4, <2>1 DEF Current, Follows
  <2> QED BY <1>1, <1>2, <1>3, <2>1, <2>2, <2>3, MoveStep
<1>5. CASE /\ r # NoRec /\ Expired(r, now)
           /\ Become(p, [f EXCEPT !.pc = "saveExpired", !.rec = [r EXCEPT !.on = FALSE]])
  BY <1>4, <1>5 DEF Off
<1>6. CASE Finished(p)
  BY <1>1, <1>2, <1>3, <1>6, EndStep
<1>7. CASE Become(p, [f EXCEPT !.pc = "saveBind", !.rec = Bound(r, f.ip)])
  BY <1>4, <1>7
<1>8. CASE Become(p, [f EXCEPT !.pc = "refresh", !.rec = r])
  BY <1>4, <1>8
<1> QED BY <1>5, <1>6, <1>7, <1>8 DEF RegisterRead

LEMMA RegisterSaveStep ==
  ASSUME Base, Meanwhile, NEW p \in Portals, RegisterSave(p)
  PROVE  Meanwhile'
<1> DEFINE f == proc[p]
<1> DEFINE g == [f EXCEPT !.pc = "refresh"]
<1>1. /\ p \in Procs /\ p \notin Operators /\ p # Sweeper /\ f \in Frame
      /\ f.pc \in {"saveBind", "saveExpired"} /\ f.id \in Ids /\ f.rec \in Rec
  BY IndexAssumption, Numbers DEF Base, TypeOK, RegisterSave, Ready
<1>2. now' = now /\ idMap' = idMap
  BY DEF RegisterSave, index
<1>3. g.pc = "refresh" /\ g.id = f.id /\ g.rec = f.rec
  BY <1>1 DEF Frame
<1>4. \/ db' = [db EXCEPT ![f.id] = f.rec] /\ Writes(p) /\ Become(p, g)
      \/ f.pc = "saveExpired" /\ Become(p, g) /\ UNCHANGED << db, clash >>
      \/ Finished(p) /\ UNCHANGED << db, clash >>
  BY DEF RegisterSave, Move
<1> HIDE DEF g
<1>5. Placed(p, g)
  BY <1>1, <1>3 DEF Placed, Fits, PortalPCs, BindPCs
<1>6. \A j \in Ids : ~Pends(f, db, j)
  BY <1>1 DEF Pends
<1>7. CASE db' = [db EXCEPT ![f.id] = f.rec] /\ Writes(p) /\ Become(p, g)
  <2>1. db'[f.id] = f.rec
    BY <1>1, <1>7, Saves DEF Base
  <2>2. Current(g, db', now) /\ Pends(g, db', f.id)
    BY <1>3, <2>1 DEF Current, Follows, Pends
  <2>3. f.pc \in BindPCs
    BY <1>1 DEF BindPCs
  <2> QED BY <1>1, <1>2, <1>5, <1>6, <1>7, <2>2, <2>3, WriteStep
<1>8. CASE f.pc = "saveExpired" /\ Become(p, g) /\ UNCHANGED << db, clash >>
  <2>1. ~clash => Current(g, db, now)
    BY <1>1, <1>3, <1>8 DEF Meanwhile, Fresh, Current, Follows
  <2> QED BY <1>1, <1>2, <1>5, <1>6, <1>8, <2>1, MoveStep
<1>9. CASE Finished(p) /\ UNCHANGED << db, clash >>
  BY <1>1, <1>2, <1>6, <1>9, EndStep
<1> QED BY <1>4, <1>7, <1>8, <1>9
LEMMA SweeperAlone ==
  Sweeper \in Procs /\ Sweeper \notin Operators /\ Sweeper \notin Portals
BY IndexAssumption, Numbers

LEMMA SweepListStep ==
  ASSUME Base, Meanwhile, SweepList
  PROVE  Meanwhile'
<1> DEFINE some == { i \in Ids : Outdated(db[i], now) }
<1> DEFINE g == [Idle EXCEPT !.pc = "each", !.at = now, !.list = db, !.todo = some]
<1>1. Become(Sweeper, g) /\ now' = now /\ db' = db /\ idMap' = idMap /\ clash' = clash
      /\ proc[Sweeper].pc = "idle" /\ now \in Nat
  BY DEF SweepList, index, Base, TypeOK
<1> HIDE DEF some
<1>2. g.pc = "each" /\ g.at = now
  BY IdleIs DEF Frame
<1> HIDE DEF g
<1>3. Placed(Sweeper, g) /\ Current(g, db, now)
  BY <1>1, <1>2, SweeperAlone DEF Placed, Fits, SweeperPCs, Current
<1>4. \A j \in Ids : ~Pends(proc[Sweeper], db, j)
  BY <1>1 DEF Pends
<1> QED BY <1>1, <1>3, <1>4, SweeperAlone, MoveStep

LEMMA SweepReadStep ==
  ASSUME Base, Meanwhile, SweepRead
  PROVE  Meanwhile'
<1> DEFINE f == proc[Sweeper]
<1> DEFINE i == Min(f.todo)
<1>1. now' = now /\ db' = db /\ idMap' = idMap /\ clash' = clash /\ f.pc = "each"
  BY DEF SweepRead, index
<1>2. f \in Frame /\ f.at <= now
  BY SweeperAlone DEF Base, TypeOK, Meanwhile, Past
<1>3. CASE Outdated(db[i], f.at)
  <2> DEFINE g == [f EXCEPT !.pc = "saveOff", !.id = i, !.rec = [db[i] EXCEPT !.on = FALSE]]
  <2>1. Become(Sweeper, g)
    BY <1>3 DEF SweepRead
  <2>2. g.pc = "saveOff" /\ g.id = i /\ g.rec = Off(db[i]) /\ g.at = f.at /\ g.changed = f.changed
    BY <1>2 DEF Frame, Off
  <2> HIDE DEF g, i
  <2>3. Placed(Sweeper, g)
    BY <1>2, <2>2, SweeperAlone DEF Placed, Fits, SweeperPCs
  <2>4. Current(g, db, now)
    BY <1>3, <2>2 DEF Current
  <2>5. \A j \in Ids : Pends(f, db, j) => Pends(g, db, j)
    BY <1>1, <2>2 DEF Pends
  <2> QED BY <1>1, <2>1, <2>3, <2>4, <2>5, SweeperAlone, MoveStep
<1>4. CASE ~Outdated(db[i], f.at)
  <2> DEFINE g == [f EXCEPT !.todo = @ \ {i}]
  <2>1. Become(Sweeper, g)
    BY <1>4 DEF SweepRead
  <2> HIDE DEF i
  <2>2. g.pc = "each" /\ g.at = f.at /\ g.changed = f.changed
    BY <1>1, <1>2 DEF Frame
  <2> HIDE DEF g
  <2>3. Placed(Sweeper, g) /\ Current(g, db, now)
    BY <1>2, <2>2, SweeperAlone DEF Placed, Fits, SweeperPCs, Current
  <2>4. \A j \in Ids : Pends(f, db, j) => Pends(g, db, j)
    BY <1>1, <2>2 DEF Pends
  <2> QED BY <1>1, <2>1, <2>3, <2>4, SweeperAlone, MoveStep
<1> QED BY <1>3, <1>4

LEMMA SweepSaveStep ==
  ASSUME Base, Meanwhile, SweepSave \/ SweepFail
  PROVE  Meanwhile'
<1> DEFINE f == proc[Sweeper]
<1>1. PICK ok \in BOOLEAN : SweepSaved(ok) /\ (ok <=> SweepSave) /\ (~ok => SweepFail)
  <2>1. CASE SweepSave
    BY <2>1 DEF SweepSave
  <2>2. CASE ~SweepSave
    BY <2>2 DEF SweepFail
  <2> QED BY <2>1, <2>2
<1> DEFINE g == [f EXCEPT !.pc = "each", !.todo = @ \ {f.id}, !.rec = NoRec, !.changed = @ \/ ok]
<1>2. Become(Sweeper, g) /\ now' = now /\ idMap' = idMap /\ f.pc = "saveOff"
  BY <1>1 DEF SweepSaved, index
<1>3. f \in Frame /\ f.at <= now /\ f.id \in Ids /\ f.rec \in Rec
  BY <1>1, SweeperAlone, SweepSavedFrame DEF Base, TypeOK, Meanwhile, Past
<1>4. g.pc = "each" /\ g.at = f.at /\ (g.changed <=> (f.changed \/ ok))
  BY <1>3 DEF Frame
<1> HIDE DEF g
<1>5. Placed(Sweeper, g) /\ \A d : Current(g, d, now)
  BY <1>3, <1>4, SweeperAlone DEF Placed, Fits, SweeperPCs, Current
<1>6. \A d, j : Pends(f, d, j) => Pends(g, d, j)
  BY <1>2, <1>4 DEF Pends
<1>7. CASE ok
  <2>1. db' = [db EXCEPT ![f.id] = f.rec] /\ Writes(Sweeper)
    BY <1>1, <1>7 DEF SweepSave
  <2>2. \A j \in Ids : Pends(g, db', j)
    BY <1>4, <1>7 DEF Pends
  <2> QED BY <1>2, <1>3, <1>5, <2>1, <2>2, SweeperAlone, WriteStep
<1>8. CASE ~ok
  <2>1. db' = db /\ clash' = clash
    BY <1>1, <1>8 DEF SweepFail
  <2> QED BY <1>2, <1>5, <1>6, <2>1, SweeperAlone, MoveStep
<1> QED BY <1>7, <1>8

LEMMA SweepDoneStep ==
  ASSUME Base, Meanwhile, SweepDone
  PROVE  Meanwhile'
<1> DEFINE f == proc[Sweeper]
<1>1. now' = now /\ db' = db /\ idMap' = idMap /\ clash' = clash /\ f.pc = "each"
  BY DEF SweepDone, index
<1>2. f \in Frame /\ f.at <= now
  BY SweeperAlone DEF Base, TypeOK, Meanwhile, Past
<1>3. CASE f.changed
  <2> DEFINE g == [Idle EXCEPT !.pc = "list", !.at = f.at]
  <2>1. Become(Sweeper, g)
    BY <1>3 DEF SweepDone
  <2>2. g.pc = "list" /\ g.at = f.at
    BY IdleIs DEF Frame
  <2> HIDE DEF g
  <2>3. Placed(Sweeper, g) /\ Current(g, db, now)
    BY <1>2, <2>2, SweeperAlone DEF Placed, Fits, SweeperPCs, Current
  <2>4. \A j \in Ids : Pends(g, db, j)
    BY <2>2 DEF Pends
  <2> QED BY <1>1, <2>1, <2>3, <2>4, SweeperAlone, MoveStep
<1>4. CASE ~f.changed
  <2>1. \A j \in Ids : ~Pends(f, db, j)
    BY <1>1, <1>4 DEF Pends
  <2> QED BY <1>1, <1>4, <2>1, SweeperAlone, EndStep DEF SweepDone
<1> QED BY <1>3, <1>4

LEMMA MeanwhileInit ==
  Init => Meanwhile
<1> SUFFICES ASSUME Init PROVE Meanwhile
  OBVIOUS
<1>1. \A p \in Procs : proc[p] = Idle
  BY DEF Init
<1>2. Base
  BY BaseInit
<1>3. \A p \in Procs : Placed(p, Idle) /\ Current(Idle, db, now)
  BY <1>2, IdlePlaced
<1>4. Roles
  BY <1>1, <1>3 DEF Roles, Placed
<1>5. Past
  BY <1>1, <1>3, SweeperAlone DEF Past, Placed
<1>6. Locked
  <2>1. \A p \in Portals : ~Binding(p)
    BY <1>1, IdleFields, Numbers DEF Binding
  <2> QED BY <2>1 DEF Locked
<1>7. Fresh
  BY <1>1, <1>3 DEF Fresh
<1>8. Followed
  <2>1. idMap = Rebuilt(db).recs
    BY DEF Init
  <2>2. db \in [Ids -> Rec \cup {NoRec}] /\ now \in Nat
    BY <1>2 DEF Base, TypeOK
  <2>3. idMap = db
    BY <2>1, <2>2, RebuiltIs
  <2> QED BY <2>3 DEF Followed, Follows
<1> QED BY <1>4, <1>5, <1>6, <1>7, <1>8 DEF Meanwhile

IInv == Base /\ Meanwhile

LEMMA IInvStep ==
  IInv /\ [Next]_vars => IInv'
<1> SUFFICES ASSUME Base, Meanwhile, [Next]_vars PROVE Meanwhile'
  BY BaseStep DEF IInv
<1>1. CASE UNCHANGED vars
  BY <1>1, SameStep
<1>2. CASE Tick
  BY <1>2, TickStep
<1>3. ASSUME NEW e \in Operators, NEW i \in Ids,
             \/ \E kind \in Edits \ {"provision", "delete"} : EditRead(e, i, kind)
             \/ \E ips \in { << >> } \cup { << p >> : p \in Ips } : ProvisionClient(e, i, ips)
             \/ DeleteClient(e, i)
      PROVE  Meanwhile'
  BY <1>3, EditReadStep, ProvisionStep, DeleteStep
<1>4. ASSUME NEW e \in Operators, OperatorStep(e) PROVE Meanwhile'
  BY <1>4, Numbers, EditSaveStep, EditRereadStep, RefreshStep, ReloadListStep, ReloadInstallStep
     DEF OperatorStep, Reload
<1>5. ASSUME NEW p \in Portals, NEW i \in Ids, NEW ip \in Ips, RegisterLookup(p, i, ip)
      PROVE  Meanwhile'
  BY <1>5, RegisterLookupStep
<1>6. ASSUME NEW p \in Portals, PortalStep(p) PROVE Meanwhile'
  BY <1>6, Numbers, RegisterLockStep, RegisterReadStep, RegisterSaveStep, RefreshStep DEF PortalStep
<1>7. CASE SweepStep
  BY <1>7, Numbers, SweepListStep, SweepReadStep, SweepDoneStep, ReloadListStep, ReloadInstallStep
     DEF SweepStep, Reload
<1>8. CASE SweepSave \/ SweepFail
  BY <1>8, SweepSaveStep
<1> QED BY <1>1, <1>2, <1>3, <1>4, <1>5, <1>6, <1>7, <1>8 DEF Next

LEMMA IInvHolds ==
  Spec => []IInv
<1>1. Init => IInv
  BY BaseInit, MeanwhileInit DEF IInv
<1> QED BY <1>1, IInvStep, PTL DEF Spec

\* When nothing is going on the index holds what the database does, unless someone wrote
\* while another held an older record or list: every request files what it wrote
\* (reloadCache, refreshClientIndex), and registrations overlap at will (RegisterIP).
THEOREM QuietAgreesHolds == Spec => []QuietAgrees
<1>1. ASSUME IInv PROVE QuietAgrees
  <2> SUFFICES ASSUME ~clash, \A p \in Procs : proc[p].pc \in {"idle", "lock"},
                      NEW i \in Ids, db[i] = NoRec \/ ~Expired(db[i], now)
               PROVE  idMap[i] = db[i]
    BY DEF QuietAgrees
  <2>1. \A p \in Procs : ~Pends(proc[p], db, i)
    BY DEF Pends
  <2>2. Follows(idMap[i], db[i], now)
    BY <1>1, <2>1 DEF IInv, Meanwhile, Followed
  <2> QED BY <2>2 DEF Follows
<1> QED BY <1>1, IInvHolds, PTL

\* Who moves when the sweeper does.
LEMMA SweeperMoves ==
  ASSUME IInv, [Next]_vars, proc'[Sweeper] # proc[Sweeper]
  PROVE  SweepStep \/ SweepSave \/ SweepFail
<1>1. \A p \in Operators \cup Portals : p # Sweeper /\ p \in Procs
  BY SweeperAlone, Numbers
<1>2. ASSUME NEW p \in Operators \cup Portals, NEW g, Become(p, g) PROVE FALSE
  BY <1>1, <1>2, SweeperAlone, Becomes DEF IInv, Base
<1>3. CASE UNCHANGED vars
  BY <1>3 DEF vars
<1>4. CASE Tick
  BY <1>4 DEF Tick
<1>5. ASSUME NEW e \in Operators, NEW i \in Ids,
             \/ \E kind \in Edits \ {"provision", "delete"} : EditRead(e, i, kind)
             \/ \E ips \in { << >> } \cup { << p >> : p \in Ips } : ProvisionClient(e, i, ips)
             \/ DeleteClient(e, i)
      PROVE  FALSE
  BY <1>2, <1>5 DEF EditRead, ProvisionClient, DeleteClient
<1>6. ASSUME NEW e \in Operators, OperatorStep(e) PROVE FALSE
  BY <1>2, <1>6 DEF OperatorStep, EditSave, EditReread, RefreshClientIndex, Reload, ReloadList,
     ReloadInstall, Move, Finished
<1>7. ASSUME NEW p \in Portals, NEW i \in Ids, NEW ip \in Ips, RegisterLookup(p, i, ip) PROVE FALSE
  BY <1>2, <1>7 DEF RegisterLookup
<1>8. ASSUME NEW p \in Portals, PortalStep(p) PROVE FALSE
  BY <1>2, <1>8 DEF PortalStep, RegisterLock, RegisterRead, RegisterSave, RefreshClientIndex,
     Move, Finished
<1> QED BY <1>3, <1>4, <1>5, <1>6, <1>7, <1>8 DEF Next
\* What the sweep turns off has run out, and only that is turned off of it.
SweepTurns == \A i \in Ids : (Turns /\ ~clash /\ db'[i] # db[i])
                 => Outdated(db[i], now) /\ db'[i] = [db[i] EXCEPT !.on = FALSE]

\* What the sweep leaves behind has lost its address, or is there for the next one.
SweepEnds == \A p \in Ips, i \in Ids :
                 (Ends /\ ~clash' /\ ipMap'[p] = i /\ Expired(idMap'[i], proc[Sweeper].at))
                    => Outdated(db'[i], proc[Sweeper].at)

LEMMA LaterOutdated ==
  ASSUME NEW d \in Rec \cup {NoRec}, NEW t \in Nat, NEW u \in Nat, t <= u
  PROVE  /\ Outdated(d, t) => Outdated(d, u)
         /\ d # NoRec /\ Expired(d, t) => Expired(d, u)
<1>1. d # NoRec => d.exp \in Nat
  BY RecIs
<1>2. \A n \in Nat : t > n => u > n
  OBVIOUS
<1> QED BY <1>1, <1>2 DEF Outdated, Expired

LEMMA SweepTurnsStep ==
  ASSUME IInv, [Next]_vars
  PROVE  SweepTurns
<1> DEFINE f == proc[Sweeper]
<1> SUFFICES ASSUME NEW i \in Ids, Turns, ~clash, db'[i] # db[i]
             PROVE  Outdated(db[i], now) /\ db'[i] = [db[i] EXCEPT !.on = FALSE]
  BY DEF SweepTurns
<1>1. f.pc = "saveOff" /\ (SweepStep \/ SweepSave \/ SweepFail)
  BY SweeperMoves DEF Turns
<1>2. ~SweepStep
  BY <1>1 DEF SweepStep, SweepList, SweepRead, SweepDone, Reload, ReloadList, ReloadInstall
<1>3. ~SweepFail
  BY DEF SweepFail
<1>4. db' = [db EXCEPT ![f.id] = f.rec]
  BY <1>1, <1>2, <1>3 DEF SweepSave
<1>5. f.id \in Ids /\ f.at \in Nat /\ f.at <= now /\ now \in Nat /\ db \in [Ids -> Rec \cup {NoRec}]
  BY <1>1, SweeperAlone, FrameOf DEF IInv, Base, TypeOK, Ready, Meanwhile, Past
<1>6. i = f.id /\ db'[i] = f.rec
  BY <1>4, <1>5
<1>7. Outdated(db[i], f.at) /\ f.rec = Off(db[i])
  BY <1>1, <1>6, SweeperAlone DEF IInv, Meanwhile, Fresh, Current
<1>8. Outdated(db[i], now)
  <2>1. db[i] \in Rec \cup {NoRec}
    BY <1>5
  <2> QED BY <1>5, <1>7, <2>1, LaterOutdated
<1> QED BY <1>6, <1>7, <1>8 DEF Off

LEMMA SweepEndsStep ==
  ASSUME IInv, [Next]_vars
  PROVE  SweepEnds
<1> DEFINE f == proc[Sweeper]
<1> SUFFICES ASSUME NEW p \in Ips, NEW i \in Ids, Ends, ~clash', ipMap'[p] = i,
                    Expired(idMap'[i], f.at)
             PROVE  Outdated(db'[i], f.at)
  BY DEF SweepEnds
<1>1. /\ f.pc # "idle" /\ f.pc \in SweeperPCs
      /\ \A q \in Procs : proc'[q].pc \in {"idle", "lock"}
  BY SweeperAlone DEF Ends, IInv, Meanwhile, Roles, Fits
<1>2. /\ f \in Frame /\ f.at \in Nat /\ f.at <= now /\ now \in Nat
      /\ idMap \in [Ids -> Rec \cup {NoRec}] /\ db \in [Ids -> Rec \cup {NoRec}]
  BY SweeperAlone, FrameOf DEF IInv, Base, TypeOK, Meanwhile, Past
<1>3. proc'[Sweeper] # proc[Sweeper]
  BY <1>1, SweeperAlone DEF SweeperPCs
<1>4. SweepStep \/ SweepSave \/ SweepFail
  BY <1>3, SweeperMoves
<1>5. Base'
  BY BaseStep DEF IInv
\* Whom the address leads to is in its list.
<1>6. i \in Range(Index'.lists[p]) /\ idMap'[i] # NoRec /\ idMap'[i].on
  <2>1. Sound(Index', now') /\ Index'.tops = ipMap' /\ Index'.recs = idMap'
    BY <1>5 DEF Base, Index
  <2> DEFINE l == Index'.lists[p]
  <2>2. /\ Range(l) = {} => ipMap'[p] = NoId
        /\ Range(l) # {} => ipMap'[p] \in Range(l)
        /\ \A j \in Range(l) : idMap'[j] # NoRec /\ idMap'[j].on
    BY <2>1 DEF Sound
  <2> HIDE DEF l
  <2>3. i \in Range(l)
    BY <2>2, Numbers
  <2> QED BY <2>2, <2>3 DEF l
<1>7. ~SweepSave /\ ~SweepFail /\ ~SweepList /\ ~SweepRead /\ ~ReloadList(Sweeper)
  <2>1. ASSUME NEW g, Become(Sweeper, g) PROVE g.pc \in {"idle", "lock"}
    <3>1. proc'[Sweeper] = g
      BY <2>1, SweeperAlone, Becomes DEF IInv, Base
    <3> QED BY <1>1, <3>1, SweeperAlone
  <2>2. ~SweepList
    <3> DEFINE g == [Idle EXCEPT !.pc = "each", !.at = now, !.list = db,
                                 !.todo = { j \in Ids : Outdated(db[j], now) }]
    <3>1. g.pc = "each"
      BY IdleIs DEF Frame
    <3>2. SweepList => Become(Sweeper, g)
      BY DEF SweepList
    <3> HIDE DEF g
    <3> QED BY <2>1, <3>1, <3>2
  <2>3. ~SweepRead
    <3> DEFINE j == Min(f.todo)
    <3> DEFINE g == [f EXCEPT !.pc = "saveOff", !.id = j, !.rec = [db[j] EXCEPT !.on = FALSE]]
    <3> DEFINE h == [f EXCEPT !.todo = @ \ {j}]
    <3>1. g.pc = "saveOff" /\ h.pc = f.pc
      BY <1>2 DEF Frame
    <3>2. SweepRead => f.pc = "each" /\ (Become(Sweeper, g) \/ Become(Sweeper, h))
      BY DEF SweepRead
    <3> HIDE DEF g, h
    <3>3. ASSUME SweepRead PROVE FALSE
      <4>1. f.pc = "each" /\ (g.pc \in {"idle", "lock"} \/ h.pc \in {"idle", "lock"})
        BY <2>1, <3>2, <3>3
      <4> QED BY <3>1, <4>1
    <3> QED BY <3>3
  <2>4. \A ok \in BOOLEAN : ~SweepSaved(ok)
    <3> SUFFICES ASSUME NEW ok \in BOOLEAN, SweepSaved(ok) PROVE FALSE
      OBVIOUS
    <3> DEFINE g == [f EXCEPT !.pc = "each", !.todo = @ \ {f.id}, !.rec = NoRec,
                              !.changed = @ \/ ok]
    <3>1. g.pc = "each" /\ Become(Sweeper, g)
      BY <1>2 DEF Frame, SweepSaved
    <3> HIDE DEF g
    <3> QED BY <2>1, <3>1
  <2>5. ~SweepSave /\ ~SweepFail
    BY <2>4 DEF SweepSave, SweepFail
  <2>6. ~ReloadList(Sweeper)
    <3> DEFINE g == [f EXCEPT !.pc = "install", !.list = db]
    <3>1. g.pc = "install"
      BY <1>2 DEF Frame
    <3>2. ReloadList(Sweeper) => Become(Sweeper, g)
      BY DEF ReloadList
    <3> HIDE DEF g
    <3> QED BY <2>1, <3>1, <3>2
  <2> QED BY <2>2, <2>3, <2>5, <2>6
<1>8. CASE ReloadInstall(Sweeper)
  <2>1. Live(Index', now) /\ Index'.recs = idMap'
    BY <1>8, SweeperAlone, ReloadInstallBase DEF IInv, Index
  <2>2. Active(idMap'[i], now)
    BY <1>6, <2>1 DEF Live
  <2>3. idMap'[i] \in Rec
    BY <1>5, <1>6 DEF Base, TypeOK
  <2>4. Expired(idMap'[i], now)
    BY <1>2, <1>6, <2>3, LaterOutdated
  <2> QED BY <2>2, <2>4 DEF Active
<1>9. CASE SweepDone
  <2>1. f.pc = "each" /\ UNCHANGED << now, db, index, born, requests, visits, clash >>
    BY <1>9 DEF SweepDone
  <2>2. ~f.changed
    <3>1. ASSUME f.changed PROVE FALSE
      <4> DEFINE g == [Idle EXCEPT !.pc = "list", !.at = f.at]
      <4>1. Become(Sweeper, g) /\ g.pc = "list"
        BY <1>9, <3>1, IdleIs DEF SweepDone, Frame
      <4> HIDE DEF g
      <4>2. proc'[Sweeper] = g
        BY <4>1, SweeperAlone, Becomes DEF IInv, Base
      <4> QED BY <1>1, <4>1, <4>2, SweeperAlone
    <3> QED BY <3>1
  <2>3. Finished(Sweeper)
    BY <1>9, <2>2 DEF SweepDone
  <2>4. \A q \in Procs : q # Sweeper => proc'[q] = proc[q]
    BY <2>3, SweeperAlone, Becomes DEF IInv, Base, Finished
  <2>5. \A q \in Procs : ~Pends(proc[q], db, i)
    <3>1. ~Pends(f, db, i)
      BY <2>1, <2>2 DEF Pends
    <3>2. \A q \in Procs : q # Sweeper => ~Pends(proc[q], db, i)
      BY <1>1, <2>4 DEF Pends
    <3> QED BY <3>1, <3>2
  <2>6. ~clash /\ idMap' = idMap /\ db' = db
    BY <2>1 DEF index
  <2>7. Follows(idMap[i], db[i], now)
    BY <2>5, <2>6 DEF IInv, Meanwhile, Followed
  <2>8. idMap[i] = db[i]
    <3>1. ASSUME db[i] # NoRec, idMap[i] = Off(db[i]) PROVE FALSE
      <4>1. db[i] \in Rec
        BY <1>2, <3>1
      <4>2. Off(db[i]).on = FALSE
        BY <4>1 DEF Off, Rec
      <4> QED BY <1>6, <2>6, <3>1, <4>2
    <3> QED BY <2>7, <3>1 DEF Follows
  <2> QED BY <1>6, <2>6, <2>8 DEF Outdated
<1> QED BY <1>4, <1>7, <1>8, <1>9 DEF SweepStep, Reload

\* The sweep (deactivateExpired) turns off what has run out and changes nothing else of it,
\* and when it is done an account that had run out when it began has lost its address, or
\* its save failed and it is there for the next sweep to find.
THEOREM SweepExactHolds == Spec => SweepExact
<1>1. IInv /\ [Next]_vars =>
        [/\ \A i \in Ids : (Turns /\ ~clash /\ db'[i] # db[i])
             => Outdated(db[i], now) /\ db'[i] = [db[i] EXCEPT !.on = FALSE]
         /\ \A p \in Ips, i \in Ids :
             (Ends /\ ~clash' /\ ipMap'[p] = i /\ Expired(idMap'[i], proc[Sweeper].at))
                => Outdated(db'[i], proc[Sweeper].at)]_vars
  BY SweepTurnsStep, SweepEndsStep DEF SweepTurns, SweepEnds
<1> QED BY <1>1, IInvHolds, PTL DEF Spec, SweepExact
=============================================================================
