------------------------- MODULE ReplayHarness_proofs -------------------------
(***************************************************************************)
(* Proofs about ReplayHarness, for every recording, strategy, configuration*)
(* of the gate and cost of execution.  What adds up results or lots rests  *)
(* on the lemmas about sums at the beginning.                              *)
(***************************************************************************)
EXTENDS ReplayHarness, FiniteSetTheorems, WellFoundedInduction, TLAPS

-----------------------------------------------------------------------------
(* Sums over a set.  The library takes the members one by one, each time the  *)
(* one CHOOSE names; that a sum grows by a new member's share, whichever that *)
(* is, follows from a smallest set for which it would not.                    *)
Below == {p \in Nat \X Nat : p[1] < p[2]}

First(s) == CHOOSE x \in s : TRUE

Taken(g, f, s) == IF s = {} THEN 0 ELSE f[First(s)] + g[s \ {First(s)}]

(* g gives the sum of f over each subset of D. *)
IsSum(g, f, D) == g = [s \in SUBSET D |-> Taken(g, f, s)]

SumUpTo(g, f, D, n) ==
  /\ g \in [SUBSET D -> Int]
  /\ \A s \in SUBSET D : Cardinality(s) <= n => g[s] = Taken(g, f, s)

(* A set of naturals that is not empty has a least member. *)
LEMMA Least ==
  ASSUME NEW T \in SUBSET Nat, T # {} PROVE \E m \in T : \A k \in T : m <= k
<1>1. OpToRel(<, Nat) = Below
  BY DEF OpToRel, Below
<1>2. IsWellFoundedOn(Below, Nat)
  BY <1>1, NatLessThanWellFounded
<1>3. PICK m \in T : \A k \in T : <<k, m>> \notin Below
  BY <1>2, WFMin
<1>4. ASSUME NEW k \in T PROVE m <= k
  <2>1. k \in Nat /\ m \in Nat /\ <<k, m>> \notin Below
    BY <1>3
  <2>2. ~(k < m)
    BY <2>1 DEF Below
  <2>3. QED  BY <2>1, <2>2
<1>5. QED  BY <1>4

(* A finite set loses one in number with any member. *)
LEMMA OneLess ==
  ASSUME NEW D, IsFiniteSet(D), NEW s \in SUBSET D
  PROVE  /\ IsFiniteSet(s) /\ Cardinality(s) \in Nat
         /\ Cardinality(s) <= Cardinality(D)
         /\ (Cardinality(s) = 0 <=> s = {})
         /\ (s # {} => First(s) \in s)
         /\ \A x \in s : /\ s \ {x} \in SUBSET D
                         /\ Cardinality(s \ {x}) \in Nat
                         /\ Cardinality(s \ {x}) = Cardinality(s) - 1
<1>1. IsFiniteSet(s) /\ Cardinality(s) <= Cardinality(D)
  BY FS_Subset
<1>2. Cardinality(s) \in Nat
  BY <1>1, FS_CardinalityType
<1>3. Cardinality(s) = 0 <=> s = {}
  BY <1>1, FS_EmptySet
<1>4. s # {} => First(s) \in s
  BY DEF First
<1>5. ASSUME NEW x \in s
      PROVE  /\ s \ {x} \in SUBSET D
             /\ Cardinality(s \ {x}) \in Nat
             /\ Cardinality(s \ {x}) = Cardinality(s) - 1
  <2>1. IsFiniteSet(s \ {x}) /\ Cardinality(s \ {x}) = Cardinality(s) - 1
    BY <1>1, FS_RemoveElement
  <2>2. QED  BY <2>1, FS_CardinalityType
<1>6. QED  BY <1>1, <1>2, <1>3, <1>4, <1>5

(* The sums of a finite set exist. *)
LEMMA SumExists ==
  ASSUME NEW D, IsFiniteSet(D), NEW f \in [D -> Int]
  PROVE  \E g \in [SUBSET D -> Int] : IsSum(g, f, D)
<1> DEFINE Bad == {n \in Nat : ~ \E g : SumUpTo(g, f, D, n)}
<1>1. ASSUME NEW m \in Bad, \A k \in Bad : m <= k PROVE FALSE
  <2>1. CASE m = 0
    <3> DEFINE g == [s \in SUBSET D |-> 0]
    <3>1. ASSUME NEW s \in SUBSET D, Cardinality(s) <= 0 PROVE g[s] = Taken(g, f, s)
      <4>1. s = {}
        BY <3>1, OneLess
      <4>2. QED  BY <4>1 DEF Taken
    <3>2. SumUpTo(g, f, D, 0)
      BY <3>1 DEF SumUpTo
    <3>3. QED  BY <2>1, <3>2
  <2>2. CASE m # 0
    <3>1. m - 1 \in Nat /\ m - 1 \notin Bad /\ m \in Nat
      BY <1>1, <2>2
    <3>2. PICK g : SumUpTo(g, f, D, m - 1)
      BY <3>1
    <3> DEFINE h == [s \in SUBSET D |-> Taken(g, f, s)]
    <3>3. h \in [SUBSET D -> Int]
      <4>1. ASSUME NEW s \in SUBSET D PROVE Taken(g, f, s) \in Int
        <5>1. s # {} => First(s) \in s /\ s \ {First(s)} \in SUBSET D
          BY OneLess
        <5>2. g \in [SUBSET D -> Int]
          BY <3>2 DEF SumUpTo
        <5>3. CASE s # {}
          <6>1. f[First(s)] \in Int /\ g[s \ {First(s)}] \in Int
            BY <5>1, <5>2, <5>3
          <6>2. QED  BY <6>1, <5>3 DEF Taken
        <5>4. QED  BY <5>3 DEF Taken
      <4>2. QED  BY <4>1
    <3>4. ASSUME NEW s \in SUBSET D, Cardinality(s) <= m PROVE h[s] = Taken(h, f, s)
      <4>1. CASE s = {}
        BY <4>1 DEF Taken
      <4>2. CASE s # {}
        <5> DEFINE r == s \ {First(s)}
        <5>1. r \in SUBSET D /\ Cardinality(r) \in Nat /\ Cardinality(r) = Cardinality(s) - 1
              /\ Cardinality(s) \in Nat
          BY <4>2, OneLess
        <5>2. Cardinality(r) <= m - 1
          BY <5>1, <3>1, <3>4
        <5>3. g[r] = h[r]
          BY <5>1, <5>2, <3>2 DEF SumUpTo
        <5> HIDE DEF r
        <5>4. Taken(g, f, s) = f[First(s)] + g[r] /\ Taken(h, f, s) = f[First(s)] + h[r]
          BY <4>2 DEF Taken, r
        <5>5. QED  BY <5>3, <5>4
      <4>3. QED  BY <4>1, <4>2
    <3>5. SumUpTo(h, f, D, m)
      BY <3>3, <3>4 DEF SumUpTo
    <3>6. QED  BY <3>5
  <2>3. QED  BY <2>1, <2>2
<1>2. Bad = {}
  <2>1. Bad \in SUBSET Nat
    OBVIOUS
  <2> HIDE DEF Bad
  <2>2. QED  BY <2>1, <1>1, Least
<1>3. Cardinality(D) \in Nat
  BY FS_CardinalityType
<1>4. PICK g : SumUpTo(g, f, D, Cardinality(D))
  BY <1>2, <1>3
<1>5. ASSUME NEW s \in SUBSET D PROVE g[s] = Taken(g, f, s)
  BY <1>4, OneLess DEF SumUpTo
<1>6. IsSum(g, f, D) /\ g \in [SUBSET D -> Int]
  BY <1>4, <1>5 DEF SumUpTo, IsSum
<1>7. QED  BY <1>6

(* Whatever else is computed member by member over a part of D is the same. *)
LEMMA SumUnique ==
  ASSUME NEW D, IsFiniteSet(D), NEW f, NEW g, IsSum(g, f, D),
         NEW S \in SUBSET D, NEW h, IsSum(h, f, S)
  PROVE  h[S] = g[S]
<1> DEFINE Bad == {n \in Nat : \E s \in SUBSET S : Cardinality(s) = n /\ h[s] # g[s]}
<1>1. ASSUME NEW m \in Bad, \A k \in Bad : m <= k PROVE FALSE
  <2>1. PICK s \in SUBSET S : Cardinality(s) = m /\ h[s] # g[s]
    OBVIOUS
  <2>2. h[s] = Taken(h, f, s) /\ g[s] = Taken(g, f, s)
    BY <2>1 DEF IsSum
  <2>3. s # {}
    BY <2>1, <2>2 DEF Taken
  <2> DEFINE r == s \ {First(s)}
  <2>4. r \in SUBSET S /\ Cardinality(r) \in Nat /\ Cardinality(r) = m - 1 /\ m \in Nat
    BY <2>1, <2>3, OneLess
  <2>5. h[r] # g[r]
    BY <2>1, <2>2, <2>3 DEF Taken
  <2> HIDE DEF r
  <2>6. m - 1 \in Bad
    BY <2>4, <2>5
  <2>7. QED  BY <2>6, <2>4, <1>1
<1>2. Bad = {}
  <2>1. Bad \in SUBSET Nat
    OBVIOUS
  <2> HIDE DEF Bad
  <2>2. QED  BY <2>1, <1>1, Least
<1>3. Cardinality(S) \in Nat
  BY OneLess
<1>4. QED  BY <1>2, <1>3

AnyFirst(g, f, D) == \A s \in SUBSET D : \A x \in s : g[s] = f[x] + g[s \ {x}]

(* Any member may be taken first. *)
LEMMA SumWithout ==
  ASSUME NEW D, IsFiniteSet(D), NEW f \in [D -> Int], NEW g \in [SUBSET D -> Int],
         IsSum(g, f, D)
  PROVE  AnyFirst(g, f, D)
<1> SUFFICES ASSUME NEW s \in SUBSET D, NEW x \in s PROVE g[s] = f[x] + g[s \ {x}]
  BY DEF AnyFirst
<1> DEFINE Bad == {n \in Nat : \E u \in SUBSET D : /\ Cardinality(u) = n
                                                   /\ \E y \in u : g[u] # f[y] + g[u \ {y}]}
<1>1. ASSUME NEW m \in Bad, \A k \in Bad : m <= k PROVE FALSE
  <2>0. PICK u \in SUBSET D : Cardinality(u) = m /\ \E y \in u : g[u] # f[y] + g[u \ {y}]
    OBVIOUS
  <2>1. PICK y \in u : Cardinality(u) = m /\ g[u] # f[y] + g[u \ {y}]
    BY <2>0
  <2> DEFINE c == First(u)
             r == u \ {c}
             v == u \ {y}
  <2>2. c \in u /\ Cardinality(u) \in Nat
    BY OneLess
  <2>3. g[u] = f[c] + g[r]
    BY <2>2 DEF IsSum, Taken
  <2>4. c # y
    BY <2>1, <2>3
  <2>5. /\ r \in SUBSET D /\ Cardinality(r) \in Nat /\ Cardinality(r) = m - 1
        /\ v \in SUBSET D /\ Cardinality(v) \in Nat /\ Cardinality(v) = m - 1
    BY <2>1, <2>2, OneLess
  <2>6. y \in r /\ c \in v /\ r \ {y} = v \ {c}
    BY <2>2, <2>4
  <2>7. y \in D /\ c \in D /\ v \ {c} \in SUBSET D
    BY <2>2
  <2> HIDE DEF c, r, v
  <2>8. ~(m <= m - 1)
    BY <2>5
  <2>9. m - 1 \notin Bad
    BY <1>1, <2>8
  <2>10. g[r] = f[y] + g[r \ {y}] /\ g[v] = f[c] + g[v \ {c}]
    BY <2>9, <2>5, <2>6
  <2>11. f[c] \in Int /\ f[y] \in Int /\ g[v \ {c}] \in Int
    BY <2>7
  <2>12. f[c] + (f[y] + g[v \ {c}]) = f[y] + (f[c] + g[v \ {c}])
    BY <2>11
  <2>13. g[u] = f[y] + g[v]
    BY <2>3, <2>6, <2>10, <2>12
  <2>14. QED  BY <2>1, <2>13 DEF v
<1>2. Bad = {}
  <2>1. Bad \in SUBSET Nat
    OBVIOUS
  <2> HIDE DEF Bad
  <2>2. QED  BY <2>1, <1>1, Least
<1>3. Cardinality(s) \in Nat
  BY OneLess
<1>4. QED  BY <1>2, <1>3

PartsAdd(g, D) == \A s, t \in SUBSET D : s \cap t = {} => g[s \cup t] = g[s] + g[t]

(* Disjoint parts are summed apart. *)
LEMMA SumOfParts ==
  ASSUME NEW D, IsFiniteSet(D), NEW f \in [D -> Int], NEW g \in [SUBSET D -> Int],
         IsSum(g, f, D)
  PROVE  PartsAdd(g, D)
<1> SUFFICES ASSUME NEW s \in SUBSET D, NEW t \in SUBSET D, s \cap t = {}
             PROVE  g[s \cup t] = g[s] + g[t]
  BY DEF PartsAdd
<1>0. \A w \in SUBSET D : \A x \in w : g[w] = f[x] + g[w \ {x}]
  <2>1. AnyFirst(g, f, D)  BY SumWithout
  <2>2. QED  BY <2>1 DEF AnyFirst
<1> DEFINE Bad == {n \in Nat : \E u \in SUBSET t : /\ Cardinality(u) = n
                                                   /\ g[s \cup u] # g[s] + g[u]}
<1>1. ASSUME NEW m \in Bad, \A k \in Bad : m <= k PROVE FALSE
  <2>1. PICK u \in SUBSET t : Cardinality(u) = m /\ g[s \cup u] # g[s] + g[u]
    OBVIOUS
  <2>2. u # {}
    <3>1. g[{}] = 0
      BY DEF IsSum, Taken
    <3>2. g[s] \in Int /\ g[s] = g[s] + 0
      OBVIOUS
    <3>3. s \cup {} = s
      OBVIOUS
    <3>4. g[s \cup {}] = g[s] + g[{}]
      BY <3>1, <3>2, <3>3
    <3>5. QED  BY <2>1, <3>4
  <2>3. PICK x \in u : TRUE
    BY <2>2
  <2> DEFINE r == u \ {x}
  <2>4. r \in SUBSET t /\ Cardinality(r) \in Nat /\ Cardinality(r) = m - 1 /\ m \in Nat
    <3>1. u \in SUBSET D
      OBVIOUS
    <3>2. QED  BY <2>1, <3>1, OneLess
  <2>5. s \cup u \in SUBSET D /\ x \in s \cup u /\ (s \cup u) \ {x} = s \cup r
        /\ u \in SUBSET D /\ x \in D /\ s \cup r \in SUBSET D /\ r \in SUBSET D
    OBVIOUS
  <2>6. g[u] = f[x] + g[r]
    BY <1>0, <2>5
  <2>7. g[s \cup u] = f[x] + g[s \cup r]
    <3>1. g[s \cup u] = f[x] + g[(s \cup u) \ {x}]
      BY <1>0, <2>5
    <3>2. QED  BY <3>1, <2>5
  <2> HIDE DEF r
  <2>8. m - 1 \notin Bad
    <3>1. ~(m <= m - 1)
      BY <2>4
    <3>2. QED  BY <1>1, <3>1
  <2>9. g[s \cup r] = g[s] + g[r]
    BY <2>8, <2>4
  <2>10. f[x] \in Int /\ g[s] \in Int /\ g[r] \in Int
    BY <2>5
  <2>11. f[x] + (g[s] + g[r]) = g[s] + (f[x] + g[r])
    BY <2>10
  <2>12. QED  BY <2>1, <2>6, <2>7, <2>9, <2>11
<1>2. Bad = {}
  <2>1. Bad \in SUBSET Nat
    OBVIOUS
  <2> HIDE DEF Bad
  <2>2. QED  BY <2>1, <1>1, Least
<1>3. Cardinality(t) \in Nat
  BY OneLess
<1>4. QED  BY <1>2, <1>3

(* The sum over one member is its share, over none 0. *)
LEMMA SumOfFew ==
  ASSUME NEW D, IsFiniteSet(D), NEW f \in [D -> Int], NEW g \in [SUBSET D -> Int],
         IsSum(g, f, D)
  PROVE  g[{}] = 0 /\ \A x \in D : g[{x}] = f[x]
<1>1. g[{}] = 0
  BY DEF IsSum, Taken
<1>2. ASSUME NEW x \in D PROVE g[{x}] = f[x]
  <2>1. \A w \in SUBSET D : \A y \in w : g[w] = f[y] + g[w \ {y}]
    <3>1. AnyFirst(g, f, D)  BY SumWithout
    <3>2. QED  BY <3>1 DEF AnyFirst
  <2>2. g[{x}] = f[x] + g[{x} \ {x}]
    BY <2>1
  <2>3. {x} \ {x} = {}
    OBVIOUS
  <2>4. g[{x}] = f[x] + 0
    BY <1>1, <2>2, <2>3
  <2>5. f[x] \in Int
    OBVIOUS
  <2>6. QED  BY <2>4, <2>5
<1>3. QED  BY <1>1, <1>2

(* The recursion the library's sum of results stands for, and that of a net. *)
PnlIter(h, S) ==
  h = [s \in SUBSET S |-> IF s = {} THEN 0 ELSE Pnl(First(s)) + h[s \ {First(s)}]]

LotsIter(h, S) ==
  h = [s \in SUBSET S |-> IF s = {} THEN 0 ELSE SignedLots(First(s)) + h[s \ {First(s)}]]

(* The library's sum of the results of a part of D is that of any sum over D. *)
LEMMA PnlIsSum ==
  ASSUME NEW D, IsFiniteSet(D), \A x \in D : Pnl(x) \in Int,
         NEW g, IsSum(g, [x \in D |-> Pnl(x)], D), NEW S \in SUBSET D
  PROVE  MapThenSumSet(Pnl, S) = g[S]
<1>1. MapThenSumSet(Pnl, S) = (CHOOSE h : PnlIter(h, S))[S]
  BY DEF MapThenSumSet, MapThenFoldSet, First, PnlIter
<1> DEFINE f == [x \in D |-> Pnl(x)]
           part == [x \in S |-> Pnl(x)]
<1>2. IsFiniteSet(S) /\ part \in [S -> Int]
  BY FS_Subset
<1>3. ASSUME NEW s \in SUBSET S, s # {} PROVE f[First(s)] = Pnl(First(s)) /\ part[First(s)] = Pnl(First(s))
  <2>1. First(s) \in s
    BY <1>3 DEF First
  <2>2. First(s) \in S /\ First(s) \in D
    BY <2>1
  <2>3. QED  BY <2>2
<1> HIDE DEF f, part
<1>4. PICK h : IsSum(h, part, S)
  BY <1>2, SumExists
<1>5. PnlIter(h, S)
  <2>1. \A s \in SUBSET S :
          Taken(h, part, s) = IF s = {} THEN 0 ELSE Pnl(First(s)) + h[s \ {First(s)}]
    BY <1>3 DEF Taken
  <2>2. QED  BY <1>4, <2>1 DEF IsSum, PnlIter
<1>6. PICK e : e = CHOOSE k : PnlIter(k, S)
  OBVIOUS
<1>7. PnlIter(e, S)
  BY <1>5, <1>6
<1>8. IsSum(e, f, S)
  <2>1. \A s \in SUBSET S :
          Taken(e, f, s) = IF s = {} THEN 0 ELSE Pnl(First(s)) + e[s \ {First(s)}]
    BY <1>3 DEF Taken
  <2>2. QED  BY <1>7, <2>1 DEF IsSum, PnlIter
<1>9. IsSum(g, f, D)
  BY DEF f
<1>10. e[S] = g[S]
  BY <1>8, <1>9, SumUnique
<1>11. QED  BY <1>1, <1>6, <1>10

(* The library's sum of the signed lots of a part of D is that of any sum over D. *)
LEMMA LotsAreSum ==
  ASSUME NEW D, IsFiniteSet(D), \A x \in D : SignedLots(x) \in Int,
         NEW g, IsSum(g, [x \in D |-> SignedLots(x)], D), NEW S \in SUBSET D
  PROVE  MapThenSumSet(SignedLots, S) = g[S]
<1>1. MapThenSumSet(SignedLots, S) = (CHOOSE h : LotsIter(h, S))[S]
  BY DEF MapThenSumSet, MapThenFoldSet, First, LotsIter
<1> DEFINE f == [x \in D |-> SignedLots(x)]
           part == [x \in S |-> SignedLots(x)]
<1>2. IsFiniteSet(S) /\ part \in [S -> Int]
  BY FS_Subset
<1>3. ASSUME NEW s \in SUBSET S, s # {} PROVE f[First(s)] = SignedLots(First(s)) /\ part[First(s)] = SignedLots(First(s))
  <2>1. First(s) \in s
    BY <1>3 DEF First
  <2>2. First(s) \in S /\ First(s) \in D
    BY <2>1
  <2>3. QED  BY <2>2
<1> HIDE DEF f, part
<1>4. PICK h : IsSum(h, part, S)
  BY <1>2, SumExists
<1>5. LotsIter(h, S)
  <2>1. \A s \in SUBSET S :
          Taken(h, part, s) = IF s = {} THEN 0 ELSE SignedLots(First(s)) + h[s \ {First(s)}]
    BY <1>3 DEF Taken
  <2>2. QED  BY <1>4, <2>1 DEF IsSum, LotsIter
<1>6. PICK e : e = CHOOSE k : LotsIter(k, S)
  OBVIOUS
<1>7. LotsIter(e, S)
  BY <1>5, <1>6
<1>8. IsSum(e, f, S)
  <2>1. \A s \in SUBSET S :
          Taken(e, f, s) = IF s = {} THEN 0 ELSE SignedLots(First(s)) + e[s \ {First(s)}]
    BY <1>3 DEF Taken
  <2>2. QED  BY <1>7, <2>1 DEF IsSum, LotsIter
<1>9. IsSum(g, f, D)
  BY DEF f
<1>10. e[S] = g[S]
  BY <1>8, <1>9, SumUnique
<1>11. QED  BY <1>1, <1>6, <1>10

(* Results of disjoint sets of trades add up. *)
LEMMA PnlAdds ==
  ASSUME NEW A, IsFiniteSet(A), NEW B, IsFiniteSet(B), A \cap B = {},
         \A x \in A \cup B : Pnl(x) \in Int
  PROVE  /\ MapThenSumSet(Pnl, A) \in Int
         /\ MapThenSumSet(Pnl, B) \in Int
         /\ MapThenSumSet(Pnl, A \cup B) = MapThenSumSet(Pnl, A) + MapThenSumSet(Pnl, B)
<1> DEFINE D == A \cup B
           f == [x \in D |-> Pnl(x)]
<1>1. IsFiniteSet(D) /\ f \in [D -> Int]
  BY FS_Union
<1>2. A \in SUBSET D /\ B \in SUBSET D /\ D \in SUBSET D
  OBVIOUS
<1>3. PICK g \in [SUBSET D -> Int] : IsSum(g, f, D)
  <2> HIDE DEF D, f
  <2>1. QED  BY <1>1, SumExists
<1>4. \A S \in SUBSET D : MapThenSumSet(Pnl, S) = g[S]
  <2> HIDE DEF D
  <2>1. \A x \in D : Pnl(x) \in Int
    BY DEF D
  <2>2. QED  BY <1>1, <1>3, <2>1, PnlIsSum
<1> HIDE DEF f
<1>5. g[A \cup B] = g[A] + g[B]
  <2>1. A \in SUBSET D /\ B \in SUBSET D /\ A \cap B = {}
    OBVIOUS
  <2> HIDE DEF D
  <2>2. PartsAdd(g, D)
    BY <1>1, <1>3, SumOfParts
  <2>3. QED  BY <2>1, <2>2 DEF PartsAdd
<1>6. g[A] \in Int /\ g[B] \in Int
  BY <1>2, <1>3
<1>7. MapThenSumSet(Pnl, A \cup B) = g[A \cup B] /\ MapThenSumSet(Pnl, A) = g[A]
      /\ MapThenSumSet(Pnl, B) = g[B]
  BY <1>2, <1>4
<1>8. QED  BY <1>5, <1>6, <1>7

(* Nothing closed, nothing earned. *)
LEMMA PnlOfNone == MapThenSumSet(Pnl, {}) = 0
<1> DEFINE f == [x \in {} |-> Pnl(x)]
<1>1. IsFiniteSet({}) /\ f \in [{} -> Int]
  BY FS_EmptySet
<1>2. PICK g \in [SUBSET {} -> Int] : IsSum(g, f, {})
  <2> HIDE DEF f
  <2>1. QED  BY <1>1, SumExists
<1>3. MapThenSumSet(Pnl, {}) = g[{}]
  BY <1>1, <1>2, PnlIsSum
<1> HIDE DEF f
<1>4. g[{}] = 0
  BY <1>1, <1>2, SumOfFew
<1>5. QED  BY <1>3, <1>4

(* A further position adds its signed lots to a net it belongs to. *)
LEMMA LotsAdd ==
  ASSUME NEW A, IsFiniteSet(A), NEW y, y \notin A,
         \A x \in A \cup {y} : SignedLots(x) \in Int
  PROVE  MapThenSumSet(SignedLots, A \cup {y}) = MapThenSumSet(SignedLots, A) + SignedLots(y)
<1> DEFINE D == A \cup {y}
           f == [x \in D |-> SignedLots(x)]
<1>1. IsFiniteSet(D) /\ f \in [D -> Int]
  BY FS_AddElement
<1>2. A \in SUBSET D /\ {y} \in SUBSET D /\ D \in SUBSET D /\ A \cap {y} = {} /\ y \in D
  OBVIOUS
<1>3. PICK g \in [SUBSET D -> Int] : IsSum(g, f, D)
  <2> HIDE DEF D, f
  <2>1. QED  BY <1>1, SumExists
<1>4. \A S \in SUBSET D : MapThenSumSet(SignedLots, S) = g[S]
  <2> HIDE DEF D
  <2>1. \A x \in D : SignedLots(x) \in Int
    BY DEF D
  <2>2. QED  BY <1>1, <1>3, <2>1, LotsAreSum
<1>5. f[y] = SignedLots(y)
  OBVIOUS
<1> HIDE DEF f
<1>6. g[A \cup {y}] = g[A] + g[{y}]
  <2> HIDE DEF D
  <2>1. PartsAdd(g, D)
    BY <1>1, <1>3, SumOfParts
  <2>2. QED  BY <1>2, <2>1 DEF PartsAdd
<1>7. g[{y}] = f[y]
  <2> HIDE DEF D
  <2>1. QED  BY <1>1, <1>2, <1>3, SumOfFew
<1>8. MapThenSumSet(SignedLots, A \cup {y}) = g[A \cup {y}] /\ MapThenSumSet(SignedLots, A) = g[A]
  BY <1>2, <1>4
<1>9. QED  BY <1>5, <1>6, <1>7, <1>8

-----------------------------------------------------------------------------
Positions == open \cup closed

(* The log of the gate is a sequence, ticks are counted, and the approvals number the positions:
   each number once, up to the length of the log. *)
LogOK ==
  /\ clock = Now
  /\ ticks \in Nat
  /\ log \in Seq([id : {intent.id : intent \in Intents}, at : {Now}])

NumbersInLog == \A position \in Positions : position.no \in 1..Len(log)

OpenOK == IsFiniteSet(open) /\ AtMostMaxOpen

IInv ==
  /\ LogOK
  /\ NumbersInLog
  /\ EachApprovalOnePosition
  /\ OpenOK
  /\ StopsAreKept

-----------------------------------------------------------------------------
(* Positions that become trades keep the numbering: some leave open, their
   trades, F of each, join closed, the log stays. *)
LEMMA ClosingKeepsNumbers ==
  ASSUME NumbersInLog, EachApprovalOnePosition, log' = log,
         NEW S \in SUBSET open, NEW F,
         \A position \in S : F[position].no = position.no,
         open' = open \ S,
         closed' = closed \cup {F[position] : position \in S}
  PROVE  NumbersInLog' /\ EachApprovalOnePosition'
<1> DEFINE trades == {F[position] : position \in S}
<1>1. \A x \in trades : \E s \in S : x = F[s] /\ x.no = s.no
  OBVIOUS
<1>2. NumbersInLog'
  BY <1>1 DEF NumbersInLog, Positions
<1>3. ASSUME NEW n \in 1..Len(log')
      PROVE  \E position \in open' \cup closed' : position.no = n
  <2>1. PICK position \in open \cup closed : position.no = n
    BY <1>3 DEF EachApprovalOnePosition
  <2>2. CASE position \in S
    BY <2>1, <2>2
  <2>3. CASE position \notin S
    BY <2>1, <2>3
  <2>4. QED  BY <2>2, <2>3
<1>4. ASSUME NEW x \in trades, NEW y \in (open \ S) \cup closed
      PROVE  x.no # y.no
  <2>1. PICK s \in S : x.no = s.no
    BY <1>1, <1>4
  <2>2. s # y
    BY <2>1, <1>4 DEF EachApprovalOnePosition
  <2>3. s.no # y.no
    BY <2>2, <1>4 DEF EachApprovalOnePosition
  <2>4. QED  BY <2>1, <2>3
<1>5. ASSUME NEW p \in open' \cup closed', NEW q \in open' \cup closed', p.no = q.no
      PROVE  p = q
  <2>1. CASE p \in trades /\ q \in trades
    <3>1. PICK s \in S : p = F[s] /\ p.no = s.no
      BY <1>1, <2>1
    <3>2. PICK u \in S : q = F[u] /\ q.no = u.no
      BY <1>1, <2>1
    <3>3. s = u
      BY <3>1, <3>2, <1>5 DEF EachApprovalOnePosition
    <3>4. QED  BY <3>1, <3>2, <3>3
  <2>2. CASE p \notin trades /\ q \notin trades
    BY <1>5, <2>2 DEF EachApprovalOnePosition
  <2>3. CASE p \in trades /\ q \notin trades
    BY <1>4, <1>5, <2>3
  <2>4. CASE p \notin trades /\ q \in trades
    BY <1>4, <1>5, <2>4
  <2>5. QED  BY <2>1, <2>2, <2>3, <2>4
<1>6. open' \cap closed' = {}
  <2> SUFFICES ASSUME NEW y \in open', y \in closed' PROVE FALSE
    OBVIOUS
  <2>1. y \in open \ S /\ y \notin closed
    BY DEF EachApprovalOnePosition
  <2>2. y \in trades
    BY <2>1
  <2>3. QED  BY <1>4, <2>1, <2>2
<1>7. QED  BY <1>2, <1>3, <1>5, <1>6 DEF EachApprovalOnePosition

(* A part of the open positions is finite and no larger. *)
LEMMA FewerOpen ==
  ASSUME OpenOK, open' \subseteq open
  PROVE  OpenOK'
<1>1. IsFiniteSet(open') /\ Cardinality(open') <= Cardinality(open)
  BY FS_Subset DEF OpenOK
<1>2. Cardinality(open') \in Nat /\ Cardinality(open) \in Nat
  BY <1>1, FS_CardinalityType DEF OpenOK
<1>3. QED  BY <1>1, <1>2, MaxOpenAssumption DEF OpenOK, AtMostMaxOpen

(* A tick closes the positions it hits; no other position of its symbol is
   beyond its stop. *)
LEMMA TakeTickKeeps ==
  ASSUME IInv, NEW t \in Ticks, TakeTick(t)
  PROVE  IInv'
<1> DEFINE F == [position \in open |->
                  Trade(position, t, ticks + 1, IF StopHit(position, t) THEN "sl" ELSE "tp")]
<1>1. Exits(t) \in SUBSET open
  BY DEF Exits
<1>2. \A position \in Exits(t) : F[position].no = position.no
  BY <1>1 DEF Trade
<1>3. {F[position] : position \in Exits(t)} =
        {Trade(position, t, ticks + 1, IF StopHit(position, t) THEN "sl" ELSE "tp") :
           position \in Exits(t)}
  BY <1>1
<1>4. /\ closed' = closed \cup {F[position] : position \in Exits(t)}
      /\ open' = open \ Exits(t)
      /\ log' = log /\ clock' = clock
  BY <1>3 DEF TakeTick, Book, Remaining, riskVars
<1> HIDE DEF F
<1>5. LogOK'
  BY <1>4 DEF IInv, LogOK, TakeTick
<1>6. NumbersInLog' /\ EachApprovalOnePosition'
  BY <1>1, <1>2, <1>4, ClosingKeepsNumbers DEF IInv
<1>7. OpenOK'
  BY <1>4, FewerOpen DEF IInv
<1>8. StopsAreKept'
  BY <1>4 DEF StopsAreKept, TakeTick, Exits, StopHit
<1>9. QED  BY <1>5, <1>6, <1>7, <1>8 DEF IInv

(* The end of a replay closes everything. *)
LEMMA EndKeeps ==
  ASSUME IInv, EndOfReplay
  PROVE  IInv'
<1> DEFINE F == [position \in open |-> Trade(position, tick, ticks, "eod")]
<1>1. \A position \in open : F[position].no = position.no
  BY DEF Trade
<1>2. {F[position] : position \in open} =
        {Trade(position, tick, ticks, "eod") : position \in open}
  OBVIOUS
<1>3. /\ closed' = closed \cup {F[position] : position \in open}
      /\ open' = open \ open
      /\ log' = log /\ clock' = clock
  BY <1>2 DEF EndOfReplay, Book, riskVars
<1>4. LogOK'
  BY <1>3 DEF IInv, LogOK, EndOfReplay
<1>5. NumbersInLog' /\ EachApprovalOnePosition'
  BY <1>1, <1>3, ClosingKeepsNumbers DEF IInv
<1>6. OpenOK'
  BY <1>3, FewerOpen DEF IInv
<1>7. StopsAreKept'
  BY <1>3 DEF StopsAreKept
<1>8. QED  BY <1>4, <1>5, <1>6, <1>7 DEF IInv

(* A fill adds one position under the next number, while there is room. *)
LEMMA FillKeeps ==
  ASSUME IInv, NEW intent \in Intents, Fill(intent)
  PROVE  IInv'
<1> DEFINE new == [no |-> Len(log'), symbol |-> intent.symbol, side |-> intent.side,
                   lots |-> intent.lots, entry |-> FillPrice(intent, tick),
                   stop |-> intent.stop, target |-> intent.target, openedAt |-> ticks]
           entry == [id |-> intent.id, at |-> clock]
<1>1. /\ log' = Append(log, entry)
      /\ clock' = clock
      /\ open' = open \cup {new}
      /\ closed' = closed
      /\ tick' = tick /\ ticks' = ticks
      /\ Cardinality(open) < Cfg.maxOpen
  <2>1. Risk!CheckApprove(intent, Account, open, Quote)
    BY DEF Fill
  <2>2. log' = Append(log, entry) /\ clock' = clock
    BY <2>1 DEF Risk!CheckApprove
  <2>3. Risk!WithinLimits(intent, Account, open, news, Quote)
    BY <2>1 DEF Risk!CheckApprove
  <2>4. Cardinality(open) < Cfg.maxOpen
    BY <2>3 DEF Risk!WithinLimits, Risk!RoomForPosition, Risk!Cardinality, Cardinality
  <2>5. open' = open \cup {new} /\ closed' = closed /\ tick' = tick /\ ticks' = ticks
    BY DEF Fill
  <2>6. QED  BY <2>2, <2>4, <2>5
<1>2. log \in Seq([id : {i.id : i \in Intents}, at : {Now}])
  BY DEF IInv, LogOK
<1>3. entry \in [id : {i.id : i \in Intents}, at : {Now}]
  BY DEF IInv, LogOK
<1>4. /\ LogOK'
      /\ Len(log) \in Nat
      /\ Len(log') = Len(log) + 1
  BY <1>1, <1>2, <1>3 DEF IInv, LogOK
<1>5. new.no = Len(log) + 1
  BY <1>4
<1>6. \A position \in open \cup closed : position.no # new.no /\ position # new
  BY <1>4, <1>5 DEF IInv, NumbersInLog, Positions
<1>7. NumbersInLog'
  BY <1>1, <1>4, <1>5 DEF IInv, NumbersInLog, Positions
<1>8. EachApprovalOnePosition'
  <2>1. ASSUME NEW n \in 1..Len(log')
        PROVE  \E position \in open' \cup closed' : position.no = n
    <3>1. n \in 1..Len(log) \/ n = new.no
      BY <1>4, <1>5
    <3>2. QED  BY <3>1, <1>1 DEF IInv, EachApprovalOnePosition
  <2>2. \A p, q \in open' \cup closed' : p.no = q.no => p = q
    BY <1>1, <1>6 DEF IInv, EachApprovalOnePosition
  <2>3. open' \cap closed' = {}
    BY <1>1, <1>6 DEF IInv, EachApprovalOnePosition
  <2>4. QED  BY <2>1, <2>2, <2>3 DEF EachApprovalOnePosition
<1>9. OpenOK'
  <2>1. IsFiniteSet(open) /\ Cardinality(open) \in Nat
    BY FS_CardinalityType DEF IInv, OpenOK
  <2>2. new \notin open
    BY <1>6
  <2>3. IsFiniteSet(open') /\ Cardinality(open') = Cardinality(open) + 1
    BY <1>1, <2>1, <2>2, FS_AddElement
  <2>4. QED  BY <1>1, <2>1, <2>3, MaxOpenAssumption DEF OpenOK, AtMostMaxOpen
<1>10. StopsAreKept'
  <2>1. new.openedAt = ticks
    OBVIOUS
  <2>2. ~(ticks < ticks)
    BY DEF IInv, LogOK
  <2>3. QED  BY <1>1, <2>1, <2>2 DEF IInv, StopsAreKept, StopHit
<1>11. QED  BY <1>4, <1>7, <1>8, <1>9, <1>10 DEF IInv

(* A breach touches nothing the harness owns. *)
LEMMA BreachKeeps ==
  ASSUME IInv, Breach \/ UNCHANGED vars
  PROVE  IInv'
<1>1. UNCHANGED <<open, closed, tick, ticks, log, clock>>
  BY DEF Breach, Risk!CheckBreach, ownVars, riskVars, vars
<1>2. QED
  BY <1>1 DEF IInv, LogOK, NumbersInLog, Positions, EachApprovalOnePosition, OpenOK,
              AtMostMaxOpen, StopsAreKept, StopHit

-----------------------------------------------------------------------------
(* The first state has the invariant, and every step keeps it. *)
LEMMA InitInv ==
  ASSUME Init PROVE IInv
<1>1. open = {} /\ closed = {} /\ log = << >> /\ clock = Now /\ ticks = 0
  BY DEF Init, Risk!Init
<1>2. Len(log) = 0 /\ LogOK
  BY <1>1 DEF LogOK
<1>3. NumbersInLog /\ EachApprovalOnePosition /\ StopsAreKept
  BY <1>1, <1>2 DEF NumbersInLog, Positions, EachApprovalOnePosition, StopsAreKept
<1>4. OpenOK
  BY <1>1, FS_EmptySet, MaxOpenAssumption DEF OpenOK, AtMostMaxOpen
<1>5. QED  BY <1>2, <1>3, <1>4 DEF IInv

(* Every step keeps the invariant. *)
LEMMA NextInv ==
  ASSUME IInv, [Next]_vars PROVE IInv'
BY TakeTickKeeps, FillKeeps, BreachKeeps, EndKeeps DEF Next

(* The inductive invariant holds in every reachable state. *)
THEOREM Invariance == Spec => []IInv
<1>1. Init => IInv  BY InitInv
<1>2. IInv /\ [Next]_vars => IInv'  BY NextInv
<1>3. QED  BY <1>1, <1>2, PTL DEF Spec

(* Every approved order is one position, open or closed, and none is lost. *)
THEOREM OnePositionEach == Spec => []EachApprovalOnePosition
<1>1. IInv => EachApprovalOnePosition  BY DEF IInv
<1>2. QED  BY <1>1, Invariance, PTL

(* The account of a replay never holds more than max_open_positions. *)
THEOREM OpenBounded == Spec => []AtMostMaxOpen
<1>1. IInv => AtMostMaxOpen  BY DEF IInv, OpenOK
<1>2. QED  BY <1>1, Invariance, PTL

(* No position outlives a tick of its symbol that reached its stop. *)
THEOREM StopsKept == Spec => []StopsAreKept
<1>1. IInv => StopsAreKept  BY DEF IInv
<1>2. QED  BY <1>1, Invariance, PTL

-----------------------------------------------------------------------------
(* The money of a replay: what is added up is finite and in numbers, and what
   is open can be valued. *)
Money ==
  /\ IsFiniteSet(closed)
  /\ \A trade \in closed : Pnl(trade) \in Int
  /\ equity \in Int /\ commissions \in Int
  /\ tick \in Ticks \cup {NoTick}
  /\ \A position \in open :
       position.lots \in Int /\ position.entry \in Int /\ Meta[position.symbol].contract \in Int
  /\ EquityBalances

Kept == IInv /\ Money

(* The image of a finite set of positions is finite. *)
LEMMA TradesFinite ==
  ASSUME NEW S, IsFiniteSet(S), NEW F
  PROVE  IsFiniteSet({F[position] : position \in S})
<1> DEFINE T == {F[position] : position \in S}
           onto == [position \in S |-> F[position]]
<1>1. onto \in Surjection(S, T)
  BY DEF Surjection
<1> HIDE DEF T, onto
<1>2. IsFiniteSet(T)
  BY <1>1, FS_Surjection
<1>3. QED  BY <1>2 DEF T

(* Every tick, and the lack of one, has prices in numbers. *)
LEMMA TickInNumbers ==
  ASSUME NEW t \in Ticks \cup {NoTick} PROVE t.bid \in Int /\ t.ask \in Int
<1>1. CASE t \in Ticks
  BY <1>1, NumbersAssumption
<1>2. CASE t = NoTick
  <2>1. NoTick.bid = 0 /\ NoTick.ask = 0
    BY DEF NoTick
  <2>2. QED  BY <1>2, <2>1
<1>3. QED  BY <1>1, <1>2

(* A price and a position in numbers give a result in numbers. *)
LEMMA TradeValued ==
  ASSUME Money, NEW position \in open, NEW t \in Ticks \cup {NoTick}, NEW at, NEW why
  PROVE  Pnl(Trade(position, t, at, why)) \in Int
<1> DEFINE trade == Trade(position, t, at, why)
<1>1. t.bid \in Int /\ t.ask \in Int
  BY TickInNumbers
<1>2. ExitPrice(position, t) \in Int
  BY <1>1 DEF ExitPrice
<1>3. /\ trade.side = position.side /\ trade.exit = ExitPrice(position, t)
      /\ trade.entry = position.entry /\ trade.lots = position.lots
      /\ trade.symbol = position.symbol
  BY DEF Trade
<1>4. position.lots \in Int /\ position.entry \in Int /\ Meta[position.symbol].contract \in Int
  BY DEF Money
<1> HIDE DEF trade
<1>5. /\ trade.exit \in Int /\ trade.entry \in Int /\ trade.lots \in Int
      /\ Meta[trade.symbol].contract \in Int
  BY <1>2, <1>3, <1>4
<1>6. Pnl(trade) \in Int
  <2> DEFINE c == Meta[trade.symbol].contract
             moved == IF trade.side = "buy" THEN trade.exit - trade.entry ELSE trade.entry - trade.exit
  <2>1. moved \in Int /\ c \in Int /\ trade.lots \in Int
    BY <1>5
  <2>2. Pnl(trade) = moved * trade.lots * c
    BY DEF Pnl
  <2> HIDE DEF moved, c
  <2>3. moved * trade.lots \in Int
    BY <2>1
  <2>4. QED  BY <2>1, <2>2, <2>3
<1>7. QED  BY <1>6 DEF trade

(* Closing some positions books the results of their trades, none of them
   booked before. *)
LEMMA ClosingBalances ==
  ASSUME Kept, NEW S \in SUBSET open, NEW F,
         \A position \in S : F[position].no = position.no /\ Pnl(F[position]) \in Int,
         closed' = closed \cup {F[position] : position \in S},
         equity' = equity + MapThenSumSet(Pnl, {F[position] : position \in S}),
         commissions' = commissions
  PROVE  /\ IsFiniteSet(closed')
         /\ \A trade \in closed' : Pnl(trade) \in Int
         /\ equity' \in Int /\ commissions' \in Int
         /\ equity' = StartEquity + MapThenSumSet(Pnl, closed') - commissions'
<1> DEFINE T == {F[position] : position \in S}
<1>1. IsFiniteSet(closed) /\ equity \in Int /\ commissions \in Int /\ StartEquity \in Int
      /\ equity = StartEquity + MapThenSumSet(Pnl, closed) - commissions
  BY NumbersAssumption DEF Kept, Money, EquityBalances
<1>2. IsFiniteSet(S)
  BY FS_Subset DEF Kept, IInv, OpenOK
<1>3. IsFiniteSet(T)
  BY <1>2, TradesFinite
<1>4. closed \cap T = {}
  <2> SUFFICES ASSUME NEW p \in S, F[p] \in closed PROVE FALSE
    OBVIOUS
  <2>1. F[p].no = p.no /\ p \in open
    OBVIOUS
  <2>2. F[p] = p
    BY <2>1 DEF Kept, IInv, EachApprovalOnePosition
  <2>3. QED  BY <2>1, <2>2 DEF Kept, IInv, EachApprovalOnePosition
<1>5. \A x \in closed \cup T : Pnl(x) \in Int
  BY DEF Kept, Money
<1> HIDE DEF T
<1>6. /\ MapThenSumSet(Pnl, closed) \in Int /\ MapThenSumSet(Pnl, T) \in Int
      /\ MapThenSumSet(Pnl, closed \cup T) = MapThenSumSet(Pnl, closed) + MapThenSumSet(Pnl, T)
  BY <1>1, <1>3, <1>4, <1>5, PnlAdds
<1>7. closed' = closed \cup T /\ equity' = equity + MapThenSumSet(Pnl, T)
  BY DEF T
<1>8. IsFiniteSet(closed')
  BY <1>1, <1>3, <1>7, FS_Union
<1> DEFINE before == MapThenSumSet(Pnl, closed)
           booked == MapThenSumSet(Pnl, T)
           after == MapThenSumSet(Pnl, closed \cup T)
<1>9. /\ before \in Int /\ booked \in Int /\ after = before + booked
      /\ equity = StartEquity + before - commissions
      /\ equity' = equity + booked
  BY <1>1, <1>6, <1>7
<1> HIDE DEF before, booked, after
<1>10. equity' = StartEquity + after - commissions' /\ equity' \in Int
  BY <1>1, <1>9
<1>11. equity' = StartEquity + MapThenSumSet(Pnl, closed') - commissions'
  BY <1>7, <1>10 DEF after
<1>12. QED  BY <1>1, <1>5, <1>7, <1>8, <1>10, <1>11

(* A tick closes at its own price. *)
LEMMA TakeTickBalances ==
  ASSUME Kept, NEW t \in Ticks, TakeTick(t)
  PROVE  Money'
<1> DEFINE why(position) == IF StopHit(position, t) THEN "sl" ELSE "tp"
           F == [position \in open |-> Trade(position, t, ticks + 1, why(position))]
<1>1. Exits(t) \in SUBSET open
  BY DEF Exits
<1>2. \A position \in Exits(t) : F[position].no = position.no /\ Pnl(F[position]) \in Int
  <2> SUFFICES ASSUME NEW position \in Exits(t)
               PROVE  F[position].no = position.no /\ Pnl(F[position]) \in Int
    OBVIOUS
  <2>1. position \in open /\ F[position] = Trade(position, t, ticks + 1, why(position))
    BY <1>1
  <2>2. Trade(position, t, ticks + 1, why(position)).no = position.no
    BY DEF Trade
  <2>3. Pnl(Trade(position, t, ticks + 1, why(position))) \in Int
    BY <2>1, TradeValued DEF Kept
  <2>4. QED  BY <2>1, <2>2, <2>3
<1>3. {F[position] : position \in Exits(t)} =
        {Trade(position, t, ticks + 1, IF StopHit(position, t) THEN "sl" ELSE "tp") :
           position \in Exits(t)}
  BY <1>1
<1>4. /\ closed' = closed \cup {F[position] : position \in Exits(t)}
      /\ equity' = equity + MapThenSumSet(Pnl, {F[position] : position \in Exits(t)})
      /\ open' \subseteq open /\ commissions' = commissions /\ tick' = t /\ done' = done /\ ~done
  BY <1>3 DEF TakeTick, Book, Remaining
<1> HIDE DEF F
<1>5. /\ IsFiniteSet(closed')
      /\ \A trade \in closed' : Pnl(trade) \in Int
      /\ equity' \in Int /\ commissions' \in Int
      /\ equity' = StartEquity + MapThenSumSet(Pnl, closed') - commissions'
  BY <1>1, <1>2, <1>4, ClosingBalances
<1>6. EquityBalances'
  BY <1>4, <1>5 DEF EquityBalances
<1>7. QED  BY <1>4, <1>5, <1>6 DEF Kept, Money

(* The end closes the rest at the last tick. *)
LEMMA EndBalances ==
  ASSUME Kept, EndOfReplay
  PROVE  Money'
<1> DEFINE F == [position \in open |-> Trade(position, tick, ticks, "eod")]
<1>1. open \in SUBSET open
  OBVIOUS
<1>2. \A position \in open : F[position].no = position.no /\ Pnl(F[position]) \in Int
  <2> SUFFICES ASSUME NEW position \in open
               PROVE  F[position].no = position.no /\ Pnl(F[position]) \in Int
    OBVIOUS
  <2>1. Trade(position, tick, ticks, "eod").no = position.no
    BY DEF Trade
  <2>2. Pnl(Trade(position, tick, ticks, "eod")) \in Int
    BY TradeValued DEF Kept, Money
  <2>3. QED  BY <2>1, <2>2
<1>3. {F[position] : position \in open} = {Trade(position, tick, ticks, "eod") : position \in open}
  OBVIOUS
<1>4. /\ closed' = closed \cup {F[position] : position \in open}
      /\ equity' = equity + MapThenSumSet(Pnl, {F[position] : position \in open})
      /\ open' = {} /\ commissions' = commissions /\ tick' = tick
  BY <1>3 DEF EndOfReplay, Book
<1> HIDE DEF F
<1>5. /\ IsFiniteSet(closed')
      /\ \A trade \in closed' : Pnl(trade) \in Int
      /\ equity' \in Int /\ commissions' \in Int
      /\ equity' = StartEquity + MapThenSumSet(Pnl, closed') - commissions'
  BY <1>1, <1>2, <1>4, ClosingBalances
<1>6. EquityBalances'
  BY <1>4, <1>5 DEF EquityBalances
<1>7. QED  BY <1>4, <1>5, <1>6 DEF Kept, Money

(* A fill costs its commission and opens a position in numbers. *)
LEMMA FillBalances ==
  ASSUME Kept, NEW intent \in Intents, Fill(intent)
  PROVE  Money'
<1> DEFINE new == [no |-> Len(log'), symbol |-> intent.symbol, side |-> intent.side,
                   lots |-> intent.lots, entry |-> FillPrice(intent, tick),
                   stop |-> intent.stop, target |-> intent.target, openedAt |-> ticks]
<1>1. /\ closed' = closed /\ tick' = tick /\ done' = done /\ ~done
      /\ open' = open \cup {new}
      /\ equity' = equity - Commission(intent.lots)
      /\ commissions' = commissions + Commission(intent.lots)
  BY DEF Fill
<1>2. intent.symbol \in DOMAIN Meta
  <2>1. Risk!WithinLimits(intent, Account, open, news, Quote)
    BY DEF Fill, Risk!CheckApprove
  <2>2. QED  BY <2>1 DEF Risk!WithinLimits, Risk!KnownSymbol
<1>3. intent.lots \in Int /\ CommissionRate \in Int /\ SlipBase \in Int
      /\ Meta[intent.symbol].contract \in Int
  BY <1>2, NumbersAssumption
<1>4. tick.bid \in Int /\ tick.ask \in Int
  BY TickInNumbers DEF Kept, Money
<1>5. FillPrice(intent, tick) \in Int
  <2>1. Max({0, intent.lots - 100}) \in Int
    <3>1. \E x \in {0, intent.lots - 100} : \A y \in {0, intent.lots - 100} : x >= y
      BY <1>3
    <3>2. Max({0, intent.lots - 100}) \in {0, intent.lots - 100}
      BY <3>1 DEF Max
    <3>3. QED  BY <3>2, <1>3
  <2>2. (Max({0, intent.lots - 100}) * 5) \div 100 \in Int
    BY <2>1
  <2>3. Slippage(intent.lots) \in Int
    BY <1>3, <2>2 DEF Slippage
  <2>4. QED  BY <1>4, <2>3 DEF FillPrice
<1>6. Commission(intent.lots) \in Int
  BY <1>3 DEF Commission
<1>7. new.lots \in Int /\ new.entry \in Int /\ Meta[new.symbol].contract \in Int
  BY <1>3, <1>5
<1>8. equity \in Int /\ commissions \in Int /\ StartEquity \in Int
      /\ equity = StartEquity + MapThenSumSet(Pnl, closed) - commissions
      /\ MapThenSumSet(Pnl, closed) \in Int
  <2>1. IsFiniteSet(closed) /\ IsFiniteSet({}) /\ closed \cap {} = {}
        /\ \A x \in closed \cup {} : Pnl(x) \in Int
    BY FS_EmptySet DEF Kept, Money
  <2>2. MapThenSumSet(Pnl, closed) \in Int
    BY <2>1, PnlAdds
  <2>3. QED  BY <2>2, NumbersAssumption DEF Kept, Money, EquityBalances
<1> HIDE DEF new
<1> DEFINE sum == MapThenSumSet(Pnl, closed)
           cost == Commission(intent.lots)
<1>9. sum \in Int /\ cost \in Int /\ equity = StartEquity + sum - commissions
      /\ equity' = equity - cost /\ commissions' = commissions + cost
  BY <1>1, <1>6, <1>8
<1> HIDE DEF sum, cost
<1>10. equity' = StartEquity + sum - commissions' /\ equity' \in Int /\ commissions' \in Int
  BY <1>8, <1>9
<1>11. EquityBalances'
  BY <1>1, <1>10 DEF EquityBalances, sum
<1>12. QED  BY <1>1, <1>7, <1>10, <1>11 DEF Kept, Money

(* The balance is kept in every reachable state. *)
LEMMA MoneyInvariance == Spec => []Kept
<1>1. Init => Kept
  <2> SUFFICES ASSUME Init PROVE Kept
    OBVIOUS
  <2>1. IInv
    BY InitInv
  <2>2. /\ open = {} /\ closed = {} /\ commissions = 0 /\ equity = StartEquity
        /\ tick = NoTick /\ StartEquity \in Int
    BY NumbersAssumption DEF Init
  <2>3. EquityBalances
    BY <2>2, PnlOfNone DEF EquityBalances
  <2>4. QED  BY <2>1, <2>2, <2>3, FS_EmptySet DEF Kept, Money
<1>2. ASSUME Kept, [Next]_vars PROVE Kept'
  <2>1. IInv'
    BY <1>2, NextInv DEF Kept
  <2>2. ASSUME NEW t \in Ticks, TakeTick(t) PROVE Money'
    BY <1>2, <2>2, TakeTickBalances
  <2>3. ASSUME NEW intent \in Intents, Fill(intent) PROVE Money'
    BY <1>2, <2>3, FillBalances
  <2>4. CASE Breach \/ UNCHANGED vars
    <3>1. UNCHANGED <<open, closed, equity, commissions, tick, done>>
      BY <2>4 DEF Breach, ownVars, vars
    <3>2. QED  BY <1>2, <2>1, <3>1 DEF Kept, Money, EquityBalances
  <2>5. CASE EndOfReplay
    BY <1>2, <2>1, <2>5, EndBalances DEF Kept
  <2>6. QED  BY <1>2, <2>1, <2>2, <2>3, <2>4, <2>5 DEF Next, Kept
<1>3. QED  BY <1>1, <1>2, PTL DEF Spec

(* The account of a replay is what it began with, plus the results of the
   closed trades, less the commissions, after every tick and fill. *)
THEOREM Balances == Spec => []EquityBalances
<1>1. Kept => EquityBalances  BY DEF Kept, Money
<1>2. QED  BY <1>1, MoneyInvariance, PTL

-----------------------------------------------------------------------------
(* The gate's checks of the two nets are those of RiskGate. *)
LEMMA NetsChecked ==
  ASSUME NEW intent \in Intents, Fill(intent)
  PROVE  ClusterNetOk(intent, open) /\ UsdNetOk(intent, open)
<1>1. Risk!WithinLimits(intent, Account, open, news, Quote)
  BY DEF Fill, Risk!CheckApprove
<1>2. Risk!ClusterNetOk(intent, open) /\ Risk!UsdNetOk(intent, open)
  BY <1>1 DEF Risk!WithinLimits
<1>3. \A symbols : Risk!NetLots(open, symbols) = NetLots(open, symbols)
  BY DEF Risk!NetLots, NetLots, Risk!MapThenSumSet, MapThenSumSet, Risk!MapThenFoldSet,
         MapThenFoldSet, Risk!SignedLots, SignedLots
<1>4. QED
  BY <1>2, <1>3 DEF Risk!ClusterNetOk, ClusterNetOk, Risk!UsdNetOk, UsdNetOk, Risk!Abs, Abs,
                    Risk!ClusterSymbols, ClusterSymbols, Risk!SignedLots, SignedLots

(* A net over symbols that include the new position's grows by its lots. *)
LEMMA NetGrows ==
  ASSUME Kept, NEW symbols, NEW new, new \notin open, new.symbol \in symbols, new.lots \in Int,
         open' = open \cup {new}
  PROVE  NetLots(open', symbols) = NetLots(open, symbols) + SignedLots(new)
<1> DEFINE A == {position \in open : position.symbol \in symbols}
<1>1. IsFiniteSet(open)
  BY DEF Kept, IInv, OpenOK
<1>2. IsFiniteSet(A) /\ new \notin A
  BY <1>1, FS_Subset
<1>3. {position \in open' : position.symbol \in symbols} = A \cup {new}
  OBVIOUS
<1>4. \A x \in A \cup {new} : SignedLots(x) \in Int
  BY DEF SignedLots, Kept, Money
<1>5. NetLots(open, symbols) = MapThenSumSet(SignedLots, A)
  BY DEF NetLots
<1>6. NetLots(open', symbols) = MapThenSumSet(SignedLots, A \cup {new})
  BY <1>3 DEF NetLots
<1> HIDE DEF A
<1>7. QED  BY <1>2, <1>4, <1>5, <1>6, LotsAdd

(* A step that may open a position, and what the account then holds. *)
WithinCaps ==
  \A position \in open' \ open :
    /\ Abs(NetLots(open', ClusterSymbols(position.symbol))) <= Cfg.maxCluster
    /\ position.symbol \in UsdSymbols => Abs(NetLots(open', UsdSymbols)) <= Cfg.maxUsd

(* A fill leaves the exposure within the caps its check compared. *)
LEMMA FillWithinCaps ==
  ASSUME Kept, NEW intent \in Intents, Fill(intent)
  PROVE  WithinCaps
<1> DEFINE new == [no |-> Len(log'), symbol |-> intent.symbol, side |-> intent.side,
                   lots |-> intent.lots, entry |-> FillPrice(intent, tick),
                   stop |-> intent.stop, target |-> intent.target, openedAt |-> ticks]
<1>1. open' = open \cup {new}
  BY DEF Fill
<1>2. new.symbol = intent.symbol /\ new.lots \in Int /\ SignedLots(new) = SignedLots(intent)
  BY NumbersAssumption DEF SignedLots
<1> HIDE DEF new
<1> SUFFICES ASSUME new \notin open
             PROVE  /\ Abs(NetLots(open', ClusterSymbols(new.symbol))) <= Cfg.maxCluster
                    /\ new.symbol \in UsdSymbols => Abs(NetLots(open', UsdSymbols)) <= Cfg.maxUsd
  BY <1>1 DEF WithinCaps
<1>3. ClusterNetOk(intent, open) /\ UsdNetOk(intent, open)
  BY NetsChecked
<1>4. new.symbol \in ClusterSymbols(new.symbol)
  BY DEF ClusterSymbols
<1>5. NetLots(open', ClusterSymbols(new.symbol))
        = NetLots(open, ClusterSymbols(new.symbol)) + SignedLots(new)
  BY <1>1, <1>2, <1>4, NetGrows
<1>6. ASSUME new.symbol \in UsdSymbols
      PROVE  NetLots(open', UsdSymbols) = NetLots(open, UsdSymbols) + SignedLots(new)
  BY <1>1, <1>2, <1>6, NetGrows
<1>7. QED  BY <1>2, <1>3, <1>5, <1>6 DEF ClusterNetOk, UsdNetOk

(* Whatever was closed before, an entry leaves the account within the net of
   its cluster and the net of the USD pairs. *)
THEOREM CapsKept == Spec => EntryKeepsCaps
<1>1. Kept /\ [Next]_vars => [WithinCaps]_vars
  <2> SUFFICES ASSUME Kept, Next PROVE WithinCaps
    BY DEF vars
  <2>1. ASSUME NEW t \in Ticks, TakeTick(t) PROVE open' \subseteq open
    BY <2>1 DEF TakeTick, Remaining
  <2>2. ASSUME NEW intent \in Intents, Fill(intent) PROVE WithinCaps
    BY <2>2, FillWithinCaps
  <2>3. CASE Breach
    BY <2>3 DEF Breach, ownVars, WithinCaps
  <2>4. CASE EndOfReplay
    BY <2>4 DEF EndOfReplay, WithinCaps
  <2>5. QED  BY <2>1, <2>2, <2>3, <2>4 DEF Next, WithinCaps
<1>2. QED  BY <1>1, MoneyInvariance, PTL DEF Spec, EntryKeepsCaps, WithinCaps
=============================================================================
