------------------------ MODULE ExpertAdvisors_proofs ------------------------
(***************************************************************************)
(* Proofs about the two expert advisors, for every limit, waiting time and *)
(* whatever crashes and restarts.                                          *)
(*                                                                         *)
(* SmcPureEa: the inductive invariant says that the losses the EA counts,  *)
(* with those its queue will tell it of, reach the real losses in a row or *)
(* the number that starts a cooldown.  EaWatchdog: TypeOK is inductive     *)
(* with CountIsShort: the EA's count of silence, with the seconds its      *)
(* clock is behind, stays within the real silence and the gap in the       *)
(* quotes at the brain's last line.                                        *)
(***************************************************************************)
EXTENDS EaWatchdog, SmcPureEa, FiniteSetTheorems, SequenceTheorems, WellFoundedInduction, TLAPS

(* SMC_Pure_EA: the cooldown.  Sets of naturals that are bounded have a greatest
   member, as CheckTradeHistory needs one to stop at. *)
Below == {p \in Nat \X Nat : p[1] < p[2]}

(* A set of naturals that is not empty has a least member. *)
LEMMA Least ==
  ASSUME NEW T \in SUBSET Nat, T # {} PROVE \E m \in T : \A k \in T : m <= k
<1>1. OpToRel(<, Nat) = Below
  BY DEF OpToRel, Below
<1>2. IsWellFoundedOn(Below, Nat)
  BY <1>1, NatLessThanWellFounded
<1>3. PICK m \in T : \A k \in T : <<k, m>> \notin Below
  BY <1>2, WFMin
<1>4. ASSUME NEW k \in T PROVE m <= k
  <2>1. k \in Nat /\ m \in Nat /\ <<k, m>> \notin Below
    BY <1>3
  <2>2. ~(k < m)
    BY <2>1 DEF Below
  <2>3. QED  BY <2>1, <2>2
<1>5. QED  BY <1>4

(* And a set with a bound has a greatest one. *)
LEMMA Greatest ==
  ASSUME NEW n \in Nat, NEW S \in SUBSET (0..n), S # {}
  PROVE  \E m \in S : \A k \in S : m >= k
<1> DEFINE T == {n - x : x \in S}
<1>1. T \in SUBSET Nat /\ T # {}
  <2>1. \A x \in S : n - x \in Nat
    OBVIOUS
  <2>2. QED  BY <2>1
<1>2. PICK d \in T : \A k \in T : d <= k
  BY <1>1, Least
<1>3. PICK m \in S : d = n - m
  OBVIOUS
<1>4. ASSUME NEW k \in S PROVE m >= k
  <2>1. n - k \in T /\ k \in 0..n /\ m \in 0..n
    OBVIOUS
  <2>2. n - m <= n - k
    BY <1>2, <1>3, <2>1
  <2>3. QED  BY <2>1, <2>2
<1>5. QED  BY <1>4

Event == {"tick", "loss", "win"}

(* The losses an EA is yet to be told of, as a queue of its events stands, and
   what it will have counted then, if it counts `count` now. *)
PendingIn(q) == {n \in DOMAIN q : q[n] = "loss" /\ \A later \in n..Len(q) : q[later] # "win"}

WonIn(q) == \E n \in DOMAIN q : q[n] = "win"

Told(q, count) == Cardinality(PendingIn(q)) + (IF WonIn(q) THEN 0 ELSE count)

Enough(count) == count >= streak \/ Cools(count)

(* What a deal of the account may be. *)
Deals == [kind : Kinds, at : Nat]

SmcTypes ==
  /\ now \in Nat /\ lastLoss \in Nat /\ lastLoss <= now
  /\ losses \in Nat /\ streak \in Nat /\ until \in Nat
  /\ forgot \in BOOLEAN
  /\ events \in Seq(Event)
  /\ deals \in Seq(Deals)

(* Unless it missed some of them, the EA has counted the losses
   in a row, or will with the events it is yet to handle. *)
LossesTold == ~forgot => Enough(Told(events, losses))

(* And once it is told of enough of them, it is cooling. *)
CoolingRuns ==
  ~forgot /\ Cools(streak) /\ ~Contains(events, "loss") => until >= lastLoss + Cooldown

SmcInv == SmcTypes /\ LossesTold /\ CoolingRuns

-----------------------------------------------------------------------------
(* What a queue tells, as it grows at its end and is served at its head. *)
LEMMA PendingCount ==
  ASSUME NEW q \in Seq(Event)
  PROVE  /\ PendingIn(q) \subseteq 1..Len(q) /\ IsFiniteSet(PendingIn(q))
         /\ Cardinality(PendingIn(q)) \in Nat
<1>1. PendingIn(q) \subseteq 1..Len(q) /\ Len(q) \in Nat
  BY DEF PendingIn
<1>2. IsFiniteSet(1..Len(q))
  BY <1>1, FS_Interval
<1>3. QED  BY <1>1, <1>2, FS_Subset, FS_CardinalityType

(* A tick tells nothing, a loss one more, and a win clears the count. *)
LEMMA ToldByMore ==
  ASSUME NEW q \in Seq(Event), NEW event \in Event, NEW count \in Nat
  PROVE  /\ Append(q, event) \in Seq(Event)
         /\ Told(q, count) \in Nat
         /\ event = "tick" => Told(Append(q, event), count) = Told(q, count)
         /\ event = "loss" => Told(Append(q, event), count) = Told(q, count) + 1
         /\ event = "win" => Told(Append(q, event), count) = 0
<1> DEFINE more == Append(q, event)
<1>1. /\ more \in Seq(Event) /\ Len(q) \in Nat /\ Len(more) = Len(q) + 1
      /\ more[Len(q) + 1] = event
      /\ \A n \in 1..Len(q) : more[n] = q[n]
      /\ DOMAIN q = 1..Len(q) /\ DOMAIN more = 1..Len(q) + 1
  OBVIOUS
<1> HIDE DEF more
<1>2. Cardinality(PendingIn(q)) \in Nat /\ IsFiniteSet(PendingIn(q)) /\ PendingIn(q) \subseteq 1..Len(q)
  BY PendingCount
<1>3. Told(q, count) \in Nat
  BY <1>2 DEF Told
<1>4. CASE event = "tick"
  <2>1. PendingIn(more) = PendingIn(q)
    BY <1>1, <1>4 DEF PendingIn
  <2>2. WonIn(more) <=> WonIn(q)
    BY <1>1, <1>4 DEF WonIn
  <2>3. QED  BY <1>1, <1>3, <1>4, <2>1, <2>2 DEF Told, more
<1>5. CASE event = "loss"
  <2>1. PendingIn(more) = PendingIn(q) \cup {Len(q) + 1}
    BY <1>1, <1>5 DEF PendingIn
  <2>2. WonIn(more) <=> WonIn(q)
    BY <1>1, <1>5 DEF WonIn
  <2>3. Len(q) + 1 \notin PendingIn(q)
    BY <1>1, <1>2
  <2>4. Cardinality(PendingIn(more)) = Cardinality(PendingIn(q)) + 1
    BY <1>2, <2>1, <2>3, FS_AddElement
  <2>5. Told(more, count) = Told(q, count) + 1
    BY <1>2, <2>2, <2>4 DEF Told
  <2>6. QED  BY <1>1, <1>3, <1>5, <2>5 DEF more
<1>6. CASE event = "win"
  <2>1. Len(q) + 1 \in DOMAIN more /\ \A n \in DOMAIN more : Len(q) + 1 \in n..Len(more)
    BY <1>1
  <2>2. PendingIn(more) = {}
    BY <1>1, <1>6, <2>1 DEF PendingIn
  <2>3. WonIn(more)
    BY <1>1, <1>6, <2>1 DEF WonIn
  <2>4. Cardinality({}) = 0
    BY FS_EmptySet
  <2>5. Told(more, count) = 0
    BY <2>2, <2>3, <2>4 DEF Told
  <2>6. QED  BY <1>1, <1>3, <1>6, <2>5 DEF more
<1>7. QED  BY <1>4, <1>5, <1>6 DEF Event

(* The rest of a queue holds the same losses as the queue without its head. *)
LEMMA PendingRest ==
  ASSUME NEW q \in Seq(Event), q # <<>>
  PROVE  Cardinality(PendingIn(Tail(q))) = Cardinality(PendingIn(q) \ {1})
<1> DEFINE rest == Tail(q)
           S == PendingIn(q) \ {1}
           T == PendingIn(rest)
           shift == [n \in S |-> n - 1]
<1>1. /\ rest \in Seq(Event) /\ Len(q) \in Nat /\ Len(q) >= 1 /\ Len(rest) = Len(q) - 1
      /\ DOMAIN q = 1..Len(q) /\ DOMAIN rest = 1..Len(q) - 1
      /\ \A n \in 1..Len(q) - 1 : rest[n] = q[n + 1]
  OBVIOUS
<1> HIDE DEF rest
<1>2. S \subseteq 2..Len(q) /\ T \subseteq 1..Len(q) - 1
  BY <1>1 DEF PendingIn
<1>3. ASSUME NEW n \in 1..Len(q) - 1 PROVE n \in T <=> n + 1 \in S
  <2>1. n \in DOMAIN rest /\ n + 1 \in DOMAIN q /\ rest[n] = q[n + 1] /\ n + 1 # 1
    BY <1>1, <1>3
  <2>2. (\A later \in n..Len(rest) : rest[later] # "win")
          <=> (\A later \in n + 1..Len(q) : q[later] # "win")
    <3>1. ASSUME \A later \in n..Len(rest) : rest[later] # "win", NEW later \in n + 1..Len(q)
          PROVE  q[later] # "win"
      <4>1. later - 1 \in n..Len(rest) /\ later - 1 \in 1..Len(q) - 1 /\ (later - 1) + 1 = later
        BY <1>1, <1>3
      <4>2. rest[later - 1] = q[(later - 1) + 1]
        BY <1>1, <4>1
      <4>3. QED  BY <3>1, <4>1, <4>2
    <3>2. ASSUME \A later \in n + 1..Len(q) : q[later] # "win", NEW later \in n..Len(rest)
          PROVE  rest[later] # "win"
      <4>1. later + 1 \in n + 1..Len(q) /\ later \in 1..Len(q) - 1
        BY <1>1, <1>3
      <4>2. rest[later] = q[later + 1]
        BY <1>1, <4>1
      <4>3. QED  BY <3>2, <4>1, <4>2
    <3>3. QED  BY <3>1, <3>2
  <2>3. QED  BY <2>1, <2>2 DEF PendingIn
<1>4. \A n \in S : n - 1 \in T
  <2> SUFFICES ASSUME NEW n \in S PROVE n - 1 \in T
    OBVIOUS
  <2>1. n - 1 \in 1..Len(q) - 1 /\ (n - 1) + 1 = n
    BY <1>1, <1>2
  <2>2. QED  BY <1>3, <2>1
<1>5. \A n \in T : n + 1 \in S /\ n + 1 - 1 = n
  <2> SUFFICES ASSUME NEW n \in T PROVE n + 1 \in S /\ n + 1 - 1 = n
    OBVIOUS
  <2>1. n \in 1..Len(q) - 1
    BY <1>2
  <2>2. QED  BY <1>3, <2>1
<1>6. shift \in [S -> T]
  BY <1>4
<1>7. \A n, m \in S : shift[n] = shift[m] => n = m
  <2> SUFFICES ASSUME NEW n \in S, NEW m \in S, n - 1 = m - 1 PROVE n = m
    OBVIOUS
  <2>1. n \in Int /\ m \in Int
    BY <1>1, <1>2
  <2>2. QED  BY <2>1
<1>8. \A y \in T : \E x \in S : shift[x] = y
  <2> SUFFICES ASSUME NEW y \in T PROVE \E x \in S : shift[x] = y
    OBVIOUS
  <2>1. y + 1 \in S /\ y \in Int
    BY <1>2, <1>5
  <2> HIDE DEF S, T
  <2>2. \A n \in S : shift[n] = n - 1
    OBVIOUS
  <2> HIDE DEF shift
  <2>3. shift[y + 1] = (y + 1) - 1
    BY <2>1, <2>2
  <2>4. shift[y + 1] = y
    BY <2>1, <2>3
  <2>5. QED  BY <2>1, <2>4
<1>9. IsFiniteSet(S)
  BY PendingCount, FS_Subset
<1> HIDE DEF S, T, shift
<1>10. shift \in Bijection(S, T)
  BY <1>6, <1>7, <1>8 DEF Bijection, Injection, Surjection, IsInjective
<1>11. Cardinality(T) = Cardinality(S)
  BY <1>9, <1>10, FS_Bijection DEF ExistsBijection
<1>12. QED  BY <1>11 DEF S, T, rest

(* A handler that does with the count what its event says leaves unchanged what
   the EA will have counted. *)
Counts(event, count) == IF event = "loss" THEN count + 1 ELSE IF event = "win" THEN 0 ELSE count

(* A counted event leaves unchanged what the EA will have counted. *)
LEMMA ToldByRest ==
  ASSUME NEW q \in Seq(Event), q # <<>>, NEW count \in Nat
  PROVE  /\ Tail(q) \in Seq(Event)
         /\ Told(Tail(q), Counts(Head(q), count)) = Told(q, count)
<1> DEFINE rest == Tail(q)
<1>1. /\ rest \in Seq(Event) /\ Len(q) \in Nat /\ Len(q) >= 1 /\ Len(rest) = Len(q) - 1
      /\ DOMAIN q = 1..Len(q) /\ DOMAIN rest = 1..Len(q) - 1
      /\ \A n \in 1..Len(q) - 1 : rest[n] = q[n + 1]
      /\ Head(q) = q[1] /\ q[1] \in Event
  OBVIOUS
<1>2. Cardinality(PendingIn(rest)) = Cardinality(PendingIn(q) \ {1})
  BY PendingRest
<1>3. /\ IsFiniteSet(PendingIn(q)) /\ Cardinality(PendingIn(q)) \in Nat
      /\ Cardinality(PendingIn(rest)) \in Nat
  BY <1>1, PendingCount
<1> HIDE DEF rest
<1>4. WonIn(rest) <=> \E n \in 2..Len(q) : q[n] = "win"
  <2>1. ASSUME NEW n \in DOMAIN rest, rest[n] = "win" PROVE \E m \in 2..Len(q) : q[m] = "win"
    <3>1. n + 1 \in 2..Len(q) /\ q[n + 1] = "win"
      BY <1>1, <2>1
    <3>2. QED  BY <3>1
  <2>2. ASSUME NEW m \in 2..Len(q), q[m] = "win" PROVE WonIn(rest)
    <3>1. m - 1 \in 1..Len(q) - 1 /\ (m - 1) + 1 = m
      BY <1>1
    <3>2. rest[m - 1] = "win"
      BY <1>1, <2>2, <3>1
    <3>3. QED  BY <1>1, <3>1, <3>2 DEF WonIn
  <2>3. QED  BY <2>1, <2>2 DEF WonIn
<1>5. WonIn(q) <=> (q[1] = "win" \/ WonIn(rest))
  BY <1>1, <1>4 DEF WonIn
<1>6. 1 \in PendingIn(q) <=> (q[1] = "loss" /\ ~WonIn(rest))
  <2>1. q[1] = "loss" => (WonIn(q) <=> WonIn(rest))
    BY <1>5
  <2>2. 1 \in DOMAIN q /\ DOMAIN q = 1..Len(q)
    BY <1>1
  <2>3. 1 \in PendingIn(q) <=> (q[1] = "loss" /\ ~WonIn(q))
    BY <2>2 DEF PendingIn, WonIn
  <2>4. QED  BY <2>1, <2>3
<1>7. CASE 1 \in PendingIn(q)
  <2>1. Cardinality(PendingIn(rest)) = Cardinality(PendingIn(q)) - 1
    BY <1>2, <1>3, <1>7, FS_RemoveElement
  <2>2. q[1] = "loss" /\ ~WonIn(rest) /\ ~WonIn(q)
    BY <1>5, <1>6, <1>7
  <2>3. Told(rest, count + 1) = Told(q, count)
    BY <1>3, <2>1, <2>2 DEF Told
  <2>4. QED  BY <1>1, <2>2, <2>3 DEF Counts, rest
<1>8. CASE 1 \notin PendingIn(q)
  <2>1. PendingIn(q) \ {1} = PendingIn(q)
    BY <1>8
  <2>2. Cardinality(PendingIn(rest)) = Cardinality(PendingIn(q))
    BY <1>2, <2>1
  <2>3. q[1] = "loss" => WonIn(rest) /\ WonIn(q)
    BY <1>5, <1>6, <1>8
  <2>4. q[1] = "tick" => (WonIn(rest) <=> WonIn(q))
    BY <1>5
  <2>5. q[1] = "win" => WonIn(q)
    BY <1>5
  <2>6. Told(rest, Counts(q[1], count)) = Told(q, count)
    <3>1. CASE q[1] = "loss"
      BY <3>1, <2>2, <2>3 DEF Told
    <3>2. CASE q[1] = "tick"
      BY <3>2, <2>2, <2>4 DEF Told, Counts
    <3>3. CASE q[1] = "win"
      <4>1. Counts(q[1], count) = 0
        BY <3>3 DEF Counts
      <4>2. Told(rest, 0) = Cardinality(PendingIn(rest))
        BY <1>3 DEF Told
      <4>3. Told(q, count) = Cardinality(PendingIn(q))
        BY <1>3, <2>5, <3>3 DEF Told
      <4>4. QED  BY <2>2, <4>1, <4>2, <4>3
    <3>4. QED  BY <1>1, <3>1, <3>2, <3>3 DEF Event
  <2>7. QED  BY <1>1, <2>6 DEF rest
<1>9. QED  BY <1>7, <1>8

(* Without a loss in the queue nothing is left to be told. *)
LEMMA ToldAll ==
  ASSUME NEW q \in Seq(Event), NEW count \in Nat, ~Contains(q, "loss")
  PROVE  Told(q, count) = 0 \/ Told(q, count) = count
<1>1. PendingIn(q) = {}
  BY DEF PendingIn, Contains
<1>2. Cardinality({}) = 0
  BY FS_EmptySet
<1>3. QED  BY <1>1, <1>2 DEF Told

(* An empty queue tells what was counted. *)
LEMMA ToldNothing ==
  ASSUME NEW count \in Nat
  PROVE  Told(<<>>, count) = count
<1>1. PendingIn(<<>>) = {} /\ ~WonIn(<<>>)
  BY DEF PendingIn, WonIn
<1>2. Cardinality(PendingIn(<<>>)) = 0
  BY <1>1, FS_EmptySet
<1>3. QED  BY <1>1, <1>2 DEF Told

(* CheckTradeHistory finds what is in sight of the losses in a row. *)
LEMMA TrailingInSight ==
  ASSUME SmcTypes, NEW known \in SUBSET DOMAIN deals
  PROVE  TrailingLosses(known) = LossesInSight(known) /\ TrailingLosses(known) \in Nat
<1> DEFINE wins == {n \in known : deals[n].kind = "win"}
           some == {0} \cup wins
<1>1. DOMAIN deals = 1..Len(deals) /\ Len(deals) \in Nat
  BY DEF SmcTypes
<1>2. some \subseteq 0..Len(deals) /\ 0 \in some
  BY <1>1
<1>3. LastWin(known) \in some /\ \A n \in some : LastWin(known) >= n
  <2> HIDE DEF some
  <2>1. \E m \in some : \A n \in some : m >= n
    BY <1>1, <1>2, Greatest
  <2>2. LastWin(known) = CHOOSE m \in some : \A n \in some : m >= n
    BY DEF LastWin, Max, some
  <2>3. QED  BY <2>1, <2>2
<1>4. LastWin(known) \in 0..Len(deals)
  <2> HIDE DEF some
  <2>1. QED  BY <1>2, <1>3
<1> DEFINE S == {n \in LastWin(known) + 1..Len(deals) : Counted(n, known)}
           T == {n \in DOMAIN deals :
                   Counted(n, known) /\ \A later \in n..Len(deals) : later \in known => deals[later].kind # "win"}
<1>5. ASSUME NEW n \in S PROVE n \in T
  <2>1. n \in DOMAIN deals /\ Counted(n, known) /\ n > LastWin(known) /\ n \in Nat
    BY <1>1, <1>4
  <2>2. ASSUME NEW later \in n..Len(deals), later \in known PROVE deals[later].kind # "win"
    <3>1. later \in DOMAIN deals /\ later > LastWin(known) /\ later \in Nat
      BY <1>1, <1>4, <2>1
    <3>2. ~(LastWin(known) >= later)
      BY <1>4, <3>1
    <3>3. later \notin some
      BY <1>3, <3>2
    <3>4. QED  BY <2>2, <3>1, <3>3
  <2>3. QED  BY <2>1, <2>2
<1>6. ASSUME NEW n \in T PROVE n \in S
  <2>1. n \in 1..Len(deals) /\ Counted(n, known)
    BY <1>1
  <2>2. ~(n <= LastWin(known))
    <3>1. ASSUME n <= LastWin(known) PROVE FALSE
      <4>1. LastWin(known) \in n..Len(deals) /\ LastWin(known) # 0
        BY <1>4, <2>1, <3>1
      <4>2. LastWin(known) \in wins
        BY <1>3, <4>1
      <4>3. QED  BY <4>1, <4>2, <1>6
    <3>2. QED  BY <3>1
  <2>3. n \in LastWin(known) + 1..Len(deals)
    BY <1>4, <2>1, <2>2
  <2>4. QED  BY <2>1, <2>3
<1>7. S = T
  BY <1>5, <1>6
<1>8. IsFiniteSet(1..Len(deals)) /\ S \subseteq 1..Len(deals)
  BY <1>1, <1>4, FS_Interval
<1>9. IsFiniteSet(S) /\ Cardinality(S) \in Nat
  BY <1>8, FS_Subset, FS_CardinalityType
<1>10. QED  BY <1>7, <1>9 DEF TrailingLosses, LossesInSight

(* The terminal keeps a deal and no deal but those. *)
LEMMA RecordedType ==
  ASSUME NEW deal \in Deals, deals \in Seq(Deals)
  PROVE  Recorded(deal) \in Seq(Deals)
<1> DEFINE all == Append(deals, deal)
           first == Max({1, Len(all) - ScanDeals + 1})
<1>1. all \in Seq(Deals) /\ Len(all) \in Nat /\ ScanDeals \in Nat
  BY SmcAssumption
<1> HIDE DEF all
<1>2. \E x \in {1, Len(all) - ScanDeals + 1} : \A y \in {1, Len(all) - ScanDeals + 1} : x >= y
  BY <1>1
<1>3. /\ first \in {1, Len(all) - ScanDeals + 1}
      /\ \A y \in {1, Len(all) - ScanDeals + 1} : first >= y
  BY <1>2 DEF Max
<1> HIDE DEF first
<1>4. first \in Nat /\ first >= 1
  BY <1>1, <1>3
<1>5. \A i \in first..Len(all) : all[i] \in Deals
  BY <1>1, <1>4
<1>6. SubSeq(all, first, Len(all)) \in Seq(Deals)
  BY <1>1, <1>4, <1>5, SubSeqProperties
<1>7. QED  BY <1>6 DEF Recorded, all, first

(* What is not below the smaller of two numbers is not below one of them. *)
LEMMA MinOfTwo ==
  ASSUME NEW a \in Nat, NEW b \in Nat, NEW c \in Nat, ~(c < Min({a, b}))
  PROVE  c >= a \/ c >= b
<1>1. \E x \in {a, b} : \A y \in {a, b} : x <= y
  OBVIOUS
<1>2. Min({a, b}) \in {a, b}
  BY <1>1 DEF Min
<1>3. QED  BY <1>2

-----------------------------------------------------------------------------
(* Each handler keeps the invariant.  What leaves the count, the streak and the
   times alone, but for ticks in the queue: *)
LEMMA QuietKeeps ==
  ASSUME SmcInv,
         UNCHANGED <<streak, lastLoss, forgot, losses, until>>, now' \in Nat, now <= now',
         deals' \in Seq(Deals),
         events' \in Seq(Event),
         Told(events', losses) = Told(events, losses),
         Contains(events, "loss") => Contains(events', "loss")
  PROVE  SmcInv'
<1>1. SmcTypes'
  BY DEF SmcInv, SmcTypes
<1>2. LossesTold'
  BY DEF SmcInv, LossesTold, Enough, Cools
<1>3. CoolingRuns'
  BY DEF SmcInv, CoolingRuns, Cools
<1>4. QED  BY <1>1, <1>2, <1>3 DEF SmcInv

(* A deal is recorded with its time. *)
LEMMA DealKept ==
  ASSUME NEW kind \in Kinds, SmcTypes, Deal(kind)
  PROVE  deals' \in Seq(Deals)
<1> DEFINE deal == [kind |-> kind, at |-> IF kind = "loss" THEN now ELSE 0]
<1>1. deal \in Deals /\ deals' = Recorded(deal)
  BY DEF Deal, Deals, SmcTypes
<1> HIDE DEF deal
<1>2. QED  BY <1>1, RecordedType DEF SmcTypes

(* A deal of the EA of which it is told by an event. *)
LEMMA OwnDealKeeps ==
  ASSUME SmcInv, NEW outcome \in {"loss", "win"}, Deal(outcome),
         UNCHANGED <<now, losses, until>>,
         events' \in Seq(Event),
         outcome = "loss" => Contains(events', "loss") /\ Told(events', losses) = Told(events, losses) + 1,
         outcome = "win" => Told(events', losses) = 0
  PROVE  SmcInv'
<1>1. Told(events, losses) \in Nat /\ streak \in Nat /\ MaxConsecLoss \in Nat \ {0}
  BY ToldByMore, SmcAssumption DEF SmcInv, SmcTypes, Event
<1>2. SmcTypes'
  <2>1. deals' \in Seq(Deals)
    BY DealKept DEF SmcInv, Kinds
  <2>2. /\ streak' \in Nat /\ lastLoss' \in Nat /\ lastLoss' <= now /\ forgot' \in BOOLEAN
    <3>1. forgot' \in BOOLEAN
      BY DEF Deal
    <3>2. streak' \in Nat /\ lastLoss' \in Nat /\ lastLoss' <= now
      BY DEF Deal, SmcInv, SmcTypes
    <3>3. QED  BY <3>1, <3>2
  <2>3. QED  BY <2>1, <2>2 DEF SmcInv, SmcTypes
<1>3. CASE outcome = "loss"
  <2>1. streak' = streak + 1 /\ (forgot' => forgot) /\ (forgot => forgot') /\ losses' = losses
    BY <1>3 DEF Deal
  <2>2. ~forgot => Told(events, losses) >= streak \/ Told(events, losses) >= MaxConsecLoss
    BY DEF SmcInv, LossesTold, Enough, Cools
  <2>3. Told(events', losses') = Told(events, losses) + 1
    BY <1>3, <2>1
  <2>4. ~forgot' => Told(events', losses') >= streak' \/ Told(events', losses') >= MaxConsecLoss
    BY <1>1, <2>1, <2>2, <2>3
  <2>5. LossesTold'
    BY <2>4 DEF LossesTold, Enough, Cools
  <2>6. CoolingRuns'
    BY <1>3 DEF CoolingRuns
  <2>7. QED  BY <1>2, <2>5, <2>6 DEF SmcInv
<1>4. CASE outcome = "win"
  <2>1. streak' = 0 /\ Told(events', losses') = 0
    BY <1>4 DEF Deal
  <2>2. LossesTold'
    BY <2>1 DEF LossesTold, Enough
  <2>3. ~(0 >= MaxConsecLoss)
    BY <1>1
  <2>4. CoolingRuns'
    BY <2>1, <2>3 DEF CoolingRuns, Cools
  <2>5. QED  BY <1>2, <2>2, <2>4 DEF SmcInv
<1>5. QED  BY <1>3, <1>4

(* A deal that is none of the EA's results changes no count. *)
LEMMA OtherDeal ==
  ASSUME SmcInv, Deal("other")
  PROVE  UNCHANGED <<streak, lastLoss, forgot>> /\ deals' \in Seq(Deals)
<1>1. deals' \in Seq(Deals)
  BY DealKept DEF SmcInv, Kinds
<1>2. forgot' = forgot
  BY DEF Deal, SmcInv, SmcTypes
<1>3. QED  BY <1>1, <1>2 DEF Deal

(* An outcome joins a queue, behind which a tick may still come. *)
LEMMA OutcomeQueued ==
  ASSUME NEW q \in Seq(Event), NEW count \in Nat, NEW outcome \in {"loss", "win"}
  PROVE  /\ Append(q, outcome) \in Seq(Event)
         /\ outcome = "loss" => /\ Contains(Append(q, outcome), "loss")
                                /\ Told(Append(q, outcome), count) = Told(q, count) + 1
         /\ outcome = "win" => Told(Append(q, outcome), count) = 0
<1>1. outcome \in Event
  BY DEF Event
<1>2. /\ Len(Append(q, outcome)) = Len(q) + 1 /\ Len(q) \in Nat
      /\ Append(q, outcome)[Len(q) + 1] = outcome
  OBVIOUS
<1>3. Len(q) + 1 \in 1..Len(Append(q, outcome))
  BY <1>2
<1>4. outcome = "loss" => Contains(Append(q, outcome), "loss")
  BY <1>2, <1>3 DEF Contains
<1>5. QED  BY <1>1, <1>4, ToldByMore

(* A tick joins a queue unless there is one. *)
LEMMA ThenTick ==
  ASSUME NEW q \in Seq(Event), NEW count \in Nat
  PROVE  /\ Queued(q, "tick") \in Seq(Event)
         /\ Told(Queued(q, "tick"), count) = Told(q, count)
         /\ Contains(q, "loss") => Contains(Queued(q, "tick"), "loss")
<1>1. "tick" \in Event
  BY DEF Event
<1>2. CASE Queued(q, "tick") = q
  BY <1>2
<1>3. CASE Queued(q, "tick") = Append(q, "tick")
  <2>1. /\ Append(q, "tick") \in Seq(Event)
        /\ Told(Append(q, "tick"), count) = Told(q, count)
    BY <1>1, ToldByMore
  <2>2. Contains(q, "loss") => Contains(Append(q, "tick"), "loss")
    <3>1. /\ Len(Append(q, "tick")) = Len(q) + 1 /\ Len(q) \in Nat
          /\ \A n \in 1..Len(q) : Append(q, "tick")[n] = q[n]
      OBVIOUS
    <3>2. QED  BY <3>1 DEF Contains
  <2>3. QED  BY <1>3, <2>1, <2>2
<1>4. QED  BY <1>2, <1>3 DEF Queued

(* A result is a loss or a win. *)
LEMMA OutcomeOf ==
  ASSUME NEW result PROVE Outcome(result) \in {"loss", "win"}
BY DEF Outcome

(* The market, the clock and the buttons. *)
LEMMA PriceKeeps ==
  ASSUME SmcInv, NEW p \in Prices, PriceMoves(p)
  PROVE  SmcInv'
<1>1. events \in Seq(Event) /\ losses \in Nat
  BY DEF SmcInv, SmcTypes
<1>2. /\ events' \in Seq(Event)
      /\ Told(events', losses) = Told(events, losses)
      /\ Contains(events, "loss") => Contains(events', "loss")
  BY <1>1, ThenTick DEF PriceMoves
<1>3. /\ UNCHANGED <<streak, lastLoss, forgot, losses, until>>
      /\ now' \in Nat /\ now <= now' /\ deals' \in Seq(Deals)
  BY DEF PriceMoves, dealVars, lossVars, SmcInv, SmcTypes
<1>4. QED  BY <1>2, <1>3, QuietKeeps

(* A position the broker closes adds a deal and the event that tells it. *)
LEMMA BrokerKeeps ==
  ASSUME SmcInv, NEW p \in Prices, BrokerCloses(p)
  PROVE  SmcInv'
<1> DEFINE outcome == Outcome(Result(position, p, position.vol))
<1>1. outcome \in {"loss", "win"}
  BY OutcomeOf
<1>2. /\ Deal(outcome) /\ UNCHANGED <<now, losses, until>>
      /\ \/ events' = Queued(Queued(events, "tick"), outcome)
         \/ events' = Queued(Queued(events, outcome), "tick")
  BY DEF BrokerCloses, lossVars
<1> HIDE DEF outcome
<1>3. \A q : Queued(q, outcome) = Append(q, outcome)
  BY <1>1 DEF Queued
<1>4. events \in Seq(Event) /\ losses \in Nat
  BY DEF SmcInv, SmcTypes
<1>5. /\ events' \in Seq(Event)
      /\ outcome = "loss" => Contains(events', "loss") /\ Told(events', losses) = Told(events, losses) + 1
      /\ outcome = "win" => Told(events', losses) = 0
  <2>1. CASE events' = Queued(Queued(events, "tick"), outcome)
    <3> DEFINE q == Queued(events, "tick")
    <3>1. q \in Seq(Event) /\ Told(q, losses) = Told(events, losses)
      BY <1>4, ThenTick
    <3>2. events' = Append(q, outcome)
      BY <1>3, <2>1
    <3> HIDE DEF q
    <3>3. QED  BY <1>1, <1>4, <3>1, <3>2, OutcomeQueued
  <2>2. CASE events' = Queued(Queued(events, outcome), "tick")
    <3> DEFINE q == Append(events, outcome)
    <3>1. /\ q \in Seq(Event)
          /\ outcome = "loss" => Contains(q, "loss") /\ Told(q, losses) = Told(events, losses) + 1
          /\ outcome = "win" => Told(q, losses) = 0
      BY <1>1, <1>4, OutcomeQueued
    <3>2. events' = Queued(q, "tick")
      BY <1>3, <2>2
    <3> HIDE DEF q
    <3>3. QED  BY <1>4, <3>1, <3>2, ThenTick
  <2>3. QED  BY <1>2, <2>1, <2>2
<1>6. QED  BY <1>1, <1>2, <1>5, OwnDealKeeps

(* What leaves the queue alone and makes no deal of the EA's results. *)
LEMMA StillKeeps ==
  ASSUME SmcInv,
         UNCHANGED <<events, losses, until>>, now' \in Nat, now <= now',
         Deal("other") \/ UNCHANGED dealVars
  PROVE  SmcInv'
<1>1. UNCHANGED <<streak, lastLoss, forgot>> /\ deals' \in Seq(Deals)
  BY OtherDeal DEF dealVars, SmcInv, SmcTypes
<1>2. events' \in Seq(Event) /\ Told(events', losses) = Told(events, losses)
      /\ (Contains(events, "loss") => Contains(events', "loss"))
  BY DEF SmcInv, SmcTypes
<1>3. QED  BY <1>1, <1>2, QuietKeeps

(* So does a position closed by the button. *)
LEMMA ButtonCloseKeeps ==
  ASSUME SmcInv, ButtonClose
  PROVE  SmcInv'
<1>1. UNCHANGED <<now, losses, until>> /\ now \in Nat
  BY DEF ButtonClose, lossVars, SmcInv, SmcTypes
<1>2. CASE UNCHANGED <<dealVars, position, events, daily>>
  BY <1>1, <1>2, StillKeeps
<1>3. CASE ~UNCHANGED <<dealVars, position, events, daily>>
  <2> DEFINE outcome == Outcome(Result(position, price, position.vol))
  <2>1. outcome \in {"loss", "win"}
    BY OutcomeOf
  <2>2. Deal(outcome) /\ events' = Append(events, outcome)
    BY <1>3 DEF ButtonClose
  <2> HIDE DEF outcome
  <2>3. events \in Seq(Event) /\ losses \in Nat
    BY DEF SmcInv, SmcTypes
  <2>4. /\ events' \in Seq(Event)
        /\ outcome = "loss" => Contains(events', "loss") /\ Told(events', losses) = Told(events, losses) + 1
        /\ outcome = "win" => Told(events', losses) = 0
    BY <2>1, <2>2, <2>3, OutcomeQueued
  <2>5. QED  BY <1>1, <2>1, <2>2, <2>4, OwnDealKeeps
<1>4. QED  BY <1>2, <1>3

(* A tick that is handled told nothing. *)
LEMMA TickServed ==
  ASSUME SmcInv, Handles("tick")
  PROVE  /\ Tail(events) \in Seq(Event)
         /\ Told(Tail(events), losses) = Told(events, losses)
         /\ Contains(events, "loss") => Contains(Tail(events), "loss")
<1>1. events \in Seq(Event) /\ losses \in Nat /\ events # <<>> /\ Head(events) = "tick"
  BY DEF SmcInv, SmcTypes, Handles
<1>2. Tail(events) \in Seq(Event) /\ Told(Tail(events), Counts("tick", losses)) = Told(events, losses)
  BY <1>1, ToldByRest
<1>3. Counts("tick", losses) = losses
  BY DEF Counts
<1>4. ASSUME NEW n \in 1..Len(events), events[n] = "loss" PROVE Contains(Tail(events), "loss")
  <2>1. /\ Len(events) \in Nat /\ Len(Tail(events)) = Len(events) - 1
        /\ \A i \in 1..Len(events) - 1 : Tail(events)[i] = events[i + 1]
        /\ events[1] = "tick"
    BY <1>1
  <2>2. n # 1
    BY <1>4, <2>1
  <2>3. n - 1 \in 1..Len(events) - 1 /\ (n - 1) + 1 = n
    BY <2>1, <2>2
  <2>4. Tail(events)[n - 1] = "loss" /\ n - 1 \in 1..Len(Tail(events))
    BY <1>4, <2>1, <2>3
  <2>5. QED  BY <2>4 DEF Contains
<1>5. Contains(events, "loss") => Contains(Tail(events), "loss")
  BY <1>4 DEF Contains
<1>6. QED  BY <1>2, <1>3, <1>5

(* A tick that manages the open position keeps the invariant. *)
LEMMA ManagingKeeps ==
  ASSUME SmcInv, OnTickManaging
  PROVE  SmcInv'
<1> DEFINE rest == Tail(events)
<1>1. /\ rest \in Seq(Event) /\ Told(rest, losses) = Told(events, losses)
      /\ Contains(events, "loss") => Contains(rest, "loss")
  BY TickServed DEF OnTickManaging
<1>2. UNCHANGED <<now, losses, until>> /\ now \in Nat /\ losses \in Nat
      /\ deals \in Seq(Deals)
  BY DEF OnTickManaging, lossVars, SmcInv, SmcTypes
<1>3. PICK m \in Managed(position) :
        IF m.closed = 0
        THEN UNCHANGED dealVars /\ events' = rest
        ELSE /\ Deal(Outcome(Result(position, price, m.closed)))
             /\ events' = Append(rest, Outcome(Result(position, price, m.closed)))
  BY DEF OnTickManaging
<1> HIDE DEF rest
<1>4. CASE m.closed = 0
  <2>1. UNCHANGED <<streak, lastLoss, forgot, deals>> /\ events' = rest
    BY <1>3, <1>4 DEF dealVars
  <2>2. now' \in Nat /\ now <= now'
    BY <1>2
  <2>3. QED  BY <1>1, <1>2, <2>1, <2>2, QuietKeeps
<1>5. CASE m.closed # 0
  <2> DEFINE outcome == Outcome(Result(position, price, m.closed))
  <2>1. outcome \in {"loss", "win"}
    BY OutcomeOf
  <2>2. Deal(outcome) /\ events' = Append(rest, outcome)
    BY <1>3, <1>5
  <2> HIDE DEF outcome
  <2>3. /\ events' \in Seq(Event)
        /\ outcome = "loss" => Contains(events', "loss") /\ Told(events', losses) = Told(events, losses) + 1
        /\ outcome = "win" => Told(events', losses) = 0
    BY <1>1, <1>2, <2>1, <2>2, OutcomeQueued
  <2>4. QED  BY <1>2, <2>1, <2>2, <2>3, OwnDealKeeps
<1>6. QED  BY <1>4, <1>5

(* A tick without a position, with the entry it may make, keeps it. *)
LEMMA IdleKeeps ==
  ASSUME SmcInv, OnTickIdle
  PROVE  SmcInv'
<1>1. /\ events' = Tail(events) /\ Handles("tick")
      /\ UNCHANGED <<now, losses, until, deals, streak, lastLoss, forgot>>
  BY DEF OnTickIdle, lossVars, dealVars
<1>2. now' \in Nat /\ now <= now' /\ deals' \in Seq(Deals)
  BY <1>1 DEF SmcInv, SmcTypes
<1>3. QED  BY <1>1, <1>2, TickServed, QuietKeeps

(* An entry is a deal, but none that counts. *)
LEMMA EntryKeeps ==
  ASSUME SmcInv, NEW dir \in Sides, OnTickEntry(dir)
  PROVE  SmcInv'
<1>1. events' = Tail(events) /\ Handles("tick") /\ UNCHANGED <<now, losses, until>>
  BY DEF OnTickEntry, lossVars
<1>2. Deal("other") \/ UNCHANGED dealVars
  BY DEF OnTickEntry, EntryRefused, EntryFilled
<1>3. UNCHANGED <<streak, lastLoss, forgot>> /\ deals' \in Seq(Deals)
  BY <1>2, OtherDeal DEF dealVars, SmcInv, SmcTypes
<1>4. now' \in Nat /\ now <= now'
  BY <1>1 DEF SmcInv, SmcTypes
<1>5. QED  BY <1>1, <1>3, <1>4, TickServed, QuietKeeps

(* An entry by the button keeps it. *)
LEMMA ButtonEntryKeeps ==
  ASSUME SmcInv, NEW dir \in Sides, ButtonEntry(dir)
  PROVE  SmcInv'
<1>1. UNCHANGED <<events, now, losses, until>> /\ now' \in Nat /\ now <= now'
  BY DEF ButtonEntry, lossVars, SmcInv, SmcTypes
<1>2. Deal("other") \/ UNCHANGED dealVars
  BY DEF ButtonEntry, EntryRefused, EntryFilled
<1>3. QED  BY <1>1, <1>2, StillKeeps

(* The EA hears of its losses. *)
LEMMA OnLossKeeps ==
  ASSUME SmcInv, OnLoss
  PROVE  SmcInv'
<1> DEFINE rest == Tail(events)
<1>1. /\ events \in Seq(Event) /\ events # <<>> /\ Head(events) = "loss"
      /\ losses \in Nat /\ now \in Nat /\ lastLoss \in Nat /\ lastLoss <= now /\ streak \in Nat
      /\ until \in Nat /\ MaxConsecLoss \in Nat \ {0} /\ Cooldown \in Nat
  BY SmcAssumption DEF OnLoss, Handles, SmcInv, SmcTypes
<1>2. rest \in Seq(Event) /\ Told(rest, losses + 1) = Told(events, losses)
  <2>1. Counts("loss", losses) = losses + 1
    BY DEF Counts
  <2>2. QED  BY <1>1, <2>1, ToldByRest
<1>3. /\ events' = rest /\ losses' = losses + 1
      /\ until' = IF Cools(losses + 1) THEN now + Cooldown ELSE until
      /\ UNCHANGED <<now, deals, streak, lastLoss, forgot>>
  BY DEF OnLoss, dealVars
<1> HIDE DEF rest
<1>4. SmcTypes'
  BY <1>1, <1>2, <1>3 DEF SmcInv, SmcTypes
<1>5. LossesTold'
  BY <1>2, <1>3 DEF SmcInv, LossesTold, Enough, Cools
<1>6. ASSUME ~forgot', Cools(streak)', ~Contains(events, "loss")'
      PROVE  until' >= lastLoss' + Cooldown
  <2>1. Told(rest, losses + 1) = 0 \/ Told(rest, losses + 1) = losses + 1
    BY <1>1, <1>2, <1>3, <1>6, ToldAll
  <2>2. Told(rest, losses + 1) >= streak \/ Told(rest, losses + 1) >= MaxConsecLoss
    BY <1>3, <1>5, <1>6 DEF LossesTold, Enough, Cools
  <2>3. streak >= MaxConsecLoss
    BY <1>3, <1>6 DEF Cools
  <2>4. losses + 1 >= MaxConsecLoss
    BY <1>1, <2>1, <2>2, <2>3
  <2>5. until' = now + Cooldown
    BY <1>3, <2>4 DEF Cools
  <2>6. QED  BY <1>1, <1>3, <2>5
<1>7. CoolingRuns'
  BY <1>6 DEF CoolingRuns
<1>8. QED  BY <1>4, <1>5, <1>7 DEF SmcInv

(* It hears of a win, which forgives what was before. *)
LEMMA OnWinKeeps ==
  ASSUME SmcInv, OnWin
  PROVE  SmcInv'
<1> DEFINE rest == Tail(events)
<1>1. /\ events \in Seq(Event) /\ events # <<>> /\ Head(events) = "win"
      /\ losses \in Nat /\ streak \in Nat /\ MaxConsecLoss \in Nat \ {0}
  BY SmcAssumption DEF OnWin, Handles, SmcInv, SmcTypes
<1>2. rest \in Seq(Event) /\ Told(rest, 0) = Told(events, losses)
  <2>1. Counts("win", losses) = 0
    BY DEF Counts
  <2>2. QED  BY <1>1, <2>1, ToldByRest
<1>3. events' = rest /\ losses' = 0 /\ until' = 0 /\ UNCHANGED <<now, deals, streak, lastLoss, forgot>>
  BY DEF OnWin, dealVars
<1> HIDE DEF rest
<1>4. SmcTypes'
  BY <1>1, <1>2, <1>3 DEF SmcInv, SmcTypes
<1>5. LossesTold'
  BY <1>2, <1>3 DEF SmcInv, LossesTold, Enough, Cools
<1>6. ASSUME ~forgot', Cools(streak)', ~Contains(events, "loss")'
      PROVE  FALSE
  <2>1. Told(rest, 0) = 0
    BY <1>1, <1>2, <1>3, <1>6, ToldAll
  <2>2. 0 >= streak \/ 0 >= MaxConsecLoss
    BY <1>3, <1>5, <1>6, <2>1 DEF LossesTold, Enough, Cools
  <2>3. streak >= MaxConsecLoss
    BY <1>3, <1>6 DEF Cools
  <2>4. QED  BY <1>1, <2>2, <2>3
<1>7. CoolingRuns'
  BY <1>6 DEF CoolingRuns
<1>8. QED  BY <1>4, <1>5, <1>7 DEF SmcInv

(* A deal that is passed over is missed, or does not count any more. *)
LEMMA OnUnreadKeeps ==
  ASSUME SmcInv, OnUnread
  PROVE  SmcInv'
<1> DEFINE rest == Tail(events)
<1>1. /\ events \in Seq(Event) /\ events # <<>> /\ losses \in Nat /\ streak \in Nat
      /\ forgot \in BOOLEAN /\ MaxConsecLoss \in Nat \ {0}
  BY SmcAssumption DEF OnUnread, Handles, SmcInv, SmcTypes
<1>2. /\ events' = rest /\ UNCHANGED <<now, deals, streak, lastLoss, losses, until>>
      /\ Head(events) \in {"loss", "win"}
      /\ forgot' = (forgot \/ (Head(events) = "loss" /\ streak > 0))
  BY <1>1 DEF OnUnread, Handles, lossVars
<1>3. rest \in Seq(Event) /\ Told(rest, Counts(Head(events), losses)) = Told(events, losses)
  BY <1>1, ToldByRest
<1>4. Told(rest, losses) \in Nat
  <2>1. IsFiniteSet(PendingIn(rest)) /\ Cardinality(PendingIn(rest)) \in Nat
    BY <1>3, PendingCount
  <2>2. QED  BY <1>1, <2>1 DEF Told
<1> HIDE DEF rest
<1>5. forgot' \in BOOLEAN
  BY <1>2
<1>6. SmcTypes'
  BY <1>2, <1>3, <1>5 DEF SmcInv, SmcTypes
<1>7. CASE Head(events) = "loss"
  <2>1. ~forgot' => streak = 0
    <3>1. ~forgot' => ~(streak > 0)
      BY <1>2, <1>7
    <3>2. ~(streak > 0) => streak = 0
      BY <1>1
    <3>3. QED  BY <3>1, <3>2
  <2>2. LossesTold'
    BY <1>1, <1>2, <1>4, <2>1 DEF LossesTold, Enough
  <2>3. CoolingRuns'
    BY <1>1, <1>2, <2>1 DEF CoolingRuns, Cools
  <2>4. QED  BY <1>6, <2>2, <2>3 DEF SmcInv
<1>8. CASE Head(events) = "win"
  <2>1. forgot' = forgot
    BY <1>1, <1>2, <1>8
  <2>2. Told(rest, 0) = Told(events, losses)
    BY <1>3, <1>8 DEF Counts
  <2>3. Told(rest, losses) >= Told(rest, 0)
    <3>1. Cardinality(PendingIn(rest)) \in Nat
      BY <1>3, PendingCount
    <3>2. QED  BY <1>1, <3>1 DEF Told
  <2>4. Told(events, losses) \in Nat
    <3>1. Cardinality(PendingIn(events)) \in Nat
      BY <1>1, PendingCount
    <3>2. QED  BY <1>1, <3>1 DEF Told
  <2>5. LossesTold'
    BY <1>1, <1>2, <1>4, <2>1, <2>2, <2>3, <2>4 DEF SmcInv, LossesTold, Enough, Cools
  <2>6. Contains(events, "loss") => Contains(rest, "loss")
    <3>1. ASSUME NEW n \in 1..Len(events), events[n] = "loss" PROVE Contains(rest, "loss")
      <4>1. /\ Len(events) \in Nat /\ Len(rest) = Len(events) - 1
            /\ \A i \in 1..Len(events) - 1 : rest[i] = events[i + 1]
            /\ events[1] = "win"
        BY <1>1, <1>8 DEF rest
      <4>2. n # 1
        BY <3>1, <4>1
      <4>3. n - 1 \in 1..Len(events) - 1 /\ (n - 1) + 1 = n
        BY <4>1, <4>2
      <4>4. rest[n - 1] = "loss" /\ n - 1 \in 1..Len(rest)
        BY <3>1, <4>1, <4>3
      <4>5. QED  BY <4>4 DEF Contains
    <3>2. QED  BY <3>1 DEF Contains
  <2>7. CoolingRuns'
    BY <1>2, <2>1, <2>6 DEF SmcInv, CoolingRuns, Cools
  <2>8. QED  BY <1>6, <2>5, <2>7 DEF SmcInv
<1>9. QED  BY <1>2, <1>7, <1>8

(* A restart counts anew what it is handed out, and begins to cool anew. *)
LEMMA RestartKeeps ==
  ASSUME SmcInv, Restart
  PROVE  SmcInv'
<1>1. PICK known \in SUBSET DOMAIN deals :
        /\ losses' = TrailingLosses(known)
        /\ until' = IF Cools(TrailingLosses(known)) THEN now + Cooldown ELSE 0
        /\ forgot' = (forgot \/ LossesInSight(known) < Min({streak, MaxConsecLoss}))
  BY DEF Restart
<1>2. events' = <<>> /\ UNCHANGED <<now, deals, streak, lastLoss>>
  BY DEF Restart
<1>3. TrailingLosses(known) = LossesInSight(known) /\ TrailingLosses(known) \in Nat
  BY TrailingInSight DEF SmcInv
<1>4. /\ now \in Nat /\ lastLoss \in Nat /\ lastLoss <= now /\ streak \in Nat
      /\ MaxConsecLoss \in Nat \ {0} /\ Cooldown \in Nat
  BY SmcAssumption DEF SmcInv, SmcTypes
<1>5. SmcTypes'
  <2>1. until' \in Nat /\ forgot' \in BOOLEAN
    BY <1>1, <1>4 DEF SmcInv, SmcTypes
  <2>2. events' \in Seq(Event)
    BY <1>2
  <2>3. QED  BY <1>1, <1>2, <1>3, <2>1, <2>2 DEF SmcInv, SmcTypes
<1>6. Told(events', losses') = losses'
  BY <1>1, <1>2, <1>3, ToldNothing
<1>7. ~forgot' => losses' >= streak \/ losses' >= MaxConsecLoss
  BY <1>1, <1>3, <1>4, MinOfTwo
<1>8. LossesTold'
  BY <1>2, <1>6, <1>7 DEF LossesTold, Enough, Cools
<1>9. ASSUME ~forgot', Cools(streak)' PROVE until' >= lastLoss' + Cooldown
  <2>1. losses' >= MaxConsecLoss
    BY <1>1, <1>2, <1>3, <1>4, <1>7, <1>9 DEF Cools
  <2>2. until' = now + Cooldown
    BY <1>1, <2>1 DEF Cools
  <2>3. QED  BY <1>2, <1>4, <2>2
<1>10. CoolingRuns'
  BY <1>9 DEF CoolingRuns
<1>11. QED  BY <1>5, <1>8, <1>10 DEF SmcInv

-----------------------------------------------------------------------------
(* The invariant holds in every reachable state. *)
THEOREM SmcInvariance == SmcSpec => []SmcInv
<1>1. ASSUME SmcInit PROVE SmcInv
  <2>1. /\ events = <<>> /\ losses = 0 /\ streak = 0 /\ until = 0 /\ now = 0 /\ lastLoss = 0
        /\ forgot = FALSE /\ deals = <<>> /\ MaxConsecLoss \in Nat \ {0}
    BY <1>1, SmcAssumption DEF SmcInit
  <2>2. SmcTypes
    <3>1. <<>> \in Seq(Event) /\ <<>> \in Seq(Deals)
      OBVIOUS
    <3>2. forgot \in BOOLEAN
      BY <2>1
    <3>3. now \in Nat /\ lastLoss \in Nat /\ lastLoss <= now /\ losses \in Nat /\ streak \in Nat
          /\ until \in Nat
      BY <2>1
    <3>4. events \in Seq(Event) /\ deals \in Seq(Deals)
      BY <2>1, <3>1
    <3>5. QED  BY <3>2, <3>3, <3>4 DEF SmcTypes
  <2>3. Told(events, losses) \in Nat
    BY <2>1, <2>2, ToldByMore DEF SmcTypes, Event
  <2>4. LossesTold
    BY <2>1, <2>3 DEF LossesTold, Enough
  <2>5. CoolingRuns
    BY <2>1 DEF CoolingRuns, Cools
  <2>6. QED  BY <2>2, <2>4, <2>5 DEF SmcInv
<1>2. ASSUME SmcInv, [SmcNext]_smcVars PROVE SmcInv'
  <2>1. ASSUME NEW p \in Prices, PriceMoves(p) PROVE SmcInv'
    BY <1>2, <2>1, PriceKeeps
  <2>2. ASSUME NEW p \in Prices, BrokerCloses(p) PROVE SmcInv'
    BY <1>2, <2>2, BrokerKeeps
  <2>3. CASE OthersDeal \/ TimePasses \/ ButtonMode \/ UNCHANGED smcVars
    <3>1. /\ UNCHANGED <<events, losses, until>>
          /\ now' = now \/ now' = now + 1
          /\ Deal("other") \/ UNCHANGED dealVars
      BY <2>3 DEF OthersDeal, TimePasses, ButtonMode, smcVars, lossVars, dealVars
    <3>2. now' \in Nat /\ now <= now'
      BY <1>2, <3>1 DEF SmcInv, SmcTypes
    <3>3. QED  BY <1>2, <3>1, <3>2, StillKeeps
  <2>4. CASE Restart
    BY <1>2, <2>4, RestartKeeps
  <2>5. CASE OnLoss
    BY <1>2, <2>5, OnLossKeeps
  <2>6. CASE OnWin
    BY <1>2, <2>6, OnWinKeeps
  <2>7. CASE OnTickManaging
    BY <1>2, <2>7, ManagingKeeps
  <2>8. CASE OnTickIdle
    BY <1>2, <2>8, IdleKeeps
  <2>9. ASSUME NEW dir \in Sides, OnTickEntry(dir) PROVE SmcInv'
    BY <1>2, <2>9, EntryKeeps
  <2>10. ASSUME NEW dir \in Sides, ButtonEntry(dir) PROVE SmcInv'
    BY <1>2, <2>10, ButtonEntryKeeps
  <2>11. CASE ButtonClose
    BY <1>2, <2>11, ButtonCloseKeeps
  <2>12. CASE OnUnread
    BY <1>2, <2>12, OnUnreadKeeps
  <2>13. QED
    BY <1>2, <2>1, <2>2, <2>3, <2>4, <2>5, <2>6, <2>7, <2>8, <2>9, <2>10, <2>11, <2>12 DEF SmcNext
<1>3. QED  BY <1>1, <1>2, PTL DEF SmcSpec

(* Only a tick's handler enters automatically. *)
LEMMA AutomaticIsEntry ==
  ASSUME [SmcNext]_smcVars, Automatic
  PROVE  \E dir \in Sides : OnTickEntry(dir)
<1>1. entries' # entries /\ events' # events
  BY DEF Automatic
<1>2. ASSUME NEW p \in Prices, PriceMoves(p) \/ BrokerCloses(p) PROVE FALSE
  BY <1>1, <1>2 DEF PriceMoves, BrokerCloses
<1>3. CASE OthersDeal \/ TimePasses \/ Restart \/ OnLoss \/ OnWin \/ OnUnread
  BY <1>1, <1>3 DEF OthersDeal, TimePasses, Restart, OnLoss, OnWin, OnUnread
<1>4. CASE OnTickManaging \/ OnTickIdle \/ ButtonMode \/ ButtonClose
  BY <1>1, <1>4 DEF OnTickManaging, OnTickIdle, ButtonMode, ButtonClose
<1>5. ASSUME NEW dir \in Sides, ButtonEntry(dir) PROVE FALSE
  BY <1>1, <1>5 DEF ButtonEntry
<1>6. CASE UNCHANGED smcVars
  BY <1>1, <1>6 DEF smcVars
<1>7. QED  BY <1>2, <1>3, <1>4, <1>5, <1>6 DEF SmcNext

(* After MaxConsecLoss losses in a row nothing is entered automatically for the
   time of the cooldown, in whatever order results and ticks are handled and
   whatever restarts count the losses anew, unless a loss waits in the queue,
   was not handed out by the terminal, or was out of a restart's sight. *)
THEOREM CooldownKept == SmcSpec => CooldownHolds
<1> DEFINE Holds == Automatic /\ Cools(streak) /\ now < lastLoss + Cooldown /\ ~forgot
                      => Contains(events, "loss")
<1>1. SmcInv /\ [SmcNext]_smcVars => [Holds]_smcVars
  <2> SUFFICES ASSUME SmcInv, [SmcNext]_smcVars, Automatic, Cools(streak),
                      now < lastLoss + Cooldown, ~forgot, ~Contains(events, "loss")
               PROVE  FALSE
    OBVIOUS
  <2>1. PICK dir \in Sides : OnTickEntry(dir)
    BY AutomaticIsEntry
  <2>2. now >= until
    BY <2>1 DEF OnTickEntry, SafetyOK
  <2>3. until >= lastLoss + Cooldown
    BY DEF SmcInv, CoolingRuns
  <2>4. now \in Nat /\ until \in Nat /\ lastLoss \in Nat /\ Cooldown \in Nat
    BY SmcAssumption DEF SmcInv, SmcTypes
  <2>5. QED  BY <2>2, <2>3, <2>4
<1>2. QED  BY <1>1, SmcInvariance, PTL DEF SmcSpec, CooldownHolds

(* An automatic entry has the stop of a setup built at its own price, whatever
   was refused or left over before. *)
THEOREM EntriesFresh == SmcSpec => AutomaticEntryIsFresh
<1> DEFINE Fresh == Automatic => \E distance \in Distances :
                                   position'.dir * (price - position'.sl) = distance
<1>1. [SmcNext]_smcVars => [Fresh]_smcVars
  <2> SUFFICES ASSUME [SmcNext]_smcVars, Automatic
               PROVE  \E distance \in Distances :
                        position'.dir * (price - position'.sl) = distance
    OBVIOUS
  <2>1. PICK dir \in Sides : OnTickEntry(dir)
    BY AutomaticIsEntry
  <2>2. PICK s \in BuiltSetups(dir) : EntryFilled(s)
    <3>1. entries' # entries
      BY DEF Automatic
    <3>2. QED  BY <2>1, <3>1 DEF OnTickEntry, M1Setups
  <2>3. price \in SetupPrices
    BY <2>2 DEF BuiltSetups
  <2>4. PICK distance \in Distances :
          s = [dir |-> dir, sl |-> price - dir * distance, tp |-> price + dir * distance]
    BY <2>2, <2>3 DEF BuiltSetups
  <2>5. position'.dir = dir /\ position'.sl = price - dir * distance
    <3>1. position'.dir = s.dir /\ position'.sl = s.sl
      BY <2>2 DEF EntryFilled
    <3>2. QED  BY <2>4, <3>1
  <2>6. price \in Int /\ distance \in Int /\ dir \in {1, -1}
    BY <2>3, SmcAssumption
  <2>7. dir * (price - (price - dir * distance)) = distance
    <3>1. CASE dir = 1
      BY <2>6, <3>1
    <3>2. CASE dir = -1
      BY <2>6, <3>2
    <3>3. QED  BY <2>6, <3>1, <3>2
  <2>8. position'.dir * (price - position'.sl) = distance
    BY <2>5, <2>7
  <2>9. QED  BY <2>8
<1>2. QED  BY <1>1, PTL DEF SmcSpec, AutomaticEntryIsFresh

-----------------------------------------------------------------------------
(* bridge_ea: the watchdog counts no more silence than the brain's own and the
   gap in the quotes at its last line.  The clock is behind by lag, so the count
   is short of the truth by as much: that is what a step keeps. *)
USE LimitsAssumption

CountIsShort ==
  link \in {"live", "stale"} /\ ~inbox => mute = SilenceCap \/ silence + lag <= mute + quiet

Inv == TypeOK /\ SilenceIsHonest /\ CountIsShort

(* An age grows, at most to its cap. *)
LEMMA OlderType ==
  ASSUME NEW cap \in Nat, NEW a \in 0..cap, NEW dt \in Nat
  PROVE  Older(a, dt, cap) \in 0..cap /\ Older(a, dt, cap) <= a + dt
  BY DEF Older

(* The clock catches up by what it was behind, or stays a second further
   behind. *)
LEMMA PassedType ==
  ASSUME NEW quote \in BOOLEAN, lag \in 0..MaxQuiet, quote \/ lag < MaxQuiet
  PROVE  /\ Passed(quote) \in Nat
         /\ Behind(quote) \in 0..MaxQuiet
         /\ Passed(quote) + Behind(quote) = lag + 1
  BY DEF Passed, Behind

(* While the connection lives or is stale, the count stays short of the truth
   over a second in which nothing was read. *)
LEMMA CountStaysShort ==
  ASSUME Inv, NEW quote \in BOOLEAN, quote \/ lag < MaxQuiet,
         link \in {"live", "stale"}, ~inbox
  PROVE  \/ Older(mute, 1, SilenceCap) = SilenceCap
         \/ Older(silence, Passed(quote), SilenceCap) + Behind(quote)
              <= Older(mute, 1, SilenceCap) + quiet
<1>1. SilenceCap \in Nat /\ silence \in 0..SilenceCap /\ mute \in 0..SilenceCap
  BY DEF Inv, TypeOK, SilenceCap
<1>2. /\ Passed(quote) \in Nat /\ Behind(quote) \in 0..MaxQuiet /\ lag \in 0..MaxQuiet
      /\ Passed(quote) + Behind(quote) = lag + 1
  BY PassedType DEF Inv, TypeOK
<1>3. mute = SilenceCap \/ silence + lag <= mute + quiet
  BY DEF Inv, CountIsShort
<1>4. quiet \in 0..MaxQuiet
  BY DEF Inv, TypeOK
<1>5. Older(silence, Passed(quote), SilenceCap) <= silence + Passed(quote)
  BY <1>1, <1>2, OlderType
<1>6. Older(silence, Passed(quote), SilenceCap) \in 0..SilenceCap
  BY <1>1, <1>2, OlderType
<1>7. Older(mute, 1, SilenceCap) = IF mute + 1 < SilenceCap THEN mute + 1 ELSE SilenceCap
  BY DEF Older
<1>8. QED
  BY <1>1, <1>2, <1>3, <1>4, <1>5, <1>6, <1>7

(* An age that is short of the truth is no longer than it. *)
LEMMA ShortIsHonest ==
  ASSUME NEW cap \in Nat, NEW s \in 0..cap, NEW m \in 0..cap, NEW l \in Nat, NEW q \in Nat,
         m = cap \/ s + l <= m + q
  PROVE  s <= m + q
  OBVIOUS

(* What is no less than an age over a limit is over the limit. *)
LEMMA Exceeds ==
  ASSUME NEW s \in Nat, NEW m \in Nat, NEW q \in Nat, NEW f \in Nat, s > f, s <= m + q
  PROVE  m + q > f
  OBVIOUS

(* A step of OnTimer keeps the types and the honesty of the count. *)
LEMMA TimerKeeps ==
  ASSUME Inv, NEW quote \in BOOLEAN, OnTimer(quote)
  PROVE  Inv'
<1> DEFINE S == Older(silence, Passed(quote), SilenceCap)
           M == Older(mute, 1, SilenceCap)
           B == Behind(quote)
<1> USE DEF Inv, TypeOK
<1>0. SilenceCap \in Nat
  BY DEF SilenceCap
<1>1. /\ quote \/ lag < MaxQuiet
      /\ lag' = B /\ mute' = M /\ UNCHANGED <<brain, restarts>>
  BY DEF OnTimer
<1>2. Passed(quote) \in Nat /\ B \in 0..MaxQuiet
  BY <1>1, PassedType
<1>3. /\ S \in 0..SilenceCap /\ M \in 0..SilenceCap
      /\ Older(sinceAttempt, Passed(quote), ReconnectSeconds) \in 0..ReconnectSeconds
      /\ Older(sincePush, Passed(quote), PushSeconds) \in 0..PushSeconds
  BY <1>0, <1>2, OlderType
<1>4. link \in {"live", "stale"} /\ ~inbox => M = SilenceCap \/ S + B <= M + quiet
  BY <1>1, CountStaysShort
<1> HIDE DEF S, M, B
<1>5. CASE OnTimerOffline(quote)
  <2>1. /\ \/ link' = "none" /\ silence' = S /\ quiet' = quiet
           \/ link' = "live" /\ silence' = 0 /\ quiet' = B /\ brain # "down"
        /\ sinceAttempt' \in 0..ReconnectSeconds
        /\ sincePush' \in 0..PushSeconds
        /\ refusals' \in 0..MaxRefusals
    BY <1>3, <1>5 DEF OnTimerOffline, ConnectBrain, ConnectFails, S, B
  <2>2. UNCHANGED <<inbox, positions>> /\ link = "none"
    BY <1>5 DEF OnTimerOffline
  <2>3. TypeOK'
    <3>1. silence' \in 0..SilenceCap /\ mute' \in 0..SilenceCap
      BY <1>0, <1>1, <1>3, <2>1
    <3>2. lag' \in 0..MaxQuiet /\ quiet' \in 0..MaxQuiet
      BY <1>1, <1>2, <2>1
    <3>3. QED
      BY <1>1, <2>1, <2>2, <3>1, <3>2 DEF SilenceCap
  <2>4. CountIsShort'
    <3>1. link' \in {"live", "stale"} => silence' = 0 /\ quiet' = B
      BY <2>1
    <3>2. QED
      BY <1>1, <1>2, <1>3, <3>1 DEF CountIsShort
  <2>5. SilenceIsHonest'
    BY <1>0, <1>1, <1>2, <1>3, <2>1 DEF SilenceIsHonest
  <2>6. QED
    BY <2>3, <2>4, <2>5
<1>6. CASE OnTimerOnline(quote)
  <2>1. /\ inbox' = FALSE
        /\ silence' = IF inbox THEN 0 ELSE S
        /\ quiet' = IF inbox THEN B ELSE quiet
        /\ sinceAttempt' \in 0..ReconnectSeconds
        /\ sincePush' \in 0..PushSeconds
    BY <1>3, <1>6 DEF OnTimerOnline, HeardAge, S, B
  <2>2. /\ link' \in {"none", "live", "stale", "reset"}
        /\ link' = "live" => link = "live"
        /\ link' = "stale" => link = "stale"
    BY <1>6 DEF OnTimerOnline, SendLine
  <2>3. positions' \subseteq Own \cup Foreign /\ refusals' \in 0..MaxRefusals
    <3>1. PICK held \in Drained :
            IF SilentTooLong(quote)
            THEN FlattenAll(held)
            ELSE positions' = held /\ UNCHANGED refusals
      BY <1>6 DEF OnTimerOnline
    <3>2. held \subseteq Own \cup Foreign
      BY <3>1 DEF Drained
    <3>3. QED
      BY <3>1, <3>2 DEF FlattenAll
  <2>4. silence' \in 0..SilenceCap /\ mute' \in 0..SilenceCap
    BY <1>0, <1>1, <1>3, <2>1
  <2>5. lag' \in 0..MaxQuiet /\ quiet' \in 0..MaxQuiet
    BY <1>1, <1>2, <2>1
  <2>6. TypeOK'
    <3>1. inbox' \in BOOLEAN /\ ~inbox'
      BY <2>1
    <3>2. QED
      BY <1>1, <2>1, <2>2, <2>3, <2>4, <2>5, <3>1 DEF SilenceCap
  <2>7. link' \in {"live", "stale"} => mute' = SilenceCap \/ silence' + lag' <= mute' + quiet'
    <3>1. CASE inbox
      BY <1>1, <1>2, <1>3, <2>1, <3>1
    <3>2. CASE ~inbox
      BY <1>1, <1>4, <2>1, <2>2, <3>2
    <3>3. QED
      BY <3>1, <3>2
  <2>8. CountIsShort'
    BY <2>7 DEF CountIsShort, SilenceCap
  <2>9. SilenceIsHonest'
    <3>1. link' \in {"live", "stale"} => silence' <= mute' + quiet'
      <4>1. lag' \in Nat /\ quiet' \in Nat
        BY <2>5
      <4>2. silence' \in 0..SilenceCap /\ mute' \in 0..SilenceCap
        BY <2>4
      <4>3. QED
        BY <1>0, <2>7, <4>1, <4>2, ShortIsHonest
    <3>2. link' = "live" => brain' # "down"
      BY <1>1, <2>2 DEF SilenceIsHonest
    <3>3. QED
      BY <3>1, <3>2 DEF SilenceIsHonest
  <2>10. QED
    BY <2>6, <2>8, <2>9
<1>7. QED
  BY <1>5, <1>6 DEF OnTimer

(* Every other step of the brain, the broker and the EA keeps them too. *)
LEMMA OthersKeep ==
  ASSUME Inv, BrainSends \/ BrainChanges \/ OthersTrade \/ OnTick \/ OnInit \/ UNCHANGED vars
  PROVE  Inv'
<1> USE DEF Inv, TypeOK, SilenceIsHonest, CountIsShort
<1>0. SilenceCap \in Nat
  BY DEF SilenceCap
<1>1. CASE BrainSends
  BY <1>0, <1>1 DEF BrainSends, clockVars
<1>2. CASE BrainChanges
  BY <1>0, <1>2 DEF BrainChanges, clockVars, SilenceCap
<1>3. CASE OthersTrade
  BY <1>0, <1>3 DEF OthersTrade, clockVars, SilenceCap
<1>4. CASE OnTick
  BY <1>0, <1>4 DEF OnTick, SendLine, clockVars, SilenceCap
<1>5. CASE OnInit
  <2>1. /\ \/ link' = "none" /\ silence' \in 0..SilenceCap /\ quiet' = quiet
           \/ link' = "live" /\ silence' = 0 /\ quiet' = lag /\ brain # "down"
        /\ sinceAttempt' \in 0..ReconnectSeconds
        /\ sincePush' \in 0..PushSeconds
        /\ restarts' \in 0..MaxRestarts
        /\ refusals' \in 0..MaxRefusals
        /\ inbox' = FALSE
        /\ UNCHANGED <<brain, lag, positions, mute>>
    BY <1>0, <1>5 DEF OnInit, ConnectBrain, ConnectFails
  <2>2. TypeOK'
    <3>1. inbox' \in BOOLEAN /\ ~inbox'
      BY <2>1
    <3>2. silence' \in 0..SilenceCap
      BY <1>0, <2>1
    <3>3. QED
      BY <2>1, <3>1, <3>2 DEF SilenceCap
  <2>3. SilenceIsHonest' /\ CountIsShort'
    BY <1>0, <2>1 DEF SilenceCap
  <2>4. QED
    BY <2>2, <2>3
<1>6. CASE UNCHANGED vars
  BY <1>6 DEF vars, SilenceCap
<1>7. QED
  BY <1>1, <1>2, <1>3, <1>4, <1>5, <1>6

(* The invariant holds of every behaviour. *)
THEOREM WatchdogInvariance == Spec => []Inv
<1>1. ASSUME Init PROVE Inv
  <2>1. SilenceCap \in Nat
    BY DEF SilenceCap
  <2>2. TypeOK
    <3>1. inbox \in BOOLEAN /\ ~inbox
      BY <1>1 DEF Init
    <3>2. silence \in 0..SilenceCap /\ mute \in 0..SilenceCap
      BY <1>1, <2>1 DEF Init
    <3>3. /\ sinceAttempt \in 0..ReconnectSeconds
          /\ sincePush \in 0..PushSeconds
          /\ refusals \in 0..MaxRefusals
          /\ restarts \in 0..MaxRestarts
          /\ quiet \in 0..MaxQuiet
      BY <1>1 DEF Init
    <3>4. QED
      BY <1>1, <3>1, <3>2, <3>3 DEF Init, TypeOK
  <2>3. SilenceIsHonest /\ CountIsShort
    BY <1>1 DEF Init, SilenceIsHonest, CountIsShort
  <2>4. QED
    BY <2>2, <2>3 DEF Inv
<1>2. Inv /\ [Next]_vars => Inv'
  BY TimerKeeps, OthersKeep DEF Next
<1>3. QED
  BY <1>1, <1>2, PTL DEF Spec

(* What the EA takes for silence exceeds the brain's real silence by no more
   than the quotes had been missing when it last noted the time, however long
   they are missing afterwards (bridge_ea.mq5:77 and 125). *)
THEOREM CountsHonestly == Spec => []SilenceIsHonest
<1>1. Inv => SilenceIsHonest
  BY DEF Inv
<1>2. QED
  BY <1>1, WatchdogInvariance, PTL

(* The watchdog's condition, on a connection that lost nothing, means that the
   brain's silence and the gap in the quotes at its last line together exceed
   FlattenOnSilenceS, also when the clock has just jumped over a gap
   (bridge_ea.mq5:324): a brain heard while quotes came is not flattened before
   it has been silent for that long. *)
THEOREM FlattensOnlyTheSilent == Spec => FlattenOnlyAfterSilence
<1>1. ASSUME Inv, NEW quote \in BOOLEAN,
             link \in {"live", "stale"}, OnTimer(quote), SilentTooLong(quote)
      PROVE  mute' + quiet > FlattenOnSilenceS
  <2>1. ~inbox /\ Older(silence, Passed(quote), SilenceCap) > FlattenOnSilenceS
    BY <1>1 DEF SilentTooLong, HeardAge
  <2>2. /\ SilenceCap = FlattenOnSilenceS + 1 /\ FlattenOnSilenceS \in Nat /\ SilenceCap \in Nat
        /\ silence \in 0..SilenceCap /\ mute \in 0..SilenceCap
        /\ quiet \in Nat /\ lag \in 0..MaxQuiet
    BY <1>1 DEF Inv, TypeOK, SilenceCap
  <2>3. mute' = Older(mute, 1, SilenceCap) /\ (quote \/ lag < MaxQuiet)
    BY <1>1 DEF OnTimer
  <2>4. \/ mute' = SilenceCap
        \/ Older(silence, Passed(quote), SilenceCap) + Behind(quote) <= mute' + quiet
    BY <1>1, <2>1, <2>3, CountStaysShort
  <2>5. Passed(quote) \in Nat /\ Behind(quote) \in Nat
    BY <2>2, <2>3, PassedType
  <2>6. Older(silence, Passed(quote), SilenceCap) \in 0..SilenceCap
    BY <2>2, <2>5, OlderType
  <2>7. mute' \in 0..SilenceCap
    BY <2>2, <2>3, OlderType
  <2>8. Older(silence, Passed(quote), SilenceCap) <= mute' + quiet
    BY <2>2, <2>4, <2>5, <2>6, <2>7, ShortIsHonest
  <2>9. Older(silence, Passed(quote), SilenceCap) \in Nat /\ mute' \in Nat
    BY <2>2, <2>6, <2>7
  <2>10. QED
    <3>1. FlattenOnSilenceS \in Nat /\ quiet \in Nat
      BY <2>2
    <3>2. Older(silence, Passed(quote), SilenceCap) > FlattenOnSilenceS
      BY <2>1
    <3>3. QED
      BY <2>8, <2>9, <3>1, <3>2, Exceeds
<1>2. Inv => \A quote \in BOOLEAN :
               link \in {"live", "stale"} /\ OnTimer(quote) /\ SilentTooLong(quote)
                 => mute' + quiet > FlattenOnSilenceS
  BY <1>1
<1>3. QED
  BY <1>2, WatchdogInvariance, PTL DEF FlattenOnlyAfterSilence
=============================================================================
