---------------------------- MODULE EmaCross_proofs ----------------------------
(***************************************************************************)
(* Proofs about EmaCross, for every pair of periods, warm-up, window, set  *)
(* of prices and number of restarts.                                       *)
(***************************************************************************)
EXTENDS EmaCross, WellFoundedInduction, SequenceTheorems, TLAPS

Sides == {"above", "below"}

SymbolState == [fast : Int, slow : Int, above : Sides \cup {Unset}, mids : Seq(Mids), seq : Nat]

TypeInv ==
  /\ state \in [Filter -> SymbolState]
  /\ now \in Nat /\ atNow \in [Filter -> Nat]
  /\ process \in Nat
  /\ sent \subseteq [symbol : Filter, ts : Nat, seq : Nat, process : Nat, at : Nat, side : {"buy", "sell"}]
  /\ seen \in [Filter -> Seq(Mids)]

Towards(side) == IF side = "buy" THEN "above" ELSE "below"

(* The intents lie in the past. *)
Past == \A x \in sent : x.ts <= now /\ x.process <= process

(* Of this process, the newest intent of a symbol tells where its averages
   stand, and the warm-up is over. *)
NewestStands ==
  \A x \in sent : x.process = process =>
    LET st == state[x.symbol]
    IN  /\ x.seq <= st.seq
        /\ x.seq = st.seq => st.above = Towards(x.side) /\ Len(st.mids) >= Warmup

(* While the clock shows the time of an intent of an earlier process, the
   symbol has had no more ticks in this one than came at that time. *)
YoungSince ==
  \A x \in sent : x.process < process /\ x.ts = now => Len(state[x.symbol].mids) <= atNow[x.symbol]

IInv == TypeInv /\ Past /\ NewestStands /\ YoungSince /\ SignalsAlternate /\ IdsNeverRecur

-----------------------------------------------------------------------------
(* An average moves by whole amounts. *)
LEMMA TowardWhole ==
  ASSUME NEW average \in Int, NEW mid \in Int, NEW period \in Nat
  PROVE  Toward(average, mid, period) \in Int
<1>1. 2 * (mid - average) \in Int /\ period + 1 \in Nat /\ period + 1 > 0
  OBVIOUS
<1>2. (2 * (mid - average)) \div (period + 1) \in Int
  BY <1>1
<1>3. QED  BY <1>2 DEF Toward

(* A tick adds one price, drops at most the oldest, and takes no symbol back
   into the warm-up. *)
LEMMA RecentLength ==
  ASSUME NEW mids \in Seq(Mids), NEW mid \in Mids
  PROVE  /\ Recent(mids, mid) \in Seq(Mids)
         /\ Len(Recent(mids, mid)) <= Len(mids) + 1
         /\ Len(mids) >= Warmup => Len(Recent(mids, mid)) >= Warmup
<1> DEFINE longer == Append(mids, mid)
<1>1. longer \in Seq(Mids) /\ Len(longer) = Len(mids) + 1 /\ Len(mids) \in Nat
  OBVIOUS
<1>2. CASE Len(longer) > Window
  <2>1. Tail(longer) \in Seq(Mids) /\ Len(Tail(longer)) = Len(mids)
    BY <1>1
  <2>2. QED  BY <2>1, <1>1, <1>2 DEF Recent
<1>3. CASE ~(Len(longer) > Window)
  BY <1>1, <1>3, WarmupAssumption DEF Recent
<1>4. QED  BY <1>2, <1>3

(* The state after a tick is a state of a symbol with the same notes. *)
LEMMA MovedState ==
  ASSUME NEW st \in SymbolState, NEW mid \in Mids
  PROVE  /\ Moved(st, mid) \in SymbolState
         /\ Moved(st, mid).above = st.above
         /\ Moved(st, mid).seq = st.seq
         /\ Len(Moved(st, mid).mids) <= Len(st.mids) + 1
         /\ Len(st.mids) >= Warmup => Len(Moved(st, mid).mids) >= Warmup
<1> DEFINE fast == IF st.mids = <<>> THEN mid ELSE Toward(st.fast, mid, FastPeriod)
           slow == IF st.mids = <<>> THEN mid ELSE Toward(st.slow, mid, SlowPeriod)
<1>1. fast \in Int /\ slow \in Int
  BY TowardWhole, MidsAssumption, PeriodsAssumption DEF SymbolState
<1>2. Moved(st, mid) = [st EXCEPT !.fast = fast, !.slow = slow, !.mids = Recent(st.mids, mid)]
  BY DEF Moved, SymbolState
<1> HIDE DEF fast, slow
<1>3. st.mids \in Seq(Mids)
  BY DEF SymbolState
<1>4. Recent(st.mids, mid) \in Seq(Mids)
  BY <1>3, RecentLength
<1>5. Moved(st, mid) \in SymbolState
  BY <1>1, <1>2, <1>4 DEF SymbolState
<1>6. /\ Moved(st, mid).above = st.above
      /\ Moved(st, mid).seq = st.seq
      /\ Moved(st, mid).mids = Recent(st.mids, mid)
  BY <1>2 DEF SymbolState
<1>7. QED  BY <1>3, <1>5, <1>6, RecentLength

(* A tick without a signal: the symbol's seq stays, and once it is out of the
   warm-up with an intent sent, the side is kept. *)
LEMMA SilentTick ==
  ASSUME IInv, NEW s \in Filter, NEW mid \in Mids, NEW above \in Sides \cup {Unset},
         Arrives(s, mid), UNCHANGED sent,
         state' = [state EXCEPT ![s] = [Moved(state[s], mid) EXCEPT !.above = above]],
         \/ Len(state[s].mids) < Warmup
         \/ state[s].above \in Sides => above = state[s].above
  PROVE  IInv'
<1> DEFINE st == state[s]
           new == [Moved(st, mid) EXCEPT !.above = above]
<1>1. st \in SymbolState
  BY DEF IInv, TypeInv
<1>2. Moved(st, mid) \in SymbolState /\ Moved(st, mid).seq = st.seq
      /\ Len(Moved(st, mid).mids) <= Len(st.mids) + 1
      /\ (Len(st.mids) >= Warmup => Len(Moved(st, mid).mids) >= Warmup)
  BY <1>1, MovedState
<1>3. new \in SymbolState /\ new.seq = st.seq /\ new.above = above
      /\ Len(new.mids) <= Len(st.mids) + 1
      /\ (Len(st.mids) >= Warmup => Len(new.mids) >= Warmup)
  BY <1>2 DEF SymbolState
<1>4. Len(st.mids) \in Nat /\ Len(new.mids) \in Nat
  BY <1>1, <1>3 DEF SymbolState
<1>5. state' = [state EXCEPT ![s] = new]
  OBVIOUS
<1> HIDE DEF st, new
<1>6. state'[s] = new /\ \A r \in Filter : r # s => state'[r] = state[r]
  BY <1>5 DEF IInv, TypeInv
<1>7. atNow'[s] = atNow[s] + 1 /\ \A r \in Filter : r # s => atNow'[r] = atNow[r]
  BY DEF Arrives, IInv, TypeInv
<1>8. TypeInv'
  <2>1. Append(seen[s], mid) \in Seq(Mids)
    BY DEF IInv, TypeInv
  <2>2. seen' = [seen EXCEPT ![s] = Append(@, mid)] /\ seen' \in [Filter -> Seq(Mids)]
    BY <2>1 DEF IInv, TypeInv, Arrives
  <2>3. state' \in [Filter -> SymbolState]
    BY <1>3, <1>5 DEF IInv, TypeInv
  <2>4. atNow' \in [Filter -> Nat] /\ UNCHANGED <<now, process, sent>>
    BY DEF IInv, TypeInv, Arrives
  <2>5. QED  BY <2>2, <2>3, <2>4 DEF IInv, TypeInv
<1>9. Past' /\ SignalsAlternate' /\ IdsNeverRecur'
  BY DEF IInv, Past, SignalsAlternate, IdsNeverRecur, Arrives
<1>10. NewestStands'
  <2> SUFFICES ASSUME NEW x \in sent, x.process = process
               PROVE  /\ x.seq <= state'[x.symbol].seq
                      /\ x.seq = state'[x.symbol].seq =>
                           /\ state'[x.symbol].above = Towards(x.side)
                           /\ Len(state'[x.symbol].mids) >= Warmup
    BY DEF NewestStands, Arrives
  <2>1. x.symbol \in Filter
    BY DEF IInv, TypeInv
  <2>2. /\ x.seq <= state[x.symbol].seq
        /\ x.seq = state[x.symbol].seq =>
             /\ state[x.symbol].above = Towards(x.side)
             /\ Len(state[x.symbol].mids) >= Warmup
    BY DEF IInv, NewestStands
  <2>3. CASE x.symbol # s
    BY <2>1, <2>2, <2>3, <1>6
  <2>4. CASE x.symbol = s
    <3>1. Towards(x.side) \in Sides
      BY DEF Towards, Sides
    <3>2. x.seq = st.seq => Len(st.mids) >= Warmup /\ st.above = Towards(x.side)
      BY <2>2, <2>4 DEF st
    <3>3. x.seq = st.seq => above = Towards(x.side)
      BY <3>1, <3>2, <1>4, WarmupAssumption DEF st
    <3>4. QED  BY <2>2, <2>4, <3>2, <3>3, <1>3, <1>6 DEF st
  <2>5. QED  BY <2>3, <2>4
<1>11. YoungSince'
  <2> SUFFICES ASSUME NEW x \in sent, x.process < process, x.ts = now
               PROVE  Len(state'[x.symbol].mids) <= atNow'[x.symbol]
    BY DEF YoungSince, Arrives
  <2>1. x.symbol \in Filter /\ Len(state[x.symbol].mids) <= atNow[x.symbol] /\ atNow[x.symbol] \in Nat
    BY DEF IInv, TypeInv, YoungSince
  <2>2. CASE x.symbol = s
    <3>1. Len(st.mids) <= atNow[s] /\ atNow[s] \in Nat
      BY <2>1, <2>2 DEF st
    <3>2. Len(state'[x.symbol].mids) = Len(new.mids) /\ atNow'[x.symbol] = atNow[s] + 1
      BY <2>2, <1>6, <1>7
    <3>3. QED  BY <3>1, <3>2, <1>3, <1>4
  <2>3. CASE x.symbol # s
    BY <2>1, <2>3, <1>6, <1>7
  <2>4. QED  BY <2>2, <2>3
<1>12. QED  BY <1>8, <1>9, <1>10, <1>11 DEF IInv

(* A signal: its number is new in this process, no earlier process sent at
   this time stamp, and it is on the other side of the one before. *)
LEMMA SignalTick ==
  ASSUME IInv, NEW s \in Filter, NEW mid \in Mids, CrossTick(s, mid)
  PROVE  IInv'
<1> DEFINE st == state[s]
           moved == Moved(st, mid)
           new == [moved EXCEPT !.above = FastAbove(moved), !.seq = moved.seq + 1]
           n == [symbol |-> s, ts |-> now, seq |-> st.seq + 1, process |-> process, at |-> Len(seen'[s]),
                 side |-> IF FastAbove(moved) = "above" THEN "buy" ELSE "sell"]
<1>1. st \in SymbolState
  BY DEF IInv, TypeInv
<1>2. moved \in SymbolState /\ moved.above = st.above /\ moved.seq = st.seq
      /\ Len(moved.mids) <= Len(st.mids) + 1
  BY <1>1, MovedState
<1>3. FastAbove(moved) \in Sides /\ Towards(n.side) = FastAbove(moved)
  BY DEF FastAbove, Sides, Towards
<1>4. new \in SymbolState /\ new.seq = st.seq + 1 /\ new.above = FastAbove(moved) /\ new.mids = moved.mids
  <2> DEFINE above == FastAbove(moved)
  <2>1. above \in Sides /\ new = [moved EXCEPT !.above = above, !.seq = moved.seq + 1]
    BY <1>3
  <2> HIDE DEF above, new, moved
  <2>2. moved.seq + 1 \in Nat
    BY <1>2 DEF SymbolState
  <2>3. new \in SymbolState /\ new.seq = moved.seq + 1 /\ new.above = above /\ new.mids = moved.mids
    BY <2>1, <2>2, <1>2 DEF SymbolState
  <2>4. QED  BY <2>3, <1>2 DEF above
<1>5. /\ Len(moved.mids) >= Warmup
      /\ st.above \notin {Unset, FastAbove(moved)}
      /\ state' = [state EXCEPT ![s] = new]
      /\ Arrives(s, mid)
  <2>1. Len(moved.mids) \in Nat /\ ~Warming(moved) /\ moved.above \notin {Unset, FastAbove(moved)}
    BY <1>2 DEF CrossTick, SymbolState
  <2>2. Len(moved.mids) >= Warmup
    BY <2>1, WarmupAssumption DEF Warming
  <2>3. state' = [state EXCEPT ![s] = new] /\ Arrives(s, mid)
    BY <1>2 DEF CrossTick, SymbolState
  <2>4. QED  BY <2>1, <2>2, <2>3, <1>2
<1>6. sent' = sent \cup {n}
  <2>1. n = [symbol |-> s, ts |-> now, seq |-> moved.seq + 1, process |-> process, at |-> Len(seen'[s]),
                 side |-> IF FastAbove(moved) = "above" THEN "buy" ELSE "sell"]
    BY <1>2
  <2>2. QED  BY <2>1 DEF CrossTick
<1>7. /\ n.symbol = s /\ n.ts = now /\ n.seq = st.seq + 1 /\ n.process = process
      /\ st.seq \in Nat /\ Len(st.mids) \in Nat /\ Len(moved.mids) \in Nat
  BY <1>1, <1>2 DEF SymbolState
<1>8. TypeInv'
  <2>1. Append(seen[s], mid) \in Seq(Mids) /\ seen' = [seen EXCEPT ![s] = Append(@, mid)]
    BY <1>5 DEF IInv, TypeInv, Arrives
  <2>2. seen'[s] \in Seq(Mids)
    BY <2>1 DEF IInv, TypeInv
  <2>3. Len(seen'[s]) \in Nat
    BY <2>2
  <2>4. n \in [symbol : Filter, ts : Nat, seq : Nat, process : Nat, at : Nat, side : {"buy", "sell"}]
    BY <1>7, <2>3 DEF IInv, TypeInv
  <2>5. state' \in [Filter -> SymbolState]
    BY <1>4, <1>5 DEF IInv, TypeInv
  <2>6. QED
    <3> HIDE DEF n, new
    <3>1. QED  BY <2>1, <2>4, <2>5, <1>5, <1>6 DEF IInv, TypeInv, Arrives
<1> HIDE DEF st, moved, new, n
<1>9. state'[s] = new /\ \A r \in Filter : r # s => state'[r] = state[r]
  BY <1>5 DEF IInv, TypeInv
<1>10. /\ now' = now /\ process' = process
       /\ atNow[s] \in Nat /\ atNow[s] + 1 <= PerMs
       /\ \A r \in Filter : r # s => atNow'[r] = atNow[r]
  BY <1>5, WarmupAssumption DEF Arrives, IInv, TypeInv
<1>11. \A y \in sent : y.symbol = s /\ y.process = process =>
          y.seq \in Nat /\ y.seq <= st.seq /\ (y.seq = st.seq => st.above = Towards(y.side))
  BY DEF IInv, TypeInv, NewestStands, st
<1>12. \A y \in sent : y.symbol = s /\ y.process < process => y.ts # now
  <2> SUFFICES ASSUME NEW y \in sent, y.symbol = s, y.process < process, y.ts = now
               PROVE  FALSE
    OBVIOUS
  <2>1. Len(st.mids) <= atNow[s]
    BY DEF IInv, YoungSince, st
  <2>2. QED  BY <2>1, <1>2, <1>5, <1>7, <1>10, WarmupAssumption
<1>13. \A y \in sent : y.process \in Nat /\ y.process <= process /\ process \in Nat
  BY DEF IInv, TypeInv, Past
<1>14. Past'
  BY <1>6, <1>7, <1>10 DEF IInv, TypeInv, Past
<1>15. NewestStands'
  <2> SUFFICES ASSUME NEW x \in sent \cup {n}, x.process = process
               PROVE  /\ x.seq <= state'[x.symbol].seq
                      /\ x.seq = state'[x.symbol].seq =>
                           /\ state'[x.symbol].above = Towards(x.side)
                           /\ Len(state'[x.symbol].mids) >= Warmup
    BY <1>6, <1>10 DEF NewestStands
  <2>1. CASE x = n
    <3>1. x.symbol = s /\ state'[x.symbol] = new /\ Towards(x.side) = FastAbove(moved)
      BY <2>1, <1>3, <1>7, <1>9
    <3>2. QED  BY <3>1, <2>1, <1>4, <1>5, <1>7
  <2>2. CASE x \in sent /\ x.symbol = s
    BY <2>2, <1>11, <1>4, <1>7, <1>9
  <2>3. CASE x \in sent /\ x.symbol # s
    <3>1. x.symbol \in Filter
      BY <2>3 DEF IInv, TypeInv
    <3>2. QED  BY <2>3, <3>1, <1>9 DEF IInv, NewestStands
  <2>4. QED  BY <2>1, <2>2, <2>3
<1>16. YoungSince'
  <2> SUFFICES ASSUME NEW x \in sent \cup {n}, x.process < process, x.ts = now
               PROVE  Len(state'[x.symbol].mids) <= atNow'[x.symbol]
    BY <1>6, <1>10 DEF YoungSince
  <2>1. x # n
    BY <1>7, <1>8, <1>10 DEF TypeInv
  <2>2. x.symbol # s /\ x.symbol \in Filter
    BY <2>1, <1>12 DEF IInv, TypeInv
  <2>3. QED  BY <2>1, <2>2, <1>9, <1>10 DEF IInv, YoungSince
<1>17. SignalsAlternate'
  <2> SUFFICES ASSUME NEW x \in sent \cup {n}, NEW y \in sent \cup {n},
                      x.symbol = y.symbol, x.process = y.process, y.seq = x.seq + 1
               PROVE  x.side # y.side
    BY <1>6 DEF SignalsAlternate
  <2>1. CASE x \in sent /\ y \in sent
    BY <2>1 DEF IInv, SignalsAlternate
  <2>2. CASE x = n
    <3>1. y \in sent => y.seq <= st.seq /\ y.seq \in Nat
      BY <2>2, <1>7, <1>11
    <3>2. QED  BY <2>2, <3>1, <1>7
  <2>3. CASE x \in sent /\ y = n
    <3>1. x.symbol = s /\ x.process = process /\ x.seq \in Nat
      BY <2>3, <1>7, <1>11
    <3>2. x.seq = st.seq
      BY <2>3, <3>1, <1>7
    <3>3. st.above = Towards(x.side)
      BY <2>3, <3>1, <3>2, <1>11
    <3>4. Towards(y.side) = FastAbove(moved) /\ FastAbove(moved) # st.above
      BY <2>3, <1>3, <1>5
    <3>5. QED  BY <3>3, <3>4
  <2>4. QED  BY <2>1, <2>2, <2>3
<1>18. IdsNeverRecur'
  <2>1. \A y \in sent : ~(y.symbol = n.symbol /\ y.ts = n.ts /\ y.seq = n.seq)
    BY <1>7, <1>11, <1>12, <1>13
  <2>2. QED  BY <2>1, <1>6 DEF IInv, IdsNeverRecur
<1>19. QED  BY <1>8, <1>14, <1>15, <1>16, <1>17, <1>18 DEF IInv

(* The initial states satisfy the invariant. *)
LEMMA Start == Init => IInv
<1> SUFFICES ASSUME Init PROVE IInv
  OBVIOUS
<1>1. Fresh \in SymbolState
  BY DEF Fresh, SymbolState
<1>2. TypeInv
  BY <1>1 DEF Init, TypeInv
<1>3. QED  BY <1>2 DEF Init, IInv, Past, NewestStands, YoungSince, SignalsAlternate, IdsNeverRecur

(* Every step keeps the invariant. *)
LEMMA Step == IInv /\ [Next]_vars => IInv'
<1> SUFFICES ASSUME IInv, [Next]_vars PROVE IInv'
  OBVIOUS
<1>1. CASE Ignored \/ UNCHANGED vars
  BY <1>1 DEF Ignored, vars, IInv, TypeInv, Past, NewestStands, YoungSince, SignalsAlternate, IdsNeverRecur
<1>2. ASSUME NEW s \in Filter, NEW mid \in Mids, WarmingTick(s, mid) \/ FlatTick(s, mid) \/ QuietTick(s, mid)
      PROVE  IInv'
  <2> DEFINE st == state[s]
             moved == Moved(st, mid)
  <2>1. st \in SymbolState
    BY DEF IInv, TypeInv
  <2>2. moved \in SymbolState /\ moved.above = st.above
        /\ (Len(st.mids) >= Warmup => Len(moved.mids) >= Warmup)
    BY <2>1, MovedState
  <2>3. FastAbove(moved) \in Sides
    BY DEF FastAbove, Sides
  <2>4. CASE WarmingTick(s, mid)
    <3>1. Len(st.mids) \in Nat /\ Len(moved.mids) \in Nat
      BY <2>1, <2>2 DEF SymbolState
    <3>2. Len(st.mids) < Warmup
      BY <2>2, <2>4, <3>1, WarmupAssumption DEF WarmingTick, Warming
    <3>3. QED  BY <2>3, <2>4, <3>2, SilentTick DEF WarmingTick
  <2>5. CASE FlatTick(s, mid)
    <3>1. moved = [moved EXCEPT !.above = st.above] /\ st.above \in Sides \cup {Unset}
      BY <2>1, <2>2 DEF SymbolState
    <3>2. QED  BY <2>5, <3>1, SilentTick DEF FlatTick
  <2>6. CASE QuietTick(s, mid)
    <3>1. st.above \in Sides => FastAbove(moved) = st.above
      BY <2>2, <2>6 DEF QuietTick, Sides, Unset
    <3>2. QED  BY <2>3, <2>6, <3>1, SilentTick DEF QuietTick
  <2>7. QED  BY <1>2, <2>4, <2>5, <2>6
<1>3. ASSUME NEW s \in Filter, NEW mid \in Mids, CrossTick(s, mid)
      PROVE  IInv'
  BY <1>3, SignalTick
<1>4. CASE Later
  BY <1>4 DEF Later, IInv, TypeInv, Past, NewestStands, YoungSince, SignalsAlternate, IdsNeverRecur
<1>5. CASE Restart
  <2>1. Fresh \in SymbolState /\ Fresh.mids = <<>>
    BY DEF Fresh, SymbolState
  <2>2. TypeInv'
    BY <1>5, <2>1 DEF Restart, IInv, TypeInv
  <2>3. /\ \A s \in Filter : Len(state'[s].mids) = 0 /\ atNow'[s] \in Nat
        /\ \A x \in sent : x.symbol \in Filter /\ x.process \in Nat /\ x.process <= process /\ process \in Nat
    BY <1>5, <2>1 DEF Restart, IInv, TypeInv, Past
  <2>4. QED  BY <1>5, <2>2, <2>3
             DEF Restart, IInv, Past, NewestStands, YoungSince, SignalsAlternate, IdsNeverRecur
<1>6. QED  BY <1>1, <1>2, <1>3, <1>4, <1>5 DEF Next

-----------------------------------------------------------------------------
(* The invariant behind the alternation and the ids holds in every state. *)
THEOREM Invariance == Spec => []IInv
BY Start, Step, PTL DEF Spec

(* For every pair of periods and any prices, the intents of a symbol alternate
   between buy and sell as long as the process lives. *)
THEOREM SidesAlternate == Spec => []SignalsAlternate
<1>1. IInv => SignalsAlternate
  BY DEF IInv
<1>2. QED  BY <1>1, Invariance, PTL

(* No order id recurs, in any number of processes, as long as the warm-up
   outlasts the ticks of one time stamp. *)
THEOREM IdsUnique == Spec => []IdsNeverRecur
<1>1. IInv => IdsNeverRecur
  BY DEF IInv
<1>2. QED  BY <1>1, Invariance, PTL

-----------------------------------------------------------------------------
(* A set of numbers that is not empty has a least one: what fails of a list
   of prices fails of a shortest one. *)
Below == {p \in Nat \X Nat : p[1] < p[2]}

(* A non-empty set of naturals has a least member. *)
LEMMA Least ==
  ASSUME NEW T \in SUBSET Nat, T # {} PROVE \E m \in T : \A k \in T : m <= k
<1>1. OpToRel(<, Nat) = Below
  BY DEF OpToRel, Below
<1>2. IsWellFoundedOn(Below, Nat)
  BY <1>1, NatLessThanWellFounded
<1>3. PICK m \in T : \A k \in T : <<k, m>> \notin Below
  BY <1>2, WFMin
<1>4. ASSUME NEW k \in T PROVE m <= k
  <2>1. k \in Nat /\ m \in Nat /\ <<k, m>> \notin Below
    BY <1>3
  <2>2. ~(k < m)
    BY <2>1 DEF Below
  <2>3. QED  BY <2>1, <2>2
<1>5. QED  BY <1>4

(* And a set with a bound has a greatest one. *)
LEMMA Greatest ==
  ASSUME NEW n \in Nat, NEW S \in SUBSET (1..n), S # {}
  PROVE  Max(S) \in S /\ \A k \in S : k <= Max(S)
<1> DEFINE T == {n - x : x \in S}
<1>1. T \in SUBSET Nat /\ T # {}
  <2>1. \A x \in S : n - x \in Nat
    OBVIOUS
  <2>2. QED  BY <2>1
<1>2. PICK d \in T : \A k \in T : d <= k
  BY <1>1, Least
<1>3. PICK m \in S : d = n - m
  OBVIOUS
<1>4. ASSUME NEW k \in S PROVE k <= m
  <2>1. n - k \in T /\ k \in 1..n /\ m \in 1..n
    OBVIOUS
  <2>2. n - m <= n - k
    BY <1>2, <1>3, <2>1
  <2>3. QED  BY <2>1, <2>2
<1>5. m \in S /\ \A y \in S : m >= y
  BY <1>4
<1>6. Max(S) \in S /\ \A y \in S : Max(S) >= y
  BY <1>5 DEF Max
<1>7. S \subseteq Int
  OBVIOUS
<1>8. QED  BY <1>6, <1>7

(* The signals against their definition.  An average is a function that its
   own values define; with each price there is one more of them, and the
   averages of the prices before stay what they were. *)

IsAverage(e, h, period) ==
  e = [n \in 1..Len(h) |-> IF n = 1 THEN h[1] ELSE Toward(e[n - 1], h[n], period)]

Determined(h, period) ==
  \E e : IsAverage(e, h, period) /\ \A f : IsAverage(f, h, period) => f = e

(* Where the averages are determined, Average names the only ones. *)
LEMMA AverageIs ==
  ASSUME NEW h, NEW period, Determined(h, period)
  PROVE  /\ IsAverage(Average(h, period), h, period)
         /\ \A f : IsAverage(f, h, period) => f = Average(h, period)
<1>1. Average(h, period) = CHOOSE e : IsAverage(e, h, period)
  BY DEF Average, IsAverage
<1>2. PICK e : IsAverage(e, h, period) /\ \A f : IsAverage(f, h, period) => f = e
  BY DEF Determined
<1> HIDE DEF IsAverage
<1>3. IsAverage(CHOOSE f : IsAverage(f, h, period), h, period)
  BY <1>2
<1>4. QED  BY <1>1, <1>2, <1>3

(* The averages of no prices are determined. *)
LEMMA AverageNone == ASSUME NEW period PROVE Determined(<<>>, period)
<1> DEFINE none == [n \in {} |-> 0]
<1>1. 1..Len(<<>>) = {}
  OBVIOUS
<1>2. ASSUME NEW e PROVE IsAverage(e, <<>>, period) <=> e = none
  BY <1>1 DEF IsAverage
<1>3. QED  BY <1>2 DEF Determined

(* A further price leaves the averages so far and determines one more. *)
LEMMA AverageGrows ==
  ASSUME NEW h \in Seq(Mids), NEW mid \in Mids, NEW period, Determined(h, period)
  PROVE  /\ Determined(Append(h, mid), period)
         /\ \A n \in 1..Len(h) : Average(Append(h, mid), period)[n] = Average(h, period)[n]
         /\ Average(Append(h, mid), period)[Len(h) + 1]
              = IF Len(h) = 0 THEN mid ELSE Toward(Average(h, period)[Len(h)], mid, period)
<1> DEFINE g == Append(h, mid)
           k == Len(h)
           e == Average(h, period)
           last == IF k = 0 THEN mid ELSE Toward(e[k], mid, period)
           f == [n \in 1..k + 1 |-> IF n <= k THEN e[n] ELSE last]
<1>1. /\ k \in Nat /\ Len(g) = k + 1 /\ g[k + 1] = mid
      /\ \A n \in 1..k : g[n] = h[n]
  OBVIOUS
<1>2. e = [n \in 1..k |-> IF n = 1 THEN h[1] ELSE Toward(e[n - 1], h[n], period)]
  BY AverageIs DEF IsAverage
<1>3. last = IF k = 0 THEN mid ELSE Toward(e[k], mid, period)
  OBVIOUS
<1>4. \A r : IsAverage(r, h, period) => r = e
  BY AverageIs
<1> HIDE DEF g, k, e, last
<1>5. ASSUME NEW n \in 1..k + 1
      PROVE  f[n] = IF n = 1 THEN g[1] ELSE Toward(f[n - 1], g[n], period)
  <2>1. CASE n <= k
    <3>1. n \in 1..k /\ f[n] = e[n] /\ g[n] = h[n] /\ 1 \in 1..k /\ g[1] = h[1]
      BY <1>1, <2>1
    <3>2. n # 1 => n - 1 \in 1..k + 1 /\ n - 1 <= k /\ f[n - 1] = e[n - 1]
      BY <1>1, <2>1
    <3>3. e[n] = IF n = 1 THEN h[1] ELSE Toward(e[n - 1], h[n], period)
      BY <1>2, <3>1
    <3>4. QED  BY <3>1, <3>2, <3>3
  <2>2. CASE n = k + 1
    <3>1. f[n] = last /\ g[n] = mid
      BY <1>1, <2>2
    <3>2. k = 0 => n = 1 /\ last = mid
      BY <1>1, <1>3, <2>2
    <3>3. k # 0 => n # 1 /\ n - 1 = k /\ f[n - 1] = e[k] /\ last = Toward(e[k], mid, period)
      BY <1>1, <1>3, <2>2
    <3>4. QED  BY <3>1, <3>2, <3>3
  <2>3. QED  BY <1>1, <2>1, <2>2
<1>6. IsAverage(f, g, period)
  BY <1>1, <1>5 DEF IsAverage
<1>7. ASSUME NEW r, IsAverage(r, g, period) PROVE r = f
  <2>1. r = [n \in 1..k + 1 |-> IF n = 1 THEN g[1] ELSE Toward(r[n - 1], g[n], period)]
    BY <1>1, <1>7 DEF IsAverage
  <2> DEFINE part == [n \in 1..k |-> r[n]]
  <2>2. ASSUME NEW n \in 1..k
        PROVE  part[n] = IF n = 1 THEN h[1] ELSE Toward(part[n - 1], h[n], period)
    <3>1. n \in 1..k + 1 /\ part[n] = r[n] /\ g[n] = h[n]
      BY <1>1
    <3>2. r[n] = IF n = 1 THEN g[1] ELSE Toward(r[n - 1], g[n], period)
      BY <2>1, <3>1
    <3>3. n # 1 => n - 1 \in 1..k /\ part[n - 1] = r[n - 1]
      BY <1>1
    <3>4. QED  BY <3>1, <3>2, <3>3
  <2>3. IsAverage(part, h, period)
    BY <2>2 DEF IsAverage, k
  <2>4. part = e
    BY <1>4, <2>3
  <2>5. \A n \in 1..k : r[n] = e[n]
    BY <2>4
  <2>6. r[k + 1] = last
    <3>1. r[k + 1] = IF k + 1 = 1 THEN g[1] ELSE Toward(r[(k + 1) - 1], g[k + 1], period)
      <4>1. k + 1 \in 1..k + 1
        BY <1>1
      <4>2. QED  BY <2>1, <4>1
    <3>2. k # 0 => (k + 1) - 1 = k /\ k \in 1..k /\ k + 1 # 1
      BY <1>1
    <3>3. k = 0 => k + 1 = 1 /\ g[1] = mid
      <4>1. ASSUME k = 0 PROVE k + 1 = 1
        BY <4>1
      <4>2. g[k + 1] = mid
        BY <1>1
      <4>3. QED  BY <4>1, <4>2
    <3>4. QED  BY <1>1, <1>3, <2>5, <3>1, <3>2, <3>3
  <2>7. \A n \in 1..k + 1 : r[n] = f[n]
    <3>1. \A n \in 1..k + 1 : (n \in 1..k /\ n <= k) \/ (n = k + 1 /\ ~(n <= k))
      <4>1. k \in Nat
        BY <1>1
      <4>2. QED  BY <4>1
    <3>2. QED  BY <2>5, <2>6, <3>1
  <2>8. QED  BY <2>1, <2>7
<1>8. Determined(g, period)
  BY <1>6, <1>7 DEF Determined
<1>9. Average(g, period) = f
  BY <1>6, <1>8, AverageIs
<1>10. /\ \A n \in 1..k : f[n] = e[n]
       /\ f[k + 1] = last
  BY <1>1
<1>11. QED  BY <1>3, <1>8, <1>9, <1>10 DEF g, k, e

(* The averages of every list of prices are determined. *)
LEMMA AverageDefined ==
  ASSUME NEW h \in Seq(Mids), NEW period PROVE Determined(h, period)
<1> DEFINE Bad == {n \in Nat : \E g \in Seq(Mids) : Len(g) = n /\ ~Determined(g, period)}
<1>1. SUFFICES ASSUME Bad # {} PROVE FALSE
  <2>1. Len(h) \in Nat
    OBVIOUS
  <2>2. ~Determined(h, period) => Len(h) \in Bad
    BY <2>1
  <2>3. QED  BY <1>1, <2>2
<1>2. PICK n \in Bad : \A k \in Bad : n <= k
  <2>1. Bad \in SUBSET Nat
    OBVIOUS
  <2> HIDE DEF Bad
  <2>2. QED  BY <1>1, <2>1, Least
<1>3. PICK g \in Seq(Mids) : Len(g) = n /\ ~Determined(g, period)
  OBVIOUS
<1>4. n \in Nat
  OBVIOUS
<1>5. CASE n = 0
  <2>1. g = <<>>
    BY <1>3, <1>5
  <2>2. QED  BY <1>3, <2>1, AverageNone
<1>6. CASE n # 0
  <2> DEFINE front == SubSeq(g, 1, n - 1)
  <2>1. /\ front \in Seq(Mids) /\ Len(front) = n - 1 /\ g[n] \in Mids
        /\ Append(front, g[n]) = g
    BY <1>3, <1>4, <1>6
  <2>2. n - 1 \in Nat /\ ~(n <= n - 1)
    BY <1>4, <1>6
  <2>3. n - 1 \notin Bad
    <3> HIDE DEF Bad
    <3>1. QED  BY <1>2, <2>2
  <2>4. Determined(front, period)
    BY <2>1, <2>2, <2>3
  <2> HIDE DEF front
  <2>5. front \in Seq(Mids) /\ g[n] \in Mids
    BY <2>1
  <2>6. Determined(Append(front, g[n]), period)
    BY <2>4, <2>5, AverageGrows
  <2>7. QED  BY <1>3, <2>1, <2>6
<1>7. QED  BY <1>5, <1>6

(* The definition of the signals, part by part. *)
StandsStill(h, n) == n >= Warmup /\ \A m \in Max({1, n - Window + 1})..n : h[m] = h[n]

Noted(h, n) == {m \in 1..n - 1 : ~StandsStill(h, m)}

AboveAt(h, n) == Average(h, FastPeriod)[n] > Average(h, SlowPeriod)[n]

SignalAt(h, n) ==
  ~StandsStill(h, n) /\ Noted(h, n) # {} /\ AboveAt(h, n) # AboveAt(h, Max(Noted(h, n)))

(* The reference signals, position by position. *)
LEMMA SignalsAre == ASSUME NEW h PROVE Signals(h) = {n \in Warmup..Len(h) : SignalAt(h, n)}
BY DEF Signals, SignalAt, StandsStill, Noted, AboveAt

(* Where the last Window prices of n begin. *)
From(n) == IF n <= Window THEN 1 ELSE n - Window + 1

(* Where the window that ends at a position begins. *)
LEMMA WindowFrom == ASSUME NEW n \in Nat \ {0} PROVE Max({1, n - Window + 1}) = From(n)
<1>1. Window \in Nat
  BY WarmupAssumption
<1> DEFINE S == {1, n - Window + 1}
<1>2. From(n) \in S /\ \A y \in S : From(n) >= y
  BY <1>1 DEF From
<1>3. \A x \in S : (\A y \in S : x >= y) => x = From(n)
  BY <1>1, <1>2 DEF From
<1> HIDE DEF S
<1>4. Max(S) = From(n)
  BY <1>2, <1>3 DEF Max
<1>5. QED  BY <1>4 DEF S

(* A further price changes nothing of what was before. *)
LEMMA EarlierKept ==
  ASSUME NEW h \in Seq(Mids), NEW mid \in Mids, NEW n \in 1..Len(h)
  PROVE  /\ StandsStill(Append(h, mid), n) <=> StandsStill(h, n)
         /\ AboveAt(Append(h, mid), n) <=> AboveAt(h, n)
<1> DEFINE g == Append(h, mid)
<1>1. n \in Nat \ {0} /\ Len(h) \in Nat /\ \A m \in 1..Len(h) : g[m] = h[m]
  OBVIOUS
<1>2. Max({1, n - Window + 1}) = From(n) /\ From(n) \in Nat \ {0}
  BY <1>1, WindowFrom, WarmupAssumption DEF From
<1>3. \A m \in From(n)..n : g[m] = h[m]
  BY <1>1, <1>2
<1>4. StandsStill(g, n) <=> StandsStill(h, n)
  <2> HIDE DEF g
  <2>1. QED  BY <1>1, <1>2, <1>3 DEF StandsStill
<1>5. /\ Average(g, FastPeriod)[n] = Average(h, FastPeriod)[n]
      /\ Average(g, SlowPeriod)[n] = Average(h, SlowPeriod)[n]
  BY AverageDefined, AverageGrows
<1>6. QED  BY <1>4, <1>5 DEF AboveAt

(* A further price does not change which positions were noted before it. *)
LEMMA NotedKept ==
  ASSUME NEW h \in Seq(Mids), NEW mid \in Mids, NEW n \in 1..Len(h) + 1
  PROVE  Noted(Append(h, mid), n) = Noted(h, n) /\ Noted(h, n) \in SUBSET (1..Len(h))
<1>1. Len(h) \in Nat /\ 1..n - 1 \subseteq 1..Len(h)
  OBVIOUS
<1>2. \A m \in 1..n - 1 : StandsStill(Append(h, mid), m) <=> StandsStill(h, m)
  BY <1>1, EarlierKept
<1>3. QED  BY <1>1, <1>2 DEF Noted

(* A further price leaves the earlier signals, and adds its own position or not. *)
LEMMA SignalsKept ==
  ASSUME NEW h \in Seq(Mids), NEW mid \in Mids
  PROVE  Signals(Append(h, mid)) = Signals(h) \cup
           (IF Len(h) + 1 >= Warmup /\ SignalAt(Append(h, mid), Len(h) + 1) THEN {Len(h) + 1} ELSE {})
<1> DEFINE g == Append(h, mid)
           k == Len(h)
<1>1. k \in Nat /\ Len(g) = k + 1
  OBVIOUS
<1>2. ASSUME NEW n \in 1..k PROVE SignalAt(g, n) <=> SignalAt(h, n)
  <2>1. (StandsStill(g, n) <=> StandsStill(h, n)) /\ (AboveAt(g, n) <=> AboveAt(h, n))
    BY EarlierKept
  <2>2. Noted(g, n) = Noted(h, n) /\ Noted(h, n) \in SUBSET (1..k)
    <3>1. n \in 1..Len(h) + 1
      BY <1>1
    <3>2. QED  BY <3>1, NotedKept
  <2>3. Noted(h, n) # {} => Max(Noted(h, n)) \in 1..k
    BY <1>1, <2>2, Greatest
  <2>4. Noted(h, n) # {} => (AboveAt(g, Max(Noted(h, n))) <=> AboveAt(h, Max(Noted(h, n))))
    BY <2>3, EarlierKept
  <2> HIDE DEF g
  <2>5. AboveAt(g, n) = AboveAt(h, n)
    BY <2>1 DEF AboveAt
  <2>6. QED  BY <2>1, <2>2, <2>4 DEF SignalAt, AboveAt
<1>3. Warmup \in Nat \ {0}
  BY WarmupAssumption
<1> HIDE DEF g, k
<1>4. ASSUME NEW n
      PROVE  (n \in Warmup..k + 1 /\ SignalAt(g, n))
               <=> (n \in Warmup..k /\ SignalAt(h, n)) \/ (n = k + 1 /\ k + 1 >= Warmup /\ SignalAt(g, k + 1))
  <2>1. n \in Warmup..k + 1 <=> n \in Warmup..k \/ (n = k + 1 /\ k + 1 >= Warmup)
    BY <1>1, <1>3
  <2>2. n \in Warmup..k => n \in 1..k
    BY <1>1, <1>3
  <2>3. QED  BY <1>2, <2>1, <2>2
<1>5. /\ Signals(g) = {n \in Warmup..k + 1 : SignalAt(g, n)}
      /\ Signals(h) = {n \in Warmup..k : SignalAt(h, n)}
  BY <1>1, SignalsAre DEF k
<1>6. Signals(g) = Signals(h) \cup
        (IF k + 1 >= Warmup /\ SignalAt(g, k + 1) THEN {k + 1} ELSE {})
  BY <1>4, <1>5
<1>7. QED  BY <1>6 DEF g, k

(* What the strategy keeps of a symbol is what its prices say: the last of
   them, the averages, and where they stood at the last tick noted. *)
Mirrors(st, h) ==
  /\ Len(st.mids) = IF Len(h) <= Window THEN Len(h) ELSE Window
  /\ \A i \in 1..Len(st.mids) : st.mids[i] = h[(Len(h) - Len(st.mids)) + i]
  /\ Len(h) # 0 => /\ st.fast = Average(h, FastPeriod)[Len(h)]
                   /\ st.slow = Average(h, SlowPeriod)[Len(h)]
  /\ st.above = Unset <=> Noted(h, Len(h) + 1) = {}
  /\ st.above # Unset => (st.above = "above" <=> AboveAt(h, Max(Noted(h, Len(h) + 1))))

(* deque(maxlen=200): one price more, or the oldest one less. *)
LEMMA RecentIs ==
  ASSUME NEW mids \in Seq(Mids), NEW mid \in Mids
  PROVE  IF Len(mids) + 1 > Window
         THEN /\ Len(Recent(mids, mid)) = Len(mids)
              /\ \A i \in 1..Len(mids) : Recent(mids, mid)[i] = Append(mids, mid)[i + 1]
         ELSE /\ Len(Recent(mids, mid)) = Len(mids) + 1
              /\ \A i \in 1..Len(mids) + 1 : Recent(mids, mid)[i] = Append(mids, mid)[i]
<1> DEFINE longer == Append(mids, mid)
<1>1. longer \in Seq(Mids) /\ Len(longer) = Len(mids) + 1 /\ Len(mids) \in Nat /\ longer # <<>>
  OBVIOUS
<1>2. Recent(mids, mid) = IF Len(longer) > Window THEN Tail(longer) ELSE longer
  BY DEF Recent
<1> HIDE DEF longer
<1>3. Len(Tail(longer)) = Len(mids) /\ \A i \in 1..Len(mids) : Tail(longer)[i] = longer[i + 1]
  BY <1>1
<1>4. QED  BY <1>1, <1>2, <1>3 DEF longer

(* What a tick does to the averages and the window of a symbol. *)
LEMMA MovedFields ==
  ASSUME NEW st \in SymbolState, NEW mid \in Mids
  PROVE  /\ Moved(st, mid).fast = IF st.mids = <<>> THEN mid ELSE Toward(st.fast, mid, FastPeriod)
         /\ Moved(st, mid).slow = IF st.mids = <<>> THEN mid ELSE Toward(st.slow, mid, SlowPeriod)
         /\ Moved(st, mid).mids = Recent(st.mids, mid)
<1> DEFINE fast == IF st.mids = <<>> THEN mid ELSE Toward(st.fast, mid, FastPeriod)
           slow == IF st.mids = <<>> THEN mid ELSE Toward(st.slow, mid, SlowPeriod)
<1>1. Moved(st, mid) = [st EXCEPT !.fast = fast, !.slow = slow, !.mids = Recent(st.mids, mid)]
  BY DEF Moved, SymbolState
<1> HIDE DEF fast, slow
<1>2. /\ Moved(st, mid).fast = fast /\ Moved(st, mid).slow = slow
      /\ Moved(st, mid).mids = Recent(st.mids, mid)
  BY <1>1 DEF SymbolState
<1>3. QED  BY <1>2 DEF fast, slow

(* The prices kept stay the last ones. *)
LEMMA RecentMirrors ==
  ASSUME NEW st \in SymbolState, NEW h \in Seq(Mids), NEW mid \in Mids, Mirrors(st, h)
  PROVE  LET mids == Moved(st, mid).mids
             g == Append(h, mid)
         IN  /\ Len(mids) = IF Len(g) <= Window THEN Len(g) ELSE Window
             /\ \A i \in 1..Len(mids) : mids[i] = g[(Len(g) - Len(mids)) + i]
<1> DEFINE old == st.mids
           mids == Moved(st, mid).mids
           longer == Append(old, mid)
           g == Append(h, mid)
           k == Len(h)
           l == Len(old)
<1>1. k \in Nat /\ Len(g) = k + 1 /\ g[k + 1] = mid /\ \A i \in 1..k : g[i] = h[i]
  OBVIOUS
<1>2. old \in Seq(Mids) /\ l \in Nat /\ longer[l + 1] = mid /\ \A i \in 1..l : longer[i] = old[i]
  <2>1. old \in Seq(Mids)
    BY DEF SymbolState
  <2> HIDE DEF old
  <2>2. QED  BY <2>1
<1>3. l = (IF k <= Window THEN k ELSE Window) /\ \A i \in 1..l : old[i] = h[(k - l) + i]
  BY DEF Mirrors
<1>4. mids = Recent(old, mid)
  BY MovedFields
<1>5. IF l + 1 > Window
      THEN /\ Len(mids) = l
           /\ \A i \in 1..l : mids[i] = longer[i + 1]
      ELSE /\ Len(mids) = l + 1
           /\ \A i \in 1..l + 1 : mids[i] = longer[i]
  BY <1>2, <1>4, RecentIs
<1>6. Window \in Nat \ {0}
  BY WarmupAssumption
<1> HIDE DEF old, mids, longer, g, k, l
<1>7. l <= k /\ l <= Window
  BY <1>1, <1>3, <1>6
<1>8. ASSUME NEW i \in 1..l + 1 PROVE longer[i] = g[(k - l) + i]
  <2>1. CASE i = l + 1
    <3>1. (k - l) + i = k + 1
      BY <1>1, <1>2, <2>1
    <3>2. QED  BY <1>1, <1>2, <2>1, <3>1
  <2>2. CASE i # l + 1
    <3>1. i \in 1..l /\ (k - l) + i \in 1..k
      BY <1>1, <1>2, <1>7, <2>2
    <3>2. QED  BY <1>1, <1>2, <1>3, <3>1
  <2>3. QED  BY <2>1, <2>2
<1>9. CASE l + 1 > Window
  <2>1. l = Window /\ k >= Window /\ Len(mids) = l
    BY <1>1, <1>2, <1>3, <1>5, <1>6, <1>7, <1>9
  <2>2. ASSUME NEW i \in 1..l PROVE mids[i] = g[((k + 1) - l) + i]
    <3>1. i + 1 \in 1..l + 1 /\ (k - l) + (i + 1) = ((k + 1) - l) + i
      BY <1>1, <1>2
    <3>2. mids[i] = longer[i + 1]
      BY <1>5, <1>9
    <3>3. QED  BY <1>8, <3>1, <3>2
  <2>3. Len(mids) = IF k + 1 <= Window THEN k + 1 ELSE Window
    BY <1>1, <1>6, <2>1
  <2>4. QED  BY <1>1, <2>1, <2>2, <2>3 DEF mids, g
<1>10. CASE ~(l + 1 > Window)
  <2>1. l = k /\ k + 1 <= Window /\ Len(mids) = k + 1
    BY <1>1, <1>2, <1>3, <1>5, <1>6, <1>7, <1>10
  <2>2. ASSUME NEW i \in 1..k + 1 PROVE mids[i] = g[((k + 1) - (k + 1)) + i]
    <3>1. i \in 1..l + 1 /\ (k - l) + i = ((k + 1) - (k + 1)) + i
      BY <1>1, <2>1
    <3>2. QED  BY <1>5, <1>8, <1>10, <3>1
  <2>3. Len(mids) = IF k + 1 <= Window THEN k + 1 ELSE Window
    BY <2>1
  <2>4. QED  BY <1>1, <2>1, <2>2, <2>3 DEF mids, g
<1>11. QED  BY <1>9, <1>10

(* The averages after a tick are those of the prices with it. *)
LEMMA AveragesMirror ==
  ASSUME NEW st \in SymbolState, NEW h \in Seq(Mids), NEW mid \in Mids, Mirrors(st, h)
  PROVE  /\ Moved(st, mid).fast = Average(Append(h, mid), FastPeriod)[Len(h) + 1]
         /\ Moved(st, mid).slow = Average(Append(h, mid), SlowPeriod)[Len(h) + 1]
         /\ FastAbove(Moved(st, mid)) = "above" <=> AboveAt(Append(h, mid), Len(h) + 1)
<1>1. Len(h) \in Nat /\ Window \in Nat \ {0} /\ st.mids \in Seq(Mids)
  BY WarmupAssumption DEF SymbolState
<1>2. st.mids = <<>> <=> Len(h) = 0
  <2>1. Len(st.mids) = IF Len(h) <= Window THEN Len(h) ELSE Window
    BY DEF Mirrors
  <2>2. Len(st.mids) = 0 <=> Len(h) = 0
    BY <1>1, <2>1
  <2>3. Len(st.mids) = 0 <=> st.mids = <<>>
    BY <1>1
  <2>4. QED  BY <2>2, <2>3
<1>3. Len(h) # 0 => st.fast = Average(h, FastPeriod)[Len(h)] /\ st.slow = Average(h, SlowPeriod)[Len(h)]
  BY DEF Mirrors
<1>4. /\ Average(Append(h, mid), FastPeriod)[Len(h) + 1]
           = IF Len(h) = 0 THEN mid ELSE Toward(Average(h, FastPeriod)[Len(h)], mid, FastPeriod)
      /\ Average(Append(h, mid), SlowPeriod)[Len(h) + 1]
           = IF Len(h) = 0 THEN mid ELSE Toward(Average(h, SlowPeriod)[Len(h)], mid, SlowPeriod)
  BY AverageDefined, AverageGrows
<1>5. /\ Moved(st, mid).fast = IF st.mids = <<>> THEN mid ELSE Toward(st.fast, mid, FastPeriod)
      /\ Moved(st, mid).slow = IF st.mids = <<>> THEN mid ELSE Toward(st.slow, mid, SlowPeriod)
  BY MovedFields
<1>6. /\ Moved(st, mid).fast = Average(Append(h, mid), FastPeriod)[Len(h) + 1]
      /\ Moved(st, mid).slow = Average(Append(h, mid), SlowPeriod)[Len(h) + 1]
  BY <1>2, <1>3, <1>4, <1>5
<1>7. QED  BY <1>6 DEF FastAbove, AboveAt

(* The tick finds the market flat where the definition says that it stands
   still. *)
LEMMA FlatMirrors ==
  ASSUME NEW st \in SymbolState, NEW h \in Seq(Mids), NEW mid \in Mids, Mirrors(st, h)
  PROVE  /\ Warming(Moved(st, mid)) <=> Len(h) + 1 < Warmup
         /\ StandsStill(Append(h, mid), Len(h) + 1)
              <=> ~Warming(Moved(st, mid)) /\ Flat(Moved(st, mid).mids)
<1> DEFINE mids == Moved(st, mid).mids
           g == Append(h, mid)
           n == Len(h) + 1
           l == Len(mids)
<1>1. n \in Nat \ {0} /\ Len(g) = n
  OBVIOUS
<1>2. /\ l = IF Len(g) <= Window THEN Len(g) ELSE Window
      /\ \A i \in 1..l : mids[i] = g[(Len(g) - l) + i]
  BY RecentMirrors
<1>3. mids \in Seq(Mids)
  BY MovedState DEF SymbolState
<1>4. DOMAIN mids = 1..l
  BY <1>3
<1>5. Warming(Moved(st, mid)) <=> l < Warmup
  BY DEF Warming
<1>6. Max({1, n - Window + 1}) = From(n)
  BY <1>1, WindowFrom
<1> HIDE DEF mids, g, n, l
<1>7. Window \in Nat \ {0} /\ Warmup \in Nat \ {0} /\ Warmup <= Window
  BY WarmupAssumption
<1>8. l = (IF n <= Window THEN n ELSE Window) /\ \A i \in 1..l : mids[i] = g[(n - l) + i]
  BY <1>1, <1>2
<1>9. l \in Nat \ {0} /\ l <= n /\ From(n) = (n - l) + 1 /\ (l < Warmup <=> n < Warmup)
  BY <1>1, <1>7, <1>8 DEF From
<1>10. (\A m \in From(n)..n : g[m] = g[n]) <=> Flat(mids)
  <2>1. ASSUME \A m \in From(n)..n : g[m] = g[n], NEW i \in 1..l PROVE mids[i] = g[n]
    <3>1. (n - l) + i \in From(n)..n
      BY <1>1, <1>9
    <3>2. QED  BY <1>8, <2>1, <3>1
  <2>2. ASSUME Flat(mids), NEW m \in From(n)..n PROVE g[m] = g[n]
    <3>1. m - (n - l) \in 1..l /\ l \in 1..l /\ (n - l) + (m - (n - l)) = m /\ (n - l) + l = n
      BY <1>1, <1>9
    <3>2. mids[m - (n - l)] = g[(n - l) + (m - (n - l))] /\ mids[l] = g[(n - l) + l]
      BY <1>8, <3>1
    <3>3. mids[m - (n - l)] = g[m] /\ mids[l] = g[n]
      BY <3>1, <3>2
    <3>4. mids[m - (n - l)] = mids[l]
      BY <1>4, <2>2, <3>1 DEF Flat
    <3>5. QED  BY <3>3, <3>4
  <2>3. QED  BY <1>4, <2>1, <2>2 DEF Flat
<1>11. StandsStill(g, n) <=> ~(n < Warmup) /\ Flat(mids)
  <2>1. n >= Warmup <=> ~(n < Warmup)
    BY <1>1, <1>7
  <2>2. StandsStill(g, n) <=> n >= Warmup /\ \A m \in From(n)..n : g[m] = g[n]
    BY <1>6 DEF StandsStill
  <2>3. QED  BY <1>10, <2>1, <2>2
<1>12. QED  BY <1>5, <1>9, <1>11 DEF mids, g, n

(* Where the averages stood at the last tick noted, told by last_fast_above:
   a tick that is noted moves it, any other leaves it. *)
LEMMA NotedNext ==
  ASSUME NEW h \in Seq(Mids), NEW mid \in Mids
  PROVE  LET g == Append(h, mid)
             n == Len(h) + 1
         IN  /\ Len(g) = n /\ n \in Nat \ {0}
             /\ Noted(g, n) = Noted(h, n)
             /\ Noted(h, n) # {} =>
                  (AboveAt(g, Max(Noted(h, n))) <=> AboveAt(h, Max(Noted(h, n))))
             /\ StandsStill(g, n) => Noted(g, n + 1) = Noted(h, n)
             /\ ~StandsStill(g, n) => Noted(g, n + 1) # {} /\ Max(Noted(g, n + 1)) = n
<1> DEFINE g == Append(h, mid)
           n == Len(h) + 1
<1>1. Len(g) = n /\ n \in Nat \ {0} /\ Len(h) \in Nat /\ n \in 1..Len(h) + 1
  OBVIOUS
<1>2. Noted(g, n) = Noted(h, n) /\ Noted(h, n) \in SUBSET (1..Len(h))
  BY <1>1, NotedKept
<1>3. Noted(h, n) # {} => Max(Noted(h, n)) \in 1..Len(h)
  BY <1>1, <1>2, Greatest
<1>4. Noted(h, n) # {} => (AboveAt(g, Max(Noted(h, n))) <=> AboveAt(h, Max(Noted(h, n))))
  BY <1>3, EarlierKept
<1> HIDE DEF g, n
<1>5. (n + 1) - 1 = n /\ 1..n = 1..n - 1 \cup {n} /\ n \notin 1..n - 1 /\ n \in 1..n
  BY <1>1
<1>6. Noted(g, n + 1) = Noted(g, n) \cup (IF StandsStill(g, n) THEN {} ELSE {n})
  BY <1>5 DEF Noted
<1>7. ASSUME ~StandsStill(g, n) PROVE Noted(g, n + 1) # {} /\ Max(Noted(g, n + 1)) = n
  <2>1. n \in Noted(g, n + 1) /\ Noted(g, n + 1) \in SUBSET (1..n)
    BY <1>5, <1>6, <1>7 DEF Noted
  <2>2. Max(Noted(g, n + 1)) \in 1..n /\ n <= Max(Noted(g, n + 1))
    BY <1>1, <2>1, Greatest
  <2>3. QED  BY <1>1, <2>1, <2>2
<1>8. QED  BY <1>1, <1>2, <1>4, <1>6, <1>7 DEF g, n

(* A state that mirrors the prices so far mirrors them with the next one. *)
LEMMA NextMirrors ==
  ASSUME NEW st \in SymbolState, NEW h \in Seq(Mids), NEW mid \in Mids, Mirrors(st, h),
         NEW new \in SymbolState, new.fast = Moved(st, mid).fast, new.slow = Moved(st, mid).slow,
         new.mids = Moved(st, mid).mids,
         new.above = IF StandsStill(Append(h, mid), Len(h) + 1) THEN st.above ELSE FastAbove(Moved(st, mid))
  PROVE  Mirrors(new, Append(h, mid))
<1> DEFINE g == Append(h, mid)
           n == Len(h) + 1
<1>1. /\ Len(g) = n /\ n \in Nat \ {0}
      /\ Noted(h, n) # {} => (AboveAt(g, Max(Noted(h, n))) <=> AboveAt(h, Max(Noted(h, n))))
      /\ StandsStill(g, n) => Noted(g, n + 1) = Noted(h, n)
      /\ ~StandsStill(g, n) => Noted(g, n + 1) # {} /\ Max(Noted(g, n + 1)) = n
  BY NotedNext
<1>2. /\ Len(new.mids) = IF Len(g) <= Window THEN Len(g) ELSE Window
      /\ \A i \in 1..Len(new.mids) : new.mids[i] = g[(Len(g) - Len(new.mids)) + i]
  <2> DEFINE mids == Moved(st, mid).mids
  <2>1. /\ Len(mids) = IF Len(g) <= Window THEN Len(g) ELSE Window
        /\ \A i \in 1..Len(mids) : mids[i] = g[(Len(g) - Len(mids)) + i]
    BY RecentMirrors
  <2>2. new.mids = mids
    OBVIOUS
  <2> HIDE DEF mids, g
  <2>3. QED  BY <2>1, <2>2
<1>3. /\ new.fast = Average(g, FastPeriod)[n] /\ new.slow = Average(g, SlowPeriod)[n]
      /\ FastAbove(Moved(st, mid)) = "above" <=> AboveAt(g, n)
  BY AveragesMirror
<1>4. /\ st.above = Unset <=> Noted(h, n) = {}
      /\ st.above # Unset => (st.above = "above" <=> AboveAt(h, Max(Noted(h, n))))
  BY DEF Mirrors
<1>5. new.above = IF StandsStill(g, n) THEN st.above ELSE FastAbove(Moved(st, mid))
  OBVIOUS
<1> HIDE DEF g, n
<1>6. /\ new.above = Unset <=> Noted(g, n + 1) = {}
      /\ new.above # Unset => (new.above = "above" <=> AboveAt(g, Max(Noted(g, n + 1))))
  <2>1. CASE StandsStill(g, n)
    BY <1>1, <1>4, <1>5, <2>1
  <2>2. CASE ~StandsStill(g, n)
    <3>1. new.above = FastAbove(Moved(st, mid)) /\ new.above # Unset
      BY <1>5, <2>2 DEF FastAbove, Unset
    <3>2. QED  BY <1>1, <1>3, <2>2, <3>1
  <2>3. QED  BY <2>1, <2>2
<1>7. QED  BY <1>1, <1>2, <1>3, <1>6 DEF Mirrors, g, n

(* The tick signals where the definition does. *)
LEMMA SignalMirrors ==
  ASSUME NEW st \in SymbolState, NEW h \in Seq(Mids), NEW mid \in Mids, Mirrors(st, h)
  PROVE  SignalAt(Append(h, mid), Len(h) + 1)
           <=> /\ ~StandsStill(Append(h, mid), Len(h) + 1)
               /\ st.above \notin {Unset, FastAbove(Moved(st, mid))}
<1> DEFINE g == Append(h, mid)
           n == Len(h) + 1
<1>1. /\ Noted(g, n) = Noted(h, n)
      /\ Noted(h, n) # {} => (AboveAt(g, Max(Noted(h, n))) <=> AboveAt(h, Max(Noted(h, n))))
  BY NotedNext
<1>2. FastAbove(Moved(st, mid)) = "above" <=> AboveAt(g, n)
  BY AveragesMirror
<1>3. /\ st.above = Unset <=> Noted(h, n) = {}
      /\ st.above # Unset => (st.above = "above" <=> AboveAt(h, Max(Noted(h, n))))
  BY DEF Mirrors
<1> HIDE DEF g, n
<1>4. st.above \in {"above", "below", Unset} /\ FastAbove(Moved(st, mid)) \in {"above", "below"}
  BY DEF SymbolState, Sides, FastAbove
<1>5. ASSUME Noted(g, n) # {}
      PROVE  (AboveAt(g, n) # AboveAt(g, Max(Noted(g, n)))) <=> st.above # FastAbove(Moved(st, mid))
  <2>1. AboveAt(g, Max(Noted(g, n))) <=> st.above = "above"
    BY <1>1, <1>3, <1>5
  <2>2. (AboveAt(g, n) # AboveAt(g, Max(Noted(g, n)))) <=> ~(AboveAt(g, n) <=> AboveAt(g, Max(Noted(g, n))))
    BY DEF AboveAt
  <2>3. st.above # Unset
    BY <1>1, <1>3, <1>5
  <2>4. st.above # FastAbove(Moved(st, mid))
          <=> ~(st.above = "above" <=> FastAbove(Moved(st, mid)) = "above")
    BY <1>4, <2>3
  <2>5. QED  BY <1>2, <2>1, <2>2, <2>4
<1>6. SignalAt(g, n) <=> /\ ~StandsStill(g, n)
                         /\ st.above \notin {Unset, FastAbove(Moved(st, mid))}
  BY <1>1, <1>3, <1>5 DEF SignalAt
<1>7. QED  BY <1>6 DEF g, n

-----------------------------------------------------------------------------
SentAt(s) == {x.at : x \in {y \in sent : y.symbol = s /\ y.process = process}}

Follows == \A s \in Filter : Mirrors(state[s], seen[s]) /\ SentAt(s) = Signals(seen[s])

(* A symbol before its first tick. *)
LEMMA FreshFollows == Mirrors(Fresh, <<>>) /\ Signals(<<>>) = {}
<1>1. Len(<<>>) = 0
  OBVIOUS
<1>2. Fresh.mids = <<>> /\ Fresh.above = Unset
  BY DEF Fresh
<1>3. Noted(<<>>, 0 + 1) = {}
  BY DEF Noted
<1>4. Window \in Nat \ {0} /\ Warmup \in Nat \ {0}
  BY WarmupAssumption
<1>5. Signals(<<>>) = {}
  BY <1>1, <1>4, SignalsAre
<1>6. 1..0 = {} /\ (IF 0 <= Window THEN 0 ELSE Window) = 0
  BY <1>4
<1>7. QED  BY <1>1, <1>2, <1>3, <1>5, <1>6 DEF Mirrors

(* A tick of s, with its signal or without. *)
LEMMA TickFollows ==
  ASSUME IInv, Follows, NEW s \in Filter, NEW mid \in Mids, Arrives(s, mid),
         NEW new \in SymbolState, state' = [state EXCEPT ![s] = new],
         new.fast = Moved(state[s], mid).fast, new.slow = Moved(state[s], mid).slow,
         new.mids = Moved(state[s], mid).mids,
         new.above = IF StandsStill(Append(seen[s], mid), Len(seen[s]) + 1) THEN state[s].above
                     ELSE FastAbove(Moved(state[s], mid)),
         \A r \in Filter : SentAt(r)' = SentAt(r) \cup
           (IF r = s /\ Len(seen[s]) + 1 >= Warmup /\ SignalAt(Append(seen[s], mid), Len(seen[s]) + 1)
            THEN {Len(seen[s]) + 1} ELSE {})
  PROVE  Follows'
<1>1. state[s] \in SymbolState /\ seen[s] \in Seq(Mids)
  BY DEF IInv, TypeInv
<1>2. /\ seen'[s] = Append(seen[s], mid) /\ state'[s] = new
      /\ \A r \in Filter : r # s => seen'[r] = seen[r] /\ state'[r] = state[r]
  BY DEF Arrives, IInv, TypeInv
<1>3. Mirrors(state[s], seen[s]) /\ SentAt(s) = Signals(seen[s])
  BY DEF Follows
<1>4. Mirrors(new, Append(seen[s], mid))
  BY <1>1, <1>3, NextMirrors
<1>5. SentAt(s)' = Signals(Append(seen[s], mid))
  BY <1>1, <1>3, SignalsKept
<1>6. ASSUME NEW r \in Filter PROVE Mirrors(state'[r], seen'[r]) /\ SentAt(r)' = Signals(seen'[r])
  <2>1. CASE r = s
    BY <1>2, <1>4, <1>5, <2>1
  <2>2. CASE r # s
    <3>1. SentAt(r)' = SentAt(r)
      BY <2>2
    <3>2. QED  BY <1>2, <2>2, <3>1 DEF Follows
  <2>3. QED  BY <2>1, <2>2
<1>7. QED
  <2>1. \A r \in Filter : (Mirrors(state[r], seen[r]) /\ SentAt(r) = Signals(seen[r]))'
    BY <1>6 DEF Mirrors, Signals, Average, AboveAt, Noted, StandsStill
  <2>2. QED  BY <2>1 DEF Follows

(* Every step keeps the states and the intents those of the prices seen. *)
LEMMA FollowsStep == IInv /\ Follows /\ [Next]_vars => Follows'
<1> SUFFICES ASSUME IInv, Follows, [Next]_vars PROVE Follows'
  OBVIOUS
<1>1. ASSUME UNCHANGED <<state, seen, sent, process>> PROVE Follows'
  BY <1>1 DEF Follows, SentAt
<1>2. ASSUME NEW s \in Filter, NEW mid \in Mids,
             \/ WarmingTick(s, mid) \/ FlatTick(s, mid) \/ QuietTick(s, mid) \/ CrossTick(s, mid)
      PROVE  Follows'
  <2> DEFINE st == state[s]
             h == seen[s]
             moved == Moved(st, mid)
             g == Append(h, mid)
             n == Len(h) + 1
  <2>1. st \in SymbolState /\ h \in Seq(Mids) /\ Mirrors(st, h) /\ moved \in SymbolState
        /\ moved.above = st.above
    <3>1. st \in SymbolState /\ h \in Seq(Mids) /\ Mirrors(st, h)
      BY DEF IInv, TypeInv, Follows
    <3>2. QED  BY <3>1, MovedState
  <2>2. /\ Warming(moved) <=> n < Warmup
        /\ StandsStill(g, n) <=> ~Warming(moved) /\ Flat(moved.mids)
    BY <2>1, FlatMirrors
  <2>3. SignalAt(g, n) <=> ~StandsStill(g, n) /\ st.above \notin {Unset, FastAbove(moved)}
    BY <2>1, SignalMirrors
  <2>4. n \in Nat /\ Warmup \in Nat /\ (n >= Warmup <=> ~(n < Warmup))
    BY <2>1, WarmupAssumption
  <2>5. FastAbove(moved) \in Sides /\ st.above \in Sides \cup {Unset} /\ moved.seq \in Nat
    BY <2>1 DEF FastAbove, Sides, SymbolState
  <2> HIDE DEF st, h, moved, g, n
  <2>6. ASSUME UNCHANGED <<sent, process>>, ~(n >= Warmup /\ SignalAt(g, n))
        PROVE  \A r \in Filter : SentAt(r)' = SentAt(r) \cup
                 (IF r = s /\ n >= Warmup /\ SignalAt(g, n) THEN {n} ELSE {})
    BY <2>6 DEF SentAt
  <2>7. ASSUME NEW above \in Sides \cup {Unset}, NEW seq \in Nat,
               above = IF StandsStill(g, n) THEN st.above ELSE FastAbove(moved),
               state' = [state EXCEPT ![s] = [moved EXCEPT !.above = above, !.seq = seq]],
               Arrives(s, mid),
               \A r \in Filter : SentAt(r)' = SentAt(r) \cup
                 (IF r = s /\ n >= Warmup /\ SignalAt(g, n) THEN {n} ELSE {})
        PROVE  Follows'
    <3> DEFINE new == [moved EXCEPT !.above = above, !.seq = seq]
    <3>1. state' = [state EXCEPT ![s] = new]
      BY <2>7
    <3>2. new = [moved EXCEPT !.above = above, !.seq = seq]
      OBVIOUS
    <3> HIDE DEF new
    <3>3. /\ new \in SymbolState /\ new.fast = moved.fast /\ new.slow = moved.slow
          /\ new.mids = moved.mids /\ new.above = above
      BY <2>1, <3>2 DEF SymbolState
    <3>4. QED  BY <2>7, <3>1, <3>3, TickFollows DEF st, h, moved, g, n
  <2>8. [moved EXCEPT !.above = st.above, !.seq = moved.seq] = moved
        /\ \A a : [moved EXCEPT !.above = a, !.seq = moved.seq] = [moved EXCEPT !.above = a]
    BY <2>1 DEF SymbolState
  <2>9. CASE WarmingTick(s, mid)
    <3>1. /\ Warming(moved) /\ Arrives(s, mid) /\ UNCHANGED <<sent, process>>
          /\ state' = [state EXCEPT ![s] = [moved EXCEPT !.above = FastAbove(moved)]]
      BY <2>9 DEF WarmingTick, Arrives, st, moved
    <3>2. ~StandsStill(g, n) /\ ~(n >= Warmup)
      BY <2>2, <2>4, <3>1
    <3>3. QED  BY <2>5, <2>6, <2>7, <2>8, <3>1, <3>2
  <2>10. CASE FlatTick(s, mid)
    <3>1. /\ ~Warming(moved) /\ Flat(moved.mids) /\ Arrives(s, mid) /\ UNCHANGED <<sent, process>>
          /\ state' = [state EXCEPT ![s] = moved]
      BY <2>10 DEF FlatTick, Arrives, st, moved
    <3>2. StandsStill(g, n) /\ ~SignalAt(g, n)
      BY <2>2, <2>3, <3>1
    <3>3. QED  BY <2>5, <2>6, <2>7, <2>8, <3>1, <3>2
  <2>11. CASE QuietTick(s, mid)
    <3>1. /\ ~Warming(moved) /\ ~Flat(moved.mids) /\ Arrives(s, mid) /\ UNCHANGED <<sent, process>>
          /\ moved.above \in {Unset, FastAbove(moved)}
          /\ state' = [state EXCEPT ![s] = [moved EXCEPT !.above = FastAbove(moved)]]
      BY <2>11 DEF QuietTick, Arrives, st, moved
    <3>2. ~StandsStill(g, n) /\ ~SignalAt(g, n)
      BY <2>1, <2>2, <2>3, <3>1
    <3>3. QED  BY <2>5, <2>6, <2>7, <2>8, <3>1, <3>2
  <2>12. CASE CrossTick(s, mid)
    <3>1. /\ ~Warming(moved) /\ ~Flat(moved.mids) /\ Arrives(s, mid) /\ process' = process
          /\ moved.above \notin {Unset, FastAbove(moved)}
          /\ state' = [state EXCEPT ![s] = [moved EXCEPT !.above = FastAbove(moved), !.seq = moved.seq + 1]]
      BY <2>12 DEF CrossTick, Arrives, st, moved
    <3>2. ~StandsStill(g, n) /\ SignalAt(g, n) /\ n >= Warmup
      BY <2>1, <2>2, <2>3, <2>4, <3>1
    <3>3. \E i : i.symbol = s /\ i.process = process /\ i.at = n /\ sent' = sent \cup {i}
      <4>1. Len(seen'[s]) = n
        <5>1. seen'[s] = Append(h, mid)
          BY <3>1 DEF Arrives, IInv, TypeInv, h
        <5>2. QED  BY <2>1, <5>1 DEF n
      <4> DEFINE i == [symbol |-> s, ts |-> now, seq |-> moved.seq + 1, process |-> process,
                       at |-> Len(seen'[s]),
                       side |-> IF FastAbove(moved) = "above" THEN "buy" ELSE "sell"]
      <4>2. sent' = sent \cup {i}
        BY <2>12 DEF CrossTick, st, moved
      <4>3. i.symbol = s /\ i.process = process /\ i.at = n
        BY <4>1
      <4> HIDE DEF i
      <4>4. QED  BY <4>2, <4>3
    <3>4. \A r \in Filter : SentAt(r)' = SentAt(r) \cup
            (IF r = s /\ n >= Warmup /\ SignalAt(g, n) THEN {n} ELSE {})
      BY <3>1, <3>2, <3>3 DEF SentAt
    <3>5. moved.seq + 1 \in Nat
      BY <2>5
    <3>6. QED  BY <2>5, <2>7, <3>1, <3>2, <3>4, <3>5
  <2>13. QED  BY <1>2, <2>9, <2>10, <2>11, <2>12
<1>3. CASE Restart
  <2>1. \A s \in Filter : state'[s] = Fresh /\ seen'[s] = <<>>
    BY <1>3 DEF Restart
  <2>2. \A x \in sent : x.process # process'
    BY <1>3 DEF Restart, IInv, TypeInv, Past
  <2>3. \A s \in Filter : SentAt(s)' = {}
    BY <1>3, <2>2 DEF Restart, SentAt
  <2>4. QED  BY <2>1, <2>3, FreshFollows DEF Follows
<1>4. QED
  BY <1>1, <1>2, <1>3 DEF Next, Ignored, Later, vars

(* Tick by tick, in every process, the strategy signals exactly where the
   averages of the symbol's prices have crossed since the last tick that was
   not flat (ema_cross.py:62-109). *)
THEOREM SignalsDefined == Spec => []SignalsAsDefined
<1>1. Init => Follows
  <2>1. ASSUME Init, NEW s \in Filter PROVE Mirrors(state[s], seen[s]) /\ SentAt(s) = Signals(seen[s])
    <3>1. state[s] = Fresh /\ seen[s] = <<>> /\ SentAt(s) = {}
      BY <2>1 DEF Init, SentAt
    <3>2. QED  BY <3>1, FreshFollows
  <2>2. QED  BY <2>1 DEF Follows
<1>2. Follows => SignalsAsDefined
  BY DEF Follows, SentAt, SignalsAsDefined
<1>3. QED  BY <1>1, <1>2, FollowsStep, Invariance, PTL DEF Spec
=============================================================================
