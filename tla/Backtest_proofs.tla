---------------------------- MODULE Backtest_proofs ----------------------------
(***************************************************************************)
(* Proofs about Backtest, for any ticks, days, rows, batch and window      *)
(* sizes, parameter grids and outcomes of replays.                         *)
(***************************************************************************)
EXTENDS Backtest, FiniteSetTheorems, TLAPS

Bags == [Tick -> Nat]

Stores == [buffer : Bags, file : [Day -> Bags], torn : SUBSET Day, lost : Bags, raised : BOOLEAN]

(* A store whose buffer belongs to day d, and whose files hold ticks of their
   own day. *)
Pure(s, d) ==
  /\ \A e \in Day, t \in Tick : s.file[e][t] > 0 => DayOf[t] = e
  /\ \A t \in Tick : s.buffer[t] > 0 => DayOf[t] = d

Total(s, t) == s.buffer[t] + s.file[DayOf[t]][t] + s.lost[t]

RecorderInv ==
  /\ buffer \in Bags /\ file \in [Day -> Bags] /\ torn \subseteq Day
  /\ recorded \in Bags /\ lost \in Bags
  /\ day \in Day \cup {NoDay}
  /\ pandas \in BOOLEAN /\ clean \in BOOLEAN
  /\ torn # {} => pandas
  /\ DayFilesPure
  /\ EachTickKeptOnce

-----------------------------------------------------------------------------
(* The recorder *)
LEMMA BagEmpty == NoTicks \in Bags /\ \A a, b \in Bags : Plus(a, b) \in Bags
BY DEF Bags, NoTicks, Plus

(* A bag that is not empty counts some tick. *)
LEMMA BagNotEmpty == ASSUME NEW b \in Bags, b # NoTicks PROVE \E t \in Tick : b[t] > 0
<1>1. PICK t \in Tick : b[t] # 0
  BY DEF Bags, NoTicks
<1>2. QED  BY <1>1 DEF Bags

(* The recorder's variables, taken as one record, are a store in which each tick
   recorded is found once. *)
LEMMA StoreOfState ==
  ASSUME RecorderInv
  PROVE  /\ Store \in Stores /\ Pure(Store, day) /\ ~Store.raised
         /\ Store.buffer = buffer /\ Store.file = file /\ Store.torn = torn /\ Store.lost = lost
         /\ \A t \in Tick : Total(Store, t) = recorded[t]
<1>1. /\ Store \in Stores /\ ~Store.raised
      /\ Store.buffer = buffer /\ Store.file = file /\ Store.torn = torn /\ Store.lost = lost
  BY DEF RecorderInv, Store, Stores
<1>2. Pure(Store, day)
  BY <1>1 DEF RecorderInv, DayFilesPure, Pure
<1>3. \A t \in Tick : Total(Store, t) = recorded[t]
  BY <1>1 DEF RecorderInv, EachTickKeptOnce, Total
<1>4. QED  BY <1>1, <1>2, <1>3

(* Clearing a buffer moves its ticks to the lost ones and loses count of none. *)
LEMMA DroppedKeeps ==
  ASSUME NEW s \in Stores, NEW d, Pure(s, d)
  PROVE  /\ Dropped(s) \in Stores /\ Pure(Dropped(s), d)
         /\ \A t \in Tick : Total(Dropped(s), t) = Total(s, t)
         /\ Dropped(s).raised = s.raised /\ Dropped(s).torn = s.torn
<1> DEFINE r == Dropped(s)
<1>1. /\ r \in Stores /\ r.buffer = NoTicks /\ r.file = s.file /\ r.torn = s.torn
      /\ r.lost = Plus(s.lost, s.buffer) /\ r.raised = s.raised
  BY BagEmpty DEF Dropped, Stores
<1>2. s.buffer \in Bags /\ s.lost \in Bags /\ s.file \in [Day -> Bags]
  BY DEF Stores
<1> HIDE DEF r
<1>3. Pure(r, d)
  BY <1>1 DEF Pure, NoTicks
<1>4. ASSUME NEW t \in Tick PROVE Total(r, t) = Total(s, t)
  <2>1. r.buffer[t] = 0 /\ r.lost[t] = s.lost[t] + s.buffer[t]
    BY <1>1 DEF NoTicks, Plus
  <2>2. s.buffer[t] \in Nat /\ s.lost[t] \in Nat /\ s.file[DayOf[t]][t] \in Nat
    BY <1>2, DayAssumption DEF Bags
  <2>3. QED  BY <2>1, <2>2, <1>1 DEF Total
<1>5. QED  BY <1>1, <1>3, <1>4 DEF r

(* The day's file takes over the whole buffer, which is of that day. *)
LEMMA WrittenKeeps ==
  ASSUME NEW s \in Stores, NEW d \in Day, Pure(s, d)
  PROVE  /\ Written(s, d) \in Stores /\ Pure(Written(s, d), d)
         /\ \A t \in Tick : Total(Written(s, d), t) = Total(s, t)
         /\ Written(s, d).raised = s.raised /\ Written(s, d).torn = s.torn
         /\ Written(s, d).lost = s.lost
<1> DEFINE r == Written(s, d)
<1>1. s.buffer \in Bags /\ s.lost \in Bags /\ s.file \in [Day -> Bags] /\ s.file[d] \in Bags
  BY DEF Stores
<1>2. /\ r.buffer = NoTicks /\ r.file = [s.file EXCEPT ![d] = Plus(@, s.buffer)]
      /\ r.torn = s.torn /\ r.lost = s.lost /\ r.raised = s.raised
      /\ r \in Stores
  BY <1>1, BagEmpty DEF Written, Stores
<1> HIDE DEF r
<1>3. /\ r.file[d] = Plus(s.file[d], s.buffer)
      /\ \A e \in Day : e # d => r.file[e] = s.file[e]
  BY <1>1, <1>2
<1>4. \A t \in Tick : /\ r.file[d][t] = s.file[d][t] + s.buffer[t] /\ r.buffer[t] = 0
                      /\ s.file[d][t] \in Nat /\ s.buffer[t] \in Nat /\ s.lost[t] \in Nat
  BY <1>1, <1>2, <1>3 DEF Plus, NoTicks, Bags
<1>5. Pure(r, d)
  BY <1>3, <1>4 DEF Pure
<1>6. ASSUME NEW t \in Tick PROVE Total(r, t) = Total(s, t)
  <2>1. CASE DayOf[t] = d
    BY <2>1, <1>2, <1>4 DEF Total
  <2>2. CASE DayOf[t] # d
    <3>1. s.buffer[t] = 0 /\ r.file[DayOf[t]] = s.file[DayOf[t]]
      BY <2>2, <1>3, <1>4, DayAssumption DEF Pure
    <3>2. QED  BY <3>1, <1>2, <1>4 DEF Total
  <2>3. QED  BY <2>1, <2>2
<1>7. QED  BY <1>2, <1>5, <1>6 DEF r

(* What a torn file held is counted as lost. *)
LEMMA TornKeeps ==
  ASSUME NEW s \in Stores, NEW d \in Day, Pure(s, d)
  PROVE  /\ Torn(s, d) \in Stores /\ Pure(Torn(s, d), d)
         /\ \A t \in Tick : Total(Torn(s, d), t) = Total(s, t)
         /\ Torn(s, d).raised
<1> DEFINE r == Torn(s, d)
<1>1. s.buffer \in Bags /\ s.lost \in Bags /\ s.file \in [Day -> Bags] /\ s.file[d] \in Bags
  BY DEF Stores
<1>2. /\ r.buffer = s.buffer /\ r.file = [s.file EXCEPT ![d] = NoTicks]
      /\ r.lost = Plus(s.lost, s.file[d]) /\ r.raised
      /\ r \in Stores
  BY <1>1, BagEmpty DEF Torn, Stores
<1> HIDE DEF r
<1>3. /\ r.file[d] = NoTicks
      /\ \A e \in Day : e # d => r.file[e] = s.file[e]
  BY <1>1, <1>2
<1>4. \A t \in Tick : /\ r.file[d][t] = 0 /\ r.lost[t] = s.lost[t] + s.file[d][t]
                      /\ s.file[d][t] \in Nat /\ s.buffer[t] \in Nat /\ s.lost[t] \in Nat
  BY <1>1, <1>2, <1>3 DEF Plus, NoTicks, Bags
<1>5. Pure(r, d)
  BY <1>2, <1>3, <1>4 DEF Pure
<1>6. ASSUME NEW t \in Tick PROVE Total(r, t) = Total(s, t)
  <2>1. CASE DayOf[t] = d
    BY <2>1, <1>2, <1>4 DEF Total
  <2>2. CASE DayOf[t] # d
    <3>1. s.file[d][t] = 0 /\ r.file[DayOf[t]] = s.file[DayOf[t]] /\ s.file[DayOf[t]][t] \in Nat
      BY <2>2, <1>1, <1>3, <1>4, DayAssumption DEF Pure, Bags
    <3>2. QED  BY <3>1, <1>2, <1>4 DEF Total
  <2>3. QED  BY <2>1, <2>2
<1>7. QED  BY <1>2, <1>5, <1>6 DEF r

(* Every outcome of a flush keeps the ticks' count and the files' days; it
   loses nothing but by an exception or without pandas, and over a torn file
   it does nothing but raise. *)
LEMMA FlushedKeeps ==
  ASSUME NEW s \in Stores, NEW d \in Day \cup {NoDay}, Pure(s, d), ~s.raised, s.torn # {} => pandas,
         pandas \in BOOLEAN, NEW r \in Flushed(s, d)
  PROVE  /\ r \in Stores /\ Pure(r, d)
         /\ \A t \in Tick : Total(r, t) = Total(s, t)
         /\ pandas /\ ~r.raised => r.lost = s.lost
         /\ r.torn # {} => pandas
         /\ s.buffer # NoTicks /\ d \in s.torn => r = [s EXCEPT !.raised = TRUE]
         /\ ~r.raised => \A t \in Tick : r.buffer[t] = 0
<1> DEFINE x == [s EXCEPT !.raised = TRUE]
<1>1. /\ x \in Stores /\ Pure(x, d) /\ x.raised /\ x.torn = s.torn
      /\ \A t \in Tick : Total(x, t) = Total(s, t)
  <2>1. x \in Stores /\ x.raised /\ x.torn = s.torn /\ x.buffer = s.buffer /\ x.file = s.file /\ x.lost = s.lost
    BY DEF Stores
  <2> HIDE DEF x
  <2>2. QED  BY <2>1 DEF Pure, Total
<1> HIDE DEF x
<1>2. CASE s.buffer = NoTicks
  BY <1>2 DEF Flushed, NoTicks
<1>3. CASE s.buffer # NoTicks /\ ~pandas
  <2>1. r = Dropped(s)
    BY <1>3 DEF Flushed
  <2>2. r.buffer = NoTicks
    BY <2>1 DEF Dropped, Stores
  <2>3. s.torn = {}
    BY <1>3
  <2>4. QED  BY <1>3, <2>1, <2>2, <2>3, DroppedKeeps DEF NoTicks
<1>4. CASE s.buffer # NoTicks /\ pandas
  <2>1. d \in Day
    <3>1. PICK t \in Tick : s.buffer[t] > 0
      BY <1>4, BagNotEmpty DEF Stores
    <3>2. QED  BY <3>1, DayAssumption DEF Pure
  <2>2. CASE d \in s.torn
    <3>1. r = x
      BY <2>2, <1>4 DEF Flushed, x
    <3>2. QED  BY <3>1, <1>1, <1>4 DEF x
  <2>3. CASE d \notin s.torn
    <3>1. r = Written(s, d) \/ r = x \/ r = Torn(s, d)
      BY <2>3, <1>4 DEF Flushed, x
    <3>2. Written(s, d).buffer = NoTicks
      BY DEF Written, Stores
    <3>3. CASE r = Written(s, d)
      BY <3>3, <3>2, <2>1, <2>3, <1>4, WrittenKeeps DEF NoTicks
    <3>4. CASE r = x
      BY <3>4, <1>1, <1>4, <2>3
    <3>5. CASE r = Torn(s, d)
      BY <3>5, <2>1, <2>3, <1>4, TornKeeps
    <3>6. QED  BY <3>1, <3>3, <3>4, <3>5
  <2>4. QED  BY <2>2, <2>3
<1>5. QED  BY <1>2, <1>3, <1>4

(* A state that has taken over a good store. *)
LEMMA BecomeKeeps ==
  ASSUME RecorderInv, NEW s \in Stores, Become(s), lost' = s.lost, pandas' = pandas,
         Pure(s, day'), day' \in Day \cup {NoDay}, recorded' \in Bags,
         \A t \in Tick : Total(s, t) = recorded'[t],
         s.torn # {} => pandas,
         pandas /\ clean' => s.lost = NoTicks
  PROVE  RecorderInv'
<1>1. buffer' = s.buffer /\ file' = s.file /\ torn' = s.torn /\ clean' = (clean /\ ~s.raised)
  BY DEF Become
<1>2. /\ s.buffer \in Bags /\ s.file \in [Day -> Bags] /\ s.torn \subseteq Day /\ s.lost \in Bags
  BY DEF Stores
<1>3. DayFilesPure'
  BY <1>1 DEF DayFilesPure, Pure
<1>4. EachTickKeptOnce'
  <2>1. ASSUME NEW t \in Tick PROVE recorded'[t] = buffer'[t] + file'[DayOf[t]][t] + lost'[t]
    BY <1>1 DEF Total
  <2>2. QED  BY <2>1 DEF EachTickKeptOnce
<1>5. clean' \in BOOLEAN
  BY <1>1
<1>6. QED  BY <1>1, <1>2, <1>3, <1>4, <1>5 DEF RecorderInv

(* Before a tick is appended the buffer is empty or of the tick's day. *)
LEMMA TurnKeeps ==
  ASSUME RecorderInv, NEW t \in Tick, NEW s \in TurnOfDay(t)
  PROVE  /\ s \in Stores /\ Pure(s, day)
         /\ ~s.raised => Pure(s, DayOf[t])
         /\ \A u \in Tick : Total(s, u) = recorded[u]
         /\ pandas /\ ~s.raised => s.lost = lost
         /\ s.torn # {} => pandas
         /\ buffer # NoTicks /\ day \in torn /\ ~s.raised => s = Store /\ DayOf[t] = day
         /\ buffer # NoTicks /\ day \in torn => s.buffer = buffer /\ s.file = file
<1> DEFINE st == Store
<1>1. /\ st \in Stores /\ Pure(st, day) /\ ~st.raised
      /\ st.buffer = buffer /\ st.file = file /\ st.torn = torn /\ st.lost = lost
      /\ \A u \in Tick : Total(st, u) = recorded[u]
  BY StoreOfState
<1>2. /\ day \in Day \cup {NoDay} /\ pandas \in BOOLEAN /\ (torn # {} => pandas)
      /\ torn \subseteq Day /\ NoDay \notin Day /\ DayOf[t] \in Day
  BY DayAssumption DEF RecorderInv
<1> HIDE DEF st
<1>3. CASE DayTurns(t)
  <2>1. s \in Flushed(st, day)
    BY <1>3 DEF TurnOfDay, st
  <2>2. /\ s \in Stores /\ Pure(s, day)
        /\ \A u \in Tick : Total(s, u) = Total(st, u)
        /\ pandas /\ ~s.raised => s.lost = st.lost
        /\ s.torn # {} => pandas
        /\ st.buffer # NoTicks /\ day \in st.torn => s = [st EXCEPT !.raised = TRUE]
        /\ ~s.raised => \A u \in Tick : s.buffer[u] = 0
    BY <1>1, <1>2, <2>1, FlushedKeeps
  <2>3. ~s.raised => Pure(s, DayOf[t])
    BY <2>2 DEF Pure
  <2>4. buffer # NoTicks /\ day \in torn => s.raised /\ s.buffer = buffer /\ s.file = file
    BY <2>2, <1>1 DEF Stores
  <2>5. QED  BY <2>2, <2>3, <2>4, <1>1
<1>4. CASE ~DayTurns(t)
  <2>1. s = st /\ day \in {NoDay, DayOf[t]}
    BY <1>4 DEF TurnOfDay, DayTurns, st
  <2>2. Pure(s, DayOf[t])
    BY <2>1, <1>1, <1>2, DayAssumption DEF Pure
  <2>3. day \in torn => DayOf[t] = day
    BY <2>1, <1>2
  <2>4. QED  BY <2>1, <2>2, <2>3, <1>1, <1>2 DEF st
<1>5. QED  BY <1>3, <1>4

(* A tick recorded, with the flush it may cause, is found once, in its own day. *)
LEMMA RecordKeeps ==
  ASSUME RecorderInv, NEW t \in Tick, Record(t)
  PROVE  /\ RecorderInv'
         /\ buffer # NoTicks /\ day \in torn =>
              day' = day /\ file' = file /\ \A u \in Tick : buffer'[u] >= buffer[u]
<1>1. PICK turned \in TurnOfDay(t) :
        /\ ~turned.raised
        /\ \E s \in IF Rows([turned EXCEPT !.buffer[t] = @ + 1].buffer) >= FlushEvery
                      THEN Flushed([turned EXCEPT !.buffer[t] = @ + 1], DayOf[t])
                      ELSE {[turned EXCEPT !.buffer[t] = @ + 1]} :
             Become(s) /\ lost' = s.lost
  BY DEF Record
<1> DEFINE appended == [turned EXCEPT !.buffer[t] = @ + 1]
<1>2. PICK s \in IF Rows(appended.buffer) >= FlushEvery THEN Flushed(appended, DayOf[t]) ELSE {appended} :
        Become(s) /\ lost' = s.lost
  BY <1>1
<1>3. /\ day' = DayOf[t] /\ recorded' = [recorded EXCEPT ![t] = @ + 1] /\ pandas' = pandas
      /\ DayOf[t] \in Day /\ recorded \in Bags /\ pandas \in BOOLEAN
      /\ buffer \in Bags /\ file \in [Day -> Bags] /\ torn \subseteq Day
  BY DayAssumption DEF Record, Called, RecorderInv
<1>4. /\ turned \in Stores /\ Pure(turned, DayOf[t])
      /\ \A u \in Tick : Total(turned, u) = recorded[u]
      /\ pandas => turned.lost = lost
      /\ turned.torn # {} => pandas
      /\ buffer # NoTicks /\ day \in torn => turned = Store /\ DayOf[t] = day
  BY <1>1, TurnKeeps
<1>5. /\ turned.buffer \in Bags /\ turned.lost \in Bags /\ turned.file \in [Day -> Bags]
  BY <1>4 DEF Stores
<1>6. [turned.buffer EXCEPT ![t] = @ + 1] \in Bags
  BY <1>5 DEF Bags
<1>7. /\ appended \in Stores /\ appended.buffer = [turned.buffer EXCEPT ![t] = @ + 1]
      /\ appended.file = turned.file /\ appended.lost = turned.lost
      /\ appended.torn = turned.torn /\ ~appended.raised
  BY <1>1, <1>4, <1>6 DEF Stores
<1> HIDE DEF appended
<1>8. /\ appended.buffer[t] = turned.buffer[t] + 1 /\ turned.buffer[t] \in Nat
      /\ \A u \in Tick : u # t => appended.buffer[u] = turned.buffer[u]
  BY <1>5, <1>7 DEF Bags
<1>9. Pure(appended, DayOf[t])
  BY <1>4, <1>7, <1>8 DEF Pure
<1>10. recorded' \in Bags /\ recorded'[t] = recorded[t] + 1
       /\ \A u \in Tick : u # t => recorded'[u] = recorded[u]
  BY <1>3 DEF Bags
<1>11. ASSUME NEW u \in Tick PROVE Total(appended, u) = recorded'[u]
  <2>1. turned.buffer[u] \in Nat /\ turned.lost[u] \in Nat /\ turned.file[DayOf[u]][u] \in Nat
    BY <1>5, DayAssumption DEF Bags
  <2>2. turned.buffer[u] + turned.file[DayOf[u]][u] + turned.lost[u] = recorded[u]
    BY <1>4 DEF Total
  <2>3. CASE u = t
    BY <2>1, <2>2, <2>3, <1>7, <1>8, <1>10 DEF Total
  <2>4. CASE u # t
    BY <2>1, <2>2, <2>4, <1>7, <1>8, <1>10 DEF Total
  <2>5. QED  BY <2>3, <2>4
<1>12. /\ s \in Stores /\ Pure(s, DayOf[t])
       /\ \A u \in Tick : Total(s, u) = Total(appended, u)
       /\ pandas /\ ~s.raised => s.lost = appended.lost
       /\ s.torn # {} => pandas
       /\ appended.buffer # NoTicks /\ DayOf[t] \in appended.torn
            => s.buffer = appended.buffer /\ s.file = appended.file
  <2>1. CASE s = appended
    BY <2>1, <1>4, <1>7, <1>9
  <2>2. CASE s \in Flushed(appended, DayOf[t])
    <3>1. /\ s \in Stores /\ Pure(s, DayOf[t])
          /\ \A u \in Tick : Total(s, u) = Total(appended, u)
          /\ pandas /\ ~s.raised => s.lost = appended.lost
          /\ s.torn # {} => pandas
          /\ appended.buffer # NoTicks /\ DayOf[t] \in appended.torn => s = [appended EXCEPT !.raised = TRUE]
      BY <2>2, <1>3, <1>4, <1>7, <1>9, FlushedKeeps
    <3>2. [appended EXCEPT !.raised = TRUE].buffer = appended.buffer
          /\ [appended EXCEPT !.raised = TRUE].file = appended.file
      BY <1>7 DEF Stores
    <3>3. QED  BY <3>1, <3>2
  <2>3. QED  BY <1>2, <2>1, <2>2
<1>13. pandas /\ clean' => s.lost = NoTicks
  <2>1. clean' = (clean /\ ~s.raised)
    BY <1>2 DEF Become
  <2>2. pandas /\ clean => lost = NoTicks
    BY DEF RecorderInv, EachTickKeptOnce
  <2>3. QED  BY <2>1, <2>2, <1>4, <1>7, <1>12
<1>14. RecorderInv'
  BY <1>2, <1>3, <1>10, <1>11, <1>12, <1>13, BecomeKeeps
<1>15. ASSUME buffer # NoTicks, day \in torn
       PROVE  day' = day /\ file' = file /\ \A u \in Tick : buffer'[u] >= buffer[u]
  <2>1. turned.buffer = buffer /\ turned.file = file /\ turned.torn = torn /\ DayOf[t] = day
    BY <1>4, <1>15, StoreOfState
  <2>2. appended.buffer # NoTicks
    <3>1. appended.buffer[t] > 0
      BY <1>8
    <3>2. QED  BY <3>1 DEF NoTicks
  <2>3. buffer' = appended.buffer /\ file' = file
    BY <2>1, <2>2, <1>2, <1>7, <1>12, <1>15 DEF Become
  <2>4. \A u \in Tick : buffer[u] \in Nat
    BY <1>3 DEF Bags
  <2>5. QED  BY <2>1, <2>3, <2>4, <1>3, <1>8
<1>16. QED  BY <1>14, <1>15

(* A tick whose recording raises leaves every tick found once. *)
LEMMA RecordFailsKeeps ==
  ASSUME RecorderInv, NEW t \in Tick, RecordFails(t)
  PROVE  /\ RecorderInv'
         /\ buffer # NoTicks /\ day \in torn =>
              day' = day /\ file' = file /\ \A u \in Tick : buffer'[u] >= buffer[u]
<1>1. PICK s \in TurnOfDay(t) : s.raised /\ Become(s) /\ lost' = [s.lost EXCEPT ![t] = @ + 1]
  BY DEF RecordFails
<1>2. /\ s \in Stores /\ Pure(s, day)
      /\ \A u \in Tick : Total(s, u) = recorded[u]
      /\ s.torn # {} => pandas
      /\ buffer # NoTicks /\ day \in torn => s.buffer = buffer /\ s.file = file
  BY TurnKeeps
<1>3. /\ day' = day /\ recorded' = [recorded EXCEPT ![t] = @ + 1] /\ pandas' = pandas
      /\ recorded \in Bags /\ buffer \in Bags
      /\ s.buffer \in Bags /\ s.lost \in Bags /\ s.file \in [Day -> Bags] /\ s.torn \subseteq Day
  BY <1>2 DEF RecordFails, Called, RecorderInv, Stores
<1>4. buffer' = s.buffer /\ file' = s.file /\ torn' = s.torn /\ clean' = FALSE
  BY <1>1 DEF Become
<1>5. recorded' \in Bags /\ lost' \in Bags
  BY <1>1, <1>3 DEF Bags
<1>6. DayFilesPure'
  BY <1>2, <1>3, <1>4 DEF Pure, DayFilesPure
<1>7. ASSUME NEW u \in Tick PROVE recorded'[u] = buffer'[u] + file'[DayOf[u]][u] + lost'[u]
  <2>1. s.buffer[u] \in Nat /\ s.lost[u] \in Nat /\ s.file[DayOf[u]][u] \in Nat /\ recorded[u] \in Nat
    BY <1>3, DayAssumption DEF Bags
  <2>2. s.buffer[u] + s.file[DayOf[u]][u] + s.lost[u] = recorded[u]
    BY <1>2 DEF Total
  <2>3. /\ recorded'[u] = IF u = t THEN recorded[u] + 1 ELSE recorded[u]
        /\ lost'[u] = IF u = t THEN s.lost[u] + 1 ELSE s.lost[u]
    BY <1>1, <1>3 DEF Bags
  <2>4. QED  BY <2>1, <2>2, <2>3, <1>4
<1>8. RecorderInv'
  BY <1>2, <1>3, <1>4, <1>5, <1>6, <1>7 DEF RecorderInv, EachTickKeptOnce
<1>9. QED  BY <1>2, <1>3, <1>4, <1>8 DEF Bags

(* A flush moves the buffer to the file of its day, or leaves or loses it, but
   never counts a tick twice. *)
LEMMA FlushKeeps ==
  ASSUME RecorderInv, Flush
  PROVE  /\ RecorderInv'
         /\ buffer # NoTicks /\ day \in torn =>
              day' = day /\ file' = file /\ \A u \in Tick : buffer'[u] >= buffer[u]
<1>1. PICK s \in Flushed(Store, day) : Become(s) /\ lost' = s.lost
  BY DEF Flush
<1> DEFINE st == Store
<1>2. /\ st \in Stores /\ Pure(st, day) /\ ~st.raised
      /\ st.buffer = buffer /\ st.file = file /\ st.torn = torn /\ st.lost = lost
      /\ \A u \in Tick : Total(st, u) = recorded[u]
  BY StoreOfState
<1>3. /\ UNCHANGED <<day, pandas, recorded>>
      /\ day \in Day \cup {NoDay} /\ pandas \in BOOLEAN /\ (torn # {} => pandas)
      /\ recorded \in Bags /\ buffer \in Bags
      /\ pandas /\ clean => lost = NoTicks
  BY DEF Flush, RecorderInv, EachTickKeptOnce
<1>4. s \in Flushed(st, day)
  OBVIOUS
<1> HIDE DEF st
<1>5. /\ s \in Stores /\ Pure(s, day)
      /\ \A u \in Tick : Total(s, u) = Total(st, u)
      /\ pandas /\ ~s.raised => s.lost = st.lost
      /\ s.torn # {} => pandas
      /\ st.buffer # NoTicks /\ day \in st.torn => s = [st EXCEPT !.raised = TRUE]
  BY <1>2, <1>3, <1>4, FlushedKeeps
<1>6. clean' = (clean /\ ~s.raised) /\ buffer' = s.buffer /\ file' = s.file
  BY <1>1 DEF Become
<1>7. RecorderInv'
  BY <1>1, <1>2, <1>3, <1>5, <1>6, BecomeKeeps
<1>8. ASSUME buffer # NoTicks, day \in torn
      PROVE  day' = day /\ file' = file /\ \A u \in Tick : buffer'[u] >= buffer[u]
  <2>1. s = [st EXCEPT !.raised = TRUE]
    BY <1>2, <1>5, <1>8
  <2>2. s.buffer = buffer /\ s.file = file
    BY <2>1, <1>2 DEF Stores
  <2>3. QED  BY <2>2, <1>3, <1>6 DEF Bags
<1>9. QED  BY <1>7, <1>8

(* A restart keeps the invariant: what it drops is counted as lost. *)
LEMMA RestartKeeps == ASSUME RecorderInv, Restart PROVE RecorderInv'
<1>1. lost' \in Bags /\ buffer' \in Bags
  BY BagEmpty DEF Restart, RecorderInv
<1>2. ASSUME NEW u \in Tick PROVE recorded'[u] = buffer'[u] + file'[DayOf[u]][u] + lost'[u]
  <2>1. buffer[u] \in Nat /\ lost[u] \in Nat /\ file[DayOf[u]][u] \in Nat
    BY DayAssumption DEF RecorderInv, Bags
  <2>2. recorded[u] = buffer[u] + file[DayOf[u]][u] + lost[u]
    BY DEF RecorderInv, EachTickKeptOnce
  <2>3. buffer'[u] = 0 /\ lost'[u] = lost[u] + buffer[u] /\ file' = file /\ recorded' = recorded
    BY DEF Restart, Plus, NoTicks
  <2>4. QED  BY <2>1, <2>2, <2>3
<1>3. DayFilesPure'
  BY DEF Restart, RecorderInv, DayFilesPure, NoTicks
<1>4. QED  BY <1>1, <1>2, <1>3 DEF Restart, RecorderInv, EachTickKeptOnce

(* The empty store keeps the invariant. *)
LEMMA RecorderStart == RecorderInit => RecorderInv
<1> SUFFICES ASSUME RecorderInit PROVE RecorderInv
  OBVIOUS
<1>1. /\ buffer \in Bags /\ file \in [Day -> Bags] /\ recorded \in Bags /\ lost \in Bags
  BY BagEmpty DEF RecorderInit
<1>2. ASSUME NEW u \in Tick PROVE recorded[u] = buffer[u] + file[DayOf[u]][u] + lost[u]
  BY DayAssumption DEF RecorderInit, NoTicks
<1>3. DayFilesPure
  BY DEF RecorderInit, DayFilesPure, NoTicks
<1>4. QED  BY <1>1, <1>2, <1>3 DEF RecorderInit, RecorderInv, EachTickKeptOnce

(* What leaves the recorder alone keeps its invariant. *)
LEMMA RecorderStutters == RecorderInv /\ UNCHANGED recorderVars => RecorderInv'
BY DEF RecorderInv, recorderVars, DayFilesPure, EachTickKeptOnce

(* Every step of the recorder keeps its invariant and, beside a torn file, lets
   a buffer that holds something only grow. *)
LEMMA RecorderKeeps ==
  ASSUME RecorderInv, RecorderNext
  PROVE  /\ RecorderInv'
         /\ buffer # NoTicks /\ day \in torn /\ day' # NoDay =>
              day' = day /\ file' = file /\ \A u \in Tick : buffer'[u] >= buffer[u]
<1>1. CASE \E t \in Tick : Record(t)
  BY <1>1, RecordKeeps
<1>2. CASE \E t \in Tick : RecordFails(t)
  BY <1>2, RecordFailsKeeps
<1>3. CASE Flush
  BY <1>3, FlushKeeps
<1>4. CASE Restart
  BY <1>4, RestartKeeps DEF Restart
<1>5. QED  BY <1>1, <1>2, <1>3, <1>4 DEF RecorderNext

-----------------------------------------------------------------------------
(* The ingest: what is kept so far lies in the batches and the one at hand. *)
IngestInv ==
  /\ rows \in Bags /\ frames \in Bags /\ parquet \in Bags /\ valid \in Bags
  /\ csv = "header" => rows = NoTicks /\ frames = NoTicks /\ parquet = NoTicks /\ valid = NoTicks
  /\ csv = "rows" => valid = Plus(frames, rows)
  /\ EachRowIngested

(* Nothing is read yet, and nothing is due. *)
LEMMA IngestStart == IngestInit => IngestInv
BY BagEmpty DEF IngestInit, IngestInv, EachRowIngested

(* The union of bags does not depend on how they are put together. *)
LEMMA PlusRegroups ==
  ASSUME NEW a \in Bags, NEW b \in Bags, NEW c \in Bags
  PROVE  /\ Plus(Plus(a, b), c) = Plus(a, Plus(b, c))
         /\ Plus(Plus(a, b), NoTicks) = Plus(a, b)
BY DEF Bags, Plus, NoTicks

(* A row read or a batch written leaves frames and batch the valid rows so far. *)
LEMMA IngestKeeps == ASSUME IngestInv, IngestNext PROVE IngestInv'
<1>1. ASSUME NEW header \in Header, ReadHeader(header) PROVE IngestInv'
  <2>1. Plus(NoTicks, NoTicks) = NoTicks
    BY DEF Plus, NoTicks
  <2>2. QED  BY <1>1, <2>1 DEF ReadHeader, IngestInv, EachRowIngested
<1>2. CASE NoHeader
  BY <1>2 DEF NoHeader, IngestInv, EachRowIngested
<1>3. ASSUME NEW row \in Row, SkipRow(row) PROVE IngestInv'
  BY <1>3 DEF SkipRow, IngestInv, EachRowIngested
<1>4. ASSUME NEW row \in Row, KeepRow(row) PROVE IngestInv'
  <2> DEFINE one == One(TickOf(row))
             batch == Plus(rows, one)
  <2>1. one \in Bags
    BY DEF One, Bags
  <2> HIDE DEF one
  <2>2. /\ rows \in Bags /\ frames \in Bags /\ parquet \in Bags /\ valid \in Bags
        /\ valid = Plus(frames, rows) /\ valid' = Plus(valid, one)
        /\ csv' = csv /\ csv = "rows" /\ parquet' = parquet
    BY <1>4 DEF KeepRow, IngestInv, one
  <2>3. batch \in Bags /\ valid' \in Bags
    BY <2>1, <2>2, BagEmpty
  <2>4. valid' = Plus(frames, batch) /\ Plus(Plus(frames, batch), NoTicks) = Plus(frames, batch)
    BY <2>1, <2>2, <2>3, PlusRegroups
  <2>5. \/ rows' = NoTicks /\ frames' = Plus(frames, batch)
        \/ rows' = batch /\ frames' = frames
    BY <1>4 DEF KeepRow, one
  <2>6. rows' \in Bags /\ frames' \in Bags
    BY <2>2, <2>3, <2>5, BagEmpty
  <2>7. valid' = Plus(frames', rows')
    BY <2>4, <2>5
  <2>8. QED  BY <2>2, <2>3, <2>6, <2>7 DEF IngestInv, EachRowIngested
<1>5. CASE EndOfFile
  BY <1>5, BagEmpty DEF EndOfFile, IngestInv, EachRowIngested
<1>6. QED  BY <1>1, <1>2, <1>3, <1>4, <1>5 DEF IngestNext

(* What leaves the ingest alone keeps its invariant. *)
LEMMA IngestStutters == IngestInv /\ UNCHANGED ingestVars => IngestInv'
BY DEF IngestInv, ingestVars, EachRowIngested

-----------------------------------------------------------------------------
(* The walk *)
Windows == [train_start : Int, train_end : Int, test_start : Int, test_end : Int]

WalkInv ==
  /\ walk \in {"idle", "refused", "windows", "search", "test", "report", "died"}
  /\ data \in Seq(Tick) /\ Sorted(data)
  /\ sizes.train \in Int /\ sizes.test \in Int /\ sizes.step \in Nat \ {0}
  /\ i \in Nat /\ windows \in Seq(Windows)
  /\ walk \in {"idle", "refused"} => i = 0 /\ windows = <<>>
  /\ walk \notin {"idle", "refused"} => sizes.train > 0 /\ sizes.test > 0
  /\ EachTickTestedOnce
  /\ NoLookAhead

(* The rows of a bag are counted by a natural number. *)
LEMMA RowsCount == ASSUME NEW bag \in Bags PROVE Rows(bag) \in Nat
<1> DEFINE f == [t \in Tick |-> {t} \X (1..bag[t])]
           T == {{t} \X (1..bag[t]) : t \in Tick}
<1>1. f \in Surjection(Tick, T)
  BY DEF Surjection
<1>2. IsFiniteSet(T)
  BY <1>1, TickAssumption, FS_Surjection
<1>3. ASSUME NEW t \in Tick PROVE IsFiniteSet({t} \X (1..bag[t]))
  <2>1. bag[t] \in Int
    BY DEF Bags
  <2>2. IsFiniteSet(1..bag[t])
    BY <2>1, FS_Interval
  <2>3. IsFiniteSet({t})
    BY FS_Singleton
  <2>4. QED  BY <2>2, <2>3, FS_Product
<1>4. IsFiniteSet(UNION T)
  BY <1>2, <1>3, FS_UNION
<1>5. QED  BY <1>4, FS_CardinalityType DEF Rows

(* What the loader reads from the files of a recording is sorted by time. *)
LEMMA ReadingsSorted ==
  ASSUME NEW bag \in Bags, NEW s \in Readings(bag)
  PROVE  s \in Seq(Tick) /\ Sorted(s)
<1> DEFINE read == [t \in Tick |-> IF t.symbol = Symbol THEN bag[t] ELSE 0]
<1>1. read \in Bags
  BY DEF Bags
<1>2. Rows(read) \in Nat
  BY <1>1, RowsCount
<1>3. s \in [1..Rows(read) -> Tick] /\ Sorted(s)
  BY DEF Readings
<1> HIDE DEF read
<1>4. QED  BY <1>2, <1>3

(* Before the first walk the invariant holds. *)
LEMMA WalkStart == WalkInit => WalkInv
<1> SUFFICES ASSUME WalkInit PROVE WalkInv
  OBVIOUS
<1>1. /\ data = <<>> /\ windows = <<>> /\ i = 0 /\ walk = "idle"
      /\ sizes.train = 0 /\ sizes.test = 0 /\ sizes.step = 1
  BY DEF WalkInit, NotAsked
<1>2. Sorted(data) /\ EachTickTestedOnce /\ NoLookAhead
  BY <1>1 DEF Sorted, EachTickTestedOnce, NoLookAhead
<1>3. QED  BY <1>1, <1>2 DEF WalkInv

(* A walk begins on sorted data, with no window made. *)
LEMMA StartKeeps ==
  ASSUME WalkInv, NEW bag \in Bags, NEW ticks \in Readings(bag), NEW asked \in Sizes, NEW by,
         Start(ticks, asked, by)
  PROVE  WalkInv'
<1>1. ticks \in Seq(Tick) /\ Sorted(ticks)
  BY ReadingsSorted
<1>2. /\ data' = ticks /\ sizes' = asked /\ i' = 0 /\ windows' = <<>>
      /\ walk' = IF asked.train <= 0 \/ asked.test <= 0 THEN "refused" ELSE "windows"
      /\ asked.train \in Int /\ asked.test \in Int /\ asked.step \in Nat \ {0}
  BY SizesAssumption DEF Start, WalkInv
<1>3. Sorted(data)'
  BY <1>1, <1>2 DEF Sorted
<1>4. NoLookAhead'
  BY <1>2 DEF NoLookAhead
<1>5. EachTickTestedOnce'
  <2>1. \A q \in 0..Len(data') - 1 : ~(asked.train <= q /\ q < asked.train + 0)
    BY <1>1, <1>2
  <2>2. QED  BY <1>2, <2>1 DEF EachTickTestedOnce
<1>6. QED  BY <1>1, <1>2, <1>3, <1>4, <1>5 DEF WalkInv

(* A new window tests the ticks that follow those tested so far. *)
LEMMA AddWindowKeeps == ASSUME WalkInv, AddWindow PROVE WalkInv'
<1> DEFINE w == Window
           n == Len(windows)
<1>1. /\ walk = "windows" /\ walk' = "windows" /\ Fits
      /\ windows' = Append(windows, w) /\ i' = i + sizes.step
      /\ data' = data /\ sizes' = sizes
  BY DEF AddWindow
<1>2. /\ data \in Seq(Tick) /\ Sorted(data) /\ Len(data) \in Nat
      /\ sizes.train \in Int /\ sizes.test \in Int /\ sizes.step \in Nat \ {0}
      /\ i \in Nat /\ windows \in Seq(Windows)
      /\ sizes.train > 0 /\ sizes.test > 0
  BY <1>1 DEF WalkInv
<1>3. /\ w \in Windows
      /\ w.train_start = i /\ w.train_end = i + sizes.train
      /\ w.test_start = i + sizes.train /\ w.test_end = i + sizes.train + sizes.test
  BY <1>2 DEF Window, Windows
<1>4. w.test_end <= Len(data)
  BY <1>1, <1>3 DEF Fits
<1> HIDE DEF w
<1>5. /\ windows' \in Seq(Windows) /\ DOMAIN windows = 1..n /\ DOMAIN windows' = 1..n + 1
      /\ windows'[n + 1] = w /\ \A k \in 1..n : windows'[k] = windows[k]
      /\ n \in Nat
  BY <1>1, <1>2, <1>3
<1> HIDE DEF n
<1>6. NoLookAhead'
  <2> SUFFICES ASSUME NEW k \in 1..n + 1
               PROVE  /\ windows'[k].train_start >= 0 /\ windows'[k].test_end <= Len(data)
                      /\ \A p \in windows'[k].train_start + 1..windows'[k].train_end :
                           \A q \in windows'[k].test_start + 1..windows'[k].test_end :
                             p < q /\ data[p].ts <= data[q].ts
    BY <1>1, <1>5 DEF NoLookAhead
  <2>1. CASE k \in 1..n
    BY <2>1, <1>5 DEF WalkInv, NoLookAhead
  <2>2. CASE k = n + 1
    <3>1. ASSUME NEW p \in i + 1..i + sizes.train,
                 NEW q \in i + sizes.train + 1..i + sizes.train + sizes.test
          PROVE  p < q /\ data[p].ts <= data[q].ts
      <4>1. p \in 1..Len(data) /\ q \in 1..Len(data) /\ p < q
        BY <1>2, <1>3, <1>4
      <4>2. p \in DOMAIN data /\ q \in DOMAIN data
        BY <4>1, <1>2
      <4>3. QED  BY <4>1, <4>2, <1>2 DEF Sorted
    <3>2. QED  BY <2>2, <3>1, <1>2, <1>3, <1>4, <1>5
  <2>3. QED  BY <2>1, <2>2, <1>5
<1>7. ASSUME sizes.step = sizes.test
      PROVE  /\ \A q \in 0..Len(data) - 1 :
                  (\E k \in 1..n + 1 : windows'[k].test_start <= q /\ q < windows'[k].test_end)
                    <=> (sizes.train <= q /\ q < sizes.train + i')
             /\ \A q \in 0..Len(data) - 1 : \A j, k \in 1..n + 1 :
                  /\ windows'[j].test_start <= q /\ q < windows'[j].test_end
                  /\ windows'[k].test_start <= q /\ q < windows'[k].test_end
                  => j = k
  <2>1. ASSUME NEW q \in 0..Len(data) - 1
        PROVE  /\ (\E k \in 1..n : windows[k].test_start <= q /\ q < windows[k].test_end)
                    <=> (sizes.train <= q /\ q < sizes.train + i)
               /\ \A j, k \in 1..n :
                    /\ windows[j].test_start <= q /\ q < windows[j].test_end
                    /\ windows[k].test_start <= q /\ q < windows[k].test_end
                    => j = k
    BY <1>5, <1>7 DEF WalkInv, EachTickTestedOnce
  <2>2. ASSUME NEW q \in 0..Len(data) - 1, NEW k \in 1..n,
               windows[k].test_start <= q /\ q < windows[k].test_end
        PROVE  q < sizes.train + i
    BY <2>1, <2>2
  <2>3. ASSUME NEW q \in 0..Len(data) - 1
        PROVE  (windows'[n + 1].test_start <= q /\ q < windows'[n + 1].test_end)
                 <=> (sizes.train + i <= q /\ q < sizes.train + i')
    BY <1>1, <1>2, <1>3, <1>5, <1>7
  <2>4. ASSUME NEW q \in 0..Len(data) - 1
        PROVE  (\E k \in 1..n + 1 : windows'[k].test_start <= q /\ q < windows'[k].test_end)
                    <=> (sizes.train <= q /\ q < sizes.train + i')
    <3>1. (\E k \in 1..n + 1 : windows'[k].test_start <= q /\ q < windows'[k].test_end)
            <=> \/ \E k \in 1..n : windows[k].test_start <= q /\ q < windows[k].test_end
                \/ windows'[n + 1].test_start <= q /\ q < windows'[n + 1].test_end
      <4>1. \A k : k \in 1..n + 1 <=> k \in 1..n \/ k = n + 1
        BY <1>5
      <4>2. QED  BY <4>1, <1>5
    <3>2. (sizes.train <= q /\ q < sizes.train + i) \/ (sizes.train + i <= q /\ q < sizes.train + i')
            <=> (sizes.train <= q /\ q < sizes.train + i')
      BY <1>1, <1>2
    <3>3. (\E k \in 1..n : windows[k].test_start <= q /\ q < windows[k].test_end)
            <=> (sizes.train <= q /\ q < sizes.train + i)
      BY <2>1
    <3>4. QED  BY <3>1, <3>2, <3>3, <2>3
  <2>5. ASSUME NEW q \in 0..Len(data) - 1, NEW j \in 1..n + 1, NEW k \in 1..n + 1,
               windows'[j].test_start <= q /\ q < windows'[j].test_end,
               windows'[k].test_start <= q /\ q < windows'[k].test_end
        PROVE  j = k
    <3>1. CASE j \in 1..n /\ k \in 1..n
      BY <3>1, <2>1, <2>5, <1>5
    <3>2. CASE j \in 1..n /\ k = n + 1
      BY <3>2, <2>2, <2>3, <2>5, <1>2, <1>5
    <3>3. CASE j = n + 1 /\ k \in 1..n
      BY <3>3, <2>2, <2>3, <2>5, <1>2, <1>5
    <3>4. QED  BY <3>1, <3>2, <3>3, <1>5
  <2>6. QED  BY <2>4, <2>5
<1>8. EachTickTestedOnce'
  BY <1>1, <1>5, <1>7 DEF EachTickTestedOnce
<1>9. QED  BY <1>1, <1>2, <1>5, <1>6, <1>8 DEF WalkInv

(* Making the windows gives those of the multiples of the step, in order. *)
LEMMA WindowsMadeKeeps == ASSUME WalkInv, WindowsMade PROVE WalkInv'
<1>1. /\ walk = "windows" /\ walk' \in {"report", "search"}
      /\ UNCHANGED <<data, sizes, i, windows>>
      /\ ~(i + sizes.train + sizes.test <= Len(data))
  BY DEF WindowsMade, Fits
<1>2. /\ Len(data) \in Nat /\ i \in Nat /\ sizes.train \in Int /\ sizes.test \in Int
  BY DEF WalkInv
<1>3. Len(data) - (sizes.train + i) < sizes.test
  BY <1>1, <1>2
<1>4. EachTickTestedOnce'
  BY <1>1, <1>3 DEF WalkInv, EachTickTestedOnce
<1>5. NoLookAhead'
  BY <1>1 DEF WalkInv, NoLookAhead
<1>6. QED  BY <1>1, <1>4, <1>5 DEF WalkInv, Sorted

(* The searches and tests leave the windows alone. *)
LEMMA SearchKeeps ==
  ASSUME WalkInv, UNCHANGED <<data, sizes, i, windows>>,
         \/ walk' = walk
         \/ {walk, walk'} \subseteq {"search", "test", "report", "died"}
  PROVE  WalkInv'
<1>1. EachTickTestedOnce'
  BY DEF WalkInv, EachTickTestedOnce
<1>2. NoLookAhead'
  BY DEF WalkInv, NoLookAhead
<1>3. QED  BY <1>1, <1>2 DEF WalkInv, Sorted

(* Every step of a walk keeps its invariant. *)
LEMMA WalkKeeps == ASSUME WalkInv, WalkStep PROVE WalkInv'
<1>1. CASE AddWindow
  BY <1>1, AddWindowKeeps
<1>2. CASE WindowsMade
  BY <1>2, WindowsMadeKeeps
<1>3. ASSUME NEW replay \in Outcomes, TryCombo(replay) PROVE WalkInv'
  BY <1>3, SearchKeeps DEF TryCombo
<1>4. CASE SearchDone
  BY <1>4, SearchKeeps DEF SearchDone
<1>5. CASE Test
  BY <1>5, SearchKeeps DEF Test
<1>6. QED  BY <1>1, <1>2, <1>3, <1>4, <1>5 DEF WalkStep

-----------------------------------------------------------------------------
IInv == RecorderInv /\ IngestInv /\ WalkInv

(* A walk over the recorded or ingested ticks keeps all three invariants. *)
LEMMA WalkBegins == ASSUME IInv, NEW bag \in Bags, Walk(bag) PROVE IInv'
<1>1. PICK ticks \in Readings(bag), asked \in Sizes, by \in Objectives : Start(ticks, asked, by)
  BY DEF Walk
<1>2. WalkInv'
  BY <1>1, StartKeeps DEF IInv
<1>3. QED  BY <1>2, RecorderStutters, IngestStutters DEF Walk, IInv

(* The initial states satisfy the invariant. *)
LEMMA BacktestStart == Init => IInv
BY RecorderStart, IngestStart, WalkStart DEF Init, IInv

(* Every step of the offline pipeline keeps the invariant. *)
LEMMA BacktestStep == IInv /\ [Next]_vars => IInv'
<1> SUFFICES ASSUME IInv, [Next]_vars PROVE IInv'
  OBVIOUS
<1>1. WalkInv /\ UNCHANGED walkVars => WalkInv'
  BY SearchKeeps DEF walkVars
<1>2. CASE UNCHANGED vars
  BY <1>1, <1>2, RecorderStutters, IngestStutters DEF vars, IInv
<1>3. CASE RecorderStep
  BY <1>1, <1>3, RecorderKeeps, IngestStutters DEF RecorderStep, IInv
<1>4. CASE IngestStep
  BY <1>1, <1>4, RecorderStutters, IngestKeeps DEF IngestStep, IInv
<1>5. CASE WalkRecorded
  BY <1>5, WalkBegins DEF WalkRecorded, IInv, RecorderInv
<1>6. CASE WalkIngested
  BY <1>6, WalkBegins DEF WalkIngested, IInv, IngestInv
<1>7. CASE WalkOn
  BY <1>7, RecorderStutters, IngestStutters, WalkKeeps DEF WalkOn, IInv
<1>8. QED  BY <1>2, <1>3, <1>4, <1>5, <1>6, <1>7 DEF Next

(* The invariant of recorder, ingest and walk holds in every reachable state. *)
THEOREM Invariance == Spec => []IInv
BY BacktestStart, BacktestStep, PTL DEF Spec

(* The file of a day holds ticks of that day only, whatever order ticks arrive
   in and whichever flushes fail. *)
THEOREM FilesPure == Spec => []DayFilesPure
<1>1. IInv => DayFilesPure
  BY DEF IInv, RecorderInv
<1>2. QED  BY <1>1, Invariance, PTL

(* Every tick recorded is in one place, once, or was lost by a failure. *)
THEOREM TicksKeptOnce == Spec => []EachTickKeptOnce
<1>1. IInv => EachTickKeptOnce
  BY DEF IInv, RecorderInv
<1>2. QED  BY <1>1, Invariance, PTL

(* A torn file of the day in hand stops the recorder. *)
THEOREM TornFileEnds == Spec => TornFileEndsRecording
<1>1. IInv /\ [Next]_vars =>
        [buffer # NoTicks /\ day \in torn /\ day' # NoDay
           => day' = day /\ file' = file /\ \A t \in Tick : buffer'[t] >= buffer[t]]_recorderVars
  <2> SUFFICES ASSUME IInv, [Next]_vars, ~UNCHANGED recorderVars,
                      buffer # NoTicks, day \in torn, day' # NoDay
               PROVE  day' = day /\ file' = file /\ \A t \in Tick : buffer'[t] >= buffer[t]
    OBVIOUS
  <2>1. RecorderNext
    BY DEF Next, vars, RecorderStep, IngestStep, WalkRecorded, WalkIngested, WalkOn, Walk
  <2>2. QED  BY <2>1, RecorderKeeps DEF IInv
<1>2. QED  BY <1>1, Invariance, PTL DEF Spec, TornFileEndsRecording

(* The parquet file of an ingest holds the valid rows, whatever the batch
   size. *)
THEOREM RowsIngested == Spec => []EachRowIngested
<1>1. IInv => EachRowIngested
  BY DEF IInv, IngestInv
<1>2. QED  BY <1>1, Invariance, PTL

(* The test windows tile the data from the first training window on, for all
   sizes and any amount of data. *)
THEOREM TicksTestedOnce == Spec => []EachTickTestedOnce
<1>1. IInv => EachTickTestedOnce
  BY DEF IInv, WalkInv
<1>2. QED  BY <1>1, Invariance, PTL

(* No window is tuned on a tick later than one it is tested on. *)
THEOREM LooksNotAhead == Spec => []NoLookAhead
<1>1. IInv => NoLookAhead
  BY DEF IInv, WalkInv
<1>2. QED  BY <1>1, Invariance, PTL

-----------------------------------------------------------------------------
(* The search for the best: scores are numbers or -inf. *)
ScoreValues == Int \cup {NegInf}

SearchInv ==
  /\ tried \in Nat /\ scores \in Seq(ScoreValues) /\ Len(scores) = tried
  /\ bestScore \in ScoreValues
  /\ BestIsBest

(* "Greater" is a strict order in which what is not greater is no obstacle. *)
LEMMA GreaterOrders ==
  ASSUME NEW a \in ScoreValues, NEW b \in ScoreValues, NEW s \in ScoreValues,
         ~Greater(a, b), Greater(s, b)
  PROVE  Greater(s, a) /\ ~Greater(a, s) /\ ~Greater(s, s)
BY DEF ScoreValues, Greater

(* The parameters of a combination differ from having none. *)
LEMMA ParamsAreSome == \A combo : Params(combo) # NoParams
<1>1. \A combo : DOMAIN Params(combo) # DOMAIN NoParams
  BY DEF Params, NoParams
<1>2. QED  BY <1>1

(* Every outcome of a replay has a score. *)
LEMMA ScoreIsValue == ASSUME NEW replay \in Outcomes PROVE Score(replay) \in ScoreValues
BY OutcomesAssumption DEF Score, ScoreValues

(* A search that tried nothing found nothing. *)
LEMMA SearchBegins ==
  ASSUME tried = 0, scores = <<>>, bestParams = NoParams, bestScore = NegInf
  PROVE  SearchInv
<1>1. scores \in Seq(ScoreValues) /\ Len(scores) = 0
  OBVIOUS
<1>2. BestIsBest
  BY DEF BestIsBest
<1>3. QED  BY <1>1, <1>2 DEF SearchInv, ScoreValues

(* A further combination replaces the best exactly where its score is greater. *)
LEMMA TryKeepsBest == ASSUME SearchInv, NEW replay \in Outcomes, TryCombo(replay) PROVE SearchInv'
<1> DEFINE s == Score(replay)
<1>1. s \in ScoreValues
  BY ScoreIsValue
<1>2. /\ tried' = tried + 1 /\ scores' = Append(scores, s)
      /\ IF Greater(s, bestScore)
           THEN bestScore' = s /\ bestParams' = Params(AllCombos[tried + 1])
           ELSE UNCHANGED <<bestScore, bestParams>>
  BY DEF TryCombo
<1> HIDE DEF s
<1>3. /\ tried \in Nat /\ scores \in Seq(ScoreValues) /\ Len(scores) = tried
      /\ bestScore \in ScoreValues
      /\ \A n \in 1..tried : scores[n] \in ScoreValues /\ ~Greater(scores[n], bestScore)
      /\ bestParams = NoParams => bestScore = NegInf
      /\ bestParams # NoParams =>
           \E n \in 1..tried : /\ bestParams = Params(AllCombos[n]) /\ scores[n] = bestScore
                               /\ \A m \in 1..n - 1 : Greater(bestScore, scores[m])
  BY DEF SearchInv, BestIsBest
<1>4. /\ scores' \in Seq(ScoreValues) /\ Len(scores') = tried' /\ scores'[tried'] = s
      /\ \A n \in 1..tried : scores'[n] = scores[n]
      /\ \A n \in 1..tried' : n \in 1..tried \/ n = tried'
  BY <1>1, <1>2, <1>3
<1>5. CASE Greater(s, bestScore)
  <2>1. \A n \in 1..tried : Greater(s, scores[n]) /\ ~Greater(scores[n], s)
    BY <1>1, <1>3, <1>5, GreaterOrders
  <2>2. ~Greater(s, s)
    BY <1>1, <1>3 DEF Greater, ScoreValues
  <2>3. bestScore' = s /\ bestParams' = Params(AllCombos[tried']) /\ bestParams' # NoParams
    BY <1>2, <1>5, ParamsAreSome
  <2>4. \A n \in 1..tried' : ~Greater(scores'[n], bestScore')
    BY <1>4, <2>1, <2>2, <2>3
  <2>5. tried' \in 1..tried' /\ \A m \in 1..tried' - 1 : Greater(bestScore', scores'[m])
    BY <1>2, <1>3, <1>4, <2>1, <2>3
  <2>6. BestIsBest'
    BY <1>4, <2>3, <2>4, <2>5 DEF BestIsBest
  <2>7. QED  BY <1>1, <1>2, <1>3, <1>4, <2>3, <2>6 DEF SearchInv
<1>6. CASE ~Greater(s, bestScore)
  <2>1. UNCHANGED <<bestScore, bestParams>>
    BY <1>2, <1>6
  <2>2. \A n \in 1..tried' : ~Greater(scores'[n], bestScore')
    BY <1>3, <1>4, <1>6, <2>1
  <2>3. ASSUME bestParams # NoParams
        PROVE  \E n \in 1..tried' : /\ bestParams = Params(AllCombos[n]) /\ scores'[n] = bestScore
                                    /\ \A m \in 1..n - 1 : Greater(bestScore, scores'[m])
    <3>1. PICK n \in 1..tried : /\ bestParams = Params(AllCombos[n]) /\ scores[n] = bestScore
                                /\ \A m \in 1..n - 1 : Greater(bestScore, scores[m])
      BY <1>3, <2>3
    <3>2. n \in 1..tried' /\ \A m \in 1..n - 1 : scores'[m] = scores[m]
      BY <1>2, <1>3, <1>4
    <3>3. QED  BY <1>4, <3>1, <3>2
  <2>4. BestIsBest'
    BY <1>3, <2>1, <2>2, <2>3 DEF BestIsBest
  <2>5. QED  BY <1>2, <1>3, <1>4, <2>1, <2>4 DEF SearchInv
<1>7. QED  BY <1>5, <1>6

(* What leaves the search alone keeps its invariant. *)
LEMMA SearchUntouched ==
  ASSUME SearchInv, UNCHANGED <<tried, scores, bestParams, bestScore>>
  PROVE  SearchInv'
BY DEF SearchInv, BestIsBest

(* Every step keeps the best of the combinations tried. *)
LEMMA SearchStep == SearchInv /\ [Next]_vars => SearchInv'
<1> SUFFICES ASSUME SearchInv, [Next]_vars PROVE SearchInv'
  OBVIOUS
<1>1. CASE UNCHANGED <<tried, scores, bestParams, bestScore>>
  BY <1>1, SearchUntouched
<1>2. ASSUME NEW replay \in Outcomes, TryCombo(replay) PROVE SearchInv'
  BY <1>2, TryKeepsBest
<1>3. CASE Test
  <2>1. tried' = 0 /\ scores' = <<>> /\ bestParams' = NoParams /\ bestScore' = NegInf
    BY <1>3 DEF Test, NextSearch
  <2>2. scores' \in Seq(ScoreValues) /\ Len(scores') = 0
    BY <2>1
  <2>3. BestIsBest'
    BY <2>1 DEF BestIsBest, NoParams
  <2>4. QED  BY <2>1, <2>2, <2>3 DEF SearchInv, ScoreValues
<1>4. QED
  BY <1>1, <1>2, <1>3 DEF Next, WalkOn, WalkStep, RecorderStep, IngestStep, WalkRecorded, WalkIngested,
     Walk, Start, AddWindow, WindowsMade, SearchDone, walkVars, vars

(* The search returns the first of the best combinations, for every grid,
   objective and outcome of the replays. *)
THEOREM BestIsFound == Spec => []BestIsBest
<1>1. Init => SearchInv
  BY SearchBegins DEF Init, WalkInit
<1>2. SearchInv => BestIsBest
  BY DEF SearchInv
<1>3. QED  BY <1>1, <1>2, SearchStep, PTL DEF Spec
=============================================================================
