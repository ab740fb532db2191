--------------------------- MODULE LossLimits_proofs ---------------------------
(***************************************************************************)
(* Proofs about LossLimits, for any limits, results, days, connections and *)
(* restarts.                                                               *)
(***************************************************************************)
EXTENDS LossLimits, SequenceTheorems, TLAPS

Lines == [equity : Int, pnlToday : Int]

TypeInv ==
  /\ balance \in Int /\ floating \in Int /\ day \in Int /\ midnight \in Int
  /\ dayStart \in [date : Int, balance : Int]
  /\ conn \in Conns
  /\ lines \in [Conns -> Seq(Lines)]
  /\ cause \in BOOLEAN

(* An account that tells a loss at the limit was told for cause. *)
Told(acc) == DailyLossBreached(acc) => cause

AllTold ==
  /\ \A c \in Conns : \A n \in 1..Len(lines[c]) : Told(lines[c][n])
  /\ account = Unheard \/ Told(account)

(* Nothing is under way on the connections to come. *)
NoneAhead == \A c \in Conns : c > conn => lines[c] = <<>>

IInv == TypeInv /\ AllTold /\ NoneAhead

(* A line, or the account kept of it, tells the account as it is now. *)
Current(acc) == acc.equity = Equity /\ acc.pnlToday = balance - midnight

(* While the last word is under way it is the last line of the connection; once
   it is handled, and not overtaken, it is the account the gate reads. *)
WordInv ==
  /\ word = "sent" => lines[conn] # <<>> /\ Current(lines[conn][Len(lines[conn])])
  /\ word = "handled" => lines[conn] = <<>> /\ Current(account)

-----------------------------------------------------------------------------
(* The breach is a matter of the equity and the day's profit. *)
LEMMA BreachDepends ==
  ASSUME NEW a, NEW b, a.equity = b.equity, a.pnlToday = b.pnlToday
  PROVE  DailyLossBreached(a) <=> DailyLossBreached(b)
BY DEF DailyLossBreached

(* The broker's side, and lines that are lost, tell nothing new. *)
LEMMA TellsNothing ==
  ASSUME IInv, TypeInv', \A c \in Conns : lines'[c] = lines[c] \/ lines'[c] = <<>>,
         conn' >= conn, account' = account \/ account' = Unheard, cause' = cause
  PROVE  IInv'
<1>1. \A c \in Conns : \A n \in 1..Len(lines'[c]) : n \in 1..Len(lines[c]) /\ lines'[c][n] = lines[c][n]
  BY DEF IInv, TypeInv
<1>2. AllTold'
  BY <1>1 DEF IInv, AllTold, Told
<1>3. NoneAhead'
  <2>1. \A c \in Conns : c > conn' => c > conn
    BY AmountsAssumption DEF IInv, TypeInv, Conns
  <2>2. QED  BY <2>1 DEF IInv, NoneAhead
<1>4. QED  BY <1>2, <1>3 DEF IInv

(* A line that is sent, unlike the word of one that is not. *)
Sends ==
  /\ lines' = [lines EXCEPT ![conn] = Append(@, Line)]
  /\ word' = IF DayKnown THEN "sent" ELSE "unsent"
  /\ cause' = (cause \/ ~DayKnown \/ DailyLossBreached(Truth))

(* What the EA tells is the truth while it knows the start of the day. *)
LEMMA PushKeeps == ASSUME IInv, PushAccount PROVE IInv'
<1>1. /\ dayStart' = DayStart
      /\ UNCHANGED <<balance, floating, day, midnight, conn, account>>
  BY DEF PushAccount, brokerVars, brainVars
<1>2. dayStart' \in [date : Int, balance : Int]
  BY <1>1 DEF DayStart, IInv, TypeInv
<1>3. CASE UNCHANGED <<lines, word, cause>>
  <2>1. TypeInv'
    BY <1>1, <1>2, <1>3 DEF IInv, TypeInv
  <2>2. conn' >= conn
    BY <1>1, AmountsAssumption DEF IInv, TypeInv, Conns
  <2>3. QED  BY <1>1, <1>3, <2>1, <2>2, TellsNothing
<1>4. CASE Sends
  <2> DEFINE line == Line
  <2>1. line \in Lines
    BY <1>2 DEF Line, Lines, Equity, IInv, TypeInv
  <2>2. lines' = [lines EXCEPT ![conn] = Append(@, line)]
    BY <1>4 DEF Sends
  <2>3. DailyLossBreached(line) => cause'
    <3>1. CASE DayKnown
      <4>1. dayStart'.balance = midnight
        BY <1>1, <3>1 DEF DayStart, DayKnown
      <4>2. line.equity = Truth.equity /\ line.pnlToday = Truth.pnlToday
        BY <4>1 DEF Line, Truth
      <4>3. QED  BY <4>2, <1>4, BreachDepends DEF Sends
    <3>2. CASE ~DayKnown
      BY <3>2, <1>4 DEF Sends
    <3>3. QED  BY <3>1, <3>2
  <2>4. cause' \in BOOLEAN /\ (cause => cause')
    BY <1>4 DEF Sends, IInv, TypeInv
  <2> HIDE DEF line
  <2>5. TypeInv'
    <3>1. lines' \in [Conns -> Seq(Lines)]
      BY <2>1, <2>2 DEF IInv, TypeInv
    <3>2. QED  BY <1>1, <1>2, <2>4, <3>1 DEF IInv, TypeInv
  <2>6. ASSUME NEW c \in Conns, NEW n \in 1..Len(lines'[c])
        PROVE  DailyLossBreached(lines'[c][n]) => cause'
    <3>1. (n \in 1..Len(lines[c]) /\ lines'[c][n] = lines[c][n]) \/ lines'[c][n] = line
      <4>1. CASE c = conn
        <5>1. lines'[c] = Append(lines[c], line) /\ lines[c] \in Seq(Lines)
          BY <2>2, <4>1 DEF IInv, TypeInv
        <5>2. QED  BY <2>1, <5>1
      <4>2. CASE c # conn
        BY <2>2, <4>2 DEF IInv, TypeInv
      <4>3. QED  BY <4>1, <4>2
    <3>2. QED  BY <3>1, <2>3, <2>4 DEF IInv, AllTold, Told
  <2>7. AllTold'
    BY <1>1, <2>4, <2>6 DEF IInv, AllTold, Told
  <2>8. NoneAhead'
    <3>1. \A c \in Conns : c > conn => c # conn
      BY DEF IInv, TypeInv, Conns
    <3>2. QED  BY <1>1, <2>2, <3>1 DEF IInv, TypeInv, NoneAhead
  <2>9. QED  BY <2>5, <2>7, <2>8 DEF IInv
<1>5. QED  BY <1>3, <1>4 DEF PushAccount, Sends

(* An account message handled keeps the invariant, on whichever connection. *)
LEMMA HandleKeeps == ASSUME IInv, NEW c \in Conns, HandleAccount(c) PROVE IInv'
<1>1. /\ lines[c] \in Seq(Lines) /\ lines[c] # <<>>
      /\ lines' = [lines EXCEPT ![c] = Tail(@)]
      /\ account'.equity = lines[c][1].equity /\ account'.pnlToday = lines[c][1].pnlToday
      /\ UNCHANGED <<balance, floating, day, midnight, dayStart, conn, cause>>
  BY DEF HandleAccount, brokerVars, IInv, TypeInv
<1>2. 1 \in 1..Len(lines[c]) /\ Tail(lines[c]) \in Seq(Lines)
      /\ \A n \in 1..Len(Tail(lines[c])) :
           n + 1 \in 1..Len(lines[c]) /\ Tail(lines[c])[n] = lines[c][n + 1]
  BY <1>1
<1>3. lines' \in [Conns -> Seq(Lines)] /\ lines'[c] = Tail(lines[c])
      /\ \A d \in Conns : d # c => lines'[d] = lines[d]
  BY <1>1, <1>2 DEF IInv, TypeInv
<1>4. Told(account)'
  BY <1>1, <1>2, BreachDepends DEF IInv, AllTold, Told
<1>5. AllTold'
  BY <1>1, <1>2, <1>3, <1>4 DEF IInv, AllTold, Told
<1>6. NoneAhead'
  <2>1. ~(c > conn)
    BY <1>1 DEF IInv, NoneAhead
  <2>2. QED  BY <1>1, <1>3, <2>1 DEF IInv, NoneAhead
<1>7. QED  BY <1>1, <1>3, <1>5, <1>6 DEF IInv, TypeInv

(* The EA goes over to the next connection. *)
LEMMA NextConnIsOne == ASSUME TypeInv, conn < MaxConn, conn' = conn + 1 PROVE conn' \in Conns /\ conn' > conn
BY AmountsAssumption DEF TypeInv, Conns

(* The initial states satisfy the invariant. *)
LEMMA Start == Init => IInv
<1> SUFFICES ASSUME Init PROVE IInv
  OBVIOUS
<1>1. lines = [c \in Conns |-> <<>>] /\ account = Unheard /\ conn = 1
  BY DEF Init
<1>2. TypeInv
  <2>1. lines \in [Conns -> Seq(Lines)]
    BY <1>1
  <2>2. cause \in BOOLEAN
    BY DEF Init
  <2>3. conn \in Conns
    BY <1>1, AmountsAssumption DEF Conns
  <2>4. QED  BY AmountsAssumption, <2>1, <2>2, <2>3 DEF Init, TypeInv, NoDate
<1>3. QED  BY <1>1, <1>2 DEF IInv, AllTold, NoneAhead

(* Every step keeps the invariant. *)
LEMMA Step == IInv /\ [Next]_vars => IInv'
<1> SUFFICES ASSUME IInv, [Next]_vars PROVE IInv'
  OBVIOUS
<1> USE DEF brokerVars, linkVars, brainVars
<1>0. conn \in Int /\ conn >= conn
  BY DEF IInv, TypeInv, Conns
<1>1. CASE UNCHANGED vars
  BY <1>0, <1>1, TellsNothing DEF vars, IInv, TypeInv
<1>2. ASSUME NEW result \in Results, Close(result) PROVE IInv'
  BY <1>0, <1>2, AmountsAssumption, TellsNothing DEF Close, IInv, TypeInv
<1>3. ASSUME NEW float \in Floats, PricesMove(float) PROVE IInv'
  BY <1>0, <1>3, AmountsAssumption, TellsNothing DEF PricesMove, IInv, TypeInv
<1>4. CASE NewDay
  BY <1>0, <1>4, TellsNothing DEF NewDay, IInv, TypeInv
<1>5. CASE PushAccount
  BY <1>5, PushKeeps
<1>6. CASE Reconnect \/ EaRestart
  <2>1. conn' \in Conns /\ conn' >= conn
    BY <1>0, <1>6, NextConnIsOne DEF Reconnect, EaRestart, NextConnection, IInv, Conns
  <2>2. /\ UNCHANGED <<balance, floating, day, midnight, lines, account, cause>>
        /\ dayStart' \in [date : Int, balance : Int]
    BY <1>6 DEF Reconnect, EaRestart, NoDate, IInv, TypeInv
  <2>3. QED  BY <2>1, <2>2, TellsNothing DEF IInv, TypeInv
<1>7. ASSUME NEW c \in Conns, OnDisconnect(c) PROVE IInv'
  <2>1. lines' \in [Conns -> Seq(Lines)] /\ \A d \in Conns : lines'[d] = lines[d] \/ lines'[d] = <<>>
    <3>1. <<>> \in Seq(Lines)
      OBVIOUS
    <3>2. QED  BY <1>7, <3>1 DEF OnDisconnect, IInv, TypeInv
  <2>2. QED  BY <1>0, <1>7, <2>1, TellsNothing DEF OnDisconnect, IInv, TypeInv
<1>8. ASSUME NEW c \in Conns, HandleAccount(c) PROVE IInv'
  BY <1>8, HandleKeeps
<1>9. CASE IntentArms \/ IntentApproved
  BY <1>0, <1>9, TellsNothing DEF IntentArms, IntentApproved, IInv, TypeInv
<1>10. CASE BrainRestart
  <2>1. conn' \in Conns /\ conn' >= conn
    BY <1>0, <1>10, NextConnIsOne DEF BrainRestart, IInv, Conns
  <2>2. lines' \in [Conns -> Seq(Lines)] /\ \A d \in Conns : lines'[d] = <<>>
    BY <1>10 DEF BrainRestart
  <2>3. QED  BY <1>10, <2>1, <2>2, TellsNothing DEF BrainRestart, IInv, TypeInv
<1>11. QED
  BY <1>1, <1>2, <1>3, <1>4, <1>5, <1>6, <1>7, <1>8, <1>9, <1>10 DEF Next

-----------------------------------------------------------------------------
(* The invariant behind ArmedForCause and NoOrderUntold holds in every state. *)
THEOREM Invariance == Spec => []IInv
BY Start, Step, PTL DEF Spec

(* The daily limit arms the switch for a cause the EA told, or because nothing
   was told yet; for every limit and any history of results. *)
THEOREM ArmsForCause == Spec => ArmedForCause
<1>1. IInv /\ [Next]_vars => [armed' /\ ~armed => cause \/ account = Unheard]_vars
  <2> SUFFICES ASSUME IInv, Next, armed', ~armed PROVE cause \/ account = Unheard
    OBVIOUS
  <2>1. IntentArms
    BY DEF Next, Close, PricesMove, NewDay, PushAccount, Reconnect, EaRestart, OnDisconnect,
           HandleAccount, IntentApproved, BrainRestart, brokerVars, linkVars, brainVars
  <2>2. QED  BY <2>1 DEF IntentArms, IInv, AllTold, Told
<1>2. QED  BY <1>1, Invariance, PTL DEF Spec, ArmedForCause

(* An untold account is at every limit, so nothing is approved on it. *)
THEOREM UntoldBlocks == Spec => NoOrderUntold
<1>1. [Next]_vars => [Approves => account # Unheard]_vars
  <2> SUFFICES ASSUME Next, Approves, account = Unheard PROVE FALSE
    OBVIOUS
  <2>1. IntentApproved
    BY DEF Next, Approves, Close, PricesMove, NewDay, PushAccount, Reconnect, EaRestart,
           OnDisconnect, HandleAccount, IntentArms, BrainRestart, brokerVars, linkVars, brainVars
  <2>2. Cfg.maxDailyLoss * 0 = 0
    BY AmountsAssumption
  <2>3. DailyLossBreached(account)
    BY <2>2 DEF DailyLossBreached, Unheard
  <2>4. QED  BY <2>1, <2>3 DEF IntentApproved
<1>2. QED  BY <1>1, PTL DEF Spec, NoOrderUntold

-----------------------------------------------------------------------------
(* A pushed account brings the word of the loss so far. *)
LEMMA PushWord == ASSUME IInv, WordInv, PushAccount PROVE WordInv'
<1>1. /\ dayStart' = DayStart
      /\ UNCHANGED <<balance, floating, day, midnight, conn, account>>
      /\ conn \in Conns /\ lines \in [Conns -> Seq(Lines)]
  BY DEF PushAccount, brokerVars, brainVars, IInv, TypeInv
<1>2. Equity' = Equity
  BY <1>1 DEF Equity
<1>3. CASE UNCHANGED <<lines, word, cause>>
  BY <1>1, <1>2, <1>3 DEF WordInv, Current
<1>4. CASE Sends
  <2> DEFINE line == Line
  <2>1. lines' = [lines EXCEPT ![conn] = Append(@, line)] /\ word' = IF DayKnown THEN "sent" ELSE "unsent"
    BY <1>4 DEF Sends
  <2>2. DayKnown => line.equity = Equity /\ line.pnlToday = balance - midnight
    BY <1>1 DEF DayStart, DayKnown, Line
  <2> HIDE DEF line
  <2>3. lines'[conn'] = Append(lines[conn], line) /\ lines[conn] \in Seq(Lines)
    BY <1>1, <2>1
  <2>4. lines'[conn'] # <<>> /\ lines'[conn'][Len(lines'[conn'])] = line
    BY <2>3
  <2>5. QED  BY <1>1, <1>2, <2>1, <2>2, <2>4 DEF WordInv, Current
<1>5. QED  BY <1>3, <1>4 DEF PushAccount, Sends

(* A word handled is the one the brain has, until a line of another connection
   overtakes it. *)
LEMMA HandleWord == ASSUME IInv, WordInv, NEW c \in Conns, HandleAccount(c) PROVE WordInv'
<1> DEFINE q == lines[c]
<1>1. /\ q \in Seq(Lines) /\ q # <<>> /\ conn \in Conns
      /\ account'.equity = q[1].equity /\ account'.pnlToday = q[1].pnlToday
      /\ lines'[c] = Tail(q) /\ (c # conn => lines'[conn] = lines[conn])
      /\ word' = Heard(c)
      /\ UNCHANGED <<balance, floating, midnight, conn>>
  BY DEF HandleAccount, brokerVars, IInv, TypeInv
<1>2. Equity' = Equity
  BY <1>1 DEF Equity
<1>3. CASE c # conn
  <2>1. word' # "handled" /\ (word' = "sent" => word = "sent")
    BY <1>1, <1>3 DEF Heard
  <2>2. QED  BY <1>1, <1>2, <1>3, <2>1 DEF WordInv, Current
<1>4. CASE c = conn /\ word = "sent" /\ Tail(q) = <<>>
  <2> HIDE DEF q
  <2>1. Len(q) \in Nat /\ Len(Tail(q)) = Len(q) - 1
    BY <1>1, HeadTailProperties, LenProperties
  <2>2. Tail(q) = <<>> /\ Len(<<>>) = 0
    BY <1>4
  <2>3. Len(Tail(q)) = 0
    BY <2>2, Zenon
  <2>4. Len(q) = 1
    BY <2>1, <2>3
  <2>5. Current(q[1])
    <3>1. Current(lines[conn][Len(lines[conn])])
      BY <1>4 DEF WordInv
    <3>2. QED  BY <1>4, <2>4, <3>1 DEF q
  <2>6. word' = "handled"
    BY <1>1, <1>4 DEF Heard, q
  <2>7. QED  BY <1>1, <1>2, <1>4, <2>5, <2>6 DEF WordInv, Current
<1>5. CASE c = conn /\ word = "sent" /\ Tail(q) # <<>>
  <2>1. Tail(q)[Len(Tail(q))] = q[Len(q)] /\ word' = "sent"
    BY <1>1, <1>5 DEF Heard
  <2>2. Current(q[Len(q)])
    BY <1>5 DEF WordInv
  <2>3. QED  BY <1>1, <1>2, <1>5, <2>1, <2>2 DEF WordInv, Current
<1>6. CASE c = conn /\ word # "sent"
  <2>1. word # "handled" /\ word' = word
    BY <1>1, <1>6 DEF WordInv, Heard
  <2>2. QED  BY <1>6, <2>1 DEF WordInv
<1>7. QED  BY <1>3, <1>4, <1>5, <1>6

(* On a new connection a word still under way is no longer the last. *)
LEMMA WordLost ==
  ASSUME IInv, WordInv, UNCHANGED <<balance, floating, midnight, account, lines>>, NextConnection
  PROVE  WordInv'
<1>1. Equity' = Equity
  BY DEF Equity
<1>2. conn' \in Conns /\ conn' > conn
  BY NextConnIsOne DEF NextConnection, IInv
<1>3. lines'[conn'] = <<>>
  BY <1>2 DEF IInv, NoneAhead
<1>4. word' # "sent" /\ (word' = "handled" => word = "handled")
  BY DEF NextConnection
<1>5. QED  BY <1>1, <1>3, <1>4 DEF WordInv, Current

(* Every step keeps the word of a loss under way or heard. *)
LEMMA WordStep == IInv /\ WordInv /\ [Next]_vars => WordInv'
<1> SUFFICES ASSUME IInv, WordInv, [Next]_vars PROVE WordInv'
  OBVIOUS
<1> USE DEF brokerVars, linkVars, brainVars
<1>1. CASE UNCHANGED vars \/ IntentArms \/ IntentApproved
  <2>1. UNCHANGED <<balance, floating, midnight, conn, lines, account, word>>
    BY <1>1 DEF vars, IntentArms, IntentApproved
  <2>2. Equity' = Equity
    BY <2>1 DEF Equity
  <2>3. QED  BY <2>1, <2>2 DEF WordInv, Current
<1>2. ASSUME NEW result \in Results, Close(result) PROVE WordInv'
  BY <1>2 DEF Close, WordInv
<1>3. ASSUME NEW float \in Floats, PricesMove(float) PROVE WordInv'
  BY <1>3 DEF PricesMove, WordInv
<1>4. CASE NewDay \/ BrainRestart
  BY <1>4 DEF NewDay, BrainRestart, WordInv
<1>5. CASE PushAccount
  BY <1>5, PushWord
<1>6. CASE Reconnect \/ EaRestart
  BY <1>6, WordLost DEF Reconnect, EaRestart
<1>7. ASSUME NEW c \in Conns, OnDisconnect(c) PROVE WordInv'
  <2>1. lines'[conn] = lines[conn] /\ UNCHANGED <<balance, floating, midnight, conn, account, word>>
    BY <1>7 DEF OnDisconnect, IInv, TypeInv
  <2>2. Equity' = Equity
    BY <2>1 DEF Equity
  <2>3. QED  BY <2>1, <2>2 DEF WordInv, Current
<1>8. ASSUME NEW c \in Conns, HandleAccount(c) PROVE WordInv'
  BY <1>8, HandleWord
<1>9. QED
  BY <1>1, <1>2, <1>3, <1>4, <1>5, <1>6, <1>7, <1>8 DEF Next

(* The word of a loss is under way or heard in every reachable state. *)
THEOREM WordInvariance == Spec => []WordInv
<1>1. Init => WordInv
  BY DEF Init, WordInv
<1>2. QED  BY <1>1, WordStep, Invariance, PTL DEF Spec

(* Once the brain has handled what the EA knows of the account at its daily
   limit, nothing is approved until a line left over from an older connection
   is handled, however lines, connections, days and restarts are mixed: the
   account the gate reads is the one that really is. *)
THEOREM LossStopsOrders == Spec => NoOrderPastLoss
<1>1. IInv /\ WordInv /\ [Next]_vars
        => [Approves /\ word = "handled" => ~DailyLossBreached(Truth)]_vars
  <2> SUFFICES ASSUME IInv, WordInv, Next, Approves, word = "handled"
               PROVE  ~DailyLossBreached(Truth)
    OBVIOUS
  <2>1. IntentApproved
    BY DEF Next, Approves, Close, PricesMove, NewDay, PushAccount, Reconnect, EaRestart,
           OnDisconnect, HandleAccount, IntentArms, BrainRestart, brokerVars, linkVars, brainVars
  <2>2. account.equity = Truth.equity /\ account.pnlToday = Truth.pnlToday
    BY DEF WordInv, Current, Truth
  <2>3. QED  BY <2>1, <2>2, BreachDepends DEF IntentApproved
<1>2. QED  BY <1>1, Invariance, WordInvariance, PTL DEF Spec, NoOrderPastLoss
=============================================================================
