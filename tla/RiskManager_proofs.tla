-------------------------- MODULE RiskManager_proofs --------------------------
(***************************************************************************)
(* Proofs about RiskManager, for every configuration, every set of intents,*)
(* accounts, books and news, and every size of the memory of ids.          *)
(***************************************************************************)
EXTENDS RiskManager, TLAPS

(* What the invariants need besides the types: the log ends with the order
   the rate limiter remembers, an untrimmed memory holds every logged id, and
   a breach that was met left the switch armed. *)
LastOrderLogged == Len(log) > 0 => log[Len(log)].at = lastOrder

LoggedIdsKept == ~trimmed => \A i \in 1..Len(log) : log[i].id \in recentIds

BreachKeepsArmed == breached => armed

IInv ==
  /\ TypeOK
  /\ LastOrderLogged
  /\ RateSpacing
  /\ LoggedIdsKept
  /\ ApprovedOnceUntilTrimmed
  /\ BreachKeepsArmed

-----------------------------------------------------------------------------
(* Remember keeps the memory within the ids of the model, and loses an id
   only in a step that sets trimmed. *)
LEMMA RememberKeeps ==
  ASSUME NEW id \in Ids, recentIds \subseteq Ids, trimmed \in BOOLEAN, Remember(id)
  PROVE  /\ recentIds' \subseteq Ids
         /\ trimmed' \in BOOLEAN
         /\ ~trimmed' => ~trimmed /\ recentIds' = recentIds \cup {id}
<1> DEFINE ids == recentIds \cup {id}
<1>1. CASE Cardinality(ids) > MaxIds
  BY <1>1 DEF Remember
<1>2. CASE ~(Cardinality(ids) > MaxIds)
  BY <1>2 DEF Remember
<1>3. QED  BY <1>1, <1>2

(* An approval extends the log by one entry, stamped with the clock. *)
LEMMA ApproveKeeps ==
  ASSUME NEW intent \in Intents, NEW account, NEW positions, NEW tick,
         IInv, CheckApprove(intent, account, positions, tick)
  PROVE  IInv'
<1> DEFINE entry == [id |-> intent.id, at |-> clock]
<1>1. intent.id \in Ids
  BY IntentAssumption
<1>2. /\ log \in Seq([id : Ids, at : Nat])
      /\ entry \in [id : Ids, at : Nat]
      /\ log' = Append(log, entry)
  BY <1>1 DEF IInv, TypeOK, CheckApprove
<1>3. /\ log' \in Seq([id : Ids, at : Nat])
      /\ Len(log') = Len(log) + 1
      /\ Len(log) \in Nat
      /\ log'[Len(log')] = entry
      /\ \A i \in 1..Len(log) : log'[i] = log[i]
  BY <1>2
<1>4. /\ recentIds' \subseteq Ids
      /\ trimmed' \in BOOLEAN
      /\ ~trimmed' => ~trimmed /\ recentIds' = recentIds \cup {intent.id}
  BY <1>1, RememberKeeps DEF IInv, TypeOK, CheckApprove
<1>5. TypeOK'
  BY <1>3, <1>4 DEF IInv, TypeOK, CheckApprove
<1>6. LastOrderLogged'
  BY <1>3 DEF LastOrderLogged, CheckApprove
<1>7. RateSpacing'
  <2> SUFFICES ASSUME NEW i \in 1..Len(log') - 1
               PROVE  log'[i + 1].at - log'[i].at >= Cfg.minSeconds
    BY DEF RateSpacing
  <2>1. CASE i < Len(log)
    <3>1. i \in 1..Len(log) - 1 /\ i \in 1..Len(log) /\ i + 1 \in 1..Len(log)
      BY <2>1, <1>3
    <3>2. QED  BY <3>1, <1>3 DEF IInv, RateSpacing
  <2>2. CASE i = Len(log)
    <3>1. log'[i] = log[Len(log)] /\ log'[i + 1] = entry /\ Len(log) > 0
      BY <2>2, <1>3
    <3>2. log[Len(log)].at = lastOrder
      BY <3>1 DEF IInv, LastOrderLogged
    <3>3. clock - lastOrder >= Cfg.minSeconds
      BY DEF CheckApprove, IntervalElapsed
    <3>4. QED  BY <3>1, <3>2, <3>3
  <2>3. QED  BY <2>1, <2>2, <1>3
<1>8. LoggedIdsKept'
  <2> SUFFICES ASSUME ~trimmed', NEW i \in 1..Len(log')
               PROVE  log'[i].id \in recentIds'
    BY DEF LoggedIdsKept
  <2>1. CASE i \in 1..Len(log)
    BY <2>1, <1>3, <1>4 DEF IInv, LoggedIdsKept
  <2>2. CASE i = Len(log')
    BY <2>2, <1>3, <1>4
  <2>3. QED  BY <2>1, <2>2, <1>3
<1>9. ApprovedOnceUntilTrimmed'
  <2> SUFFICES ASSUME ~trimmed', NEW i \in 1..Len(log'), NEW j \in 1..Len(log'),
                      log'[i].id = log'[j].id
               PROVE  i = j
    BY DEF ApprovedOnceUntilTrimmed
  <2>1. intent.id \notin recentIds /\ ~trimmed
    BY <1>4 DEF CheckApprove, FreshId
  <2>2. \A k \in 1..Len(log) : log'[k].id # intent.id
    BY <2>1, <1>3 DEF IInv, LoggedIdsKept
  <2>3. CASE i \in 1..Len(log) /\ j \in 1..Len(log)
    BY <2>3, <2>1, <1>3 DEF IInv, ApprovedOnceUntilTrimmed
  <2>4. CASE i = Len(log') \/ j = Len(log')
    BY <2>4, <2>2, <1>3
  <2>5. QED  BY <2>3, <2>4, <1>3
<1>10. BreachKeepsArmed'
  BY DEF IInv, BreachKeepsArmed, CheckApprove
<1>11. QED  BY <1>5, <1>6, <1>7, <1>8, <1>9, <1>10 DEF IInv

(* Every other action leaves the log, the memory of ids and the last order
   alone, so only the types and the switch have to be looked at. *)
LEMMA OthersKeep ==
  ASSUME IInv,
         \/ \E account \in Accounts : CheckBreach(account)
         \/ Arm
         \/ Disarm
         \/ \E event \in News : AddEvent(event)
         \/ AdvanceClock
         \/ UNCHANGED vars
  PROVE  IInv'
<1>1. UNCHANGED <<log, recentIds, lastOrder, trimmed>>
  BY DEF CheckBreach, Arm, Disarm, AddEvent, AdvanceClock, vars
<1>2. TypeOK'
  <2>1. CASE \E account \in Accounts : CheckBreach(account)
    BY <2>1 DEF IInv, TypeOK, CheckBreach, ArmWith, Reasons
  <2>2. CASE Arm
    BY <2>2 DEF IInv, TypeOK, Arm, ArmWith, Reasons
  <2>3. CASE Disarm
    BY <2>3 DEF IInv, TypeOK, Disarm
  <2>4. CASE \E event \in News : AddEvent(event)
    BY <2>4 DEF IInv, TypeOK, AddEvent
  <2>5. CASE AdvanceClock
    BY <2>5 DEF IInv, TypeOK, AdvanceClock
  <2>6. CASE UNCHANGED vars
    BY <2>6 DEF IInv, TypeOK, vars
  <2>7. QED  BY <2>1, <2>2, <2>3, <2>4, <2>5, <2>6
<1>3. LastOrderLogged' /\ RateSpacing' /\ LoggedIdsKept' /\ ApprovedOnceUntilTrimmed'
  BY <1>1 DEF IInv, LastOrderLogged, RateSpacing, LoggedIdsKept, ApprovedOnceUntilTrimmed
<1>4. BreachKeepsArmed'
  BY DEF IInv, BreachKeepsArmed, CheckBreach, Arm, ArmWith, Disarm, AddEvent,
         AdvanceClock, vars
<1>5. QED  BY <1>2, <1>3, <1>4 DEF IInv

(* The inductive invariant holds in every reachable state. *)
THEOREM Invariance == Spec => []IInv
<1>1. Init => IInv
  <2> SUFFICES ASSUME Init PROVE IInv
    OBVIOUS
  <2>1. TypeOK
    <3>1. log \in Seq([id : Ids, at : Nat])
      BY DEF Init
    <3>2. ~armed /\ reason \in {NoReason}
      BY DEF Init
    <3>3. QED  BY <3>1, <3>2, ClockAssumption DEF Init, TypeOK
  <2>2. Len(log) = 0
    BY DEF Init
  <2>3. LastOrderLogged /\ RateSpacing /\ LoggedIdsKept /\ ApprovedOnceUntilTrimmed
    BY <2>2 DEF LastOrderLogged, RateSpacing, LoggedIdsKept, ApprovedOnceUntilTrimmed
  <2>4. BreachKeepsArmed
    BY DEF Init, BreachKeepsArmed
  <2>5. QED  BY <2>1, <2>3, <2>4 DEF IInv
<1>2. IInv /\ [Next]_vars => IInv'
  BY ApproveKeeps, OthersKeep DEF Next
<1>3. QED  BY <1>1, <1>2, PTL DEF Spec

(* Type correctness of the risk manager. *)
THEOREM TypeCorrect == Spec => []TypeOK
<1>1. IInv => TypeOK  BY DEF IInv
<1>2. QED  BY <1>1, Invariance, PTL

(* Approvals are spaced by min_seconds_between_orders. *)
THEOREM ApprovalsSpaced == Spec => []RateSpacing
<1>1. IInv => RateSpacing  BY DEF IInv
<1>2. QED  BY <1>1, Invariance, PTL

(* No id is approved twice before the memory of ids is first trimmed. *)
THEOREM ApprovedOnceTheorem == Spec => []ApprovedOnceUntilTrimmed
<1>1. IInv => ApprovedOnceUntilTrimmed  BY DEF IInv
<1>2. QED  BY <1>1, Invariance, PTL

(* After a check met the daily loss nothing is approved before a disarm. *)
THEOREM BreachBlocks == Spec => BreachBlocksOrders
<1>1. IInv /\ [Next]_vars => [breached /\ breached' => log' = log]_vars
  <2> SUFFICES ASSUME IInv, Next, breached, breached' PROVE log' = log
    BY DEF vars
  <2>1. armed
    BY DEF IInv, BreachKeepsArmed
  <2>2. QED
    BY <2>1 DEF Next, CheckBreach, CheckApprove, Arm, Disarm, AddEvent, AdvanceClock
<1>2. QED  BY <1>1, Invariance, PTL DEF Spec, BreachBlocksOrders
=============================================================================
