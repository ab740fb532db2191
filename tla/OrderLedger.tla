----------------------------- MODULE OrderLedger -----------------------------
(***************************************************************************)
(* What the trade journal promises about the broker's account, whatever    *)
(* happens on the way: only approved orders are traded, each at most once; *)
(* a row says "filled" only of an order that was traded and "rejected" only*)
(* of one that was not and never will be; a settled row never changes.     *)
(*                                                                         *)
(* The ledger is allowed to lag: an order can be traded before its row     *)
(* exists, and a row can stay "submitted" for ever.                        *)
(***************************************************************************)
CONSTANT Orders

VARIABLES
  approved,   \* the orders the risk gate let through
  traded,     \* the orders that became a position at the broker
  ledger      \* order |-> status of its row

lvars == <<approved, traded, ledger>>

Statuses == {"none", "submitted", "filled", "rejected"}

Init ==
  /\ approved = {}
  /\ traded = {}
  /\ ledger = [o \in Orders |-> "none"]

Approve(o) ==
  /\ o \in Orders \ approved
  /\ approved' = approved \cup {o}
  /\ UNCHANGED <<traded, ledger>>

Open == {o \in approved : ledger[o] \in {"none", "submitted"}}

(* The broker executes any number of orders that are approved, untraded and
   not settled. *)
Trade(S) ==
  /\ S \subseteq Open \ traded
  /\ traded' = traded \cup S
  /\ UNCHANGED <<approved, ledger>>

Submit(o) ==
  /\ o \in approved
  /\ ledger[o] = "none"
  /\ ledger' = [ledger EXCEPT ![o] = "submitted"]
  /\ UNCHANGED <<approved, traded>>

Fill(o) ==
  /\ o \in traded
  /\ ledger[o] = "submitted"
  /\ ledger' = [ledger EXCEPT ![o] = "filled"]
  /\ UNCHANGED <<approved, traded>>

Reject(o) ==
  /\ o \in approved \ traded
  /\ ledger[o] = "submitted"
  /\ ledger' = [ledger EXCEPT ![o] = "rejected"]
  /\ UNCHANGED <<approved, traded>>

Next ==
  \/ \E o \in Orders : Approve(o) \/ Submit(o) \/ Fill(o) \/ Reject(o)
  \/ \E S \in SUBSET Orders : Trade(S)

Spec == Init /\ [][Next]_lvars
=============================================================================
