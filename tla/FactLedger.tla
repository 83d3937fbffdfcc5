----------------------------- MODULE FactLedger ------------------------------
(***************************************************************************)
(* What the order-fact containers promise: for every order and every month *)
(* container the order version recorded there, which is a version the      *)
(* order really had while it belonged to that month, and which only grows  *)
(* unless the cell is contested: somebody is about to write it without     *)
(* having compared, or what was in it was withdrawn.  Nothing is said      *)
(* about who records, how often a delivery is repeated, or in which order  *)
(* deliveries arrive.                                                      *)
(***************************************************************************)
EXTENDS Naturals, Sequences

CONSTANTS Orders, Days, Months, MonthOf, MaxVersion

VARIABLES
  history,   \* history[o][v] is the business day of version v of order o
  ledger,    \* ledger[m][o] is the version recorded in month m, 0 if none
  contested  \* the cells <<m, o>> that may go back

vars == <<history, ledger, contested>>

Init ==
  /\ history = [o \in Orders |-> <<>>]
  /\ ledger = [m \in Months |-> [o \in Orders |-> 0]]
  /\ contested = {}

Edit(o, d) ==
  /\ Len(history[o]) < MaxVersion
  /\ history' = [history EXCEPT ![o] = Append(@, d)]
  /\ UNCHANGED <<ledger, contested>>

(* Who is about to write comes and goes.                                   *)
Contest ==
  /\ contested' \subseteq Months \X Orders
  /\ UNCHANGED <<history, ledger>>

Record(m, o, v) ==
  /\ v \in 1..Len(history[o])
  /\ MonthOf[history[o][v]] = m
  /\ ledger[m][o] < v \/ <<m, o>> \in contested
  /\ ledger' = [ledger EXCEPT ![m][o] = v]
  /\ contested' \subseteq contested
  /\ UNCHANGED history

Withdraw(m, o) ==
  /\ ledger' = [ledger EXCEPT ![m][o] = 0]
  /\ contested' = contested \cup {<<m, o>>}
  /\ UNCHANGED history

Next ==
  \/ Contest
  \/ \E o \in Orders :
       \/ \E d \in Days : Edit(o, d)
       \/ \E m \in Months :
            \/ Withdraw(m, o)
            \/ \E v \in 1..MaxVersion : Record(m, o, v)

Spec == Init /\ [][Next]_vars
=============================================================================
