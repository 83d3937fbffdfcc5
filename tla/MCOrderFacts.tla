---------------------------- MODULE MCOrderFacts -----------------------------
(* Two days in one month and a third in the next; two deliveries and the   *)
(* job compete for one order.                                              *)
EXTENDS OrderFacts, TLC

CONSTANTS d1, d2, d3, jul, aug

MCDays == {d1, d2, d3}
MCMonths == {jul, aug}
MCMonthOf == d1 :> jul @@ d2 :> jul @@ d3 :> aug
=============================================================================
