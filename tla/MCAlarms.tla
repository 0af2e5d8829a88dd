------------------------------ MODULE MCAlarms ------------------------------
(* Small worlds for Alarms: names for the model values and who they are.    *)
EXTENDS Alarms, TLC

CONSTANTS n1, s1, technician, operator, a1, a2, o1, r1, r2

OneSeriesNode == (s1 :> n1)
NoSeriesNode == << >>

MCRole == technician :> "technician" @@ operator :> "operator"

OperatorOnly == operator :> "operator"

\* Row keys and request slots are interchangeable.
Rows == Permutations(AlarmIds) \cup Permutations(OrderIds) \cup Permutations(Requests)
=============================================================================
