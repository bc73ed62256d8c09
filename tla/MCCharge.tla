------------------------------ MODULE MCCharge ------------------------------
(***************************************************************************)
(* TLC instances of ChargeAction.                                          *)
(***************************************************************************)
EXTENDS ChargeAction

ThreeCalls  == {"a", "b", "c"}
OneProduct  == [c \in ThreeCalls |-> "acme"]

\* The month turns with the last day.
TwoDays    == {0, 1}
MonthOf(d) == d

\* Every setting with three key actions, and one with a deletion among them.
AllEnvs ==
    [tenant : BOOLEAN, meter : {"actions", "signups"}, fairness : {"on", "off"},
     abuse : {"off", "warn", "enforce"}, deletes : {{}}]
    \union
    [tenant : {TRUE}, meter : {"actions"}, fairness : {"on"},
     abuse : {"enforce"}, deletes : {{"c"}}]
=============================================================================
