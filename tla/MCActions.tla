----------------------------- MODULE MCActions -----------------------------
(***************************************************************************)
(* TLC instances of ActionExecution.                                       *)
(***************************************************************************)
EXTENDS ActionExecution, TLC

CONSTANTS c1, c2, c3, u1, k1

ThreeCalls == {c1, c2, c3}
OneUser    == {u1}
OneKey     == {k1}
OneMortal  == {c1}

\* Two requests with one key, and one without a key that may name an identity.
KeyedAsks == [c \in {c1, c2} |-> {[user |-> u1, key |-> k1, named |-> "none"]}]
             @@ (c3 :> [user : {u1}, key : {None}, named : {"none", "own", "other"}])
=============================================================================
