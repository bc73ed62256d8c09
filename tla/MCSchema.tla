------------------------------ MODULE MCSchema ------------------------------
(***************************************************************************)
(* TLC instances of SchemaLifecycle.                                       *)
(***************************************************************************)
EXTENDS SchemaLifecycle, TLC

CONSTANTS wide, narrow, p1, p2, y1, y2

BothSchemas == {wide, narrow}
TwoPlanners == {p1, p2}
TwoAppliers == {y1, y2}

\* Going from wide to narrow drops a field.
Narrowing == {<<wide, narrow>>}

\* Ids of one kind are interchangeable; the two schemas are not.
Symmetric == Permutations(TwoPlanners) \union Permutations(TwoAppliers)
=============================================================================
