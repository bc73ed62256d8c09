------------------------------ MODULE MCToken ------------------------------
(***************************************************************************)
(* TLC instances of TokenStore.                                            *)
(***************************************************************************)
EXTENDS TokenStore, TLC

CONSTANTS data, admin, r1, r2

\* The two tokens of createWorkspace; the data token is the agent's.
FirstTokens  == {data, admin}
AgentTokens  == {data}
TwoRotations == {r1, r2}

Symmetric == Permutations(TwoRotations)
=============================================================================
