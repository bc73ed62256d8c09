------------------------------- MODULE MCKeys -------------------------------
(***************************************************************************)
(* TLC instances of KeyRing.                                               *)
(***************************************************************************)
EXTENDS KeyRing, TLC

CONSTANTS c1, c2, c3, k0

ThreeCalls == {c1, c2, c3}
TwoMortals == {c1, c2}

Ask(op, via, old) == [op |-> op, via |-> via, old |-> old]

\* Two that rotate, reveal or erase the first key, or mint one; a third that
\* deletes, mints or rotates the key of another.
FirstAsks ==
    {Ask("rotate", via, k0) : via \in {"bearer", "session"}}
    \cup {Ask("reveal", "bearer", k0), Ask("mint", "mcp", None), Ask("delete", "mcp", None)}
MixedAsks ==
    (c1 :> FirstAsks) @@ (c2 :> FirstAsks)
    @@ (c3 :> {Ask("delete", "bearer", None), Ask("mint", "session", None),
               Ask("rotate", "bearer", c1), Ask("reveal", "mcp", k0)})
=============================================================================
