---------------------------- MODULE MCWorkspaces ----------------------------
(***************************************************************************)
(* TLC instances of UserWorkspaces: eight requests, and what they ask in   *)
(* each of the plans.  A request a plan does not name asks for nothing.    *)
(***************************************************************************)
EXTENDS UserWorkspaces, TLC

CONSTANTS r1, r2, r3, r4, r5, r6, k1, k2

EightCalls == {r1, r2, r3, r4, r5, r6, k1, k2}
OneMortal  == {r1}

Ask(op, slug, makeActive, target) ==
    [op |-> op, slug |-> slug, active |-> makeActive, target |-> target]
Send           == Ask("send", "other", FALSE, None)
SignIn(code)   == Ask("signin", "other", FALSE, code)
Create(slug)   == Ask("create", slug, TRUE, None)
Remote(op, w)  == Ask(op, "other", FALSE, w)

Plan(sent, asks)     == [sent |-> sent, cut |-> None, asks |-> asks @@ [c \in EightCalls |-> None]]
CutShort(sent, asks) == [Plan(sent, asks) EXCEPT !.cut = r1]

AllPlans ==
    { \* Wrong guesses and right ones against one code.
      Plan(<<k1>>, r1 :> SignIn(None) @@ r2 :> SignIn(None) @@ r3 :> SignIn(k1) @@ r4 :> SignIn(k1)),
      Plan(<<k1>>, r1 :> SignIn(None) @@ r2 :> SignIn(None) @@ r3 :> SignIn(None) @@ r4 :> SignIn(k1)),
      \* Codes sent at the limit, and the oldest one entered.
      Plan(<<k1>>, r1 :> Send @@ r2 :> Send @@ r3 :> Send @@ r4 :> SignIn(k1)),
      \* The first sign-in stops or meets a session of the second.
      Plan(<<k1, k2>>, r1 :> SignIn(k2) @@ r2 :> SignIn(k1) @@ r3 :> Create("asked")
                       @@ r4 :> Create("named") @@ r5 :> Remote("resolve", None)),
      \* Two workspaces made and deleted, without a default one and with it.
      CutShort(<<k1>>, r2 :> SignIn(k1) @@ r3 :> Create("other") @@ r4 :> Create("other")
                       @@ r5 :> Remote("delete", r3) @@ r6 :> Remote("delete", r4)),
      Plan(<<k1>>, r2 :> SignIn(k1) @@ r3 :> Create("other") @@ r4 :> Create("other")
                   @@ r5 :> Remote("delete", r3) @@ r6 :> Remote("delete", r4)),
      \* A workspace chosen, resolved and deleted; the default one not deleted.
      Plan(<<k1>>, r2 :> SignIn(k1) @@ r3 :> Create("other") @@ r4 :> Remote("switch", r3)
                   @@ r5 :> Remote("delete", r3) @@ r6 :> Remote("resolve", None)
                   @@ r1 :> Remote("delete", r2)) }
=============================================================================
