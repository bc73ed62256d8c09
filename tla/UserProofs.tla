----------------------------- MODULE UserProofs -----------------------------
(***************************************************************************)
(* The codes, the sign-ins and the workspaces of a user, for every number  *)
(* of requests and whatever they ask: what goes wrong goes wrong only for  *)
(* requests side by side, a pointer never dangles and a resolve never      *)
(* fails while there is a default workspace.                               *)
(*                                                                         *)
(* Nothing here is atomic, so every argument has the same two halves: what *)
(* a request has read still binds it to the requests that had ended before *)
(* it began (its before), and a request that writes now had not ended      *)
(* before any other began.                                                 *)
(***************************************************************************)
EXTENDS UserWorkspaces, FiniteSetTheorems, TLAPS

StepsOf(op) ==
    CASE op = "send"    -> {"count codes", "insert code"}
      [] op = "signin"  -> {"select code", "spend", "wrong", "use",
                            "find", "insert user", "ensure", "insert home", "point"}
      [] op = "create"  -> {"count", "slug", "insert", "adopt"}
      [] op = "switch"  -> {"own", "choose"}
      [] op = "delete"  -> {"read", "last", "whose", "fallback", "flip", "remove"}
      [] op = "resolve" -> {"active", "that", "default"}

\* A request takes the steps of what it asks.
Path(c) ==
    /\ call[c].pc \in Steps => call[c].ask # None /\ call[c].pc \in StepsOf(call[c].ask.op)
    /\ Asking(c, "switch") \/ Asking(c, "delete") => call[c].ask.target \in Calls

\* Who had ended before c began has ended, and began after those before it.
Past(c) ==
    /\ call[c].before \subseteq Ended
    /\ call[c].pc = "idle" => call[c].before = {}

-----------------------------------------------------------------------------
(* Codes.                                                                  *)

\* The row that a sign-in has read.
Entry(c) ==
    /\ ~Asking(c, "signin") \/ call[c].pc \in {"idle", "select code"}
           => call[c].row = 0 /\ ~call[c].opened
    /\ call[c].pc \in {"spend", "wrong", "use"} => call[c].row # 0 /\ ~call[c].opened
    /\ call[c].pc \in {"wrong", "use"} => call[c].read < MaxAttempts
    /\ call[c].pc = "wrong" => codes[call[c].row].of # call[c].ask.target
    /\ call[c].opened =>
         call[c].row # 0 /\ codes[call[c].row].used /\ call[c].read < MaxAttempts

\* A code that was used before a sign-in began is not the one it reads.
UsedBefore(c) ==
    \A d \in call[c].before : call[d].opened => call[c].row # call[d].row

\* A set of wrong codes refused on row r, none of them side by side with
\* another one entered.
InTurn(S, r) ==
    /\ S \subseteq {g \in Guesses(r) : call[g].pc = "refused"}
    /\ \A g \in Guesses(r), h \in S : ~SideBySide(g, h)

Live(r) == ~codes[r].used /\ ~codes[r].expired

\* Wrong codes in turn are all counted, and a sign-in that may pass, or that
\* is going to count, has read as many as were entered before it.
RowCounts(r) ==
    \A S \in SUBSET Calls : Live(r) /\ InTurn(S, r) => Cardinality(S) <= codes[r].attempts

ReadCounts(c) ==
    call[c].pc \in {"wrong", "use"} \/ call[c].opened =>
        \A S \in SUBSET call[c].before :
            InTurn(S, call[c].row) => Cardinality(S) <= call[c].read

Counted == (\A r \in DOMAIN codes : RowCounts(r)) /\ (\A c \in Calls : ReadCounts(c))

-----------------------------------------------------------------------------
(* Users and workspaces.                                                   *)

Born(w) == call[w].pc \in {"point", "adopt"} \cup Ends

Rows(w) ==
    /\ ws[w] # None => /\ Born(w)
                       /\ Asking(w, IF ws[w].home THEN "signin" ELSE "create")
    /\ call[w].pc = "point" => w \in Homes

\* What a deletion is about is there, or was, and is no default workspace.
Deleting(c) ==
    call[c].pc \in {"last", "whose", "fallback", "flip", "remove"} =>
        Born(call[c].ask.target) /\ call[c].ask.target \notin Homes

Resolved ==
    /\ \A c \in Calls : call[c].homed => Homes # {}
    /\ ActiveResolves

\* Workspaces are made in the sessions of a user.
MakesHome(c) ==
    \/ call[c].pc \in {"insert user", "ensure", "insert home", "point"}
    \/ c \in Homes

SessionFirst ==
    /\ \A c \in Calls :
         Asking(c, "signin") /\ call[c].pc \in {"ensure", "insert home", "point", "done"} => user
    /\ \A c \in Calls : Asking(c, "create") /\ call[c].pc # "idle" => user
    /\ \A c \in Calls : MakesHome(c) => \A w \in call[c].before : ~Asking(w, "create")

-----------------------------------------------------------------------------
(* The limits.                                                             *)

CodesInTurn(T)  == \A i, j \in T : ~SideBySide(codes[i].of, codes[j].of)
SpacesInTurn(T) == \A c, d \in T : ~SideBySide(c, d)

CodesBefore(c)  == {i \in Active : codes[i].of \in call[c].before}
SpacesBefore(c) == Existing \cap call[c].before

CodeLimit ==
    /\ \A i \in DOMAIN codes : codes[i].of \in Ended
    /\ \A c \in Calls : call[c].pc = "insert code" => Cardinality(CodesBefore(c)) < MaxActive
    /\ \A T \in SUBSET Active : CodesInTurn(T) => Cardinality(T) <= MaxActive

SpaceLimit ==
    /\ \A c \in Calls :
         call[c].pc \in {"slug", "insert"} => Cardinality(SpacesBefore(c)) < MaxWorkspaces
    /\ \A T \in SUBSET Existing : SpacesInTurn(T) => Cardinality(T) <= MaxWorkspaces

Deleted == {c \in Calls : Asking(c, "delete") /\ call[c].pc = "done"}

\* A deletion that found a second workspace finds it still, or somebody
\* deleted that one in the meantime.
Remains(c) ==
    call[c].pc \in {"whose", "fallback", "flip", "remove"} =>
        \E w \in Calls \ {call[c].ask.target} :
            \/ w \in Existing
            \/ \E d \in Deleted \ call[c].before : call[d].ask.target = w

LastLimit ==
    /\ \A c \in Calls : Remains(c)
    /\ Deleted # {} /\ Existing = {} => \E c, d \in Deleted : SideBySide(c, d)

-----------------------------------------------------------------------------
(* What a step of c touches.                                               *)

\* The state of a request when there are n codes.
Fields(n) ==
    [pc : {"idle"} \cup Steps \cup Ends, ask : Asks \cup {None},
     row : 0..n, read : 0..MaxAttempts,
     opened : BOOLEAN, created : BOOLEAN, default : BOOLEAN,
     held : Calls \cup {None}, before : SUBSET Calls, homed : BOOLEAN]

By(c) == Start(c) \/ Proceed(c) \/ Die(c)

CodeStep(c)   == \/ CountCodes(c) \/ InsertCode(c)
                 \/ SelectCode(c) \/ SpendCode(c) \/ CountAttempt(c) \/ UseCode(c)
SignInStep(c) == FindUser(c) \/ InsertUser(c) \/ EnsureDefault(c) \/ InsertHome(c) \/ PointHome(c)
CreateStep(c) == CountWorkspaces(c) \/ PickSlug(c) \/ InsertWorkspace(c) \/ Adopt(c)
SwitchStep(c) == CheckOwn(c) \/ Choose(c)
DeleteStep(c) == \/ ReadDeletable(c) \/ LastRemaining(c) \/ IsActive(c)
                 \/ FindDefault(c) \/ Flip(c) \/ Remove(c)
ResolveStep(c) == ReadActive(c) \/ ReadThat(c) \/ ReadDefault(c)

LEMMA Kinds ==
    ASSUME NEW c, By(c)
    PROVE  \/ Start(c) \/ Die(c) \/ CodeStep(c) \/ SignInStep(c) \/ CreateStep(c)
           \/ SwitchStep(c) \/ DeleteStep(c) \/ ResolveStep(c)
  BY DEF By, Proceed, CodeStep, SignInStep, CreateStep, SwitchStep, DeleteStep, ResolveStep

Paths == \A c \in Calls : Path(c)

\* One request moves, from a step or the start to a step or an end; what it
\* has read, and whom it has seen, changes with the few steps that say so.
Moves(c) ==
    /\ \A d \in Calls \ {c} : call'[d] = call[d]
    /\ call' \in [Calls -> Fields(Len(codes'))]
    /\ call[c].pc \notin Ends /\ call'[c].pc \in Steps \cup Ends
    /\ call'[c].ask = call[c].ask
    /\ call'[c].pc \in Steps => call'[c].ask # None /\ call'[c].pc \in StepsOf(call'[c].ask.op)
    /\ Start(c) \/ (call'[c].before = call[c].before /\ call'[c].homed = call[c].homed)
    /\ SelectCode(c) \/ (call'[c].row = call[c].row /\ call'[c].read = call[c].read)
    /\ UseCode(c) \/ call'[c].opened = call[c].opened
    /\ InsertUser(c) \/ call'[c].created = call[c].created

LEMMA StepSets ==
    /\ \A op \in Ops : StepsOf(op) \subseteq Steps
    /\ \A a, b \in Ops : a # b => StepsOf(a) \cap StepsOf(b) = {}
    /\ Steps \cap Ends = {} /\ "idle" \notin Steps \cup Ends
<1>1. \A op \in Ops : StepsOf(op) \subseteq Steps
  BY DEF Ops, StepsOf, Steps
<1>2. \A b \in Ops : b # "send" => StepsOf("send") \cap StepsOf(b) = {}
  BY DEF Ops, StepsOf
<1>3. \A b \in Ops : b # "signin" => StepsOf("signin") \cap StepsOf(b) = {}
  BY DEF Ops, StepsOf
<1>4. \A b \in Ops : b # "create" => StepsOf("create") \cap StepsOf(b) = {}
  BY DEF Ops, StepsOf
<1>5. \A b \in Ops : b # "switch" => StepsOf("switch") \cap StepsOf(b) = {}
  BY DEF Ops, StepsOf
<1>6. \A b \in Ops : b # "delete" => StepsOf("delete") \cap StepsOf(b) = {}
  BY DEF Ops, StepsOf
<1>7. Steps \cap Ends = {} /\ "idle" \notin Steps \cup Ends
  BY DEF Steps, Ends
<1> HIDE DEF StepsOf
<1> QED
  BY <1>1, <1>2, <1>3, <1>4, <1>5, <1>6, <1>7 DEF Ops

\* Where a request stands tells what it asked for.
LEMMA Asked ==
    ASSUME TypeOK, Paths, NEW c \in Calls, NEW op \in Ops, call[c].pc \in StepsOf(op)
    PROVE  call[c].ask \in Asks /\ call[c].ask.op = op /\ Asking(c, op)
<1>1. call[c].pc \in Steps
  BY StepSets
<1>2. call[c].ask \in Asks /\ call[c].pc \in StepsOf(call[c].ask.op)
  BY <1>1 DEF TypeOK, Paths, Path
<1>3. call[c].ask.op \in Ops /\ call[c].ask # None
  BY <1>1, <1>2 DEF Asks, Paths, Path
<1> QED
  BY <1>2, <1>3, StepSets DEF Asking

\* A request that goes on, with nothing else about it changed.
LEMMA GoTo ==
    ASSUME TypeOK, NEW c \in Calls, NEW n \in Nat, Len(codes) <= n,
           NEW x \in Steps \cup Ends, Goes(c, x)
    PROVE  /\ \A d \in Calls \ {c} : call'[d] = call[d]
           /\ call' \in [Calls -> Fields(n)]
           /\ call'[c] = [call[c] EXCEPT !.pc = x]
<1>1. call \in [Calls -> Fields(n)]
  BY DEF TypeOK, Fields
<1>2. call' = [call EXCEPT ![c] = [call[c] EXCEPT !.pc = x]]
  BY DEF Goes
<1>3. [call[c] EXCEPT !.pc = x] \in Fields(n)
  <2>1. call[c] \in Fields(n)
    BY <1>1
  <2> HIDE DEF Steps, Ends
  <2> QED
    BY <2>1 DEF Fields
<1> HIDE DEF Fields
<1> QED
  BY <1>1, <1>2, <1>3

LEMMA SetTo ==
    ASSUME TypeOK, NEW c \in Calls, NEW n \in Nat, Len(codes) <= n,
           NEW r \in Fields(n), call' = [call EXCEPT ![c] = r]
    PROVE  /\ \A d \in Calls \ {c} : call'[d] = call[d]
           /\ call' \in [Calls -> Fields(n)]
           /\ call'[c] = r
<1>1. call \in [Calls -> Fields(n)]
  BY DEF TypeOK, Fields
<1> HIDE DEF Fields
<1> QED
  BY <1>1

\* The steps that change nothing but the position.
LEMMA Onward ==
    ASSUME TypeOK, Paths, NEW c \in Calls, NEW op \in Ops, call[c].pc \in StepsOf(op),
           NEW x \in StepsOf(op) \cup Ends, Goes(c, x),
           Len(codes') \in Nat, Len(codes) <= Len(codes')
    PROVE  Moves(c) /\ call'[c].pc = x
<1>1. x \in Steps \cup Ends /\ call[c].pc \notin Ends
  BY StepSets
<1>2. /\ \A d \in Calls \ {c} : call'[d] = call[d]
      /\ call' \in [Calls -> Fields(Len(codes'))]
      /\ call'[c] = [call[c] EXCEPT !.pc = x]
  BY <1>1, GoTo
<1>3. call[c] \in Fields(Len(codes))
  BY DEF TypeOK, Fields
<1>4. /\ call'[c].pc = x /\ call'[c].ask = call[c].ask
      /\ call'[c].before = call[c].before /\ call'[c].homed = call[c].homed
      /\ call'[c].row = call[c].row /\ call'[c].read = call[c].read
      /\ call'[c].opened = call[c].opened /\ call'[c].created = call[c].created
  BY <1>2, <1>3 DEF Fields
<1>5. call[c].ask # None /\ call[c].ask.op = op
  BY Asked DEF Asking
<1>6. x \in Steps => x \in StepsOf(op)
  BY StepSets
<1> QED
  BY <1>1, <1>2, <1>4, <1>5, <1>6 DEF Moves

LEMMA StartMoves ==
    ASSUME TypeOK, Paths, NEW c \in Calls, Start(c) \/ Die(c), Len(codes') = Len(codes)
    PROVE  Moves(c)
<1>1. Len(codes) \in Nat /\ call[c] \in Fields(Len(codes))
  BY DEF TypeOK, Fields
<1>2. CASE Start(c)
  <2> DEFINE r == [call[c] EXCEPT !.pc = First(call[c].ask.op), !.before = Ended,
                                  !.homed = Homes # {}]
  <2>1. call' = [call EXCEPT ![c] = r] /\ call[c].ask # None /\ call[c].pc = "idle"
    BY <1>2 DEF Start
  <2>2. call[c].ask \in Asks /\ call[c].ask.op \in Ops
    BY <1>1, <2>1 DEF Fields, Asks
  <2>3. First(call[c].ask.op) \in StepsOf(call[c].ask.op)
    BY <2>2 DEF First, StepsOf, Ops
  <2>4. First(call[c].ask.op) \in Steps
    BY <2>2, <2>3, StepSets
  <2>5. r \in Fields(Len(codes))
    BY <1>1, <2>4 DEF Fields, Ended
  <2>6. r.pc = First(call[c].ask.op) /\ r.ask = call[c].ask
        /\ r.row = call[c].row /\ r.read = call[c].read
        /\ r.opened = call[c].opened /\ r.created = call[c].created
    BY <1>1 DEF Fields
  <2> HIDE DEF r
  <2>7. /\ \A d \in Calls \ {c} : call'[d] = call[d]
        /\ call' \in [Calls -> Fields(Len(codes'))]
        /\ call'[c] = r
    <3>1. Len(codes) <= Len(codes)
      BY <1>1
    <3> HIDE DEF Fields
    <3> QED
      BY <1>1, <2>1, <2>5, <3>1, SetTo
  <2> QED
    BY <1>2, <2>1, <2>3, <2>4, <2>6, <2>7, StepSets DEF Moves
<1>3. CASE Die(c)
  <2>1. call[c].pc \in Steps /\ Goes(c, "threw") /\ "threw" \in Ends
    BY <1>3 DEF Die, Ends
  <2>2. call[c].ask # None /\ call[c].ask \in Asks /\ call[c].pc \in StepsOf(call[c].ask.op)
    BY <1>1, <2>1 DEF Paths, Path, Fields
  <2> QED
    BY <1>1, <2>1, <2>2, Onward DEF Asks
<1> QED
  BY <1>2, <1>3

\* The steps that note something besides the position.
LEMMA Noting ==
    ASSUME TypeOK, Paths, NEW c \in Calls, NEW op \in Ops, call[c].pc \in StepsOf(op),
           NEW r \in Fields(Len(codes)), r.pc \in StepsOf(op) \cup Ends,
           call' = [call EXCEPT ![c] = r], Len(codes') = Len(codes),
           r.ask = call[c].ask, r.before = call[c].before, r.homed = call[c].homed,
           SelectCode(c) \/ (r.row = call[c].row /\ r.read = call[c].read),
           UseCode(c) \/ r.opened = call[c].opened,
           InsertUser(c) \/ r.created = call[c].created
    PROVE  Moves(c) /\ call'[c] = r
<1>1. Len(codes) \in Nat /\ Len(codes) <= Len(codes)
  BY DEF TypeOK
<1>2. /\ \A d \in Calls \ {c} : call'[d] = call[d]
      /\ call' \in [Calls -> Fields(Len(codes'))]
      /\ call'[c] = r
  <2> HIDE DEF Fields
  <2> QED
    BY <1>1, SetTo
<1>3. call[c].ask # None /\ call[c].ask.op = op
  BY Asked DEF Asking
<1>4. r.pc \in Steps \cup Ends /\ call[c].pc \notin Ends /\ (r.pc \in Steps => r.pc \in StepsOf(op))
  BY StepSets
<1> QED
  BY <1>2, <1>3, <1>4 DEF Moves

\* One code of the sequence changed, and one added.
LEMMA CodeSet ==
    ASSUME NEW s \in Seq(Codes), NEW i \in DOMAIN s, NEW r \in Codes,
           NEW t, t = [s EXCEPT ![i] = r]
    PROVE  /\ t \in Seq(Codes) /\ Len(t) = Len(s) /\ DOMAIN t = DOMAIN s /\ t[i] = r
           /\ \A j \in DOMAIN s \ {i} : t[j] = s[j]
<1> HIDE DEF Codes
<1>1. Len(s) \in Nat /\ DOMAIN s = 1..Len(s) /\ s \in [1..Len(s) -> Codes]
  OBVIOUS
<1>2. t \in [1..Len(s) -> Codes]
  BY <1>1
<1>3. t \in Seq(Codes)
  BY <1>1, <1>2
<1>4. DOMAIN t = 1..Len(t) /\ Len(t) \in Nat
  BY <1>3
<1> QED
  BY <1>1, <1>2, <1>3, <1>4

LEMMA CodeAdd ==
    ASSUME NEW s \in Seq(Codes), NEW r \in Codes, NEW t, t = Append(s, r)
    PROVE  /\ t \in Seq(Codes) /\ Len(t) = Len(s) + 1 /\ Len(s) \in Nat
           /\ DOMAIN t = DOMAIN s \cup {Len(t)} /\ Len(t) \notin DOMAIN s /\ t[Len(t)] = r
           /\ \A j \in DOMAIN s : t[j] = s[j]
<1> HIDE DEF Codes
<1>1. Len(s) \in Nat /\ DOMAIN s = 1..Len(s)
  OBVIOUS
<1>2. t \in Seq(Codes) /\ Len(t) = Len(s) + 1
  OBVIOUS
<1>3. DOMAIN t = 1..Len(t)
  BY <1>2
<1> QED
  BY <1>1, <1>2, <1>3

\* What CodeStep writes.
LEMMA CodeWrites ==
    ASSUME TypeOK, NEW c \in Calls, Entry(c)
    PROVE  /\ call[c].pc \in {"spend", "wrong", "use"} \/ call[c].opened => call[c].row \in DOMAIN codes
           /\ InsertCode(c) => Mailed(c) \in Codes
           /\ SpendCode(c) \/ UseCode(c) =>
                /\ [codes[call[c].row] EXCEPT !.used = TRUE] \in Codes
                /\ codes' = [codes EXCEPT ![call[c].row] = [codes[call[c].row] EXCEPT !.used = TRUE]]
           /\ CountAttempt(c) =>
                /\ call[c].read + 1 \in 0..MaxAttempts
                /\ [codes[call[c].row] EXCEPT !.attempts = call[c].read + 1] \in Codes
                /\ codes' = [codes EXCEPT ![call[c].row] =
                               [codes[call[c].row] EXCEPT !.attempts = call[c].read + 1]]
<1>1. /\ Len(codes) \in Nat /\ DOMAIN codes = 1..Len(codes) /\ MaxAttempts \in Nat
      /\ codes \in Seq(Codes)
  BY ConstantsAssumption DEF TypeOK
<1>2. call[c].row \in 0..Len(codes) /\ call[c].read \in 0..MaxAttempts
  BY DEF TypeOK
<1>3. call[c].pc \in {"spend", "wrong", "use"} \/ call[c].opened => call[c].row \in DOMAIN codes
  <2>1. call[c].pc \in {"spend", "wrong", "use"} \/ call[c].opened => call[c].row # 0
    BY DEF Entry
  <2> HIDE DEF Codes
  <2> QED
    BY <1>1, <1>2, <2>1
<1>4. InsertCode(c) => Mailed(c) \in Codes
  BY <1>1 DEF Mailed, Codes
<1>5. ASSUME call[c].row \in DOMAIN codes
      PROVE  codes[call[c].row] \in Codes
  BY <1>1, <1>5
<1>6. CASE SpendCode(c) \/ UseCode(c)
  <2>1. codes[call[c].row] \in Codes
    BY <1>3, <1>5, <1>6 DEF SpendCode, UseCode
  <2> QED
    BY <1>3, <1>4, <1>6, <2>1 DEF SpendCode, UseCode, CountAttempt, Codes
<1>7. CASE CountAttempt(c)
  <2>1. call[c].pc = "wrong" /\ codes[call[c].row] \in Codes
    BY <1>3, <1>5, <1>7 DEF CountAttempt
  <2>2. call[c].read + 1 \in 0..MaxAttempts
    BY <1>1, <1>2, <2>1 DEF Entry
  <2> QED
    BY <1>3, <1>4, <1>7, <2>1, <2>2 DEF SpendCode, UseCode, CountAttempt, Codes
<1> QED
  BY <1>3, <1>4, <1>6, <1>7

LEMMA CodeMoves ==
    ASSUME TypeOK, Paths, NEW c \in Calls, Entry(c), CodeStep(c)
    PROVE  Moves(c) /\ codes' \in Seq(Codes) /\ Len(codes') \in Nat /\ Len(codes) <= Len(codes')
<1> DEFINE Grows == codes' \in Seq(Codes) /\ Len(codes') \in Nat /\ Len(codes) <= Len(codes')
<1>1. Len(codes) \in Nat /\ codes \in Seq(Codes) /\ Len(codes) <= Len(codes)
  BY DEF TypeOK
<1>2. CASE CountCodes(c) \/ InsertCode(c)
  <2>1. Grows
    <3>1. CASE InsertCode(c)
      <4>1. Mailed(c) \in Codes /\ codes' = Append(codes, Mailed(c))
        BY <3>1, CodeWrites DEF InsertCode
      <4> QED
        BY <1>1, <4>1, CodeAdd
    <3>2. CASE CountCodes(c)
      BY <1>1, <3>2 DEF CountCodes
    <3> QED
      BY <1>2, <3>1, <3>2
  <2>2. call[c].pc \in StepsOf("send")
    BY <1>2 DEF CountCodes, InsertCode, StepsOf
  <2>3. \E x \in StepsOf("send") \cup Ends : Goes(c, x)
    <3>1. {"refused", "insert code", "done"} \subseteq StepsOf("send") \cup Ends
      BY DEF StepsOf, Ends
    <3>2. \E x \in {"refused", "insert code", "done"} : Goes(c, x)
      BY <1>2 DEF CountCodes, InsertCode
    <3> QED
      BY <3>1, <3>2
  <2> QED
    BY <2>1, <2>2, <2>3, Onward DEF Ops
<1>3. CASE SpendCode(c) \/ CountAttempt(c)
  <2>1. call[c].row \in DOMAIN codes
    BY <1>3, CodeWrites DEF SpendCode, CountAttempt
  <2>2. Grows
    <3>1. PICK r \in Codes : codes' = [codes EXCEPT ![call[c].row] = r]
      BY <1>3, CodeWrites
    <3> QED
      BY <1>1, <2>1, <3>1, CodeSet
  <2>3. call[c].pc \in StepsOf("signin") /\ Goes(c, "refused") /\ "refused" \in Ends
    BY <1>3 DEF SpendCode, CountAttempt, StepsOf, Ends
  <2> QED
    BY <2>2, <2>3, Onward DEF Ops
<1>4. CASE SelectCode(c)
  <2>1. call[c].pc \in StepsOf("signin") /\ codes' = codes
    BY <1>4 DEF SelectCode, StepsOf
  <2>2. CASE Unused = {}
    <3>1. Goes(c, "refused") /\ "refused" \in Ends
      BY <1>4, <2>2 DEF SelectCode, Ends
    <3> QED
      BY <1>1, <2>1, <3>1, Onward DEF Ops
  <2>3. ASSUME NEW n \in Unused,
               call' = [call EXCEPT ![c].pc = Verdict(c, n), ![c].row = n,
                                    ![c].read = codes[n].attempts]
        PROVE  Moves(c)
    <3> DEFINE r == [call[c] EXCEPT !.pc = Verdict(c, n), !.row = n, !.read = codes[n].attempts]
    <3>0. n \in DOMAIN codes /\ codes[n] \in Codes /\ DOMAIN codes = 1..Len(codes)
      <4> HIDE DEF Codes
      <4> QED
        BY <1>1 DEF Unused
    <3>1. n \in 0..Len(codes) /\ codes[n].attempts \in 0..MaxAttempts
      BY <1>1, <3>0 DEF Codes
    <3>2. Verdict(c, n) \in {"refused", "spend", "wrong", "use"}
      BY DEF Verdict
    <3>3. Verdict(c, n) \in StepsOf("signin") \cup Ends /\ "signin" \in Ops
      BY <3>2 DEF StepsOf, Ends, Ops
    <3>4. Verdict(c, n) \in Steps \cup Ends
      BY <3>3, StepSets
    <3>5. r \in Fields(Len(codes)) /\ r.pc = Verdict(c, n) /\ r.ask = call[c].ask
          /\ r.before = call[c].before /\ r.homed = call[c].homed
          /\ r.opened = call[c].opened /\ r.created = call[c].created
      <4>1. call[c] \in Fields(Len(codes))
        BY DEF TypeOK, Fields
      <4> HIDE DEF Verdict
      <4> QED
        BY <3>1, <3>4, <4>1 DEF Fields
    <3>6. call' = [call EXCEPT ![c] = r]
      BY <2>3
    <3> HIDE DEF r
    <3> QED
      BY <1>4, <2>1, <3>3, <3>5, <3>6, Noting
  <2>4. Unused # {} => \E n \in Unused :
           call' = [call EXCEPT ![c].pc = Verdict(c, n), ![c].row = n, ![c].read = codes[n].attempts]
    BY <1>4 DEF SelectCode
  <2>5. Moves(c)
    BY <2>2, <2>3, <2>4
  <2> QED
    BY <1>1, <2>1, <2>5
<1>5. CASE UseCode(c)
  <2> DEFINE r == [call[c] EXCEPT !.pc = "find", !.opened = TRUE]
  <2>1. call[c].row \in DOMAIN codes
    BY <1>5, CodeWrites DEF UseCode
  <2>2. Grows /\ Len(codes') = Len(codes)
    <3>1. PICK x \in Codes : codes' = [codes EXCEPT ![call[c].row] = x]
      BY <1>5, CodeWrites
    <3> QED
      BY <1>1, <2>1, <3>1, CodeSet
  <2>4. call[c].pc \in StepsOf("signin") /\ "find" \in StepsOf("signin") /\ "signin" \in Ops
    BY <1>5 DEF UseCode, StepsOf, Ops
  <2>5. "find" \in Steps
    BY DEF Steps
  <2>6. r \in Fields(Len(codes)) /\ r.pc = "find" /\ r.ask = call[c].ask
          /\ r.before = call[c].before /\ r.homed = call[c].homed
          /\ r.row = call[c].row /\ r.read = call[c].read /\ r.created = call[c].created
    <3>1. call[c] \in Fields(Len(codes))
      BY DEF TypeOK, Fields
    <3> QED
      BY <2>5, <3>1 DEF Fields
  <2>7. call' = [call EXCEPT ![c] = r]
    BY <1>5 DEF UseCode
  <2> HIDE DEF r
  <2>8. Moves(c)
    BY <1>5, <2>2, <2>4, <2>6, <2>7, Noting
  <2> QED
    BY <2>2, <2>8
<1> QED
  BY <1>2, <1>3, <1>4, <1>5 DEF CodeStep

LEMMA SignInMoves ==
    ASSUME TypeOK, Paths, NEW c \in Calls, SignInStep(c)
    PROVE  Moves(c) /\ codes' = codes
<1>0. codes' = codes
  BY DEF SignInStep, FindUser, InsertUser, EnsureDefault, InsertHome, PointHome
<1>1. Len(codes) \in Nat /\ call[c] \in Fields(Len(codes)) /\ user \in BOOLEAN
  BY DEF TypeOK, Fields
<1>2. call[c].pc \in StepsOf("signin")
  BY DEF SignInStep, FindUser, InsertUser, EnsureDefault, InsertHome, PointHome, StepsOf
<1>3. CASE InsertUser(c)
  <2> DEFINE pc == IF user THEN "threw" ELSE "ensure"
             r  == [call[c] EXCEPT !.pc = pc, !.created = ~user]
  <2>1. pc \in StepsOf("signin") \cup Ends /\ "signin" \in Ops
    BY DEF StepsOf, Ends, Ops
  <2>2. pc \in Steps \cup Ends
    BY <2>1, StepSets
  <2> HIDE DEF pc
  <2>3. r \in Fields(Len(codes)) /\ r.pc = pc /\ r.ask = call[c].ask
          /\ r.before = call[c].before /\ r.homed = call[c].homed
          /\ r.row = call[c].row /\ r.read = call[c].read /\ r.opened = call[c].opened
    BY <1>1, <2>2 DEF Fields
  <2>4. call' = [call EXCEPT ![c] = r]
    BY <1>3 DEF InsertUser, pc
  <2> HIDE DEF r
  <2> QED
    BY <1>0, <1>2, <1>3, <2>1, <2>3, <2>4, Noting
<1>4. CASE ~InsertUser(c)
  <2>1. \E x \in StepsOf("signin") \cup Ends : Goes(c, x)
    BY <1>4 DEF SignInStep, FindUser, EnsureDefault, InsertHome, PointHome, StepsOf, Ends
  <2> QED
    BY <1>0, <1>1, <1>2, <2>1, Onward DEF Ops
<1> QED
  BY <1>0, <1>3, <1>4

LEMMA CreateMoves ==
    ASSUME TypeOK, Paths, NEW c \in Calls, CreateStep(c)
    PROVE  Moves(c) /\ codes' = codes
<1>0. codes' = codes
  BY DEF CreateStep, CountWorkspaces, PickSlug, InsertWorkspace, Adopt, PointAt
<1>1. Len(codes) \in Nat /\ call[c] \in Fields(Len(codes))
  BY DEF TypeOK, Fields
<1>2. call[c].pc \in StepsOf("create") /\ "create" \in Ops
  BY DEF CreateStep, CountWorkspaces, PickSlug, InsertWorkspace, Adopt, StepsOf, Ops
<1>3. {"refused", "done", "threw", "slug", "insert", "adopt"} \subseteq StepsOf("create") \cup Ends
  BY DEF StepsOf, Ends
<1>4. CASE PickSlug(c) /\ ~(call[c].ask.slug = "asked" /\ SlugTaken)
  <2> DEFINE default == call[c].ask.slug # "other" /\ ~SlugTaken
             r == [call[c] EXCEPT !.pc = "insert", !.default = default]
  <2>1. "insert" \in Steps
    BY DEF Steps
  <2>2. default \in BOOLEAN
    OBVIOUS
  <2> HIDE DEF default
  <2>3. r \in Fields(Len(codes)) /\ r.pc = "insert" /\ r.ask = call[c].ask
          /\ r.before = call[c].before /\ r.homed = call[c].homed
          /\ r.row = call[c].row /\ r.read = call[c].read
          /\ r.opened = call[c].opened /\ r.created = call[c].created
    BY <1>1, <2>1, <2>2 DEF Fields
  <2>4. call' = [call EXCEPT ![c] = r]
    BY <1>4 DEF PickSlug, default
  <2> HIDE DEF r
  <2> QED
    BY <1>0, <1>2, <1>3, <2>3, <2>4, Noting
<1>5. CASE ~(PickSlug(c) /\ ~(call[c].ask.slug = "asked" /\ SlugTaken))
  <2>1. \E x \in {"refused", "done", "threw", "slug", "insert", "adopt"} : Goes(c, x)
    <3>1. ~Adopt(c) => \E x \in {"refused", "done", "threw", "slug", "insert", "adopt"} : Goes(c, x)
      BY <1>5 DEF CreateStep, CountWorkspaces, PickSlug, InsertWorkspace
    <3>2. Adopt(c) => Goes(c, "done") \/ Goes(c, "threw")
      <4>1. call[c].pc = "adopt" => ~Asking(c, "delete")
        BY Asked DEF Ops, StepsOf, Asking
      <4> QED
        BY <4>1 DEF Adopt, PointAt
    <3> QED
      BY <3>1, <3>2
  <2> QED
    BY <1>0, <1>1, <1>2, <1>3, <2>1, Onward
<1> QED
  BY <1>0, <1>4, <1>5

LEMMA SwitchMoves ==
    ASSUME TypeOK, Paths, NEW c \in Calls, SwitchStep(c)
    PROVE  Moves(c) /\ codes' = codes
<1>1. codes' = codes /\ Len(codes) \in Nat
  BY DEF SwitchStep, CheckOwn, Choose, PointAt, TypeOK
<1>2. call[c].pc \in StepsOf("switch") /\ "switch" \in Ops
  BY DEF SwitchStep, CheckOwn, Choose, StepsOf, Ops
<1>3. {"refused", "done", "threw", "choose"} \subseteq StepsOf("switch") \cup Ends
  BY DEF StepsOf, Ends
<1>4. ~Asking(c, "delete")
  BY <1>2, Asked DEF Asking
<1>5. \E x \in {"refused", "done", "threw", "choose"} : Goes(c, x)
  BY <1>4 DEF SwitchStep, CheckOwn, Choose, PointAt
<1> QED
  BY <1>1, <1>2, <1>3, <1>5, Onward

LEMMA DeleteMoves ==
    ASSUME TypeOK, Paths, NEW c \in Calls, DeleteStep(c)
    PROVE  Moves(c) /\ codes' = codes
<1>0. codes' = codes
  BY DEF DeleteStep, ReadDeletable, LastRemaining, IsActive, FindDefault, Flip, Remove, PointAt
<1>1. Len(codes) \in Nat /\ call[c] \in Fields(Len(codes))
  BY DEF TypeOK, Fields
<1>2. call[c].pc \in StepsOf("delete") /\ "delete" \in Ops
  BY DEF DeleteStep, ReadDeletable, LastRemaining, IsActive, FindDefault, Flip, Remove, StepsOf, Ops
<1>3. {"refused", "done", "threw", "last", "whose", "fallback", "flip", "remove"}
         \subseteq StepsOf("delete") \cup Ends
  BY DEF StepsOf, Ends
<1>4. CASE FindDefault(c)
  <2>1. PICK w \in Calls \cup {None} : call' = [call EXCEPT ![c].pc = "flip", ![c].held = w]
    BY <1>4 DEF FindDefault, Homes, Existing
  <2> DEFINE r == [call[c] EXCEPT !.pc = "flip", !.held = w]
  <2>2. "flip" \in Steps
    BY DEF Steps
  <2>3. r \in Fields(Len(codes)) /\ r.pc = "flip" /\ r.ask = call[c].ask
          /\ r.before = call[c].before /\ r.homed = call[c].homed
          /\ r.row = call[c].row /\ r.read = call[c].read
          /\ r.opened = call[c].opened /\ r.created = call[c].created
    BY <1>1, <2>2 DEF Fields
  <2>4. call' = [call EXCEPT ![c] = r]
    BY <2>1
  <2> HIDE DEF r
  <2> QED
    BY <1>0, <1>2, <1>3, <2>3, <2>4, Noting
<1>5. CASE ~FindDefault(c)
  <2>1. \E x \in {"refused", "done", "threw", "last", "whose", "fallback", "flip", "remove"} : Goes(c, x)
    BY <1>5 DEF DeleteStep, ReadDeletable, LastRemaining, IsActive, Flip, Remove, PointAt
  <2> QED
    BY <1>0, <1>1, <1>2, <1>3, <2>1, Onward
<1> QED
  BY <1>0, <1>4, <1>5

LEMMA ResolveMoves ==
    ASSUME TypeOK, Paths, NEW c \in Calls, ResolveStep(c)
    PROVE  Moves(c) /\ codes' = codes
<1>0. codes' = codes
  BY DEF ResolveStep, ReadActive, ReadThat, ReadDefault
<1>1. Len(codes) \in Nat /\ call[c] \in Fields(Len(codes)) /\ active \in Calls \cup {None}
  BY DEF TypeOK, Fields
<1>2. call[c].pc \in StepsOf("resolve") /\ "resolve" \in Ops
  BY DEF ResolveStep, ReadActive, ReadThat, ReadDefault, StepsOf, Ops
<1>3. {"done", "threw", "default", "that"} \subseteq StepsOf("resolve") \cup Ends
  BY DEF StepsOf, Ends
<1>4. ASSUME NEW w \in Calls \cup {None}, NEW x \in {"done", "threw", "default", "that"},
             call' = [call EXCEPT ![c].pc = x, ![c].held = w]
      PROVE  Moves(c)
  <2> DEFINE r == [call[c] EXCEPT !.pc = x, !.held = w]
  <2>1. x \in Steps \cup Ends
    BY <1>2, <1>3, StepSets
  <2>2. r \in Fields(Len(codes)) /\ r.pc = x /\ r.ask = call[c].ask
          /\ r.before = call[c].before /\ r.homed = call[c].homed
          /\ r.row = call[c].row /\ r.read = call[c].read
          /\ r.opened = call[c].opened /\ r.created = call[c].created
    BY <1>1, <2>1 DEF Fields
  <2>3. call' = [call EXCEPT ![c] = r]
    BY <1>4
  <2> HIDE DEF r
  <2> QED
    BY <1>0, <1>2, <1>3, <2>2, <2>3, Noting
<1>5. \/ \E x \in {"done", "threw", "default", "that"} : Goes(c, x)
      \/ \E w \in Calls \cup {None}, x \in {"done", "threw", "default", "that"} :
           call' = [call EXCEPT ![c].pc = x, ![c].held = w]
  <2>1. CASE ReadActive(c)
    <3>1. (IF active = None THEN "default" ELSE "that") \in {"done", "threw", "default", "that"}
      OBVIOUS
    <3> QED
      BY <1>1, <2>1, <3>1 DEF ReadActive
  <2>2. CASE ReadThat(c) \/ (ReadDefault(c) /\ Homes = {})
    BY <2>2 DEF ReadThat, ReadDefault
  <2>3. CASE ReadDefault(c) /\ Homes # {}
    BY <2>3 DEF ReadDefault, Homes, Existing
  <2> QED
    BY <2>1, <2>2, <2>3 DEF ResolveStep
<1> QED
  BY <1>0, <1>1, <1>2, <1>3, <1>4, <1>5, Onward

\* Where each step leads.
LEMMA Leads ==
    ASSUME TypeOK, Paths, NEW c \in Calls
    PROVE  /\ \A x : Goes(c, x) => call'[c].pc = x
           /\ Start(c) => /\ call'[c].pc = First(call[c].ask.op) /\ call[c].ask \in Asks
                          /\ call'[c].before = Ended /\ call'[c].homed = (Homes # {})
           /\ \A r \in Unused :
                call' = [call EXCEPT ![c].pc = Verdict(c, r), ![c].row = r, ![c].read = codes[r].attempts]
                => call'[c].pc = Verdict(c, r) /\ call'[c].row = r /\ call'[c].read = codes[r].attempts
           /\ UseCode(c) => call'[c].pc = "find" /\ call'[c].opened
           /\ InsertUser(c) => /\ call'[c].pc = (IF user THEN "threw" ELSE "ensure")
                               /\ call'[c].created = ~user
           /\ PickSlug(c) => call'[c].pc \in {"refused", "insert"}
           /\ FindDefault(c) => call'[c].pc = "flip" /\ call'[c].held \in Homes \cup {None}
           /\ ReadActive(c) => /\ call'[c].pc = (IF active = None THEN "default" ELSE "that")
           /\ ReadDefault(c) => call'[c].pc = (IF Homes = {} THEN "threw" ELSE "done")
<1>1. call[c] \in Fields(Len(codes)) /\ c \in DOMAIN call
  BY DEF TypeOK, Fields
<1>2. \A x : Goes(c, x) => call'[c].pc = x
  BY <1>1 DEF Goes, Fields
<1>3. Start(c) => /\ call'[c].pc = First(call[c].ask.op) /\ call[c].ask \in Asks
                  /\ call'[c].before = Ended /\ call'[c].homed = (Homes # {})
  <2> DEFINE some == Homes # {}
             pc   == First(call[c].ask.op)
  <2>1. Start(c) => /\ call' = [call EXCEPT ![c].pc = pc, ![c].before = Ended, ![c].homed = some]
                    /\ call[c].ask # None
    BY DEF Start
  <2> HIDE DEF some, pc
  <2>2. call[c].ask \in Asks \cup {None}
    BY <1>1 DEF Fields
  <2>3. ASSUME Start(c)
        PROVE  call'[c] = [call[c] EXCEPT !.pc = pc, !.before = Ended, !.homed = some]
    BY <1>1, <2>1, <2>3
  <2>4. Start(c) => call'[c].pc = pc /\ call'[c].before = Ended /\ call'[c].homed = some
    BY <1>1, <2>3 DEF Fields
  <2> QED
    BY <2>1, <2>2, <2>4 DEF some, pc
<1>4. ASSUME NEW r \in Unused,
             call' = [call EXCEPT ![c].pc = Verdict(c, r), ![c].row = r, ![c].read = codes[r].attempts]
      PROVE  call'[c].pc = Verdict(c, r) /\ call'[c].row = r /\ call'[c].read = codes[r].attempts
  <2> HIDE DEF Verdict
  <2> QED
    BY <1>1, <1>4 DEF Fields
<1>5. UseCode(c) => call'[c].pc = "find" /\ call'[c].opened
  BY <1>1 DEF UseCode, Fields
<1>6. InsertUser(c) => /\ call'[c].pc = (IF user THEN "threw" ELSE "ensure")
                       /\ call'[c].created = ~user
  <2> DEFINE pc == IF user THEN "threw" ELSE "ensure"
             made == ~user
  <2>1. InsertUser(c) => call' = [call EXCEPT ![c].pc = pc, ![c].created = made]
    BY DEF InsertUser
  <2> HIDE DEF pc, made
  <2>2. InsertUser(c) => call'[c].pc = pc /\ call'[c].created = made
    BY <1>1, <2>1 DEF Fields
  <2> QED
    BY <2>2 DEF pc, made
<1>7. PickSlug(c) => call'[c].pc \in {"refused", "insert"}
  BY <1>1 DEF PickSlug, Goes, Fields
<1>8. FindDefault(c) => call'[c].pc = "flip" /\ call'[c].held \in Homes \cup {None}
  <2> SUFFICES ASSUME FindDefault(c)
               PROVE  call'[c].pc = "flip" /\ call'[c].held \in Homes \cup {None}
    OBVIOUS
  <2>1. PICK w \in Homes \cup {None} : call' = [call EXCEPT ![c].pc = "flip", ![c].held = w]
    BY DEF FindDefault
  <2> QED
    BY <1>1, <2>1 DEF Fields
<1>9. ReadActive(c) => call'[c].pc = (IF active = None THEN "default" ELSE "that")
  <2> DEFINE pc == IF active = None THEN "default" ELSE "that"
  <2>1. ReadActive(c) => call' = [call EXCEPT ![c].pc = pc, ![c].held = active]
    BY DEF ReadActive
  <2> HIDE DEF pc
  <2>2. ReadActive(c) => call'[c].pc = pc
    BY <1>1, <2>1 DEF Fields
  <2> QED
    BY <2>2 DEF pc
<1>10. ReadDefault(c) => call'[c].pc = (IF Homes = {} THEN "threw" ELSE "done")
  <2> HIDE DEF Homes
  <2> QED
    BY <1>1, <1>2 DEF ReadDefault, Fields
<1> QED
  BY <1>2, <1>3, <1>4, <1>5, <1>6, <1>7, <1>8, <1>9, <1>10

LEMMA Unnoted ==
    ASSUME TypeOK, NEW c \in Calls, NEW x, Goes(c, x)
    PROVE  /\ call'[c].pc = x /\ call'[c].row = call[c].row /\ call'[c].read = call[c].read
           /\ call'[c].created = call[c].created /\ call'[c].opened = call[c].opened
<1>1. call[c] \in Fields(Len(codes)) /\ c \in DOMAIN call
  BY DEF TypeOK, Fields
<1> QED
  BY <1>1 DEF Goes, Fields

\* Which steps lead there.
LEMMA Arrivals ==
    ASSUME TypeOK, Paths, NEW c \in Calls, By(c)
    PROVE  /\ call'[c].pc = "insert code" => CountCodes(c)
           /\ call'[c].pc = "select code" => Start(c)
           /\ call'[c].pc \in {"spend", "wrong", "use"} => SelectCode(c)
           /\ call'[c].pc = "find" => UseCode(c)
           /\ call'[c].pc = "insert user" => FindUser(c)
           /\ call'[c].pc = "ensure" => InsertUser(c)
           /\ call'[c].pc = "insert home" => EnsureDefault(c)
           /\ call'[c].pc = "point" => InsertHome(c)
           /\ call'[c].pc = "count" => Start(c)
           /\ call'[c].pc = "slug" => CountWorkspaces(c)
           /\ call'[c].pc = "insert" => PickSlug(c)
           /\ call'[c].pc = "adopt" => InsertWorkspace(c)
           /\ call'[c].pc = "last" => ReadDeletable(c)
           /\ call'[c].pc = "whose" => LastRemaining(c)
           /\ call'[c].pc = "fallback" => IsActive(c)
           /\ call'[c].pc = "flip" => FindDefault(c)
           /\ call'[c].pc = "remove" => IsActive(c) \/ Flip(c)
           /\ call'[c].pc = "default" => ReadActive(c) \/ ReadThat(c)
           /\ call'[c].pc = "that" => ReadActive(c)
<1>1. CASE Start(c)
  <2>1. call'[c].pc \in {"count codes", "select code", "count", "own", "read", "active"}
    BY <1>1, Leads DEF First, Asks, Ops
  <2> QED
    BY <1>1, <2>1
<1>2. CASE Die(c)
  BY <1>2, Leads DEF Die
<1>3. CASE CodeStep(c)
  <2>1. CASE SelectCode(c)
    <3>1. call'[c].pc \in {"refused", "spend", "wrong", "use"}
      BY <2>1, Leads DEF SelectCode, Verdict
    <3> QED
      BY <2>1, <3>1
  <2>2. CASE ~SelectCode(c)
    BY <1>3, <2>2, Leads DEF CodeStep, CountCodes, InsertCode, SpendCode, CountAttempt
  <2> QED
    BY <2>1, <2>2
<1>4. CASE SignInStep(c)
  BY <1>4, Leads DEF SignInStep, FindUser, EnsureDefault, InsertHome, PointHome
<1>5. CASE CreateStep(c)
  <2>1. Asking(c, "create") /\ ~Asking(c, "delete")
    BY <1>5, Asked DEF CreateStep, CountWorkspaces, PickSlug, InsertWorkspace, Adopt, StepsOf, Ops, Asking
  <2> QED
    BY <1>5, <2>1, Leads DEF CreateStep, CountWorkspaces, InsertWorkspace, Adopt, PointAt
<1>6. CASE SwitchStep(c)
  <2>1. ~Asking(c, "delete")
    BY <1>6, Asked DEF SwitchStep, CheckOwn, Choose, StepsOf, Ops, Asking
  <2> QED
    BY <1>6, <2>1, Leads DEF SwitchStep, CheckOwn, Choose, PointAt
<1>7. CASE DeleteStep(c)
  <2>1. ~(FindDefault(c) \/ Flip(c)) =>
           /\ ReadDeletable(c) => call'[c].pc \in {"last", "refused"}
           /\ LastRemaining(c) => call'[c].pc \in {"refused", "whose"}
           /\ IsActive(c) => call'[c].pc \in {"fallback", "remove"}
           /\ Remove(c) => call'[c].pc = "done"
    BY Leads DEF ReadDeletable, LastRemaining, IsActive, Remove
  <2>2. Flip(c) => call'[c].pc \in {"remove", "done", "threw"}
    BY Leads DEF Flip, PointAt
  <2> QED
    BY <1>7, <2>1, <2>2, Leads DEF DeleteStep
<1>8. CASE ResolveStep(c)
  <2>1. ReadThat(c) => call'[c].pc \in {"done", "default"}
    BY Leads DEF ReadThat
  <2> QED
    BY <1>8, <2>1, Leads DEF ResolveStep
<1> QED
  BY <1>1, <1>2, <1>3, <1>4, <1>5, <1>6, <1>7, <1>8, Kinds

\* A request that has begun takes the steps of what it asks.
LEMMA OwnSteps ==
    ASSUME TypeOK, Paths, NEW c \in Calls, By(c)
    PROVE  /\ Asking(c, "signin") => \/ Start(c) \/ Die(c) \/ SelectCode(c) \/ SpendCode(c)
                                     \/ CountAttempt(c) \/ UseCode(c) \/ SignInStep(c)
           /\ Asking(c, "delete") => Start(c) \/ Die(c) \/ DeleteStep(c)
           /\ Asking(c, "resolve") => Start(c) \/ Die(c) \/ ResolveStep(c)
<1>1. CountCodes(c) \/ InsertCode(c) => call[c].pc \in StepsOf("send")
  BY DEF CountCodes, InsertCode, StepsOf
<1>2. SelectCode(c) \/ SpendCode(c) \/ CountAttempt(c) \/ UseCode(c) \/ SignInStep(c)
         => call[c].pc \in StepsOf("signin")
  BY DEF SelectCode, SpendCode, CountAttempt, UseCode, SignInStep, FindUser, InsertUser,
         EnsureDefault, InsertHome, PointHome, StepsOf
<1>3. CreateStep(c) => call[c].pc \in StepsOf("create")
  BY DEF CreateStep, CountWorkspaces, PickSlug, InsertWorkspace, Adopt, StepsOf
<1>4. SwitchStep(c) => call[c].pc \in StepsOf("switch")
  BY DEF SwitchStep, CheckOwn, Choose, StepsOf
<1>5. DeleteStep(c) => call[c].pc \in StepsOf("delete")
  BY DEF DeleteStep, ReadDeletable, LastRemaining, IsActive, FindDefault, Flip, Remove, StepsOf
<1>6. ResolveStep(c) => call[c].pc \in StepsOf("resolve")
  BY DEF ResolveStep, ReadActive, ReadThat, ReadDefault, StepsOf
<1>7. \A op \in Ops : call[c].pc \in StepsOf(op) => call[c].ask.op = op
  BY Asked
<1> QED
  BY <1>1, <1>2, <1>3, <1>4, <1>5, <1>6, <1>7, Kinds DEF Asking, Ops, CodeStep

-----------------------------------------------------------------------------
(* The base: types, paths, entries and the past.                           *)

\* However many requests there are to come, only finitely many have begun.
Begun == {c \in Calls : call[c].pc # "idle"}

Base == TypeOK /\ Paths /\ (\A c \in Calls : Past(c) /\ Entry(c)) /\ IsFiniteSet(Begun)

\* The codes are those there were, further on, and the ones added.
CodesKept ==
    /\ codes' \in Seq(Codes) /\ Len(codes) <= Len(codes') /\ DOMAIN codes \subseteq DOMAIN codes'
    /\ \A i \in DOMAIN codes : /\ codes'[i].of = codes[i].of
                               /\ codes[i].used => codes'[i].used
                               /\ codes[i].expired => codes'[i].expired

LEMMA CodesSame ==
    ASSUME TypeOK, codes' = codes
    PROVE  CodesKept
  BY DEF TypeOK, CodesKept

LEMMA CodeChanged ==
    ASSUME TypeOK, NEW i \in DOMAIN codes, NEW r \in Codes, codes' = [codes EXCEPT ![i] = r],
           r.of = codes[i].of, codes[i].used => r.used, codes[i].expired => r.expired
    PROVE  CodesKept
<1>1. codes \in Seq(Codes) /\ Len(codes) \in Nat
  BY DEF TypeOK
<1>2. /\ codes' \in Seq(Codes) /\ Len(codes') = Len(codes) /\ DOMAIN codes' = DOMAIN codes
      /\ codes'[i] = r /\ \A j \in DOMAIN codes \ {i} : codes'[j] = codes[j]
  BY <1>1, CodeSet
<1> HIDE DEF Codes
<1> QED
  BY <1>1, <1>2 DEF CodesKept

LEMMA ExpireKeeps ==
    ASSUME TypeOK, Expire
    PROVE  CodesKept /\ Len(codes') = Len(codes)
<1>1. PICK i \in DOMAIN codes : codes' = [codes EXCEPT ![i].expired = TRUE]
  BY DEF Expire
<1> DEFINE r == [codes[i] EXCEPT !.expired = TRUE]
<1>2. codes \in Seq(Codes) /\ DOMAIN codes = 1..Len(codes)
  BY DEF TypeOK
<1>3. codes[i] \in Codes
  BY <1>2
<1>4. r \in Codes /\ r.of = codes[i].of /\ r.used = codes[i].used /\ r.expired
  BY <1>3 DEF Codes
<1>5. codes' = [codes EXCEPT ![i] = r]
  BY <1>1
<1> HIDE DEF r
<1>6. CodesKept
  BY <1>4, <1>5, CodeChanged
<1>7. Len(codes') = Len(codes)
  BY <1>2, <1>4, <1>5, CodeSet
<1> QED
  BY <1>6, <1>7

LEMMA StepKeeps ==
    ASSUME TypeOK, Paths, NEW c \in Calls, Entry(c), By(c)
    PROVE  Moves(c) /\ CodesKept /\ (~CodeStep(c) => codes' = codes)
<1>1. CASE CodeStep(c)
  <2>1. Moves(c)
    BY <1>1, CodeMoves
  <2>2. CASE InsertCode(c)
    <3>1. Mailed(c) \in Codes /\ codes' = Append(codes, Mailed(c)) /\ codes \in Seq(Codes)
      BY <2>2, CodeWrites DEF InsertCode, TypeOK
    <3>2. /\ codes' \in Seq(Codes) /\ Len(codes') = Len(codes) + 1 /\ Len(codes) \in Nat
          /\ DOMAIN codes \subseteq DOMAIN codes'
          /\ \A j \in DOMAIN codes : codes'[j] = codes[j]
      BY <3>1, CodeAdd
    <3> HIDE DEF Codes
    <3> QED
      BY <1>1, <2>1, <3>2 DEF CodesKept
  <2>3. CASE SpendCode(c) \/ UseCode(c)
    <3> DEFINE r == [codes[call[c].row] EXCEPT !.used = TRUE]
    <3>1. r \in Codes /\ call[c].row \in DOMAIN codes /\ codes' = [codes EXCEPT ![call[c].row] = r]
      BY <2>3, CodeWrites DEF SpendCode, UseCode
    <3>2. codes[call[c].row] \in Codes
      BY <3>1 DEF TypeOK
    <3>3. r.of = codes[call[c].row].of /\ r.used /\ r.expired = codes[call[c].row].expired
      BY <3>2 DEF Codes
    <3> HIDE DEF r
    <3> QED
      BY <1>1, <2>1, <3>1, <3>3, CodeChanged
  <2>4. CASE CountAttempt(c)
    <3> DEFINE r == [codes[call[c].row] EXCEPT !.attempts = call[c].read + 1]
    <3>1. r \in Codes /\ call[c].row \in DOMAIN codes /\ codes' = [codes EXCEPT ![call[c].row] = r]
      BY <2>4, CodeWrites DEF CountAttempt
    <3>2. codes[call[c].row] \in Codes
      BY <3>1 DEF TypeOK
    <3>3. /\ r.of = codes[call[c].row].of /\ r.used = codes[call[c].row].used
          /\ r.expired = codes[call[c].row].expired
      BY <3>2 DEF Codes
    <3> HIDE DEF r
    <3> QED
      BY <1>1, <2>1, <3>1, <3>3, CodeChanged
  <2>5. CASE CountCodes(c) \/ SelectCode(c)
    BY <1>1, <2>1, <2>5, CodesSame DEF CountCodes, SelectCode
  <2> QED
    BY <1>1, <2>2, <2>3, <2>4, <2>5 DEF CodeStep
<1>2. CASE Start(c) \/ Die(c)
  <2>1. codes' = codes
    BY <1>2 DEF Start, Die
  <2> QED
    BY <1>2, <2>1, StartMoves, CodesSame
<1>3. CASE SignInStep(c)
  BY <1>3, SignInMoves, CodesSame
<1>4. CASE CreateStep(c)
  BY <1>4, CreateMoves, CodesSame
<1>5. CASE SwitchStep(c)
  BY <1>5, SwitchMoves, CodesSame
<1>6. CASE DeleteStep(c)
  BY <1>6, DeleteMoves, CodesSame
<1>7. CASE ResolveStep(c)
  BY <1>7, ResolveMoves, CodesSame
<1> QED
  BY <1>1, <1>2, <1>3, <1>4, <1>5, <1>6, <1>7, Kinds

\* Who writes the user, the pointer and the workspaces.
LEMMA RowWrites ==
    ASSUME NEW c, By(c)
    PROVE  /\ InsertUser(c) \/ user' = user
           /\ PointHome(c) \/ Adopt(c) \/ Choose(c) \/ Flip(c) \/ Remove(c) \/ active' = active
           /\ InsertHome(c) \/ InsertWorkspace(c) \/ Remove(c) \/ ws' = ws
<1>1. CASE Start(c) \/ Die(c)
  BY <1>1 DEF Start, Die, rows
<1>2. CASE CodeStep(c)
  BY <1>2 DEF CodeStep, CountCodes, InsertCode, SelectCode, SpendCode, CountAttempt, UseCode, rows
<1>3. CASE SignInStep(c)
  BY <1>3 DEF SignInStep, FindUser, InsertUser, EnsureDefault, InsertHome, PointHome, rows
<1>4. CASE CreateStep(c) \/ SwitchStep(c)
  BY <1>4 DEF CreateStep, CountWorkspaces, PickSlug, InsertWorkspace, Adopt, PointAt,
              SwitchStep, CheckOwn, Choose, rows
<1>5. CASE DeleteStep(c)
  BY <1>5 DEF DeleteStep, ReadDeletable, LastRemaining, IsActive, FindDefault, Flip, Remove,
              PointAt, rows
<1>6. CASE ResolveStep(c)
  BY <1>6 DEF ResolveStep, ReadActive, ReadThat, ReadDefault, rows
<1> QED
  BY <1>1, <1>2, <1>3, <1>4, <1>5, <1>6, Kinds

LEMMA TypeStep ==
    ASSUME TypeOK, Paths, NEW c \in Calls, Entry(c), By(c)
    PROVE  TypeOK'
<1>1. Moves(c) /\ CodesKept
  BY StepKeeps
<1>2. user' \in BOOLEAN
  BY RowWrites DEF InsertUser, TypeOK
<1>3. active' \in Calls \cup {None}
  <2>1. CASE Adopt(c) \/ Choose(c) \/ Flip(c)
    <3>1. \E w : PointAt(c, w)
      BY <2>1 DEF Adopt, Choose, Flip
    <3> QED
      BY <3>1 DEF PointAt, Existing, TypeOK
  <2> QED
    BY <2>1, RowWrites DEF PointHome, Remove, TypeOK
<1>4. ws' \in [Calls -> Workspaces \cup {None}]
  <2>1. [home |-> TRUE, default |-> TRUE] \in Workspaces
    BY DEF Workspaces
  <2>2. InsertWorkspace(c) => \/ ws' = ws
                              \/ ws' = [ws EXCEPT ![c] = [home |-> FALSE, default |-> call[c].default]]
    BY DEF InsertWorkspace
  <2>3. [home |-> FALSE, default |-> call[c].default] \in Workspaces
    BY DEF Workspaces, TypeOK
  <2> HIDE DEF Workspaces
  <2> QED
    BY <2>1, <2>2, <2>3, RowWrites DEF InsertHome, Remove, TypeOK
<1>5. /\ codes' \in Seq(Codes)
      /\ call' \in [Calls -> Fields(Len(codes'))]
  BY <1>1 DEF Moves, CodesKept
<1> QED
  BY <1>2, <1>3, <1>4, <1>5 DEF TypeOK, Fields

\* A step of one request, as the others see it.
LEMMA Turn ==
    ASSUME Base, NEW c \in Calls, By(c)
    PROVE  /\ Moves(c) /\ CodesKept /\ c \notin Ended
           /\ \A d \in Calls : call'[d].ask = call[d].ask
           /\ \A d \in Calls : \A op : Asking(d, op)' <=> Asking(d, op)
           /\ Ended \subseteq Ended' /\ Ended' \subseteq Ended \cup {c}
           /\ \A d \in Calls : c \notin call[d].before
           /\ ~Start(c) => \A d \in Calls : call'[d].before = call[d].before
           /\ Start(c) => call'[c].before = Ended /\ call[c].pc = "idle" /\ call[c].before = {}
           /\ \A d, e \in Calls : call[d].pc # "idle" /\ call[e].pc # "idle" =>
                 (SideBySide(d, e)' <=> SideBySide(d, e))
<1>1. Moves(c) /\ CodesKept
  BY StepKeeps DEF Base
<1>2. c \notin Ended /\ \A d \in Calls : call'[d].ask = call[d].ask
  BY <1>1 DEF Moves, Ended
<1>3. \A d \in Calls : \A op : Asking(d, op)' <=> Asking(d, op)
  BY <1>2 DEF Asking
<1>4. Ended \subseteq Ended' /\ Ended' \subseteq Ended \cup {c}
  BY <1>1 DEF Moves, Ended
<1>5. \A d \in Calls : c \notin call[d].before
  BY <1>2 DEF Base, Past
<1>6. ~Start(c) => \A d \in Calls : call'[d].before = call[d].before
  BY <1>1 DEF Moves
<1>7. Start(c) => call'[c].before = Ended /\ call[c].pc = "idle" /\ call[c].before = {}
  BY Leads DEF Start, Base, Past
<1>8. \A d \in Calls : call[d].pc # "idle" => call'[d].before = call[d].before
  BY <1>1, <1>7 DEF Moves
<1>9. \A d, e \in Calls : call[d].pc # "idle" /\ call[e].pc # "idle" =>
                 (SideBySide(d, e)' <=> SideBySide(d, e))
  BY <1>8 DEF SideBySide
<1> QED
  BY <1>1, <1>2, <1>3, <1>4, <1>5, <1>6, <1>7, <1>9

\* What a sign-in has read and opened.
LEMMA EntryStep ==
    ASSUME Base, NEW c \in Calls, By(c)
    PROVE  Entry(c)'
<1>1. /\ Moves(c) /\ CodesKept /\ TypeOK /\ Paths /\ Entry(c)
      /\ \A op : Asking(c, op)' <=> Asking(c, op)
  BY Turn DEF Base
<1>2. call[c].opened => call[c].row \in DOMAIN codes
  BY <1>1, CodeWrites
<1>3. CASE SelectCode(c)
  <2>1. call[c].pc = "select code" /\ ~call[c].opened /\ ~call'[c].opened
    BY <1>1, <1>3 DEF SelectCode, UseCode, Entry, Moves
  <2>2. Asking(c, "signin") /\ call'[c].pc # "idle" /\ call'[c].pc # "select code"
    <3>1. ~Start(c)
      BY <2>1 DEF Start
    <3> QED
      BY <1>1, <2>1, <3>1, Arrivals, Asked, StepSets DEF Moves, StepsOf, Ops
  <2>3. call'[c].pc \in {"spend", "wrong", "use"} =>
           call'[c].row # 0 /\ (call'[c].pc # "spend" => call'[c].read < MaxAttempts)
    <3>1. CASE Unused = {}
      BY <1>1, <1>3, <3>1, Leads DEF SelectCode
    <3>2. CASE Unused # {}
      <4>1. PICK n \in Unused :
              call' = [call EXCEPT ![c].pc = Verdict(c, n), ![c].row = n, ![c].read = codes[n].attempts]
        BY <1>3, <3>2 DEF SelectCode
      <4>2. call'[c].pc = Verdict(c, n) /\ call'[c].row = n /\ call'[c].read = codes[n].attempts
        BY <1>1, <4>1, Leads
      <4>3. n # 0 /\ codes[n].attempts \in Nat /\ MaxAttempts \in Nat
        <5>1. n \in 1..Len(codes) /\ codes[n] \in Codes /\ Len(codes) \in Nat
          BY <1>1 DEF Unused, TypeOK
        <5> QED
          BY <5>1, ConstantsAssumption DEF Codes
      <4>4. Verdict(c, n) \in {"wrong", "use"} => codes[n].attempts < MaxAttempts
        BY <4>3 DEF Verdict
      <4> QED
        BY <4>2, <4>3, <4>4
    <3> QED
      BY <3>1, <3>2
  <2>4. ~(call'[c].pc \in {"wrong", "use"}) \/ call'[c].read < MaxAttempts
    BY <2>3
  <2>5. call'[c].pc = "wrong" => codes'[call'[c].row].of # call'[c].ask.target
    <3>1. Unused = {} => call'[c].pc = "refused"
      BY <1>1, <1>3, Leads DEF SelectCode
    <3>2. ASSUME NEW n \in Unused,
                 call' = [call EXCEPT ![c].pc = Verdict(c, n), ![c].row = n,
                                      ![c].read = codes[n].attempts]
          PROVE  call'[c].pc = "wrong" => codes'[call'[c].row].of # call'[c].ask.target
      <4>1. call'[c].pc = Verdict(c, n) /\ call'[c].row = n
        BY <1>1, <3>2, Leads
      <4>2. call'[c].ask = call[c].ask /\ codes' = codes
        BY <1>1, <1>3 DEF Moves, SelectCode
      <4> QED
        BY <4>1, <4>2 DEF Verdict
    <3> QED
      BY <1>3, <3>1, <3>2 DEF SelectCode
  <2> QED
    BY <1>1, <2>1, <2>2, <2>3, <2>4, <2>5 DEF Entry
<1>4. CASE UseCode(c)
  <2>1. /\ call[c].pc = "use" /\ call'[c].pc = "find" /\ call'[c].opened
        /\ call'[c].row = call[c].row /\ call'[c].read = call[c].read
    BY <1>1, <1>4, Leads DEF UseCode, SelectCode, Moves
  <2>2. call[c].row # 0 /\ call[c].read < MaxAttempts /\ Asking(c, "signin")
    BY <1>1, <2>1, Asked DEF Entry, StepsOf, Ops
  <2>3. codes'[call[c].row].used
    <3> DEFINE r == [codes[call[c].row] EXCEPT !.used = TRUE]
    <3>1. call[c].row \in DOMAIN codes /\ codes' = [codes EXCEPT ![call[c].row] = r]
      BY <1>1, <1>4, <2>1, CodeWrites
    <3>2. r.used
      <4>1. codes[call[c].row] \in Codes
        BY <1>1, <3>1 DEF TypeOK
      <4> QED
        BY <4>1 DEF Codes
    <3> HIDE DEF r
    <3> QED
      BY <3>1, <3>2
  <2> QED
    BY <1>1, <2>1, <2>2, <2>3 DEF Entry
<1>5. CASE ~SelectCode(c) /\ ~UseCode(c)
  <2>1. /\ call'[c].row = call[c].row /\ call'[c].read = call[c].read
        /\ call'[c].opened = call[c].opened
    BY <1>1, <1>5 DEF Moves
  <2>2. call'[c].pc \notin {"spend", "wrong", "use", "idle"}
    BY <1>1, <1>5, Arrivals, StepSets DEF Moves
  <2>3. call'[c].pc = "select code" => call[c].pc = "idle"
    BY <1>1, Arrivals DEF Start
  <2>4. call[c].opened => codes'[call[c].row].used
    BY <1>1, <1>2 DEF Entry, CodesKept
  <2> QED
    BY <1>1, <2>1, <2>2, <2>3, <2>4 DEF Entry
<1> QED
  BY <1>3, <1>4, <1>5

LEMMA BaseStep ==
    ASSUME Base, NEW c \in Calls, By(c)
    PROVE  Base'
<1>1. TypeOK'
  BY TypeStep DEF Base
<1>2. ASSUME NEW d \in Calls
      PROVE  Path(d)'
  <2>1. call'[d].ask = call[d].ask /\ \A op : Asking(d, op)' <=> Asking(d, op)
    BY Turn
  <2>2. call'[d].pc \in Steps => call'[d].ask # None /\ call'[d].pc \in StepsOf(call'[d].ask.op)
    BY Turn DEF Moves, Base, Paths, Path
  <2> QED
    BY <2>1, <2>2 DEF Base, Paths, Path
<1>3. ASSUME NEW d \in Calls
      PROVE  Past(d)'
  <2>1. call'[d].pc = "idle" => d # c /\ call'[d] = call[d]
    BY Turn, StepSets DEF Moves
  <2>2. call'[d].before \subseteq Ended'
    BY Turn DEF Base, Past, Moves
  <2> QED
    BY <2>1, <2>2 DEF Base, Past
<1>4. ASSUME NEW d \in Calls
      PROVE  Entry(d)'
  <2>1. CASE d = c
    BY <2>1, EntryStep
  <2>2. CASE d # c
    <3>1. /\ call'[d] = call[d] /\ CodesKept /\ Entry(d)
          /\ \A op : Asking(d, op)' <=> Asking(d, op)
      BY <2>2, Turn DEF Moves, Base
    <3>2. call[d].opened \/ call[d].pc = "wrong" => call[d].row \in DOMAIN codes
      BY <3>1, CodeWrites DEF Base
    <3> QED
      BY <3>1, <3>2 DEF Entry, CodesKept
  <2> QED
    BY <2>1, <2>2
<1>5. IsFiniteSet(Begun')
  <2>1. Begun' \subseteq Begun \cup {c}
    BY Turn DEF Begun, Moves
  <2>2. IsFiniteSet(Begun \cup {c})
    BY FS_AddElement DEF Base
  <2> QED
    BY <2>1, <2>2, FS_Subset
<1> QED
  BY <1>1, <1>2, <1>3, <1>4, <1>5 DEF Base, Paths

LEMMA BaseExpire ==
    ASSUME Base, Expire
    PROVE  Base'
<1>1. CodesKept /\ Len(codes') = Len(codes)
  BY ExpireKeeps DEF Base
<1>2. UNCHANGED <<user, active, ws, call>>
  BY DEF Expire, rows
<1>3. TypeOK'
  BY <1>1, <1>2 DEF Base, TypeOK, CodesKept
<1>4. \A d \in Calls : call[d].opened \/ call[d].pc = "wrong" => call[d].row \in DOMAIN codes
  BY CodeWrites DEF Base
<1> QED
  BY <1>1, <1>2, <1>3, <1>4 DEF Base, Begun, Paths, Path, Past, Ended, Entry, Asking, CodesKept

LEMMA BaseSame ==
    ASSUME Base, UNCHANGED vars
    PROVE  Base'
  BY DEF vars, Base, Begun, TypeOK, Existing, Paths, Path, Past, Ended, Entry, Asking

\* Who has ended has begun, and so has who made a workspace.
LEMMA Finite ==
    ASSUME Base
    PROVE  /\ \A S \in SUBSET Ended : IsFiniteSet(S) /\ Cardinality(S) \in Nat
           /\ (\A w \in Calls : Rows(w)) => IsFiniteSet(Existing) /\ Cardinality(Existing) \in Nat
<1>1. IsFiniteSet(Begun)
  BY DEF Base
<1>2. Ended \subseteq Begun
  BY StepSets DEF Ended, Begun
<1>3. (\A w \in Calls : Rows(w)) => Existing \subseteq Begun
  BY DEF Rows, Born, Ends, Existing, Begun
<1> QED
  BY <1>1, <1>2, <1>3, FS_Subset, FS_CardinalityType

\* Nobody has done anything but mail the codes and stop behind the user.
Begins ==
    /\ active = None /\ Existing = {} /\ Len(codes) <= MaxActive
    /\ \A i \in DOMAIN codes : codes[i].of \in Ended /\ codes[i].attempts = 0
    /\ \A c \in Calls : /\ call[c].pc \in {"idle", "done", "threw"} /\ call[c].row = 0
                        /\ ~call[c].opened /\ ~call[c].homed
                        /\ call[c].pc = "done" => call[c].ask = None
                        /\ call[c].pc = "threw" => user
    /\ user => \E c \in Calls : call[c].created /\ call[c].pc = "threw"

LEMMA BaseInit ==
    ASSUME Init
    PROVE  Base /\ Begins
<1>1. PICK p \in Plans :
         /\ codes = [i \in DOMAIN p.sent |-> Mailed(p.sent[i])]
         /\ user = (p.cut # None)
         /\ call = [c \in Calls |->
               [pc |-> IF c = p.cut THEN "threw"
                       ELSE IF {i \in DOMAIN p.sent : p.sent[i] = c} # {} THEN "done" ELSE "idle",
                ask |-> p.asks[c], row |-> 0, read |-> 0, opened |-> FALSE,
                created |-> c = p.cut, default |-> FALSE, held |-> None,
                before |-> {p.sent[i] : i \in {j \in DOMAIN p.sent :
                                \E k \in {m \in DOMAIN p.sent : p.sent[m] = c} : j < k}},
                homed |-> FALSE]]
  BY DEF Init
<1>2. /\ p.asks \in [Calls -> Asks \cup {None}] /\ p.sent \in Seq(Calls)
      /\ \A c \in Calls : p.asks[c] # None /\ p.asks[c].op \in {"switch", "delete"}
                              => p.asks[c].target \in Calls
      /\ MaxAttempts \in Nat
  BY ConstantsAssumption
<1>3. Len(p.sent) \in Nat /\ DOMAIN p.sent = 1..Len(p.sent)
  BY <1>2
<1>4. codes \in [1..Len(p.sent) -> Codes]
  <2>1. \A i \in DOMAIN p.sent : Mailed(p.sent[i]) \in Codes
    BY <1>2, <1>3 DEF Mailed, Codes
  <2> HIDE DEF Codes
  <2> QED
    BY <1>1, <1>3, <2>1
<1>5. codes \in Seq(Codes) /\ Len(codes) = Len(p.sent)
  BY <1>3, <1>4
<1> DEFINE pc(c) == IF c = p.cut THEN "threw"
                    ELSE IF {i \in DOMAIN p.sent : p.sent[i] = c} # {} THEN "done" ELSE "idle"
           cut(c) == c = p.cut
           before(c) == {p.sent[i] : i \in {j \in DOMAIN p.sent :
                           \E k \in {m \in DOMAIN p.sent : p.sent[m] = c} : j < k}}
<1>6. \A c \in Calls : call[c] =
         [pc |-> pc(c), ask |-> p.asks[c], row |-> 0, read |-> 0, opened |-> FALSE,
          created |-> cut(c), default |-> FALSE, held |-> None, before |-> before(c), homed |-> FALSE]
  BY <1>1
<1>7. ASSUME NEW c \in Calls
      PROVE  /\ pc(c) \in {"idle"} \cup Ends /\ cut(c) \in BOOLEAN /\ before(c) \subseteq Calls
             /\ pc(c) = "idle" => before(c) = {}
             /\ \A d \in before(c) : pc(d) \in Ends
  BY <1>2, <1>3 DEF Ends
<1> HIDE DEF pc, cut, before
<1>8. ASSUME NEW c \in Calls
      PROVE  call[c] \in Fields(Len(codes))
  <2> DEFINE a == p.asks[c]
             x == cut(c)
             z == 0
  <2>1. a \in Asks \cup {None} /\ z \in 0..Len(codes) /\ z \in 0..MaxAttempts /\ x \in BOOLEAN
    BY <1>2, <1>3, <1>5, <1>7
  <2>2. call[c] = [pc |-> pc(c), ask |-> a, row |-> z, read |-> z, opened |-> FALSE,
                   created |-> x, default |-> FALSE, held |-> None, before |-> before(c),
                   homed |-> FALSE]
    BY <1>6
  <2>3. pc(c) \in {"idle"} \cup Steps \cup Ends /\ before(c) \in SUBSET Calls
    BY <1>7
  <2> HIDE DEF a, x, z
  <2> QED
    BY <2>1, <2>2, <2>3 DEF Fields
<1>9. call \in [Calls -> Fields(Len(codes))]
  <2> HIDE DEF Fields
  <2> QED
    BY <1>1, <1>8
<1>10. TypeOK
  <2>1. active = None /\ ws \in [Calls -> Workspaces \cup {None}] /\ user \in BOOLEAN
    BY <1>1 DEF Init
  <2> QED
    BY <1>5, <1>9, <2>1 DEF TypeOK, Fields
<1>11. \A c \in Calls : /\ call[c].pc = pc(c) /\ call[c].ask = p.asks[c] /\ call[c].row = 0
                        /\ ~call[c].opened /\ call[c].before = before(c)
                        /\ ~call[c].homed /\ call[c].created = cut(c)
  <2> TAKE c \in Calls
  <2> DEFINE x == cut(c)
  <2>1. call[c] = [pc |-> pc(c), ask |-> p.asks[c], row |-> 0, read |-> 0, opened |-> FALSE,
                   created |-> x, default |-> FALSE, held |-> None, before |-> before(c),
                   homed |-> FALSE]
    BY <1>6
  <2>2. x = cut(c)
    OBVIOUS
  <2> HIDE DEF x
  <2> QED
    BY <2>1, <2>2
<1>12. Paths
  BY <1>2, <1>7, <1>11, StepSets DEF Paths, Path, Asking
<1>13. \A c \in Calls : Past(c)
  BY <1>7, <1>11 DEF Past, Ended
<1>14. \A c \in Calls : Entry(c)
  BY <1>7, <1>11, StepSets DEF Entry, Ends
<1>15. /\ Len(p.sent) <= MaxActive
       /\ \A i \in DOMAIN p.sent : p.asks[p.sent[i]] = None
       /\ p.cut \in Calls \cup {None} /\ None \notin Calls
  BY ConstantsAssumption
<1>16. ASSUME NEW c \in Calls
       PROVE  /\ pc(c) \in {"idle", "done", "threw"}
              /\ pc(c) = "done" => p.asks[c] = None
              /\ pc(c) = "threw" => user
              /\ c = p.cut => pc(c) = "threw"
  BY <1>1, <1>15 DEF pc
<1>17. ASSUME NEW i \in DOMAIN codes
       PROVE  codes[i].of \in Ended /\ codes[i].attempts = 0
  <2>1. codes[i] = Mailed(p.sent[i]) /\ i \in DOMAIN p.sent /\ p.sent[i] \in Calls
    BY <1>1, <1>2, <1>3
  <2>2. pc(p.sent[i]) \in Ends
    BY <2>1 DEF pc, Ends
  <2> QED
    BY <1>11, <2>1, <2>2 DEF Mailed, Ended
<1>18. user => \E c \in Calls : call[c].created /\ call[c].pc = "threw"
  BY <1>1, <1>11, <1>15, <1>16 DEF cut
<1>19. active = None /\ Existing = {}
  BY DEF Init, Existing
<1>20. Begins
  BY <1>5, <1>11, <1>15, <1>16, <1>17, <1>18, <1>19 DEF Begins
<1>21. IsFiniteSet(Begun)
  <2> DEFINE R == {p.sent[i] : i \in DOMAIN p.sent}
  <2>1. p.sent \in Surjection(DOMAIN p.sent, R)
    BY <1>2, <1>3 DEF Surjection
  <2>2. IsFiniteSet(DOMAIN p.sent)
    BY <1>3, FS_Interval
  <2>3. IsFiniteSet(R)
    BY <2>1, <2>2, FS_Surjection
  <2>4. IsFiniteSet(R \cup {p.cut})
    BY <2>3, FS_AddElement
  <2>5. Begun \subseteq R \cup {p.cut}
    BY <1>11 DEF Begun, pc
  <2> QED
    BY <2>4, <2>5, FS_Subset
<1> QED
  BY <1>10, <1>12, <1>13, <1>14, <1>20, <1>21 DEF Base

-----------------------------------------------------------------------------
(* A code opens the account once, and its wrong codes are counted.         *)

UsedBefores == \A c \in Calls : UsedBefore(c)

LEMMA UsedBeforeStep ==
    ASSUME Base, UsedBefores, NEW b \in Calls, By(b)
    PROVE  UsedBefores'
<1> SUFFICES ASSUME NEW c \in Calls, NEW d \in call'[c].before, call'[d].opened
             PROVE  call'[c].row # call'[d].row
  BY DEF UsedBefores, UsedBefore
<1>1. Base'
  BY BaseStep
<1>2. d \in Calls /\ call'[d].row # 0
  BY <1>1 DEF Base, TypeOK, Entry
<1>3. d \in Ended /\ d # b
  BY Turn DEF Base, Past, Moves
<1>4. call'[d] = call[d] /\ call[d].row \in DOMAIN codes /\ codes[call[d].row].used
  BY <1>2, <1>3, Turn, CodeWrites DEF Moves, Base, Entry
<1>5. CASE c # b
  BY <1>4, <1>5, Turn DEF Moves, UsedBefores, UsedBefore
<1>6. CASE c = b /\ Start(b)
  <2>1. call'[b].row = call[b].row /\ call[b].row = 0
    BY <1>6, Turn DEF Moves, Start, SelectCode, Base, Entry
  <2> QED
    BY <1>2, <1>6, <2>1
<1>7. CASE c = b /\ SelectCode(b)
  <2>1. CASE Unused = {}
    <3>1. call'[b].row = call[b].row /\ call[b].row = 0
      BY <1>7, <2>1, Unnoted DEF SelectCode, Base, Entry
    <3> QED
      BY <1>2, <1>7, <3>1
  <2>2. CASE Unused # {}
    <3>1. PICK n \in Unused :
            call' = [call EXCEPT ![b].pc = Verdict(b, n), ![b].row = n, ![b].read = codes[n].attempts]
      BY <1>7, <2>2 DEF SelectCode
    <3>2. call'[b].row = n /\ ~codes[n].used
      BY <3>1, Leads DEF Base, Unused
    <3> QED
      BY <1>4, <1>7, <3>2
  <2> QED
    BY <2>1, <2>2
<1>8. CASE c = b /\ ~Start(b) /\ ~SelectCode(b)
  BY <1>4, <1>8, Turn DEF Moves, UsedBefores, UsedBefore
<1> QED
  BY <1>5, <1>6, <1>7, <1>8

\* Where the attempts of a row come from.
LEMMA Attempts ==
    ASSUME Base, NEW b \in Calls, By(b)
    PROVE  /\ CountAttempt(b) => codes'[call[b].row].attempts = call[b].read + 1
           /\ SpendCode(b) => codes'[call[b].row].used
           /\ \A r \in DOMAIN codes : (CountAttempt(b) /\ call[b].row = r)
                                      \/ codes'[r].attempts = codes[r].attempts
           /\ \A r \in DOMAIN codes' : r \in DOMAIN codes \/ (InsertCode(b) /\ r = Len(codes) + 1)
<1>1. codes \in Seq(Codes) /\ TypeOK /\ Entry(b)
  BY DEF Base, TypeOK
<1>2. CASE InsertCode(b)
  <2>1. Mailed(b) \in Codes /\ codes' = Append(codes, Mailed(b))
    BY <1>1, <1>2, CodeWrites DEF InsertCode
  <2>2. /\ DOMAIN codes' = DOMAIN codes \cup {Len(codes')} /\ Len(codes') = Len(codes) + 1
        /\ \A j \in DOMAIN codes : codes'[j] = codes[j]
    BY <1>1, <2>1, CodeAdd
  <2>3. ~CountAttempt(b) /\ ~SpendCode(b)
    BY <1>2 DEF InsertCode, CountAttempt, SpendCode
  <2> HIDE DEF Codes
  <2> QED
    BY <1>2, <2>2, <2>3
<1>3. CASE SpendCode(b) \/ UseCode(b)
  <2> DEFINE x == [codes[call[b].row] EXCEPT !.used = TRUE]
  <2>1. x \in Codes /\ call[b].row \in DOMAIN codes /\ codes' = [codes EXCEPT ![call[b].row] = x]
    BY <1>1, <1>3, CodeWrites DEF SpendCode, UseCode
  <2>2. codes[call[b].row] \in Codes
    BY <1>1, <2>1
  <2>3. x.attempts = codes[call[b].row].attempts /\ x.used
    BY <2>2 DEF Codes
  <2> HIDE DEF x
  <2>4. /\ DOMAIN codes' = DOMAIN codes /\ codes'[call[b].row] = x
        /\ \A j \in DOMAIN codes \ {call[b].row} : codes'[j] = codes[j]
    BY <1>1, <2>1, CodeSet
  <2>5. ~CountAttempt(b)
    BY <1>3 DEF SpendCode, UseCode, CountAttempt
  <2> HIDE DEF Codes
  <2> QED
    BY <2>3, <2>4, <2>5
<1>4. CASE CountAttempt(b)
  <2> DEFINE x == [codes[call[b].row] EXCEPT !.attempts = call[b].read + 1]
  <2>1. x \in Codes /\ call[b].row \in DOMAIN codes /\ codes' = [codes EXCEPT ![call[b].row] = x]
    BY <1>1, <1>4, CodeWrites DEF CountAttempt
  <2>2. codes[call[b].row] \in Codes
    BY <1>1, <2>1
  <2>3. x.attempts = call[b].read + 1
    BY <2>2 DEF Codes
  <2> HIDE DEF x
  <2>4. /\ DOMAIN codes' = DOMAIN codes /\ codes'[call[b].row] = x
        /\ \A j \in DOMAIN codes \ {call[b].row} : codes'[j] = codes[j]
    BY <1>1, <2>1, CodeSet
  <2>5. ~SpendCode(b)
    BY <1>4 DEF SpendCode, CountAttempt
  <2> HIDE DEF Codes
  <2> QED
    BY <1>4, <2>3, <2>4, <2>5
<1>5. CASE codes' = codes /\ ~SpendCode(b) /\ ~CountAttempt(b)
  BY <1>5
<1>6. CASE CountCodes(b) \/ SelectCode(b)
  <2>1. codes' = codes /\ ~SpendCode(b) /\ ~CountAttempt(b)
    BY <1>6 DEF CountCodes, SelectCode, SpendCode, CountAttempt
  <2> QED
    BY <1>5, <2>1
<1>7. ~CodeStep(b) => codes' = codes
  BY <1>1, StepKeeps DEF Base
<1> QED
  <2>1. CASE CodeStep(b)
    BY <1>2, <1>3, <1>4, <1>6, <2>1 DEF CodeStep
  <2>2. CASE ~CodeStep(b)
    BY <1>5, <1>7, <2>2 DEF CodeStep
  <2> QED
    BY <2>1, <2>2

\* A sign-in refused has been refused by a row, or none is left.
LEMMA RefusedSignIn ==
    ASSUME TypeOK, Paths, NEW c \in Calls, By(c), Asking(c, "signin"), call'[c].pc = "refused"
    PROVE  SelectCode(c) \/ SpendCode(c) \/ CountAttempt(c)
<1>1. CASE Start(c)
  BY <1>1, Leads DEF First, Asks, Ops
<1>2. CASE Die(c)
  BY <1>2, Leads DEF Die
<1>3. CASE UseCode(c)
  BY <1>3, Leads
<1>4. CASE SignInStep(c)
  BY <1>4, Leads DEF SignInStep, FindUser, EnsureDefault, InsertHome, PointHome
<1> QED
  BY <1>1, <1>2, <1>3, <1>4, OwnSteps

\* Guesses are added by a sign-in that selects a row, and stay.
LEMMA GuessesStep ==
    ASSUME Base, NEW b \in Calls, By(b), NEW r \in DOMAIN codes
    PROVE  /\ Guesses(r) \subseteq Guesses(r)' /\ Guesses(r)' \subseteq Guesses(r) \cup {b}
           /\ ~SelectCode(b) => Guesses(r)' = Guesses(r)
           /\ \A g \in Guesses(r) : g \in Calls /\ call[g].pc # "idle"
<1>1. codes'[r].of = codes[r].of
  BY Turn DEF CodesKept
<1>2. r # 0
  BY DEF Base, TypeOK
<1>3. \A g \in Guesses(r) : g \in Calls /\ call[g].pc # "idle"
  BY <1>2 DEF Guesses, Base, Entry
<1>4. \A d \in Calls \ {b} : d \in Guesses(r)' <=> d \in Guesses(r)
  BY <1>1, Turn DEF Guesses, Moves
<1>5. ~SelectCode(b) => (b \in Guesses(r)' <=> b \in Guesses(r))
  BY <1>1, Turn DEF Guesses, Moves
<1>6. SelectCode(b) => b \notin Guesses(r)
  BY <1>2 DEF Guesses, SelectCode, Base, Entry
<1>7. Guesses(r)' \subseteq Calls /\ Guesses(r) \subseteq Calls
  BY DEF Guesses
<1> QED
  BY <1>3, <1>4, <1>5, <1>6, <1>7

\* Codes that were refused in turn were so before the step.
LEMMA InTurnBack ==
    ASSUME Base, NEW b \in Calls, By(b), NEW r \in DOMAIN codes, NEW S, b \notin S, InTurn(S, r)'
    PROVE  InTurn(S, r)
<1>1. S \subseteq Calls
  BY DEF InTurn, Guesses
<1>2. \A h \in S : h \in Guesses(r) /\ call[h].pc = "refused"
  BY <1>1, GuessesStep, Turn DEF InTurn, Moves
<1>3. ASSUME NEW g \in Guesses(r), NEW h \in S
      PROVE  ~SideBySide(g, h)
  <2>1. g \in Guesses(r)' /\ g \in Calls /\ call[g].pc # "idle" /\ call[h].pc # "idle"
    BY <1>2, GuessesStep
  <2> QED
    BY <1>1, <2>1, Turn DEF InTurn
<1> QED
  BY <1>2, <1>3 DEF InTurn

\* A sign-in reads no less than was refused before it began.
LEMMA ReadStep ==
    ASSUME Base, Counted, NEW b \in Calls, By(b), NEW c \in Calls
    PROVE  ReadCounts(c)'
<1> SUFFICES ASSUME call'[c].pc \in {"wrong", "use"} \/ call'[c].opened,
                    NEW S \in SUBSET call'[c].before, NEW r, r = call'[c].row, InTurn(S, r)'
             PROVE  Cardinality(S) <= call'[c].read
  BY DEF ReadCounts, InTurn, Guesses, SideBySide
<1>1. b \notin S /\ S \subseteq Calls
  <2>1. call'[c].before \subseteq Calls
    BY BaseStep DEF Base, TypeOK
  <2>2. call[c].before \subseteq Ended /\ b \notin Ended
    BY Turn DEF Base, Past
  <2>3. call'[c].before = call[c].before \/ call'[c].before = Ended
    BY Turn DEF Moves
  <2> QED
    BY <2>1, <2>2, <2>3
<1>2. ASSUME /\ call'[c].row = call[c].row /\ call'[c].read = call[c].read
             /\ call'[c].before = call[c].before
             /\ call[c].pc \in {"wrong", "use"} \/ call[c].opened
      PROVE  Cardinality(S) <= call'[c].read
  <2>1. call[c].row \in DOMAIN codes
    BY <1>2, CodeWrites DEF Base
  <2>2. InTurn(S, call[c].row)
    BY <1>1, <1>2, <2>1, InTurnBack
  <2> QED
    BY <1>2, <2>2 DEF Counted, ReadCounts
<1>3. CASE c # b
  BY <1>2, <1>3, Turn DEF Moves
<1>4. CASE c = b /\ SelectCode(b)
  <2>1. ~call'[b].opened /\ call'[b].pc \in {"wrong", "use"}
    BY <1>4, Turn DEF Moves, SelectCode, UseCode, Base, Entry
  <2>2. Unused # {}
    BY <1>4, <2>1, Leads DEF SelectCode, Base
  <2>3. PICK n \in Unused :
          call' = [call EXCEPT ![b].pc = Verdict(b, n), ![b].row = n, ![b].read = codes[n].attempts]
    BY <1>4, <2>2 DEF SelectCode
  <2>4. call'[b].pc = Verdict(b, n) /\ call'[b].row = n /\ call'[b].read = codes[n].attempts
    BY <2>3, Leads DEF Base
  <2>5. n \in DOMAIN codes /\ Live(n)
    BY <2>1, <2>4 DEF Verdict, Unused, Live
  <2>6. InTurn(S, n)
    BY <1>1, <1>4, <2>4, <2>5, InTurnBack
  <2> QED
    BY <1>1, <1>4, <2>4, <2>5, <2>6 DEF Counted, RowCounts
<1>5. CASE c = b /\ ~SelectCode(b)
  <2>1. call[b].pc \in {"wrong", "use"} \/ call[b].opened
    BY <1>5, Arrivals, Turn DEF Moves, UseCode, Base
  <2>2. ~Start(b)
    BY <2>1 DEF Start, Base, Entry
  <2> QED
    BY <1>2, <1>5, <2>1, <2>2, Turn DEF Moves
<1> QED
  BY <1>3, <1>4, <1>5

\* The row counts what was refused in turn: the one that counts now has read
\* what was refused before it, and all the others were.
LEMMA RowStep ==
    ASSUME Base, Counted, NEW b \in Calls, By(b), NEW r \in DOMAIN codes'
    PROVE  RowCounts(r)'
<1> SUFFICES ASSUME NEW S \in SUBSET Calls, Live(r)', InTurn(S, r)'
             PROVE  Cardinality(S) <= codes'[r].attempts
  BY DEF RowCounts
<1>1. Base' /\ TypeOK'
  BY BaseStep DEF Base
<1>0. IsFiniteSet(S) /\ Cardinality(S) \in Nat
  <2>1. S \subseteq Begun'
    BY DEF InTurn, Begun
  <2>2. IsFiniteSet(Begun')
    BY <1>1 DEF Base
  <2> QED
    BY <2>1, <2>2, FS_Subset, FS_CardinalityType
<1>2. codes'[r].attempts \in Nat
  <2>1. codes'[r] \in Codes
    BY <1>1 DEF TypeOK
  <2> QED
    BY <2>1, ConstantsAssumption DEF Codes
<1>3. CASE r \notin DOMAIN codes
  <2>1. InsertCode(b) /\ r = Len(codes) + 1 /\ Len(codes) \in Nat
    BY <1>3, Attempts DEF Base, TypeOK
  <2>2. ASSUME NEW g \in Calls
        PROVE  call'[g].row # r
    <3>1. call'[g].row = call[g].row
      <4>1. ~SelectCode(b)
        BY <2>1 DEF InsertCode, SelectCode
      <4> QED
        BY <4>1, Turn DEF Moves
    <3>2. call[g].row \in 0..Len(codes)
      BY DEF Base, TypeOK
    <3> QED
      BY <2>1, <3>1, <3>2
  <2>3. S = {}
    BY <2>2 DEF InTurn, Guesses
  <2> QED
    BY <1>2, <2>3, FS_EmptySet
<1>4. CASE r \in DOMAIN codes
  <2>1. Live(r)
    BY <1>4, Turn DEF Live, CodesKept
  <2>2. \A h \in S : h \in Guesses(r)' /\ call'[h].pc = "refused"
    BY DEF InTurn
  <2>3. CASE CountAttempt(b) /\ call[b].row = r
    <3>1. b \in Guesses(r)
      <4>1. Asking(b, "signin") /\ codes[r].of # call[b].ask.target
        BY <2>3, Asked DEF CountAttempt, StepsOf, Ops, Base, Entry
      <4> QED
        BY <2>3, <4>1 DEF Guesses
    <3>2. b \in Guesses(r)'
      BY <1>4, <3>1, GuessesStep
    <3>3. ASSUME NEW h \in S \ {b}
          PROVE  h \in call[b].before
      <4>1. ~SideBySide(b, h)'
        BY <3>2, <3>3 DEF InTurn
      <4>2. b \notin call'[h].before
        <5>1. call'[h] = call[h]
          BY <3>3, Turn DEF Moves
        <5> QED
          BY <3>3, <5>1, Turn
      <4>3. call'[b].before = call[b].before
        BY <2>3, Turn DEF Moves, Start, CountAttempt
      <4> QED
        BY <3>3, <4>1, <4>2, <4>3 DEF SideBySide
    <3>4. InTurn(S \ {b}, r)'
      BY DEF InTurn
    <3>5. InTurn(S \ {b}, r)
      BY <1>4, <3>4, InTurnBack
    <3>6. Cardinality(S \ {b}) <= call[b].read
      <4>1. ReadCounts(b) /\ call[b].pc = "wrong"
        BY <2>3 DEF Counted, CountAttempt
      <4>2. S \ {b} \in SUBSET call[b].before
        BY <3>3
      <4> QED
        BY <2>3, <3>5, <4>1, <4>2 DEF ReadCounts
    <3>7. Cardinality(S) <= Cardinality(S \ {b}) + 1 /\ Cardinality(S \ {b}) \in Nat
      <4>1. /\ IsFiniteSet(S \ {b})
            /\ Cardinality(S \ {b}) = IF b \in S THEN Cardinality(S) - 1 ELSE Cardinality(S)
        BY <1>0, FS_RemoveElement
      <4>2. Cardinality(S \ {b}) \in Nat
        BY <4>1, FS_CardinalityType
      <4> QED
        BY <1>0, <4>1, <4>2
    <3>8. call[b].read \in Nat /\ Cardinality(S) \in Nat
      BY <1>0, ConstantsAssumption DEF Base, TypeOK
    <3>9. codes'[r].attempts = call[b].read + 1
      BY <2>3, Attempts
    <3> QED
      BY <3>6, <3>7, <3>8, <3>9
  <2>4. CASE ~(CountAttempt(b) /\ call[b].row = r)
    <3>1. codes'[r].attempts = codes[r].attempts
      BY <1>4, <2>4, Attempts
    <3>2. b \notin S
      <4>1. SUFFICES ASSUME b \in S PROVE FALSE
        OBVIOUS
      <4>2. Asking(b, "signin") /\ call'[b].row = r /\ call'[b].pc = "refused"
        BY <2>2, <4>1, Turn DEF Guesses
      <4>3. r # 0
        BY <1>4 DEF Base, TypeOK
      <4>4. CASE SelectCode(b)
        <5>1. call[b].row = 0
          BY <4>4 DEF SelectCode, Base, Entry
        <5>2. Unused # {}
          BY <4>2, <4>3, <4>4, <5>1, Unnoted DEF SelectCode, Base
        <5>3. PICK n \in Unused :
                call' = [call EXCEPT ![b].pc = Verdict(b, n), ![b].row = n, ![b].read = codes[n].attempts]
          BY <4>4, <5>2 DEF SelectCode
        <5>4. call'[b].pc = Verdict(b, n) /\ call'[b].row = n
          BY <5>3, Leads DEF Base
        <5>5. codes[r].expired
          BY <4>2, <5>4 DEF Verdict
        <5> QED
          BY <2>1, <5>5 DEF Live
      <4>5. CASE SpendCode(b)
        <5>1. call[b].row = r
          BY <4>2, <4>5, Turn DEF Moves, SpendCode, SelectCode
        <5> QED
          BY <4>5, <5>1, Attempts DEF Live
      <4>6. CASE CountAttempt(b)
        BY <2>4, <4>2, <4>6, Turn DEF Moves, CountAttempt, SelectCode
      <4> QED
        BY <4>2, <4>4, <4>5, <4>6, RefusedSignIn DEF Base
    <3>3. InTurn(S, r)
      BY <1>4, <3>2, InTurnBack
    <3> QED
      BY <1>4, <2>1, <3>1, <3>3 DEF Counted, RowCounts
  <2> QED
    BY <2>3, <2>4
<1> QED
  BY <1>3, <1>4

LEMMA CountedExpire ==
    ASSUME Base, Counted, Expire \/ UNCHANGED vars
    PROVE  Counted'
<1>1. call' = call /\ (Expire \/ codes' = codes)
  BY DEF Expire, vars, rows
<1>2. /\ DOMAIN codes' = DOMAIN codes
      /\ \A i \in DOMAIN codes : /\ codes'[i].of = codes[i].of
                                 /\ codes'[i].attempts = codes[i].attempts
                                 /\ Live(i)' => Live(i)
  <2>1. CASE Expire
    <3>1. PICK i \in DOMAIN codes : codes' = [codes EXCEPT ![i].expired = TRUE]
      BY <2>1 DEF Expire
    <3> DEFINE r == [codes[i] EXCEPT !.expired = TRUE]
    <3>2. codes \in Seq(Codes)
      BY DEF Base, TypeOK
    <3>3. codes[i] \in Codes
      BY <3>2
    <3>4. r \in Codes /\ r.of = codes[i].of /\ r.attempts = codes[i].attempts /\ r.expired
      BY <3>3 DEF Codes
    <3>5. codes' = [codes EXCEPT ![i] = r]
      BY <3>1
    <3> HIDE DEF r
    <3>6. /\ DOMAIN codes' = DOMAIN codes /\ codes'[i] = r
          /\ \A j \in DOMAIN codes \ {i} : codes'[j] = codes[j]
      BY <3>2, <3>4, <3>5, CodeSet
    <3> QED
      BY <3>4, <3>6 DEF Live
  <2> QED
    BY <1>1, <2>1 DEF Live
<1>3. \A S : \A r \in DOMAIN codes : InTurn(S, r)' => InTurn(S, r)
  BY <1>1, <1>2 DEF InTurn, Guesses, SideBySide, Asking
<1>4. \A r \in DOMAIN codes' : RowCounts(r)'
  BY <1>2, <1>3 DEF Counted, RowCounts
<1>5. ASSUME NEW c \in Calls
      PROVE  ReadCounts(c)'
  <2>1. call[c].pc \in {"wrong", "use"} \/ call[c].opened => call[c].row \in DOMAIN codes
    BY CodeWrites DEF Base
  <2> QED
    BY <1>1, <1>3, <2>1 DEF Counted, ReadCounts
<1> QED
  BY <1>4, <1>5 DEF Counted

\* What the run checks of the codes.
LEMMA CodeHolds ==
    ASSUME Base, UsedBefores, Counted
    PROVE  CodeHoldsButSideBySide
<1> SUFFICES ASSUME NEW c \in Calls, call[c].opened
             PROVE  LET guesses == Guesses(call[c].row)
                        refused == {g \in guesses \cap call[c].before : call[g].pc = "refused"}
                    IN /\ \A d \in Calls \ {c} :
                            call[d].opened /\ call[d].row = call[c].row => SideBySide(c, d)
                       /\ Cardinality(refused) >= MaxAttempts =>
                            \E g \in guesses, h \in refused : SideBySide(g, h)
  BY DEF CodeHoldsButSideBySide
<1> DEFINE guesses == Guesses(call[c].row)
           refused == {g \in guesses \cap call[c].before : call[g].pc = "refused"}
<1>1. \A d \in Calls \ {c} : call[d].opened /\ call[d].row = call[c].row => SideBySide(c, d)
  BY DEF UsedBefores, UsedBefore, SideBySide
<1>2. ASSUME ~ \E g \in guesses, h \in refused : SideBySide(g, h)
      PROVE  ~(Cardinality(refused) >= MaxAttempts)
  <2>1. InTurn(refused, call[c].row) /\ refused \in SUBSET call[c].before
    BY <1>2 DEF InTurn
  <2>2. Cardinality(refused) <= call[c].read
    BY <2>1 DEF Counted, ReadCounts
  <2>3. call[c].read < MaxAttempts
    BY DEF Base, Entry
  <2>4. Cardinality(refused) \in Nat /\ call[c].read \in Nat /\ MaxAttempts \in Nat
    <3>1. refused \in SUBSET Ended
      BY DEF Base, Past
    <3> QED
      BY <3>1, Finite, ConstantsAssumption DEF Base, TypeOK
  <2> HIDE DEF refused
  <2> QED
    BY <2>2, <2>3, <2>4
<1> QED
  BY <1>1, <1>2

-----------------------------------------------------------------------------
(* Workspaces: one request makes each, and no deletion is of a default one. *)

Spaces == \A c \in Calls : Rows(c) /\ Deleting(c)

\* Which workspaces a step adds and takes away.
LEMMA SpaceStep ==
    ASSUME Base, Spaces, NEW b \in Calls, By(b)
    PROVE  /\ ws' = ws \/ (Remove(b) /\ ws' = [ws EXCEPT ![call[b].ask.target] = None])
              \/ /\ InsertHome(b) /\ Homes = {} /\ call'[b].pc = "point"
                 /\ ws' = [ws EXCEPT ![b] = [home |-> TRUE, default |-> TRUE]]
              \/ /\ InsertWorkspace(b) /\ call'[b].pc \in {"adopt", "done"}
                 /\ ws' = [ws EXCEPT ![b] = [home |-> FALSE, default |-> call[b].default]]
           /\ Remove(b) => call[b].ask.target \in Calls
                           /\ ws' = [ws EXCEPT ![call[b].ask.target] = None]
           /\ InsertHome(b) \/ InsertWorkspace(b) => ws[b] = None
           /\ call'[b].pc = "point" => ws' = [ws EXCEPT ![b] = [home |-> TRUE, default |-> TRUE]]
<1>1. CASE InsertHome(b)
  BY <1>1, Leads DEF InsertHome, Base, Spaces, Rows, Born, Ends, Remove, InsertWorkspace
<1>2. CASE InsertWorkspace(b)
  <2>1. ~InsertHome(b) /\ ~Remove(b) /\ ws[b] = None
    BY <1>2 DEF InsertHome, Remove, InsertWorkspace, Spaces, Rows, Born, Ends
  <2>2. call'[b].pc # "point" /\ (call'[b].pc = "threw" \/ call'[b].pc \in {"adopt", "done"})
    BY <1>2, Leads DEF InsertWorkspace, Base
  <2>3. \/ ws' = ws
        \/ /\ ws' = [ws EXCEPT ![b] = [home |-> FALSE, default |-> call[b].default]]
           /\ call'[b].pc \in {"adopt", "done"}
    BY <1>2, Leads DEF InsertWorkspace, Base
  <2> QED
    BY <1>2, <2>1, <2>2, <2>3
<1>3. CASE Remove(b)
  <2>1. Asking(b, "delete")
    BY <1>3, Asked DEF Remove, StepsOf, Ops, Base
  <2>2. call[b].ask.target \in Calls
    BY <2>1 DEF Base, Paths, Path
  <2>3. ~InsertHome(b) /\ ~InsertWorkspace(b) /\ call'[b].pc = "done"
    BY <1>3, Leads DEF InsertHome, Remove, InsertWorkspace, Base
  <2> QED
    BY <1>3, <2>2, <2>3 DEF Remove
<1>4. CASE ~InsertHome(b) /\ ~InsertWorkspace(b) /\ ~Remove(b)
  <2>1. call'[b].pc # "point"
    BY <1>4, Arrivals DEF Base
  <2> QED
    BY <1>4, <2>1, RowWrites
<1> QED
  BY <1>1, <1>2, <1>3, <1>4

\* A default workspace stays, and there is one.
LEMMA HomesStep ==
    ASSUME Base, Spaces, NEW b \in Calls, By(b)
    PROVE  /\ Homes \subseteq Homes'
           /\ Homes' = Homes \/ (InsertHome(b) /\ Homes = {} /\ Homes' = {b})
           /\ \A w \in Calls \ {b} : (Remove(b) /\ w = call[b].ask.target) \/ ws'[w] = ws[w]
           /\ ws[b] # None => (Remove(b) /\ b = call[b].ask.target) \/ ws'[b] = ws[b]
           /\ Remove(b) => ws'[call[b].ask.target] = None
<1>1. ws \in [Calls -> Workspaces \cup {None}] /\ TypeOK
  BY DEF Base, TypeOK
<1>2. CASE ws' = ws
  <2>1. ~Remove(b) \/ ws'[call[b].ask.target] = None
    BY <1>1, <1>2, SpaceStep
  <2> QED
    BY <1>2, <2>1 DEF Homes, Existing
<1>3. CASE Remove(b)
  <2>1. call[b].ask.target \in Calls \ Homes /\ ~InsertHome(b)
    BY <1>3, SpaceStep DEF Spaces, Deleting, Remove, InsertHome
  <2>2. ws' = [ws EXCEPT ![call[b].ask.target] = None]
    BY <1>3, SpaceStep
  <2> QED
    BY <1>1, <1>3, <2>1, <2>2 DEF Homes, Existing
<1>4. CASE /\ InsertHome(b) /\ Homes = {}
           /\ ws' = [ws EXCEPT ![b] = [home |-> TRUE, default |-> TRUE]]
  <2> DEFINE h == [home |-> TRUE, default |-> TRUE]
  <2>1. h \in Workspaces /\ h # None /\ h.home
    <3>1. h \in Workspaces /\ h.home
      BY DEF Workspaces
    <3> QED
      BY <3>1, ConstantsAssumption
  <2>2. ws[b] = None /\ ~Remove(b)
    BY <1>4, SpaceStep DEF InsertHome, Remove
  <2> HIDE DEF h
  <2> QED
    BY <1>1, <1>4, <2>1, <2>2 DEF Homes, Existing
<1>5. CASE /\ InsertWorkspace(b)
           /\ ws' = [ws EXCEPT ![b] = [home |-> FALSE, default |-> call[b].default]]
  <2> DEFINE h == [home |-> FALSE, default |-> call[b].default]
  <2>1. h \in Workspaces /\ h # None /\ ~h.home
    <3> DEFINE d == call[b].default
    <3>1. d \in BOOLEAN
      BY DEF Base, TypeOK
    <3> HIDE DEF d
    <3>2. [home |-> FALSE, default |-> d] \in Workspaces /\ ~[home |-> FALSE, default |-> d].home
      BY <3>1 DEF Workspaces
    <3>3. h = [home |-> FALSE, default |-> d]
      BY DEF d
    <3> HIDE DEF h
    <3> QED
      BY <3>2, <3>3, ConstantsAssumption
  <2>2. ws[b] = None /\ ~Remove(b)
    BY <1>5, SpaceStep DEF InsertWorkspace, Remove
  <2> HIDE DEF h
  <2> QED
    BY <1>1, <1>5, <2>1, <2>2 DEF Homes, Existing
<1> QED
  BY <1>2, <1>3, <1>4, <1>5, SpaceStep

\* Who has made a workspace, or was to, stays so.
LEMMA BornStays ==
    ASSUME Base, NEW b \in Calls, By(b), NEW w \in Calls, Born(w)
    PROVE  Born(w)'
<1>1. CASE w # b
  BY <1>1, Turn DEF Born, Moves
<1>2. CASE w = b
  <2>1. call[b].pc \in {"point", "adopt"}
    BY <1>2, Turn DEF Born, Ended
  <2>2. PointHome(b) \/ Adopt(b) \/ Die(b)
    <3>1. call'[b].pc \in Ends => ~Start(b)
      BY <2>1 DEF Start
    <3>2. ~Start(b) /\ ~CodeStep(b) /\ ~SwitchStep(b) /\ ~DeleteStep(b) /\ ~ResolveStep(b)
      BY <2>1 DEF Start, CodeStep, CountCodes, InsertCode, SelectCode, SpendCode, CountAttempt, UseCode,
                  SwitchStep, CheckOwn, Choose, ResolveStep, ReadActive, ReadThat, ReadDefault,
                  DeleteStep, ReadDeletable, LastRemaining, IsActive, FindDefault, Flip, Remove
    <3>3. SignInStep(b) => PointHome(b)
      BY <2>1 DEF SignInStep, FindUser, InsertUser, EnsureDefault, InsertHome
    <3>4. CreateStep(b) => Adopt(b)
      BY <2>1 DEF CreateStep, CountWorkspaces, PickSlug, InsertWorkspace
    <3> QED
      BY <3>2, <3>3, <3>4, Kinds
  <2>3. Adopt(b) => call'[b].pc \in {"done", "threw"}
    <3>1. Adopt(b) => ~Asking(b, "delete")
      BY Asked DEF Adopt, StepsOf, Ops, Asking, Base
    <3> QED
      BY <3>1, Leads DEF Adopt, PointAt, Base
  <2>4. call'[b].pc \in {"done", "threw"}
    BY <2>2, <2>3, Leads DEF PointHome, Die, Base
  <2> QED
    BY <1>2, <2>4 DEF Born, Ends
<1> QED
  BY <1>1, <1>2

LEMMA SpacesStep ==
    ASSUME Base, Spaces, NEW b \in Calls, By(b)
    PROVE  Spaces'
<1>1. ASSUME NEW w \in Calls
      PROVE  Rows(w)'
  <2>1. CASE ws'[w] = ws[w] \/ ws'[w] = None
    <3>1. call'[w].pc = "point" => w \in Homes'
      <4>1. CASE call[w].pc = "point"
        BY <4>1, HomesStep DEF Spaces, Rows
      <4>2. CASE call[w].pc # "point" /\ call'[w].pc = "point"
        <5>1. w = b
          BY <4>2, Turn DEF Moves
        <5>2. InsertHome(b) /\ ws' = [ws EXCEPT ![b] = [home |-> TRUE, default |-> TRUE]]
          BY <4>2, <5>1, SpaceStep, Arrivals DEF Base
        <5>3. ws'[b].home /\ ws'[b] # None
          <6> DEFINE h == [home |-> TRUE, default |-> TRUE]
          <6>1. h \in Workspaces /\ h.home
            BY DEF Workspaces
          <6>2. ws'[b] = h
            BY <5>2 DEF Base, TypeOK
          <6> HIDE DEF h
          <6> QED
            BY <6>1, <6>2, ConstantsAssumption
        <5> QED
          BY <5>1, <5>3 DEF Homes, Existing
      <4> QED
        BY <4>1, <4>2
    <3>2. ws'[w] # None => ws'[w] = ws[w] /\ ws[w] # None
      BY <2>1
    <3> QED
      BY <3>1, <3>2, BornStays, Turn DEF Spaces, Rows
  <2>2. CASE ws'[w] # ws[w] /\ ws'[w] # None
    <3>1. w = b /\ ws' # ws /\ ~Remove(b)
      <4>1. w = b
        BY <2>2, HomesStep
      <4>2. ASSUME Remove(b) PROVE FALSE
        <5>1. /\ call[b].ask.target \in Calls /\ ws' = [ws EXCEPT ![call[b].ask.target] = None]
              /\ ws \in [Calls -> Workspaces \cup {None}]
          BY <4>2, SpaceStep DEF Base, TypeOK
        <5> HIDE DEF Workspaces
        <5> QED
          BY <2>2, <5>1
      <4> QED
        BY <2>2, <4>1, <4>2
    <3>2. CASE /\ InsertHome(b) /\ Homes = {} /\ call'[b].pc = "point"
               /\ ws' = [ws EXCEPT ![b] = [home |-> TRUE, default |-> TRUE]]
      <4>1. ws'[b] = [home |-> TRUE, default |-> TRUE]
        BY <3>2 DEF Base, TypeOK
      <4>2. ws'[b].home
        BY <4>1
      <4>3. Asking(b, "signin")'
        <5>1. Asking(b, "signin")
          BY <3>2, Asked DEF InsertHome, StepsOf, Ops, Base
        <5> QED
          BY <5>1, Turn
      <4>4. Born(b)'
        BY <3>2 DEF Born
      <4> QED
        BY <2>2, <3>1, <4>2, <4>3, <4>4 DEF Rows, Homes, Existing
    <3>3. CASE /\ InsertWorkspace(b) /\ call'[b].pc \in {"adopt", "done"}
               /\ ws' = [ws EXCEPT ![b] = [home |-> FALSE, default |-> call[b].default]]
      <4>1. ws'[b] = [home |-> FALSE, default |-> call[b].default]
        BY <3>3 DEF Base, TypeOK
      <4>2. ~ws'[b].home
        BY <4>1
      <4>3. Asking(b, "create")'
        <5>1. Asking(b, "create")
          BY <3>3, Asked DEF InsertWorkspace, StepsOf, Ops, Base
        <5> QED
          BY <5>1, Turn
      <4>4. Born(b)'
        BY <3>3 DEF Born, Ends
      <4> QED
        BY <3>1, <3>3, <4>2, <4>3, <4>4 DEF Rows
    <3> QED
      BY <3>1, <3>2, <3>3, SpaceStep
  <2> QED
    BY <2>1, <2>2
<1>2. ASSUME NEW c \in Calls, call'[c].pc \in {"last", "whose", "fallback", "flip", "remove"}
      PROVE  /\ call'[call'[c].ask.target].pc \in {"point", "adopt"} \cup Ends
             /\ call'[c].ask.target \notin Homes'
  <2>0. PICK t : t = call[c].ask.target
    OBVIOUS
  <2>1. call'[c].ask = call[c].ask
    BY Turn
  <2>2. Born(t) /\ t \notin Homes
    <3>1. CASE call[c].pc \in {"last", "whose", "fallback", "flip", "remove"}
      BY <2>0, <3>1 DEF Spaces, Deleting
    <3>2. CASE call[c].pc \notin {"last", "whose", "fallback", "flip", "remove"}
      <4>1. c = b
        BY <1>2, <3>2, Turn DEF Moves
      <4>2. ReadDeletable(c)
        BY <1>2, <3>2, <4>1, Arrivals DEF Base, LastRemaining, IsActive, FindDefault, Flip
      <4>3. call'[c].pc = "refused" \/ t \in Existing \ Homes
        BY <2>0, <4>2, Leads DEF ReadDeletable, Base
      <4>4. t \in Existing \ Homes
        BY <1>2, <4>3
      <4> QED
        BY <4>4 DEF Spaces, Rows, Existing
    <3> QED
      BY <3>1, <3>2
  <2>3. t \in Calls
    <3>1. Asking(c, "delete")'
      <4>1. call'[c].pc \in StepsOf("delete")
        BY <1>2 DEF StepsOf
      <4>2. Base'
        BY BaseStep
      <4>3. call'[c].pc \in Steps
        BY <4>1, StepSets DEF Ops
      <4>4. call'[c].ask # None /\ call'[c].ask \in Asks /\ call'[c].pc \in StepsOf(call'[c].ask.op)
        BY <4>2, <4>3 DEF Base, Paths, Path, TypeOK
      <4>5. call'[c].ask.op \in Ops
        BY <4>4 DEF Asks
      <4> QED
        BY <4>1, <4>4, <4>5, StepSets DEF Asking, Ops
    <3>2. Asking(c, "delete")
      BY <3>1, Turn
    <3> QED
      BY <2>0, <3>2 DEF Base, Paths, Path
  <2>4. Born(t)'
    BY <2>2, <2>3, BornStays
  <2>5. t \notin Homes'
    <3>1. InsertHome(b) => t # b
      BY <2>2 DEF InsertHome, Born, Ends
    <3> QED
      BY <2>2, <3>1, HomesStep
  <2> QED
    BY <2>0, <2>1, <2>4, <2>5 DEF Born
<1>3. ASSUME NEW c \in Calls
      PROVE  Deleting(c)'
  BY <1>2 DEF Deleting, Born
<1> QED
  BY <1>1, <1>3 DEF Spaces

LEMMA SessionStep ==
    ASSUME Base, Spaces, SessionFirst, NEW b \in Calls, By(b)
    PROVE  SessionFirst'
<1>1. user => user'
  BY RowWrites DEF InsertUser
<1>2. ASSUME NEW c \in Calls, Asking(c, "signin")',
             call'[c].pc \in {"ensure", "insert home", "point", "done"}
      PROVE  user'
  <2>1. Asking(c, "signin")
    BY <1>2, Turn
  <2>2. CASE c # b \/ user
    <3>1. c # b => call'[c] = call[c]
      BY Turn DEF Moves
    <3>2. c # b => user
      BY <1>2, <2>1, <3>1 DEF SessionFirst
    <3> QED
      BY <1>1, <2>2, <3>2
  <2>3. CASE c = b /\ ~user
    <3>1. CASE InsertUser(b)
      BY <3>1 DEF InsertUser
    <3>2. CASE ~InsertUser(b)
      <4>1. call[b].pc \notin {"ensure", "insert home", "point"}
        BY <2>1, <2>3 DEF SessionFirst
      <4>2. call'[b].pc = "done"
        BY <1>2, <2>3, <3>2, <4>1, Arrivals DEF Base, EnsureDefault, InsertHome
      <4>3. ~SignInStep(b)
        BY <2>3, <3>2, <4>1, <4>2, Leads DEF SignInStep, FindUser, EnsureDefault, InsertHome,
                                             PointHome, Base
      <4>4. ~Start(b) /\ ~Die(b)
        BY <4>2, Leads DEF First, Asks, Ops, Base, Die
      <4>5. ~SpendCode(b) /\ ~CountAttempt(b) /\ ~UseCode(b) /\ ~SelectCode(b)
        BY <4>2, Leads DEF SpendCode, CountAttempt, SelectCode, Verdict, Base
      <4> QED
        BY <2>1, <2>3, <4>3, <4>4, <4>5, OwnSteps DEF Base
    <3> QED
      BY <3>1, <3>2
  <2> QED
    BY <2>2, <2>3
<1>3. ASSUME NEW c \in Calls, Asking(c, "create")', call'[c].pc # "idle"
      PROVE  user'
  <2>1. Asking(c, "create")
    BY <1>3, Turn
  <2>2. CASE call[c].pc # "idle"
    BY <1>1, <2>1, <2>2 DEF SessionFirst
  <2>3. CASE call[c].pc = "idle"
    <3>1. c = b
      BY <1>3, <2>3, Turn DEF Moves
    <3>2. Start(b)
      <4>1. call[b].pc \notin Steps
        BY <2>3, <3>1, StepSets
      <4>2. ~Die(b)
        BY <4>1 DEF Die
      <4> QED
        BY <2>3, <3>1, <4>2 DEF By, Proceed, CountCodes, InsertCode, SelectCode, SpendCode, CountAttempt,
             UseCode, FindUser, InsertUser, EnsureDefault, InsertHome, PointHome, CountWorkspaces,
             PickSlug, InsertWorkspace, Adopt, CheckOwn, Choose, ReadDeletable, LastRemaining, IsActive,
             FindDefault, Flip, Remove, ReadActive, ReadThat, ReadDefault
    <3>3. Permitted(call[b].ask) /\ call[b].ask.op = "create"
      BY <2>1, <3>1, <3>2 DEF Start, Asking
    <3>4. \E d \in Calls : Asking(d, "signin") /\ call[d].pc = "done"
      BY <3>3 DEF Permitted
    <3> QED
      BY <1>1, <3>4 DEF SessionFirst
  <2> QED
    BY <2>2, <2>3
<1>4. ASSUME NEW c \in Calls, MakesHome(c)', NEW w \in call'[c].before
      PROVE  ~Asking(w, "create")'
  <2>1. ~Start(c) \/ c # b
    <3>1. ASSUME Start(c), c = b PROVE FALSE
      <4>1. call'[c].pc \notin {"insert user", "ensure", "insert home", "point"}
        BY <3>1, Leads DEF First, Asks, Ops, Base
      <4>2. c \in Homes'
        BY <1>4, <4>1 DEF MakesHome
      <4>3. c \in Homes
        BY <3>1, <4>2, HomesStep DEF Start, InsertHome
      <4> QED
        BY <3>1, <4>3 DEF Spaces, Rows, Born, Ends, Homes, Existing, Start
    <3> QED
      BY <3>1
  <2>2. call'[c].before = call[c].before
    BY <2>1, Turn DEF Moves
  <2>3. w \in Calls /\ call[w].pc # "idle"
    BY <1>4, <2>2, StepSets DEF Base, TypeOK, Past, Ended, Ends
  <2>4. CASE MakesHome(c)
    BY <1>4, <2>2, <2>3, <2>4, Turn DEF SessionFirst
  <2>5. CASE ~MakesHome(c)
    <3>1. c = b /\ FindUser(b) /\ call'[b].pc = "insert user"
      <4>1. c = b
        <5>1. c # b => call'[c] = call[c] /\ (c \in Homes' => c \in Homes)
          BY Turn, HomesStep DEF Moves
        <5> QED
          BY <1>4, <2>5, <5>1 DEF MakesHome
      <4>2. c \in Homes' => InsertHome(b)
        BY <2>5, HomesStep DEF MakesHome
      <4>3. ~InsertHome(b) /\ call[b].pc \notin {"insert user", "ensure", "insert home", "point"}
        BY <2>5, <4>1 DEF MakesHome, InsertHome
      <4>4. call'[b].pc \in {"insert user", "ensure", "insert home", "point"}
        BY <1>4, <4>1, <4>2, <4>3 DEF MakesHome
      <4> QED
        BY <4>1, <4>3, <4>4, Arrivals DEF Base, InsertUser, EnsureDefault
    <3>2. ~user
      BY <3>1, Leads DEF FindUser, Base
    <3> QED
      BY <2>3, <3>2, Turn DEF SessionFirst
  <2> QED
    BY <2>4, <2>5
<1> QED
  BY <1>2, <1>3, <1>4 DEF SessionFirst

\* The user without a default workspace is one of a sign-in that is on its way
\* to it, or was cut short.
LEMMA HomeStep ==
    ASSUME Base, Spaces, HomeUnlessCutShort, NEW b \in Calls, By(b)
    PROVE  HomeUnlessCutShort'
<1> SUFFICES ASSUME user', Homes' = {}
             PROVE  \E c \in Calls : call'[c].created /\ call'[c].pc \in {"ensure", "insert home", "threw"}
  BY DEF HomeUnlessCutShort
<1>1. Homes = {}
  BY HomesStep
<1>2. CASE ~user
  <2>1. InsertUser(b)
    BY <1>2, RowWrites
  <2> QED
    BY <1>2, <2>1, Leads DEF Base
<1>3. CASE user
  <2>1. PICK c \in Calls : call[c].created /\ call[c].pc \in {"ensure", "insert home", "threw"}
    BY <1>1, <1>3 DEF HomeUnlessCutShort
  <2>2. CASE c # b
    <3>1. call'[c] = call[c]
      BY <2>2, Turn DEF Moves
    <3> QED
      BY <2>1, <3>1
  <2>3. CASE c = b
    <3>1. call[b].pc \in {"ensure", "insert home"}
      BY <2>1, <2>3, Turn DEF Ended, Ends
    <3>2. EnsureDefault(b) \/ InsertHome(b) \/ Die(b)
      BY <3>1 DEF By, Proceed, Start, CountCodes, InsertCode, SelectCode, SpendCode, CountAttempt,
         UseCode, FindUser, InsertUser, PointHome, CountWorkspaces, PickSlug, InsertWorkspace, Adopt,
         CheckOwn, Choose, ReadDeletable, LastRemaining, IsActive, FindDefault, Flip, Remove,
         ReadActive, ReadThat, ReadDefault
    <3>3. ~InsertUser(b) /\ call'[b].created
      BY <2>1, <2>3, <3>1, Turn DEF Moves, InsertUser
    <3>4. EnsureDefault(b) => call'[b].pc = "insert home"
      BY <1>1, Leads DEF EnsureDefault, Base
    <3>5. InsertHome(b) => call'[b].pc = "threw"
      <4>1. InsertHome(b) => call'[b].pc \in {"point", "threw"}
        BY Leads DEF InsertHome, Base
      <4>2. call'[b].pc # "point"
        BY SpacesStep DEF Spaces, Rows
      <4> QED
        BY <4>1, <4>2
    <3>6. Die(b) => call'[b].pc = "threw"
      BY Leads DEF Die, Base
    <3> QED
      BY <3>2, <3>3, <3>4, <3>5, <3>6
  <2> QED
    BY <2>2, <2>3
<1> QED
  BY <1>2, <1>3

LEMMA ResolvedStep ==
    ASSUME Base, Spaces, Resolved, NEW b \in Calls, By(b)
    PROVE  Resolved'
<1>1. Homes \subseteq Homes'
  BY HomesStep
<1>2. ASSUME NEW c \in Calls, call'[c].homed
      PROVE  Homes' # {}
  <2>1. CASE c = b /\ Start(b)
    BY <1>1, <1>2, <2>1, Leads DEF Base
  <2>2. CASE ~(c = b /\ Start(b))
    BY <1>1, <1>2, <2>2, Turn DEF Moves, Resolved
  <2> QED
    BY <2>1, <2>2
<1>3. active' \in Existing' \cup {None}
  <2>1. active \in Existing \cup {None}
    BY DEF Resolved, ActiveResolves
  <2>2. CASE Remove(b)
    <3>1. active' = IF active = call[b].ask.target THEN None ELSE active
      BY <2>2 DEF Remove
    <3>2. ws' = [ws EXCEPT ![call[b].ask.target] = None] /\ ws \in [Calls -> Workspaces \cup {None}]
      BY <2>2, SpaceStep DEF Base, TypeOK
    <3> HIDE DEF Workspaces
    <3> QED
      BY <2>1, <3>1, <3>2 DEF Existing
  <2>3. CASE ~Remove(b)
    <3>1. Existing \subseteq Existing'
      BY <2>3, HomesStep DEF Existing
    <3>2. PointHome(b) => active' \in Existing \cup {None}
      BY <2>1 DEF PointHome, Spaces, Rows, Homes
    <3>3. Adopt(b) \/ Choose(b) \/ Flip(b) => active' \in Existing \cup {None}
      <4>1. (\E w : PointAt(b, w)) => active' \in Existing \cup {None}
        BY <2>1 DEF PointAt
      <4> QED
        BY <4>1 DEF Adopt, Choose, Flip
    <3> QED
      BY <2>1, <2>3, <3>1, <3>2, <3>3, RowWrites
  <2> QED
    BY <2>2, <2>3
<1>4. ASSUME NEW c \in Calls \ Mortal, Asking(c, "resolve")', call'[c].pc = "threw"
      PROVE  ~call'[c].homed
  <2>1. Asking(c, "resolve")
    BY <1>4, Turn
  <2>2. CASE c # b
    BY <1>4, <2>1, <2>2, Turn DEF Moves, Resolved, ActiveResolves
  <2>3. CASE c = b
    <3>1. ~Start(b) /\ ~Die(b)
      BY <1>4, <2>3, Leads DEF First, Asks, Ops, Base, Die
    <3>2. ReadDefault(b) /\ Homes = {}
      BY <1>4, <2>1, <2>3, <3>1, OwnSteps, Leads DEF ResolveStep, ReadThat, Base
    <3>3. ~call[b].homed
      BY <3>2 DEF Resolved
    <3> QED
      BY <2>3, <3>1, <3>3, Turn DEF Moves
  <2> QED
    BY <2>2, <2>3
<1> QED
  BY <1>2, <1>3, <1>4 DEF Resolved, ActiveResolves

-----------------------------------------------------------------------------
(* The limits: who passed one without the other knowing was side by side   *)
(* with it.                                                                *)

LEMMA ActiveFinite ==
    ASSUME TypeOK
    PROVE  IsFiniteSet(Active) /\ Cardinality(Active) \in Nat /\ Active \subseteq DOMAIN codes
<1>1. Len(codes) \in Nat /\ DOMAIN codes = 1..Len(codes)
  BY DEF TypeOK
<1>2. Active \subseteq 1..Len(codes)
  BY <1>1 DEF Active
<1>3. IsFiniteSet(1..Len(codes))
  BY <1>1, FS_Interval
<1> QED
  BY <1>1, <1>2, <1>3, FS_Subset, FS_CardinalityType

\* A set that is bounded but for one element.
LEMMA OneMore ==
    ASSUME NEW S, IsFiniteSet(S), NEW x, NEW T, T \ {x} \subseteq S, NEW n \in Nat,
           Cardinality(S) < n
    PROVE  Cardinality(T) <= n
<1>1. PICK U \in SUBSET S : U = T \ {x}
  OBVIOUS
<1>2. x \notin U /\ (T = U \/ T = U \cup {x})
  BY <1>1
<1>3. IsFiniteSet(U) /\ Cardinality(U) <= Cardinality(S)
  BY FS_Subset
<1>4. Cardinality(U) \in Nat /\ Cardinality(S) \in Nat
  BY <1>3, FS_CardinalityType
<1>5. Cardinality(U \cup {x}) = Cardinality(U) + 1
  BY <1>2, <1>3, FS_AddElement
<1> QED
  BY <1>2, <1>3, <1>4, <1>5

\* A code added is of the request that adds it.
LEMMA ActiveStep ==
    ASSUME Base, NEW b \in Calls, By(b), NEW i \in Active'
    PROVE  \/ i \in Active /\ codes'[i].of = codes[i].of
           \/ InsertCode(b) /\ i = Len(codes) + 1 /\ codes'[i].of = b
<1>1. CASE i \in DOMAIN codes
  BY <1>1, Turn DEF CodesKept, Active
<1>2. CASE i \notin DOMAIN codes
  <2>1. InsertCode(b) /\ i = Len(codes) + 1
    BY <1>2, Attempts DEF Active
  <2>2. Mailed(b) \in Codes /\ codes' = Append(codes, Mailed(b)) /\ codes \in Seq(Codes)
    BY <2>1, CodeWrites DEF InsertCode, Base, TypeOK
  <2>3. codes'[i] = Mailed(b)
    BY <2>1, <2>2, CodeAdd
  <2> QED
    BY <2>1, <2>3 DEF Mailed
<1> QED
  BY <1>1, <1>2

LEMMA CodeLimitStep ==
    ASSUME Base, CodeLimit, NEW b \in Calls, By(b)
    PROVE  CodeLimit'
<1>1. MaxActive \in Nat \ {0} /\ TypeOK' /\ TypeOK
  BY BaseStep, ConstantsAssumption DEF Base
<1>2. ASSUME NEW i \in DOMAIN codes'
      PROVE  codes'[i].of \in Ended'
  <2>1. CASE i \in DOMAIN codes
    BY <2>1, Turn DEF CodesKept, CodeLimit
  <2>2. CASE i \notin DOMAIN codes
    <3>1. InsertCode(b) /\ i = Len(codes) + 1
      BY <2>2, Attempts
    <3>2. Mailed(b) \in Codes /\ codes' = Append(codes, Mailed(b)) /\ codes \in Seq(Codes)
      BY <3>1, CodeWrites DEF InsertCode, Base, TypeOK
    <3>3. codes'[i] = Mailed(b)
      BY <3>1, <3>2, CodeAdd
    <3>4. b \in Ended'
      BY <3>1, Leads DEF InsertCode, Base, Ended, Ends
    <3> QED
      BY <3>3, <3>4 DEF Mailed
  <2> QED
    BY <2>1, <2>2
<1>3. ASSUME NEW c \in Calls, call'[c].pc = "insert code"
      PROVE  Cardinality(CodesBefore(c)') < MaxActive
  <2>1. CASE c = b
    <3>1. CountCodes(b) /\ codes' = codes
      BY <1>3, <2>1, Arrivals DEF Base, CountCodes
    <3>2. Cardinality(Active) < MaxActive
      <4>1. ~(Cardinality(Active) >= MaxActive)
        BY <1>3, <2>1, <3>1, Leads DEF CountCodes, Base
      <4> QED
        BY <1>1, <4>1, ActiveFinite
    <3>3. CodesBefore(c)' \subseteq Active
      BY <3>1 DEF CodesBefore, Active
    <3>4. Cardinality(CodesBefore(c)') <= Cardinality(Active) /\ Cardinality(CodesBefore(c)') \in Nat
      BY <1>1, <3>3, ActiveFinite, FS_Subset, FS_CardinalityType
    <3> QED
      BY <1>1, <3>2, <3>4, ActiveFinite
  <2>2. CASE c # b
    <3>1. call'[c] = call[c]
      BY <2>2, Turn DEF Moves
    <3>2. CodesBefore(c)' \subseteq CodesBefore(c)
      <4>1. ASSUME NEW i \in Active', codes'[i].of \in call[c].before
            PROVE  i \in Active /\ codes[i].of \in call[c].before
        BY <4>1, ActiveStep, Turn
      <4> QED
        BY <3>1, <4>1 DEF CodesBefore
    <3>3. Cardinality(CodesBefore(c)) < MaxActive
      BY <1>3, <3>1 DEF CodeLimit
    <3>4. IsFiniteSet(CodesBefore(c))
      BY <1>1, ActiveFinite, FS_Subset DEF CodesBefore
    <3>5. Cardinality(CodesBefore(c)') <= Cardinality(CodesBefore(c))
          /\ Cardinality(CodesBefore(c)') \in Nat /\ Cardinality(CodesBefore(c)) \in Nat
      BY <3>2, <3>4, FS_Subset, FS_CardinalityType
    <3> QED
      BY <1>1, <3>3, <3>5
  <2> QED
    BY <2>1, <2>2
<1>4. ASSUME NEW T \in SUBSET Active', CodesInTurn(T)'
      PROVE  Cardinality(T) <= MaxActive
  <2>1. \A i \in Active : codes[i].of \in Calls /\ call[codes[i].of].pc # "idle"
    BY StepSets DEF CodeLimit, Active, Ended
  <2>2. CASE T \subseteq Active
    <3>1. \A i \in T : codes'[i].of = codes[i].of
      BY <2>2, Turn DEF CodesKept, Active
    <3>2. CodesInTurn(T)
      <4> SUFFICES ASSUME NEW i \in T, NEW j \in T
                   PROVE  ~SideBySide(codes[i].of, codes[j].of)
        BY DEF CodesInTurn
      <4>1. PICK d, e : d = codes[i].of /\ e = codes[j].of
        OBVIOUS
      <4>2. ~SideBySide(d, e)'
        BY <1>4, <3>1, <4>1 DEF CodesInTurn, SideBySide
      <4>3. d \in Calls /\ e \in Calls /\ call[d].pc # "idle" /\ call[e].pc # "idle"
        BY <2>1, <2>2, <4>1
      <4> QED
        BY <4>1, <4>2, <4>3, Turn
    <3> QED
      BY <2>2, <3>2 DEF CodeLimit
  <2>3. CASE ~(T \subseteq Active)
    <3>1. PICK n \in T : n \notin Active
      BY <2>3
    <3>2. InsertCode(b) /\ n = Len(codes) + 1 /\ codes'[n].of = b
      BY <3>1, ActiveStep
    <3>3. ASSUME NEW i \in T \ {n}
          PROVE  i \in CodesBefore(b)
      <4>1. i \in Active /\ codes'[i].of = codes[i].of
        BY <3>2, <3>3, ActiveStep
      <4>2. PICK d : d = codes[i].of
        OBVIOUS
      <4>3. d \in Ended /\ d \in Calls /\ d # b
        BY <4>1, <4>2, Turn DEF CodeLimit, Active, Ended
      <4>4. ~SideBySide(b, d)'
        BY <1>4, <3>2, <4>1, <4>2 DEF CodesInTurn, SideBySide
      <4>5. call'[b].before = call[b].before /\ b \notin call'[d].before
        <5>1. ~Start(b)
          BY <3>2 DEF InsertCode, Start
        <5>2. call'[d] = call[d]
          BY <4>3, Turn DEF Moves
        <5> QED
          BY <4>3, <5>1, <5>2, Turn
      <4> QED
        BY <4>1, <4>2, <4>3, <4>4, <4>5 DEF SideBySide, CodesBefore
    <3>4. Cardinality(CodesBefore(b)) < MaxActive /\ IsFiniteSet(CodesBefore(b))
      BY <1>1, <3>2, ActiveFinite, FS_Subset DEF CodeLimit, CodesBefore, InsertCode
    <3> QED
      BY <1>1, <3>3, <3>4, OneMore
  <2> QED
    BY <2>2, <2>3
<1> QED
  BY <1>2, <1>3, <1>4 DEF CodeLimit

LEMMA CodeLimitExpire ==
    ASSUME Base, CodeLimit, Expire \/ UNCHANGED vars
    PROVE  CodeLimit'
<1>1. call' = call /\ MaxActive \in Nat /\ TypeOK
  BY ConstantsAssumption DEF Expire, vars, Base
<1>2. CodesKept /\ DOMAIN codes' = DOMAIN codes
  <2>1. CASE Expire
    <3>1. CodesKept /\ Len(codes') = Len(codes)
      BY <1>1, <2>1, ExpireKeeps
    <3>2. codes \in Seq(Codes) /\ codes' \in Seq(Codes)
      BY <1>1, <3>1 DEF TypeOK, CodesKept
    <3> HIDE DEF Codes
    <3> QED
      BY <3>1, <3>2
  <2>2. CASE UNCHANGED vars
    BY <1>1, <2>2, CodesSame DEF vars
  <2> QED
    BY <2>1, <2>2
<1>3. Active' \subseteq Active /\ \A i \in DOMAIN codes : codes'[i].of = codes[i].of
  BY <1>2 DEF Active, CodesKept
<1>4. \A i \in DOMAIN codes' : codes'[i].of \in Ended'
  BY <1>1, <1>2, <1>3 DEF CodeLimit, Ended
<1>5. ASSUME NEW c \in Calls, call'[c].pc = "insert code"
      PROVE  Cardinality(CodesBefore(c)') < MaxActive
  <2>1. CodesBefore(c)' \subseteq CodesBefore(c)
    BY <1>1, <1>3 DEF CodesBefore, Active
  <2>2. IsFiniteSet(CodesBefore(c))
    BY <1>1, ActiveFinite, FS_Subset DEF CodesBefore
  <2>3. Cardinality(CodesBefore(c)') <= Cardinality(CodesBefore(c))
        /\ Cardinality(CodesBefore(c)') \in Nat /\ Cardinality(CodesBefore(c)) \in Nat
    BY <2>1, <2>2, FS_Subset, FS_CardinalityType
  <2>4. Cardinality(CodesBefore(c)) < MaxActive
    BY <1>1, <1>5 DEF CodeLimit
  <2> QED
    BY <1>1, <2>3, <2>4
<1>6. ASSUME NEW T \in SUBSET Active', CodesInTurn(T)'
      PROVE  Cardinality(T) <= MaxActive
  <2>1. T \in SUBSET Active /\ CodesInTurn(T)
    BY <1>1, <1>3, <1>6 DEF CodesInTurn, SideBySide, Active
  <2> QED
    BY <2>1 DEF CodeLimit
<1> QED
  BY <1>4, <1>5, <1>6 DEF CodeLimit

\* Who counts in the spaces has begun, and the step of another changes nothing
\* about who was before whom.
LEMMA SpaceLimitStep ==
    ASSUME Base, Spaces, SessionFirst, SpaceLimit, NEW b \in Calls, By(b)
    PROVE  SpaceLimit'
<1>1. MaxWorkspaces \in Nat \ {0} /\ TypeOK'
  BY BaseStep, ConstantsAssumption DEF Base
<1>2. Existing' \subseteq Existing \cup {b}
  BY HomesStep DEF Existing
<1>3. Existing' \subseteq Existing \/ InsertHome(b) \/ InsertWorkspace(b)
  <2>1. CASE Remove(b)
    <3>1. ws' = [ws EXCEPT ![call[b].ask.target] = None] /\ ws \in [Calls -> Workspaces \cup {None}]
      BY <2>1, SpaceStep DEF Base, TypeOK
    <3> HIDE DEF Workspaces
    <3> QED
      BY <3>1 DEF Existing
  <2> QED
    BY <2>1, RowWrites DEF Existing
<1>4. \A w \in Existing : w \in Calls /\ call[w].pc # "idle"
  BY DEF Existing, Spaces, Rows, Born, Ends
<1>5. ASSUME NEW c \in Calls, call'[c].pc \in {"slug", "insert"}
      PROVE  Cardinality(SpacesBefore(c)') < MaxWorkspaces
  <2>1. CASE c = b /\ CountWorkspaces(b)
    <3>1. ~(Cardinality(Existing) >= MaxWorkspaces)
      BY <1>5, <2>1, Leads DEF CountWorkspaces, Base
    <3>2. SpacesBefore(c)' \subseteq Existing
      BY <2>1 DEF SpacesBefore, Existing, CountWorkspaces, rows
    <3>3. IsFiniteSet(Existing)
      BY Finite DEF Spaces
    <3> QED
      BY <1>1, <3>1, <3>2, <3>3, FS_Subset, FS_CardinalityType
  <2>2. CASE ~(c = b /\ CountWorkspaces(b))
    <3>1. call[c].pc \in {"slug", "insert"} /\ call'[c].before = call[c].before
      <4>1. CASE c # b
        BY <1>5, <4>1, Turn DEF Moves
      <4>2. CASE c = b
        <5>1. PickSlug(b)
          BY <1>5, <2>2, <4>2, Arrivals DEF Base
        <5> QED
          BY <4>2, <5>1, Turn DEF PickSlug, Start
      <4> QED
        BY <4>1, <4>2
    <3>2. b \notin call[c].before
      BY Turn
    <3>3. SpacesBefore(c)' \subseteq SpacesBefore(c)
      BY <1>2, <3>1, <3>2 DEF SpacesBefore
    <3>4. Cardinality(SpacesBefore(c)) < MaxWorkspaces
      BY <3>1 DEF SpaceLimit
    <3>5. IsFiniteSet(SpacesBefore(c))
      BY Finite, FS_Subset DEF SpacesBefore, Spaces
    <3>6. Cardinality(SpacesBefore(c)') <= Cardinality(SpacesBefore(c))
          /\ Cardinality(SpacesBefore(c)') \in Nat /\ Cardinality(SpacesBefore(c)) \in Nat
      BY <3>3, <3>5, FS_Subset, FS_CardinalityType
    <3> QED
      BY <1>1, <3>4, <3>6
  <2> QED
    BY <2>1, <2>2
<1>6. ASSUME NEW T \in SUBSET Existing', SpacesInTurn(T)'
      PROVE  Cardinality(T) <= MaxWorkspaces
  <2>1. CASE T \subseteq Existing
    <3>1. SpacesInTurn(T)
      BY <1>4, <1>6, <2>1, Turn DEF SpacesInTurn
    <3> QED
      BY <2>1, <3>1 DEF SpaceLimit
  <2>2. CASE ~(T \subseteq Existing)
    <3>1. b \in T /\ (InsertHome(b) \/ InsertWorkspace(b))
      BY <1>2, <1>3, <2>2
    <3>2. ~Start(b)
      BY <3>1 DEF Start, InsertHome, InsertWorkspace
    <3>3. ASSUME NEW w \in T \ {b}
          PROVE  w \in SpacesBefore(b)
      <4>1. w \in Existing /\ w \in Calls
        BY <1>2, <1>4, <3>3
      <4>2. ~SideBySide(b, w)'
        BY <1>6, <3>1, <3>3 DEF SpacesInTurn
      <4>3. call'[b].before = call[b].before /\ b \notin call'[w].before
        BY <3>2, <4>1, Turn
      <4> QED
        BY <3>3, <4>1, <4>2, <4>3 DEF SideBySide, SpacesBefore
    <3>4. CASE InsertWorkspace(b)
      <4>1. Cardinality(SpacesBefore(b)) < MaxWorkspaces
        BY <3>4 DEF SpaceLimit, InsertWorkspace
      <4>2. IsFiniteSet(SpacesBefore(b))
        BY Finite, FS_Subset DEF SpacesBefore, Spaces
      <4> QED
        BY <1>1, <3>3, <4>1, <4>2, OneMore
    <3>5. CASE InsertHome(b) /\ ~InsertWorkspace(b)
      <4>1. Homes = {}
        <5>1. Existing' # Existing
          BY <1>2, <2>2, <1>6
        <5> QED
          BY <3>5, <5>1, SpaceStep DEF Existing, InsertHome, Remove
      <4>2. ASSUME NEW w \in SpacesBefore(b)
            PROVE  FALSE
        <5>1. Asking(w, "create")
          BY <4>1, <4>2 DEF SpacesBefore, Existing, Homes, Spaces, Rows
        <5>2. MakesHome(b)
          BY <3>5 DEF MakesHome, InsertHome
        <5> QED
          BY <4>2, <5>1, <5>2 DEF SessionFirst, SpacesBefore
      <4>3. T = {b}
        BY <3>1, <3>3, <4>2
      <4> QED
        BY <1>1, <4>3, FS_Singleton
    <3> QED
      BY <3>1, <3>4, <3>5
  <2> QED
    BY <2>1, <2>2
<1> QED
  BY <1>5, <1>6 DEF SpaceLimit

\* What was removed was removed by a deletion that is not before the other.
LEMMA LastLimitStep ==
    ASSUME Base, Spaces, LastLimit, NEW b \in Calls, By(b)
    PROVE  LastLimit'
<1>1. Deleted \subseteq Deleted' /\ \A d \in Deleted : d \in Calls /\ call[d].pc # "idle" /\ d \in Ended
  <2>1. \A d \in Deleted : d \in Calls /\ call[d].pc # "idle" /\ d \in Ended
    BY DEF Deleted, Ended, Ends
  <2>2. \A d \in Deleted : d \in Deleted'
    BY <2>1, Turn DEF Deleted, Moves
  <2> QED
    BY <2>1, <2>2
<1>2. \A w \in Existing : w \in Existing' \/ (Remove(b) /\ w = call[b].ask.target)
  BY HomesStep DEF Existing
<1>3. Remove(b) => b \in Deleted' /\ ~Start(b) /\ call[b].pc = "remove"
  <2>1. Remove(b) => Asking(b, "delete") /\ call'[b].pc = "done"
    BY Asked, Leads DEF Remove, StepsOf, Ops, Base
  <2> QED
    BY <2>1, Turn DEF Deleted, Remove, Start
<1>4. ASSUME NEW c \in Calls, call'[c].pc \in {"whose", "fallback", "flip", "remove"}
      PROVE  \E w \in Calls \ {call'[c].ask.target} :
               \/ w \in Existing'
               \/ \E d \in Deleted' \ call'[c].before : call'[d].ask.target = w
  <2>1. \A d \in Calls : call'[d].ask = call[d].ask
    BY Turn
  <2>2. CASE call[c].pc \in {"whose", "fallback", "flip", "remove"}
    <3>1. call'[c].before = call[c].before
      BY <2>2, Turn DEF Moves, Start
    <3>2. PICK w \in Calls \ {call[c].ask.target} :
            w \in Existing \/ \E d \in Deleted \ call[c].before : call[d].ask.target = w
      BY <2>2 DEF LastLimit, Remains
    <3>3. CASE w \in Existing'
      BY <2>1, <3>2, <3>3
    <3>4. CASE w \in Existing /\ w \notin Existing'
      <4>1. Remove(b) /\ w = call[b].ask.target /\ b \in Deleted'
        BY <1>2, <1>3, <3>4
      <4>2. b \notin call'[c].before
        BY <3>1, Turn
      <4> QED
        BY <2>1, <3>2, <4>1, <4>2
    <3>5. CASE w \notin Existing
      <4>1. PICK d \in Deleted \ call[c].before : call[d].ask.target = w
        BY <3>2, <3>5
      <4> QED
        BY <1>1, <2>1, <3>1, <3>2, <4>1
    <3> QED
      BY <3>3, <3>4, <3>5
  <2>3. CASE call[c].pc \notin {"whose", "fallback", "flip", "remove"}
    <3>1. c = b
      BY <1>4, <2>3, Turn DEF Moves
    <3>2. LastRemaining(b)
      BY <1>4, <2>3, <3>1, Arrivals DEF Base, IsActive, FindDefault, Flip
    <3>3. ~(Cardinality(Existing) <= 1)
      BY <1>4, <3>1, <3>2, Leads DEF LastRemaining, Base
    <3>4. ~(Existing \subseteq {call[b].ask.target})
      <4>1. SUFFICES ASSUME Existing \subseteq {call[b].ask.target} PROVE FALSE
        OBVIOUS
      <4>2. Existing = {} \/ Existing = {call[b].ask.target}
        BY <4>1
      <4>3. Cardinality(Existing) = 0 \/ Cardinality(Existing) = 1
        BY <4>2, FS_EmptySet, FS_Singleton
      <4> QED
        BY <3>3, <4>3
    <3>5. Existing' = Existing
      BY <3>2 DEF LastRemaining, Existing, rows
    <3> QED
      BY <2>1, <3>1, <3>4, <3>5 DEF Existing
  <2> QED
    BY <2>2, <2>3
<1>5. \A c \in Calls : Remains(c)'
  BY <1>4 DEF Remains
<1>6. ASSUME Deleted' # {}, Existing' = {}
      PROVE  \E c, d \in Deleted' : SideBySide(c, d)'
  <2>1. CASE Existing = {} /\ Deleted # {}
    BY <1>1, <2>1, Turn DEF LastLimit
  <2>2. CASE Remove(b)
    <3>1. PICK w \in Calls \ {call[b].ask.target} :
            w \in Existing \/ \E d \in Deleted \ call[b].before : call[d].ask.target = w
      BY <1>3, <2>2 DEF LastLimit, Remains
    <3>2. w \notin Existing
      BY <1>2, <1>6, <3>1
    <3>3. PICK d \in Deleted \ call[b].before : call[d].ask.target = w
      BY <3>1, <3>2
    <3>4. SideBySide(b, d)
      BY <1>1, <3>3, Turn DEF SideBySide
    <3>5. SideBySide(b, d)'
      BY <1>1, <1>3, <2>2, <3>3, <3>4, Turn
    <3> QED
      BY <1>1, <1>3, <2>2, <3>3, <3>5
  <2>3. CASE ~Remove(b) /\ ~(Existing = {} /\ Deleted # {})
    <3>1. Existing = {}
      BY <1>2, <1>6, <2>3
    <3>2. PICK d \in Deleted' : d \notin Deleted
      BY <1>6, <2>3, <3>1
    <3>3. d = b /\ Asking(b, "delete") /\ call'[b].pc = "done"
      BY <3>2, Turn DEF Deleted, Moves
    <3>4. ~Start(b) /\ ~Die(b)
      BY <3>3, Leads DEF First, Asks, Ops, Base, Die
    <3>5. DeleteStep(b)
      BY <3>3, <3>4, OwnSteps DEF Base
    <3>6. Flip(b) => call'[b].pc \in {"remove", "threw"}
      BY <3>3, Leads DEF Flip, PointAt, Base
    <3> QED
      BY <2>3, <3>3, <3>5, <3>6, Leads DEF DeleteStep, ReadDeletable, LastRemaining, IsActive, Base
  <2> QED
    BY <2>1, <2>2, <2>3
<1> QED
  BY <1>5, <1>6 DEF LastLimit

-----------------------------------------------------------------------------
(* The theorems.                                                           *)

\* The inductive invariant.
Inv == /\ Base /\ UsedBefores /\ Counted
       /\ Spaces /\ SessionFirst /\ HomeUnlessCutShort /\ Resolved
       /\ CodeLimit /\ SpaceLimit /\ LastLimit

LEMMA InvInit ==
    ASSUME Init
    PROVE  Inv
<1>1. Base /\ Begins /\ TypeOK
  BY BaseInit DEF Base
<1>2. {MaxActive, MaxAttempts, MaxWorkspaces} \subseteq Nat \ {0}
  BY ConstantsAssumption
<1>3. /\ Homes = {}
      /\ \A op : \A c \in Calls : Asking(c, op) => call[c].pc # "done"
  BY <1>1 DEF Begins, Homes, Asking
<1>4. UsedBefores
  <2> SUFFICES ASSUME NEW c \in Calls, NEW d \in call[c].before, call[d].opened
               PROVE  FALSE
    BY DEF UsedBefores, UsedBefore
  <2>1. d \in Calls
    BY <1>1 DEF TypeOK
  <2> QED
    BY <1>1, <2>1 DEF Begins
<1>5. Spaces
  <2>1. \A c \in Calls : call[c].pc \in {"idle", "done", "threw"} /\ ws[c] = None
    BY <1>1 DEF Begins, Existing
  <2> QED
    BY <2>1 DEF Spaces, Rows, Deleting
<1>6. SessionFirst
  <2>1. \A c \in Calls : ~MakesHome(c)
    BY <1>1, <1>3 DEF Begins, MakesHome
  <2>2. \A c \in Calls : Asking(c, "create") /\ call[c].pc # "idle" => user
    BY <1>1, <1>3 DEF Begins
  <2>3. \A c \in Calls :
          Asking(c, "signin") /\ call[c].pc \in {"ensure", "insert home", "point", "done"} => user
    BY <1>1, <1>3 DEF Begins
  <2> QED
    BY <2>1, <2>2, <2>3 DEF SessionFirst
<1>7. HomeUnlessCutShort
  BY <1>1 DEF Begins, HomeUnlessCutShort
<1>8. Resolved
  BY <1>1 DEF Begins, Resolved, ActiveResolves
<1>9. CodeLimit
  <2>1. ASSUME NEW T \in SUBSET Active
        PROVE  Cardinality(T) <= MaxActive
    <3>1. Len(codes) \in Nat /\ T \subseteq 1..Len(codes) /\ Len(codes) <= MaxActive
      BY <1>1, ActiveFinite DEF TypeOK, Begins
    <3>2. IsFiniteSet(1..Len(codes)) /\ Cardinality(1..Len(codes)) = Len(codes)
      <4>1. 1 \in Int /\ Len(codes) \in Int
        BY <3>1
      <4>2. /\ IsFiniteSet(1..Len(codes))
            /\ Cardinality(1..Len(codes)) = IF 1 > Len(codes) THEN 0 ELSE Len(codes) - 1 + 1
        BY <4>1, FS_Interval
      <4> QED
        BY <3>1, <4>2
    <3>3. Cardinality(T) <= Len(codes) /\ Cardinality(T) \in Nat
      BY <3>1, <3>2, FS_Subset, FS_CardinalityType
    <3> QED
      BY <1>2, <3>1, <3>3
  <2> QED
    BY <1>1, <2>1 DEF CodeLimit, Begins
<1>10. Counted
  <2>1. ASSUME NEW r \in DOMAIN codes, NEW S \in SUBSET Calls, InTurn(S, r)
        PROVE  Cardinality(S) <= codes[r].attempts
    <3>1. r # 0
      BY <1>1 DEF TypeOK
    <3>2. S = {}
      BY <1>1, <2>1, <3>1 DEF InTurn, Guesses, Begins
    <3> QED
      BY <1>1, <3>2, FS_EmptySet DEF Begins
  <2>2. \A c \in Calls : ReadCounts(c)
    BY <1>1 DEF ReadCounts, Begins
  <2> QED
    BY <2>1, <2>2 DEF Counted, RowCounts
<1>11. SpaceLimit
  <2>1. \A T \in SUBSET Existing : Cardinality(T) <= MaxWorkspaces
    <3>1. \A T \in SUBSET Existing : T = {}
      BY <1>1 DEF Begins
    <3> QED
      BY <1>2, <3>1, FS_EmptySet
  <2> QED
    BY <1>1, <2>1 DEF SpaceLimit, Begins
<1>12. LastLimit
  BY <1>1, <1>3 DEF LastLimit, Remains, Deleted, Begins
<1> QED
  BY <1>1, <1>4, <1>5, <1>6, <1>7, <1>8, <1>9, <1>10, <1>11, <1>12 DEF Inv

\* What the time a code has left, and a step that changes nothing, leave alone.
LEMMA RestSame ==
    ASSUME Expire \/ UNCHANGED vars, UsedBefores, Spaces, SessionFirst, HomeUnlessCutShort,
           Resolved, SpaceLimit, LastLimit
    PROVE  (UsedBefores /\ Spaces /\ SessionFirst /\ HomeUnlessCutShort /\ Resolved
            /\ SpaceLimit /\ LastLimit)'
<1>1. UNCHANGED <<user, active, ws, call>>
  BY DEF Expire, vars, rows
<1>2. Existing' = Existing /\ Homes' = Homes
  BY <1>1 DEF Existing, Homes
<1>3. UsedBefores'
  BY <1>1 DEF UsedBefores, UsedBefore
<1>4. Spaces'
  BY <1>1, <1>2 DEF Spaces, Rows, Deleting, Born, Asking
<1>5. SessionFirst'
  BY <1>1, <1>2 DEF SessionFirst, MakesHome, Asking
<1>6. HomeUnlessCutShort'
  BY <1>1, <1>2 DEF HomeUnlessCutShort
<1>7. Resolved'
  BY <1>1, <1>2 DEF Resolved, ActiveResolves, Asking
<1>8. SpaceLimit'
  BY <1>1, <1>2 DEF SpaceLimit, SpacesBefore, SpacesInTurn, SideBySide
<1>9. LastLimit'
  BY <1>1, <1>2 DEF LastLimit, Remains, Deleted, SideBySide, Asking
<1> QED
  BY <1>3, <1>4, <1>5, <1>6, <1>7, <1>8, <1>9

LEMMA InvNext ==
    ASSUME Inv, [Next]_vars
    PROVE  Inv'
<1>1. CASE Expire \/ UNCHANGED vars
  <2>1. Base' /\ CodeLimit' /\ Counted'
    BY <1>1, BaseExpire, BaseSame, CodeLimitExpire, CountedExpire DEF Inv
  <2> QED
    BY <1>1, <2>1, RestSame DEF Inv
<1>2. ASSUME NEW b \in Calls, By(b)
      PROVE  Inv'
  <2>1. Counted'
    BY <1>2, ReadStep, RowStep DEF Counted, Inv
  <2> QED
    BY <1>2, <2>1, BaseStep, UsedBeforeStep, SpacesStep, SessionStep, HomeStep, ResolvedStep,
       CodeLimitStep, SpaceLimitStep, LastLimitStep DEF Inv
<1> QED
  BY <1>1, <1>2 DEF Next, By

LEMMA Invariance ==
    Spec => []Inv
<1>1. Init => Inv
  BY InvInit
<1>2. Inv /\ [Next]_vars => Inv'
  BY InvNext
<1> QED
  BY <1>1, <1>2, PTL DEF Spec

\* The codes, the rows and every request stay of the type the code gives them:
\* no attempts are counted beyond the limit, whatever the interleaving.
THEOREM TypeCorrect ==
    Spec => []TypeOK
<1>1. Inv => TypeOK
  BY DEF Inv, Base
<1> QED
  BY <1>1, Invariance, PTL

\* verifyOtp: who passes with a code that another one passed with was side by
\* side with that one; and of MAX_VERIFY_ATTEMPTS wrong codes refused before a
\* sign-in that passes, one was side by side with another wrong one.
THEOREM CodesHold ==
    Spec => []CodeHoldsButSideBySide
<1>1. Inv => CodeHoldsButSideBySide
  BY CodeHolds DEF Inv
<1> QED
  BY <1>1, Invariance, PTL

\* verifyOtp and ensureDefaultUserWorkspace: a user without a default workspace
\* is one whose first sign-in is under way or was cut short.
THEOREM HomesKept ==
    Spec => []HomeUnlessCutShort
<1>1. Inv => HomeUnlessCutShort
  BY DEF Inv
<1> QED
  BY <1>1, Invariance, PTL

\* resolveActiveUserWorkspace: the pointer never dangles, and a request of a user
\* with a default workspace resolves whatever is switched and deleted meanwhile.
THEOREM PointersResolve ==
    Spec => []ActiveResolves
<1>1. Inv => ActiveResolves
  BY DEF Inv, Resolved
<1> QED
  BY <1>1, Invariance, PTL

\* generateOtp, createUserWorkspace and deleteUserWorkspace: a limit is passed
\* only by requests side by side.
THEOREM LimitsKept ==
    Spec => []LimitsButSideBySide
<1>1. ASSUME Inv
      PROVE  LimitsButSideBySide
  <2>1. MaxActive \in Nat /\ MaxWorkspaces \in Nat
    BY ConstantsAssumption
  <2>2. Cardinality(Active) > MaxActive =>
           \E i, j \in Active : SideBySide(codes[i].of, codes[j].of)
    <3>1. CodesInTurn(Active) => Cardinality(Active) <= MaxActive
      BY <1>1 DEF Inv, CodeLimit
    <3>2. Cardinality(Active) \in Nat
      BY <1>1, ActiveFinite DEF Inv, Base
    <3> QED
      BY <2>1, <3>1, <3>2 DEF CodesInTurn
  <2>3. Cardinality(Existing) > MaxWorkspaces => \E c, d \in Existing : SideBySide(c, d)
    <3>1. SpacesInTurn(Existing) => Cardinality(Existing) <= MaxWorkspaces
      BY <1>1 DEF Inv, SpaceLimit
    <3>2. Cardinality(Existing) \in Nat
      BY <1>1, Finite DEF Inv, Spaces
    <3> QED
      BY <2>1, <3>1, <3>2 DEF SpacesInTurn
  <2>4. Deleted # {} /\ Existing = {} => \E c, d \in Deleted : SideBySide(c, d)
    BY <1>1 DEF Inv, LastLimit
  <2> QED
    BY <2>2, <2>3, <2>4 DEF LimitsButSideBySide, Deleted
<1> QED
  BY <1>1, Invariance, PTL
=============================================================================
