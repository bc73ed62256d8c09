---------------------------- MODULE RecordProofs ----------------------------
(***************************************************************************)
(* The files of RecordLog implement the store of RecordStore, deletions    *)
(* settle and the segments trail the log, for any number of calls.         *)
(*                                                                         *)
(* The argument rests on three facts about a replay (ReplayAppend,         *)
(* ReplayOnce, ViewReplays): an appended line decides its own record and   *)
(* no other, and a compacted log replays to what it was made from.         *)
(***************************************************************************)
EXTENDS RecordRefinement, FiniteSetTheorems, WellFoundedInduction, TLAPS

-----------------------------------------------------------------------------
(***************************************************************************)
(* The least and the greatest number of a set                              *)
(***************************************************************************)
Less == {ss \in Nat \X Nat : ss[1] < ss[2]}

LEMMA LeastExists ==
    ASSUME NEW S \in SUBSET Nat, S # {}
    PROVE  \E m \in S : \A k \in S : m <= k
<1>1. IsWellFoundedOn(Less, Nat)
  BY NatLessThanWellFounded DEF OpToRel, Less
<1>2. \A x, y \in Nat : <<x, y>> \in Less <=> x < y
  BY DEF Less
<1>3. PICK x \in S : \A y \in S : <<y, x>> \notin Less
  BY <1>1, WFMin
<1>4. \A y \in S : ~(y < x)
  BY <1>2, <1>3
<1>5. \A y \in S : x <= y
  BY <1>4
<1> QED
  BY <1>5

LEMMA EarliestIs ==
    ASSUME NEW S \in SUBSET Nat, S # {}
    PROVE  Earliest(S) \in S /\ \A k \in S : Earliest(S) <= k
  BY LeastExists DEF Earliest

LEMMA LatestIs ==
    ASSUME NEW n \in Nat, NEW S \in SUBSET (1..n), S # {}
    PROVE  Latest(S) \in S /\ \A k \in S : k <= Latest(S)
<1> DEFINE T == {n - k : k \in S}
<1>0. \A k \in S : n - k \in Nat
  OBVIOUS
<1>1. T \in SUBSET Nat /\ T # {}
  BY <1>0
<1>2. PICK m \in T : \A k \in T : m <= k
  BY <1>1, LeastExists
<1>3. PICK i \in S : m = n - i
  BY <1>2
<1>4. \A k \in S : k <= i
  <2> TAKE k \in S
  <2>1. n - i <= n - k
    BY <1>2, <1>3
  <2> QED
    BY <2>1
<1> QED
  BY <1>4 DEF Latest

-----------------------------------------------------------------------------
(***************************************************************************)
(* Replays                                                                 *)
(***************************************************************************)
LEMMA AboutIs ==
    ASSUME NEW l \in Seq(Lines), NEW id
    PROVE  About(l, id) \in SUBSET (1..Len(l)) /\ About(l, id) \in SUBSET Nat
  BY DEF About

\* The last line about a record decides.
LEMMA ReplayLast ==
    ASSUME NEW l \in Seq(Lines), NEW id, NEW i \in About(l, id),
           \A j \in About(l, id) : j <= i
    PROVE  Replay(l, id) = l[i].rec
<1> DEFINE S == About(l, id)
<1>0. Len(l) \in Nat /\ S \in SUBSET (1..Len(l)) /\ S # {}
  BY AboutIs
<1> HIDE DEF S
<1>1. Latest(S) \in S /\ \A k \in S : k <= Latest(S)
  BY <1>0, LatestIs
<1>2. Latest(S) = i
  BY <1>0, <1>1 DEF S
<1> QED
  BY <1>2 DEF Replay, S

LEMMA ReplaySome ==
    ASSUME NEW l \in Seq(Lines), NEW id, About(l, id) # {}
    PROVE  \E i \in About(l, id) : Replay(l, id) = l[i].rec /\ \A j \in About(l, id) : j <= i
<1> DEFINE S == About(l, id)
<1>0. Len(l) \in Nat /\ S \in SUBSET (1..Len(l)) /\ S # {}
  BY AboutIs
<1> HIDE DEF S
<1>1. Latest(S) \in S /\ \A k \in S : k <= Latest(S)
  BY <1>0, LatestIs
<1> QED
  BY <1>0, <1>1 DEF Replay, S

LEMMA ReplayType ==
    ASSUME NEW l \in Seq(Lines), NEW id PROVE Replay(l, id) \in Records \cup {None}
<1>1. CASE About(l, id) = {}
  BY <1>1 DEF Replay
<1>2. CASE About(l, id) # {}
  <2>1. PICK i \in About(l, id) : Replay(l, id) = l[i].rec
    BY <1>2, ReplaySome
  <2>2. l[i] \in Lines
    BY AboutIs
  <2> QED
    BY <2>1, <2>2 DEF Lines
<1> QED
  BY <1>1, <1>2

\* An appended line decides its own record and no other.
LEMMA ReplayAppend ==
    ASSUME NEW l \in Seq(Lines), NEW x \in Lines, NEW id
    PROVE  Replay(Append(l, x), id) = IF x.id = id THEN x.rec ELSE Replay(l, id)
<1> DEFINE m == Append(l, x)
<1>1. m \in Seq(Lines) /\ Len(m) = Len(l) + 1 /\ m[Len(l) + 1] = x
      /\ \A i \in 1..Len(l) : m[i] = l[i]
  OBVIOUS
<1> HIDE DEF m
<1>2. ASSUME x.id = id PROVE Replay(m, id) = x.rec
  <2>1. Len(l) + 1 \in About(m, id) /\ \A j \in About(m, id) : j <= Len(l) + 1
    BY <1>1, <1>2, AboutIs DEF About
  <2> QED
    BY <1>1, <1>2, ReplayLast, <2>1
<1>3. ASSUME x.id # id PROVE Replay(m, id) = Replay(l, id)
  <2>1. About(m, id) = About(l, id)
    BY <1>1, <1>3 DEF About
  <2>2. CASE About(l, id) = {}
    BY <2>1, <2>2 DEF Replay
  <2>3. CASE About(l, id) # {}
    <3>1. PICK i \in About(l, id) : Replay(l, id) = l[i].rec /\ \A j \in About(l, id) : j <= i
      BY <2>3, ReplaySome
    <3>2. Replay(m, id) = m[i].rec
      BY <1>1, <2>1, <3>1, ReplayLast
    <3>3. m[i] = l[i]
      BY <1>1, AboutIs
    <3> QED
      BY <3>1, <3>2, <3>3
  <2> QED
    BY <2>2, <2>3
<1> QED
  BY <1>2, <1>3 DEF m

\* A log with one line per record.
Single(v) ==
    /\ v \in Seq(Lines)
    /\ \A i \in DOMAIN v : v[i].rec # None
    /\ \A i, j \in DOMAIN v : v[i].id = v[j].id => i = j

LEMMA ReplayOnce ==
    ASSUME NEW v, Single(v), NEW i \in DOMAIN v
    PROVE  Replay(v, v[i].id) = v[i].rec
<1>1. About(v, v[i].id) = {i} /\ i \in Nat
  BY DEF Single, About
<1> QED
  BY <1>1, ReplayLast DEF Single

LEMMA ReplayNone ==
    ASSUME NEW v, NEW id, \A i \in DOMAIN v : v[i].id # id
    PROVE  Replay(v, id) = None
  BY DEF Replay, About

-----------------------------------------------------------------------------
(***************************************************************************)
(* The lines of a compaction                                               *)
(***************************************************************************)
LEMMA StartsThere ==
    ASSUME NEW l \in Seq(Lines), NEW id \in Found(l)
    PROVE  Starts(l, id) # {} /\ Starts(l, id) \in SUBSET Nat
<1>1. About(l, id) # {}
  BY DEF Found, Replay
<1>2. PICK i \in About(l, id) : Replay(l, id) = l[i].rec /\ \A j \in About(l, id) : j <= i
  BY <1>1, ReplaySome
<1>3. \A j \in About(l, id) : j >= i => j = i
  BY <1>2, AboutIs
<1>4. i \in Starts(l, id)
  BY <1>2, <1>3 DEF Starts, Found
<1> QED
  BY <1>4, AboutIs DEF Starts

LEMMA PlaceIs ==
    ASSUME NEW l \in Seq(Lines), NEW id \in Found(l)
    PROVE  Place(l, id) \in About(l, id)
  BY StartsThere, EarliestIs DEF Place, Starts

Below(l, id) == {j \in Found(l) : Place(l, j) <= Place(l, id)}

\* Records stand at different places, and their ranks are 1 to their number.
LEMMA RankIs ==
    ASSUME NEW l \in Seq(Lines)
    PROVE  /\ IsFiniteSet(Found(l)) /\ Cardinality(Found(l)) \in Nat
           /\ \A id \in Found(l) : Rank(l, id) \in 1..Cardinality(Found(l))
           /\ \A a, b \in Found(l) : Rank(l, a) = Rank(l, b) => a = b
<1>1. IsFiniteSet(Found(l))
  <2> DEFINE place == [id \in Found(l) |-> Place(l, id)]
  <2>1. \A id \in Found(l) : Place(l, id) \in 1..Len(l) /\ l[Place(l, id)].id = id
    BY PlaceIs, AboutIs DEF About
  <2>2. place \in Injection(Found(l), 1..Len(l))
    BY <2>1 DEF Injection, IsInjective
  <2>3. IsFiniteSet(1..Len(l))
    BY FS_Interval
  <2> QED
    BY <2>2, <2>3, FS_Injection
<1>2. Cardinality(Found(l)) \in Nat
  BY <1>1, FS_CardinalityType
<1>3. \A id \in Found(l) : Place(l, id) \in Nat /\ l[Place(l, id)].id = id
  BY PlaceIs, AboutIs DEF About
<1>4. \A id \in Found(l) : Rank(l, id) = Cardinality(Below(l, id))
  BY DEF Rank, Below
<1>5. \A id \in Found(l) : /\ Below(l, id) \subseteq Found(l) /\ id \in Below(l, id)
                           /\ IsFiniteSet(Below(l, id))
  BY <1>1, <1>3, FS_Subset DEF Below
<1>6. \A id \in Found(l) : Rank(l, id) \in 1..Cardinality(Found(l))
  <2> TAKE id \in Found(l)
  <2>1. Cardinality(Below(l, id)) \in Nat /\ Cardinality(Below(l, id)) <= Cardinality(Found(l))
    BY <1>1, <1>5, FS_Subset, FS_CardinalityType
  <2>2. Cardinality(Below(l, id)) # 0
    BY <1>5, FS_EmptySet
  <2> QED
    BY <1>2, <1>4, <2>1, <2>2
<1>7. ASSUME NEW a \in Found(l), NEW b \in Found(l), Rank(l, a) = Rank(l, b),
             Place(l, a) <= Place(l, b)
      PROVE  a = b
  <2>1. Below(l, a) \subseteq Below(l, b)
    BY <1>3, <1>7 DEF Below
  <2>2. Below(l, a) = Below(l, b)
    BY <1>4, <1>5, <1>7, <2>1, FS_Subset
  <2>3. Place(l, b) <= Place(l, a)
    BY <1>5, <2>2 DEF Below
  <2>4. Place(l, a) = Place(l, b)
    BY <1>3, <1>7, <2>3
  <2> QED
    BY <1>3, <2>4
<1>8. \A a, b \in Found(l) : Place(l, a) <= Place(l, b) \/ Place(l, b) <= Place(l, a)
  BY <1>3
<1> QED
  BY <1>1, <1>2, <1>6, <1>7, <1>8

\* Every rank is taken: an injection into a set of the same size is onto.
LEMMA RankOnto ==
    ASSUME NEW l \in Seq(Lines), NEW n \in 1..Cardinality(Found(l))
    PROVE  \E id \in Found(l) : Rank(l, id) = n
<1> DEFINE N == 1..Cardinality(Found(l))
           f == [id \in Found(l) |-> Rank(l, id)]
<1>1. f \in [Found(l) -> N] /\ \A a, b \in Found(l) : f[a] = f[b] => a = b
  BY RankIs
<1>2. f \in Injection(Found(l), N)
  BY <1>1 DEF Injection, IsInjective
<1>3. IsFiniteSet(N) /\ Cardinality(N) = Cardinality(Found(l))
  BY RankIs, FS_Interval
<1>4. f \in Surjection(Found(l), N)
  BY <1>2, <1>3, FS_Injection
<1> QED
  BY <1>4 DEF Surjection

LEMMA ViewIs ==
    ASSUME NEW l \in Seq(Lines)
    PROVE  /\ Single(View(l))
           /\ \A i \in DOMAIN View(l) : View(l)[i].rec = Replay(l, View(l)[i].id)
           /\ \A id \in Found(l) : \E i \in DOMAIN View(l) : View(l)[i].id = id
<1> DEFINE N == Cardinality(Found(l))
           At_(n) == CHOOSE i \in Found(l) : Rank(l, i) = n
           v == View(l)
<1>1. N \in Nat
  BY RankIs
<1>2. \A n \in 1..N : At_(n) \in Found(l) /\ Rank(l, At_(n)) = n
  BY RankOnto
<1>3. v = [n \in 1..N |-> [id |-> At_(n), rec |-> Replay(l, At_(n))]]
  BY DEF View
<1> HIDE DEF At_, v, N
<1>4. \A n \in 1..N : v[n] \in Lines /\ v[n].id = At_(n) /\ v[n].rec = Replay(l, At_(n))
  BY <1>2, <1>3, ReplayType DEF Lines, Found
<1>5. v \in Seq(Lines) /\ DOMAIN v = 1..N
  BY <1>1, <1>3, <1>4
<1>6. \A n \in 1..N : v[n].rec # None
  BY <1>2, <1>4 DEF Found
<1>7. \A i, j \in 1..N : v[i].id = v[j].id => i = j
  BY <1>2, <1>4
<1>8. \A id \in Found(l) : \E i \in 1..N : v[i].id = id
  <2> TAKE id \in Found(l)
  <2>1. Rank(l, id) \in 1..N
    BY RankIs DEF N
  <2> QED
    BY <1>2, <1>4, <2>1, RankIs
<1> QED
  BY <1>4, <1>5, <1>6, <1>7, <1>8 DEF Single, v

\* A compacted log replays to what it was made from.
LEMMA ViewReplays ==
    ASSUME NEW l \in Seq(Lines), NEW id \in Calls
    PROVE  Replay(View(l), id) = Replay(l, id)
<1>1. CASE id \in Found(l)
  <2>1. PICK i \in DOMAIN View(l) : View(l)[i].id = id
    BY <1>1, ViewIs
  <2> QED
    BY <2>1, ViewIs, ReplayOnce
<1>2. CASE id \notin Found(l)
  <2>1. \A i \in DOMAIN View(l) : View(l)[i].id # id
    BY <1>2, ViewIs DEF Found, Single
  <2> QED
    BY <1>2, <2>1, ReplayNone DEF Found
<1> QED
  BY <1>1, <1>2

-----------------------------------------------------------------------------
(***************************************************************************)
(* The inductive invariant                                                 *)
(***************************************************************************)
\* Every call that a record has fields of has written to the log.
Written(r) == r = None \/ \A d \in r.parts : Logged(d)

\* What a call holds where it stands.
Standing(c) ==
    LET o == call[c] IN
    /\ o.pc \in {"open", "load"} => (o.rec # None => o.rec.parts = {c})
    /\ o.pc = "open" => o.kind = "write" /\ o.id = c /\ o.rec # None
    /\ o.pc = "load" => \/ o.kind = "update" /\ o.rec # None
                        \/ o.kind = "delete" /\ o.rec = None
    /\ o.pc = "append" =>
         \/ o.kind = "write" /\ o.id = c /\ o.rec # None /\ o.rec.parts = {c}
         \/ o.kind = "update" /\ o.rec # None /\ \A d \in o.rec.parts \ {c} : Logged(d)
         \/ o.kind = "delete" /\ o.rec = None
    /\ o.pc \in {"active", "segment"} =>
         o.kind \in {"write", "update"} /\ o.rec # None /\ Written(o.rec)
    /\ o.pc \in {"file", "replace"} =>
         /\ o.kind = "compact" /\ Single(o.view)
         /\ \A i \in DOMAIN o.view : Written(o.view[i].rec)
    /\ (o.pc = "replace" \/ (o.pc = "read" /\ o.kind = "compact")) => c \in files
    /\ o.pc = "write" => o.copy.active \in files

RecordInv ==
    /\ TypeOK
    /\ \A c \in Calls : Standing(c)
    /\ \A i \in DOMAIN log : Written(log[i].rec)
    /\ SegmentsTrail

LEMMA InitRecords == Init => RecordInv
<1> SUFFICES ASSUME Init PROVE RecordInv
  OBVIOUS
<1>1. \A c \in Calls : call[c] = At("idle", c) /\ call[c].pc = "idle"
  BY DEF Init, At
<1>2. \A c \in Calls : At("idle", c) \in CallStates
  BY DEF At, CallStates, CallPcs, Segments, Manifests, Lines
<1>3. TypeOK
  BY <1>2 DEF Init, TypeOK, Lines, Manifests, Segments
<1>4. \A c \in Calls : Standing(c)
  BY <1>1 DEF Standing
<1>5. \A s \in Segments : segs[s] = {}
  BY DEF Init, Segments
<1>6. SegmentsTrail
  BY <1>5 DEF Init, SegmentsTrail
<1> QED
  BY <1>3, <1>4, <1>6 DEF RecordInv, Init

\* A step of one call, as the others see it.
Steps(c) ==
    /\ call'[c] \in CallStates
    /\ call' = [call EXCEPT ![c] = call'[c]]
    /\ Logged(c) => Logged(c)'
    /\ files \subseteq files'

LEMMA LoggedStays ==
    ASSUME TypeOK, NEW c \in Calls, Steps(c), NEW d \in Calls, Logged(d)
    PROVE  Logged(d)'
  BY DEF TypeOK, Steps, Logged

LEMMA WrittenStays ==
    ASSUME TypeOK, NEW c \in Calls, Steps(c), NEW r \in Records \cup {None}, Written(r)
    PROVE  Written(r)'
  BY LoggedStays DEF Written, Records

LEMMA ViewLines ==
    ASSUME NEW v \in Seq(Lines), NEW i \in DOMAIN v
    PROVE  v[i] \in Lines /\ v[i].id \in Calls /\ v[i].rec \in Records \cup {None}
<1>1. v[i] \in Lines
  OBVIOUS
<1> QED
  BY <1>1 DEF Lines

LEMMA OthersStand ==
    ASSUME TypeOK, NEW c \in Calls, Steps(c), NEW d \in Calls \ {c}, Standing(d)
    PROVE  Standing(d)'
<1> DEFINE o == call[d]
<1>1. call'[d] = o /\ o \in CallStates
  BY DEF TypeOK, Steps
<1>2. \A e \in Calls : Logged(e) => Logged(e)'
  BY LoggedStays
<1>3. \A r \in Records \cup {None} : Written(r) => Written(r)'
  BY WrittenStays
<1>4. o.rec \in Records \cup {None} /\ (o.rec # None => o.rec.parts \subseteq Calls)
  BY <1>1 DEF CallStates, Records
<1>5. \A i \in DOMAIN o.view : o.view[i].rec \in Records \cup {None}
  <2>1. o.view \in Seq(Lines)
    BY <1>1 DEF CallStates
  <2> QED
    BY <2>1, ViewLines
<1>6. files \subseteq files'
  BY DEF Steps
<1> HIDE DEF o
<1> QED
  BY <1>1, <1>2, <1>3, <1>4, <1>5, <1>6 DEF Standing, o

\* What is left to show of a step.
LEMMA StepKeeps ==
    ASSUME RecordInv, NEW c \in Calls, Steps(c), Standing(c)',
           log' \in Seq(Lines), (\A i \in DOMAIN log : Written(log[i].rec))',
           files' \subseteq Segments, segs' \in [Segments -> SUBSET Lines],
           \A s \in Segments : \A l \in segs'[s] :
               l \in segs[s] \/ (l.rec # None /\ Written(l.rec)'),
           manifest' \in Manifests, manifest'.active \in files'
    PROVE  RecordInv'
<1>1. TypeOK'
  BY DEF RecordInv, TypeOK, Steps
<1>2. \A d \in Calls : Standing(d)'
  BY OthersStand DEF RecordInv
<1>3. \A s \in Segments : \A l \in segs[s] : l.rec \in Records /\ Written(l.rec)
  BY DEF RecordInv, SegmentsTrail, TypeOK, Lines, Written
<1>4. \A s \in Segments : \A l \in segs[s] : l.rec # None /\ Written(l.rec)'
  BY <1>3, WrittenStays, NoneAssumption DEF RecordInv
<1>5. \A s \in Segments : \A l \in segs'[s] : l.rec # None /\ Written(l.rec)'
  BY <1>4
<1>6. \A s \in Segments : \A l \in segs'[s] : l.rec # None /\ \A d \in l.rec.parts : Logged(d)'
  BY <1>5 DEF Written
<1>7. SegmentsTrail'
  BY <1>6 DEF SegmentsTrail
<1> QED
  BY <1>1, <1>2, <1>7 DEF RecordInv

\* Steps that leave the log and the segments alone.
LEMMA QuietKeeps ==
    ASSUME RecordInv, NEW c \in Calls, Steps(c), Standing(c)',
           UNCHANGED <<log, files, segs>>,
           manifest' \in Manifests, manifest'.active \in files
    PROVE  RecordInv'
<1>1. log \in Seq(Lines) /\ files \subseteq Segments /\ segs \in [Segments -> SUBSET Lines]
  BY DEF RecordInv, TypeOK
<1>2. \A i \in DOMAIN log : log[i].rec \in Records \cup {None} /\ Written(log[i].rec)
  BY <1>1, ViewLines DEF RecordInv
<1>3. ASSUME NEW r \in Records \cup {None}, Written(r) PROVE Written(r)'
  BY <1>3, WrittenStays DEF RecordInv
<1>4. log' = log /\ files' = files /\ segs' = segs
  OBVIOUS
<1>5. (\A i \in DOMAIN log : Written(log[i].rec))'
  BY <1>2, <1>3, <1>4
<1>6. \A s \in Segments : \A l \in segs'[s] : l \in segs[s]
  BY <1>4
<1> QED
  BY <1>1, <1>4, <1>5, <1>6, StepKeeps, Zenon

LEMMA RequestKeeps ==
    ASSUME RecordInv, NEW c \in Calls, NEW kind, NEW id \in Calls,
           NEW rec \in Records \cup {None}, NEW pc, Request(c, kind, id, rec, pc),
           \/ pc = "open" /\ kind = "write" /\ id = c /\ rec # None /\ rec.parts = {c}
           \/ pc = "load" /\ kind = "update" /\ rec # None /\ rec.parts = {c}
           \/ pc = "load" /\ kind = "delete" /\ rec = None
    PROVE  RecordInv'
<1> DEFINE o == call'[c]
<1>1. call[c] \in CallStates /\ call[c].pc = "idle"
  BY DEF Request, RecordInv, TypeOK
<1>2. o = [call[c] EXCEPT !.pc = pc, !.kind = kind, !.id = id, !.rec = rec]
  BY DEF Request, RecordInv, TypeOK
<1>3. o \in CallStates /\ o.pc = pc /\ o.kind = kind /\ o.id = id /\ o.rec = rec
  BY <1>1, <1>2 DEF CallStates, CallPcs
<1>4. Steps(c)
  BY <1>1, <1>3 DEF Steps, Logged, Request, RecordInv, TypeOK
<1>5. Standing(c)'
  BY <1>3 DEF Standing
<1>6. manifest \in Manifests /\ manifest.active \in files
  BY DEF RecordInv, TypeOK, SegmentsTrail
<1> QED
  BY <1>4, <1>5, <1>6, QuietKeeps DEF Request

LEMMA InputIs ==
    ASSUME NEW c \in Calls, NEW t \in {"kv", "note"}, NEW k \in Keys \cup {None}
    PROVE  Input(c, t, k) \in Records /\ Input(c, t, k) # None /\ Input(c, t, k).parts = {c}
  BY NoneAssumption DEF Input, Records

LEMMA AnswerIs ==
    ASSUME TypeOK, NEW k \in Keys, Answer(k) # None
    PROVE  Answer(k) \in Holders(k) /\ \A j \in Holders(k) : Place(log, Answer(k)) <= Place(log, j)
<1> DEFINE S == {Place(log, id) : id \in Holders(k)}
<1>1. log \in Seq(Lines) /\ Holders(k) # {} /\ Holders(k) \subseteq Found(log)
  BY DEF Answer, Holders, Live, TypeOK
<1>2. \A id \in Holders(k) : Place(log, id) \in Nat
  BY <1>1, PlaceIs, AboutIs
<1>3. S \in SUBSET Nat /\ S # {}
  BY <1>1, <1>2
<1>4. PICK m \in S : \A n \in S : m <= n
  BY <1>3, LeastExists
<1>5. \E id \in Holders(k) : \A j \in Holders(k) : Place(log, id) <= Place(log, j)
  BY <1>4
<1> QED
  BY <1>1, <1>5 DEF Answer

LEMMA AnswerBecomes ==
    ASSUME TypeOK', NEW k \in Keys, Holders(k)' # {}
    PROVE  /\ Answer(k)' \in Holders(k)'
           /\ \A j \in Holders(k)' : Place(log', Answer(k)') <= Place(log', j)
<1> DEFINE S == {Place(log', id) : id \in Holders(k)'}
<1>1. log' \in Seq(Lines) /\ Holders(k)' \subseteq Found(log')
  BY DEF Holders, Live, TypeOK
<1>2. \A id \in Holders(k)' : Place(log', id) \in Nat
  BY <1>1, PlaceIs, AboutIs
<1>3. S \in SUBSET Nat /\ S # {}
  BY <1>1, <1>2
<1>4. PICK m \in S : \A n \in S : m <= n
  BY <1>3, LeastExists
<1>5. \E id \in Holders(k)' : \A j \in Holders(k)' : Place(log', id) <= Place(log', j)
  BY <1>4
<1> QED
  BY <1>1, <1>5 DEF Answer

LEMMA ArriveKeeps ==
    ASSUME RecordInv, NEW c \in Calls, Arrive(c) PROVE RecordInv'
<1>1. \A in \in Inputs : in[1] \in {"kv", "note"} /\ in[2] \in Keys \cup {None}
  BY InputsAssumption
<1>2. ASSUME NEW t \in {"kv", "note"}, NEW k \in Keys \cup {None}, WriteRecord(c, t, k)
      PROVE  RecordInv'
  BY <1>2, InputIs, RequestKeeps DEF WriteRecord
<1>3. ASSUME NEW id \in Calls, NEW t \in {"kv", "note"}, NEW k \in Keys \cup {None},
             UpdateRecord(c, id, t, k)
      PROVE  RecordInv'
  BY <1>3, InputIs, RequestKeeps DEF UpdateRecord
<1>4. ASSUME NEW id \in Calls, DeleteRecord(c, id) PROVE RecordInv'
  BY <1>4, RequestKeeps DEF DeleteRecord
<1>5. ASSUME NEW k \in Keys, PutKeyValue(c, k) PROVE RecordInv'
  <2>1. CASE Answer(k) = None
    BY <1>2, <1>5, <2>1 DEF PutKeyValue
  <2>2. CASE Answer(k) # None
    <3>1. Answer(k) \in Calls
      BY <2>2, AnswerIs DEF RecordInv, Holders, Live, Found
    <3> QED
      BY <1>3, <1>5, <2>2, <3>1 DEF PutKeyValue
  <2> QED
    BY <2>1, <2>2
<1>6. ASSUME Compact(c) PROVE RecordInv'
  <2> PICK v : v = View(log)
    OBVIOUS
  <2>1. log \in Seq(Lines) /\ call[c] \in CallStates /\ call[c].pc = "idle"
    BY <1>6 DEF Compact, RecordInv, TypeOK
  <2>2. Single(v) /\ \A i \in DOMAIN v : v[i].rec = Replay(log, v[i].id)
    BY <2>1, ViewIs
  <2>3. v \in Seq(Lines)
    BY <2>2 DEF Single
  <2>4. \A i \in DOMAIN v : Written(v[i].rec)
    <3> TAKE i \in DOMAIN v
    <3>1. v[i].rec = Replay(log, v[i].id) /\ v[i].rec # None
      BY <2>2 DEF Single
    <3>2. About(log, v[i].id) # {}
      BY <3>1 DEF Replay
    <3>3. PICK j \in About(log, v[i].id) : v[i].rec = log[j].rec
      BY <2>1, <3>1, <3>2, ReplaySome
    <3> QED
      BY <3>3 DEF RecordInv, About
  <2>5. call'[c] = [call[c] EXCEPT !.pc = "file", !.kind = "compact", !.view = v]
    BY <1>6 DEF Compact, RecordInv, TypeOK
  <2>6. /\ call'[c] \in CallStates /\ call'[c].pc = "file"
        /\ call'[c].kind = "compact" /\ call'[c].view = v
    BY <2>1, <2>3, <2>5 DEF CallStates, CallPcs
  <2>7. Steps(c)
    BY <1>6, <2>1, <2>6 DEF Steps, Logged, Compact, RecordInv, TypeOK
  <2>8. \A i \in DOMAIN v : Written(v[i].rec)'
    BY <2>3, <2>4, <2>7, ViewLines, WrittenStays DEF RecordInv
  <2>9. Standing(c)'
    BY <2>2, <2>6, <2>8 DEF Standing
  <2>10. manifest \in Manifests /\ manifest.active \in files
    BY DEF RecordInv, TypeOK, SegmentsTrail
  <2> QED
    BY <1>6, <2>7, <2>9, <2>10, QuietKeeps DEF Compact
<1> QED
  BY <1>1, <1>2, <1>3, <1>4, <1>5, <1>6 DEF Arrive

LEMMA LoadKeeps ==
    ASSUME RecordInv, NEW c \in Calls, LoadFound(c) PROVE RecordInv'
<1> DEFINE old == Stored(call[c].id)
<1> PICK o : o = call[c]
  OBVIOUS
<1> PICK r : r = IF o.kind = "delete" THEN None ELSE Merged(c, old)
  OBVIOUS
<1>1. o \in CallStates /\ o.pc = "load" /\ log \in Seq(Lines) /\ old # None
  BY DEF LoadFound, RecordInv, TypeOK
<1>2. \/ o.kind = "update" /\ o.rec # None /\ o.rec.parts = {c}
      \/ o.kind = "delete" /\ o.rec = None
  BY <1>1 DEF RecordInv, Standing
<1>3. About(log, o.id) # {}
  BY <1>1 DEF Stored, Replay
<1>4. PICK j \in About(log, o.id) : old = log[j].rec
  BY <1>1, <1>3, ReplaySome DEF Stored
<1>5. old \in Records /\ Written(old)
  BY <1>1, <1>4, ReplayType DEF RecordInv, About, Stored
<1>6. o.kind = "update" =>
        r \in Records /\ r # None /\ \A d \in r.parts \ {c} : d \in Calls /\ Logged(d)
  BY <1>1, <1>2, <1>5, NoneAssumption DEF Merged, Records, Written, CallStates
<1>7. r \in Records \cup {None}
  BY <1>2, <1>6
<1>8. call'[c] = [o EXCEPT !.pc = "append", !.rec = r]
  BY <1>1 DEF LoadFound, RecordInv, TypeOK
<1>9. /\ call'[c] \in CallStates /\ call'[c].pc = "append"
      /\ call'[c].kind = o.kind /\ call'[c].rec = r
  BY <1>1, <1>7, <1>8 DEF CallStates, CallPcs
<1>10. Steps(c)
  BY <1>1, <1>9 DEF Steps, Logged, LoadFound, RecordInv, TypeOK
<1>11. TypeOK /\ \A d \in Calls : Logged(d) => Logged(d)'
  BY <1>10, LoggedStays DEF RecordInv
<1>12. Standing(c)'
  BY <1>2, <1>6, <1>9, <1>11 DEF Standing
<1>13. manifest \in Manifests /\ manifest.active \in files
  BY DEF RecordInv, TypeOK, SegmentsTrail
<1> QED
  BY <1>10, <1>12, <1>13, QuietKeeps DEF LoadFound

\* A call that has ended, or holds a manifest only.
LEMMA EndKeeps ==
    ASSUME RecordInv, NEW c \in Calls, NEW pc \in {"missing", "done", "stopped"},
           call[c].pc \in {"open", "load", "append"} \/ pc # "missing",
           call' = [call EXCEPT ![c] = At(pc, c)], UNCHANGED <<log, files, segs>>,
           manifest' \in Manifests, manifest'.active \in files,
           pc = "missing" => ~Logged(c)
    PROVE  RecordInv'
<1>1. call'[c] = At(pc, c)
  BY DEF RecordInv, TypeOK
<1>2. At(pc, c) \in CallStates /\ At(pc, c).pc = pc /\ At(pc, c).kind = "write"
  BY DEF At, CallStates, CallPcs, Segments, Manifests
<1>3. Steps(c)
  BY <1>1, <1>2 DEF Steps, Logged
<1>4. Standing(c)'
  BY <1>1, <1>2 DEF Standing
<1> QED
  BY <1>3, <1>4, QuietKeeps

LEMMA FindKeeps ==
    ASSUME RecordInv, NEW c \in Calls, FindSegment(c) PROVE RecordInv'
<1> PICK o : o = call[c]
  OBVIOUS
<1>1. o \in CallStates /\ manifest \in Manifests /\ manifest.active \in files
  BY DEF RecordInv, TypeOK, SegmentsTrail
<1>2. call'[c] = [o EXCEPT !.seg = manifest.active,
                           !.pc = IF o.pc = "open" THEN "append" ELSE "segment"]
  BY DEF FindSegment, RecordInv, TypeOK
<1>3. /\ call'[c] \in CallStates /\ call'[c].rec = o.rec /\ call'[c].id = o.id
      /\ call'[c].kind = o.kind
      /\ call'[c].pc = IF o.pc = "open" THEN "append" ELSE "segment"
  BY <1>1, <1>2 DEF CallStates, CallPcs, Manifests
<1>4. o.pc \in {"open", "active"} /\ Standing(c)
  BY DEF FindSegment, RecordInv
<1>5. Steps(c)
  <2>1. call' = [call EXCEPT ![c] = call'[c]] /\ files' = files
    BY DEF FindSegment, RecordInv, TypeOK
  <2>2. Logged(c) => Logged(c)'
    BY <1>3, <1>4 DEF Logged
  <2> QED
    BY <1>3, <2>1, <2>2 DEF Steps
<1>6. o.rec \in Records \cup {None}
  BY <1>1 DEF CallStates
<1>7. o.pc = "active" => o.kind \in {"write", "update"} /\ o.rec # None /\ Written(o.rec)'
  BY <1>4, <1>5, <1>6, WrittenStays DEF Standing, RecordInv
<1>8. Standing(c)'
  BY <1>3, <1>4, <1>7 DEF Standing
<1> QED
  BY <1>1, <1>5, <1>8, QuietKeeps DEF FindSegment

LEMMA ReadKeeps ==
    ASSUME RecordInv, NEW c \in Calls, ReadManifest(c) PROVE RecordInv'
<1>1. call[c] \in CallStates /\ manifest \in Manifests /\ manifest.active \in files
  BY DEF RecordInv, TypeOK, SegmentsTrail
<1>2. call[c].pc = "read" /\ (call[c].kind = "compact" => c \in files)
  BY DEF ReadManifest, RecordInv, Standing
<1> PICK m : m = Counted(c)
  OBVIOUS
<1>3. Len(call[c].view) \in Nat /\ call[c].kind \in {"write", "update", "delete", "compact"}
  BY <1>1 DEF CallStates
<1>4. m \in Manifests /\ m.active \in files
  <2>1. CASE call[c].kind = "write"
    BY <1>1, <2>1 DEF Counted, Manifests
  <2>2. CASE call[c].kind = "update"
    BY <1>1, <2>2 DEF Counted
  <2>3. CASE call[c].kind = "delete"
    BY <1>1, <2>3 DEF Counted, Manifests
  <2>4. CASE call[c].kind = "compact"
    <3>1. m = [manifest EXCEPT !.active = c, !.records = Len(call[c].view)]
      BY <2>4 DEF Counted
    <3> QED
      BY <1>1, <1>2, <1>3, <2>4, <3>1 DEF Manifests, Segments
  <2> QED
    BY <1>3, <2>1, <2>2, <2>3, <2>4
<1>5. call'[c] = [At("write", c) EXCEPT !.copy = m]
  BY DEF ReadManifest, RecordInv, TypeOK
<1>51. At("write", c) \in CallStates /\ At("write", c).pc = "write"
  BY DEF At, CallStates, CallPcs, Segments, Manifests
<1>6. call'[c] \in CallStates /\ call'[c].pc = "write" /\ call'[c].copy = m
  BY <1>4, <1>5, <1>51 DEF CallStates
<1>7. Steps(c)
  BY <1>6 DEF Steps, Logged, ReadManifest, RecordInv, TypeOK
<1>8. Standing(c)'
  BY <1>4, <1>6 DEF Standing, ReadManifest
<1> QED
  BY <1>1, <1>7, <1>8, QuietKeeps DEF ReadManifest

\* The calls whose fields an appended record has: its own call, and others
\* that had written before.
LEMMA AppendKeeps ==
    ASSUME RecordInv, NEW c \in Calls, AppendOperation(c) PROVE RecordInv'
<1> PICK o : o = call[c]
  OBVIOUS
<1> PICK n : n = Line(c)
  OBVIOUS
<1>1. o \in CallStates /\ o.pc = "append" /\ Standing(c) /\ log \in Seq(Lines)
  BY DEF AppendOperation, RecordInv, TypeOK
<1>2. n \in Lines /\ n.rec = o.rec /\ n.rec \in Records \cup {None}
  BY <1>1 DEF Line, Lines, CallStates
<1>3. call'[c] = [o EXCEPT !.pc = CASE o.kind = "write"  -> "segment"
                                    [] o.kind = "update" -> "active"
                                    [] OTHER             -> "read"]
  BY DEF AppendOperation, RecordInv, TypeOK
<1>4. o.kind \in {"write", "update", "delete"} /\ (o.kind = "delete" <=> o.rec = None)
  BY <1>1 DEF Standing
<1>5. /\ call'[c] \in CallStates /\ call'[c].rec = o.rec /\ call'[c].kind = o.kind
      /\ call'[c].pc \in {"segment", "active", "read"}
      /\ call'[c].pc = "read" => o.kind = "delete"
      /\ o.kind = "delete" => call'[c].pc = "read"
  BY <1>1, <1>3, <1>4 DEF CallStates, CallPcs
<1>6. Steps(c) /\ Logged(c)'
  BY <1>1, <1>5 DEF Steps, Logged, AppendOperation, RecordInv, TypeOK
<1>7. n.rec # None => \A d \in n.rec.parts \ {c} : d \in Calls /\ Logged(d)
  BY <1>1, <1>2 DEF Standing, Records
<1>8. \A d \in Calls : Logged(d) => Logged(d)'
  BY <1>6, LoggedStays DEF RecordInv
<1>9. Written(n.rec)'
  BY <1>6, <1>7, <1>8 DEF Written
<1>10. Standing(c)'
  BY <1>2, <1>4, <1>5, <1>9 DEF Standing
<1>11. \A i \in DOMAIN log : log[i].rec \in Records \cup {None} /\ Written(log[i].rec)
  BY <1>1, ViewLines DEF RecordInv
<1>12. ASSUME NEW r \in Records \cup {None}, Written(r) PROVE Written(r)'
  BY <1>6, <1>12, WrittenStays DEF RecordInv
<1>13. log' = Append(log, n) /\ UNCHANGED <<files, segs, manifest>>
  BY DEF AppendOperation
<1>14. /\ log' \in Seq(Lines) /\ DOMAIN log' = 1..(Len(log) + 1)
       /\ log'[Len(log) + 1] = n /\ \A i \in 1..Len(log) : log'[i] = log[i]
  BY <1>1, <1>2, <1>13
<1>15. \A i \in 1..Len(log) : i \in DOMAIN log
  BY <1>1
<1>16. (\A i \in DOMAIN log : Written(log[i].rec))'
  BY <1>9, <1>11, <1>12, <1>14, <1>15
<1>17. files' = files /\ segs' = segs /\ manifest' = manifest
  BY <1>13
<1>18. /\ manifest \in Manifests /\ manifest.active \in files
       /\ files \subseteq Segments /\ segs \in [Segments -> SUBSET Lines]
  BY DEF RecordInv, TypeOK, SegmentsTrail
<1> QED
  BY <1>6, <1>10, <1>14, <1>16, <1>17, <1>18, StepKeeps, Zenon

LEMMA SegmentKeeps ==
    ASSUME RecordInv, NEW c \in Calls, AppendSegment(c) PROVE RecordInv'
<1> PICK o : o = call[c]
  OBVIOUS
<1> PICK n : n = Line(c)
  OBVIOUS
<1>1. o \in CallStates /\ o.pc = "segment" /\ Standing(c)
  BY DEF AppendSegment, RecordInv, TypeOK
<1>2. n \in Lines /\ n.rec # None /\ Written(n.rec) /\ n.rec \in Records \cup {None}
  BY <1>1 DEF Line, Lines, CallStates, Standing
<1>3. call'[c] = [o EXCEPT !.pc = "read"]
  BY DEF AppendSegment, RecordInv, TypeOK
<1>4. /\ call'[c] \in CallStates /\ call'[c].pc = "read" /\ call'[c].kind = o.kind
  BY <1>1, <1>3 DEF CallStates, CallPcs
<1>5. Steps(c)
  BY <1>4 DEF Steps, Logged, AppendSegment, RecordInv, TypeOK
<1>6. Written(n.rec)'
  BY <1>2, <1>5, WrittenStays DEF RecordInv
<1>7. Standing(c)'
  BY <1>1, <1>4 DEF Standing
<1>8. log' = log /\ manifest' = manifest /\ files' = files \cup {o.seg}
      /\ segs' = [segs EXCEPT ![o.seg] = @ \cup {n}]
  BY DEF AppendSegment
<1>9. /\ manifest \in Manifests /\ manifest.active \in files /\ log \in Seq(Lines)
      /\ files \subseteq Segments /\ segs \in [Segments -> SUBSET Lines] /\ o.seg \in Segments
  BY <1>1 DEF RecordInv, TypeOK, SegmentsTrail, CallStates
<1>10. files' \subseteq Segments /\ segs' \in [Segments -> SUBSET Lines]
  BY <1>2, <1>8, <1>9
<1>11. \A s \in Segments : \A l \in segs'[s] : l \in segs[s] \/ l = n
  BY <1>8, <1>9
<1>12. \A s \in Segments : \A l \in segs'[s] : l \in segs[s] \/ (l.rec # None /\ Written(l.rec)')
  BY <1>2, <1>6, <1>11, Zenon
<1>13. \A i \in DOMAIN log : log[i].rec \in Records \cup {None} /\ Written(log[i].rec)
  BY <1>9, ViewLines DEF RecordInv
<1>14. ASSUME NEW r \in Records \cup {None}, Written(r) PROVE Written(r)'
  BY <1>5, <1>14, WrittenStays DEF RecordInv
<1>15. (\A i \in DOMAIN log : Written(log[i].rec))'
  BY <1>8, <1>13, <1>14
<1>16. manifest'.active \in files' /\ manifest' \in Manifests /\ log' \in Seq(Lines)
  BY <1>8, <1>9
<1> QED
  BY <1>5, <1>7, <1>10, <1>12, <1>15, <1>16, StepKeeps, Zenon

LEMMA CompactKeeps ==
    ASSUME RecordInv, NEW c \in Calls, CompactSegment(c) PROVE RecordInv'
<1> PICK o : o = call[c]
  OBVIOUS
<1>1. o \in CallStates /\ o.pc = "file" /\ Standing(c)
  BY DEF CompactSegment, RecordInv, TypeOK
<1>2. /\ o.kind = "compact" /\ Single(o.view) /\ o.view \in Seq(Lines)
      /\ \A i \in DOMAIN o.view : Written(o.view[i].rec)
  BY <1>1 DEF Standing, Single
<1>3. call'[c] = [o EXCEPT !.pc = "replace"]
  BY DEF CompactSegment, RecordInv, TypeOK
<1>4. /\ call'[c] \in CallStates /\ call'[c].pc = "replace" /\ call'[c].kind = o.kind
      /\ call'[c].view = o.view
  BY <1>1, <1>3 DEF CallStates, CallPcs
<1>5. Steps(c)
  BY <1>4 DEF Steps, Logged, CompactSegment, RecordInv, TypeOK
<1>6. ASSUME NEW r \in Records \cup {None}, Written(r) PROVE Written(r)'
  BY <1>5, <1>6, WrittenStays DEF RecordInv
<1>7. \A i \in DOMAIN o.view : o.view[i] \in Lines /\ o.view[i].rec # None
                               /\ o.view[i].rec \in Records \cup {None}
  BY <1>2, ViewLines DEF Single
<1>8. \A i \in DOMAIN o.view : Written(o.view[i].rec)'
  BY <1>2, <1>6, <1>7
<1>9. log' = log /\ manifest' = manifest /\ files' = files \cup {c}
      /\ segs' = [segs EXCEPT ![c] = {o.view[i] : i \in DOMAIN o.view}]
  BY DEF CompactSegment
<1>10. Standing(c)'
  BY <1>2, <1>4, <1>8, <1>9 DEF Standing
<1>11. /\ manifest \in Manifests /\ manifest.active \in files /\ log \in Seq(Lines)
       /\ files \subseteq Segments /\ segs \in [Segments -> SUBSET Lines] /\ c \in Segments
  BY DEF RecordInv, TypeOK, SegmentsTrail, Segments
<1>12. \A l \in {o.view[i] : i \in DOMAIN o.view} : l \in Lines /\ l.rec # None /\ Written(l.rec)'
  BY <1>7, <1>8
<1>13. files' \subseteq Segments /\ segs' \in [Segments -> SUBSET Lines]
  BY <1>9, <1>11, <1>12
<1>14. \A s \in Segments : \A l \in segs'[s] : l \in segs[s] \/ (l.rec # None /\ Written(l.rec)')
  BY <1>9, <1>11, <1>12
<1>15. \A i \in DOMAIN log : log[i].rec \in Records \cup {None} /\ Written(log[i].rec)
  BY <1>11, ViewLines DEF RecordInv
<1>16. (\A i \in DOMAIN log : Written(log[i].rec))'
  BY <1>6, <1>9, <1>15
<1>17. manifest'.active \in files' /\ manifest' \in Manifests /\ log' \in Seq(Lines)
  BY <1>9, <1>11
<1> QED
  BY <1>5, <1>10, <1>13, <1>14, <1>16, <1>17, StepKeeps, Zenon

LEMMA ReplaceKeeps ==
    ASSUME RecordInv, NEW c \in Calls, ReplaceLog(c) PROVE RecordInv'
<1> PICK o : o = call[c]
  OBVIOUS
<1>1. o \in CallStates /\ o.pc = "replace" /\ Standing(c)
  BY DEF ReplaceLog, RecordInv, TypeOK
<1>2. /\ Single(o.view) /\ o.view \in Seq(Lines) /\ c \in files
      /\ \A i \in DOMAIN o.view : Written(o.view[i].rec)
  BY <1>1 DEF Standing, Single
<1>3. call'[c] = [o EXCEPT !.pc = "read"]
  BY DEF ReplaceLog, RecordInv, TypeOK
<1>4. call'[c] \in CallStates /\ call'[c].pc = "read"
  BY <1>1, <1>3 DEF CallStates, CallPcs
<1>5. Steps(c)
  BY <1>4 DEF Steps, Logged, ReplaceLog, RecordInv, TypeOK
<1>6. log' = o.view /\ manifest' = manifest /\ files' = files /\ segs' = segs
  BY DEF ReplaceLog
<1>7. Standing(c)'
  BY <1>2, <1>4, <1>6 DEF Standing
<1>8. /\ manifest \in Manifests /\ manifest.active \in files
      /\ files \subseteq Segments /\ segs \in [Segments -> SUBSET Lines]
  BY DEF RecordInv, TypeOK, SegmentsTrail
<1>9. \A i \in DOMAIN o.view : o.view[i].rec \in Records \cup {None}
  BY <1>2, ViewLines
<1>10. \A i \in DOMAIN o.view : Written(o.view[i].rec)'
  BY <1>2, <1>5, <1>9, WrittenStays DEF RecordInv
<1>11. (\A i \in DOMAIN log : Written(log[i].rec))'
  BY <1>6, <1>10
<1>12. \A s \in Segments : \A l \in segs'[s] : l \in segs[s]
  BY <1>6
<1> QED
  BY <1>2, <1>5, <1>6, <1>7, <1>8, <1>11, <1>12, StepKeeps, Zenon

LEMMA NextRecords == RecordInv /\ [Next]_vars => RecordInv'
<1> SUFFICES ASSUME RecordInv, [Next]_vars PROVE RecordInv'
  OBVIOUS
<1>1. ASSUME NEW c \in Calls, LoadMissing(c) PROVE RecordInv'
  <2>1. call[c].pc = "load" /\ ~Logged(c)
    BY <1>1 DEF LoadMissing, Logged
  <2>2. manifest \in Manifests /\ manifest.active \in files
    BY DEF RecordInv, TypeOK, SegmentsTrail
  <2> QED
    BY <1>1, <2>1, <2>2, EndKeeps DEF LoadMissing
<1>2. ASSUME NEW c \in Calls, WriteManifest(c) PROVE RecordInv'
  <2>1. call[c].copy \in Manifests /\ call[c].copy.active \in files
    BY <1>2 DEF WriteManifest, RecordInv, TypeOK, CallStates, Standing
  <2> QED
    BY <1>2, <2>1, EndKeeps DEF WriteManifest
<1>3. ASSUME NEW c \in Calls, Stop(c) PROVE RecordInv'
  <2>1. manifest \in Manifests /\ manifest.active \in files
    BY DEF RecordInv, TypeOK, SegmentsTrail
  <2> QED
    BY <1>3, <2>1, EndKeeps DEF Stop
<1>4. ASSUME UNCHANGED vars PROVE RecordInv'
  <2>1. log' = log /\ files' = files /\ segs' = segs /\ manifest' = manifest /\ call' = call
    BY <1>4 DEF vars
  <2>2. TypeOK'
    BY <2>1 DEF RecordInv, TypeOK
  <2>3. \A d : Logged(d)' <=> Logged(d)
    BY <2>1 DEF Logged
  <2>4. \A r : Written(r)' <=> Written(r)
    BY <2>3 DEF Written
  <2>5. \A c \in Calls : Standing(c)'
    BY <2>1, <2>3, <2>4 DEF RecordInv, Standing
  <2>6. SegmentsTrail'
    BY <2>1, <2>3 DEF RecordInv, SegmentsTrail
  <2>7. (\A i \in DOMAIN log : Written(log[i].rec))'
    BY <2>1, <2>4 DEF RecordInv
  <2> QED
    BY <2>2, <2>5, <2>6, <2>7 DEF RecordInv
<1> QED
  BY <1>1, <1>2, <1>3, <1>4, ArriveKeeps, LoadKeeps, FindKeeps, AppendKeeps, SegmentKeeps,
     CompactKeeps, ReplaceKeeps, ReadKeeps DEF Next

\* Whatever step a call stops at, everything in a segment has been in the log,
\* and the manifest names a segment that is there; and all variables keep
\* their types.
THEOREM Trail == Spec => [](TypeOK /\ SegmentsTrail)
<1>1. RecordInv => TypeOK /\ SegmentsTrail
  BY DEF RecordInv
<1> QED
  BY <1>1, InitRecords, NextRecords, PTL DEF Spec

-----------------------------------------------------------------------------
(***************************************************************************)
(* Deletions                                                               *)
(***************************************************************************)
\* A step of call c leaves the other calls where they are.
Alone(c) == \A d \in Calls \ {c} : call'[d] = call[d]

\* No step of a call makes another call bring a record.
LEMMA GoneStays ==
    ASSUME TypeOK, NEW c \in Calls, Alone(c), NEW id \in Calls, Gone(id),
           ~Brings(c, id)', Stored(id)' = None
    PROVE  Gone(id)'
<1>1. ASSUME NEW d \in Calls \ {c} PROVE ~Brings(d, id)'
  <2>1. call'[d] = call[d] /\ ~Brings(d, id)
    BY DEF Alone, Gone
  <2> QED
    BY <2>1 DEF Brings
<1>2. \A d \in Calls : ~Brings(d, id)'
  BY <1>1
<1> QED
  BY <1>2 DEF Gone

\* A call that takes its step without a record in its memory brings none.
LEMMA IdleHands ==
    ASSUME NEW c \in Calls, NEW id \in Calls,
           call'[c].pc \notin {"idle", "open", "append", "file", "replace"}
    PROVE  ~Brings(c, id)'
  BY DEF Brings

LEMMA NextAlone ==
    ASSUME TypeOK, Next
    PROVE  \E c \in Calls :
             /\ Alone(c)
             /\ \/ Arrive(c) \/ LoadFound(c) \/ FindSegment(c) \/ AppendOperation(c)
                \/ CompactSegment(c) \/ ReplaceLog(c)
                \/ /\ log' = log
                   /\ \/ LoadMissing(c) \/ AppendSegment(c) \/ ReadManifest(c)
                      \/ WriteManifest(c) \/ Stop(c)
<1>1. PICK c \in Calls :
        \/ Arrive(c) \/ LoadMissing(c) \/ LoadFound(c) \/ FindSegment(c)
        \/ AppendOperation(c) \/ AppendSegment(c) \/ CompactSegment(c) \/ ReplaceLog(c)
        \/ ReadManifest(c) \/ WriteManifest(c) \/ Stop(c)
  BY DEF Next
<1>2. call \in [Calls -> CallStates]
  BY DEF TypeOK
<1>3. ASSUME NEW kind, NEW id, NEW rec, NEW pc, Request(c, kind, id, rec, pc) PROVE Alone(c)
  BY <1>2, <1>3 DEF Request, Alone
<1>4. Arrive(c) => Alone(c)
  BY <1>2, <1>3 DEF Arrive, WriteRecord, UpdateRecord, DeleteRecord, PutKeyValue, Compact, Alone
<1>5. ~Arrive(c) => Alone(c)
  BY <1>1, <1>2
  DEF LoadMissing, LoadFound, FindSegment, AppendOperation, AppendSegment, CompactSegment,
      ReplaceLog, ReadManifest, WriteManifest, Stop, Alone
<1>6. LoadMissing(c) \/ AppendSegment(c) \/ ReadManifest(c) \/ WriteManifest(c) \/ Stop(c)
      => log' = log
  BY DEF LoadMissing, AppendSegment, ReadManifest, WriteManifest, Stop
<1> QED
  BY <1>1, <1>4, <1>5, <1>6

LEMMA StepSettles ==
    ASSUME RecordInv, [Next]_vars, NEW id \in Calls, Gone(id) PROVE Gone(id)'
<1> USE DEF RecordInv
<1>0. /\ log \in Seq(Lines) /\ call \in [Calls -> CallStates] /\ TypeOK
      /\ Stored(id) = None /\ \A c \in Calls : ~Brings(c, id)
  BY DEF TypeOK, Gone
<1>1. ASSUME UNCHANGED vars PROVE Gone(id)'
  <2>1. log' = log /\ call' = call
    BY <1>1 DEF vars
  <2>2. Stored(id)' = Stored(id) /\ \A c \in Calls : Brings(c, id)' <=> Brings(c, id)
    BY <2>1 DEF Stored, Brings
  <2> QED
    BY <1>0, <2>2 DEF Gone
<1>2. ASSUME NEW c \in Calls, log' = log, ~Brings(c, id)', Alone(c) PROVE Gone(id)'
  <2>1. Stored(id)' = None
    BY <1>0, <1>2 DEF Stored
  <2> QED
    BY <1>0, <1>2, <2>1, GoneStays
<1>3. ASSUME NEW c \in Calls, NEW kind, NEW x, NEW rec, NEW pc \in {"open", "load"},
             Request(c, kind, x, rec, pc), pc = "open" => x = c, Alone(c)
      PROVE  Gone(id)'
  <2>1. call'[c].pc = pc /\ call[c].pc = "idle" /\ log' = log
    BY <1>0, <1>3 DEF Request, CallStates
  <2>2. c # id
    BY <1>0, <2>1 DEF Brings
  <2>3. ~Brings(c, id)'
    BY <2>1, <2>2 DEF Brings
  <2> QED
    BY <1>2, <1>3, <2>1, <2>3
<1>4. ASSUME NEW c \in Calls, Arrive(c), Alone(c) PROVE Gone(id)'
  <2>1. ASSUME NEW x \in Calls, NEW t, NEW k, UpdateRecord(c, x, t, k) PROVE Gone(id)'
    BY <1>3, <1>4, <2>1 DEF UpdateRecord
  <2>2. ASSUME NEW t, NEW k, WriteRecord(c, t, k) PROVE Gone(id)'
    BY <1>3, <1>4, <2>2 DEF WriteRecord
  <2>3. ASSUME NEW x \in Calls, DeleteRecord(c, x) PROVE Gone(id)'
    BY <1>3, <1>4, <2>3 DEF DeleteRecord
  <2>4. ASSUME NEW k \in Keys, PutKeyValue(c, k) PROVE Gone(id)'
    <3>1. Answer(k) # None => Answer(k) \in Calls
      BY AnswerIs DEF Holders, Live, Found
    <3> QED
      BY <2>1, <2>2, <2>4, <3>1 DEF PutKeyValue
  <2>5. ASSUME Compact(c) PROVE Gone(id)'
    <3> PICK v : v = View(log)
      OBVIOUS
    <3>1. call'[c] = [call[c] EXCEPT !.pc = "file", !.kind = "compact", !.view = v]
          /\ log' = log
      BY <1>0, <2>5 DEF Compact
    <3>2. call'[c].pc = "file" /\ call'[c].view = v
      BY <1>0, <3>1 DEF CallStates
    <3>3. \A i \in DOMAIN v : v[i].rec # None /\ v[i].rec = Stored(v[i].id)
      BY <1>0, ViewIs DEF Single, Stored
    <3>4. \A i \in DOMAIN v : v[i].id # id
      BY <1>0, <3>3
    <3>5. ~Brings(c, id)'
      BY <3>2, <3>4 DEF Brings
    <3> QED
      BY <1>2, <1>4, <3>1, <3>5
  <2> QED
    BY <1>4, <2>1, <2>2, <2>3, <2>4, <2>5 DEF Arrive
<1>5. ASSUME NEW c \in Calls, FindSegment(c), Alone(c) PROVE Gone(id)'
  <2>1. /\ log' = log /\ call[c].pc \in {"open", "active"} /\ call'[c].id = call[c].id
        /\ call'[c].pc = IF call[c].pc = "open" THEN "append" ELSE "segment"
    BY <1>0, <1>5 DEF FindSegment, CallStates
  <2>2. call[c].pc = "open" => call[c].id = c
    BY DEF Standing
  <2>3. ~Brings(c, id)'
    BY <1>0, <2>1, <2>2 DEF Brings
  <2> QED
    BY <1>2, <1>5, <2>1, <2>3
<1>6. ASSUME NEW c \in Calls, LoadFound(c), Alone(c) PROVE Gone(id)'
  <2>1. log' = log /\ call'[c].id = call[c].id /\ call'[c].pc = "append"
    BY <1>0, <1>6 DEF LoadFound, CallStates
  <2>2. call[c].id # id
    BY <1>0, <1>6 DEF LoadFound
  <2>3. ~Brings(c, id)'
    BY <2>1, <2>2 DEF Brings
  <2> QED
    BY <1>2, <1>6, <2>1, <2>3
<1>7. ASSUME NEW c \in Calls, AppendOperation(c), Alone(c) PROVE Gone(id)'
  <2>1. /\ call[c] \in CallStates /\ call[c].pc = "append" /\ log' = Append(log, Line(c))
        /\ call'[c].pc \in {"segment", "active", "read"}
    BY <1>0, <1>7 DEF AppendOperation, CallStates
  <2>2. Line(c) \in Lines
    BY <2>1 DEF Line, Lines, CallStates
  <2>3. Stored(id)' = IF call[c].id = id THEN call[c].rec ELSE Stored(id)
    BY <1>0, <2>1, <2>2, ReplayAppend DEF Stored, Line
  <2>4. Stored(id)' = None
    BY <1>0, <2>1, <2>3 DEF Brings
  <2> QED
    BY <1>0, <1>7, <2>1, <2>4, IdleHands, GoneStays
<1>8. ASSUME NEW c \in Calls, ReplaceLog(c), Alone(c) PROVE Gone(id)'
  <2>1. /\ call[c] \in CallStates /\ call[c].pc = "replace" /\ log' = call[c].view
        /\ call'[c].pc = "read"
    BY <1>0, <1>8 DEF ReplaceLog, CallStates
  <2>2. \A i \in DOMAIN call[c].view : call[c].view[i].id # id
    BY <1>0, <2>1 DEF Brings
  <2>3. Stored(id)' = None
    BY <2>1, <2>2, ReplayNone DEF Stored
  <2> QED
    BY <1>0, <1>8, <2>1, <2>3, IdleHands, GoneStays
<1>9. ASSUME NEW c \in Calls, CompactSegment(c), Alone(c) PROVE Gone(id)'
  <2>1. /\ log' = log /\ call[c].pc = "file" /\ call'[c].pc = "replace"
        /\ call'[c].view = call[c].view
    BY <1>0, <1>9 DEF CompactSegment, CallStates
  <2>2. ~Brings(c, id)'
    BY <1>0, <2>1 DEF Brings
  <2> QED
    BY <1>2, <1>9, <2>1, <2>2
<1>10. ASSUME NEW c \in Calls, Alone(c), log' = log,
              LoadMissing(c) \/ AppendSegment(c) \/ ReadManifest(c) \/ WriteManifest(c) \/ Stop(c)
       PROVE  Gone(id)'
  <2>1. call[c] \in CallStates
    BY <1>0
  <2>2. call'[c].pc \in {"missing", "read", "write", "done", "stopped"}
    BY <1>0, <1>10, <2>1
    DEF LoadMissing, AppendSegment, ReadManifest, WriteManifest, Stop, At, CallStates
  <2> QED
    BY <1>2, <1>10, <2>2, IdleHands
<1> QED
  BY <1>1, <1>4, <1>5, <1>6, <1>7, <1>8, <1>9, <1>10, NextAlone DEF Next

\* A deleted record that no call holds is gone for good.
THEOREM Settles == Spec => DeletionSettles
<1>1. RecordInv /\ [Next]_vars => [\A id \in Calls : Gone(id) => Gone(id)']_vars
  BY StepSettles
<1> QED
  BY <1>1, InitRecords, NextRecords, PTL DEF Spec, DeletionSettles

-----------------------------------------------------------------------------
(***************************************************************************)
(* The files implement the store                                           *)
(***************************************************************************)
store == [id \in Calls |-> Stored(id)]
plan  == [c \in Calls |-> Plan(c)]

LEMMA StoreInit == Init => Store!Init
<1> SUFFICES ASSUME Init PROVE Store!Init
  OBVIOUS
<1>1. \A id \in Calls : Stored(id) = None
  BY DEF Init, Stored, Replay, About
<1>2. \A c \in Calls : call[c].pc = "idle"
  BY DEF Init, At
<1>3. \A c \in Calls : Plan(c) = Store!Undecided
  BY <1>2 DEF Plan, Store!Undecided
<1> QED
  BY <1>1, <1>3 DEF Store!Init

\* What a compaction will put into the log, once it is there.
LEMMA ViewedIs ==
    ASSUME NEW c \in Calls, Single(call[c].view)
    PROVE  Viewed(c) = [id \in Calls |-> Replay(call[c].view, id)]
<1> PICK v : v = call[c].view
  OBVIOUS
<1> SUFFICES ASSUME NEW id \in Calls
             PROVE  Viewed(c)[id] = Replay(v, id)
  BY DEF Viewed
<1> PICK lines : lines = {i \in DOMAIN v : v[i].id = id}
  OBVIOUS
<1>1. Viewed(c)[id] = IF lines = {} THEN None ELSE v[CHOOSE i \in lines : TRUE].rec
  BY DEF Viewed
<1>2. CASE lines = {}
  BY <1>1, <1>2, ReplayNone
<1>3. CASE lines # {}
  <2> PICK i : i = CHOOSE j \in lines : TRUE
    OBVIOUS
  <2>1. i \in lines
    BY <1>3
  <2> QED
    BY <1>1, <1>3, <2>1, ReplayOnce
<1> QED
  BY <1>2, <1>3

LEMMA ViewedBecomes ==
    ASSUME NEW c \in Calls, NEW v, Single(v), call'[c].view = v
    PROVE  Viewed(c)' = [id \in Calls |-> Replay(v, id)]
<1> SUFFICES ASSUME NEW id \in Calls
             PROVE  Viewed(c)'[id] = Replay(v, id)
  BY DEF Viewed
<1> PICK lines : lines = {i \in DOMAIN v : v[i].id = id}
  OBVIOUS
<1>1. Viewed(c)'[id] = IF lines = {} THEN None ELSE v[CHOOSE i \in lines : TRUE].rec
  BY DEF Viewed
<1>2. CASE lines = {}
  BY <1>1, <1>2, ReplayNone
<1>3. CASE lines # {}
  <2> PICK i : i = CHOOSE j \in lines : TRUE
    OBVIOUS
  <2>1. i \in lines
    BY <1>3
  <2> QED
    BY <1>1, <1>3, <2>1, ReplayOnce
<1> QED
  BY <1>2, <1>3

\* What another call has decided on does not change.
LEMMA PlanStays ==
    ASSUME NEW d \in Calls, call'[d] = call[d]
    PROVE  Plan(d)' = Plan(d)
  BY DEF Plan, Viewed

LEMMA PlanChanges ==
    ASSUME NEW c \in Calls, Alone(c)
    PROVE  plan' = [plan EXCEPT ![c] = Plan(c)']
  BY PlanStays DEF Alone, plan

\* A step that leaves the log and what its call has decided on is no step.
LEMMA Stutters ==
    ASSUME NEW c \in Calls, Alone(c), log' = log, Plan(c)' = Plan(c)
    PROVE  UNCHANGED Store!vars
<1>1. \A id \in Calls : Stored(id)' = Stored(id)
  BY DEF Stored
<1>2. \A d \in Calls : Plan(d)' = Plan(d)
  BY PlanStays DEF Alone
<1> QED
  BY <1>1, <1>2 DEF Store!vars

LEMMA Decides ==
    ASSUME NEW c \in Calls, Alone(c), log' = log, Plan(c) = Store!Undecided,
           NEW d \in Store!Decisions(c), Plan(c)' = Store!Decided(d)
    PROVE  Store!Next
<1>1. store' = store
  BY DEF Stored, store
<1>2. plan' = [plan EXCEPT ![c] = Store!Decided(d)]
  BY PlanChanges
<1>3. plan[c] = Store!Undecided
  BY DEF plan
<1> QED
  BY <1>1, <1>2, <1>3 DEF Store!Next, Store!Decide, store, plan

LEMMA Applies ==
    ASSUME NEW c \in Calls, Alone(c), NEW d, Plan(c) = Store!Decided(d),
           Plan(c)' = Store!Ended,
           \A id \in Calls : Stored(id)' = IF id \in DOMAIN d THEN d[id] ELSE Stored(id)
    PROVE  Store!Next
<1>1. plan[c] = Store!Decided(d) /\ plan[c].phase = "decided" /\ plan[c].change = d
  BY DEF plan, Store!Decided
<1>2. plan' = [plan EXCEPT ![c] = Store!Ended]
  BY PlanChanges
<1>3. store' = [id \in Calls |-> IF id \in DOMAIN plan[c].change THEN plan[c].change[id]
                                 ELSE store[id]]
  BY <1>1 DEF store
<1> QED
  BY <1>1, <1>2, <1>3 DEF Store!Next, Store!Apply, store, plan

LEMMA GivesUp ==
    ASSUME NEW c \in Calls, Alone(c), log' = log, Plan(c)' = Store!Ended
    PROVE  Store!Next
<1>1. store' = store
  BY DEF Stored, store
<1>2. plan' = [plan EXCEPT ![c] = Store!Ended]
  BY PlanChanges
<1> QED
  BY <1>1, <1>2 DEF Store!Next, Store!GiveUp, store, plan

LEMMA PlanIs ==
    ASSUME NEW c
    PROVE  /\ call[c].pc \in {"idle", "load", "open"} => Plan(c) = Store!Undecided
           /\ call[c].pc = "append" =>
                Plan(c) = Store!Decided(Store!Only(call[c].id, call[c].rec))
           /\ call[c].pc \in {"file", "replace"} => Plan(c) = Store!Decided(Viewed(c))
           /\ call[c].pc \in {"active", "segment", "read", "write", "done", "missing", "stopped"}
                => Plan(c) = Store!Ended
  BY DEF Plan, Store!Undecided, Store!Decided, Store!Only, Store!Ended


LEMMA PlanBecomes ==
    ASSUME NEW c
    PROVE  /\ call'[c].pc \in {"idle", "load", "open"} => Plan(c)' = Store!Undecided
           /\ call'[c].pc = "append" =>
                Plan(c)' = Store!Decided(Store!Only(call'[c].id, call'[c].rec))
           /\ call'[c].pc \in {"file", "replace"} => Plan(c)' = Store!Decided(Viewed(c)')
           /\ call'[c].pc \in {"active", "segment", "read", "write", "done", "missing", "stopped"}
                => Plan(c)' = Store!Ended
  BY DEF Plan, Store!Undecided, Store!Decided, Store!Only, Store!Ended

\* The changes that the requests decide on are changes of the store.
LEMMA OwnDecision ==
    ASSUME NEW c \in Calls, NEW r \in Records, r.parts = {c}
    PROVE  Store!Only(c, r) \in Store!Decisions(c)
<1>1. r \in Store!Brought(c, {})
  BY DEF Store!Brought, Records
<1> QED
  BY <1>1 DEF Store!Decisions

LEMMA UpdateDecision ==
    ASSUME NEW c \in Calls, NEW id \in Calls, Stored(id) # None,
           NEW r \in Records, r.parts = Stored(id).parts \cup {c}
    PROVE  Store!Only(id, r) \in Store!Decisions(c)
<1>1. r \in Store!Brought(c, Stored(id).parts)
  BY DEF Store!Brought, Records
<1> QED
  BY <1>1 DEF Store!Decisions

LEMMA DeleteDecision ==
    ASSUME NEW c \in Calls, NEW id \in Calls, Stored(id) # None
    PROVE  Store!Only(id, None) \in Store!Decisions(c)
  BY DEF Store!Decisions

LEMMA CompactDecision ==
    ASSUME NEW c \in Calls
    PROVE  store \in Store!Decisions(c)
  BY DEF Store!Decisions, store

LEMMA StepImplements ==
    ASSUME RecordInv, [Next]_vars
    PROVE  Store!Next \/ UNCHANGED Store!vars
<1> USE DEF RecordInv
<1>0. log \in Seq(Lines) /\ call \in [Calls -> CallStates] /\ TypeOK
  BY DEF TypeOK
<1>1. ASSUME UNCHANGED vars PROVE UNCHANGED Store!vars
  <2>1. log' = log /\ call' = call
    BY <1>1 DEF vars
  <2>2. \A id \in Calls : Stored(id)' = Stored(id)
    BY <2>1 DEF Stored
  <2>3. \A c \in Calls : Plan(c)' = Plan(c)
    BY <2>1, PlanStays
  <2> QED
    BY <2>2, <2>3 DEF Store!vars
<1>2. ASSUME NEW c \in Calls, NEW kind, NEW x, NEW rec, NEW pc \in {"open", "load"},
             Request(c, kind, x, rec, pc), Alone(c)
      PROVE  UNCHANGED Store!vars
  <2>1. call'[c].pc = pc /\ call[c].pc = "idle" /\ log' = log
    BY <1>0, <1>2 DEF Request, CallStates
  <2> QED
    BY <1>2, <2>1, PlanIs, PlanBecomes, Stutters
<1>3. ASSUME NEW c \in Calls, Compact(c), Alone(c) PROVE Store!Next
  <2> PICK v : v = View(log)
    OBVIOUS
  <2>1. call'[c] = [call[c] EXCEPT !.pc = "file", !.kind = "compact", !.view = v]
        /\ log' = log /\ call[c].pc = "idle"
    BY <1>0, <1>3 DEF Compact
  <2>2. call'[c].pc = "file" /\ call'[c].view = v
    BY <1>0, <2>1 DEF CallStates
  <2>3. Single(v) /\ \A id \in Calls : Replay(v, id) = Replay(log, id)
    BY <1>0, ViewIs, ViewReplays
  <2>4. Viewed(c)' = store
    <3>1. Viewed(c)' = [id \in Calls |-> Replay(v, id)]
      BY <2>2, <2>3, ViewedBecomes
    <3> QED
      BY <2>3, <3>1 DEF store, Stored
  <2>5. Plan(c) = Store!Undecided /\ Plan(c)' = Store!Decided(store)
    BY <2>1, <2>2, <2>4, PlanIs, PlanBecomes
  <2> QED
    BY <1>3, <2>1, <2>5, CompactDecision, Decides
<1>4. ASSUME NEW c \in Calls, Arrive(c), Alone(c) PROVE Store!Next \/ UNCHANGED Store!vars
  BY <1>2, <1>3, <1>4 DEF Arrive, WriteRecord, UpdateRecord, DeleteRecord, PutKeyValue
<1>5. ASSUME NEW c \in Calls, FindSegment(c), Alone(c)
      PROVE  Store!Next \/ UNCHANGED Store!vars
  <2>1. /\ log' = log /\ call[c] \in CallStates /\ Standing(c)
        /\ call'[c].id = call[c].id /\ call'[c].rec = call[c].rec
        /\ call[c].pc \in {"open", "active"}
        /\ call'[c].pc = IF call[c].pc = "open" THEN "append" ELSE "segment"
    BY <1>0, <1>5 DEF FindSegment, CallStates
  <2>2. CASE call[c].pc = "active"
    BY <1>5, <2>1, <2>2, PlanIs, PlanBecomes, Stutters
  <2>3. CASE call[c].pc = "open"
    <3>1. /\ call[c].id = c /\ call[c].rec # None /\ call[c].rec.parts = {c}
          /\ call[c].rec \in Records
      BY <2>1, <2>3 DEF Standing, CallStates
    <3>2. Plan(c)' = Store!Decided(Store!Only(c, call[c].rec))
      BY <2>1, <2>3, <3>1, PlanBecomes
    <3> QED
      BY <1>5, <2>1, <2>3, <3>1, <3>2, PlanIs, OwnDecision, Decides
  <2> QED
    BY <2>1, <2>2, <2>3
<1>6. ASSUME NEW c \in Calls, LoadFound(c), Alone(c) PROVE Store!Next
  <2> PICK o : o = call[c]
    OBVIOUS
  <2> PICK old : old = Stored(o.id)
    OBVIOUS
  <2> PICK r : r = IF o.kind = "delete" THEN None ELSE Merged(c, old)
    OBVIOUS
  <2>1. /\ log' = log /\ o \in CallStates /\ Standing(c) /\ o.pc = "load"
        /\ old # None /\ o.id \in Calls
    BY <1>0, <1>6 DEF LoadFound, CallStates
  <2>2. call'[c] = [o EXCEPT !.pc = "append", !.rec = r]
    BY <1>0, <1>6 DEF LoadFound
  <2>3. call'[c].pc = "append" /\ call'[c].id = o.id /\ call'[c].rec = r
    BY <2>1, <2>2 DEF CallStates
  <2>4. old \in Records
    BY <1>0, <2>1, ReplayType DEF Stored
  <2>5. /\ o.rec \in Records \cup {None}
        /\ \/ o.kind = "update" /\ o.rec # None /\ o.rec.parts = {c}
           \/ o.kind = "delete"
    BY <2>1 DEF Standing, CallStates
  <2>6. Store!Only(o.id, r) \in Store!Decisions(c)
    <3>1. CASE o.kind = "delete"
      BY <2>1, <3>1, DeleteDecision
    <3>2. CASE o.kind = "update"
      <4>1. r \in Records /\ r.parts = old.parts \cup {c}
        BY <2>4, <2>5, <3>2 DEF Merged, Records
      <4> QED
        BY <2>1, <4>1, UpdateDecision
    <3> QED
      BY <2>5, <3>1, <3>2
  <2> QED
    BY <1>6, <2>1, <2>3, <2>6, PlanIs, PlanBecomes, Decides
<1>7. ASSUME NEW c \in Calls, AppendOperation(c), Alone(c) PROVE Store!Next
  <2> PICK d : d = Store!Only(call[c].id, call[c].rec)
    OBVIOUS
  <2>1. /\ call[c] \in CallStates /\ call[c].pc = "append" /\ log' = Append(log, Line(c))
        /\ call'[c].pc \in {"segment", "active", "read"}
    BY <1>0, <1>7 DEF AppendOperation, CallStates
  <2>2. Line(c) \in Lines
    BY <2>1 DEF Line, Lines, CallStates
  <2>3. \A id \in Calls :
          Stored(id)' = IF call[c].id = id THEN call[c].rec ELSE Stored(id)
    BY <1>0, <2>1, <2>2, ReplayAppend DEF Stored, Line
  <2>4. \A id \in Calls : Stored(id)' = IF id \in DOMAIN d THEN d[id] ELSE Stored(id)
    BY <2>3 DEF Store!Only
  <2> QED
    BY <1>7, <2>1, <2>4, PlanIs, PlanBecomes, Applies
<1>8. ASSUME NEW c \in Calls, ReplaceLog(c), Alone(c) PROVE Store!Next
  <2>1. /\ call[c] \in CallStates /\ call[c].pc = "replace" /\ log' = call[c].view
        /\ call'[c].pc = "read" /\ Single(call[c].view)
    BY <1>0, <1>8 DEF ReplaceLog, CallStates, Standing
  <2>2. Viewed(c) = [id \in Calls |-> Replay(call[c].view, id)]
    BY <2>1, ViewedIs
  <2>3. \A id \in Calls :
          Stored(id)' = IF id \in DOMAIN Viewed(c) THEN Viewed(c)[id] ELSE Stored(id)
    BY <2>1, <2>2 DEF Stored
  <2> QED
    BY <1>8, <2>1, <2>3, PlanIs, PlanBecomes, Applies
<1>9. ASSUME NEW c \in Calls, CompactSegment(c), Alone(c) PROVE UNCHANGED Store!vars
  <2>1. /\ log' = log /\ call[c].pc = "file" /\ call'[c].pc = "replace"
        /\ call'[c].view = call[c].view
    BY <1>0, <1>9 DEF CompactSegment, CallStates
  <2>2. Viewed(c)' = Viewed(c)
    BY <2>1 DEF Viewed
  <2> QED
    BY <1>9, <2>1, <2>2, PlanIs, PlanBecomes, Stutters
<1>10. ASSUME NEW c \in Calls, Alone(c), log' = log,
              LoadMissing(c) \/ AppendSegment(c) \/ ReadManifest(c) \/ WriteManifest(c) \/ Stop(c)
       PROVE  Store!Next
  <2>1. call[c] \in CallStates
    BY <1>0
  <2>2. call'[c].pc \in {"missing", "read", "write", "done", "stopped"}
    BY <1>0, <1>10, <2>1
    DEF LoadMissing, AppendSegment, ReadManifest, WriteManifest, Stop, At, CallStates
  <2> QED
    BY <1>10, <2>2, PlanBecomes, GivesUp
<1> QED
  BY <1>0, <1>1, <1>4, <1>5, <1>6, <1>7, <1>8, <1>9, <1>10, NextAlone

\* Every call takes effect at most once and all at a time, as it had decided
\* on one reading of the store.
THEOREM Implements == Spec => ImplementsStore
<1>1. RecordInv /\ [Next]_vars => [Store!Next]_(Store!vars)
  BY StepImplements
<1> QED
  BY <1>1, StoreInit, InitRecords, NextRecords, PTL DEF Spec, ImplementsStore, Store!Spec

-----------------------------------------------------------------------------
(***************************************************************************)
(* The record that answers for a key                                       *)
(***************************************************************************)
\* An append leaves a record that is there in its place, and a record that
\* was not there comes last.
LEMMA PlaceAppend ==
    ASSUME NEW l \in Seq(Lines), NEW x \in Lines, NEW id \in Found(Append(l, x))
    PROVE  /\ id \in Found(l) => Place(Append(l, x), id) = Place(l, id)
           /\ id \notin Found(l) => Place(Append(l, x), id) = Len(l) + 1
<1> PICK m : m = Append(l, x)
  OBVIOUS
<1> PICK n : n = Len(l)
  OBVIOUS
<1>1. /\ n \in Nat /\ m \in Seq(Lines) /\ DOMAIN m = 1..(n + 1) /\ m[n + 1] = x
      /\ DOMAIN l = 1..n /\ \A i \in 1..n : m[i] = l[i]
  OBVIOUS
<1>2. id \in Calls /\ Replay(m, id) # None
  BY DEF Found
<1>3. Replay(m, id) = IF x.id = id THEN x.rec ELSE Replay(l, id)
  BY ReplayAppend
<1>4. About(m, id) = About(l, id) \cup (IF x.id = id THEN {n + 1} ELSE {})
  BY <1>1 DEF About
<1>5. About(l, id) \subseteq 1..n
  BY <1>1 DEF About
<1>6. Starts(m, id) = Starts(l, id) \cup (IF x.id = id THEN {n + 1} ELSE {})
  <2>1. x.id = id => x.rec # None
    BY <1>2, <1>3
  <2>2. ASSUME NEW i \in Starts(m, id), i # n + 1 \/ x.id # id PROVE i \in Starts(l, id)
    <3>1. i \in About(l, id)
      BY <1>4, <2>2 DEF Starts
    <3>2. \A j \in About(l, id) : j >= i => m[j].rec # None /\ m[j] = l[j]
      BY <1>1, <1>4, <1>5, <2>2 DEF Starts
    <3> QED
      BY <3>1, <3>2 DEF Starts
  <2>3. ASSUME NEW i \in Starts(l, id) PROVE i \in Starts(m, id)
    <3>1. i \in About(m, id)
      BY <1>4, <2>3 DEF Starts
    <3>2. \A j \in About(m, id) : j >= i => m[j].rec # None
      BY <1>1, <1>4, <1>5, <2>1, <2>3 DEF Starts
    <3> QED
      BY <3>1, <3>2 DEF Starts
  <2>4. x.id = id => n + 1 \in Starts(m, id)
    <3>1. \A j \in About(m, id) : j >= n + 1 => j = n + 1
      BY <1>1, <1>4, <1>5
    <3> QED
      BY <1>1, <1>4, <2>1, <3>1 DEF Starts
  <2> QED
    BY <2>2, <2>3, <2>4
<1>7. Starts(l, id) \subseteq 1..n
  BY <1>5 DEF Starts
<1>8. ASSUME id \in Found(l) PROVE Place(m, id) = Place(l, id)
  <2>1. Place(l, id) \in Starts(l, id) /\ \A j \in Starts(l, id) : Place(l, id) <= j
    <3>1. Starts(l, id) # {} /\ Starts(l, id) \in SUBSET Nat
      BY <1>7, <1>8, StartsThere
    <3> QED
      BY <3>1, EarliestIs DEF Place
  <2>2. Starts(m, id) # {} /\ Starts(m, id) \in SUBSET Nat
    BY <1>1, <1>6, <1>7, <2>1
  <2>3. Place(m, id) \in Starts(m, id) /\ \A j \in Starts(m, id) : Place(m, id) <= j
    BY <2>2, EarliestIs DEF Place
  <2>4. Place(l, id) \in Starts(m, id) /\ Place(l, id) \in 1..n
    BY <1>6, <1>7, <2>1
  <2>5. Place(m, id) <= Place(l, id)
    BY <2>3, <2>4
  <2>6. Place(m, id) \in Starts(l, id)
    BY <1>1, <1>6, <2>3, <2>4, <2>5
  <2> QED
    BY <1>7, <2>1, <2>4, <2>5, <2>6
<1>9. ASSUME id \notin Found(l) PROVE Place(m, id) = n + 1
  <2>1. Replay(l, id) = None /\ x.id = id
    BY <1>2, <1>3, <1>9 DEF Found
  <2>2. Starts(l, id) = {}
    <3>1. CASE About(l, id) = {}
      BY <3>1 DEF Starts
    <3>2. CASE About(l, id) # {}
      <4>1. PICK i \in About(l, id) : l[i].rec = None /\ \A j \in About(l, id) : j <= i
        BY <2>1, <3>2, ReplaySome
      <4> QED
        BY <1>5, <4>1 DEF Starts
    <3> QED
      BY <3>1, <3>2
  <2>3. Starts(m, id) = {n + 1}
    BY <1>6, <2>1, <2>2
  <2>4. {n + 1} \in SUBSET Nat /\ {n + 1} # {}
    BY <1>1
  <2>5. Earliest({n + 1}) \in {n + 1}
    BY <2>4, EarliestIs
  <2> QED
    BY <2>3, <2>5 DEF Place
<1> QED
  BY <1>8, <1>9

LEMMA AppendAnswers ==
    ASSUME RecordInv, RecordInv', NEW c \in Calls, AppendOperation(c), NEW k \in Keys,
           Answer(k) # None, Answer(k)' # Answer(k), Answer(k) \in Holders(k)'
    PROVE  Answer(k)' \in Live \ Holders(k)
<1> PICK a : a = Answer(k)
  OBVIOUS
<1> PICK b : b = Answer(k)'
  OBVIOUS
<1> PICK n : n = Len(log)
  OBVIOUS
<1>1. /\ log \in Seq(Lines) /\ call[c] \in CallStates /\ log' = Append(log, Line(c)) /\ n \in Nat
      /\ TypeOK
  BY DEF RecordInv, TypeOK, AppendOperation
<1>2. Line(c) \in Lines
  BY <1>1 DEF Line, Lines, CallStates
<1>3. a \in Holders(k) /\ a \in Found(log) /\ \A j \in Holders(k) : Place(log, a) <= Place(log, j)
  BY <1>1, AnswerIs DEF Holders, Live
<1>4. b \in Holders(k)' /\ a \in Holders(k)' /\ Place(log', b) <= Place(log', a)
  BY <1>1, AnswerBecomes DEF RecordInv
<1>5. a \in Found(log') /\ b \in Found(log')
  BY <1>4 DEF Holders, Live
<1>6. Place(log', a) = Place(log, a)
  BY <1>1, <1>2, <1>3, <1>5, PlaceAppend
<1>7. Place(log, a) \in 1..n /\ log[Place(log, a)].id = a
  BY <1>1, <1>3, PlaceIs, AboutIs DEF About
<1>8. b \in Found(log)
  <2>1. b \notin Found(log) => Place(log', b) = n + 1
    BY <1>1, <1>2, <1>5, PlaceAppend
  <2> QED
    BY <1>1, <1>4, <1>6, <1>7, <2>1
<1>9. Place(log', b) = Place(log, b) /\ Place(log, b) \in 1..n /\ log[Place(log, b)].id = b
  BY <1>1, <1>2, <1>5, <1>8, PlaceAppend, PlaceIs, AboutIs DEF About
<1>10. b \notin Holders(k)
  <2> SUFFICES ASSUME b \in Holders(k) PROVE FALSE
    OBVIOUS
  <2>1. Place(log, a) <= Place(log, b) /\ Place(log, b) <= Place(log, a)
    BY <1>3, <1>4, <1>6, <1>9
  <2>2. Place(log, a) = Place(log, b)
    BY <1>7, <1>9, <2>1
  <2> QED
    BY <1>7, <1>9, <2>2
<1> QED
  BY <1>8, <1>10 DEF Live

\* Which of two records answers for a key is decided once: an append changes
\* it only by taking the key from the one or giving it to an older one.
THEOREM Stable == Spec => AnswerIsStable
<1>1. ASSUME RecordInv, RecordInv', NEW c \in Calls, AppendOperation(c), NEW k \in Keys
      PROVE  LET a == Answer(k)  b == Answer(k)' IN
               a # None /\ b # a /\ a \in Holders(k)' => b \in Live \ Holders(k)
  BY <1>1, AppendAnswers
<1>2. RecordInv /\ RecordInv' /\ [Next]_vars =>
        [\A c \in Calls : AppendOperation(c) =>
           \A k \in Keys : LET a == Answer(k)  b == Answer(k)' IN
              a # None /\ b # a /\ a \in Holders(k)' => b \in Live \ Holders(k)]_vars
  BY <1>1
<1> QED
  BY <1>2, InitRecords, NextRecords, PTL DEF Spec, AnswerIsStable

=============================================================================
