------------------------ MODULE FlimeAlgorithmsProofs ------------------------
(***************************************************************************)
(* Proofs about the computations of FlimeAlgorithms, for inputs of any     *)
(* size: the loops of the batch functions decide what the conditions say   *)
(* (LoopsAgree), calls are cut out of a queue whole and in order           *)
(* (WholeCalls), a clustered call runs all or nothing (AllOrNothing), the  *)
(* template matches exactly a renaming (RenamingMatches), the period       *)
(* detectors find what a history ends with twice (PeriodsFound), the plan  *)
(* is the best schedule (BestPlans), and the units the guest cuts are      *)
(* accepted, and fit the plan made of them (UnitsFit).                     *)
(*                                                                         *)
(* A loop is a fold or a recursive function, that is a choice of a         *)
(* function that satisfies the recursion.  That there is one is shown for  *)
(* all loops at once (RecExists, IterExists): After selects a loop by its  *)
(* name, so no lemma needs an operator as its parameter.  Each argument is *)
(* then an induction over the iterations (Climbs), about what the loop's   *)
(* variables know of the part of the input behind them.                    *)
(***************************************************************************)
EXTENDS FlimeAlgorithms, TLAPS, SequenceTheorems, FiniteSetTheorems, WellFoundedInduction

-----------------------------------------------------------------------------
(* Induction *)

\* A set of naturals that is not empty has a least element.
LEMMA NatMin ==
  ASSUME NEW T \in SUBSET Nat, T # {}
  PROVE  \E x \in T : \A y \in T : x <= y
<1> DEFINE R == OpToRel(<, Nat)
<1>1. IsWellFoundedOn(R, Nat)
  BY NatLessThanWellFounded
<1>2. \A x, y \in Nat : x < y => <<x, y>> \in R
  BY DEF OpToRel
<1> HIDE DEF R
<1>3. \E x \in T : \A y \in T : ~(<<y, x>> \in R)
  BY <1>1, WFMin
<1>4. PICK x \in T : \A y \in T : ~(<<y, x>> \in R)
  BY <1>3
<1>5. \A y \in T : ~(y < x)
  BY <1>2, <1>4
<1>6. \A y \in T : x <= y
  BY <1>5
<1> QED BY <1>6

\* A set of naturals that is closed under one more up to n reaches n.
LEMMA Climbs ==
  ASSUME NEW n \in Nat, NEW T, 0 \in T, \A i \in 1 .. n : i - 1 \in T => i \in T
  PROVE  \A i \in 0 .. n : i \in T
<1> DEFINE U == {i \in 0 .. n : i \notin T}
<1> SUFFICES ASSUME U # {} PROVE FALSE
  OBVIOUS
<1>1. PICK x \in U : \A y \in U : x <= y
  <2>1. U \in SUBSET Nat OBVIOUS
  <2> HIDE DEF U
  <2> QED BY <2>1, NatMin
<1>2. x # 0 /\ x \in 1 .. n /\ x \notin T
  BY <1>1
<1>3. x - 1 \in T
  BY <1>1, <1>2
<1> QED BY <1>2, <1>3

\* The maximum of a set of integers.
LEMMA MaxIs ==
  ASSUME NEW s, NEW m, m \in Int, s \subseteq Int, m \in s, \A x \in s : x <= m
  PROVE  Max(s) = m
<1> DEFINE P(x) == x \in s /\ \A y \in s : x >= y
<1>1. P(m)
  OBVIOUS
<1>2. P(CHOOSE x : P(x))
  BY <1>1
<1>3. Max(s) = CHOOSE x : P(x)
  BY DEF Max
<1>4. Max(s) \in s /\ Max(s) >= m
  BY <1>2, <1>3
<1>5. Max(s) \in Int /\ Max(s) <= m
  BY <1>4
<1> QED BY <1>4, <1>5

-----------------------------------------------------------------------------
(* The loops, iteration by iteration: what each makes of its variables *)

\* One iteration: what the loop's variables are after it, of what they were, the
\* element x it looks at (or its number), and what does not change in the loop (c).
After(loop, c, acc, x) ==
  CASE loop = "release" -> ReleaseStep(acc, x)
    [] loop = "replay" -> ReplayStep(acc, x)
    [] loop = "fallback" -> FallbackStep(acc, x)
    [] loop = "pack" ->
         LET p == PackCall(acc.held, acc.queue)
         IN [calls |-> IF p.call = <<>> THEN acc.calls ELSE Append(acc.calls, p.call),
             held |-> p.held, queue |-> p.queue]
    [] loop = "scan" ->
         IF acc.ok /\ acc.at < Len(c.stream) THEN ScanCall(c.stream, c.save, acc) ELSE acc
    [] loop = "dispatch" ->
         IF acc.at + 2 > Len(c) \/ acc.at + Record(c[acc.at + 2]) > Len(c) THEN acc
         ELSE [at |-> acc.at + Record(c[acc.at + 2]), ran |-> Append(acc.ran, Member(c, acc.at))]
    [] loop = "met" -> Meet(acc, x)
    [] loop = "borders" -> Append(acc, NextBorder(c, acc, x))
    [] loop = "prefix" -> acc + c[x]
    [] loop = "units" -> RecordCall(acc, c.calls[x], c.per)
    [] loop = "rows" -> NextRow(acc, x, c.guest, c.host, c.sigma)
    [] loop = "back" -> c.rows[c.count - x + 1][acc].from
    [] loop = "done" -> ChunkDone(acc, c.ends, c.guest, c.host, c.sigma, x)

\* The loop's variables after each of its iterations.
IsLoop(loop, c, base, elems, w) ==
  /\ w[0] = base
  /\ \A k \in 1 .. Len(elems) : w[k] = After(loop, c, w[k - 1], elems[k])

\* A loop that counts to n, as a recursive function.
IsRec(loop, c, base, n, w) ==
  w = [k \in 0 .. n |-> IF k = 0 THEN base ELSE After(loop, c, w[k - 1], k)]

\* There is such a function.
LEMMA RecExists ==
  ASSUME NEW loop, NEW c, NEW base, NEW n \in Nat
  PROVE  \E w : IsRec(loop, c, base, n, w)
<1> DEFINE T == {i \in Nat : \E w : IsRec(loop, c, base, i, w)}
<1>1. 0 \in T
  <2> DEFINE w == [k \in 0 .. 0 |-> base]
  <2>1. w = [k \in 0 .. 0 |-> IF k = 0 THEN base ELSE After(loop, c, w[k - 1], k)]
    OBVIOUS
  <2> HIDE DEF w
  <2> QED BY <2>1 DEF IsRec
<1>2. ASSUME NEW x \in 1 .. n, x - 1 \in T PROVE x \in T
  <2>1. PICK f : f = [k \in 0 .. x - 1 |-> IF k = 0 THEN base ELSE After(loop, c, f[k - 1], k)]
    BY <1>2 DEF IsRec
  <2> DEFINE h == [k \in 0 .. x |-> IF k = x THEN After(loop, c, f[x - 1], x) ELSE f[k]]
  <2>2. ASSUME NEW k \in 0 .. x
        PROVE  h[k] = IF k = 0 THEN base ELSE After(loop, c, h[k - 1], k)
    <3>1. CASE k = x
      <4>1. k # 0 /\ k - 1 \in 0 .. x /\ k - 1 # x
        BY <3>1
      <4>2. h[k] = After(loop, c, f[x - 1], x) /\ h[k - 1] = f[k - 1]
        BY <3>1, <4>1
      <4> HIDE DEF h
      <4> QED BY <3>1, <4>1, <4>2
    <3>2. CASE k # x
      <4>1. k \in 0 .. x - 1 /\ (k # 0 => k - 1 \in 0 .. x /\ k - 1 # x)
        BY <3>2
      <4>2. f[k] = IF k = 0 THEN base ELSE After(loop, c, f[k - 1], k)
        BY <2>1, <4>1
      <4>3. h[k] = f[k] /\ (k # 0 => h[k - 1] = f[k - 1])
        BY <3>2, <4>1
      <4> HIDE DEF h
      <4> QED BY <4>2, <4>3
    <3> QED BY <3>1, <3>2
  <2>3. h = [k \in 0 .. x |-> h[k]]
    OBVIOUS
  <2> HIDE DEF h
  <2>4. h = [k \in 0 .. x |-> IF k = 0 THEN base ELSE After(loop, c, h[k - 1], k)]
    BY <2>2, <2>3
  <2> QED BY <2>4 DEF IsRec
<1> HIDE DEF T
<1>3. n \in T
  <2>1. \A i \in 0 .. n : i \in T
    BY <1>1, <1>2, Climbs
  <2> QED BY <2>1
<1> QED BY <1>3 DEF T

\* What a fold over a sequence chooses: a value for each set of positions.
IsIter(loop, c, base, elems, positions, f) ==
  f = [s \in SUBSET positions |->
         IF s = {} THEN base ELSE After(loop, c, f[s \ {Max(s)}], elems[Max(s)])]

\* There is such a choice for as many positions as one likes.
LEMMA IterExists ==
  ASSUME NEW loop, NEW c, NEW base, NEW elems, NEW n \in Nat
  PROVE  \E f : IsIter(loop, c, base, elems, 1 .. n, f)
<1> DEFINE T == {i \in Nat : \E f : IsIter(loop, c, base, elems, 1 .. i, f)}
<1>1. 0 \in T
  <2>1. SUBSET (1 .. 0) = {{}}
    OBVIOUS
  <2>2. IsIter(loop, c, base, elems, 1 .. 0, [s \in {{}} |-> base])
    BY <2>1 DEF IsIter
  <2> QED BY <2>2
<1>2. ASSUME NEW m \in 1 .. n, m - 1 \in T PROVE m \in T
  <2>1. PICK f : IsIter(loop, c, base, elems, 1 .. m - 1, f)
    BY <1>2
  <2> DEFINE g == [s \in SUBSET (1 .. m) |->
                     IF m \in s THEN After(loop, c, f[s \ {m}], elems[m]) ELSE f[s]]
  <2>2. ASSUME NEW s \in SUBSET (1 .. m), s # {}
        PROVE  g[s] = After(loop, c, g[s \ {Max(s)}], elems[Max(s)])
    <3>1. CASE m \in s
      <4>0. m \in Int /\ s \subseteq Int /\ \A x \in s : x <= m
        OBVIOUS
      <4>1. Max(s) = m
        BY <3>1, <4>0, MaxIs
      <4>2. g[s \ {m}] = f[s \ {m}]
        OBVIOUS
      <4>3. g[s] = After(loop, c, f[s \ {m}], elems[m])
        BY <3>1
      <4> HIDE DEF g
      <4> QED BY <4>1, <4>2, <4>3
    <3>2. CASE m \notin s
      <4>1. s \in SUBSET (1 .. m - 1)
        BY <3>2
      <4>2. f[s] = After(loop, c, f[s \ {Max(s)}], elems[Max(s)])
        BY <2>1, <2>2, <4>1 DEF IsIter
      <4>3. g[s] = f[s] /\ g[s \ {Max(s)}] = f[s \ {Max(s)}]
        BY <3>2
      <4> HIDE DEF g
      <4> QED BY <4>2, <4>3
    <3> QED BY <3>1, <3>2
  <2>3. g[{}] = base
    <3>1. {} \in SUBSET (1 .. m - 1) /\ {} \in SUBSET (1 .. m)
      OBVIOUS
    <3>2. f[{}] = base
      BY <2>1, <3>1 DEF IsIter
    <3> QED BY <3>1, <3>2
  <2>4. g = [s \in SUBSET (1 .. m) |->
               IF s = {} THEN base ELSE After(loop, c, g[s \ {Max(s)}], elems[Max(s)])]
    <3>1. DOMAIN g = SUBSET (1 .. m) /\ g = [s \in SUBSET (1 .. m) |-> g[s]]
      OBVIOUS
    <3> HIDE DEF g
    <3> QED BY <2>2, <2>3, <3>1
  <2> HIDE DEF g
  <2>5. IsIter(loop, c, base, elems, 1 .. m, g)
    BY <2>4 DEF IsIter
  <2> QED BY <2>5
<1> HIDE DEF T
<1>3. n \in T
  BY <1>1, <1>2, Climbs
<1> QED BY <1>3 DEF T

\* For the positions of any sequence.
LEMMA FoldExists ==
  ASSUME NEW loop, NEW c, NEW base, NEW S, NEW elems \in Seq(S)
  PROVE  \E f : IsIter(loop, c, base, elems, DOMAIN elems, f)
<1>1. Len(elems) \in Nat /\ DOMAIN elems = 1 .. Len(elems)
  OBVIOUS
<1> QED BY <1>1, IterExists

\* What it chooses for the first k positions is where k iterations end.
LEMMA FoldIsLoop ==
  ASSUME NEW loop, NEW c, NEW base, NEW S, NEW elems \in Seq(S),
         NEW f, IsIter(loop, c, base, elems, DOMAIN elems, f)
  PROVE  \E w : IsLoop(loop, c, base, elems, w) /\ w[Len(elems)] = f[DOMAIN elems]
<1> DEFINE w == [k \in 0 .. Len(elems) |-> f[1 .. k]]
<1>1. Len(elems) \in Nat /\ DOMAIN elems = 1 .. Len(elems)
  OBVIOUS
<1>2. w[0] = base
  <2>1. 1 .. 0 = {} /\ {} \in SUBSET (1 .. Len(elems))
    OBVIOUS
  <2>2. f[{}] = base
    BY <1>1, <2>1 DEF IsIter
  <2> QED BY <1>1, <2>1, <2>2
<1>3. ASSUME NEW k \in 1 .. Len(elems) PROVE w[k] = After(loop, c, w[k - 1], elems[k])
  <2>0. k \in Nat /\ 1 <= k /\ k <= Len(elems)
    BY <1>1
  <2>1. /\ 1 .. k \in SUBSET (1 .. Len(elems)) /\ k \in 1 .. k
        /\ (1 .. k) \ {k} = 1 .. k - 1
    BY <1>1, <2>0
  <2>2. Max(1 .. k) = k
    <3>1. k \in Int /\ 1 .. k \subseteq Int /\ \A x \in 1 .. k : x <= k
      BY <2>0
    <3> QED BY <2>1, <3>1, MaxIs
  <2>3. f[1 .. k] = After(loop, c, f[(1 .. k) \ {Max(1 .. k)}], elems[Max(1 .. k)])
    BY <1>1, <2>1 DEF IsIter
  <2>4. f[1 .. k] = After(loop, c, f[1 .. k - 1], elems[k])
    BY <2>1, <2>2, <2>3
  <2> QED BY <1>1, <2>4
<1>4. w[Len(elems)] = f[DOMAIN elems]
  BY <1>1
<1> HIDE DEF w
<1> QED BY <1>2, <1>3, <1>4 DEF IsLoop

-----------------------------------------------------------------------------
(* The batch decisions of the ledger *)

\* The fold of the release loop is where its iterations end.
LEMMA ReleaseLoop ==
  ASSUME ids \in Seq(UpdateIds)
  PROVE  \E w : /\ IsLoop("release", 0, Start, ids, w)
                /\ w[Len(ids)] = FoldLeft(ReleaseStep, Start, ids)
<1> DEFINE P(f) == f = [s \in SUBSET DOMAIN ids |->
     IF s = {} THEN Start ELSE ReleaseStep(f[s \ {Max(s)}], ids[Max(s)])]
<1>1. FoldLeft(ReleaseStep, Start, ids) = (CHOOSE f : P(f))[DOMAIN ids]
  BY DEF FoldLeft, MapThenFoldSet
<1>2. ASSUME NEW f PROVE P(f) <=> IsIter("release", 0, Start, ids, DOMAIN ids, f)
  <2>1. \A x, u : After("release", 0, x, u) = ReleaseStep(x, u)
    BY DEF After
  <2> QED BY <2>1 DEF IsIter
<1> HIDE DEF P
<1> DEFINE f == CHOOSE g : P(g)
<1>3. IsIter("release", 0, Start, ids, DOMAIN ids, f)
  BY <1>2, FoldExists
<1> HIDE DEF f
<1>4. \E w : IsLoop("release", 0, Start, ids, w) /\ w[Len(ids)] = f[DOMAIN ids]
  BY <1>3, FoldIsLoop
<1> QED BY <1>1, <1>4 DEF f

\* The fold of the replay loop is where its iterations end.
LEMMA ReplayLoop ==
  ASSUME ids \in Seq(UpdateIds)
  PROVE  \E w : IsLoop("replay", 0, Start, ids, w) /\ w[Len(ids)] = FoldLeft(ReplayStep, Start, ids)
<1> DEFINE P(f) == f = [s \in SUBSET DOMAIN ids |->
     IF s = {} THEN Start ELSE ReplayStep(f[s \ {Max(s)}], ids[Max(s)])]
<1>1. FoldLeft(ReplayStep, Start, ids) = (CHOOSE f : P(f))[DOMAIN ids]
  BY DEF FoldLeft, MapThenFoldSet
<1>2. ASSUME NEW f PROVE P(f) <=> IsIter("replay", 0, Start, ids, DOMAIN ids, f)
  <2>1. \A x, u : After("replay", 0, x, u) = ReplayStep(x, u)
    BY DEF After
  <2> QED BY <2>1 DEF IsIter
<1> HIDE DEF P
<1> DEFINE f == CHOOSE g : P(g)
<1>3. IsIter("replay", 0, Start, ids, DOMAIN ids, f)
  BY <1>2, FoldExists
<1> HIDE DEF f
<1>4. \E w : IsLoop("replay", 0, Start, ids, w) /\ w[Len(ids)] = f[DOMAIN ids]
  BY <1>3, FoldIsLoop
<1> QED BY <1>1, <1>4 DEF f

\* The fold of the fallback loop is where its iterations end.
LEMMA FallbackLoop ==
  ASSUME ids \in Seq(UpdateIds)
  PROVE  \E w : /\ IsLoop("fallback", 0, Start, ids, w)
                /\ w[Len(ids)] = FoldLeft(FallbackStep, Start, ids)
<1> DEFINE P(f) == f = [s \in SUBSET DOMAIN ids |->
     IF s = {} THEN Start ELSE FallbackStep(f[s \ {Max(s)}], ids[Max(s)])]
<1>1. FoldLeft(FallbackStep, Start, ids) = (CHOOSE f : P(f))[DOMAIN ids]
  BY DEF FoldLeft, MapThenFoldSet
<1>2. ASSUME NEW f PROVE P(f) <=> IsIter("fallback", 0, Start, ids, DOMAIN ids, f)
  <2>1. \A x, u : After("fallback", 0, x, u) = FallbackStep(x, u)
    BY DEF After
  <2> QED BY <2>1 DEF IsIter
<1> HIDE DEF P
<1> DEFINE f == CHOOSE g : P(g)
<1>3. IsIter("fallback", 0, Start, ids, DOMAIN ids, f)
  BY <1>2, FoldExists
<1> HIDE DEF f
<1>4. \E w : IsLoop("fallback", 0, Start, ids, w) /\ w[Len(ids)] = f[DOMAIN ids]
  BY <1>3, FoldIsLoop
<1> QED BY <1>1, <1>4 DEF f

-----------------------------------------------------------------------------
(* The input of a batch function, and what the loops look up in it *)

\* What the task batch feeds to the decisions: a ledger and a batch of ids.
Input == L \in Ledgers /\ (ids = <<>> \/ ids \in Batches)

\* A ledger is a sequence of entries that differ in their ids.
LEMMA LedgerFacts ==
  ASSUME Input
  PROVE  /\ Len(L) \in Nat /\ DOMAIN L = 1 .. Len(L) /\ Len(L) <= MaxLedger
         /\ \A i \in 1 .. Len(L) : L[i].state \in LedgerStates /\ L[i].sub = "s"
         /\ \A i, j \in 1 .. Len(L) : L[i].id = L[j].id => i = j
<1> DEFINE E == [id : UpdateIds, sub : {"s"}, state : LedgerStates]
<1>1. PICK n \in 0 .. MaxLedger : L \in [1 .. n -> E]
  BY DEF Input, Ledgers
<1>2. n \in Nat /\ n <= MaxLedger
  BY AlgorithmAssumption
<1> HIDE DEF E
<1>3. L \in Seq(E) /\ Len(L) = n /\ DOMAIN L = 1 .. n
  BY <1>1, <1>2
<1>4. \A i \in 1 .. n : L[i] \in E
  BY <1>1
<1>5. \A i, j \in DOMAIN L : L[i].id = L[j].id => i = j
  BY DEF Input, Ledgers
<1> QED BY <1>2, <1>3, <1>4, <1>5 DEF E

\* A batch is a sequence of ids.
LEMMA BatchFacts ==
  ASSUME Input
  PROVE  /\ ids \in Seq(UpdateIds) /\ Len(ids) \in Nat /\ DOMAIN ids = 1 .. Len(ids)
         /\ Len(ids) <= MaxIds
<1>1. CASE ids = <<>>
  BY <1>1, AlgorithmAssumption
<1>2. CASE ids \in Batches
  <2>1. PICK n \in 1 .. MaxIds : ids \in [1 .. n -> UpdateIds]
    BY <1>2 DEF Batches
  <2>2. n \in Nat /\ n <= MaxIds
    BY AlgorithmAssumption
  <2> QED BY <2>1, <2>2
<1> QED BY <1>1, <1>2 DEF Input

\* Found is the position of a known id, and 0 for an unknown one.
LEMMA FoundIs ==
  ASSUME Input, NEW u
  PROVE  /\ Has(L, u) => /\ Found(u) = At(L, u) /\ At(L, u) \in 1 .. Len(L)
                         /\ L[At(L, u)].id = u
         /\ ~Has(L, u) => Found(u) = 0
         /\ \A p \in 1 .. Len(L) : L[p].id = u => Has(L, u) /\ At(L, u) = p
<1>1. Has(L, u) => At(L, u) \in 1 .. Len(L) /\ L[At(L, u)].id = u
  BY LedgerFacts DEF Has, At
<1> QED BY <1>1, LedgerFacts DEF Found, Has

\* Skip finds the first entry from a position on that is not emitted.
LEMMA SkipIs ==
  ASSUME Input, NEW from \in 1 .. Len(L) + 1
  PROVE  /\ Skip(from) \in from .. Len(L) + 1
         /\ Skip(from) = Len(L) + 1 \/ ~Emitted(L[Skip(from)])
         /\ \A i \in from .. Skip(from) - 1 : Emitted(L[i])
<1> DEFINE P(f) == /\ f = Len(L) + 1 \/ ~Emitted(L[f])
                   /\ \A i \in from .. f - 1 : Emitted(L[i])
<1> DEFINE T == {f \in from .. Len(L) + 1 : f = Len(L) + 1 \/ ~Emitted(L[f])}
<1>1. T \in SUBSET Nat /\ T # {}
  BY LedgerFacts
<1>2. PICK f \in T : \A y \in T : f <= y
  <2> HIDE DEF T
  <2> QED BY <1>1, NatMin
<1>3. \A i \in from .. f - 1 : Emitted(L[i])
  BY <1>2, LedgerFacts
<1>4. f \in from .. Len(L) + 1 /\ P(f)
  BY <1>2, <1>3
<1>5. Skip(from) = CHOOSE x \in from .. Len(L) + 1 : P(x)
  BY DEF Skip
<1> HIDE DEF P
<1>6. Skip(from) \in from .. Len(L) + 1 /\ P(Skip(from))
  BY <1>4, <1>5
<1> QED BY <1>6 DEF P

-----------------------------------------------------------------------------
(* The conditions on positions, id by id *)

\* An entry the batch may pass: emitted, or named among the first k ids
Covered(k, p) == Emitted(L[p]) \/ \E j \in 1 .. k : ids[j] = L[p].id

\* The i-th id is known, in order, overtakes nothing and has a state in S.
KnownAt(i, S) ==
  /\ Has(L, ids[i])
  /\ \A j \in 1 .. i - 1 : Has(L, ids[j]) /\ At(L, ids[j]) < At(L, ids[i])
  /\ \A p \in 1 .. At(L, ids[i]) - 1 : Covered(i - 1, p)
  /\ L[At(L, ids[i])].state \in S

\* The i-th id is unknown, and everything the ledger knows is covered.
UnknownAt(i) == ~Has(L, ids[i]) /\ \A p \in 1 .. Len(L) : Covered(i - 1, p)

\* A release batch, id by id.
LEMMA ReleaseByIds ==
  ASSUME Input
  PROVE  ReleaseBatchOK(L, ids)
           <=> \A i \in 1 .. Len(ids) : KnownAt(i, EmittedStates \cup {"READY"})
BY BatchFacts DEF ReleaseBatchOK, NoOvertaking, Known, KnownAt, Covered

\* The known ids of a replay or a fallback batch, and the unknown ones.
LEMMA OrderByIds ==
  ASSUME Input, NEW S
  PROVE  NoOvertaking(L, ids) /\ UnknownLast(L, ids) /\ Known(L, ids, S)
           <=> \A i \in 1 .. Len(ids) : KnownAt(i, S) \/ UnknownAt(i)
BY BatchFacts, LedgerFacts DEF NoOvertaking, UnknownLast, Known, KnownAt, UnknownAt, Covered

-----------------------------------------------------------------------------
(* The loops of a release and of a replay batch *)

\* The variables of the three loops
LoopVars == [ok : BOOLEAN, frontier : Nat, previous : Nat, missing : Nat]

\* What a loop that goes on knows after k ids.
Tracks(acc, k) ==
  /\ acc.missing <= k
  /\ \A j \in 1 .. k : Has(L, ids[j]) <=> j <= k - acc.missing
  /\ \A j \in 1 .. k : Has(L, ids[j]) => At(L, ids[j]) <= acc.previous
  /\ acc.previous # 0 =>
       \E j \in 1 .. k : Has(L, ids[j]) /\ At(L, ids[j]) = acc.previous
  /\ acc.missing = 0 =>
       /\ acc.frontier \in 1 .. Len(L) + 1 /\ acc.previous < acc.frontier
       /\ acc.frontier = Len(L) + 1 \/ ~Emitted(L[acc.frontier])
       /\ \A p \in 1 .. acc.frontier - 1 : Covered(k, p)
  /\ acc.missing # 0 =>
       /\ acc.frontier = Len(L) + acc.missing + 1
       /\ \A p \in 1 .. Len(L) : Covered(k, p)

\* Once covered, always covered.
LEMMA CoveredGrows ==
  ASSUME NEW k \in Nat, NEW j \in 0 .. k, NEW p, Covered(j, p)
  PROVE  Covered(k, p)
BY DEF Covered

\* A known id is taken exactly when its position allows it.
LEMMA StepKnownTracks ==
  ASSUME Input, NEW k \in 1 .. Len(ids), NEW acc \in LoopVars, Tracks(acc, k - 1),
         Has(L, ids[k]), NEW takes, takes \notin EmittedStates, acc.ok
  PROVE  LET x == StepKnown(acc, Found(ids[k]), takes)
         IN /\ x \in LoopVars
            /\ x.ok <=> KnownAt(k, EmittedStates \cup {takes})
            /\ x.ok => Tracks(x, k)
<1> DEFINE at == At(L, ids[k])
<1> DEFINE x == StepKnown(acc, Found(ids[k]), takes)
<1>1. Found(ids[k]) = at /\ at \in 1 .. Len(L) /\ L[at].id = ids[k]
  BY FoundIs
<1>2. Len(L) \in Nat /\ Len(ids) \in Nat /\ k \in Nat /\ k - 1 \in Nat
  BY LedgerFacts, BatchFacts
<1>3. /\ acc.frontier \in Nat /\ acc.previous \in Nat /\ acc.missing \in Nat
  BY DEF LoopVars
<1>4. \A j \in 1 .. k - 1 : Has(L, ids[j]) =>
        At(L, ids[j]) \in 1 .. Len(L) /\ L[At(L, ids[j])].id = ids[j]
  BY FoundIs
<1>5. \A p \in 1 .. Len(L), j \in 1 .. k - 1 : ids[j] = L[p].id =>
        Has(L, ids[j]) /\ At(L, ids[j]) = p
  BY FoundIs
<1> HIDE DEF at
<1>6. CASE at <= acc.previous \/ acc.missing # 0
  <2>1. x = Fail(acc)
    BY <1>1, <1>6 DEF StepKnown
  <2>2. ~KnownAt(k, EmittedStates \cup {takes})
    <3>1. CASE acc.missing # 0
      <4>1. k - 1 \in 1 .. k - 1 /\ ~Has(L, ids[k - 1])
        BY <1>2, <1>3, <3>1 DEF Tracks
      <4> QED BY <4>1 DEF KnownAt
    <3>2. CASE at <= acc.previous
      <4>1. PICK j \in 1 .. k - 1 : Has(L, ids[j]) /\ At(L, ids[j]) = acc.previous
        BY <1>1, <1>3, <3>2 DEF Tracks
      <4> QED BY <1>1, <1>3, <3>2, <4>1 DEF KnownAt, at
    <3> QED BY <1>6, <3>1, <3>2
  <2> QED BY <2>1, <2>2 DEF Fail, LoopVars
<1>7. CASE ~(at <= acc.previous) /\ acc.missing = 0
  <2>1. /\ acc.frontier \in 1 .. Len(L) + 1 /\ acc.previous < acc.frontier
        /\ acc.frontier = Len(L) + 1 \/ ~Emitted(L[acc.frontier])
        /\ \A p \in 1 .. acc.frontier - 1 : Covered(k - 1, p)
        /\ \A j \in 1 .. k - 1 : Has(L, ids[j]) /\ At(L, ids[j]) <= acc.previous
    BY <1>2, <1>7 DEF Tracks
  <2>2. at > acc.frontier => ~Covered(k - 1, acc.frontier)
    <3> SUFFICES ASSUME at > acc.frontier, Covered(k - 1, acc.frontier) PROVE FALSE
      OBVIOUS
    <3>1. acc.frontier \in 1 .. Len(L) /\ ~Emitted(L[acc.frontier])
      BY <1>1, <1>2, <2>1
    <3>2. PICK j \in 1 .. k - 1 : ids[j] = L[acc.frontier].id
      BY <3>1 DEF Covered
    <3>3. At(L, ids[j]) = acc.frontier
      BY <1>5, <3>1, <3>2
    <3> QED BY <1>3, <1>4, <2>1, <3>3
  <2>3. \A j \in 1 .. k - 1 : Has(L, ids[j]) /\ At(L, ids[j]) < at
    BY <1>1, <1>3, <1>4, <1>7, <2>1
  <2>4. CASE Emitted(L[at]) /\ at >= acc.frontier
    <3>1. x = Fail(acc)
      BY <1>1, <1>7, <2>4 DEF StepKnown
    <3>2. at > acc.frontier
      BY <1>1, <1>2, <2>1, <2>4
    <3>3. ~KnownAt(k, EmittedStates \cup {takes})
      BY <1>1, <2>1, <2>2, <3>2 DEF KnownAt, at
    <3> QED BY <3>1, <3>3 DEF Fail, LoopVars
  <2>5. CASE Emitted(L[at]) /\ at < acc.frontier
    <3>1. x = [acc EXCEPT !.previous = at]
      BY <1>1, <1>2, <1>3, <1>7, <2>5 DEF StepKnown
    <3>2. KnownAt(k, EmittedStates \cup {takes})
      <4>1. \A p \in 1 .. at - 1 : Covered(k - 1, p)
        BY <1>1, <2>1, <2>5
      <4> QED BY <2>3, <2>5, <4>1 DEF KnownAt, at, Emitted
    <3>3. x \in LoopVars
      BY <1>1, <3>1 DEF LoopVars
    <3>4. /\ x.missing = 0 /\ x.previous = at /\ x.frontier = acc.frontier
          /\ x.ok = acc.ok
      BY <1>7, <3>1 DEF LoopVars
    <3>5. \A p \in 1 .. acc.frontier - 1 : Covered(k, p)
      BY <1>2, <2>1, CoveredGrows
    <3>6. \A j \in 1 .. k : Has(L, ids[j]) /\ At(L, ids[j]) <= at
      BY <1>1, <1>4, <2>3 DEF at
    <3>7. Tracks(x, k)
      BY <1>2, <2>1, <2>5, <3>4, <3>5, <3>6 DEF Tracks, at
    <3> QED BY <3>2, <3>3, <3>4, <3>7
  <2>6. CASE ~Emitted(L[at]) /\ (L[at].state # takes \/ at # acc.frontier)
    <3>1. x = Fail(acc)
      BY <1>1, <1>7, <2>6 DEF StepKnown
    <3>2. ~KnownAt(k, EmittedStates \cup {takes})
      <4> SUFFICES ASSUME KnownAt(k, EmittedStates \cup {takes}) PROVE FALSE
        OBVIOUS
      <4>1. L[at].state = takes /\ at # acc.frontier
        BY <2>6 DEF KnownAt, Emitted, at
      <4>2. \A p \in 1 .. at - 1 : Covered(k - 1, p)
        BY DEF KnownAt, at
      <4>3. ~(at > acc.frontier)
        BY <1>1, <2>1, <2>2, <4>2
      <4>4. at \in 1 .. acc.frontier - 1
        BY <1>1, <2>1, <4>1, <4>3
      <4>5. PICK j \in 1 .. k - 1 : ids[j] = L[at].id
        BY <2>1, <2>6, <4>4 DEF Covered
      <4>6. At(L, ids[j]) = at
        BY <1>1, <1>5, <4>5
      <4> QED BY <1>1, <2>3, <4>6
    <3> QED BY <3>1, <3>2 DEF Fail, LoopVars
  <2>7. CASE ~Emitted(L[at]) /\ L[at].state = takes /\ at = acc.frontier
    <3>1. x = [acc EXCEPT !.previous = at, !.frontier = Skip(at + 1)]
      BY <1>1, <1>7, <2>7 DEF StepKnown
    <3>2. KnownAt(k, EmittedStates \cup {takes})
      BY <2>1, <2>3, <2>7 DEF KnownAt, at
    <3>3. /\ Skip(at + 1) \in at + 1 .. Len(L) + 1
          /\ Skip(at + 1) = Len(L) + 1 \/ ~Emitted(L[Skip(at + 1)])
          /\ \A i \in at + 1 .. Skip(at + 1) - 1 : Emitted(L[i])
      <4>1. at + 1 \in 1 .. Len(L) + 1
        BY <1>1, <1>2
      <4> QED BY <4>1, SkipIs
    <3> DEFINE f == Skip(at + 1)
    <3> HIDE DEF f
    <3>4. f \in Nat /\ at < f /\ f <= Len(L) + 1
      BY <1>1, <1>2, <3>3 DEF f
    <3>5. x \in LoopVars
      <4>1. at \in Nat
        BY <1>1, <1>2
      <4>2. x = [acc EXCEPT !.previous = at, !.frontier = f]
        BY <3>1 DEF f
      <4> HIDE DEF x
      <4>3. x = [ok |-> acc.ok, frontier |-> f, previous |-> at, missing |-> acc.missing]
        BY <4>2 DEF LoopVars
      <4>4. acc.ok \in BOOLEAN
        BY DEF LoopVars
      <4> HIDE DEF f
      <4> QED BY <1>3, <3>4, <4>1, <4>3, <4>4 DEF LoopVars
    <3>6. x.missing = 0 /\ x.previous = at /\ x.frontier = f /\ x.ok = acc.ok
      BY <1>7, <3>1 DEF LoopVars, f
    <3>7. ASSUME NEW p \in 1 .. f - 1 PROVE Covered(k, p)
      <4>1. CASE p < at
        BY <1>2, <2>1, <2>7, <4>1, CoveredGrows
      <4>2. CASE p = at
        BY <1>1, <1>2, <4>2 DEF Covered
      <4>3. CASE p > at
        <5>1. p \in at + 1 .. f - 1
          BY <1>1, <1>2, <3>4, <4>3
        <5>2. Emitted(L[p])
          BY <3>3, <5>1 DEF f
        <5> QED BY <5>2 DEF Covered
      <4> QED BY <1>1, <3>4, <4>1, <4>2, <4>3
    <3>8. \A j \in 1 .. k : Has(L, ids[j]) /\ At(L, ids[j]) <= at
      BY <1>1, <1>4, <2>3 DEF at
    <3>9. Tracks(x, k)
      BY <1>1, <1>2, <3>3, <3>4, <3>6, <3>7, <3>8 DEF Tracks, at, f
    <3> QED BY <3>2, <3>5, <3>6, <3>9
  <2> QED BY <1>1, <2>1, <2>4, <2>5, <2>6, <2>7
<1> QED BY <1>1, <1>3, <1>6, <1>7

\* An iteration of the release loop.
LEMMA ReleaseStepTracks ==
  ASSUME Input, NEW k \in 1 .. Len(ids), NEW acc \in LoopVars, acc.ok => Tracks(acc, k - 1)
  PROVE  LET x == ReleaseStep(acc, ids[k])
         IN /\ x \in LoopVars
            /\ x.ok <=> acc.ok /\ KnownAt(k, EmittedStates \cup {"READY"})
            /\ x.ok => Tracks(x, k)
<1> DEFINE x == ReleaseStep(acc, ids[k])
<1>1. CASE ~acc.ok \/ ~Has(L, ids[k])
  <2>1. x = Fail(acc)
    BY <1>1, FoundIs DEF ReleaseStep
  <2> QED BY <1>1, <2>1 DEF Fail, LoopVars, KnownAt
<1>2. CASE acc.ok /\ Has(L, ids[k])
  <2>1. x = StepKnown(acc, Found(ids[k]), "READY")
    <3>1. Found(ids[k]) # 0
      BY <1>2, FoundIs
    <3> QED BY <1>2, <3>1 DEF ReleaseStep
  <2>2. "READY" \notin EmittedStates
    BY DEF EmittedStates
  <2> HIDE DEF x
  <2> QED BY <1>2, <2>1, <2>2, StepKnownTracks DEF x
<1> QED BY <1>1, <1>2

\* An iteration of the replay loop.
LEMMA ReplayStepTracks ==
  ASSUME Input, NEW k \in 1 .. Len(ids), NEW acc \in LoopVars, acc.ok => Tracks(acc, k - 1)
  PROVE  LET x == ReplayStep(acc, ids[k])
         IN /\ x \in LoopVars
            /\ x.ok <=> acc.ok /\ (KnownAt(k, EmittedStates \cup {"DISCARDED"}) \/ UnknownAt(k))
            /\ x.ok => Tracks(x, k)
<1> DEFINE x == ReplayStep(acc, ids[k])
<1>1. CASE ~acc.ok
  <2>1. x = acc
    BY <1>1 DEF ReplayStep
  <2> QED BY <1>1, <2>1
<1>2. CASE acc.ok /\ Has(L, ids[k])
  <2>1. x = StepKnown(acc, Found(ids[k]), "DISCARDED")
    <3>1. Found(ids[k]) # 0
      BY <1>2, FoundIs
    <3> QED BY <1>2, <3>1 DEF ReplayStep
  <2>2. "DISCARDED" \notin EmittedStates /\ ~UnknownAt(k)
    BY <1>2 DEF EmittedStates, UnknownAt
  <2> HIDE DEF x
  <2> QED BY <1>2, <2>1, <2>2, StepKnownTracks DEF x
<1>3. CASE acc.ok /\ ~Has(L, ids[k])
  <2>1. Found(ids[k]) = 0 /\ \A S : ~KnownAt(k, S)
    BY <1>3, FoundIs DEF KnownAt
  <2>2. Len(L) \in Nat /\ Len(ids) \in Nat /\ k \in Nat /\ k - 1 \in Nat
    BY LedgerFacts, BatchFacts
  <2>3. /\ acc.frontier \in Nat /\ acc.previous \in Nat /\ acc.missing \in Nat
    BY DEF LoopVars
  <2>4. Tracks(acc, k - 1)
    BY <1>3
  <2>5. CASE acc.frontier # Len(L) + acc.missing + 1
    <3>1. x = Fail(acc)
      BY <1>3, <2>1, <2>5 DEF ReplayStep
    <3>2. acc.frontier \in 1 .. Len(L) /\ ~Emitted(L[acc.frontier])
      BY <2>2, <2>3, <2>4, <2>5 DEF Tracks
    <3>3. ~Covered(k - 1, acc.frontier)
      <4> SUFFICES ASSUME Covered(k - 1, acc.frontier) PROVE FALSE
        OBVIOUS
      <4>1. PICK j \in 1 .. k - 1 : ids[j] = L[acc.frontier].id
        BY <3>2 DEF Covered
      <4>2. Has(L, ids[j]) /\ At(L, ids[j]) = acc.frontier
        BY <3>2, <4>1, FoundIs
      <4> QED BY <2>2, <2>3, <2>4, <2>5, <4>2 DEF Tracks
    <3>4. ~UnknownAt(k)
      BY <3>2, <3>3 DEF UnknownAt
    <3> QED BY <2>1, <3>1, <3>4 DEF Fail, LoopVars
  <2>6. CASE acc.frontier = Len(L) + acc.missing + 1
    <3>1. x = [acc EXCEPT !.missing = acc.missing + 1, !.frontier = acc.frontier + 1]
      BY <1>3, <2>1, <2>6 DEF ReplayStep
    <3>2. \A p \in 1 .. Len(L) : Covered(k - 1, p)
      BY <2>2, <2>3, <2>4, <2>6 DEF Tracks
    <3>3. UnknownAt(k)
      BY <1>3, <3>2 DEF UnknownAt
    <3>4. x \in LoopVars
      <4>1. acc.missing + 1 \in Nat /\ acc.frontier + 1 \in Nat
        BY <2>3
      <4> HIDE DEF x
      <4> QED BY <3>1, <4>1 DEF LoopVars
    <3>5. /\ x.missing = acc.missing + 1 /\ x.frontier = Len(L) + x.missing + 1
          /\ x.previous = acc.previous /\ x.ok
      BY <1>3, <2>2, <2>3, <2>6, <3>1 DEF LoopVars
    <3>6. \A p \in 1 .. Len(L) : Covered(k, p)
      BY <2>2, <3>2, CoveredGrows
    <3>7. \A j \in 1 .. k : Has(L, ids[j]) <=> j <= k - x.missing
      <4>1. k - x.missing = k - 1 - acc.missing
        BY <2>2, <2>3, <3>5
      <4>2. \A j \in 1 .. k : j = k \/ j \in 1 .. k - 1
        BY <2>2
      <4>3. ~(k <= k - x.missing)
        BY <2>2, <2>3, <3>5
      <4> QED BY <1>3, <2>4, <4>1, <4>2, <4>3 DEF Tracks
    <3>8. \A j \in 1 .. k : Has(L, ids[j]) => j \in 1 .. k - 1
      BY <1>3, <2>2
    <3>9. x.missing <= k /\ x.missing # 0
      BY <2>2, <2>3, <2>4, <3>5 DEF Tracks
    <3> HIDE DEF x
    <3>10. Tracks(x, k)
      BY <2>2, <2>4, <3>5, <3>6, <3>7, <3>8, <3>9 DEF Tracks
    <3> QED BY <1>3, <3>3, <3>4, <3>5, <3>10 DEF x
  <2> QED BY <2>5, <2>6
<1> QED BY <1>1, <1>2, <1>3

\* What the loops start with.
LEMMA StartTracks ==
  ASSUME Input
  PROVE  Start \in LoopVars /\ Start.ok /\ Tracks(Start, 0)
<1>1. Len(L) \in Nat /\ 1 \in 1 .. Len(L) + 1
  BY LedgerFacts
<1>2. /\ Skip(1) \in 1 .. Len(L) + 1
      /\ Skip(1) = Len(L) + 1 \/ ~Emitted(L[Skip(1)])
      /\ \A i \in 1 .. Skip(1) - 1 : Emitted(L[i])
  BY <1>1, SkipIs
<1> DEFINE f == Skip(1)
<1>3. Start = [ok |-> TRUE, frontier |-> f, previous |-> 0, missing |-> 0]
  BY DEF Start
<1> HIDE DEF f
<1>4. f \in Nat /\ 0 < f
  BY <1>1, <1>2 DEF f
<1>5. Start \in LoopVars /\ Start.ok
  BY <1>3, <1>4 DEF LoopVars
<1>6. \A p \in 1 .. f - 1 : Covered(0, p)
  BY <1>2 DEF Covered, f
<1>7. Start.frontier = f /\ Start.previous = 0 /\ Start.missing = 0
  BY <1>3
<1>8. Tracks(Start, 0)
  BY <1>1, <1>2, <1>4, <1>6, <1>7 DEF Tracks, f
<1> QED BY <1>5, <1>8

-----------------------------------------------------------------------------
(* The loop of a fallback batch *)

\* What a fallback may leave behind
FallbackStates == EmittedStates \cup IdleStates

\* What the fallback loop knows after k ids.
Covers(acc, k) ==
  /\ acc.previous <= Len(L) + 1
  /\ \A p \in 1 .. Len(L) : p <= acc.previous => Covered(k, p)
  /\ \A j \in 1 .. k : Has(L, ids[j]) => At(L, ids[j]) <= acc.previous
  /\ acc.previous \in 1 .. Len(L) =>
       \E j \in 1 .. k : Has(L, ids[j]) /\ At(L, ids[j]) = acc.previous
  /\ acc.previous > Len(L) <=> \E j \in 1 .. k : ~Has(L, ids[j])

\* Behind its last position, it looks for entries that are not emitted.
LEMMA BehindPrevious ==
  ASSUME Input, NEW k \in 0 .. Len(ids), NEW acc \in LoopVars, Covers(acc, k),
         NEW m \in 0 .. Len(L)
  PROVE  AllEmittedIn(acc.previous + 1, m) <=> \A p \in 1 .. m : Covered(k, p)
<1>1. Len(L) \in Nat /\ Len(ids) \in Nat /\ acc.previous \in Nat
  BY LedgerFacts, BatchFacts DEF LoopVars
<1>2. ASSUME AllEmittedIn(acc.previous + 1, m), NEW p \in 1 .. m PROVE Covered(k, p)
  <2>1. CASE p <= acc.previous
    BY <1>1, <2>1 DEF Covers
  <2>2. CASE ~(p <= acc.previous)
    BY <1>1, <1>2, <2>2 DEF AllEmittedIn, Covered
  <2> QED BY <2>1, <2>2
<1>3. ASSUME \A p \in 1 .. m : Covered(k, p), NEW p \in acc.previous + 1 .. m
      PROVE  Emitted(L[p])
  <2>1. p \in 1 .. m /\ p \in 1 .. Len(L) /\ p > acc.previous
    BY <1>1
  <2> SUFFICES ASSUME ~Emitted(L[p]) PROVE FALSE
    OBVIOUS
  <2>2. PICK j \in 1 .. k : ids[j] = L[p].id
    BY <1>3, <2>1 DEF Covered
  <2>3. Has(L, ids[j]) /\ At(L, ids[j]) = p
    BY <2>1, <2>2, FoundIs
  <2> QED BY <1>1, <2>1, <2>3 DEF Covers
<1> QED BY <1>2, <1>3 DEF AllEmittedIn

\* One iteration of the fallback loop.
LEMMA FallbackStepCovers ==
  ASSUME Input, NEW k \in 1 .. Len(ids), NEW acc \in LoopVars, acc.ok => Covers(acc, k - 1)
  PROVE  LET x == FallbackStep(acc, ids[k])
         IN /\ x \in LoopVars
            /\ x.ok <=> acc.ok /\ (KnownAt(k, FallbackStates) \/ UnknownAt(k))
            /\ x.ok => Covers(x, k)
<1> DEFINE x == FallbackStep(acc, ids[k])
<1>1. CASE ~acc.ok
  <2>1. x = acc
    BY <1>1 DEF FallbackStep
  <2> QED BY <1>1, <2>1
<1>2. Len(L) \in Nat /\ Len(ids) \in Nat /\ k \in Nat /\ k - 1 \in 0 .. Len(ids)
  BY LedgerFacts, BatchFacts
<1>3. acc.previous \in Nat
  BY DEF LoopVars
<1>4. CASE acc.ok /\ ~Has(L, ids[k])
  <2>1. Found(ids[k]) = 0 /\ \A S : ~KnownAt(k, S)
    BY <1>4, FoundIs DEF KnownAt
  <2>2. AllEmittedIn(acc.previous + 1, Len(L)) <=> UnknownAt(k)
    <3>1. Len(L) \in 0 .. Len(L)
      BY <1>2
    <3> QED BY <1>2, <1>4, <3>1, BehindPrevious DEF UnknownAt
  <2>3. CASE ~UnknownAt(k)
    <3>1. x = Fail(acc)
      BY <1>4, <2>1, <2>2, <2>3 DEF FallbackStep
    <3> QED BY <2>1, <2>3, <3>1 DEF Fail, LoopVars
  <2>4. CASE UnknownAt(k)
    <3>1. x = [acc EXCEPT !.previous = Len(L) + 1]
      BY <1>4, <2>1, <2>2, <2>4 DEF FallbackStep
    <3> HIDE DEF x
    <3>2. x \in LoopVars /\ x.ok /\ x.previous = Len(L) + 1
      <4>1. Len(L) + 1 \in Nat
        BY <1>2
      <4> QED BY <1>4, <3>1, <4>1 DEF LoopVars
    <3>3. \A p \in 1 .. Len(L) : Covered(k, p)
      BY <1>2, <2>4, CoveredGrows DEF UnknownAt
    <3>4. \A j \in 1 .. k : Has(L, ids[j]) => At(L, ids[j]) <= Len(L) + 1
      BY <1>2, FoundIs
    <3>5. \E j \in 1 .. k : ~Has(L, ids[j])
      BY <1>2, <1>4
    <3>6. Covers(x, k)
      BY <1>2, <3>2, <3>3, <3>4, <3>5 DEF Covers
    <3> QED BY <1>4, <2>4, <3>2, <3>6 DEF x
  <2> QED BY <2>3, <2>4
<1>5. CASE acc.ok /\ Has(L, ids[k])
  <2> DEFINE at == At(L, ids[k])
  <2>1. Found(ids[k]) = at /\ at \in 1 .. Len(L) /\ L[at].id = ids[k]
    BY <1>5, FoundIs
  <2>2. ~UnknownAt(k) /\ Covers(acc, k - 1)
    BY <1>5 DEF UnknownAt
  <2>3. L[at].state \in InFlightStates <=> L[at].state \notin FallbackStates
    BY <2>1, LedgerFacts
       DEF LedgerStates, FallbackStates, EmittedStates, IdleStates, InFlightStates
  <2>4. AllEmittedIn(acc.previous + 1, at - 1) <=> \A p \in 1 .. at - 1 : Covered(k - 1, p)
    <3>1. at - 1 \in 0 .. Len(L)
      BY <1>2, <2>1
    <3> HIDE DEF at
    <3> QED BY <1>2, <2>2, <3>1, BehindPrevious
  <2> DEFINE bad == \/ acc.previous > Len(L) \/ at <= acc.previous
                    \/ ~AllEmittedIn(acc.previous + 1, at - 1)
                    \/ L[at].state \in InFlightStates
  <2>5. x = IF bad THEN Fail(acc) ELSE [acc EXCEPT !.previous = at]
    <3>1. Found(ids[k]) # 0
      BY <1>2, <2>1
    <3> QED BY <1>5, <2>1, <3>1 DEF FallbackStep
  <2>6. CASE bad
    <3>1. ~KnownAt(k, FallbackStates)
      <4>1. CASE acc.previous > Len(L)
        <5>1. PICK j \in 1 .. k - 1 : ~Has(L, ids[j])
          BY <2>2, <4>1 DEF Covers
        <5> QED BY <5>1 DEF KnownAt
      <4>2. CASE ~(acc.previous > Len(L)) /\ at <= acc.previous
        <5>1. acc.previous \in 1 .. Len(L)
          BY <1>2, <1>3, <2>1, <4>2
        <5>2. PICK j \in 1 .. k - 1 : Has(L, ids[j]) /\ At(L, ids[j]) = acc.previous
          BY <2>2, <5>1 DEF Covers
        <5> QED BY <1>2, <1>3, <2>1, <4>2, <5>2 DEF KnownAt
      <4>3. CASE ~AllEmittedIn(acc.previous + 1, at - 1)
        BY <2>4, <4>3 DEF KnownAt
      <4>4. CASE L[at].state \in InFlightStates
        BY <2>3, <4>4 DEF KnownAt
      <4> QED BY <2>6, <4>1, <4>2, <4>3, <4>4
    <3>2. x = Fail(acc)
      BY <2>5, <2>6
    <3> QED BY <2>2, <3>1, <3>2 DEF Fail, LoopVars
  <2>7. CASE ~bad
    <3>1. x = [acc EXCEPT !.previous = at]
      BY <2>5, <2>7
    <3>2. /\ ~(acc.previous > Len(L)) /\ at > acc.previous
          /\ \A p \in 1 .. at - 1 : Covered(k - 1, p)
          /\ L[at].state \in FallbackStates
      BY <1>2, <1>3, <2>1, <2>3, <2>4, <2>7
    <3>3. \A j \in 1 .. k - 1 : Has(L, ids[j]) /\ At(L, ids[j]) \in 1 .. Len(L)
                               /\ At(L, ids[j]) <= acc.previous
      BY <2>2, <3>2, FoundIs DEF Covers
    <3> HIDE DEF x, bad, at
    <3>4. x \in LoopVars /\ x.ok /\ x.previous = at
      <4>1. at \in Nat
        BY <1>2, <2>1
      <4> QED BY <1>5, <3>1, <4>1 DEF LoopVars
    <3>5. \A j \in 1 .. k - 1 : At(L, ids[j]) < at
      BY <1>2, <1>3, <2>1, <3>2, <3>3
    <3>6. KnownAt(k, FallbackStates)
      BY <1>5, <3>2, <3>3, <3>5 DEF KnownAt, at
    <3>7. \A p \in 1 .. at : Covered(k, p)
      <4>1. \A p \in 1 .. at - 1 : Covered(k, p)
        BY <1>2, <3>2, CoveredGrows
      <4>2. Covered(k, at)
        BY <1>2, <2>1 DEF Covered
      <4> QED BY <1>2, <2>1, <4>1, <4>2
    <3>8. \A j \in 1 .. k : Has(L, ids[j]) /\ At(L, ids[j]) <= at
      <4>1. \A j \in 1 .. k : j = k \/ j \in 1 .. k - 1
        BY <1>2
      <4>2. At(L, ids[k]) = at /\ at \in Nat
        BY <1>2, <2>1 DEF at
      <4> QED BY <1>2, <1>5, <3>3, <3>5, <4>1, <4>2
    <3>9. Covers(x, k)
      <4>1. k \in 1 .. k /\ At(L, ids[k]) = at
        BY <1>2 DEF at
      <4>2. at <= Len(L) /\ at \in Nat
        BY <1>2, <2>1
      <4> QED BY <1>2, <1>5, <3>4, <3>7, <3>8, <4>1, <4>2 DEF Covers
    <3> QED BY <1>5, <3>4, <3>6, <3>9 DEF x
  <2> QED BY <2>6, <2>7
<1> QED BY <1>1, <1>4, <1>5

-----------------------------------------------------------------------------
(* The loops decide what the conditions say *)

\* The release loop accepts what ReleaseBatchOK describes.
LEMMA ReleaseAgrees ==
  ASSUME Input
  PROVE  ReleaseWalk <=> ReleaseBatchOK(L, ids)
<1> DEFINE OK(i) == KnownAt(i, EmittedStates \cup {"READY"})
<1>1. ids \in Seq(UpdateIds) /\ Len(ids) \in Nat
  BY BatchFacts
<1>2. PICK w : /\ IsLoop("release", 0, Start, ids, w)
               /\ w[Len(ids)] = FoldLeft(ReleaseStep, Start, ids)
  BY <1>1, ReleaseLoop
<1> DEFINE T == {k \in Nat : /\ w[k] \in LoopVars /\ (w[k].ok => Tracks(w[k], k))
                             /\ w[k].ok <=> \A i \in 1 .. k : OK(i)}
<1>3. 0 \in T
  BY <1>2, StartTracks DEF IsLoop
<1>4. ASSUME NEW k \in 1 .. Len(ids), k - 1 \in T PROVE k \in T
  <2>1. w[k] = ReleaseStep(w[k - 1], ids[k])
    BY <1>2 DEF IsLoop, After
  <2>2. /\ w[k] \in LoopVars /\ (w[k].ok => Tracks(w[k], k))
        /\ w[k].ok <=> w[k - 1].ok /\ OK(k)
    <3>1. w[k - 1] \in LoopVars /\ (w[k - 1].ok => Tracks(w[k - 1], k - 1))
      <4> HIDE DEF OK
      <4> QED BY <1>4
    <3> QED BY <2>1, <3>1, ReleaseStepTracks
  <2>3. (\A i \in 1 .. k : OK(i)) <=> (\A i \in 1 .. k - 1 : OK(i)) /\ OK(k)
    <3>1. k \in 1 .. k /\ \A i \in 1 .. k : i = k \/ i \in 1 .. k - 1
      BY <1>1
    <3>2. \A i \in 1 .. k - 1 : i \in 1 .. k
      BY <1>1
    <3> HIDE DEF OK
    <3> QED BY <3>1, <3>2
  <2> HIDE DEF OK
  <2> QED BY <1>1, <1>4, <2>2, <2>3
<1> HIDE DEF T
<1>5. Len(ids) \in T
  <2>1. \A i \in 0 .. Len(ids) : i \in T
    BY <1>1, <1>3, <1>4, Climbs
  <2> QED BY <1>1, <2>1
<1>6. w[Len(ids)].ok <=> ReleaseBatchOK(L, ids)
  BY <1>5, ReleaseByIds DEF T
<1> QED BY <1>2, <1>6 DEF ReleaseWalk

\* The replay loop accepts what ReplayBatchOK describes.
LEMMA ReplayAgrees ==
  ASSUME Input, NEW limit \in Nat
  PROVE  ReplayWalk(limit) <=>
           ReplayBatchOK(L, ids, [k \in DOMAIN ids |-> "s"], limit)
<1> DEFINE S == EmittedStates \cup {"DISCARDED"}
<1> DEFINE OK(i) == KnownAt(i, S) \/ UnknownAt(i)
<1>1. /\ ids \in Seq(UpdateIds) /\ Len(ids) \in Nat /\ DOMAIN ids = 1 .. Len(ids)
      /\ Len(ids) <= MaxIds
  BY BatchFacts
<1>2. PICK w : IsLoop("replay", 0, Start, ids, w) /\ w[Len(ids)] = FoldLeft(ReplayStep, Start, ids)
  BY <1>1, ReplayLoop
<1> DEFINE T == {k \in Nat : /\ w[k] \in LoopVars /\ (w[k].ok => Tracks(w[k], k))
                             /\ w[k].ok <=> \A i \in 1 .. k : OK(i)}
<1>3. 0 \in T
  BY <1>2, StartTracks DEF IsLoop
<1>4. ASSUME NEW k \in 1 .. Len(ids), k - 1 \in T PROVE k \in T
  <2>1. w[k] = ReplayStep(w[k - 1], ids[k])
    BY <1>2 DEF IsLoop, After
  <2>2. /\ w[k] \in LoopVars /\ (w[k].ok => Tracks(w[k], k))
        /\ w[k].ok <=> w[k - 1].ok /\ OK(k)
    <3>1. w[k - 1] \in LoopVars /\ (w[k - 1].ok => Tracks(w[k - 1], k - 1))
      <4> HIDE DEF OK
      <4> QED BY <1>4
    <3> QED BY <2>1, <3>1, ReplayStepTracks
  <2>3. (\A i \in 1 .. k : OK(i)) <=> (\A i \in 1 .. k - 1 : OK(i)) /\ OK(k)
    <3>1. k \in 1 .. k /\ \A i \in 1 .. k : i = k \/ i \in 1 .. k - 1
      BY <1>1
    <3>2. \A i \in 1 .. k - 1 : i \in 1 .. k
      BY <1>1
    <3> HIDE DEF OK
    <3> QED BY <3>1, <3>2
  <2> HIDE DEF OK
  <2> QED BY <1>1, <1>4, <2>2, <2>3
<1> HIDE DEF T
<1>5. Len(ids) \in T
  <2>1. \A i \in 0 .. Len(ids) : i \in T
    BY <1>1, <1>3, <1>4, Climbs
  <2> QED BY <1>1, <2>1
<1> DEFINE acc == w[Len(ids)]
<1>6. acc \in LoopVars /\ (acc.ok => Tracks(acc, Len(ids)))
  <2> HIDE DEF OK
  <2> QED BY <1>5 DEF T
<1>7. acc.ok <=> NoOvertaking(L, ids) /\ UnknownLast(L, ids) /\ Known(L, ids, S)
  <2>1. acc.ok <=> \A i \in 1 .. Len(ids) : OK(i)
    <3> HIDE DEF OK
    <3> QED BY <1>5 DEF T
  <2> HIDE DEF S, acc
  <2> QED BY <2>1, OrderByIds
<1>8. ASSUME acc.ok
      PROVE  acc.missing <= limit - Len(L) <=>
               \E n \in 0 .. Len(ids) :
                 KnownFirst(L, ids, n) /\ Len(L) + (Len(ids) - n) <= limit
  <2> DEFINE known == Len(ids) - acc.missing
  <2>1. /\ acc.missing \in 0 .. Len(ids)
        /\ \A j \in 1 .. Len(ids) : Has(L, ids[j]) <=> j <= known
    BY <1>1, <1>6, <1>8 DEF Tracks, LoopVars
  <2>2. known \in 0 .. Len(ids) /\ KnownFirst(L, ids, known)
    BY <1>1, <2>1 DEF KnownFirst
  <2>3. Len(L) \in Nat
    BY LedgerFacts
  <2>4. ASSUME NEW n \in 0 .. Len(ids), KnownFirst(L, ids, n) PROVE n = known
    <3>1. \A j \in 1 .. Len(ids) : j <= n <=> j <= known
      BY <1>1, <2>1, <2>4 DEF KnownFirst
    <3>2. n \in Nat /\ known \in Nat /\ n <= Len(ids) /\ known <= Len(ids)
      BY <1>1, <2>2
    <3> HIDE DEF known
    <3>3. ~(n < known)
      <4>1. n < known => n + 1 \in 1 .. Len(ids) /\ n + 1 <= known /\ ~(n + 1 <= n)
        BY <1>1, <3>2
      <4> QED BY <3>1, <4>1
    <3>4. ~(known < n)
      <4>1. known < n => known + 1 \in 1 .. Len(ids) /\ known + 1 <= n /\ ~(known + 1 <= known)
        BY <1>1, <3>2
      <4> QED BY <3>1, <4>1
    <3> QED BY <3>2, <3>3, <3>4
  <2>5. acc.missing <= limit - Len(L) <=> Len(L) + (Len(ids) - known) <= limit
    BY <1>1, <2>1, <2>3
  <2> HIDE DEF known
  <2> QED BY <2>2, <2>4, <2>5
<1>9. \A k \in DOMAIN ids : Has(L, ids[k]) =>
        L[At(L, ids[k])].sub = [j \in DOMAIN ids |-> "s"][k]
  BY FoundIs, LedgerFacts
<1>10. ReplayWalk(limit) <=> Distinct(ids) /\ acc.ok /\ acc.missing <= limit - Len(L)
  BY <1>2 DEF ReplayWalk
<1> HIDE DEF acc
<1> QED BY <1>7, <1>8, <1>9, <1>10 DEF ReplayBatchOK

\* The fallback loop, with its look at the end, accepts what FallbackOK describes.
LEMMA FallbackAgrees ==
  ASSUME Input
  PROVE  FallbackWalk <=> FallbackOK(L, ids)
<1> DEFINE OK(i) == KnownAt(i, FallbackStates) \/ UnknownAt(i)
<1>1. ids \in Seq(UpdateIds) /\ Len(ids) \in Nat /\ DOMAIN ids = 1 .. Len(ids)
  BY BatchFacts
<1>2. PICK w : /\ IsLoop("fallback", 0, Start, ids, w)
               /\ w[Len(ids)] = FoldLeft(FallbackStep, Start, ids)
  BY <1>1, FallbackLoop
<1> DEFINE T == {k \in Nat : /\ w[k] \in LoopVars /\ (w[k].ok => Covers(w[k], k))
                             /\ w[k].ok <=> \A i \in 1 .. k : OK(i)}
<1>3. 0 \in T
  <2>1. Start \in LoopVars /\ Start.ok /\ Start.previous = 0
    BY StartTracks DEF Start
  <2>2. Covers(Start, 0)
    BY <2>1, LedgerFacts DEF Covers
  <2> QED BY <1>2, <2>1, <2>2 DEF IsLoop
<1>4. ASSUME NEW k \in 1 .. Len(ids), k - 1 \in T PROVE k \in T
  <2>1. w[k] = FallbackStep(w[k - 1], ids[k])
    BY <1>2 DEF IsLoop, After
  <2>2. /\ w[k] \in LoopVars /\ (w[k].ok => Covers(w[k], k))
        /\ w[k].ok <=> w[k - 1].ok /\ OK(k)
    <3>1. w[k - 1] \in LoopVars /\ (w[k - 1].ok => Covers(w[k - 1], k - 1))
      <4> HIDE DEF OK
      <4> QED BY <1>4
    <3> QED BY <2>1, <3>1, FallbackStepCovers
  <2>3. (\A i \in 1 .. k : OK(i)) <=> (\A i \in 1 .. k - 1 : OK(i)) /\ OK(k)
    <3>1. k \in 1 .. k /\ \A i \in 1 .. k : i = k \/ i \in 1 .. k - 1
      BY <1>1
    <3>2. \A i \in 1 .. k - 1 : i \in 1 .. k
      BY <1>1
    <3> HIDE DEF OK
    <3> QED BY <3>1, <3>2
  <2> HIDE DEF OK
  <2> QED BY <1>1, <1>4, <2>2, <2>3
<1> HIDE DEF T
<1>5. Len(ids) \in T
  <2>1. \A i \in 0 .. Len(ids) : i \in T
    BY <1>1, <1>3, <1>4, Climbs
  <2> QED BY <1>1, <2>1
<1> DEFINE acc == w[Len(ids)]
<1>6. acc \in LoopVars /\ (acc.ok => Covers(acc, Len(ids)))
  <2> HIDE DEF OK
  <2> QED BY <1>5 DEF T
<1>7. acc.ok <=> /\ NoOvertaking(L, ids) /\ UnknownLast(L, ids)
                 /\ Known(L, ids, FallbackStates)
  <2>1. acc.ok <=> \A i \in 1 .. Len(ids) : OK(i)
    <3> HIDE DEF OK
    <3> QED BY <1>5 DEF T
  <2> HIDE DEF acc
  <2> QED BY <2>1, OrderByIds
<1>8. acc.ok => (AllEmittedIn(acc.previous + 1, Len(L))
                   <=> \A p \in 1 .. Len(L) : Covered(Len(ids), p))
  <2>1. Len(L) \in 0 .. Len(L) /\ Len(ids) \in 0 .. Len(ids)
    BY <1>1, LedgerFacts
  <2> HIDE DEF acc
  <2> QED BY <1>6, <2>1, BehindPrevious
<1>9. FallbackWalk <=> Distinct(ids) /\ acc.ok /\ AllEmittedIn(acc.previous + 1, Len(L))
  BY <1>2 DEF FallbackWalk
<1>10. (\A p \in 1 .. Len(L) : Covered(Len(ids), p))
         <=> \A p \in DOMAIN L : Emitted(L[p]) \/ \E k \in DOMAIN ids : ids[k] = L[p].id
  BY <1>1, LedgerFacts DEF Covered
<1> HIDE DEF acc
<1> QED BY <1>7, <1>8, <1>9, <1>10 DEF FallbackOK, FallbackStates

-----------------------------------------------------------------------------
\* The three loops of express_vk_flime.c accept exactly the batches that the
\* conditions of FlimeLedgerOps describe, for every ledger and every batch of
\* any length: what the other modules say with these conditions is what the code
\* decides.
THEOREM LoopsAgree == ASpec => []WalksAgree
<1>1. AInit => Input
  <2> DEFINE E == [id : UpdateIds, sub : {"s"}, state : LedgerStates]
  <2>1. 0 \in 0 .. MaxLedger /\ <<>> \in [1 .. 0 -> E]
    BY AlgorithmAssumption
  <2>2. <<>> \in Ledgers
    BY <2>1 DEF Ledgers
  <2>3. Idle => Input
    BY <2>2 DEF Idle, Input
  <2>4. Init => Input
    BY DEF Init, Input
  <2> QED BY <2>3, <2>4 DEF AInit
<1>2. Input /\ [ANext]_avars => Input'
  <2> SUFFICES ASSUME Input, [ANext]_avars PROVE Input'
    OBVIOUS
  <2>1. CASE Batch
    BY <2>1 DEF Batch, Next, Input, Ledgers, Batches
  <2>2. CASE UNCHANGED <<L, ids>>
    BY <2>2 DEF Input, Ledgers, Batches
  <2> QED
    BY <2>1, <2>2 DEF ANext, avars, NoteSignature, ProfileUnit, RecordCalls, Observe,
                      EncodeWord, QueueElement, PackCalls
<1>3. ASSUME Input PROVE WalksAgree
  <2>1. \A limit \in Len(L) .. MaxLedger : limit \in Nat
    BY <1>3, LedgerFacts, AlgorithmAssumption
  <2> QED BY <1>3, <2>1, ReleaseAgrees, ReplayAgrees, FallbackAgrees DEF WalksAgree
<1> QED BY <1>1, <1>2, <1>3, PTL DEF ASpec

-----------------------------------------------------------------------------
(* Sequences of sequences *)

\* What FlattenSeq chooses: the first i sequences, one behind the other.
IsFlat(seqs, n, f) ==
  f = [i \in 1 .. n |-> IF i = 1 THEN seqs[i] ELSE f[i-1] \o seqs[i]]

\* There is such a function.
LEMMA FlatExists ==
  ASSUME NEW seqs, NEW n \in Nat
  PROVE  \E f : IsFlat(seqs, n, f)
<1> DEFINE T == {i \in Nat : \E f : IsFlat(seqs, i, f)}
<1>1. 0 \in T
  <2> DEFINE f == [i \in 1 .. 0 |-> seqs[i]]
  <2>1. f = [i \in 1 .. 0 |-> IF i = 1 THEN seqs[i] ELSE f[i-1] \o seqs[i]]
    OBVIOUS
  <2> HIDE DEF f
  <2> QED BY <2>1 DEF IsFlat
<1>2. ASSUME NEW x \in 1 .. n, x - 1 \in T PROVE x \in T
  <2>1. PICK f : IsFlat(seqs, x - 1, f)
    BY <1>2
  <2> DEFINE h == [i \in 1 .. x |->
                     IF i = x THEN (IF x = 1 THEN seqs[x] ELSE f[x - 1] \o seqs[x]) ELSE f[i]]
  <2>2. ASSUME NEW i \in 1 .. x PROVE h[i] = IF i = 1 THEN seqs[i] ELSE h[i-1] \o seqs[i]
    <3>1. CASE i = x
      BY <3>1
    <3>2. CASE i # x
      <4>1. i \in 1 .. x - 1 /\ i \in Int /\ (i # 1 => i - 1 \in 1 .. x /\ i - 1 # x)
        BY <3>2
      <4>2. f[i] = IF i = 1 THEN seqs[i] ELSE f[i-1] \o seqs[i]
        BY <2>1, <4>1 DEF IsFlat
      <4>3. h[i] = f[i] /\ (i # 1 => h[i-1] = f[i-1])
        BY <3>2, <4>1
      <4> HIDE DEF h
      <4> QED BY <4>2, <4>3
    <3> QED BY <3>1, <3>2
  <2>3. h = [i \in 1 .. x |-> IF i = 1 THEN seqs[i] ELSE h[i-1] \o seqs[i]]
    BY <2>2
  <2> HIDE DEF h
  <2>4. IsFlat(seqs, x, h)
    BY <2>3 DEF IsFlat
  <2> QED BY <2>4
<1> HIDE DEF T
<1>3. n \in T
  <2>1. \A i \in 0 .. n : i \in T
    BY <1>1, <1>2, Climbs
  <2> QED BY <2>1
<1> QED BY <1>3 DEF T

\* FlattenSeq goes from one sequence to the next.
LEMMA FlattenIs ==
  ASSUME NEW seqs, Len(seqs) \in Nat \ {0}
  PROVE  \E f : IsFlat(seqs, Len(seqs), f) /\ FlattenSeq(seqs) = f[Len(seqs)]
<1> DEFINE P(f) == IsFlat(seqs, Len(seqs), f)
<1>1. FlattenSeq(seqs) = (CHOOSE f : P(f))[Len(seqs)]
  BY DEF FlattenSeq, IsFlat
<1>2. \E f : P(f)
  BY FlatExists
<1> HIDE DEF P
<1>3. P(CHOOSE f : P(f))
  BY <1>2
<1> QED BY <1>1, <1>3 DEF P

\* One more sequence comes behind the others.
LEMMA FlattenAppend ==
  ASSUME NEW S, NEW seqs \in Seq(Seq(S)), NEW x \in Seq(S)
  PROVE  /\ FlattenSeq(<<>>) = <<>>
         /\ FlattenSeq(seqs) \in Seq(S)
         /\ FlattenSeq(Append(seqs, x)) = FlattenSeq(seqs) \o x
<1> DEFINE n == Len(seqs)
           all == Append(seqs, x)
<1>1. FlattenSeq(<<>>) = <<>>
  BY DEF FlattenSeq
<1>2. /\ n \in Nat /\ DOMAIN seqs = 1 .. n /\ \A i \in 1 .. n : seqs[i] \in Seq(S)
      /\ Len(all) = n + 1 /\ all[n + 1] = x /\ \A i \in 1 .. n : all[i] = seqs[i]
  OBVIOUS
<1> HIDE DEF all, n
<1>3. PICK g : IsFlat(all, n + 1, g) /\ FlattenSeq(all) = g[n + 1]
  BY <1>2, FlattenIs
<1>4. CASE n = 0
  <2>1. seqs = <<>> /\ FlattenSeq(seqs) = <<>>
    BY <1>1, <1>4 DEF n
  <2>2. g[1] = x
    <3>1. 1 \in 1 .. n + 1
      BY <1>4
    <3>2. g[1] = all[1]
      BY <1>3, <3>1 DEF IsFlat
    <3> QED BY <1>2, <1>4, <3>2
  <2>3. <<>> \o x = x
    BY ConcatEmptySeq
  <2>4. <<>> \in Seq(S) /\ FlattenSeq(all) = x
    BY <1>3, <1>4, <2>2
  <2> QED BY <1>1, <2>1, <2>3, <2>4 DEF all
<1>5. CASE n # 0
  <2>1. PICK f : IsFlat(seqs, n, f) /\ FlattenSeq(seqs) = f[n]
    BY <1>2, <1>5, FlattenIs DEF n
  <2> DEFINE T == {i \in Nat : i = 0 \/ (f[i] = g[i] /\ f[i] \in Seq(S))}
  <2>2. 0 \in T
    OBVIOUS
  <2>3. ASSUME NEW i \in 1 .. n, i - 1 \in T PROVE i \in T
    <3>0. i \in 1 .. n + 1 /\ i \in Nat
      BY <1>2
    <3>1. f[i] = IF i = 1 THEN seqs[i] ELSE f[i-1] \o seqs[i]
      BY <2>1 DEF IsFlat
    <3>5. g[i] = IF i = 1 THEN all[i] ELSE g[i-1] \o all[i]
      BY <1>3, <3>0 DEF IsFlat
    <3>2. all[i] = seqs[i] /\ seqs[i] \in Seq(S)
      BY <1>2
    <3>3. CASE i = 1
      BY <3>0, <3>1, <3>2, <3>3, <3>5
    <3>4. CASE i # 1
      <4>1. f[i-1] = g[i-1] /\ f[i-1] \in Seq(S)
        BY <2>3, <3>4
      <4>2. f[i] = f[i-1] \o seqs[i] /\ g[i] = f[i-1] \o seqs[i]
        BY <3>1, <3>2, <3>4, <3>5, <4>1
      <4>3. f[i-1] \o seqs[i] \in Seq(S)
        BY <3>2, <4>1, ConcatProperties
      <4> QED BY <3>0, <4>2, <4>3
    <3> QED BY <3>3, <3>4
  <2> HIDE DEF T
  <2>4. n \in T
    <3>1. \A i \in 0 .. n : i \in T
      BY <1>2, <2>2, <2>3, Climbs
    <3> QED BY <1>2, <3>1
  <2>5. f[n] = g[n] /\ f[n] \in Seq(S)
    BY <1>5, <2>4 DEF T
  <2>6. g[n + 1] = g[n] \o x
    <3>1. n + 1 \in 1 .. n + 1 /\ n + 1 # 1 /\ (n + 1) - 1 = n
      BY <1>2, <1>5
    <3>2. g[n + 1] = g[(n + 1) - 1] \o all[n + 1]
      BY <1>3, <3>1 DEF IsFlat
    <3> QED BY <1>2, <3>1, <3>2
  <2> QED BY <1>1, <1>3, <2>1, <2>5, <2>6 DEF all
<1> QED BY <1>4, <1>5

-----------------------------------------------------------------------------
(* The elements of a queue *)

\* An element of a queue
Element == [head : BOOLEAN, params : Nat, at : Nat]

\* A call is a head and the elements it announces.
WellFormed(s) ==
  \A i \in 1 .. Len(s) :
    /\ s[i].head => \A h \in 1 .. i - 1 : s[h].head => h + s[h].params < i
    /\ ~s[i].head => \E h \in 1 .. i - 1 : s[h].head /\ i <= h + s[h].params

\* Every call that begins within the first q elements ends there.
Boundary(s, q) == \A h \in 1 .. q : s[h].head => h + s[h].params <= q

\* The next element of a well-formed queue begins a call exactly when none waits.
LEMMA WantedIs ==
  ASSUME NEW s \in Seq(Element), WellFormed(s)
  PROVE  /\ Wanted(s) = 0 <=> Boundary(s, Len(s))
         /\ ~Boundary(s, Len(s)) =>
              \E h \in 1 .. Len(s) : s[h].head /\ Len(s) < h + s[h].params
<1> DEFINE n == Len(s)
<1>1. n \in Nat /\ DOMAIN s = 1 .. n /\ \A i \in 1 .. n : s[i] \in Element
  OBVIOUS
<1>2. \A i \in 1 .. n : s[i].params \in Nat
  BY <1>1 DEF Element
<1> HIDE DEF n
<1>3. CASE Heads(s) = {}
  BY <1>1, <1>3 DEF Heads, Wanted, Boundary, n
<1>4. CASE Heads(s) # {}
  <2> DEFINE U == {n - i : i \in Heads(s)}
  <2>1. U \in SUBSET Nat /\ U # {}
    BY <1>1, <1>4 DEF Heads
  <2>2. PICK u \in U : \A y \in U : u <= y
    <3> HIDE DEF U
    <3> QED BY <2>1, NatMin
  <2>3. PICK m \in Heads(s) : u = n - m
    BY <2>2
  <2>4. m \in 1 .. n /\ s[m].head /\ \A i \in Heads(s) : i <= m
    <3>1. m \in 1 .. n /\ s[m].head /\ Heads(s) \subseteq 1 .. n
      BY <1>1, <2>3 DEF Heads
    <3>2. ASSUME NEW i \in Heads(s) PROVE i <= m
      <4>1. n - i \in U /\ i \in Int
        BY <3>1, <3>2
      <4>2. n - m <= n - i
        BY <2>2, <2>3, <4>1
      <4> QED BY <1>1, <3>1, <4>1, <4>2
    <3> QED BY <3>1, <3>2
  <2>5. Heads(s) \subseteq Int /\ m \in Int
    BY <1>1, <2>4 DEF Heads
  <2>6. Max(Heads(s)) = m
    BY <2>3, <2>4, <2>5, MaxIs
  <2>7. Wanted(s) = m + s[m].params - n
    BY <1>4, <2>6 DEF Wanted, n
  <2>8. \A h \in 1 .. n : s[h].head => h = m \/ (h < m /\ h + s[h].params < m)
    <3>1. \A h \in 1 .. n : s[h].head => h \in Heads(s)
      BY <1>1 DEF Heads
    <3>2. \A h \in 1 .. n : s[h].head => h <= m
      BY <2>4, <3>1
    <3>3. \A h \in 1 .. m - 1 : s[h].head => h + s[h].params < m
      BY <2>4 DEF WellFormed, n
    <3> QED BY <1>1, <2>4, <3>2, <3>3
  <2>9. n <= m + s[m].params
    <3>1. CASE s[n].head
      BY <1>1, <1>2, <2>4, <2>8, <3>1
    <3>2. CASE ~s[n].head
      <4>1. PICK h \in 1 .. n - 1 : s[h].head /\ n <= h + s[h].params
        BY <1>1, <2>4, <3>2 DEF WellFormed, n
      <4>2. h = m
        BY <1>1, <1>2, <2>4, <2>8, <4>1
      <4> QED BY <4>1, <4>2
    <3> QED BY <3>1, <3>2
  <2>10. Boundary(s, n) <=> m + s[m].params <= n
    BY <1>1, <1>2, <2>4, <2>8 DEF Boundary
  <2> QED BY <1>1, <1>2, <2>4, <2>7, <2>9, <2>10 DEF n
<1> QED BY <1>3, <1>4

\* The guest keeps its queue well formed.
LEMMA QueueWellFormed ==
  ASSUME NEW s \in Seq(Element), WellFormed(s), NEW e \in Element,
         e.head <=> Wanted(s) = 0
  PROVE  Append(s, e) \in Seq(Element) /\ WellFormed(Append(s, e))
<1> DEFINE n == Len(s)
           t == Append(s, e)
<1>1. /\ n \in Nat /\ Len(t) = n + 1 /\ t[n + 1] = e /\ t \in Seq(Element)
      /\ \A i \in 1 .. n : t[i] = s[i] /\ s[i] \in Element
  OBVIOUS
<1> HIDE DEF n, t
<1>2. \A i \in 1 .. n : s[i].params \in Nat
  BY <1>1 DEF Element
<1>3. ASSUME NEW i \in 1 .. n
      PROVE  /\ t[i].head => \A h \in 1 .. i - 1 : t[h].head => h + t[h].params < i
             /\ ~t[i].head => \E h \in 1 .. i - 1 : t[h].head /\ i <= h + t[h].params
  BY <1>1 DEF WellFormed, n
<1>4. e.head => \A h \in 1 .. n : t[h].head => h + t[h].params < n + 1
  BY <1>1, <1>2, WantedIs DEF Boundary, n
<1>5. ~e.head => \E h \in 1 .. n : t[h].head /\ n + 1 <= h + t[h].params
  BY <1>1, <1>2, WantedIs DEF n
<1>6. WellFormed(t)
  <2> SUFFICES ASSUME NEW i \in 1 .. n + 1
               PROVE  /\ t[i].head => \A h \in 1 .. i - 1 : t[h].head => h + t[h].params < i
                      /\ ~t[i].head => \E h \in 1 .. i - 1 : t[h].head /\ i <= h + t[h].params
    BY <1>1 DEF WellFormed
  <2>1. CASE i \in 1 .. n
    BY <1>3, <2>1
  <2>2. CASE i = n + 1
    BY <1>1, <1>4, <1>5, <2>2
  <2> QED BY <1>1, <2>1, <2>2
<1> QED BY <1>1, <1>6 DEF t

-----------------------------------------------------------------------------
(* The host takes calls out of the queue *)

\* Where a whole call ends, every call that begins before it has ended.
LEMMA CallEnds ==
  ASSUME NEW s \in Seq(Element), WellFormed(s), NEW b \in 1 .. Len(s), s[b].head,
         b + s[b].params <= Len(s)
  PROVE  Boundary(s, b + s[b].params)
<1>0. \A i \in 1 .. Len(s) : s[i] \in Element
  OBVIOUS
<1>1. \A i \in 1 .. Len(s) : s[i].params \in Nat
  BY <1>0 DEF Element
<1>2. Len(s) \in Nat
  OBVIOUS
<1> SUFFICES ASSUME NEW h \in 1 .. b + s[b].params, s[h].head
             PROVE  h + s[h].params <= b + s[b].params
  BY DEF Boundary
<1>3. h \in 1 .. Len(s)
  BY <1>1, <1>2
<1>4. CASE h < b
  <2>1. h \in 1 .. b - 1
    BY <1>4
  <2>2. h + s[h].params < b
    BY <2>1 DEF WellFormed
  <2> QED BY <1>1, <1>3, <2>2
<1>5. CASE h = b
  BY <1>1, <1>5
<1>6. CASE h > b
  <2>1. b \in 1 .. h - 1
    BY <1>3, <1>6
  <2>2. b + s[b].params < h
    BY <1>3, <2>1 DEF WellFormed
  <2> QED BY <1>1, <2>2
<1> QED BY <1>3, <1>4, <1>5, <1>6

\* Between two calls the next element begins one.
LEMMA NextBegins ==
  ASSUME NEW s \in Seq(Element), WellFormed(s), NEW q \in 0 .. Len(s) - 1, Boundary(s, q)
  PROVE  s[q + 1].head
<1>0. \A i \in 1 .. Len(s) : s[i] \in Element
  OBVIOUS
<1>1. \A i \in 1 .. Len(s) : s[i].params \in Nat
  BY <1>0 DEF Element
<1>2. Len(s) \in Nat /\ q + 1 \in 1 .. Len(s) /\ (q + 1) - 1 = q
  OBVIOUS
<1> SUFFICES ASSUME ~s[q + 1].head PROVE FALSE
  OBVIOUS
<1>3. PICK h \in 1 .. q : s[h].head /\ q + 1 <= h + s[h].params
  BY <1>2 DEF WellFormed
<1>4. h + s[h].params <= q
  BY <1>3 DEF Boundary
<1> QED BY <1>1, <1>2, <1>3, <1>4

\* What is put aside is a call that is not all there.
Aside(held) ==
  /\ held.elems \in Seq(Element) /\ held.remain \in Nat
  /\ held.elems # <<>> /\ held.elems[1].head /\ held.remain > 0
  /\ Len(held.elems) + held.remain = 1 + held.elems[1].params
  /\ held = [elems |-> held.elems, remain |-> held.remain]

\* Handed on, put aside, and in the queue is what the guest sent.
Packed(sent, calls, held, queue) ==
  /\ calls \in Seq(Seq(Element)) /\ queue \in Seq(Element)
  /\ \A n \in DOMAIN calls : Whole(calls[n])
  /\ sent = (FlattenSeq(calls) \o held.elems) \o queue
  /\ \/ held = NoCall /\ Boundary(sent, Len(sent) - Len(queue))
     \/ Aside(held)

\* Concatenation is associative, for the sequences that occur here.
LEMMA Regroup ==
  \A x, y, z \in Seq(Element) : (x \o y) \o z = x \o (y \o z)
BY ConcatAssociative

\* Likewise for calls.
LEMMA RegroupCalls ==
  \A x, y, z \in Seq(Seq(Element)) : (x \o y) \o z = x \o (y \o z)
BY ConcatAssociative

\* Two pieces of a queue, one behind the other.
LEMMA Joined ==
  \A x, y \in Seq(Element) :
    /\ x \o y \in Seq(Element) /\ Len(x \o y) = Len(x) + Len(y)
    /\ \A i \in 1 .. Len(x) : (x \o y)[i] = x[i]
<1> SUFFICES ASSUME NEW x \in Seq(Element), NEW y \in Seq(Element)
             PROVE  /\ x \o y \in Seq(Element) /\ Len(x \o y) = Len(x) + Len(y)
                    /\ \A i \in 1 .. Len(x) : (x \o y)[i] = x[i]
  OBVIOUS
<1>1. Len(x) \in Nat /\ Len(y) \in Nat
  OBVIOUS
<1> QED BY <1>1, ConcatProperties

\* What the loop over the parameters makes of a call that has begun.
Took(p, front, elems, queue) ==
  /\ p.queue \in Seq(Element)
  /\ \/ /\ p.call \in Seq(Element) /\ Whole(p.call) /\ p.call # <<>> /\ p.held = NoCall
        /\ (front \o elems) \o queue = (front \o p.call) \o p.queue
     \/ /\ p.call = <<>> /\ Aside(p.held)
        /\ (front \o elems) \o queue = (front \o p.held.elems) \o p.queue

\* The loop takes what is there, up to the parameters that are wanted.
LEMMA Takes ==
  ASSUME NEW front \in Seq(Element), NEW elems \in Seq(Element), NEW queue \in Seq(Element),
         NEW params \in Nat, elems # <<>>, elems[1].head,
         Len(elems) + params = 1 + elems[1].params
  PROVE  Took(TakeParameters(elems, params, queue), front, elems, queue)
<1>1. Len(elems) \in Nat \ {0} /\ Len(queue) \in Nat /\ Len(front) \in Nat
  OBVIOUS
<1>2. CASE params <= Len(queue)
  <2> DEFINE a == SubSeq(queue, 1, params)
             b == SubSeq(queue, params + 1, Len(queue))
  <2>1. /\ a \in Seq(Element) /\ b \in Seq(Element) /\ Len(a) = params
    <3>1. \A i \in 1 .. Len(queue) : queue[i] \in Element
      OBVIOUS
    <3>2. \A i \in 1 .. params : queue[i] \in Element
      BY <1>1, <1>2, <3>1
    <3>3. \A i \in params + 1 .. Len(queue) : queue[i] \in Element
      BY <1>1, <3>1
    <3>4. a \in Seq(Element) /\ Len(a) = IF 1 <= params THEN params - 1 + 1 ELSE 0
      BY <3>2, SubSeqProperties
    <3>5. b \in Seq(Element)
      BY <1>1, <3>3, SubSeqProperties
    <3> QED BY <3>4, <3>5
  <2>2. a \o b = queue
    <3>1. 1 \in 1 .. Len(queue) + 1 /\ params \in 1 - 1 .. Len(queue)
          /\ Len(queue) \in params .. Len(queue)
      BY <1>1, <1>2
    <3>2. a \o b = SubSeq(queue, 1, Len(queue))
      BY <3>1, ConcatAdjacentSubSeq
    <3> QED BY <3>2, SubSeqFull
  <2> HIDE DEF a, b
  <2> DEFINE call == elems \o a
  <2>3. /\ call \in Seq(Element) /\ Len(call) = Len(elems) + params
        /\ call[1] = elems[1]
    <3>1. 1 \in 1 .. Len(elems)
      BY <1>1
    <3>2. call \in Seq(Element) /\ Len(call) = Len(elems) + Len(a)
      BY <2>1, Joined
    <3>3. call[1] = elems[1]
      BY <2>1, <3>1, Joined
    <3> QED BY <2>1, <3>2, <3>3
  <2>4. (front \o elems) \o queue = (front \o call) \o b
    <3>1. (front \o elems) \in Seq(Element)
      BY Joined
    <3>2. (front \o elems) \o queue = ((front \o elems) \o a) \o b
      BY <2>1, <2>2, <3>1, Regroup
    <3>3. (front \o elems) \o a = front \o call
      BY <2>1, Regroup
    <3> QED BY <3>2, <3>3
  <2>5. Whole(call) /\ call # <<>>
    <3>1. Len(call) # 0
      BY <1>1, <2>3
    <3>2. call # <<>>
      BY <3>1
    <3> HIDE DEF call
    <3> QED BY <2>3, <3>2 DEF Whole
  <2>6. TakeParameters(elems, params, queue)
          = [call |-> call, held |-> NoCall, queue |-> b]
    BY <1>2 DEF TakeParameters, a, b
  <2> HIDE DEF call
  <2> QED BY <2>1, <2>3, <2>4, <2>5, <2>6 DEF Took
<1>3. CASE ~(params <= Len(queue))
  <2> DEFINE held == [elems |-> elems \o queue, remain |-> params - Len(queue)]
  <2>1. /\ elems \o queue \in Seq(Element) /\ Len(elems \o queue) = Len(elems) + Len(queue)
        /\ (elems \o queue)[1] = elems[1]
    BY <1>1, Joined
  <2>2. elems \o queue # <<>>
    <3>1. Len(elems \o queue) # 0
      BY <1>1, <2>1
    <3> QED BY <3>1
  <2>3. Aside(held)
    <3>1. held.elems = elems \o queue /\ held.remain = params - Len(queue)
      OBVIOUS
    <3>2. held = [elems |-> held.elems, remain |-> held.remain]
      OBVIOUS
    <3> HIDE DEF held
    <3>3. held.remain \in Nat /\ held.remain > 0
      BY <1>1, <1>3, <3>1
    <3>4. Len(held.elems) + held.remain = 1 + held.elems[1].params
      <4>1. elems[1] \in Element
        BY <1>1
      <4>2. elems[1].params \in Nat
        BY <4>1 DEF Element
      <4> QED BY <1>1, <2>1, <3>1, <4>2
    <3> QED BY <2>1, <2>2, <3>1, <3>2, <3>3, <3>4 DEF Aside
  <2>4. (front \o elems) \o queue = (front \o held.elems) \o <<>>
    <3>1. (front \o elems) \o queue = front \o (elems \o queue)
      BY Regroup
    <3>2. (front \o (elems \o queue)) \o <<>> = front \o (elems \o queue)
      BY <2>1, Joined, ConcatEmptySeq
    <3> QED BY <3>1, <3>2
  <2>5. TakeParameters(elems, params, queue) = [call |-> <<>>, queue |-> <<>>, held |-> held]
    BY <1>3 DEF TakeParameters
  <2>6. <<>> \in Seq(Element)
    OBVIOUS
  <2> HIDE DEF held
  <2> QED BY <2>3, <2>4, <2>5, <2>6 DEF Took
<1> QED BY <1>2, <1>3

\* The first element goes from the queue to the call.
LEMMA FirstMoves ==
  ASSUME NEW front \in Seq(Element), NEW elems \in Seq(Element), NEW queue \in Seq(Element),
         queue # <<>>
  PROVE  /\ Head(queue) \in Element /\ Tail(queue) \in Seq(Element)
         /\ Append(elems, Head(queue)) \in Seq(Element)
         /\ (front \o elems) \o queue = (front \o Append(elems, Head(queue))) \o Tail(queue)
<1>1. Head(queue) \in Element /\ Tail(queue) \in Seq(Element)
  BY HeadTailProperties
<1>2. Append(elems, Head(queue)) \in Seq(Element)
  BY <1>1, AppendProperties
<1> DEFINE one == <<Head(queue)>>
<1>3. one \in Seq(Element)
  BY <1>1
<1>4. queue = one \o Tail(queue)
  OBVIOUS
<1>5. Append(elems, Head(queue)) = elems \o one
  BY <1>1, AppendIsConcat
<1> HIDE DEF one
<1>6. front \o elems \in Seq(Element)
  BY Joined
<1>7. (front \o elems) \o (one \o Tail(queue)) = ((front \o elems) \o one) \o Tail(queue)
  BY <1>1, <1>3, <1>6, Regroup
<1>8. (front \o elems) \o one = front \o (elems \o one)
  BY <1>3, Regroup
<1> QED BY <1>1, <1>2, <1>4, <1>5, <1>7, <1>8

\* One call taken out of the queue.
LEMMA PackStep ==
  ASSUME NEW sent \in Seq(Element), WellFormed(sent), NEW calls, NEW held, NEW queue,
         Packed(sent, calls, held, queue),
         NEW p, p = PackCall(held, queue)
  PROVE  Packed(sent, IF p.call = <<>> THEN calls ELSE Append(calls, p.call),
                p.held, p.queue)
<1> DEFINE front == FlattenSeq(calls)
<1>1. /\ calls \in Seq(Seq(Element)) /\ queue \in Seq(Element)
      /\ \A n \in DOMAIN calls : Whole(calls[n])
      /\ sent = (front \o held.elems) \o queue
      /\ \/ held = NoCall /\ Boundary(sent, Len(sent) - Len(queue))
         \/ Aside(held)
  BY DEF Packed
<1>2. front \in Seq(Element)
  BY <1>1, FlattenAppend
<1> HIDE DEF front
<1>3. CASE queue = <<>>
  <2>1. p.call = <<>> /\ p.held = held /\ p.queue = queue
    BY <1>3 DEF PackCall
  <2> QED BY <2>1
<1>4. ASSUME queue # <<>>, NEW elems \in Seq(Element), NEW params \in Nat,
             elems # <<>>, elems[1].head, Len(elems) + params = 1 + elems[1].params,
             p = TakeParameters(elems, params, Tail(queue)),
             sent = (front \o elems) \o Tail(queue)
      PROVE  Packed(sent, IF p.call = <<>> THEN calls ELSE Append(calls, p.call),
                    p.held, p.queue)
  <2>1. Tail(queue) \in Seq(Element)
    BY <1>1, <1>4, FirstMoves, <1>2
  <2>2. Took(p, front, elems, Tail(queue))
    BY <1>2, <1>4, <2>1, Takes
  <2>3. CASE /\ p.call \in Seq(Element) /\ Whole(p.call) /\ p.call # <<>> /\ p.held = NoCall
             /\ sent = (front \o p.call) \o p.queue
    <3> DEFINE all == Append(calls, p.call)
    <3>1. /\ all \in Seq(Seq(Element)) /\ FlattenSeq(all) = front \o p.call
          /\ \A n \in DOMAIN all : Whole(all[n])
      <4>1. FlattenSeq(all) = front \o p.call
        BY <1>1, <2>3, FlattenAppend DEF front
      <4>2. /\ all \in Seq(Seq(Element)) /\ Len(all) = Len(calls) + 1
            /\ \A n \in 1 .. Len(calls) : all[n] = calls[n]
            /\ all[Len(calls) + 1] = p.call /\ Len(calls) \in Nat
            /\ DOMAIN calls = 1 .. Len(calls) /\ DOMAIN all = 1 .. Len(all)
        BY <1>1, <2>3
      <4> HIDE DEF all
      <4>3. ASSUME NEW n \in DOMAIN all PROVE Whole(all[n])
        <5>1. n \in 1 .. Len(calls) \/ n = Len(calls) + 1
          BY <4>2
        <5>2. CASE n \in 1 .. Len(calls)
          BY <1>1, <4>2, <5>2
        <5>3. CASE n = Len(calls) + 1
          BY <2>3, <4>2, <5>3
        <5> QED BY <5>1, <5>2, <5>3
      <4> QED BY <4>1, <4>2, <4>3
    <3> HIDE DEF all
    <3>2. p.held.elems = <<>> /\ p.queue \in Seq(Element)
      BY <2>2, <2>3 DEF NoCall, Took
    <3>3. FlattenSeq(all) \o <<>> = FlattenSeq(all)
      BY <1>2, <2>3, <3>1, Joined, ConcatEmptySeq
    <3>4. sent = (FlattenSeq(all) \o p.held.elems) \o p.queue
      BY <2>3, <3>1, <3>2, <3>3
    <3>5. Boundary(sent, Len(sent) - Len(p.queue))
      <4> DEFINE b == Len(front) + 1
      <4>1. /\ front \o p.call \in Seq(Element)
            /\ Len(front \o p.call) = Len(front) + Len(p.call)
            /\ Len(sent) = Len(front) + Len(p.call) + Len(p.queue)
            /\ Len(front) \in Nat /\ Len(p.call) \in Nat \ {0} /\ Len(p.queue) \in Nat
        BY <1>2, <2>3, <3>2, Joined
      <4>2. sent[b] = p.call[1]
        <5>1. b \in 1 .. Len(front \o p.call) /\ b \in 1 .. Len(front) + Len(p.call)
              /\ ~(b <= Len(front)) /\ b - Len(front) = 1
          BY <4>1
        <5>2. sent[b] = (front \o p.call)[b]
          BY <2>3, <3>2, <4>1, <5>1, Joined
        <5>3. (front \o p.call)[b] = IF b <= Len(front) THEN front[b] ELSE p.call[b - Len(front)]
          BY <1>2, <2>3, <5>1, ConcatProperties
        <5> QED BY <5>1, <5>2, <5>3
      <4>3. p.call[1].head /\ Len(p.call) = 1 + p.call[1].params
        BY <2>3 DEF Whole
      <4>4. p.call[1].params \in Nat
        <5>1. p.call[1] \in Element
          BY <2>3, <4>1
        <5> QED BY <5>1 DEF Element
      <4>5. b \in 1 .. Len(sent) /\ sent[b].head /\ b + sent[b].params = Len(sent) - Len(p.queue)
            /\ b + sent[b].params <= Len(sent)
        <5>1. b \in Nat /\ b >= 1 /\ b = Len(front) + 1
          BY <4>1
        <5>2. sent[b].params = p.call[1].params /\ sent[b].head
          BY <4>2, <4>3
        <5> HIDE DEF b
        <5> DEFINE m == p.call[1].params
                   l == Len(p.call)
                   f == Len(front)
                   r == Len(p.queue)
                   t == Len(sent)
        <5>3. /\ m \in Nat /\ l = 1 + m /\ f \in Nat /\ r \in Nat /\ t = f + l + r
              /\ b = f + 1 /\ sent[b].params = m
          BY <4>1, <4>3, <4>4, <5>1, <5>2
        <5> HIDE DEF m, l, f, r, t
        <5>4. b \in 1 .. t /\ b + m = t - r /\ b + m <= t
          BY <5>1, <5>3
        <5> QED BY <4>3, <5>2, <5>3, <5>4 DEF t, r
      <4> HIDE DEF b
      <4>6. Boundary(sent, b + sent[b].params)
        BY <4>5, CallEnds
      <4> QED BY <4>5, <4>6
    <3> QED BY <2>3, <3>1, <3>2, <3>4, <3>5 DEF Packed, all
  <2>4. CASE /\ p.call = <<>> /\ Aside(p.held)
             /\ sent = (front \o p.held.elems) \o p.queue
    BY <1>1, <2>2, <2>4 DEF Packed, Took, front
  <2> QED BY <1>4, <2>2, <2>3, <2>4 DEF Took
<1>5. CASE queue # <<>> /\ Aside(held)
  <2>1. /\ held.elems \in Seq(Element) /\ held.remain \in Nat /\ held.remain > 0
        /\ held.elems # <<>> /\ held.elems[1].head
        /\ Len(held.elems) + held.remain = 1 + held.elems[1].params
    BY <1>5 DEF Aside
  <2> DEFINE elems == Append(held.elems, Head(queue))
  <2>2. /\ elems \in Seq(Element) /\ Head(queue) \in Element
        /\ sent = (front \o elems) \o Tail(queue)
    <3> HIDE DEF elems
    <3>1. /\ Head(queue) \in Element /\ Append(held.elems, Head(queue)) \in Seq(Element)
          /\ (front \o held.elems) \o queue
               = (front \o Append(held.elems, Head(queue))) \o Tail(queue)
      <4> DEFINE begun == held.elems
      <4>1. queue \in Seq(Element) /\ queue # <<>> /\ begun \in Seq(Element)
        BY <1>1, <1>5, <2>1
      <4> HIDE DEF begun
      <4>2. /\ Head(queue) \in Element /\ Append(begun, Head(queue)) \in Seq(Element)
            /\ (front \o begun) \o queue
                 = (front \o Append(begun, Head(queue))) \o Tail(queue)
        <5>1. Head(queue) \in Element
          BY <1>2, <4>1, FirstMoves
        <5>2. Append(begun, Head(queue)) \in Seq(Element)
          BY <4>1, <5>1
        <5>3. (front \o begun) \o queue
                 = (front \o Append(begun, Head(queue))) \o Tail(queue)
          BY <1>2, <4>1, FirstMoves
        <5> QED BY <5>1, <5>2, <5>3
      <4> QED BY <4>2 DEF begun
    <3> QED BY <1>1, <3>1 DEF elems
  <2>3. held # NoCall
    BY <2>1 DEF NoCall
  <2>4. p = TakeParameters(elems, held.remain - 1, Tail(queue))
    BY <1>5, <2>3 DEF PackCall, Resume
  <2>5. Len(elems) = Len(held.elems) + 1 /\ elems[1] = held.elems[1] /\ elems # <<>>
    <3>1. 1 \in 1 .. Len(held.elems) /\ Len(held.elems) \in Nat
      BY <2>1
    <3> QED BY <2>1, <2>2, <3>1
  <2>6. held.remain - 1 \in Nat
    BY <2>1
  <2>7. elems[1].params \in Nat /\ Len(held.elems) \in Nat
    <3>1. elems[1] \in Element
      BY <2>1, <2>5
    <3> QED BY <2>1, <3>1 DEF Element
  <2>8. Len(elems) + (held.remain - 1) = 1 + elems[1].params
    <3> HIDE DEF elems
    <3>1. elems[1].params = held.elems[1].params
      BY <2>5
    <3> DEFINE a == Len(held.elems)
               m == held.elems[1].params
               r == held.remain
    <3>2. a \in Nat /\ m \in Nat /\ r \in Nat /\ a + r = 1 + m
          /\ Len(elems) = a + 1 /\ elems[1].params = m
      BY <2>1, <2>5, <2>7, <3>1
    <3> HIDE DEF a, m, r
    <3>3. Len(elems) + (r - 1) = 1 + elems[1].params
      BY <3>2
    <3> QED BY <3>3 DEF r
  <2> HIDE DEF elems
  <2> QED BY <1>4, <1>5, <2>1, <2>2, <2>4, <2>5, <2>6, <2>8
<1>6. CASE queue # <<>> /\ held = NoCall /\ Boundary(sent, Len(sent) - Len(queue))
  <2> DEFINE q == Len(sent) - Len(queue)
             elems == <<Head(queue)>>
  <2>1. held.elems = <<>> /\ sent = front \o queue
    <3>1. held.elems = <<>>
      BY <1>6 DEF NoCall
    <3> QED BY <1>1, <1>2, <3>1, ConcatEmptySeq
  <2>2. /\ Len(front) \in Nat /\ Len(queue) \in Nat \ {0} /\ q = Len(front)
        /\ Len(sent) = Len(front) + Len(queue)
    BY <1>1, <1>2, <1>6, <2>1, Joined
  <2>3. sent[q + 1] = Head(queue)
    <3>1. q + 1 \in 1 .. Len(front) + Len(queue) /\ ~(q + 1 <= Len(front))
          /\ (q + 1) - Len(front) = 1
      BY <2>2
    <3>2. sent[q + 1] = IF q + 1 <= Len(front) THEN front[q + 1] ELSE queue[q + 1 - Len(front)]
      BY <1>1, <1>2, <2>1, <3>1, ConcatProperties
    <3>3. Head(queue) = queue[1]
      BY <1>1, <1>6
    <3> QED BY <3>1, <3>2, <3>3
  <2>4. sent[q + 1].head
    <3>1. q \in 0 .. Len(sent) - 1
      BY <2>2
    <3> HIDE DEF q
    <3>2. Boundary(sent, q)
      BY <1>6 DEF q
    <3> QED BY <3>1, <3>2, NextBegins
  <2>5. /\ Head(queue) \in Element /\ Tail(queue) \in Seq(Element)
        /\ sent = (front \o Append(<<>>, Head(queue))) \o Tail(queue)
    <3>1. <<>> \in Seq(Element) /\ front \o <<>> = front
      BY <1>2, ConcatEmptySeq
    <3>2. (front \o <<>>) \o queue = (front \o Append(<<>>, Head(queue))) \o Tail(queue)
      BY <1>1, <1>2, <1>6, <3>1, FirstMoves
    <3>3. Head(queue) \in Element /\ Tail(queue) \in Seq(Element)
      BY <1>1, <1>6, HeadTailProperties
    <3> QED BY <2>1, <3>1, <3>2, <3>3
  <2>6. /\ elems = Append(<<>>, Head(queue)) /\ elems \in Seq(Element) /\ elems # <<>>
        /\ Len(elems) = 1 /\ elems[1] = Head(queue)
    BY <2>5
  <2>7. elems[1].params \in Nat /\ elems[1].head
    BY <2>3, <2>4, <2>5, <2>6 DEF Element
  <2>8. p = TakeParameters(elems, elems[1].params, Tail(queue))
    BY <1>6, <2>6 DEF PackCall
  <2> HIDE DEF elems
  <2>9. Len(elems) + elems[1].params = 1 + elems[1].params
    BY <2>6
  <2> QED BY <1>4, <1>6, <2>5, <2>6, <2>7, <2>8, <2>9
<1> QED BY <1>1, <1>3, <1>5, <1>6

\* What the callers of pack_call_from_queue get is where their loop ends.
LEMMA PackAllIs ==
  ASSUME NEW held, NEW queue, Len(queue) \in Nat
  PROVE  \E w : /\ IsRec("pack", 0, [calls |-> <<>>, held |-> held, queue |-> queue],
                         Len(queue), w)
                /\ PackAll(held, queue) = w[Len(queue)]
<1> DEFINE First == [calls |-> <<>>, held |-> held, queue |-> queue]
           P(w) == w = [n \in 0 .. Len(queue) |->
                          IF n = 0 THEN First
                          ELSE LET s == w[n - 1]
                                   p == PackCall(s.held, s.queue)
                               IN [calls |-> IF p.call = <<>> THEN s.calls
                                             ELSE Append(s.calls, p.call),
                                   held |-> p.held, queue |-> p.queue]]
<1>1. PackAll(held, queue) = (CHOOSE w : P(w))[Len(queue)]
  BY DEF PackAll
<1>2. ASSUME NEW w PROVE P(w) <=> IsRec("pack", 0, First, Len(queue), w)
  <2>1. \A s, x : After("pack", 0, s, x) =
          LET p == PackCall(s.held, s.queue)
          IN [calls |-> IF p.call = <<>> THEN s.calls ELSE Append(s.calls, p.call),
              held |-> p.held, queue |-> p.queue]
    BY DEF After
  <2> HIDE DEF First
  <2> QED BY <2>1 DEF IsRec
<1> HIDE DEF P, First
<1>3. P(CHOOSE w : P(w))
  BY <1>2, RecExists
<1> QED BY <1>1, <1>2, <1>3 DEF First

\* A look of the host at the queue.
LEMMA PackAllPacked ==
  ASSUME NEW sent \in Seq(Element), WellFormed(sent), NEW calls, NEW held, NEW queue,
         Packed(sent, calls, held, queue)
  PROVE  Packed(sent, calls \o PackAll(held, queue).calls,
                PackAll(held, queue).held, PackAll(held, queue).queue)
<1> DEFINE n == Len(queue)
<1>1. calls \in Seq(Seq(Element)) /\ queue \in Seq(Element) /\ n \in Nat
  BY DEF Packed
<1>2. PICK w : /\ IsRec("pack", 0, [calls |-> <<>>, held |-> held, queue |-> queue], n, w)
              /\ PackAll(held, queue) = w[n]
  BY <1>1, PackAllIs
<1> HIDE DEF n
<1> DEFINE T == {k \in 0 .. n : w[k].calls \in Seq(Seq(Element))
                                  /\ Packed(sent, calls \o w[k].calls, w[k].held, w[k].queue)}
<1>3. 0 \in T
  <2>1. w[0] = [calls |-> <<>>, held |-> held, queue |-> queue]
    BY <1>1, <1>2 DEF IsRec
  <2>2. calls \o <<>> = calls /\ <<>> \in Seq(Seq(Element))
    BY <1>1, ConcatEmptySeq
  <2>3. /\ w[0].calls = <<>> /\ w[0].held = held /\ w[0].queue = queue /\ 0 \in 0 .. n
    BY <1>1, <2>1
  <2> QED BY <2>2, <2>3
<1>4. ASSUME NEW k \in 1 .. n, k - 1 \in T PROVE k \in T
  <2> DEFINE s == w[k - 1]
             p == PackCall(s.held, s.queue)
  <2>1. w[k] = [calls |-> IF p.call = <<>> THEN s.calls ELSE Append(s.calls, p.call),
                held |-> p.held, queue |-> p.queue]
    <3>1. k \in 0 .. n /\ k # 0
      BY <1>1
    <3> QED BY <1>2, <3>1 DEF IsRec, After
  <2>2. s.calls \in Seq(Seq(Element)) /\ Packed(sent, calls \o s.calls, s.held, s.queue)
    BY <1>4
  <2> HIDE DEF s, T
  <2>3. Packed(sent, IF p.call = <<>> THEN calls \o s.calls ELSE Append(calls \o s.calls, p.call),
               p.held, p.queue)
    <3> HIDE DEF p
    <3>1. p = PackCall(s.held, s.queue)
      BY DEF p
    <3> QED BY <2>2, <3>1, PackStep
  <2> HIDE DEF p
  <2>4. CASE p.call = <<>>
    BY <1>1, <2>1, <2>2, <2>3, <2>4 DEF T
  <2>5. CASE p.call # <<>>
    <3>1. Append(calls \o s.calls, p.call) \in Seq(Seq(Element))
      BY <2>3, <2>5 DEF Packed
    <3>2. p.call \in Seq(Element)
      <4>1. calls \o s.calls \in Seq(Seq(Element)) /\ Len(calls \o s.calls) \in Nat
        BY <1>1, <2>2, ConcatProperties
      <4> DEFINE c == calls \o s.calls
      <4> HIDE DEF c
      <4>2. c \in Seq(Seq(Element)) /\ Append(c, p.call) \in Seq(Seq(Element)) /\ Len(c) \in Nat
        BY <3>1, <4>1 DEF c
      <4>3. Len(Append(c, p.call)) = Len(c) + 1 /\ Append(c, p.call)[Len(c) + 1] = p.call
        BY <4>2
      <4> QED BY <4>2, <4>3
    <3>3. Append(s.calls, p.call) \in Seq(Seq(Element))
      BY <2>2, <3>2
    <3>4. calls \o Append(s.calls, p.call) = Append(calls \o s.calls, p.call)
      <4> DEFINE one == <<p.call>>
      <4>1. one \in Seq(Seq(Element))
        BY <3>2
      <4>2. Append(s.calls, p.call) = s.calls \o one
        BY <2>2, <3>2, AppendIsConcat
      <4>3. calls \o s.calls \in Seq(Seq(Element))
        BY <1>1, <2>2, ConcatProperties
      <4>4. Append(calls \o s.calls, p.call) = (calls \o s.calls) \o one
        BY <4>3, <3>2, AppendIsConcat
      <4> HIDE DEF one
      <4>5. (calls \o s.calls) \o one = calls \o (s.calls \o one)
        BY <1>1, <2>2, <4>1, RegroupCalls
      <4> QED BY <4>2, <4>4, <4>5
    <3>5. /\ w[k].calls = Append(s.calls, p.call) /\ w[k].held = p.held
          /\ w[k].queue = p.queue /\ k \in 0 .. n
      BY <1>1, <2>1, <2>5
    <3>6. Packed(sent, Append(calls \o s.calls, p.call), p.held, p.queue)
      BY <2>3, <2>5
    <3> QED BY <3>3, <3>4, <3>5, <3>6 DEF T
  <2> QED BY <2>4, <2>5
<1>5. n \in T
  <2> HIDE DEF T
  <2>1. \A i \in 0 .. n : i \in T
    BY <1>1, <1>3, <1>4, Climbs
  <2> QED BY <1>1, <2>1
<1> QED BY <1>2, <1>5

\* One more element in the queue.
LEMMA QueuePacked ==
  ASSUME NEW sent \in Seq(Element), NEW calls, NEW held, NEW queue,
         Packed(sent, calls, held, queue), NEW e \in Element
  PROVE  Packed(Append(sent, e), calls, held, Append(queue, e))
<1> DEFINE t == Append(sent, e)
           q == Append(queue, e)
           front == FlattenSeq(calls)
<1>1. /\ calls \in Seq(Seq(Element)) /\ queue \in Seq(Element)
      /\ \A n \in DOMAIN calls : Whole(calls[n])
      /\ sent = (front \o held.elems) \o queue
      /\ \/ held = NoCall /\ Boundary(sent, Len(sent) - Len(queue))
         \/ Aside(held)
  BY DEF Packed
<1>2. q \in Seq(Element) /\ Len(q) = Len(queue) + 1 /\ Len(queue) \in Nat
  BY <1>1
<1>3. t \in Seq(Element) /\ Len(t) = Len(sent) + 1 /\ Len(sent) \in Nat
      /\ \A i \in 1 .. Len(sent) : t[i] = sent[i]
  OBVIOUS
<1>4. front \in Seq(Element)
  BY <1>1, FlattenAppend
<1>5. held.elems \in Seq(Element)
  <2>1. CASE held = NoCall
    BY <2>1 DEF NoCall
  <2>2. CASE Aside(held)
    BY <2>2 DEF Aside
  <2> QED BY <1>1, <2>1, <2>2
<1> DEFINE gone == front \o held.elems
<1>6. gone \in Seq(Element) /\ sent = gone \o queue
  BY <1>1, <1>4, <1>5, Joined
<1> HIDE DEF front, gone
<1>7. t = gone \o q
  <2> DEFINE one == <<e>>
  <2>1. one \in Seq(Element)
    OBVIOUS
  <2>2. t = sent \o one /\ q = queue \o one
    BY <1>1, AppendIsConcat
  <2> HIDE DEF one, t, q
  <2>3. (gone \o queue) \o one = gone \o (queue \o one)
    BY <1>1, <1>6, <2>1, Regroup
  <2> QED BY <1>6, <2>2, <2>3
<1> HIDE DEF t, q
<1>8. Boundary(sent, Len(sent) - Len(queue)) => Boundary(t, Len(t) - Len(q))
  <2>1. Len(t) - Len(q) = Len(sent) - Len(queue)
    BY <1>2, <1>3
  <2>2. \A h \in 1 .. Len(sent) - Len(queue) : t[h] = sent[h]
    BY <1>2, <1>3
  <2> QED BY <2>1, <2>2 DEF Boundary
<1> QED BY <1>1, <1>2, <1>7, <1>8 DEF Packed, t, q, gone, front

\* What is in the queue, on its way and handed on belongs together.
PackInv ==
  task = "packing" =>
    /\ input = [sent |-> input.sent, queue |-> input.queue, held |-> input.held,
                calls |-> input.calls]
    /\ input.sent \in Seq(Element) /\ WellFormed(input.sent)
    /\ Packed(input.sent, input.calls, input.held, input.queue)

\* However its elements trickle in and wherever the host's looks at the queue
\* fall, pack_call_from_queue hands on what the guest queued, call by whole
\* call: for any number of calls with any number of parameters.
THEOREM WholeCalls == ASpec => []CallsWholeInOrder
<1>1. AInit => PackInv
  <2> SUFFICES ASSUME AInit, task = "packing"
               PROVE  /\ input = [sent |-> input.sent, queue |-> input.queue,
                                  held |-> input.held, calls |-> input.calls]
                      /\ input.sent \in Seq(Element) /\ WellFormed(input.sent)
                      /\ Packed(input.sent, input.calls, input.held, input.queue)
    BY DEF PackInv
  <2>1. input = [sent |-> <<>>, queue |-> <<>>, held |-> NoCall, calls |-> <<>>]
    BY DEF AInit
  <2>2. <<>> \in Seq(Element) /\ <<>> \in Seq(Seq(Element)) /\ Len(<<>>) = 0
    OBVIOUS
  <2>3. WellFormed(<<>>) /\ Boundary(<<>>, 0)
    BY <2>2 DEF WellFormed, Boundary
  <2>4. (FlattenSeq(<<>>) \o <<>>) \o <<>> = <<>>
    <3>1. FlattenSeq(<<>>) = <<>>
      BY DEF FlattenSeq
    <3> QED BY <2>2, <3>1, ConcatEmptySeq
  <2> QED BY <2>1, <2>2, <2>3, <2>4 DEF Packed, NoCall
<1>2. ASSUME PackInv, [ANext]_avars PROVE PackInv'
  <2>1. CASE task' = "packing" /\ QueueElement
    <3>1. /\ input = [sent |-> input.sent, queue |-> input.queue, held |-> input.held,
                      calls |-> input.calls]
          /\ input.sent \in Seq(Element) /\ WellFormed(input.sent)
          /\ Packed(input.sent, input.calls, input.held, input.queue)
      BY <1>2, <2>1 DEF PackInv, QueueElement
    <3>2. PICK e \in [head : BOOLEAN, params : 0 .. MaxParams, at : {Len(input.sent) + 1}] :
            /\ e.head <=> Wanted(input.sent) = 0
            /\ input' = [input EXCEPT !.sent = Append(@, e), !.queue = Append(@, e)]
      BY <2>1 DEF QueueElement
    <3>3. e \in Element
      <4>1. Len(input.sent) \in Nat
        BY <3>1
      <4> QED BY <3>2, <4>1, AlgorithmAssumption DEF Element
    <3>4. Append(input.sent, e) \in Seq(Element) /\ WellFormed(Append(input.sent, e))
      BY <3>1, <3>2, <3>3, QueueWellFormed
    <3> DEFINE t == Append(input.sent, e)
               q == Append(input.queue, e)
    <3>5. input' = [sent |-> t, queue |-> q, held |-> input.held, calls |-> input.calls]
      BY <3>1, <3>2
    <3>6. Packed(t, input.calls, input.held, q)
      BY <3>1, <3>3, <3>4, QueuePacked
    <3> HIDE DEF t, q
    <3> QED BY <3>4, <3>5, <3>6 DEF PackInv, t
  <2>2. CASE task' = "packing" /\ PackCalls
    <3>1. /\ input = [sent |-> input.sent, queue |-> input.queue, held |-> input.held,
                      calls |-> input.calls]
          /\ input.sent \in Seq(Element) /\ WellFormed(input.sent)
          /\ Packed(input.sent, input.calls, input.held, input.queue)
      BY <1>2, <2>2 DEF PackInv, PackCalls
    <3> DEFINE all == PackAll(input.held, input.queue)
    <3>2. input' = [sent |-> input.sent, queue |-> all.queue, held |-> all.held,
                    calls |-> input.calls \o all.calls]
      BY <2>2, <3>1 DEF PackCalls
    <3>3. Packed(input.sent, input.calls \o all.calls, all.held, all.queue)
      BY <3>1, PackAllPacked
    <3> HIDE DEF all
    <3> QED BY <3>1, <3>2, <3>3 DEF PackInv
  <2>3. CASE UNCHANGED <<task, input>>
    BY <1>2, <2>3 DEF PackInv
  <2>4. CASE task' # "packing"
    BY <2>4 DEF PackInv
  <2> QED
    BY <1>2, <2>1, <2>2, <2>3, <2>4
       DEF ANext, avars, Batch, NoteSignature, ProfileUnit, RecordCalls, Observe, EncodeWord
<1>3. PackInv => CallsWholeInOrder
  <2> SUFFICES ASSUME PackInv, task = "packing" PROVE CallsWholeInOrder
    BY DEF CallsWholeInOrder
  <2>1. Packed(input.sent, input.calls, input.held, input.queue)
    BY DEF PackInv
  <2>2. ASSUME Aside(input.held)
        PROVE  input.held.elems[1].head
                 /\ Len(input.held.elems) < 1 + input.held.elems[1].params
    <3>1. Len(input.held.elems) \in Nat
      BY <2>2 DEF Aside
    <3> QED BY <2>2, <3>1 DEF Aside
  <2> QED BY <2>1, <2>2 DEF Packed, CallsWholeInOrder
<1> QED BY <1>1, <1>2, <1>3, PTL DEF ASpec

-----------------------------------------------------------------------------
(* The scan of a clustered call *)

\* The minimum of a set of naturals.
LEMMA MinIs ==
  ASSUME NEW s \in SUBSET Nat, s # {}
  PROVE  Min(s) \in s /\ \A x \in s : Min(s) <= x
<1> DEFINE P(x) == x \in s /\ \A y \in s : x <= y
<1>1. PICK m \in s : \A y \in s : m <= y
  BY NatMin
<1>2. P(m)
  BY <1>1
<1>3. P(CHOOSE x : P(x))
  BY <1>2
<1>4. Min(s) = CHOOSE x : P(x)
  BY DEF Min
<1> QED BY <1>3, <1>4

\* A call in the stream that the scan has nothing against.
Good(s, v, at) ==
  /\ Len(s) - at >= 2 /\ s[at + 1] # Barred /\ s[at + 2] <= ClusterMaxParameters
  /\ Record(s[at + 2]) <= Len(s) - at
  /\ \A i \in 1 .. s[at + 2] : Fits(s, at, i, v)

\* The calls of a scan begin at q[0], ..., q[C - 1], and the next word is q[C].
IsPath(s, v, q, C) ==
  /\ q[0] = 0 /\ \A k \in 0 .. C : q[k] \in 2 * k .. Len(s)
  /\ \A k \in 0 .. C - 1 : Good(s, v, q[k]) /\ q[k + 1] = q[k] + Record(s[q[k] + 2])

\* Some call has that id.
Called(s, q, C, id) == \E k \in 0 .. C - 1 : s[q[k] + 1] = id

\* All of them encode their null pointers as the audit wants.
AllCanonical(s, q, C) ==
  \A k \in 0 .. C - 1 : \A i \in 1 .. s[q[k] + 2] : Canonical(s, q[k], i)

\* The variables of the scan
ScanVars ==
  [ok : BOOLEAN, at : Nat, calls : Nat, route : BOOLEAN, submit : BOOLEAN, canonical : BOOLEAN]

\* What a scan knows when it is behind C calls.
Scanned(s, v, x, q, C) ==
  /\ x \in ScanVars /\ IsPath(s, v, q, C) /\ x.at = q[C] /\ x.calls = C
  /\ x.route <=> Called(s, q, C, Route)
  /\ x.submit <=> Called(s, q, C, Submit)
  /\ x.canonical <=> AllCanonical(s, q, C)
  /\ ~(x.route /\ x.submit)
  /\ ~x.ok => q[C] < Len(s) /\ (~Good(s, v, q[C]) \/ Conflicts(x, s[q[C] + 1]))

\* One more call.
LEMMA PathGrows ==
  ASSUME NEW s \in Seq(Nat), NEW v, NEW q, NEW C \in Nat, IsPath(s, v, q, C), Good(s, v, q[C])
  PROVE  \E r : /\ IsPath(s, v, r, C + 1) /\ r[C + 1] = q[C] + Record(s[q[C] + 2])
                /\ \A k \in 0 .. C : r[k] = q[k]
<1> DEFINE next == q[C] + Record(s[q[C] + 2])
           r == [k \in 0 .. C + 1 |-> IF k = C + 1 THEN next ELSE q[k]]
<1>1. Len(s) \in Nat /\ q[0] = 0 /\ \A k \in 0 .. C : q[k] \in 2 * k .. Len(s)
  BY DEF IsPath
<1>2. /\ Len(s) - q[C] >= 2 /\ Record(s[q[C] + 2]) <= Len(s) - q[C]
  BY DEF Good
<1>3. q[C] \in 2 * C .. Len(s)
  BY <1>1
<1>4. s[q[C] + 2] \in Nat
  <2>1. q[C] + 2 \in 1 .. Len(s)
    BY <1>1, <1>2, <1>3
  <2> QED BY <2>1
<1>5. next \in 2 * (C + 1) .. Len(s)
  <2> DEFINE a == q[C]
             m == s[q[C] + 2]
             n == Len(s)
  <2>1. a \in Int /\ 2 * C <= a /\ a <= n /\ m \in Nat /\ n \in Nat /\ 2 + 2 * m <= n - a
    BY <1>1, <1>2, <1>3, <1>4 DEF Record
  <2>2. next = a + (2 + 2 * m)
    BY DEF Record
  <2> HIDE DEF a, m, n, next
  <2>3. next \in Int /\ 2 * (C + 1) <= next /\ next <= n
    BY <2>1, <2>2
  <2> QED BY <2>3 DEF n
<1> HIDE DEF next
<1>6. r[C + 1] = next /\ r[0] = q[0] /\ \A k \in 0 .. C : r[k] = q[k]
  OBVIOUS
<1> HIDE DEF r
<1>7. \A k \in 0 .. C + 1 : r[k] \in 2 * k .. Len(s)
  <2> SUFFICES ASSUME NEW k \in 0 .. C + 1 PROVE r[k] \in 2 * k .. Len(s)
    OBVIOUS
  <2>1. CASE k = C + 1
    BY <1>5, <1>6, <2>1
  <2>2. CASE k # C + 1
    <3>1. k \in 0 .. C
      BY <2>2
    <3> QED BY <1>1, <1>6, <3>1
  <2> QED BY <2>1, <2>2
<1>8. ASSUME NEW k \in 0 .. (C + 1) - 1
      PROVE  Good(s, v, r[k]) /\ r[k + 1] = r[k] + Record(s[r[k] + 2])
  <2>1. CASE k = C
    BY <1>6, <2>1 DEF next
  <2>2. CASE k # C
    <3>1. k \in 0 .. C - 1 /\ k \in 0 .. C /\ k + 1 \in 0 .. C
      BY <2>2
    <3>2. Good(s, v, q[k]) /\ q[k + 1] = q[k] + Record(s[q[k] + 2])
      BY <3>1 DEF IsPath
    <3> QED BY <1>6, <3>1, <3>2
  <2> QED BY <2>1, <2>2
<1>9. IsPath(s, v, r, C + 1)
  BY <1>1, <1>6, <1>7, <1>8 DEF IsPath
<1> QED BY <1>6, <1>9 DEF next

\* What is true of the calls so far, and of the next.
LEMMA CalledGrows ==
  ASSUME NEW s, NEW q, NEW r, NEW C \in Nat, \A k \in 0 .. C : r[k] = q[k]
  PROVE  /\ \A id : Called(s, r, C + 1, id) <=> Called(s, q, C, id) \/ s[q[C] + 1] = id
         /\ AllCanonical(s, r, C + 1)
              <=> AllCanonical(s, q, C) /\ \A i \in 1 .. s[q[C] + 2] : Canonical(s, q[C], i)
<1>1. \A k : k \in 0 .. (C + 1) - 1 <=> k \in 0 .. C - 1 \/ k = C
  OBVIOUS
<1>2. r[C] = q[C] /\ \A k \in 0 .. C - 1 : r[k] = q[k]
  OBVIOUS
<1>3. ASSUME NEW id PROVE Called(s, r, C + 1, id) <=> Called(s, q, C, id) \/ s[q[C] + 1] = id
  BY <1>1, <1>2 DEF Called
<1>4. AllCanonical(s, r, C + 1)
        <=> AllCanonical(s, q, C) /\ \A i \in 1 .. s[q[C] + 2] : Canonical(s, q[C], i)
  BY <1>1, <1>2 DEF AllCanonical
<1> QED BY <1>3, <1>4

\* One call scanned.
LEMMA ScanCallIs ==
  ASSUME NEW s \in Seq(Nat), NEW v \in Nat, NEW x, NEW q, NEW C \in Nat,
         Scanned(s, v, x, q, C), x.ok, x.at < Len(s)
  PROVE  \E r : \E D \in Nat :
           /\ Scanned(s, v, ScanCall(s, v, x), r, D)
           /\ ScanCall(s, v, x).ok => D = C + 1
           /\ D <= C + 1
<1> DEFINE y == ScanCall(s, v, x)
           id == s[x.at + 1]
           count == s[x.at + 2]
<1>1. /\ x \in ScanVars /\ IsPath(s, v, q, C) /\ x.at = q[C] /\ x.calls = C
      /\ x.route <=> Called(s, q, C, Route)
      /\ x.submit <=> Called(s, q, C, Submit)
      /\ x.canonical <=> AllCanonical(s, q, C)
      /\ ~(x.route /\ x.submit)
  BY DEF Scanned
<1>2. Len(s) \in Nat /\ x.at \in Nat
  BY <1>1 DEF ScanVars
<1>3. Good(s, v, x.at) => id \in Nat /\ count \in Nat
  <2> SUFFICES ASSUME Good(s, v, x.at) PROVE id \in Nat /\ count \in Nat
    OBVIOUS
  <2>1. x.at + 1 \in 1 .. Len(s) /\ x.at + 2 \in 1 .. Len(s)
    <3>1. Len(s) - x.at >= 2
      BY DEF Good
    <3> DEFINE a == x.at
               n == Len(s)
    <3>2. n - a >= 2 /\ n \in Nat /\ a \in Nat
      BY <1>2, <3>1
    <3> HIDE DEF a, n
    <3>3. a + 1 \in 1 .. n /\ a + 2 \in 1 .. n
      BY <3>2
    <3> QED BY <3>3 DEF a, n
  <2> QED BY <2>1
<1>4. CASE ~Good(s, v, x.at) \/ Conflicts(x, id)
  <2>1. y = [x EXCEPT !.ok = FALSE]
    <3>1. CASE Len(s) - x.at < 2
      BY <3>1 DEF ScanCall
    <3>2. CASE ~(Len(s) - x.at < 2)
      <4>1. x.at + 2 \in 1 .. Len(s)
        BY <1>2, <3>2
      <4>2. count \in Nat
        BY <4>1
      <4>3. Record(count) \in Nat
        BY <4>2 DEF Record
      <4>4. Good(s, v, x.at) <=> /\ id # Barred /\ ~(count > ClusterMaxParameters)
                                 /\ ~(Record(count) > Len(s) - x.at)
                                 /\ ~\E i \in 1 .. count : ~Fits(s, x.at, i, v)
        <5>1. /\ Len(s) - x.at >= 2
              /\ count <= ClusterMaxParameters <=> ~(count > ClusterMaxParameters)
              /\ Record(count) <= Len(s) - x.at <=> ~(Record(count) > Len(s) - x.at)
          BY <1>2, <3>2, <4>2, <4>3, AlgorithmAssumption
        <5>2. (\A i \in 1 .. count : Fits(s, x.at, i, v))
                <=> ~\E i \in 1 .. count : ~Fits(s, x.at, i, v)
          OBVIOUS
        <5> QED BY <5>1, <5>2 DEF Good
      <4> QED BY <1>4, <4>4 DEF ScanCall
    <3> QED BY <3>1, <3>2
  <2> HIDE DEF y, id
  <2>2. /\ y \in ScanVars /\ ~y.ok /\ y.at = x.at /\ y.calls = x.calls /\ y.route = x.route
        /\ y.submit = x.submit /\ y.canonical = x.canonical
    BY <1>1, <2>1 DEF ScanVars
  <2>3. Conflicts(x, id) <=> Conflicts(y, id)
    BY <2>2 DEF Conflicts
  <2>4. Scanned(s, v, y, q, C)
    <3>1. ~Good(s, v, q[C]) \/ Conflicts(y, s[q[C] + 1])
      BY <1>1, <1>4, <2>3 DEF id
    <3> QED BY <1>1, <2>2, <3>1 DEF Scanned
  <2> QED BY <2>2, <2>4 DEF y
<1>5. CASE Good(s, v, x.at) /\ ~Conflicts(x, id)
  <2>1. PICK r : /\ IsPath(s, v, r, C + 1) /\ r[C + 1] = q[C] + Record(s[q[C] + 2])
                 /\ \A k \in 0 .. C : r[k] = q[k]
    BY <1>1, <1>5, PathGrows
  <2>2. Record(count) \in Nat
    BY <1>3, <1>5 DEF Record
  <2>3. y = [x EXCEPT !.at = @ + Record(count), !.calls = @ + 1,
                      !.route = @ \/ id = Route, !.submit = @ \/ id = Submit,
                      !.canonical = @ /\ \A i \in 1 .. count : Canonical(s, x.at, i)]
    <3>1. ~(Len(s) - x.at < 2) /\ ~(count > ClusterMaxParameters)
          /\ ~(Record(count) > Len(s) - x.at)
      <4>1. /\ Len(s) - x.at >= 2 /\ count <= ClusterMaxParameters
            /\ Record(count) <= Len(s) - x.at
        BY <1>5 DEF Good
      <4>2. count \in Nat /\ ClusterMaxParameters \in Nat
        BY <1>3, <1>5, AlgorithmAssumption
      <4> HIDE DEF count
      <4> QED BY <1>2, <2>2, <4>1, <4>2
    <3>2. id # Barred /\ ~\E i \in 1 .. count : ~Fits(s, x.at, i, v)
      BY <1>5 DEF Good
    <3> QED BY <1>5, <3>1, <3>2 DEF ScanCall
  <2>4. /\ Called(s, r, C + 1, Route) <=> x.route \/ id = Route
        /\ Called(s, r, C + 1, Submit) <=> x.submit \/ id = Submit
        /\ AllCanonical(s, r, C + 1)
             <=> x.canonical /\ \A i \in 1 .. count : Canonical(s, x.at, i)
    BY <1>1, <2>1, CalledGrows
  <2>5. ~((x.route \/ id = Route) /\ (x.submit \/ id = Submit))
    BY <1>5 DEF Conflicts
  <2> DEFINE all == \A i \in 1 .. count : Canonical(s, x.at, i)
             next == x.at + Record(count)
  <2>6. next \in Nat /\ next = r[C + 1]
    BY <1>1, <1>2, <2>1, <2>2
  <2> HIDE DEF y, id, count, all, next
  <2>7. /\ y \in ScanVars /\ y.ok /\ y.at = next /\ y.calls = C + 1
        /\ y.route <=> x.route \/ id = Route
        /\ y.submit <=> x.submit \/ id = Submit
        /\ y.canonical <=> x.canonical /\ all
    <3>1. y = [ok |-> x.ok, at |-> next, calls |-> C + 1, route |-> x.route \/ id = Route,
               submit |-> x.submit \/ id = Submit, canonical |-> x.canonical /\ all]
      BY <1>1, <2>3 DEF ScanVars, all, next
    <3>2. /\ x.ok \in BOOLEAN /\ (x.route \/ id = Route) \in BOOLEAN
          /\ (x.submit \/ id = Submit) \in BOOLEAN /\ (x.canonical /\ all) \in BOOLEAN
      BY <1>1 DEF ScanVars
    <3>3. x.ok = TRUE /\ C + 1 \in Nat
      BY <1>1 DEF ScanVars
    <3> DEFINE ro == x.route \/ id = Route
               su == x.submit \/ id = Submit
               ca == x.canonical /\ all
    <3>4. y = [ok |-> TRUE, at |-> next, calls |-> C + 1, route |-> ro, submit |-> su,
               canonical |-> ca]
      BY <3>1, <3>3
    <3>5. ro \in BOOLEAN /\ su \in BOOLEAN /\ ca \in BOOLEAN
      BY <3>2
    <3> HIDE DEF ro, su, ca
    <3>6. /\ y \in ScanVars /\ y.ok /\ y.at = next /\ y.calls = C + 1
          /\ y.route = ro /\ y.submit = su /\ y.canonical = ca
      BY <2>6, <3>3, <3>4, <3>5 DEF ScanVars
    <3> QED BY <3>6 DEF ro, su, ca
  <2>8. Scanned(s, v, y, r, C + 1)
    BY <2>1, <2>4, <2>5, <2>6, <2>7 DEF Scanned, all
  <2> QED BY <2>8 DEF y
<1> QED BY <1>4, <1>5

\* Before the first word
ScanStart == [ok |-> TRUE, at |-> 0, calls |-> 0, route |-> FALSE, submit |-> FALSE,
              canonical |-> TRUE]

\* The scan is where its loop ends.
LEMMA ScanIs ==
  ASSUME NEW s, NEW v, Len(s) \in Nat
  PROVE  \E w : /\ IsRec("scan", [stream |-> s, save |-> v], ScanStart, Len(s), w)
                /\ Scan(s, v) = w[Len(s)]
<1> DEFINE c == [stream |-> s, save |-> v]
           P(w) == w = [n \in 0 .. Len(s) |->
                          IF n = 0 THEN ScanStart
                          ELSE LET scan == w[n - 1]
                               IN IF scan.ok /\ scan.at < Len(s)
                                  THEN ScanCall(s, v, scan) ELSE scan]
           f == CHOOSE w : P(w)
<1>1. Scan(s, v) = f[Len(s)]
  BY DEF Scan, ScanStart
<1>2. ASSUME NEW w PROVE P(w) <=> IsRec("scan", c, ScanStart, Len(s), w)
  <2>1. \A x, k : After("scan", c, x, k) =
          IF x.ok /\ x.at < Len(s) THEN ScanCall(s, v, x) ELSE x
    BY DEF After
  <2> HIDE DEF c
  <2> QED BY <2>1 DEF IsRec
<1> HIDE DEF P, c
<1>3. P(f)
  BY <1>2, RecExists
<1> QED BY <1>1, <1>2, <1>3 DEF c

\* The scan of a whole stream: it is behind all of it, or at a call it refuses.
LEMMA ScanEnds ==
  ASSUME NEW s \in Seq(Nat), NEW v \in Nat
  PROVE  \E q : \E C \in 0 .. Len(s) :
           /\ Scanned(s, v, Scan(s, v), q, C)
           /\ Scan(s, v).ok <=> q[C] = Len(s)
<1> DEFINE N == Len(s)
<1>1. N \in Nat
  OBVIOUS
<1>2. PICK w : /\ IsRec("scan", [stream |-> s, save |-> v], ScanStart, N, w)
              /\ Scan(s, v) = w[N]
  BY <1>1, ScanIs
<1> DEFINE T == {n \in 0 .. N : \E q : \E C \in 0 .. n :
                   /\ Scanned(s, v, w[n], q, C)
                   /\ w[n].ok /\ w[n].at < N => C = n}
<1>3. 0 \in T
  <2>1. w[0] = ScanStart /\ 0 \in 0 .. N /\ 0 \in 0 .. 0
    BY <1>1, <1>2 DEF IsRec
  <2> DEFINE q == [k \in 0 .. 0 |-> 0]
  <2>2. q[0] = 0 /\ 0 .. 0 - 1 = {} /\ 0 .. 0 = {0} /\ 0 \in 2 * 0 .. Len(s)
    OBVIOUS
  <2> HIDE DEF q
  <2>3. IsPath(s, v, q, 0)
    BY <2>2 DEF IsPath
  <2>4. ~Called(s, q, 0, Route) /\ ~Called(s, q, 0, Submit) /\ AllCanonical(s, q, 0)
    BY <2>2 DEF Called, AllCanonical
  <2>5. Scanned(s, v, w[0], q, 0)
    BY <2>1, <2>2, <2>3, <2>4 DEF Scanned, ScanStart, ScanVars
  <2> QED BY <2>1, <2>5
<1>4. ASSUME NEW n \in 1 .. N, n - 1 \in T PROVE n \in T
  <2>0. PICK q : \E C \in 0 .. n - 1 :
           /\ Scanned(s, v, w[n - 1], q, C)
           /\ w[n - 1].ok /\ w[n - 1].at < N => C = n - 1
    BY <1>4
  <2>1. PICK C \in 0 .. n - 1 :
           /\ Scanned(s, v, w[n - 1], q, C)
           /\ w[n - 1].ok /\ w[n - 1].at < N => C = n - 1
    BY <2>0
  <2> DEFINE x == w[n - 1]
  <2>2. w[n] = IF x.ok /\ x.at < N THEN ScanCall(s, v, x) ELSE x
    <3>1. n \in 0 .. N /\ n # 0
      BY <1>1
    <3> QED BY <1>2, <3>1 DEF IsRec, After
  <2>3. n \in 0 .. N /\ C \in Nat
    BY <1>1
  <2> HIDE DEF x, N
  <2>4. CASE x.ok /\ x.at < N
    <3>0. PICK r : \E D \in Nat :
            /\ Scanned(s, v, ScanCall(s, v, x), r, D)
            /\ ScanCall(s, v, x).ok => D = C + 1
            /\ D <= C + 1
      <4>1. Scanned(s, v, x, q, C) /\ x.ok /\ x.at < Len(s) /\ C \in Nat
        BY <2>1, <2>3, <2>4 DEF x, N
      <4> QED BY <4>1, ScanCallIs
    <3>1. PICK D \in Nat :
            /\ Scanned(s, v, ScanCall(s, v, x), r, D)
            /\ ScanCall(s, v, x).ok => D = C + 1
            /\ D <= C + 1
      BY <3>0
    <3>2. w[n] = ScanCall(s, v, x) /\ C = n - 1
      BY <2>1, <2>2, <2>4 DEF x
    <3>3. D \in 0 .. n /\ (w[n].ok => D = n)
      BY <2>3, <3>1, <3>2
    <3> QED BY <2>3, <3>1, <3>2, <3>3
  <2>5. CASE ~(x.ok /\ x.at < N)
    <3>1. w[n] = x /\ C \in 0 .. n
      BY <2>2, <2>3, <2>5
    <3>2. Scanned(s, v, w[n], q, C)
      BY <2>1, <3>1 DEF x
    <3> QED BY <2>3, <2>5, <3>1, <3>2
  <2> QED BY <2>4, <2>5
<1> HIDE DEF T
<1>5. N \in T
  <2>1. \A i \in 0 .. N : i \in T
    BY <1>1, <1>3, <1>4, Climbs
  <2> QED BY <1>1, <2>1
<1>9. PICK q : \E C \in 0 .. N :
        /\ Scanned(s, v, w[N], q, C)
        /\ w[N].ok /\ w[N].at < N => C = N
  BY <1>5 DEF T
<1>6. PICK C \in 0 .. N :
        /\ Scanned(s, v, w[N], q, C)
        /\ w[N].ok /\ w[N].at < N => C = N
  BY <1>9
<1>7. q[C] \in 2 * C .. N /\ w[N].at = q[C]
  BY <1>1, <1>6 DEF Scanned, IsPath
<1>8. w[N].ok <=> q[C] = N
  <2>1. w[N].ok => ~(q[C] < N)
    <3>1. CASE C = N
      BY <1>1, <1>7, <3>1
    <3>2. CASE C # N
      BY <1>6, <1>7, <3>2
    <3> QED BY <3>1, <3>2
  <2>2. ~w[N].ok => q[C] < N
    BY <1>6 DEF Scanned
  <2> QED BY <1>1, <1>7, <2>1, <2>2
<1> QED BY <1>2, <1>6, <1>8

-----------------------------------------------------------------------------
(* The cut of a stream *)

\* The calls of a path follow one another.
LEMMA PathRises ==
  ASSUME NEW s \in Seq(Nat), NEW v, NEW q, NEW C \in Nat, IsPath(s, v, q, C)
  PROVE  \A j, k \in 0 .. C : j < k => q[j] + 2 <= q[k]
<1>1. \A k \in 0 .. C : q[k] \in Nat
  BY DEF IsPath
<1>2. ASSUME NEW k \in 1 .. C PROVE q[k - 1] + 2 <= q[k]
  <2>1. /\ k - 1 \in 0 .. C - 1 /\ (k - 1) + 1 = k /\ k - 1 \in 0 .. C
    OBVIOUS
  <2>2. Good(s, v, q[k - 1]) /\ q[k] = q[k - 1] + Record(s[q[k - 1] + 2])
    BY <2>1 DEF IsPath
  <2>3. Len(s) - q[k - 1] >= 2
    BY <2>2 DEF Good
  <2> DEFINE a == q[k - 1]
  <2>4. a \in Nat /\ Len(s) \in Nat
    BY <1>1, <2>1
  <2> HIDE DEF a
  <2>5. a + 2 \in 1 .. Len(s)
    BY <2>3, <2>4 DEF a
  <2>6. s[a + 2] \in Nat
    BY <2>5
  <2> QED BY <2>2, <2>4, <2>6 DEF Record, a
<1> SUFFICES ASSUME NEW j \in 0 .. C PROVE \A k \in 0 .. C : j < k => q[j] + 2 <= q[k]
  OBVIOUS
<1> DEFINE T == {k \in 0 .. C : j < k => q[j] + 2 <= q[k]}
<1>3. 0 \in T
  OBVIOUS
<1>4. ASSUME NEW k \in 1 .. C, k - 1 \in T PROVE k \in T
  <2>1. k \in 0 .. C /\ k - 1 \in 0 .. C
    OBVIOUS
  <2>2. j < k - 1 => q[j] + 2 <= q[k - 1]
    BY <1>4
  <2>3. q[j] \in Nat /\ q[k] \in Nat /\ q[k - 1] \in Nat
    BY <1>1, <2>1
  <2>4. q[k - 1] + 2 <= q[k]
    BY <1>2
  <2>5. j < k => j < k - 1 \/ j = k - 1
    OBVIOUS
  <2>6. j < k => q[j] + 2 <= q[k]
    BY <2>2, <2>3, <2>4, <2>5
  <2> QED BY <2>1, <2>6
<1> HIDE DEF T
<1>5. \A i \in 0 .. C : i \in T
  BY <1>3, <1>4, Climbs
<1> QED BY <1>5 DEF T

\* The positions of its first calls.
Firsts(q, k) == {q[j] : j \in 0 .. k - 1}

\* There are as many as calls.
LEMMA FirstsCounted ==
  ASSUME NEW s \in Seq(Nat), NEW v, NEW q, NEW C \in Nat, IsPath(s, v, q, C)
  PROVE  \A k \in 0 .. C : IsFiniteSet(Firsts(q, k)) /\ Cardinality(Firsts(q, k)) = k
<1> DEFINE T == {k \in 0 .. C : IsFiniteSet(Firsts(q, k)) /\ Cardinality(Firsts(q, k)) = k}
<1>1. 0 \in T
  <2>1. Firsts(q, 0) = {} /\ 0 \in 0 .. C
    BY DEF Firsts
  <2> QED BY <2>1, FS_EmptySet
<1>2. ASSUME NEW k \in 1 .. C, k - 1 \in T PROVE k \in T
  <2>1. Firsts(q, k) = Firsts(q, k - 1) \cup {q[k - 1]}
    <3>1. \A j : j \in 0 .. k - 1 <=> j \in 0 .. (k - 1) - 1 \/ j = k - 1
      OBVIOUS
    <3> QED BY <3>1 DEF Firsts
  <2>2. q[k - 1] \notin Firsts(q, k - 1)
    <3> SUFFICES ASSUME NEW j \in 0 .. (k - 1) - 1, q[j] = q[k - 1] PROVE FALSE
      BY DEF Firsts
    <3>1. j \in 0 .. C /\ k - 1 \in 0 .. C /\ j < k - 1
      OBVIOUS
    <3>2. q[j] + 2 <= q[k - 1]
      BY <3>1, PathRises
    <3>3. q[j] \in Nat
      BY <3>1 DEF IsPath
    <3> QED BY <3>2, <3>3
  <2>3. IsFiniteSet(Firsts(q, k - 1)) /\ Cardinality(Firsts(q, k - 1)) = k - 1
    BY <1>2
  <2>4. /\ IsFiniteSet(Firsts(q, k - 1) \cup {q[k - 1]})
        /\ Cardinality(Firsts(q, k - 1) \cup {q[k - 1]}) = Cardinality(Firsts(q, k - 1)) + 1
    BY <2>2, <2>3, FS_AddElement
  <2>5. k \in 0 .. C /\ (k - 1) + 1 = k
    OBVIOUS
  <2> QED BY <2>1, <2>3, <2>4, <2>5
<1> HIDE DEF T
<1>3. \A k \in 0 .. C : k \in T
  BY <1>1, <1>2, Climbs
<1> QED BY <1>3 DEF T

\* A scan that reaches the end has cut the stream.
LEMMA PathCuts ==
  ASSUME NEW s \in Seq(Nat), NEW v, NEW q, NEW C \in Nat, IsPath(s, v, q, C), q[C] = Len(s)
  PROVE  Firsts(q, C + 1) \in Cuts(s) /\ Firsts(q, C + 1) \ {Len(s)} = Firsts(q, C)
<1> DEFINE c == Firsts(q, C + 1)
<1>1. /\ Len(s) \in Nat /\ \A k \in 0 .. C : q[k] \in Nat /\ q[k] <= Len(s)
      /\ q[0] = 0
  BY DEF IsPath
<1>2. \A j, k \in 0 .. C : j < k => q[j] + 2 <= q[k]
  BY PathRises
<1>3. c = {q[j] : j \in 0 .. C}
  BY DEF Firsts
<1>4. c \ {Len(s)} = Firsts(q, C)
  <2>1. \A j : j \in 0 .. C <=> j \in 0 .. C - 1 \/ j = C
    OBVIOUS
  <2>2. \A j \in 0 .. C - 1 : q[j] # Len(s)
    <3> SUFFICES ASSUME NEW j \in 0 .. C - 1 PROVE q[j] # Len(s)
      OBVIOUS
    <3>1. j \in 0 .. C /\ C \in 0 .. C /\ j < C
      OBVIOUS
    <3>2. q[j] + 2 <= q[C] /\ q[j] \in Nat
      BY <1>1, <1>2, <3>1
    <3> QED BY <1>1, <3>2
  <2> QED BY <1>3, <2>1, <2>2 DEF Firsts
<1>5. ASSUME NEW k \in 0 .. C - 1
      PROVE  LET end == Min({e \in c : e > q[k]})
             IN end - q[k] >= 2 /\ end - q[k] = 2 + 2 * s[q[k] + 2]
  <2> DEFINE after == {e \in c : e > q[k]}
  <2>1. k \in 0 .. C /\ k + 1 \in 0 .. C
    OBVIOUS
  <2>2. q[k] \in Nat /\ q[k + 1] \in Nat /\ q[k] + 2 <= q[k + 1]
    BY <1>1, <1>2, <2>1
  <2>3. q[k + 1] \in after
    BY <1>3, <2>1, <2>2
  <2>4. \A e \in after : q[k + 1] <= e
    <3> SUFFICES ASSUME NEW j \in 0 .. C, q[j] > q[k] PROVE q[k + 1] <= q[j]
      BY <1>3
    <3>1. q[j] \in Nat
      BY <1>1
    <3>2. CASE j < k
      <4>1. q[j] + 2 <= q[k]
        BY <1>2, <2>1, <3>2
      <4> QED BY <2>2, <3>1, <4>1
    <3>3. CASE j = k
      BY <2>2, <3>3
    <3>4. CASE j = k + 1
      BY <2>2, <3>4
    <3>5. CASE j > k + 1
      <4>1. q[k + 1] + 2 <= q[j]
        BY <1>2, <2>1, <3>5
      <4> QED BY <2>2, <3>1, <4>1
    <3> QED BY <2>1, <3>2, <3>3, <3>4, <3>5
  <2>5. after \in SUBSET Nat /\ after # {}
    BY <1>1, <1>3, <2>3
  <2> HIDE DEF after
  <2>6. Min(after) \in after /\ Min(after) <= q[k + 1]
    BY <2>3, <2>5, MinIs
  <2>7. Min(after) = q[k + 1]
    <3>1. q[k + 1] <= Min(after) /\ Min(after) \in Nat
      BY <2>4, <2>5, <2>6
    <3> QED BY <2>2, <2>6, <3>1
  <2>8. q[k + 1] = q[k] + Record(s[q[k] + 2]) /\ s[q[k] + 2] \in Nat
    <3>1. Good(s, v, q[k]) /\ q[k + 1] = q[k] + Record(s[q[k] + 2])
      BY DEF IsPath
    <3>2. q[k] + 2 \in 1 .. Len(s)
      <4>1. Len(s) - q[k] >= 2
        BY <3>1 DEF Good
      <4> DEFINE a == q[k]
                 n == Len(s)
      <4>2. n - a >= 2 /\ n \in Nat /\ a \in Nat
        BY <1>1, <2>2, <4>1
      <4> HIDE DEF a, n
      <4>3. a + 2 \in 1 .. n
        BY <4>2
      <4> QED BY <4>3 DEF a, n
    <3> QED BY <3>1, <3>2
  <2>9. q[k + 1] - q[k] >= 2 /\ q[k + 1] - q[k] = 2 + 2 * s[q[k] + 2]
    <3> DEFINE a == q[k]
               m == s[q[k] + 2]
    <3>1. a \in Nat /\ m \in Nat /\ q[k + 1] = a + (2 + 2 * m)
      BY <2>2, <2>8 DEF Record
    <3> HIDE DEF a, m
    <3>2. q[k + 1] - a >= 2 /\ q[k + 1] - a = 2 + 2 * m
      BY <3>1
    <3> QED BY <3>2 DEF a, m
  <2> QED BY <2>7, <2>9 DEF after
<1>6. c \in SUBSET (0 .. Len(s)) /\ {0, Len(s)} \subseteq c
  <2>1. 0 \in 0 .. C /\ C \in 0 .. C
    OBVIOUS
  <2> QED BY <1>1, <1>3, <2>1
<1>7. \A at \in c \ {Len(s)} : LET end == Min({e \in c : e > at})
                               IN end - at >= 2 /\ end - at = 2 + 2 * s[at + 2]
  <2>1. \A at \in c \ {Len(s)} : \E k \in 0 .. C - 1 : at = q[k]
    BY <1>4 DEF Firsts
  <2> HIDE DEF c
  <2> QED BY <1>5, <2>1
<1> HIDE DEF c
<1> QED BY <1>4, <1>6, <1>7 DEF Cuts, c

\* Any cut of the stream goes along the path, as far as the path goes.
LEMMA CutFollows ==
  ASSUME NEW s \in Seq(Nat), NEW v, NEW q, NEW C \in Nat, IsPath(s, v, q, C), NEW c \in Cuts(s)
  PROVE  /\ \A k \in 0 .. C : q[k] \in c
         /\ \A e \in c : e < q[C] => e \in Firsts(q, C)
<1>1. /\ Len(s) \in Nat /\ c \in SUBSET Nat /\ 0 \in c /\ Len(s) \in c
      /\ \A e \in c : e <= Len(s)
  BY DEF Cuts
<1>2. \A at \in c \ {Len(s)} : LET end == Min({e \in c : e > at})
                               IN end - at >= 2 /\ end - at = 2 + 2 * s[at + 2]
  BY DEF Cuts
<1>3. q[0] = 0 /\ \A k \in 0 .. C : q[k] \in Nat
  BY DEF IsPath
<1> DEFINE T == {k \in 0 .. C : q[k] \in c /\ \A e \in c : e < q[k] => e \in Firsts(q, k)}
<1>4. 0 \in T
  <2>1. \A e \in c : ~(e < 0)
    BY <1>1
  <2> QED BY <1>1, <1>3, <2>1
<1>5. ASSUME NEW k \in 1 .. C, k - 1 \in T PROVE k \in T
  <2> DEFINE at == q[k - 1]
             after == {e \in c : e > at}
  <2>1. k \in 0 .. C /\ k - 1 \in 0 .. C - 1 /\ (k - 1) + 1 = k /\ k - 1 \in 0 .. C
    OBVIOUS
  <2>2. at \in c /\ \A e \in c : e < at => e \in Firsts(q, k - 1)
    BY <1>5
  <2>3. Good(s, v, at) /\ q[k] = at + Record(s[at + 2])
    BY <2>1 DEF IsPath
  <2>4. at \in Nat /\ q[k] \in Nat
    BY <1>3, <2>1
  <2>5. Len(s) - at >= 2
    BY <2>3 DEF Good
  <2> HIDE DEF at, T
  <2>6. at \in c \ {Len(s)} /\ at < Len(s) /\ at + 2 \in 1 .. Len(s)
    BY <1>1, <2>2, <2>4, <2>5
  <2>7. s[at + 2] \in Nat
    BY <2>6
  <2>8. Min(after) - at = 2 + 2 * s[at + 2]
    BY <1>2, <2>6
  <2>9. Min(after) \in after /\ \A e \in after : Min(after) <= e
    <3>1. after \in SUBSET Nat /\ after # {}
      BY <1>1, <2>6
    <3> HIDE DEF after
    <3> QED BY <3>1, MinIs
  <2>10. Min(after) = q[k]
    <3>1. Min(after) \in Nat
      BY <1>1, <2>9
    <3> HIDE DEF after
    <3> QED BY <2>3, <2>4, <2>7, <2>8, <3>1 DEF Record
  <2>11. q[k] \in c
    BY <2>9, <2>10
  <2>12. ASSUME NEW e \in c, e < q[k] PROVE e \in Firsts(q, k)
    <3>1. ~(e > at)
      <4>1. e > at => q[k] <= e
        BY <2>9, <2>10
      <4> QED BY <1>1, <2>4, <2>12, <4>1
    <3>2. e < at \/ e = at
      BY <1>1, <2>4, <3>1
    <3>3. CASE e < at
      <4>1. e \in Firsts(q, k - 1)
        BY <2>2, <3>3
      <4>2. \A j \in 0 .. (k - 1) - 1 : j \in 0 .. k - 1
        OBVIOUS
      <4> QED BY <4>1, <4>2 DEF Firsts
    <3>4. CASE e = at
      <4>1. k - 1 \in 0 .. k - 1
        OBVIOUS
      <4> QED BY <3>4, <4>1 DEF Firsts, at
    <3> QED BY <3>2, <3>3, <3>4
  <2> QED BY <2>1, <2>11, <2>12 DEF T
<1> HIDE DEF T
<1>6. \A k \in 0 .. C : k \in T
  BY <1>4, <1>5, Climbs
<1>7. C \in 0 .. C
  OBVIOUS
<1> QED BY <1>6, <1>7 DEF T

-----------------------------------------------------------------------------
(* What runs *)

\* The walk is where its loop ends.
LEMMA WalkIs ==
  ASSUME NEW s, Len(s) \in Nat
  PROVE  \E w : /\ IsRec("dispatch", s, [at |-> 0, ran |-> <<>>], Len(s), w)
                /\ Walk(s) = w[Len(s)]
<1> DEFINE P(w) == w = [n \in 0 .. Len(s) |->
                          IF n = 0 THEN [at |-> 0, ran |-> <<>>]
                          ELSE LET walk == w[n - 1]
                               IN IF \/ walk.at + 2 > Len(s)
                                     \/ walk.at + Record(s[walk.at + 2]) > Len(s)
                                  THEN walk
                                  ELSE [at |-> walk.at + Record(s[walk.at + 2]),
                                        ran |-> Append(walk.ran, Member(s, walk.at))]]
           f == CHOOSE w : P(w)
<1>1. Walk(s) = f[Len(s)]
  BY DEF Walk
<1>2. ASSUME NEW w PROVE P(w) <=> IsRec("dispatch", s, [at |-> 0, ran |-> <<>>], Len(s), w)
  <2>1. \A x, k : After("dispatch", s, x, k) =
          IF x.at + 2 > Len(s) \/ x.at + Record(s[x.at + 2]) > Len(s) THEN x
          ELSE [at |-> x.at + Record(s[x.at + 2]), ran |-> Append(x.ran, Member(s, x.at))]
    BY DEF After
  <2> QED BY <2>1 DEF IsRec
<1> HIDE DEF P
<1>3. P(f)
  BY <1>2, RecExists
<1> QED BY <1>1, <1>2, <1>3

\* Where the scan went, the walk goes.
LEMMA WalkFollows ==
  ASSUME NEW s \in Seq(Nat), NEW v, NEW q, NEW C \in Nat, IsPath(s, v, q, C), q[C] = Len(s)
  PROVE  Walk(s).ran = [k \in 1 .. C |-> Member(s, q[k - 1])]
<1> DEFINE N == Len(s)
           Done(m) == [k \in 1 .. m |-> Member(s, q[k - 1])]
           Now(n) == IF n <= C THEN n ELSE C
<1>1. N \in Nat /\ \A k \in 0 .. C : q[k] \in Nat /\ 2 * k <= q[k] /\ q[k] <= N
  BY DEF IsPath
<1>2. C \in 0 .. N
  <2>1. C \in 0 .. C /\ 2 * C <= q[C]
    BY <1>1
  <2> QED BY <1>1, <2>1
<1>3. PICK w : IsRec("dispatch", s, [at |-> 0, ran |-> <<>>], N, w) /\ Walk(s) = w[N]
  BY <1>1, WalkIs
<1> HIDE DEF N
<1> DEFINE T == {n \in 0 .. N : w[n] = [at |-> q[Now(n)], ran |-> Done(Now(n))]}
<1>4. 0 \in T
  <2>1. 0 \in 0 .. N /\ Now(0) = 0
    BY <1>1
  <2>2. w[0] = [at |-> 0, ran |-> <<>>]
    BY <1>3, <2>1 DEF IsRec
  <2>3. Done(0) = <<>> /\ q[0] = 0
    BY DEF IsPath
  <2> HIDE DEF Done, Now
  <2> QED BY <2>1, <2>2, <2>3
<1>5. ASSUME NEW n \in 1 .. N, n - 1 \in T PROVE n \in T
  <2> DEFINE x == w[n - 1]
             m == Now(n - 1)
  <2>1. n \in 0 .. N /\ n # 0 /\ m \in 0 .. C /\ n - 1 \in Nat
    BY <1>1
  <2>2. x = [at |-> q[m], ran |-> Done(m)]
    BY <1>5
  <2>3. w[n] = IF x.at + 2 > Len(s) \/ x.at + Record(s[x.at + 2]) > Len(s) THEN x
               ELSE [at |-> x.at + Record(s[x.at + 2]), ran |-> Append(x.ran, Member(s, x.at))]
    BY <1>3, <2>1 DEF IsRec, After
  <2>4. CASE n - 1 < C
    <3>1. m = n - 1 /\ Now(n) = n /\ m \in 0 .. C - 1 /\ m + 1 \in 0 .. C /\ m + 1 = n
      BY <2>1, <2>4
    <3> HIDE DEF Now, m, x, T, Done
    <3>2. Good(s, v, q[m]) /\ q[m + 1] = q[m] + Record(s[q[m] + 2])
      BY <3>1 DEF IsPath
    <3>3. q[m] \in Nat /\ q[m + 1] \in Nat /\ q[m + 1] <= Len(s)
      BY <1>1, <2>1, <3>1 DEF N
    <3>4. ~(q[m] + 2 > Len(s))
      <4>1. Len(s) - q[m] >= 2
        BY <3>2 DEF Good
      <4> DEFINE a == q[m]
                 z == Len(s)
      <4>2. z - a >= 2 /\ z \in Nat /\ a \in Nat
        BY <1>1, <3>3, <4>1 DEF N
      <4> HIDE DEF a, z
      <4>3. ~(a + 2 > z)
        BY <4>2
      <4> QED BY <4>3 DEF a, z
    <3>5. ~(q[m] + Record(s[q[m] + 2]) > Len(s))
      <4>1. Len(s) \in Nat
        OBVIOUS
      <4> QED BY <3>2, <3>3, <4>1
    <3>6. w[n] = [at |-> q[n], ran |-> Append(Done(m), Member(s, q[m]))]
      BY <2>2, <2>3, <3>1, <3>2, <3>4, <3>5
    <3>7. Append(Done(m), Member(s, q[m])) = Done(n)
      <4> DEFINE d == Append(Done(m), Member(s, q[m]))
      <4>1. Done(m) \in Seq({Member(s, q[k - 1]) : k \in 1 .. n}) /\ Len(Done(m)) = m
        <5>1. m \in Nat /\ \A k \in 1 .. m : k \in 1 .. n
          BY <3>1
        <5>2. Done(m) = [k \in 1 .. m |-> Member(s, q[k - 1])]
          BY DEF Done
        <5> DEFINE R == {Member(s, q[k - 1]) : k \in 1 .. n}
        <5>3. \A k \in 1 .. m : Member(s, q[k - 1]) \in R
          BY <5>1
        <5> HIDE DEF R
        <5>4. Done(m) \in [1 .. m -> R]
          BY <5>2, <5>3
        <5>5. Done(m) \in Seq(R) /\ Len(Done(m)) = m
          BY <5>1, <5>4
        <5> QED BY <5>5 DEF R
      <4>2. /\ Len(d) = n /\ DOMAIN d = 1 .. n /\ d[n] = Member(s, q[n - 1])
            /\ \A k \in 1 .. m : d[k] = Member(s, q[k - 1])
        BY <3>1, <4>1 DEF Done
      <4>3. d = [k \in 1 .. n |-> d[k]]
        BY <4>1, <4>2
      <4> HIDE DEF d
      <4>4. \A k \in 1 .. n : d[k] = Member(s, q[k - 1])
        <5>1. \A k \in 1 .. n : k \in 1 .. m \/ k = n
          BY <3>1
        <5> QED BY <4>2, <5>1
      <4> QED BY <4>3, <4>4 DEF Done, d
    <3> QED BY <2>1, <3>1, <3>6, <3>7 DEF T
  <2>5. CASE ~(n - 1 < C)
    <3>1. m = C /\ Now(n) = C
      BY <2>1, <2>5
    <3>2. x.at + 2 > Len(s)
      <4>1. x.at = Len(s) /\ Len(s) \in Nat
        BY <2>2, <3>1
      <4> HIDE DEF x
      <4> QED BY <4>1
    <3>3. w[n] = x
      BY <2>3, <3>2
    <3> HIDE DEF x, m
    <3> QED BY <2>1, <2>2, <3>1, <3>3
  <2> QED BY <2>1, <2>4, <2>5
<1> HIDE DEF T
<1>6. N \in T
  <2>1. \A i \in 0 .. N : i \in T
    BY <1>1, <1>4, <1>5, Climbs
  <2> QED BY <1>1, <2>1
<1>7. Now(N) = C
  BY <1>1, <1>2
<1> HIDE DEF Now, Done
<1>8. w[N].ran = Done(C)
  BY <1>6, <1>7 DEF T
<1> QED BY <1>3, <1>8 DEF Done

\* The two ways to say that the data of a parameter is in the save buffer.
LEMMA FitsIs ==
  ASSUME NEW s \in Seq(Nat), NEW v \in Nat, NEW at \in Nat, at + 2 <= Len(s),
         at + Record(s[at + 2]) <= Len(s)
  PROVE  \A i \in 1 .. s[at + 2] :
           /\ s[at + 2 + 2 * i] \in Nat
           /\ Fits(s, at, i, v)
                <=> s[at + 2 + 2 * i] = 0 \/ s[at + 2 + 2 * i] + s[at + 1 + 2 * i] <= v
<1> DEFINE n == Len(s)
           m == s[at + 2]
<1>1. n \in Nat /\ at + 2 \in 1 .. n
  OBVIOUS
<1>2. m \in Nat
  BY <1>1
<1>3. at + (2 + 2 * m) <= n
  BY DEF Record
<1> SUFFICES ASSUME NEW i \in 1 .. m
             PROVE  /\ s[at + 2 + 2 * i] \in Nat
                    /\ Fits(s, at, i, v)
                         <=> s[at + 2 + 2 * i] = 0 \/ s[at + 2 + 2 * i] + s[at + 1 + 2 * i] <= v
  OBVIOUS
<1> DEFINE x == at + 2 + 2 * i
           y == at + 1 + 2 * i
<1>4. x \in 1 .. n /\ y \in 1 .. n
  <2> HIDE DEF n, m
  <2> QED BY <1>1, <1>2, <1>3
<1> HIDE DEF x, y
<1>5. s[x] \in Nat /\ s[y] \in Nat
  BY <1>4
<1>6. Fits(s, at, i, v) <=> (s[x] # 0 => s[x] <= v /\ s[y] <= v - s[x])
  BY DEF Fits, OffsetAt, LengthAt, x, y
<1> DEFINE offset == s[x]
           length == s[y]
<1>7. (offset # 0 => offset <= v /\ length <= v - offset)
        <=> offset = 0 \/ offset + length <= v
  <2>1. offset \in Nat /\ length \in Nat
    BY <1>5
  <2> HIDE DEF offset, length
  <2> QED BY <2>1
<1> QED BY <1>5, <1>6, <1>7 DEF x, y

\* The envelopes, for any save buffer and limits
Envelopes ==
  [params : {2, 3}, sync : BOOLEAN, save : Nat, flime : [words : Nat, calls : Nat]]

\* A stream that has a proper cut is dispatched, and cut that way.
LEMMA ProperDispatched ==
  ASSUME NEW s \in Seq(Nat), NEW env \in Envelopes, NEW q, NEW C \in Nat,
         Scanned(s, env.save, Scan(s, env.save), q, C),
         Scan(s, env.save).ok <=> q[C] = Len(s),
         NEW c \in Cuts(s), Proper(s, c, env)
  PROVE  Dispatches(s, env) /\ q[C] = Len(s) /\ c \ {Len(s)} = Firsts(q, C)
<1> DEFINE x == Scan(s, env.save)
           calls == c \ {Len(s)}
           names == {s[at + 1] : at \in calls}
<1>1. /\ x \in ScanVars /\ IsPath(s, env.save, q, C) /\ x.at = q[C] /\ x.calls = C
      /\ x.route <=> Called(s, q, C, Route)
      /\ x.submit <=> Called(s, q, C, Submit)
      /\ x.canonical <=> AllCanonical(s, q, C)
      /\ ~x.ok => q[C] < Len(s) /\ (~Good(s, env.save, q[C]) \/ Conflicts(x, s[q[C] + 1]))
  BY DEF Scanned
<1>2. /\ Barred \notin names
      /\ \A at \in calls :
           /\ s[at + 2] <= ClusterMaxParameters
           /\ \A i \in 1 .. s[at + 2] :
                /\ s[at + 2 + 2 * i] = 0 \/ s[at + 2 + 2 * i] + s[at + 1 + 2 * i] <= env.save
                /\ Route \in names => (s[at + 1 + 2 * i] = 0 <=> s[at + 2 + 2 * i] = 0)
      /\ env.params = 3 \/ Route \in names => Len(s) <= env.flime.words
      /\ Route \in names => /\ Submit \notin names /\ Cardinality(calls) <= env.flime.calls
                            /\ env.params = 3 /\ env.sync
  BY DEF Proper
<1>3. /\ Len(s) \in Nat /\ c \in SUBSET Nat /\ \A e \in c : e <= Len(s)
      /\ \A at \in c \ {Len(s)} : LET end == Min({e \in c : e > at})
                                  IN end - at >= 2 /\ end - at = 2 + 2 * s[at + 2]
      /\ Len(s) \in c
  BY DEF Cuts
<1>4. /\ \A k \in 0 .. C : q[k] \in Nat /\ q[k] <= Len(s)
      /\ \A j, k \in 0 .. C : j < k => q[j] + 2 <= q[k]
  <2>1. \A k \in 0 .. C : q[k] \in Nat /\ q[k] <= Len(s)
    BY <1>1, <1>3 DEF IsPath
  <2>2. \A j, k \in 0 .. C : j < k => q[j] + 2 <= q[k]
    BY <1>1, PathRises
  <2> QED BY <2>1, <2>2
<1>5. /\ \A k \in 0 .. C : q[k] \in c
      /\ \A e \in c : e < q[C] => e \in Firsts(q, C)
  BY <1>1, CutFollows
<1>6. \A k \in 0 .. C - 1 : q[k] \in calls
  <2> SUFFICES ASSUME NEW k \in 0 .. C - 1 PROVE q[k] \in calls
    OBVIOUS
  <2>1. k \in 0 .. C /\ C \in 0 .. C /\ k < C
    OBVIOUS
  <2>2. q[k] + 2 <= q[C] /\ q[k] \in Nat /\ q[C] \in Nat /\ q[C] <= Len(s)
    BY <1>4, <2>1
  <2>3. q[k] # Len(s)
    BY <1>3, <2>2
  <2> QED BY <1>5, <2>1, <2>3
<1>7. \A id : Called(s, q, C, id) => id \in names
  BY <1>6 DEF Called
<1>8. q[C] = Len(s)
  <2> SUFFICES ASSUME q[C] # Len(s) PROVE FALSE
    OBVIOUS
  <2> DEFINE at == q[C]
             after == {e \in c : e > at}
  <2>1. at \in calls /\ at \in Nat /\ at < Len(s)
    <3>1. C \in 0 .. C
      OBVIOUS
    <3>2. at \in c /\ at \in Nat /\ at <= Len(s)
      BY <1>4, <1>5, <3>1
    <3> HIDE DEF at
    <3>3. at # Len(s)
      BY DEF at
    <3> QED BY <1>3, <3>2, <3>3
  <2> HIDE DEF at
  <2>2. after \in SUBSET Nat /\ after # {} /\ \A e \in after : e <= Len(s)
    BY <1>3, <2>1
  <2>3. Min(after) - at >= 2 /\ Min(after) - at = 2 + 2 * s[at + 2]
    BY <1>3, <2>1
  <2> HIDE DEF after
  <2>4. Min(after) \in Nat /\ Min(after) <= Len(s)
    BY <2>2, MinIs
  <2>5. at + 2 <= Len(s) /\ Len(s) - at >= 2
    BY <1>3, <2>1, <2>3, <2>4
  <2>6. s[at + 1] \in Nat /\ s[at + 2] \in Nat
    <3>1. at + 1 \in 1 .. Len(s) /\ at + 2 \in 1 .. Len(s)
      BY <1>3, <2>1, <2>5
    <3> QED BY <3>1
  <2>7. at + Record(s[at + 2]) <= Len(s) /\ Record(s[at + 2]) <= Len(s) - at
    <3> DEFINE n == Len(s)
               m == s[at + 2]
               e == Min(after)
    <3>1. /\ n \in Nat /\ m \in Nat /\ e \in Nat /\ at \in Nat
          /\ e - at = 2 + 2 * m /\ e <= n
      BY <1>3, <2>1, <2>3, <2>4, <2>6
    <3> HIDE DEF n, m, e
    <3>2. at + (2 + 2 * m) <= n /\ 2 + 2 * m <= n - at
      BY <3>1
    <3> QED BY <3>2 DEF Record, n, m
  <2>8. s[at + 1] \in names
    BY <2>1
  <2>9. \A i \in 1 .. s[at + 2] : Fits(s, at, i, env.save)
    <3>1. env.save \in Nat
      BY DEF Envelopes
    <3>2. \A i \in 1 .. s[at + 2] :
            s[at + 2 + 2 * i] = 0 \/ s[at + 2 + 2 * i] + s[at + 1 + 2 * i] <= env.save
      BY <1>2, <2>1
    <3> HIDE DEF names, calls, x
    <3> QED BY <2>1, <2>5, <2>7, <3>1, <3>2, FitsIs
  <2>10. Good(s, env.save, at)
    <3>1. s[at + 1] # Barred /\ s[at + 2] <= ClusterMaxParameters
      BY <1>2, <2>1, <2>8
    <3> QED BY <2>5, <2>7, <2>9, <3>1 DEF Good
  <2>11. Conflicts(x, s[at + 1])
    <3>1. ~x.ok
      BY DEF at
    <3> QED BY <1>1, <2>10, <3>1 DEF at
  <2>12. Route \in names /\ Submit \in names
    <3>1. x.route => Route \in names
      BY <1>1, <1>7
    <3>2. x.submit => Submit \in names
      BY <1>1, <1>7
    <3> HIDE DEF names, x
    <3> QED BY <2>8, <2>11, <3>1, <3>2 DEF Conflicts
  <2> HIDE DEF names
  <2> QED BY <1>2, <2>12
<1>9. calls = Firsts(q, C)
  <2>1. \A e \in calls : e < q[C]
    BY <1>3, <1>8
  <2>2. calls \subseteq Firsts(q, C)
    BY <1>5, <2>1
  <2>3. Firsts(q, C) \subseteq calls
    BY <1>6 DEF Firsts
  <2> QED BY <2>2, <2>3
<1>10. Cardinality(calls) = C
  <2>1. C \in 0 .. C
    OBVIOUS
  <2>2. \A k \in 0 .. C : Cardinality(Firsts(q, k)) = k
    BY <1>1, FirstsCounted
  <2> HIDE DEF calls
  <2> QED BY <1>9, <2>1, <2>2
<1>11. Route \in names => AllCanonical(s, q, C)
  <2>1. Route \in names => \A at \in calls : \A i \in 1 .. s[at + 2] : Canonical(s, at, i)
    BY <1>2 DEF Canonical, LengthAt, OffsetAt
  <2> QED BY <1>6, <2>1 DEF AllCanonical
<1>12. x.ok /\ (x.route => Route \in names)
  BY <1>1, <1>7, <1>8
<1>13. Dispatches(s, env)
  <2> HIDE DEF names, calls
  <2>1. env.params = 3 => FlimeLimits(s, env)
    BY <1>2 DEF FlimeLimits
  <2>2. x.route => /\ FlimeLimits(s, env) /\ x.calls <= env.flime.calls /\ x.canonical
                   /\ env.params = 3 /\ env.sync
    BY <1>1, <1>2, <1>10, <1>11, <1>12 DEF FlimeLimits
  <2> QED BY <1>12, <2>1, <2>2 DEF Dispatches, Preflight
<1> QED BY <1>8, <1>9, <1>13

\* A stream that is dispatched has a proper cut.
LEMMA DispatchedProper ==
  ASSUME NEW s \in Seq(Nat), NEW env \in Envelopes, NEW q, NEW C \in Nat,
         Scanned(s, env.save, Scan(s, env.save), q, C),
         Scan(s, env.save).ok <=> q[C] = Len(s), Dispatches(s, env)
  PROVE  \E c \in Cuts(s) : Proper(s, c, env)
<1> DEFINE x == Scan(s, env.save)
           c == Firsts(q, C + 1)
           calls == c \ {Len(s)}
           names == {s[at + 1] : at \in calls}
<1>1. /\ x \in ScanVars /\ IsPath(s, env.save, q, C) /\ x.at = q[C] /\ x.calls = C
      /\ x.route <=> Called(s, q, C, Route)
      /\ x.submit <=> Called(s, q, C, Submit)
      /\ x.canonical <=> AllCanonical(s, q, C)
      /\ ~(x.route /\ x.submit)
  BY DEF Scanned
<1>2. /\ x.ok
      /\ env.params = 3 => Len(s) <= env.flime.words
      /\ x.route => /\ Len(s) <= env.flime.words /\ x.calls <= env.flime.calls /\ x.canonical
                    /\ env.params = 3 /\ env.sync
  BY DEF Dispatches, Preflight, FlimeLimits
<1>3. q[C] = Len(s) /\ c \in Cuts(s) /\ calls = Firsts(q, C)
  BY <1>1, <1>2, PathCuts
<1>4. Cardinality(calls) = C
  <2>1. C \in 0 .. C
    OBVIOUS
  <2>2. \A k \in 0 .. C : Cardinality(Firsts(q, k)) = k
    BY <1>1, FirstsCounted
  <2> HIDE DEF calls
  <2> QED BY <1>3, <2>1, <2>2
<1> HIDE DEF c, x
<1>5. \A id : id \in names <=> Called(s, q, C, id)
  BY <1>3 DEF Firsts, Called
<1>6. ASSUME NEW at \in calls
      PROVE  /\ s[at + 1] # Barred /\ s[at + 2] <= ClusterMaxParameters
             /\ \A i \in 1 .. s[at + 2] :
                  s[at + 2 + 2 * i] = 0 \/ s[at + 2 + 2 * i] + s[at + 1 + 2 * i] <= env.save
             /\ x.canonical => \A i \in 1 .. s[at + 2] :
                                 s[at + 1 + 2 * i] = 0 <=> s[at + 2 + 2 * i] = 0
  <2>1. PICK k \in 0 .. C - 1 : at = q[k]
    BY <1>3 DEF Firsts
  <2>2. Good(s, env.save, at)
    BY <1>1, <2>1 DEF IsPath
  <2>3. /\ s[at + 1] # Barred /\ s[at + 2] <= ClusterMaxParameters
        /\ Len(s) - at >= 2 /\ Record(s[at + 2]) <= Len(s) - at
        /\ \A i \in 1 .. s[at + 2] : Fits(s, at, i, env.save)
    BY <2>2 DEF Good
  <2>4. at \in Nat /\ Len(s) \in Nat /\ env.save \in Nat
    <3>1. k \in 0 .. C
      OBVIOUS
    <3>2. at \in 2 * k .. Len(s)
      BY <1>1, <2>1, <3>1 DEF IsPath
    <3>3. Len(s) \in Nat
      OBVIOUS
    <3>4. at \in Nat
      BY <3>1, <3>2, <3>3
    <3>5. env.save \in Nat
      BY DEF Envelopes
    <3> QED BY <3>3, <3>4, <3>5
  <2>5. at + 2 <= Len(s)
    BY <2>3, <2>4
  <2>6. at + Record(s[at + 2]) <= Len(s)
    <3>1. at + 2 \in 1 .. Len(s)
      BY <2>4, <2>5
    <3>2. s[at + 2] \in Nat
      BY <3>1
    <3>3. Record(s[at + 2]) \in Nat
      BY <3>2 DEF Record
    <3> QED BY <2>3, <2>4, <3>3
  <2> HIDE DEF calls, names
  <2>7. \A i \in 1 .. s[at + 2] :
          s[at + 2 + 2 * i] = 0 \/ s[at + 2 + 2 * i] + s[at + 1 + 2 * i] <= env.save
    BY <2>3, <2>4, <2>5, <2>6, FitsIs
  <2>8. x.canonical => \A i \in 1 .. s[at + 2] :
                         s[at + 1 + 2 * i] = 0 <=> s[at + 2 + 2 * i] = 0
    BY <1>1, <2>1 DEF AllCanonical, Canonical, LengthAt, OffsetAt
  <2> QED BY <2>3, <2>7, <2>8
<1>7. Barred \notin names
  BY <1>6
<1>8. Route \in names => x.route
  BY <1>1, <1>5
<1>9. Submit \in names => x.submit
  BY <1>1, <1>5
<1>10. Proper(s, c, env)
  <2>1. \A at \in calls :
          /\ s[at + 2] <= ClusterMaxParameters
          /\ \A i \in 1 .. s[at + 2] :
               /\ s[at + 2 + 2 * i] = 0 \/ s[at + 2 + 2 * i] + s[at + 1 + 2 * i] <= env.save
               /\ Route \in names => (s[at + 1 + 2 * i] = 0 <=> s[at + 2 + 2 * i] = 0)
    BY <1>2, <1>6, <1>8
  <2>2. env.params = 3 \/ Route \in names => Len(s) <= env.flime.words
    BY <1>2, <1>8
  <2>3. Route \in names => /\ Submit \notin names /\ Cardinality(calls) <= env.flime.calls
                           /\ env.params = 3 /\ env.sync
    BY <1>1, <1>2, <1>4, <1>8, <1>9
  <2> QED BY <1>7, <2>1, <2>2, <2>3 DEF Proper
<1> QED BY <1>3, <1>10

\* The input of the task is a stream of words and an envelope.
ClusterInv ==
  task = "cluster" =>
    /\ input = [stream |-> input.stream, env |-> input.env]
    /\ input.stream \in Seq(Nat) /\ input.env \in Envelopes

\* Of a clustered call either every member runs, in order, or none does: for
\* streams of any length, calls with any number of parameters and any limits.
THEOREM AllOrNothing == ASpec => []ClusterAllOrNothing
<1>1. AInit => ClusterInv
  <2> SUFFICES ASSUME AInit, task = "cluster"
               PROVE  /\ input = [stream |-> input.stream, env |-> input.env]
                      /\ input.stream \in Seq(Nat) /\ input.env \in Envelopes
    BY DEF ClusterInv
  <2>1. input \in [stream : {<<>>},
                   env : [params : {2, 3}, sync : BOOLEAN, save : SaveSizes,
                          flime : FlimeLimitPairs]]
    BY DEF AInit
  <2>2. <<>> \in Seq(Nat)
    OBVIOUS
  <2>3. input.env \in Envelopes
    <3>1. input.env \in [params : {2, 3}, sync : BOOLEAN, save : SaveSizes,
                         flime : FlimeLimitPairs]
      BY <2>1
    <3>2. SaveSizes \subseteq Nat /\ FlimeLimitPairs \subseteq [words : Nat, calls : Nat]
      BY AlgorithmAssumption
    <3> QED BY <3>1, <3>2 DEF Envelopes
  <2> QED BY <2>1, <2>2, <2>3
<1>2. ASSUME ClusterInv, [ANext]_avars PROVE ClusterInv'
  <2>1. CASE task' = "cluster" /\ EncodeWord
    <3>1. /\ input = [stream |-> input.stream, env |-> input.env]
          /\ input.stream \in Seq(Nat) /\ input.env \in Envelopes
      BY <1>2, <2>1 DEF ClusterInv, EncodeWord
    <3>2. PICK w \in Words : input' = [input EXCEPT !.stream = Append(@, w)]
      BY <2>1 DEF EncodeWord
    <3>3. w \in Nat
      BY AlgorithmAssumption
    <3>4. input' = [stream |-> Append(input.stream, w), env |-> input.env]
      BY <3>1, <3>2
    <3>5. Append(input.stream, w) \in Seq(Nat)
      BY <3>1, <3>3
    <3> QED BY <3>1, <3>4, <3>5 DEF ClusterInv
  <2>2. CASE UNCHANGED <<task, input>>
    BY <1>2, <2>2 DEF ClusterInv
  <2>3. CASE task' # "cluster"
    BY <2>3 DEF ClusterInv
  <2> QED
    BY <1>2, <2>1, <2>2, <2>3
       DEF ANext, avars, Batch, NoteSignature, ProfileUnit, RecordCalls, Observe,
           QueueElement, PackCalls
<1>3. ClusterInv => ClusterAllOrNothing
  <2> SUFFICES ASSUME ClusterInv, task = "cluster" PROVE ClusterAllOrNothing
    BY DEF ClusterAllOrNothing
  <2> DEFINE s == input.stream
             env == input.env
             ran == Ran(s, env)
             proper == {c \in Cuts(s) : Proper(s, c, env)}
  <2>1. s \in Seq(Nat) /\ env \in Envelopes /\ env.save \in Nat
    BY DEF ClusterInv, Envelopes
  <2> HIDE DEF s, env
  <2>2. PICK q : \E C \in 0 .. Len(s) :
          /\ Scanned(s, env.save, Scan(s, env.save), q, C)
          /\ Scan(s, env.save).ok <=> q[C] = Len(s)
    BY <2>1, ScanEnds
  <2>3. PICK C \in 0 .. Len(s) :
          /\ Scanned(s, env.save, Scan(s, env.save), q, C)
          /\ Scan(s, env.save).ok <=> q[C] = Len(s)
    BY <2>2
  <2>4. C \in Nat /\ IsPath(s, env.save, q, C)
    BY <2>1, <2>3 DEF Scanned
  <2>5. proper = {} => ran = <<>>
    <3> SUFFICES ASSUME proper = {} PROVE ran = <<>>
      OBVIOUS
    <3>1. ~Dispatches(s, env)
      BY <2>1, <2>3, <2>4, DispatchedProper
    <3> QED BY <3>1 DEF Ran
  <2>6. ASSUME NEW c \in proper
        PROVE  /\ Len(ran) = Cardinality(c \ {Len(s)})
               /\ \A at \in c \ {Len(s)} :
                    ran[Cardinality({b \in c \ {Len(s)} : b < at}) + 1] = Member(s, at)
    <3>1. Dispatches(s, env) /\ q[C] = Len(s) /\ c \ {Len(s)} = Firsts(q, C)
      BY <2>1, <2>3, <2>4, ProperDispatched
    <3>2. ran = [k \in 1 .. C |-> Member(s, q[k - 1])]
      BY <2>1, <2>4, <3>1, WalkFollows DEF Ran
    <3> HIDE DEF ran
    <3>3. Len(ran) = C
      BY <2>4, <3>2
    <3>4. \A k \in 0 .. C : Cardinality(Firsts(q, k)) = k
      BY <2>1, <2>4, FirstsCounted
    <3>5. ASSUME NEW k \in 0 .. C - 1
          PROVE  ran[Cardinality({b \in Firsts(q, C) : b < q[k]}) + 1] = Member(s, q[k])
      <4>1. {b \in Firsts(q, C) : b < q[k]} = Firsts(q, k)
        <5>1. \A j, l \in 0 .. C : (j < l => q[j] + 2 <= q[l]) /\ q[j] \in Nat
          <6>1. \A j \in 0 .. C : q[j] \in Nat
            BY <2>1, <2>4 DEF IsPath
          <6>2. \A j, l \in 0 .. C : j < l => q[j] + 2 <= q[l]
            BY <2>1, <2>4, PathRises
          <6> QED BY <6>1, <6>2
        <5>2. ASSUME NEW j \in 0 .. C - 1 PROVE q[j] < q[k] <=> j \in 0 .. k - 1
          <6>1. j \in 0 .. C /\ k \in 0 .. C
            OBVIOUS
          <6>2. CASE j < k
            <7>1. q[j] + 2 <= q[k] /\ q[j] \in Nat /\ q[k] \in Nat
              BY <5>1, <6>1, <6>2
            <7> QED BY <6>2, <7>1
          <6>3. CASE j = k
            <7>1. q[k] \in Nat
              BY <5>1, <6>1
            <7> QED BY <6>3, <7>1
          <6>4. CASE j > k
            <7>1. q[k] + 2 <= q[j] /\ q[j] \in Nat /\ q[k] \in Nat
              BY <5>1, <6>1, <6>4
            <7> QED BY <6>4, <7>1
          <6> QED BY <6>2, <6>3, <6>4
        <5>3. \A j \in 0 .. k - 1 : j \in 0 .. C - 1
          OBVIOUS
        <5> QED BY <5>2, <5>3 DEF Firsts
      <4>2. k \in 0 .. C /\ k + 1 \in 1 .. C /\ (k + 1) - 1 = k
        BY <2>4
      <4> QED BY <3>2, <3>4, <4>1, <4>2
    <3>6. \A at \in Firsts(q, C) :
            ran[Cardinality({b \in Firsts(q, C) : b < at}) + 1] = Member(s, at)
      BY <3>5 DEF Firsts
    <3>7. Cardinality(Firsts(q, C)) = C
      BY <2>4, <3>4
    <3> QED BY <3>1, <3>3, <3>6, <3>7
  <2> HIDE DEF ran, proper
  <2> QED BY <2>5, <2>6 DEF ClusterAllOrNothing, s, env, ran, proper
<1> QED BY <1>1, <1>2, <1>3, PTL DEF ASpec

-----------------------------------------------------------------------------
(* The handles of an occurrence *)

\* What stands in one flattened sequence stands in the other where it stood before.
Zipped(A, B) ==
  LET x == FlattenSeq(A)
      y == FlattenSeq(B)
  IN /\ Len(x) = Len(y)
     /\ \A i \in 1 .. Len(A) : \A f \in 1 .. Len(A[i]) :
          \E k \in 1 .. Len(x) : x[k] = A[i][f] /\ y[k] = B[i][f]
     /\ \A k \in 1 .. Len(x) :
          \E i \in 1 .. Len(A) : \E f \in 1 .. Len(A[i]) : x[k] = A[i][f] /\ y[k] = B[i][f]

\* One more list on either side.
LEMMA ZipGrows ==
  ASSUME NEW A \in Seq(Seq(Nat)), NEW B \in Seq(Seq(Nat)), Len(A) = Len(B), Zipped(A, B),
         NEW a \in Seq(Nat), NEW b \in Seq(Nat), Len(a) = Len(b)
  PROVE  Zipped(Append(A, a), Append(B, b))
<1> DEFINE x == FlattenSeq(A)
           y == FlattenSeq(B)
           n == Len(A)
           C == Append(A, a)
           D == Append(B, b)
           X == FlattenSeq(C)
           Y == FlattenSeq(D)
           m == Len(x)
           l == Len(a)
<1>1. x \in Seq(Nat) /\ y \in Seq(Nat) /\ X = x \o a /\ Y = y \o b
  BY FlattenAppend
<1>2. /\ Len(y) = m
      /\ \A i \in 1 .. n : \A f \in 1 .. Len(A[i]) :
           \E k \in 1 .. m : x[k] = A[i][f] /\ y[k] = B[i][f]
      /\ \A k \in 1 .. m :
           \E i \in 1 .. n : \E f \in 1 .. Len(A[i]) : x[k] = A[i][f] /\ y[k] = B[i][f]
  BY DEF Zipped
<1>3. /\ n \in Nat /\ Len(C) = n + 1 /\ C[n + 1] = a /\ D[n + 1] = b
      /\ \A i \in 1 .. n : C[i] = A[i] /\ D[i] = B[i]
  OBVIOUS
<1> HIDE DEF C, D
<1>4. l \in Nat /\ m \in Nat
  BY <1>1
<1> HIDE DEF x, y, X, Y, n
<1>5. /\ Len(X) = m + l /\ Len(Y) = m + l
      /\ \A k \in 1 .. m : X[k] = x[k] /\ Y[k] = y[k]
      /\ \A f \in 1 .. l : X[m + f] = a[f] /\ Y[m + f] = b[f]
  <2>1. /\ Len(X) = m + l /\ \A k \in 1 .. m : X[k] = x[k]
        /\ \A k \in m + 1 .. m + l : X[k] = a[k - m]
    <3>1. /\ Len(x \o a) = Len(x) + Len(a) /\ \A k \in 1 .. Len(x) : (x \o a)[k] = x[k]
          /\ \A k \in Len(x) + 1 .. Len(x) + Len(a) : (x \o a)[k] = a[k - Len(x)]
      BY <1>1, ConcatProperties
    <3> QED BY <1>1, <3>1
  <2>2. /\ Len(Y) = m + l /\ \A k \in 1 .. m : Y[k] = y[k]
        /\ \A k \in m + 1 .. m + l : Y[k] = b[k - m]
    <3>1. /\ Len(Y) = Len(y) + Len(b) /\ \A k \in 1 .. Len(y) : Y[k] = y[k]
          /\ \A k \in Len(y) + 1 .. Len(y) + Len(b) : Y[k] = b[k - Len(y)]
      BY <1>1, ConcatProperties
    <3> HIDE DEF m
    <3> QED BY <1>2, <3>1
  <2> HIDE DEF m, l
  <2>3. \A f \in 1 .. l : m + f \in m + 1 .. m + l /\ (m + f) - m = f
    BY <1>4
  <2> QED BY <2>1, <2>2, <2>3
<1> HIDE DEF m, l
<1>6. ASSUME NEW i \in 1 .. n + 1, NEW f \in 1 .. Len(C[i])
      PROVE  \E k \in 1 .. m + l : X[k] = C[i][f] /\ Y[k] = D[i][f]
  <2>1. CASE i = n + 1
    <3>1. f \in 1 .. l /\ C[i] = a /\ D[i] = b
      BY <1>3, <2>1 DEF l
    <3>2. m + f \in 1 .. m + l
      BY <1>4, <3>1
    <3> QED BY <1>5, <3>1, <3>2
  <2>2. CASE i # n + 1
    <3>1. i \in 1 .. n
      BY <1>3, <2>2
    <3>2. f \in 1 .. Len(A[i]) /\ C[i] = A[i] /\ D[i] = B[i]
      BY <1>3, <3>1
    <3>3. PICK k \in 1 .. m : x[k] = A[i][f] /\ y[k] = B[i][f]
      BY <1>2, <3>1, <3>2
    <3>4. k \in 1 .. m + l
      BY <1>4
    <3> QED BY <1>5, <3>2, <3>3, <3>4
  <2> QED BY <2>1, <2>2
<1>7. ASSUME NEW k \in 1 .. m + l
      PROVE  \E i \in 1 .. n + 1 : \E f \in 1 .. Len(C[i]) : X[k] = C[i][f] /\ Y[k] = D[i][f]
  <2>1. CASE k <= m
    <3>1. k \in 1 .. m
      BY <1>4, <2>1
    <3>2. PICK i \in 1 .. n : \E f \in 1 .. Len(A[i]) : x[k] = A[i][f] /\ y[k] = B[i][f]
      BY <1>2, <3>1
    <3>3. i \in 1 .. n + 1 /\ C[i] = A[i] /\ D[i] = B[i]
      BY <1>3
    <3> QED BY <1>5, <3>1, <3>2, <3>3
  <2>2. CASE k > m
    <3> DEFINE f == k - m
    <3>1. f \in 1 .. l /\ k = m + f
      BY <1>4, <2>2
    <3> HIDE DEF f
    <3>2. n + 1 \in 1 .. n + 1 /\ f \in 1 .. Len(C[n + 1])
      BY <1>3, <3>1 DEF l
    <3>3. X[k] = C[n + 1][f] /\ Y[k] = D[n + 1][f]
      BY <1>3, <1>5, <3>1
    <3> QED BY <3>2, <3>3
  <2>3. k <= m \/ k > m
    BY <1>4
  <2> QED BY <2>1, <2>2, <2>3
<1>8. Zipped(C, D)
  BY <1>3, <1>5, <1>6, <1>7 DEF Zipped, X, Y
<1> QED BY <1>8 DEF C, D

\* Lists of the same lengths are flattened alike.
LEMMA FlatZips ==
  ASSUME NEW A \in Seq(Seq(Nat)), NEW B \in Seq(Seq(Nat)), Len(A) = Len(B),
         \A i \in 1 .. Len(A) : Len(A[i]) = Len(B[i])
  PROVE  Zipped(A, B)
<1> DEFINE n == Len(A)
           T == {m \in 0 .. n : Zipped(SubSeq(A, 1, m), SubSeq(B, 1, m))}
<1>1. n \in Nat /\ \A i \in 1 .. n : A[i] \in Seq(Nat) /\ B[i] \in Seq(Nat)
  OBVIOUS
<1>2. 0 \in T
  <2>1. SubSeq(A, 1, 0) = <<>> /\ SubSeq(B, 1, 0) = <<>>
    OBVIOUS
  <2>2. <<>> \in Seq(Seq(Nat)) /\ <<>> \in Seq(Nat)
    OBVIOUS
  <2>3. FlattenSeq(<<>>) = <<>>
    BY DEF FlattenSeq
  <2>4. Len(<<>>) = 0
    OBVIOUS
  <2>5. Zipped(<<>>, <<>>)
    BY <2>3, <2>4 DEF Zipped
  <2>6. 0 \in 0 .. n /\ Zipped(SubSeq(A, 1, 0), SubSeq(B, 1, 0))
    <3>1. 0 \in 0 .. n
      BY <1>1
    <3> HIDE DEF n
    <3> QED BY <2>1, <2>5, <3>1
  <2> QED BY <2>6
<1>3. ASSUME NEW m \in 1 .. n, m - 1 \in T PROVE m \in T
  <2> DEFINE p == m - 1
  <2>1. p \in 0 .. n /\ p \in Nat /\ p + 1 = m /\ m \in 0 .. n
    BY <1>1
  <2>2. Zipped(SubSeq(A, 1, p), SubSeq(B, 1, p))
    BY <1>3
  <2> HIDE DEF p, T
  <2>3. /\ SubSeq(A, 1, p) \in Seq(Seq(Nat)) /\ Len(SubSeq(A, 1, p)) = p
        /\ SubSeq(B, 1, p) \in Seq(Seq(Nat)) /\ Len(SubSeq(B, 1, p)) = p
    BY <1>1, <2>1
  <2>4. A[m] \in Seq(Nat) /\ B[m] \in Seq(Nat) /\ Len(A[m]) = Len(B[m])
    BY <1>1
  <2>5. Zipped(Append(SubSeq(A, 1, p), A[m]), Append(SubSeq(B, 1, p), B[m]))
    BY <2>2, <2>3, <2>4, ZipGrows
  <2>6. /\ Append(SubSeq(A, 1, p), A[m]) = SubSeq(A, 1, m)
        /\ Append(SubSeq(B, 1, p), B[m]) = SubSeq(B, 1, m)
    BY <1>1, <2>1
  <2>7. Zipped(SubSeq(A, 1, m), SubSeq(B, 1, m))
    BY <2>5, <2>6
  <2> QED BY <2>1, <2>7 DEF T
<1> HIDE DEF T
<1>4. n \in T
  <2>1. \A i \in 0 .. n : i \in T
    BY <1>1, <1>2, <1>3, Climbs
  <2> QED BY <1>1, <2>1
<1>5. SubSeq(A, 1, n) = A /\ SubSeq(B, 1, n) = B
  OBVIOUS
<1> QED BY <1>4, <1>5 DEF T

-----------------------------------------------------------------------------
(* Roles *)

\* Every handle that is not null has a place in a list without repetitions.
Names(m, handles) ==
  /\ m \in Seq(Nat)
  /\ \A i, j \in 1 .. Len(m) : m[i] = m[j] => i = j
  /\ \A h \in handles : h # NullHandle => Contains(m, h)

\* The fold that collects the handles.
LEMMA MetLoop ==
  ASSUME NEW hs \in Seq(Nat)
  PROVE  \E w : /\ IsLoop("met", 0, <<>>, hs, w)
                /\ w[Len(hs)] = FoldLeft(Meet, <<>>, hs)
<1> DEFINE P(f) == f = [s \in SUBSET DOMAIN hs |->
                          IF s = {} THEN <<>> ELSE Meet(f[s \ {Max(s)}], hs[Max(s)])]
<1>1. FoldLeft(Meet, <<>>, hs) = (CHOOSE f : P(f))[DOMAIN hs]
  BY DEF FoldLeft, MapThenFoldSet
<1>2. ASSUME NEW f PROVE P(f) <=> IsIter("met", 0, <<>>, hs, DOMAIN hs, f)
  <2>1. \A x, h : After("met", 0, x, h) = Meet(x, h)
    BY DEF After
  <2> QED BY <2>1 DEF IsIter
<1> HIDE DEF P
<1> DEFINE f == CHOOSE g : P(g)
<1>3. IsIter("met", 0, <<>>, hs, DOMAIN hs, f)
  BY <1>2, FoldExists
<1> HIDE DEF f
<1>4. \E w : IsLoop("met", 0, <<>>, hs, w) /\ w[Len(hs)] = f[DOMAIN hs]
  BY <1>3, FoldIsLoop
<1> QED BY <1>1, <1>4 DEF f

\* It names them all.
LEMMA MetNames ==
  ASSUME NEW hs \in Seq(Nat), NEW w, IsLoop("met", 0, <<>>, hs, w)
  PROVE  Names(w[Len(hs)], {hs[k] : k \in 1 .. Len(hs)})
<1> DEFINE n == Len(hs)
           T == {k \in 0 .. n : Names(w[k], {hs[j] : j \in 1 .. k})}
<1>1. n \in Nat /\ \A k \in 1 .. n : hs[k] \in Nat
  OBVIOUS
<1>2. 0 \in T
  <2>1. w[0] = <<>> /\ <<>> \in Seq(Nat) /\ Len(<<>>) = 0 /\ 1 .. 0 = {}
    BY DEF IsLoop
  <2>2. Names(w[0], {hs[j] : j \in 1 .. 0})
    BY <2>1 DEF Names
  <2> QED BY <1>1, <2>2
<1>3. ASSUME NEW k \in 1 .. n, k - 1 \in T PROVE k \in T
  <2> DEFINE m == w[k - 1]
             h == hs[k]
  <2>1. /\ m \in Seq(Nat) /\ \A i, j \in 1 .. Len(m) : m[i] = m[j] => i = j
        /\ \A j \in 1 .. k - 1 : hs[j] # NullHandle => Contains(m, hs[j])
    BY <1>3 DEF Names
  <2>2. w[k] = IF h = NullHandle \/ Contains(m, h) THEN m ELSE Append(m, h)
    BY <1>3 DEF IsLoop, After, Meet
  <2>3. h \in Nat /\ k \in 0 .. n /\ \A j \in 1 .. k : j \in 1 .. k - 1 \/ j = k
    BY <1>1
  <2> HIDE DEF m, h, T, n
  <2>4. CASE h = NullHandle \/ Contains(m, h)
    <3>1. \A j \in 1 .. k : hs[j] # NullHandle => Contains(m, hs[j])
      BY <2>1, <2>3, <2>4 DEF h
    <3>2. Names(m, {hs[j] : j \in 1 .. k})
      BY <2>1, <3>1 DEF Names
    <3> QED BY <2>2, <2>3, <2>4, <3>2 DEF T
  <2>5. CASE ~(h = NullHandle \/ Contains(m, h))
    <3> DEFINE l == Len(m)
               d == Append(m, h)
    <3>1. /\ l \in Nat /\ d \in Seq(Nat) /\ Len(d) = l + 1 /\ d[l + 1] = h
          /\ \A i \in 1 .. l : d[i] = m[i]
      BY <2>1, <2>3
    <3> HIDE DEF l, d
    <3>2. \A i \in 1 .. l : m[i] # h
      BY <2>5 DEF Contains, l
    <3>3. \A i \in 1 .. l + 1 : i \in 1 .. l \/ i = l + 1
      BY <3>1
    <3>4. \A i, j \in 1 .. l + 1 : d[i] = d[j] => i = j
      BY <2>1, <3>1, <3>2, <3>3 DEF l
    <3>5. \A g : Contains(m, g) => Contains(d, g)
      <4>1. \A i \in 1 .. l : i \in 1 .. l + 1
        BY <3>1
      <4> QED BY <3>1, <4>1 DEF Contains, l
    <3>6. Contains(d, h)
      <4>1. l + 1 \in 1 .. l + 1
        BY <3>1
      <4> QED BY <3>1, <4>1 DEF Contains
    <3>7. \A j \in 1 .. k : hs[j] # NullHandle => Contains(d, hs[j])
      BY <2>1, <2>3, <3>5, <3>6 DEF h
    <3>8. Names(d, {hs[j] : j \in 1 .. k})
      BY <3>1, <3>4, <3>7 DEF Names
    <3> QED BY <2>2, <2>3, <2>5, <3>8 DEF T, d
  <2> QED BY <2>4, <2>5
<1> HIDE DEF T
<1>4. n \in T
  <2>1. \A i \in 0 .. n : i \in T
    BY <1>1, <1>2, <1>3, Climbs
  <2> QED BY <1>1, <2>1
<1> QED BY <1>4 DEF T

\* A role stands for its handle.
LEMMA RoleStands ==
  ASSUME NEW handles, NEW m, Names(m, handles)
  PROVE  /\ \A h \in handles : RoleOf(m, h) = 0 <=> h = NullHandle
         /\ \A g, h \in handles : RoleOf(m, g) = RoleOf(m, h) <=> g = h
<1>1. ASSUME NEW h \in handles, h # NullHandle
      PROVE  RoleOf(m, h) \in 1 .. Len(m) /\ m[RoleOf(m, h)] = h
  <2>1. DOMAIN m = 1 .. Len(m) /\ Contains(m, h)
    BY <1>1 DEF Names
  <2>2. \E r \in DOMAIN m : m[r] = h
    BY <2>1 DEF Contains
  <2> DEFINE r == CHOOSE i \in DOMAIN m : m[i] = h
  <2>3. r \in DOMAIN m /\ m[r] = h
    BY <2>2
  <2>4. RoleOf(m, h) = r
    BY <1>1 DEF RoleOf
  <2> HIDE DEF r
  <2> QED BY <2>1, <2>3, <2>4
<1>2. RoleOf(m, NullHandle) = 0
  BY DEF RoleOf
<1>3. Len(m) \in Nat
  BY DEF Names
<1>4. \A h \in handles : RoleOf(m, h) = 0 <=> h = NullHandle
  BY <1>1, <1>2, <1>3
<1> QED BY <1>1, <1>2, <1>4

-----------------------------------------------------------------------------
(* Matching *)

\* The calls a template is learned from and matched against
TemplateCalls == [shape : Shapes, handles : Seq(Nat)]
\* Their lists of handles
ListsOf(calls) == [i \in DOMAIN calls |-> calls[i].handles]
\* All their handles
HandlesIn(calls) == UNION {{calls[i].handles[f] : f \in 1 .. Len(calls[i].handles)} :
                           i \in 1 .. Len(calls)}

\* What an occurrence is made of.
LEMMA CallsAre ==
  ASSUME NEW s \in Seq(TemplateCalls)
  PROVE  /\ Len(s) \in Nat /\ DOMAIN s = 1 .. Len(s)
         /\ \A i \in 1 .. Len(s) :
              /\ s[i].handles \in Seq(Nat) /\ DOMAIN s[i].handles = 1 .. Len(s[i].handles)
              /\ Len(s[i].handles) \in Nat
              /\ \A f \in 1 .. Len(s[i].handles) : s[i].handles[f] \in Nat
         /\ ListsOf(s) \in Seq(Seq(Nat)) /\ Len(ListsOf(s)) = Len(s)
         /\ \A i \in 1 .. Len(s) : ListsOf(s)[i] = s[i].handles
         /\ HandlesOf(s) = FlattenSeq(ListsOf(s))
<1>1. Len(s) \in Nat /\ DOMAIN s = 1 .. Len(s) /\ \A i \in 1 .. Len(s) : s[i] \in TemplateCalls
  OBVIOUS
<1>2. ASSUME NEW i \in 1 .. Len(s)
      PROVE  /\ s[i].handles \in Seq(Nat) /\ DOMAIN s[i].handles = 1 .. Len(s[i].handles)
             /\ Len(s[i].handles) \in Nat
             /\ \A f \in 1 .. Len(s[i].handles) : s[i].handles[f] \in Nat
  <2>1. s[i].handles \in Seq(Nat)
    BY <1>1 DEF TemplateCalls
  <2> DEFINE h == s[i].handles
  <2> HIDE DEF h
  <2>2. h \in Seq(Nat)
    BY <2>1 DEF h
  <2>3. DOMAIN h = 1 .. Len(h) /\ Len(h) \in Nat /\ \A f \in 1 .. Len(h) : h[f] \in Nat
    BY <2>2
  <2> QED BY <2>1, <2>3 DEF h
<1>3. /\ ListsOf(s) \in Seq(Seq(Nat)) /\ Len(ListsOf(s)) = Len(s)
      /\ \A i \in 1 .. Len(s) : ListsOf(s)[i] = s[i].handles
  <2>1. ListsOf(s) = [i \in 1 .. Len(s) |-> s[i].handles]
    BY <1>1 DEF ListsOf
  <2>2. \A i \in 1 .. Len(s) : s[i].handles \in Seq(Nat)
    BY <1>2
  <2> DEFINE n == Len(s)
             R == Seq(Nat)
  <2>3. n \in Nat /\ ListsOf(s) \in [1 .. n -> R]
    BY <1>1, <2>1, <2>2
  <2> HIDE DEF n, R
  <2>4. ListsOf(s) \in Seq(R) /\ Len(ListsOf(s)) = n
    BY <2>3
  <2> QED BY <2>1, <2>4 DEF n, R
<1>4. HandlesOf(s) = FlattenSeq(ListsOf(s))
  BY DEF HandlesOf, ListsOf
<1> QED BY <1>1, <1>2, <1>3, <1>4

\* A renaming of handles takes the calls of b to those of a that come first.
Renames(a, b) ==
  /\ Len(b) <= Len(a)
  /\ \A i \in 1 .. Len(b) :
       /\ a[i].shape = b[i].shape /\ Len(a[i].handles) = Len(b[i].handles)
       /\ \A f \in 1 .. Len(b[i].handles) :
            /\ a[i].handles[f] = NullHandle <=> b[i].handles[f] = NullHandle
            /\ \A j \in 1 .. Len(b) : \A g \in 1 .. Len(b[j].handles) :
                 a[i].handles[f] = a[j].handles[g] <=> b[i].handles[f] = b[j].handles[g]

\* The names of the roles of an occurrence.
LEMMA MetIs ==
  ASSUME NEW s \in Seq(TemplateCalls)
  PROVE  Names(Met(s), HandlesIn(s))
<1> DEFINE hs == HandlesOf(s)
<1>1. /\ ListsOf(s) \in Seq(Seq(Nat)) /\ Len(ListsOf(s)) = Len(s)
      /\ \A i \in 1 .. Len(s) : ListsOf(s)[i] = s[i].handles
      /\ hs = FlattenSeq(ListsOf(s))
  BY CallsAre
<1>2. <<>> \in Seq(Nat)
  OBVIOUS
<1>3. hs \in Seq(Nat)
  BY <1>1, <1>2, FlattenAppend
<1>4. Zipped(ListsOf(s), ListsOf(s))
  BY <1>1, FlatZips
<1> HIDE DEF hs
<1>5. PICK w : IsLoop("met", 0, <<>>, hs, w) /\ w[Len(hs)] = FoldLeft(Meet, <<>>, hs)
  BY <1>3, MetLoop
<1>6. Names(Met(s), {hs[k] : k \in 1 .. Len(hs)})
  BY <1>3, <1>5, MetNames DEF Met, hs
<1>7. HandlesIn(s) \subseteq {hs[k] : k \in 1 .. Len(hs)}
  <2> SUFFICES ASSUME NEW i \in 1 .. Len(s), NEW f \in 1 .. Len(s[i].handles)
               PROVE  \E k \in 1 .. Len(hs) : hs[k] = s[i].handles[f]
    BY DEF HandlesIn
  <2>1. i \in 1 .. Len(ListsOf(s)) /\ f \in 1 .. Len(ListsOf(s)[i])
    BY <1>1
  <2>2. \E k \in 1 .. Len(FlattenSeq(ListsOf(s))) :
          FlattenSeq(ListsOf(s))[k] = ListsOf(s)[i][f]
    BY <1>4, <2>1 DEF Zipped
  <2> QED BY <1>1, <2>2
<1> QED BY <1>6, <1>7 DEF Names

\* What a learned template matches.
LEMMA MatchIs ==
  ASSUME NEW a \in Seq(TemplateCalls), NEW b \in Seq(TemplateCalls)
  PROVE  MatchTemplatePrefix(LearnTemplate(a), b) <=> Renames(a, b)
<1> DEFINE t == LearnTemplate(a)
           m == Met(a)
           R(i, f) == RoleOf(m, a[i].handles[f])
           n == Len(b)
<1>1. /\ Len(a) \in Nat /\ DOMAIN a = 1 .. Len(a) /\ n \in Nat /\ DOMAIN b = 1 .. n
      /\ \A i \in 1 .. Len(a) : /\ DOMAIN a[i].handles = 1 .. Len(a[i].handles)
                                /\ Len(a[i].handles) \in Nat
      /\ \A i \in 1 .. n : /\ DOMAIN b[i].handles = 1 .. Len(b[i].handles)
                           /\ Len(b[i].handles) \in Nat
  BY CallsAre
<1>2. Names(m, HandlesIn(a))
  BY MetIs
<1>3. \A i \in 1 .. Len(a) : \A f \in 1 .. Len(a[i].handles) : a[i].handles[f] \in HandlesIn(a)
  BY DEF HandlesIn
<1> HIDE DEF m
<1>4. \A i \in 1 .. Len(a) : \A f \in 1 .. Len(a[i].handles) :
        /\ R(i, f) = 0 <=> a[i].handles[f] = NullHandle
        /\ \A j \in 1 .. Len(a) : \A g \in 1 .. Len(a[j].handles) :
             R(i, f) = R(j, g) <=> a[i].handles[f] = a[j].handles[g]
  BY <1>2, <1>3, RoleStands
<1> HIDE DEF R
<1>5. Len(t) = Len(a)
  <2>1. DOMAIN t = 1 .. Len(a)
    BY <1>1 DEF LearnTemplate
  <2>2. t = [i \in 1 .. Len(a) |-> t[i]]
    BY <1>1 DEF LearnTemplate
  <2> HIDE DEF t
  <2> QED BY <1>1, <2>2
<1>6. \A i \in 1 .. Len(a) :
        /\ t[i].shape = a[i].shape
        /\ t[i].roles = [f \in 1 .. Len(a[i].handles) |-> R(i, f)]
  BY <1>1 DEF LearnTemplate, R, m
<1>7. \A i \in 1 .. Len(a) :
        /\ Len(t[i].roles) = Len(a[i].handles)
        /\ \A f \in 1 .. Len(a[i].handles) : t[i].roles[f] = R(i, f)
  <2> SUFFICES ASSUME NEW i \in 1 .. Len(a)
               PROVE  /\ Len(t[i].roles) = Len(a[i].handles)
                      /\ \A f \in 1 .. Len(a[i].handles) : t[i].roles[f] = R(i, f)
    OBVIOUS
  <2> DEFINE l == Len(a[i].handles)
             r == t[i].roles
  <2>1. l \in Nat /\ r = [f \in 1 .. l |-> R(i, f)]
    BY <1>1, <1>6
  <2> HIDE DEF l, r
  <2>2. Len(r) = l /\ \A f \in 1 .. l : r[f] = R(i, f)
    BY <2>1
  <2> QED BY <2>2 DEF l, r
<1> HIDE DEF t
<1> DEFINE Same == \A i \in 1 .. n :
             /\ a[i].shape = b[i].shape /\ Len(a[i].handles) = Len(b[i].handles)
             /\ \A f \in 1 .. Len(b[i].handles) :
                  a[i].handles[f] = NullHandle <=> b[i].handles[f] = NullHandle
           Joint == \A i \in 1 .. n : \A f \in 1 .. Len(b[i].handles) :
                    \A j \in 1 .. n : \A g \in 1 .. Len(b[j].handles) :
             a[i].handles[f] = a[j].handles[g] <=> b[i].handles[f] = b[j].handles[g]
<1>8. n <= Len(a) => ((\A i \in 1 .. n : SameCall(t[i], b[i])) <=> Same)
  <2> SUFFICES ASSUME n <= Len(a), NEW i \in 1 .. n
               PROVE  SameCall(t[i], b[i]) <=>
                        /\ a[i].shape = b[i].shape /\ Len(a[i].handles) = Len(b[i].handles)
                        /\ \A f \in 1 .. Len(b[i].handles) :
                             a[i].handles[f] = NullHandle <=> b[i].handles[f] = NullHandle
    OBVIOUS
  <2>1. i \in 1 .. Len(a)
    BY <1>1
  <2>2. DOMAIN b[i].handles = 1 .. Len(b[i].handles)
    BY <1>1
  <2>3. /\ t[i].shape = a[i].shape /\ Len(t[i].roles) = Len(a[i].handles)
        /\ \A f \in 1 .. Len(a[i].handles) : t[i].roles[f] = R(i, f)
    BY <1>6, <1>7, <2>1
  <2>4. \A f \in 1 .. Len(a[i].handles) : R(i, f) = 0 <=> a[i].handles[f] = NullHandle
    BY <1>4, <2>1
  <2>5. \A f \in 1 .. Len(a[i].handles) : t[i].roles[f] = 0 <=> a[i].handles[f] = NullHandle
    BY <2>3, <2>4
  <2>6. SameCall(t[i], b[i]) <=>
          /\ a[i].shape = b[i].shape /\ Len(a[i].handles) = Len(b[i].handles)
          /\ \A f \in 1 .. Len(b[i].handles) : t[i].roles[f] = 0 <=> b[i].handles[f] = NullHandle
    BY <2>2, <2>3 DEF SameCall
  <2> QED BY <2>5, <2>6
<1>9. n <= Len(a) /\ Same => (Consistent(Bound(t, b, n)) <=> Joint)
  <2> SUFFICES ASSUME n <= Len(a), Same PROVE Consistent(Bound(t, b, n)) <=> Joint
    OBVIOUS
  <2> DEFINE B(i, f) == b[i].handles[f]
             Pair(i, f) == <<R(i, f), B(i, f)>>
  <2>1. \A i \in 1 .. n : i \in 1 .. Len(a) /\ Len(a[i].handles) = Len(b[i].handles)
    BY <1>1
  <2>2. \A p : p \in Bound(t, b, n) <=>
          \E i \in 1 .. n : \E f \in 1 .. Len(b[i].handles) :
            B(i, f) # NullHandle /\ p = Pair(i, f)
    <3>1. \A i \in 1 .. n : \A f \in 1 .. Len(b[i].handles) : t[i].roles[f] = R(i, f)
      BY <1>7, <2>1
    <3>2. \A i \in 1 .. n : DOMAIN b[i].handles = 1 .. Len(b[i].handles)
      BY <1>1
    <3> DEFINE Of(i) == {<<t[i].roles[f], B(i, f)>> :
                           f \in {g \in DOMAIN b[i].handles : B(i, g) # NullHandle}}
    <3>3. Bound(t, b, n) = UNION {Of(i) : i \in 1 .. n}
      BY DEF Bound
    <3>4. ASSUME NEW i \in 1 .. n, NEW p
          PROVE  p \in Of(i) <=> \E f \in 1 .. Len(b[i].handles) :
                                   B(i, f) # NullHandle /\ p = Pair(i, f)
      <4>1. /\ DOMAIN b[i].handles = 1 .. Len(b[i].handles)
            /\ \A f \in 1 .. Len(b[i].handles) : t[i].roles[f] = R(i, f)
        BY <3>1, <3>2
      <4> QED BY <4>1
    <3> HIDE DEF Of, Pair, B, n
    <3> QED BY <3>3, <3>4
  <2>3. \A i \in 1 .. n : \A f \in 1 .. Len(b[i].handles) :
          /\ R(i, f) = 0 <=> a[i].handles[f] = NullHandle
          /\ a[i].handles[f] = NullHandle <=> B(i, f) = NullHandle
          /\ \A j \in 1 .. n : \A g \in 1 .. Len(b[j].handles) :
               R(i, f) = R(j, g) <=> a[i].handles[f] = a[j].handles[g]
    BY <1>4, <2>1
  <2> HIDE DEF Same
  <2>4. Joint <=> \A i \in 1 .. n : \A f \in 1 .. Len(b[i].handles) :
                  \A j \in 1 .. n : \A g \in 1 .. Len(b[j].handles) :
                    B(i, f) # NullHandle /\ B(j, g) # NullHandle =>
                      (R(i, f) = R(j, g) <=> B(i, f) = B(j, g))
    <3> SUFFICES ASSUME NEW i \in 1 .. n, NEW f \in 1 .. Len(b[i].handles),
                        NEW j \in 1 .. n, NEW g \in 1 .. Len(b[j].handles)
                 PROVE  (a[i].handles[f] = a[j].handles[g] <=> b[i].handles[f] = b[j].handles[g])
                          <=> (B(i, f) # NullHandle /\ B(j, g) # NullHandle =>
                                 (R(i, f) = R(j, g) <=> B(i, f) = B(j, g)))
      OBVIOUS
    <3>1. /\ a[i].handles[f] = NullHandle <=> B(i, f) = NullHandle
          /\ a[j].handles[g] = NullHandle <=> B(j, g) = NullHandle
          /\ R(i, f) = R(j, g) <=> a[i].handles[f] = a[j].handles[g]
      BY <2>3
    <3> QED BY <3>1
  <2> DEFINE K(p) == p[1]
             V(p) == p[2]
  <2>5. \A i, f : Pair(i, f)[1] = R(i, f) /\ Pair(i, f)[2] = B(i, f)
    OBVIOUS
  <2> HIDE DEF Joint, B, Pair, n
  <2>6. Consistent(Bound(t, b, n)) <=>
          \A i \in 1 .. n : \A f \in 1 .. Len(b[i].handles) :
          \A j \in 1 .. n : \A g \in 1 .. Len(b[j].handles) :
            B(i, f) # NullHandle /\ B(j, g) # NullHandle =>
              (R(i, f) = R(j, g) <=> B(i, f) = B(j, g))
    <3>1. ASSUME Consistent(Bound(t, b, n)),
                 NEW i \in 1 .. n, NEW f \in 1 .. Len(b[i].handles),
                 NEW j \in 1 .. n, NEW g \in 1 .. Len(b[j].handles),
                 B(i, f) # NullHandle, B(j, g) # NullHandle
          PROVE  R(i, f) = R(j, g) <=> B(i, f) = B(j, g)
      <4>1. Pair(i, f) \in Bound(t, b, n) /\ Pair(j, g) \in Bound(t, b, n)
        BY <2>2, <3>1
      <4>2. Pair(i, f)[1] = Pair(j, g)[1] <=> Pair(i, f)[2] = Pair(j, g)[2]
        BY <3>1, <4>1 DEF Consistent
      <4> QED BY <2>5, <4>2
    <3>2. ASSUME \A i \in 1 .. n : \A f \in 1 .. Len(b[i].handles) :
                 \A j \in 1 .. n : \A g \in 1 .. Len(b[j].handles) :
                   B(i, f) # NullHandle /\ B(j, g) # NullHandle =>
                     (R(i, f) = R(j, g) <=> B(i, f) = B(j, g)),
                 NEW p \in Bound(t, b, n), NEW q \in Bound(t, b, n)
          PROVE  p[1] = q[1] <=> p[2] = q[2]
      <4>1. PICK i \in 1 .. n : \E f \in 1 .. Len(b[i].handles) :
              B(i, f) # NullHandle /\ p = Pair(i, f)
        BY <2>2
      <4>2. PICK f \in 1 .. Len(b[i].handles) : B(i, f) # NullHandle /\ p = Pair(i, f)
        BY <4>1
      <4>3. PICK j \in 1 .. n : \E g \in 1 .. Len(b[j].handles) :
              B(j, g) # NullHandle /\ q = Pair(j, g)
        BY <2>2
      <4>4. PICK g \in 1 .. Len(b[j].handles) : B(j, g) # NullHandle /\ q = Pair(j, g)
        BY <4>3
      <4> QED BY <2>5, <3>2, <4>2, <4>4
    <3> QED BY <3>1, <3>2 DEF Consistent
  <2> QED BY <2>4, <2>6
<1>10. MatchTemplatePrefix(t, b) <=>
         n <= Len(a) /\ (\A i \in 1 .. n : SameCall(t[i], b[i])) /\ Consistent(Bound(t, b, n))
  BY <1>1, <1>5 DEF MatchTemplatePrefix
<1>11. Renames(a, b) <=> n <= Len(a) /\ Same /\ Joint
  BY DEF Renames
<1> HIDE DEF Same, Joint
<1> QED BY <1>8, <1>9, <1>10, <1>11 DEF t

\* A prefix is renamed as the whole is.
LEMMA PrefixRenames ==
  ASSUME NEW a \in Seq(TemplateCalls), NEW b \in Seq(TemplateCalls), Len(b) <= Len(a)
  PROVE  /\ SubSeq(a, 1, Len(b)) \in Seq(TemplateCalls)
         /\ Len(SubSeq(a, 1, Len(b))) = Len(b)
         /\ Renames(SubSeq(a, 1, Len(b)), b) <=> Renames(a, b)
<1> DEFINE n == Len(b)
           p == SubSeq(a, 1, n)
<1>1. n \in Nat /\ Len(a) \in Nat
  OBVIOUS
<1>2. p \in Seq(TemplateCalls) /\ Len(p) = n /\ \A i \in 1 .. n : p[i] = a[i]
  BY <1>1
<1> HIDE DEF p
<1> QED BY <1>1, <1>2 DEF Renames, p

\* Two ways to say that one occurrence is the other with its handles renamed.
LEMMA AlikeIs ==
  ASSUME NEW a \in Seq(TemplateCalls), NEW b \in Seq(TemplateCalls), Len(a) = Len(b)
  PROVE  Alike(a, b) <=> Renames(a, b)
<1> DEFINE n == Len(b)
           A == ListsOf(a)
           B == ListsOf(b)
           x == HandlesOf(a)
           y == HandlesOf(b)
           Shaped == \A i \in 1 .. n :
                       a[i].shape = b[i].shape /\ Len(a[i].handles) = Len(b[i].handles)
<1>1. /\ n \in Nat /\ DOMAIN a = 1 .. n /\ Len(A) = n /\ Len(B) = n
      /\ A \in Seq(Seq(Nat)) /\ B \in Seq(Seq(Nat)) /\ x = FlattenSeq(A) /\ y = FlattenSeq(B)
      /\ \A i \in 1 .. n : A[i] = a[i].handles /\ B[i] = b[i].handles
  BY CallsAre
<1>2. x \in Seq(Nat) /\ y \in Seq(Nat)
  <2>1. <<>> \in Seq(Nat)
    OBVIOUS
  <2> QED BY <1>1, <2>1, FlattenAppend
<1> HIDE DEF A, B, x, y, n
<1>2a. Len(x) \in Nat /\ DOMAIN x = 1 .. Len(x)
  BY <1>2
<1>3. Shaped => Zipped(A, B)
  BY <1>1, FlatZips
<1> DEFINE Places(k, i, f) == x[k] = a[i].handles[f] /\ y[k] = b[i].handles[f]
<1>4. Shaped =>
        /\ Len(x) \in Nat /\ DOMAIN x = 1 .. Len(x)
        /\ \A i \in 1 .. n : \A f \in 1 .. Len(b[i].handles) :
             \E k \in 1 .. Len(x) : Places(k, i, f)
        /\ \A k \in 1 .. Len(x) :
             \E i \in 1 .. n : \E f \in 1 .. Len(b[i].handles) : Places(k, i, f)
  <2> SUFFICES ASSUME Shaped
               PROVE  /\ \A i \in 1 .. n : \A f \in 1 .. Len(b[i].handles) :
                           \E k \in 1 .. Len(x) : Places(k, i, f)
                      /\ \A k \in 1 .. Len(x) :
                           \E i \in 1 .. n : \E f \in 1 .. Len(b[i].handles) : Places(k, i, f)
    BY <1>2a
  <2>1. \A i \in 1 .. n : Len(A[i]) = Len(b[i].handles)
    BY <1>1
  <2>2. /\ \A i \in 1 .. n : \A f \in 1 .. Len(A[i]) :
             \E k \in 1 .. Len(x) : x[k] = A[i][f] /\ y[k] = B[i][f]
        /\ \A k \in 1 .. Len(x) :
             \E i \in 1 .. n : \E f \in 1 .. Len(A[i]) : x[k] = A[i][f] /\ y[k] = B[i][f]
    BY <1>1, <1>3 DEF Zipped
  <2> HIDE DEF Shaped
  <2>3. \A i \in 1 .. n : \A f \in 1 .. Len(b[i].handles) : \E k \in 1 .. Len(x) : Places(k, i, f)
    <3> SUFFICES ASSUME NEW i \in 1 .. n, NEW f \in 1 .. Len(b[i].handles)
                 PROVE  \E k \in 1 .. Len(x) : Places(k, i, f)
      OBVIOUS
    <3>1. f \in 1 .. Len(A[i]) /\ A[i] = a[i].handles /\ B[i] = b[i].handles
      BY <1>1, <2>1
    <3>2. PICK k \in 1 .. Len(x) : x[k] = A[i][f] /\ y[k] = B[i][f]
      BY <2>2, <3>1
    <3> QED BY <3>1, <3>2
  <2>4. \A k \in 1 .. Len(x) :
          \E i \in 1 .. n : \E f \in 1 .. Len(b[i].handles) : Places(k, i, f)
    <3> SUFFICES ASSUME NEW k \in 1 .. Len(x)
                 PROVE  \E i \in 1 .. n : \E f \in 1 .. Len(b[i].handles) : Places(k, i, f)
      OBVIOUS
    <3>1. PICK i \in 1 .. n : \E f \in 1 .. Len(A[i]) : x[k] = A[i][f] /\ y[k] = B[i][f]
      BY <2>2
    <3>2. PICK f \in 1 .. Len(A[i]) : x[k] = A[i][f] /\ y[k] = B[i][f]
      BY <3>1
    <3>3. f \in 1 .. Len(b[i].handles) /\ A[i] = a[i].handles /\ B[i] = b[i].handles
      BY <1>1, <2>1
    <3>4. Places(k, i, f)
      BY <3>2, <3>3
    <3> HIDE DEF Places
    <3> QED BY <3>3, <3>4
  <2> QED BY <2>3, <2>4
<1> DEFINE Fields == \A i \in 1 .. n : \A f \in 1 .. Len(b[i].handles) :
             /\ a[i].handles[f] = NullHandle <=> b[i].handles[f] = NullHandle
             /\ \A j \in 1 .. n : \A g \in 1 .. Len(b[j].handles) :
                  a[i].handles[f] = a[j].handles[g] <=> b[i].handles[f] = b[j].handles[g]
           Flat == \A k, l \in DOMAIN x :
             /\ x[k] = x[l] <=> y[k] = y[l]
             /\ x[k] = NullHandle <=> y[k] = NullHandle
<1>5. Shaped => (Fields <=> Flat)
  <2> SUFFICES ASSUME Shaped PROVE Fields <=> Flat
    OBVIOUS
  <2> HIDE DEF Shaped
  <2>1. ASSUME Flat PROVE Fields
    <3> SUFFICES ASSUME NEW i \in 1 .. n, NEW f \in 1 .. Len(b[i].handles)
                 PROVE  /\ a[i].handles[f] = NullHandle <=> b[i].handles[f] = NullHandle
                        /\ \A j \in 1 .. n : \A g \in 1 .. Len(b[j].handles) :
                             a[i].handles[f] = a[j].handles[g]
                               <=> b[i].handles[f] = b[j].handles[g]
      OBVIOUS
    <3>1. PICK k \in 1 .. Len(x) : Places(k, i, f)
      BY <1>4
    <3>2. ASSUME NEW j \in 1 .. n, NEW g \in 1 .. Len(b[j].handles)
          PROVE  a[i].handles[f] = a[j].handles[g] <=> b[i].handles[f] = b[j].handles[g]
      <4>1. PICK l \in 1 .. Len(x) : Places(l, j, g)
        BY <1>4
      <4>2. x[k] = x[l] <=> y[k] = y[l]
        BY <1>4, <2>1
      <4> QED BY <3>1, <4>1, <4>2
    <3>3. x[k] = NullHandle <=> y[k] = NullHandle
      BY <1>4, <2>1
    <3> QED BY <3>1, <3>2, <3>3
  <2>2. ASSUME Fields, NEW k \in DOMAIN x, NEW l \in DOMAIN x
        PROVE  /\ x[k] = x[l] <=> y[k] = y[l]
               /\ x[k] = NullHandle <=> y[k] = NullHandle
    <3>1. PICK i \in 1 .. n : \E f \in 1 .. Len(b[i].handles) : Places(k, i, f)
      BY <1>4
    <3>2. PICK f \in 1 .. Len(b[i].handles) : Places(k, i, f)
      BY <3>1
    <3>3. PICK j \in 1 .. n : \E g \in 1 .. Len(b[j].handles) : Places(l, j, g)
      BY <1>4
    <3>4. PICK g \in 1 .. Len(b[j].handles) : Places(l, j, g)
      BY <3>3
    <3> QED BY <2>2, <3>2, <3>4
  <2> QED BY <2>1, <2>2
<1>6. Alike(a, b) <=> Shaped /\ Flat
  BY <1>1 DEF Alike, x, y, n
<1>7. Renames(a, b) <=> Shaped /\ Fields
  <2>1. Len(b) <= Len(a)
    BY <1>1 DEF n
  <2>2. Renames(a, b) <=>
          \A i \in 1 .. n :
            /\ a[i].shape = b[i].shape /\ Len(a[i].handles) = Len(b[i].handles)
            /\ \A f \in 1 .. Len(b[i].handles) :
                 /\ a[i].handles[f] = NullHandle <=> b[i].handles[f] = NullHandle
                 /\ \A j \in 1 .. n : \A g \in 1 .. Len(b[j].handles) :
                      a[i].handles[f] = a[j].handles[g] <=> b[i].handles[f] = b[j].handles[g]
    BY <2>1 DEF Renames, n
  <2> QED BY <2>2
<1> HIDE DEF Shaped, Flat, Fields
<1> QED BY <1>5, <1>6, <1>7

\* The input of the task is two occurrences.
TemplateInv ==
  task = "template" =>
    /\ input = [old |-> input.old, new |-> input.new]
    /\ input.old \in Seq(TemplateCalls) /\ input.new \in Seq(TemplateCalls)

\* An occurrence matches the learned one, whole or as far as it goes, exactly
\* when it is the learned one with its handles renamed: for any number of calls,
\* handles and repetitions.
THEOREM RenamingMatches == ASpec => []MatchIsRenaming
<1>1. AInit => TemplateInv
  <2> SUFFICES ASSUME AInit, task = "template" PROVE TemplateInv
    BY DEF TemplateInv
  <2>1. input = [old |-> <<>>, new |-> <<>>] /\ <<>> \in Seq(TemplateCalls)
    BY DEF AInit
  <2> QED BY <2>1 DEF TemplateInv
<1>2. ASSUME TemplateInv, [ANext]_avars PROVE TemplateInv'
  <2>1. CASE task' = "template" /\ Observe
    <3> DEFINE old == input.old
               new == input.new
    <3>1. task = "template" /\ input = [old |-> old, new |-> new]
          /\ old \in Seq(TemplateCalls) /\ new \in Seq(TemplateCalls)
      BY <1>2, <2>1 DEF TemplateInv, Observe
    <3>2. PICK c \in SemanticCalls : \/ input' = [input EXCEPT !["old"] = Append(@, c)]
                                     \/ input' = [input EXCEPT !["new"] = Append(@, c)]
      BY <2>1 DEF Observe
    <3>3. c \in TemplateCalls
      BY AlgorithmAssumption DEF SemanticCalls, TemplateCalls
    <3> HIDE DEF old, new
    <3>4. \/ input' = [old |-> Append(old, c), new |-> new]
          \/ input' = [old |-> old, new |-> Append(new, c)]
      BY <3>1, <3>2 DEF old, new
    <3>5. Append(old, c) \in Seq(TemplateCalls) /\ Append(new, c) \in Seq(TemplateCalls)
      BY <3>1, <3>3
    <3>6. CASE input' = [old |-> Append(old, c), new |-> new]
      BY <3>1, <3>5, <3>6 DEF TemplateInv
    <3>7. CASE input' = [old |-> old, new |-> Append(new, c)]
      BY <3>1, <3>5, <3>7 DEF TemplateInv
    <3> QED BY <3>4, <3>6, <3>7
  <2>2. CASE UNCHANGED <<task, input>>
    BY <1>2, <2>2 DEF TemplateInv
  <2>3. CASE task' # "template"
    BY <2>3 DEF TemplateInv
  <2> QED
    BY <1>2, <2>1, <2>2, <2>3
       DEF ANext, avars, Batch, NoteSignature, ProfileUnit, RecordCalls, EncodeWord,
           QueueElement, PackCalls
<1>3. TemplateInv => MatchIsRenaming
  <2> SUFFICES ASSUME TemplateInv, task = "template" PROVE MatchIsRenaming
    BY DEF MatchIsRenaming
  <2> DEFINE a == input.old
             b == input.new
             t == LearnTemplate(a)
             p == SubSeq(a, 1, Len(b))
  <2>1. a \in Seq(TemplateCalls) /\ b \in Seq(TemplateCalls)
    BY DEF TemplateInv
  <2> HIDE DEF a, b
  <2>2. MatchTemplatePrefix(t, b) <=> Renames(a, b)
    BY <2>1, MatchIs
  <2>3. Len(t) = Len(a)
    <3>1. /\ Len(a) \in Nat /\ DOMAIN a = 1 .. Len(a)
      BY <2>1
    <3>2. t = [i \in 1 .. Len(a) |-> t[i]]
      BY <3>1 DEF LearnTemplate
    <3> HIDE DEF t
    <3> QED BY <3>1, <3>2
  <2>4. MatchTemplate(t, b) <=> Alike(a, b)
    <3>1. Alike(a, b) => Len(a) = Len(b)
      BY DEF Alike
    <3>2. Len(a) = Len(b) => (Alike(a, b) <=> Renames(a, b))
      BY <2>1, AlikeIs
    <3> HIDE DEF t
    <3> QED BY <2>2, <2>3, <3>1, <3>2 DEF MatchTemplate
  <2>5. Len(b) <= Len(a) => (MatchTemplatePrefix(t, b) <=> Alike(p, b))
    <3> SUFFICES ASSUME Len(b) <= Len(a) PROVE MatchTemplatePrefix(t, b) <=> Alike(p, b)
      OBVIOUS
    <3>1. p \in Seq(TemplateCalls) /\ Len(p) = Len(b) /\ (Renames(p, b) <=> Renames(a, b))
      BY <2>1, PrefixRenames
    <3> HIDE DEF p, t
    <3> QED BY <2>1, <2>2, <3>1, AlikeIs
  <2> QED BY <2>4, <2>5 DEF MatchIsRenaming, a, b
<1> QED BY <1>1, <1>2, <1>3, PTL DEF ASpec

-----------------------------------------------------------------------------
(* Borders *)

\* The first k elements of s[1], ..., s[i] are the last k.
IsBorder(s, i, k) == k \in 0 .. i - 1 /\ \A j \in 1 .. k : s[j] = s[i - k + j]

\* The longest of them
Longest(s, i, b) == IsBorder(s, i, b) /\ \A k : IsBorder(s, i, k) => k <= b

\* A border ends with an element that extends a border.
LEMMA BorderExtends ==
  ASSUME NEW s, NEW i \in Nat, i >= 2, NEW k \in 1 .. i - 1
  PROVE  IsBorder(s, i, k) <=> IsBorder(s, i - 1, k - 1) /\ s[i] = s[k]
<1>1. k \in 0 .. i - 1 /\ k - 1 \in 0 .. (i - 1) - 1
  OBVIOUS
<1>2. ASSUME IsBorder(s, i, k) PROVE IsBorder(s, i - 1, k - 1) /\ s[i] = s[k]
  <2>1. \A j \in 1 .. k : s[j] = s[i - k + j]
    BY <1>2 DEF IsBorder
  <2>2. s[k] = s[i]
    <3>1. k \in 1 .. k /\ i - k + k = i
      OBVIOUS
    <3> QED BY <2>1, <3>1
  <2>3. ASSUME NEW j \in 1 .. k - 1 PROVE s[j] = s[(i - 1) - (k - 1) + j]
    <3>1. j \in 1 .. k /\ (i - 1) - (k - 1) + j = i - k + j
      OBVIOUS
    <3> QED BY <2>1, <3>1
  <2> QED BY <1>1, <2>2, <2>3 DEF IsBorder
<1>3. ASSUME IsBorder(s, i - 1, k - 1), s[i] = s[k] PROVE IsBorder(s, i, k)
  <2>1. \A j \in 1 .. k - 1 : s[j] = s[(i - 1) - (k - 1) + j]
    BY <1>3 DEF IsBorder
  <2>2. ASSUME NEW j \in 1 .. k PROVE s[j] = s[i - k + j]
    <3>1. CASE j = k
      <4>1. i - k + k = i
        OBVIOUS
      <4> QED BY <1>3, <3>1, <4>1
    <3>2. CASE j # k
      <4>1. j \in 1 .. k - 1 /\ (i - 1) - (k - 1) + j = i - k + j
        BY <3>2
      <4> QED BY <2>1, <4>1
    <3> QED BY <3>1, <3>2
  <2> QED BY <1>1, <2>2 DEF IsBorder
<1> QED BY <1>2, <1>3

\* The shorter borders are those of a border.
LEMMA BorderOfBorder ==
  ASSUME NEW s, NEW i \in Nat, NEW p \in Nat, IsBorder(s, i, p), NEW k \in 0 .. p - 1
  PROVE  IsBorder(s, i, k) <=> IsBorder(s, p, k)
<1>1. p <= i - 1 /\ \A j \in 1 .. p : s[j] = s[i - p + j]
  BY DEF IsBorder
<1>2. ASSUME NEW j \in 1 .. k PROVE s[p - k + j] = s[i - k + j]
  <2>1. p - k + j \in 1 .. p /\ i - p + (p - k + j) = i - k + j
    BY <1>1
  <2> QED BY <1>1, <2>1
<1>3. k \in 0 .. i - 1
  BY <1>1
<1> QED BY <1>2, <1>3 DEF IsBorder

-----------------------------------------------------------------------------
(* Falling back to a shorter border *)

\* What a search that falls back from border to border chooses, for all it may start with
IsFall(s, b, i, m, f) == f = [p \in 0 .. m |-> IF p = 0 \/ s[i] = s[p + 1] THEN p ELSE f[b[p]]]

\* There is such a function, as a border is shorter than what it is a border of.
LEMMA FallExists ==
  ASSUME NEW s, NEW b, NEW i, NEW n \in Nat, \A p \in 1 .. n : b[p] \in 0 .. p - 1
  PROVE  \E f : IsFall(s, b, i, n, f)
<1> DEFINE T == {m \in 0 .. n : \E f : IsFall(s, b, i, m, f)}
<1>1. 0 \in T
  <2> DEFINE f == [p \in 0 .. 0 |-> p]
  <2>1. f = [p \in 0 .. 0 |-> IF p = 0 \/ s[i] = s[p + 1] THEN p ELSE f[b[p]]]
    OBVIOUS
  <2> HIDE DEF f
  <2> QED BY <2>1 DEF IsFall
<1>2. ASSUME NEW m \in 1 .. n, m - 1 \in T PROVE m \in T
  <2>1. PICK f : f = [p \in 0 .. m - 1 |-> IF p = 0 \/ s[i] = s[p + 1] THEN p ELSE f[b[p]]]
    BY <1>2 DEF IsFall
  <2> DEFINE h == [p \in 0 .. m |-> IF p = m THEN (IF s[i] = s[m + 1] THEN m ELSE f[b[m]])
                                    ELSE f[p]]
  <2>2. ASSUME NEW p \in 0 .. m
        PROVE  h[p] = IF p = 0 \/ s[i] = s[p + 1] THEN p ELSE h[b[p]]
    <3>1. CASE p = m
      <4>1. p # 0 /\ b[p] \in 0 .. m /\ b[p] # m
        BY <3>1
      <4>2. h[p] = (IF s[i] = s[m + 1] THEN m ELSE f[b[m]]) /\ h[b[p]] = f[b[p]]
        BY <3>1, <4>1
      <4> HIDE DEF h
      <4> QED BY <3>1, <4>1, <4>2
    <3>2. CASE p # m
      <4>1. p \in 0 .. m - 1 /\ (p # 0 => b[p] \in 0 .. m /\ b[p] # m)
        BY <3>2
      <4>2. f[p] = IF p = 0 \/ s[i] = s[p + 1] THEN p ELSE f[b[p]]
        BY <2>1, <4>1
      <4>3. h[p] = f[p] /\ (p # 0 => h[b[p]] = f[b[p]])
        BY <3>2, <4>1
      <4> HIDE DEF h
      <4> QED BY <4>2, <4>3
    <3> QED BY <3>1, <3>2
  <2>3. h = [p \in 0 .. m |-> h[p]]
    OBVIOUS
  <2> HIDE DEF h
  <2>4. h = [p \in 0 .. m |-> IF p = 0 \/ s[i] = s[p + 1] THEN p ELSE h[b[p]]]
    BY <2>2, <2>3
  <2>5. m \in 0 .. n
    OBVIOUS
  <2> QED BY <2>4, <2>5 DEF IsFall
<1> HIDE DEF T
<1>3. n \in T
  <2>1. \A m \in 0 .. n : m \in T
    BY <1>1, <1>2, Climbs
  <2> QED BY <2>1
<1> QED BY <1>3 DEF T

\* It finds the longest border, not longer than p, that s[i] extends.
LEMMA FallFinds ==
  ASSUME NEW s, NEW i \in Nat, i >= 2, NEW b,
         \A p \in 1 .. i - 1 : Longest(s, p, b[p]),
         NEW f, IsFall(s, b, i, i - 1, f),
         NEW r \in 0 .. i - 1, IsBorder(s, i - 1, r)
  PROVE  /\ f[r] \in 0 .. r /\ IsBorder(s, i - 1, f[r])
         /\ f[r] = 0 \/ s[i] = s[f[r] + 1]
         /\ \A k \in 0 .. r : IsBorder(s, i - 1, k) /\ s[i] = s[k + 1] => k <= f[r]
<1> DEFINE FoundBy(p, q) ==
             /\ q \in 0 .. p /\ IsBorder(s, i - 1, q)
             /\ q = 0 \/ s[i] = s[q + 1]
             /\ \A k \in 0 .. p : IsBorder(s, i - 1, k) /\ s[i] = s[k + 1] => k <= q
           T == {m \in 0 .. i - 1 : \A p \in 0 .. m : IsBorder(s, i - 1, p) => FoundBy(p, f[p])}
<1>1. \A p \in 0 .. i - 1 : f[p] = IF p = 0 \/ s[i] = s[p + 1] THEN p ELSE f[b[p]]
  BY DEF IsFall
<1>2. ASSUME NEW p \in 0 .. i - 1, IsBorder(s, i - 1, p), p = 0 \/ s[i] = s[p + 1]
      PROVE  FoundBy(p, f[p])
  <2>1. f[p] = p
    BY <1>1, <1>2
  <2>2. p \in 0 .. p /\ \A k \in 0 .. p : k <= p
    OBVIOUS
  <2> QED BY <1>2, <2>1, <2>2
<1>3. 0 \in T
  <2>1. 0 \in 0 .. i - 1 /\ \A p \in 0 .. 0 : p = 0
    OBVIOUS
  <2> HIDE DEF FoundBy
  <2> QED BY <1>2, <2>1
<1>4. ASSUME NEW m \in 1 .. i - 1, m - 1 \in T PROVE m \in T
  <2>1. m \in 0 .. i - 1 /\ \A p \in 0 .. m : p \in 0 .. m - 1 \/ p = m
    OBVIOUS
  <2>2. \A p \in 0 .. m - 1 : IsBorder(s, i - 1, p) => FoundBy(p, f[p])
    BY <1>4
  <2>3. ASSUME IsBorder(s, i - 1, m) PROVE FoundBy(m, f[m])
    <3>1. CASE s[i] = s[m + 1]
      <4> HIDE DEF FoundBy
      <4> QED BY <1>2, <2>1, <2>3, <3>1
    <3>2. CASE s[i] # s[m + 1]
      <4> DEFINE p == b[m]
      <4>1. Longest(s, m, p)
        OBVIOUS
      <4>2. f[m] = f[p]
        BY <1>1, <2>1, <3>2
      <4> HIDE DEF p
      <4>3. p \in 0 .. m - 1 /\ IsBorder(s, m, p) /\ \A k : IsBorder(s, m, k) => k <= p
        BY <4>1 DEF Longest, IsBorder
      <4>4. i - 1 \in Nat /\ m \in Nat
        OBVIOUS
      <4>5. \A k \in 0 .. m - 1 : IsBorder(s, i - 1, k) <=> IsBorder(s, m, k)
        BY <2>3, <4>4, BorderOfBorder
      <4>6. FoundBy(p, f[p])
        BY <2>2, <4>3, <4>5
      <4>7. ASSUME NEW k \in 0 .. m, IsBorder(s, i - 1, k), s[i] = s[k + 1] PROVE k <= f[p]
        <5>1. k # m
          BY <3>2, <4>7
        <5>2. k \in 0 .. m - 1
          BY <5>1
        <5>3. k <= p
          BY <4>3, <4>5, <4>7, <5>2
        <5>4. k \in 0 .. p
          BY <4>3, <5>3
        <5> QED BY <4>6, <4>7, <5>4
      <4>8. f[p] \in 0 .. m
        BY <4>3, <4>6
      <4> QED BY <4>2, <4>6, <4>7, <4>8
    <3> QED BY <3>1, <3>2
  <2> HIDE DEF FoundBy
  <2> QED BY <2>1, <2>2, <2>3
<1> HIDE DEF T
<1>5. i - 1 \in T
  <2>1. i - 1 \in Nat
    OBVIOUS
  <2>2. \A m \in 0 .. i - 1 : m \in T
    BY <1>3, <1>4, <2>1, Climbs
  <2> QED BY <2>1, <2>2
<1> QED BY <1>5 DEF T

\* The next border.
LEMMA NextIs ==
  ASSUME NEW s, NEW i \in Nat, i >= 2, NEW b \in Seq(Nat), Len(b) = i - 1,
         \A p \in 1 .. i - 1 : Longest(s, p, b[p])
  PROVE  Longest(s, i, NextBorder(s, b, i))
<1> DEFINE l == b[i - 1]
           P(f) == IsFall(s, b, i, i - 1, f)
           f == CHOOSE g : P(g)
           q == f[l]
<1>1. i - 1 \in Nat /\ i - 1 \in 1 .. i - 1 /\ i \in Nat
  OBVIOUS
<1>2. NextBorder(s, b, i) = IF s[i] = s[q + 1] THEN q + 1 ELSE q
  <2>1. Last(b) = l
    BY DEF Last
  <2> QED BY <2>1 DEF NextBorder, IsFall
<1>3. P(f)
  <2>1. \A p \in 1 .. i - 1 : b[p] \in 0 .. p - 1
    BY DEF Longest, IsBorder
  <2>2. \E g : P(g)
    BY <1>1, <2>1, FallExists
  <2> HIDE DEF P
  <2> QED BY <2>2
<1> HIDE DEF f
<1>4. Longest(s, i - 1, l)
  BY <1>1
<1>5. l \in 0 .. i - 2 /\ IsBorder(s, i - 1, l) /\ \A k : IsBorder(s, i - 1, k) => k <= l
  BY <1>1, <1>4 DEF Longest, IsBorder
<1>6. l \in 0 .. i - 1
  BY <1>5
<1> HIDE DEF l, q
<1>7. /\ q \in 0 .. l /\ IsBorder(s, i - 1, q)
      /\ q = 0 \/ s[i] = s[q + 1]
      /\ \A k \in 0 .. l : IsBorder(s, i - 1, k) /\ s[i] = s[k + 1] => k <= q
  BY <1>3, <1>5, <1>6, FallFinds DEF q
<1>8. q \in Nat /\ q <= i - 2
  BY <1>1, <1>5, <1>7
<1>9. ASSUME NEW k, IsBorder(s, i, k), k # 0 PROVE k \in 1 .. i - 1 /\ s[i] = s[k] /\ k - 1 <= q
  <2>1. k \in 1 .. i - 1
    BY <1>9 DEF IsBorder
  <2>2. IsBorder(s, i - 1, k - 1) /\ s[i] = s[k]
    BY <1>9, <2>1, BorderExtends
  <2>3. k - 1 \in 0 .. l
    <3>1. k - 1 <= l
      BY <1>5, <2>2
    <3> QED BY <1>5, <2>1, <3>1
  <2>4. (k - 1) + 1 = k
    BY <2>1
  <2>5. k - 1 <= q
    BY <1>7, <2>2, <2>3, <2>4
  <2> QED BY <2>1, <2>2, <2>5
<1>10. CASE s[i] = s[q + 1]
  <2>1. q + 1 \in 1 .. i - 1 /\ (q + 1) - 1 = q
    BY <1>1, <1>8
  <2>2. IsBorder(s, i, q + 1)
    <3>1. IsBorder(s, i - 1, (q + 1) - 1)
      BY <1>7, <2>1
    <3> QED BY <1>10, <2>1, <3>1, BorderExtends
  <2>3. ASSUME NEW k, IsBorder(s, i, k) PROVE k <= q + 1
    <3>1. CASE k = 0
      BY <1>8, <3>1
    <3>2. CASE k # 0
      BY <1>8, <1>9, <2>3, <3>2
    <3> QED BY <3>1, <3>2
  <2> QED BY <1>2, <1>10, <2>2, <2>3 DEF Longest
<1>11. CASE s[i] # s[q + 1]
  <2>1. q = 0
    BY <1>7, <1>11
  <2>2. IsBorder(s, i, 0)
    BY DEF IsBorder
  <2>3. ASSUME NEW k, IsBorder(s, i, k) PROVE k <= 0
    <3>1. CASE k = 0
      BY <3>1
    <3>2. CASE k # 0
      <4>1. k \in 1 .. i - 1 /\ s[i] = s[k] /\ k - 1 <= 0
        BY <1>9, <2>1, <2>3, <3>2
      <4>2. k = q + 1
        BY <2>1, <4>1
      <4> QED BY <1>11, <4>1, <4>2
    <3> QED BY <3>1, <3>2
  <2> QED BY <1>2, <1>11, <2>1, <2>2, <2>3 DEF Longest
<1> QED BY <1>10, <1>11

\* The fold that computes the borders is where its iterations end.
LEMMA BordersLoop ==
  ASSUME NEW s, Len(s) \in Nat \ {0}
  PROVE  \E w : /\ IsLoop("borders", s, <<0>>, [j \in 1 .. Len(s) - 1 |-> j + 1], w)
                /\ Borders(s) = w[Len(s) - 1]
<1> DEFINE elems == [j \in 1 .. Len(s) - 1 |-> j + 1]
           P(f) == f = [t \in SUBSET DOMAIN elems |->
                          IF t = {} THEN <<0>>
                          ELSE Append(f[t \ {Max(t)}],
                                      NextBorder(s, f[t \ {Max(t)}], elems[Max(t)]))]
<1>1. Borders(s) = (CHOOSE f : P(f))[DOMAIN elems]
  BY DEF Borders, FoldLeft, MapThenFoldSet
<1>2. elems \in Seq(Nat) /\ Len(elems) = Len(s) - 1
  <2>1. Len(s) - 1 \in Nat /\ elems \in [1 .. Len(s) - 1 -> Nat]
    OBVIOUS
  <2> HIDE DEF elems
  <2> QED BY <2>1
<1> HIDE DEF elems
<1>3. ASSUME NEW f PROVE P(f) <=> IsIter("borders", s, <<0>>, elems, DOMAIN elems, f)
  <2>1. \A x, i : After("borders", s, x, i) = Append(x, NextBorder(s, x, i))
    BY DEF After
  <2>2. \A t \in SUBSET DOMAIN elems :
          (IF t = {} THEN <<0>> ELSE Append(f[t \ {Max(t)}],
                                            NextBorder(s, f[t \ {Max(t)}], elems[Max(t)])))
            = IF t = {} THEN <<0>>
              ELSE After("borders", s, f[t \ {Max(t)}], elems[Max(t)])
    BY <2>1
  <2> QED BY <2>2 DEF IsIter
<1> HIDE DEF P
<1> DEFINE f == CHOOSE g : P(g)
<1>4. IsIter("borders", s, <<0>>, elems, DOMAIN elems, f)
  BY <1>2, <1>3, FoldExists
<1> HIDE DEF f
<1>5. \E w : IsLoop("borders", s, <<0>>, elems, w) /\ w[Len(elems)] = f[DOMAIN elems]
  BY <1>2, <1>4, FoldIsLoop
<1> QED BY <1>1, <1>2, <1>5 DEF f, elems

\* Each is the longest of its prefix.
LEMMA BordersAre ==
  ASSUME NEW s, Len(s) \in Nat \ {0}
  PROVE  /\ Borders(s) \in Seq(Nat) /\ Len(Borders(s)) = Len(s)
         /\ \A i \in 1 .. Len(s) : Longest(s, i, Borders(s)[i])
<1> DEFINE n == Len(s)
           elems == [j \in 1 .. n - 1 |-> j + 1]
<1>1. n \in Nat \ {0} /\ n - 1 \in Nat
  OBVIOUS
<1>2. PICK w : IsLoop("borders", s, <<0>>, elems, w) /\ Borders(s) = w[n - 1]
  BY BordersLoop
<1>3. Len(elems) = n - 1 /\ \A k \in 1 .. n - 1 : elems[k] = k + 1
  BY <1>1
<1> HIDE DEF elems, n
<1> DEFINE T == {k \in 0 .. n - 1 : /\ w[k] \in Seq(Nat) /\ Len(w[k]) = k + 1
                                    /\ \A i \in 1 .. k + 1 : Longest(s, i, w[k][i])}
<1>4. 0 \in T
  <2>1. w[0] = <<0>>
    BY <1>2 DEF IsLoop
  <2>2. <<0>> \in Seq(Nat) /\ Len(<<0>>) = 1 /\ <<0>>[1] = 0
    OBVIOUS
  <2>3. Longest(s, 1, 0)
    BY DEF Longest, IsBorder
  <2>4. \A i \in 1 .. 0 + 1 : i = 1
    OBVIOUS
  <2>5. \A i \in 1 .. 0 + 1 : Longest(s, i, <<0>>[i])
    BY <2>2, <2>3, <2>4
  <2>6. 0 \in 0 .. n - 1 /\ Len(<<0>>) = 0 + 1
    BY <1>1, <2>2
  <2> QED BY <2>1, <2>2, <2>5, <2>6
<1>5. ASSUME NEW k \in 1 .. n - 1, k - 1 \in T PROVE k \in T
  <2> DEFINE b == w[k - 1]
             i == k + 1
             next == NextBorder(s, b, i)
             d == Append(b, next)
  <2>1. k \in Nat /\ k \in 0 .. n - 1 /\ (k - 1) + 1 = k /\ i - 1 = k /\ i \in Nat /\ i >= 2
    BY <1>1
  <2>2. b \in Seq(Nat) /\ Len(b) = k /\ \A p \in 1 .. k : Longest(s, p, b[p])
    BY <1>5, <2>1
  <2>3. w[k] = d
    <3>1. w[k] = After("borders", s, w[k - 1], elems[k])
      BY <1>2, <1>3 DEF IsLoop
    <3> QED BY <1>3, <3>1 DEF After
  <2> HIDE DEF b, i, T
  <2>4. Longest(s, i, next)
    BY <2>1, <2>2, NextIs
  <2> HIDE DEF next
  <2>5. next \in Nat
    BY <2>1, <2>4 DEF Longest, IsBorder
  <2>6. /\ d \in Seq(Nat) /\ Len(d) = k + 1 /\ d[k + 1] = next
        /\ \A p \in 1 .. k : d[p] = b[p]
    BY <2>1, <2>2, <2>5
  <2> HIDE DEF d
  <2>7. \A p \in 1 .. k + 1 : Longest(s, p, d[p])
    <3>1. \A p \in 1 .. k + 1 : p \in 1 .. k \/ p = k + 1
      BY <2>1
    <3> QED BY <2>2, <2>4, <2>6, <3>1 DEF i
  <2> QED BY <2>1, <2>3, <2>6, <2>7 DEF T
<1> HIDE DEF T
<1>6. n - 1 \in T
  <2>1. \A k \in 0 .. n - 1 : k \in T
    BY <1>1, <1>4, <1>5, Climbs
  <2> QED BY <1>1, <2>1
<1>7. (n - 1) + 1 = n
  BY <1>1
<1> QED BY <1>2, <1>6, <1>7 DEF T, n

-----------------------------------------------------------------------------
(* Periods *)

\* A sequence that repeats itself after p elements
Periodic(s, p) == \A i \in 1 .. Len(s) - p : s[i] = s[i + p]

\* The period of the failure function is one, and no period of which the
\* sequence is the square is shorter.
LEMMA WholeIs ==
  ASSUME NEW s, Len(s) \in Nat \ {0}
  PROVE  /\ WholePeriod(s) \in 0 .. Len(s)
         /\ WholePeriod(s) # 0 => /\ 2 * WholePeriod(s) <= Len(s) /\ Periodic(s, WholePeriod(s))
                                  /\ Len(s) % WholePeriod(s) = 0
         /\ \A p \in 1 .. Len(s) :
              2 * p = Len(s) /\ Periodic(s, p) /\ (\A r \in 1 .. p - 1 : ~Periodic(s, r))
                => WholePeriod(s) = p
<1> DEFINE n == Len(s)
           b == Borders(s)[n]
           q == n - b
<1>1. n \in Nat \ {0}
  OBVIOUS
<1>2. Longest(s, n, b) /\ Last(Borders(s)) = b
  <2>1. n \in 1 .. n
    BY <1>1
  <2>2. /\ Borders(s) \in Seq(Nat) /\ Len(Borders(s)) = n
        /\ \A i \in 1 .. n : Longest(s, i, Borders(s)[i])
    BY BordersAre
  <2> QED BY <2>1, <2>2 DEF Last
<1>3. WholePeriod(s) = IF n >= 2 * q /\ n % q = 0 THEN q ELSE 0
  BY <1>2 DEF WholePeriod
<1> HIDE DEF b, n
<1>4. b \in 0 .. n - 1 /\ IsBorder(s, n, b) /\ \A k : IsBorder(s, n, k) => k <= b
  BY <1>2 DEF Longest, IsBorder
<1>5. q \in 1 .. n /\ n - q = b
  BY <1>1, <1>4
<1>6. \A p \in 1 .. n : Periodic(s, p) <=> IsBorder(s, n, n - p)
  <2> SUFFICES ASSUME NEW p \in 1 .. n PROVE Periodic(s, p) <=> IsBorder(s, n, n - p)
    OBVIOUS
  <2>1. n - p \in 0 .. n - 1 /\ \A j \in 1 .. n - p : n - (n - p) + j = j + p
    BY <1>1
  <2> QED BY <2>1 DEF Periodic, IsBorder, n
<1>7. Periodic(s, q)
  BY <1>4, <1>5, <1>6
<1>8. ASSUME NEW p \in 1 .. n, 2 * p = n, Periodic(s, p), \A r \in 1 .. p - 1 : ~Periodic(s, r)
      PROVE  q = p /\ n % p = 0
  <2>1. n - p <= b
    BY <1>4, <1>6, <1>8
  <2>2. q <= p
    BY <1>1, <1>4, <2>1
  <2>3. ~(q \in 1 .. p - 1)
    BY <1>7, <1>8
  <2>4. q = p
    <3> HIDE DEF q
    <3> QED BY <1>1, <1>5, <2>2, <2>3
  <2>5. p \in Nat \ {0} /\ n \in Nat /\ n = 2 * p
    BY <1>1, <1>8
  <2>6. n % p = 0
    BY <2>5
  <2> QED BY <2>4, <2>6
<1> HIDE DEF q
<1>9. WholePeriod(s) \in 0 .. n
  BY <1>1, <1>3, <1>5
<1>10. WholePeriod(s) # 0 => 2 * WholePeriod(s) <= n /\ Periodic(s, WholePeriod(s))
                             /\ n % WholePeriod(s) = 0
  BY <1>1, <1>3, <1>5, <1>7
<1>11. ASSUME NEW p \in 1 .. n, 2 * p = n, Periodic(s, p), \A r \in 1 .. p - 1 : ~Periodic(s, r)
       PROVE  WholePeriod(s) = p
  <2>1. q = p /\ n % p = 0
    BY <1>8, <1>11
  <2>2. n >= 2 * p
    BY <1>1, <1>11
  <2> QED BY <1>3, <2>1, <2>2
<1> QED BY <1>9, <1>10, <1>11 DEF n

\* The last p elements are the p before them.
SquareAt(s, p) ==
  /\ p \in 1 .. Len(s) /\ 2 * p <= Len(s)
  /\ \A j \in 1 .. p : s[Len(s) - 2 * p + j] = s[Len(s) - p + j]

\* The end of a sequence
LEMMA TailIs ==
  ASSUME NEW S, NEW s \in Seq(S), NEW m \in 0 .. Len(s)
  PROVE  /\ Len(Tailing(s, m)) = m /\ Tailing(s, m) \in Seq(S)
         /\ \A j \in 1 .. m : Tailing(s, m)[j] = s[Len(s) - m + j]
<1>1. Len(s) \in Nat
  OBVIOUS
<1> DEFINE n == Len(s)
           a == n - m + 1
<1>2. n \in Nat /\ a \in 1 .. n + 1 /\ n - a + 1 = m /\ \A j \in 1 .. m : a + j - 1 = n - m + j
  BY <1>1
<1>3. Tailing(s, m) = SubSeq(s, a, n)
  BY DEF Tailing
<1> HIDE DEF a, n
<1>4. \A i \in a .. n : s[i] \in S
  BY <1>2 DEF n
<1>5. SubSeq(s, a, n) \in Seq(S) /\ Len(SubSeq(s, a, n)) = IF a <= n THEN n - a + 1 ELSE 0
  BY <1>2, <1>4, SubSeqProperties DEF n
<1>6. \A j \in 1 .. n - a + 1 : SubSeq(s, a, n)[j] = s[a + j - 1]
  BY <1>2, SubSeqProperties DEF n
<1> QED BY <1>2, <1>3, <1>5, <1>6 DEF n

\* A period of the end that is there twice is a square.
LEMMA PeriodSquares ==
  ASSUME NEW S, NEW s \in Seq(S), NEW m \in 1 .. Len(s), NEW q \in 1 .. m, 2 * q <= m,
         Periodic(Tailing(s, m), q)
  PROVE  SquareAt(s, q)
<1> DEFINE n == Len(s)
           t == Tailing(s, m)
<1>1. n \in Nat /\ m \in 0 .. n
  OBVIOUS
<1>2. Len(t) = m /\ \A j \in 1 .. m : t[j] = s[n - m + j]
  BY <1>1, TailIs
<1>3. \A i \in 1 .. m - q : t[i] = t[i + q]
  BY <1>2 DEF Periodic
<1> HIDE DEF n, t
<1>4. ASSUME NEW j \in 1 .. q PROVE s[n - 2 * q + j] = s[n - q + j]
  <2> DEFINE i == m - 2 * q + j
  <2>1. i \in 1 .. m - q /\ i \in 1 .. m /\ i + q \in 1 .. m
    BY <1>1
  <2>2. n - m + i = n - 2 * q + j /\ n - m + (i + q) = n - q + j
    BY <1>1
  <2> HIDE DEF i
  <2> QED BY <1>2, <1>3, <2>1, <2>2
<1>5. q \in 1 .. n /\ 2 * q <= n
  BY <1>1
<1> QED BY <1>4, <1>5 DEF SquareAt, n

\* Squares are periods of their two halves.
LEMMA SquareIsPeriod ==
  ASSUME NEW S, NEW s \in Seq(S), NEW p \in 1 .. Len(s), 2 * p <= Len(s)
  PROVE  /\ 2 * p \in 1 .. Len(s) /\ Len(Tailing(s, 2 * p)) = 2 * p
         /\ SquareAt(s, p) <=> Periodic(Tailing(s, 2 * p), p)
<1> DEFINE n == Len(s)
           t == Tailing(s, 2 * p)
<1>1. n \in Nat /\ 2 * p \in 0 .. n /\ 2 * p \in 1 .. n /\ p \in Nat
  OBVIOUS
<1>2. Len(t) = 2 * p /\ \A j \in 1 .. 2 * p : t[j] = s[n - 2 * p + j]
  BY <1>1, TailIs
<1> HIDE DEF n, t
<1>3. ASSUME NEW j \in 1 .. p
      PROVE  t[j] = s[n - 2 * p + j] /\ t[j + p] = s[n - p + j]
  <2>1. j \in 1 .. 2 * p /\ j + p \in 1 .. 2 * p /\ n - 2 * p + (j + p) = n - p + j
    BY <1>1
  <2> QED BY <1>2, <2>1
<1>4. 2 * p - p = p
  BY <1>1
<1>5. Periodic(t, p) <=> \A j \in 1 .. p : t[j] = t[j + p]
  BY <1>2, <1>4 DEF Periodic
<1> QED BY <1>1, <1>2, <1>3, <1>5 DEF SquareAt, n, t

\* What a sequence ends with twice, as a condition on its elements.
LEMMA SquaresAre ==
  ASSUME NEW S, NEW s \in Seq(S)
  PROVE  \A p : p \in Squares(s) <=> SquareAt(s, p)
<1>1. Len(s) \in Nat
  OBVIOUS
<1>2. \A p : p \in 1 .. Len(s) \div 2 <=> p \in 1 .. Len(s) /\ 2 * p <= Len(s)
  BY <1>1
<1>3. ASSUME NEW p \in 1 .. Len(s), 2 * p <= Len(s)
      PROVE  Repeats(Tailing(s, 2 * p), p) <=> SquareAt(s, p)
  <2>1. /\ Len(Tailing(s, 2 * p)) = 2 * p
        /\ SquareAt(s, p) <=> Periodic(Tailing(s, 2 * p), p)
    BY <1>3, SquareIsPeriod
  <2>2. (2 * p) % p = 0
    OBVIOUS
  <2> QED BY <2>1, <2>2 DEF Repeats, Periodic
<1> QED BY <1>2, <1>3 DEF Squares, SquareAt

\* The shortest square is the whole period of its two halves.
LEMMA ShortestFound ==
  ASSUME NEW S, NEW s \in Seq(S), NEW p, SquareAt(s, p),
         \A r : SquareAt(s, r) => p <= r
  PROVE  WholePeriod(Tailing(s, 2 * p)) = p
<1> DEFINE t == Tailing(s, 2 * p)
           n == Len(s)
<1>1. n \in Nat /\ p \in 1 .. n /\ 2 * p <= n
  BY DEF SquareAt
<1>2. 2 * p \in 1 .. n /\ Len(t) = 2 * p /\ Periodic(t, p)
  BY <1>1, SquareIsPeriod
<1> HIDE DEF n
<1>3. ASSUME NEW r \in 1 .. p - 1, Periodic(t, r) PROVE FALSE
  <2>1. r \in 1 .. 2 * p /\ 2 * r <= 2 * p /\ r < p /\ r \in Nat /\ p \in Nat
    BY <1>1
  <2>2. SquareAt(s, r)
    BY <1>2, <1>3, <2>1, PeriodSquares DEF n
  <2>3. p <= r
    BY <2>2
  <2> QED BY <2>1, <2>3
<1> HIDE DEF t
<1>4. Len(t) \in Nat \ {0} /\ p \in 1 .. Len(t) /\ 2 * p = Len(t)
  BY <1>1, <1>2
<1>5. WholePeriod(t) = p
  BY <1>2, <1>3, <1>4, WholeIs
<1> QED BY <1>5 DEF t

\* What a failure function finds of the end of a sequence is a square.
LEMMA WholeSquares ==
  ASSUME NEW S, NEW s \in Seq(S), NEW m \in 1 .. Len(s), WholePeriod(Tailing(s, m)) # 0
  PROVE  SquareAt(s, WholePeriod(Tailing(s, m)))
<1> DEFINE t == Tailing(s, m)
           q == WholePeriod(t)
<1>1. m \in 0 .. Len(s) /\ m \in Nat \ {0}
  OBVIOUS
<1>2. Len(t) = m
  BY <1>1, TailIs
<1> HIDE DEF t
<1>3. q \in 0 .. m /\ 2 * q <= m /\ Periodic(t, q)
  BY <1>1, <1>2, WholeIs DEF t
<1> HIDE DEF q
<1>4. q \in 1 .. m
  BY <1>1, <1>3 DEF q, t
<1> QED BY <1>3, <1>4, PeriodSquares DEF q, t

\* Both detectors.
LEMMA Detected ==
  ASSUME NEW S, NEW s \in Seq(S), s # <<>>
  PROVE  LET found == NoteInterval(s)
         IN IF Squares(s) = {} THEN RepeatedSuffixPeriod(s) = 0 /\ found = 0
            ELSE /\ RepeatedSuffixPeriod(s) = Min(Squares(s))
                 /\ found \in Squares(s)
                 /\ found # Min(Squares(s)) => Repeats(s, found)
<1> DEFINE n == Len(s)
           squares == Squares(s)
           least == Min(squares)
           periods == {WholePeriod(Tailing(s, m)) : m \in 2 .. n} \ {0}
           halves == {p \in 1 .. n \div 2 : Tailing(s, p) = SubSeq(s, n - 2 * p + 1, n - p)}
           whole == WholePeriod(s)
<1>1. n \in Nat \ {0}
  OBVIOUS
<1>2. \A p : p \in squares <=> SquareAt(s, p)
  BY SquaresAre
<1>3. squares \subseteq Nat
  <2>1. \A p : SquareAt(s, p) => p \in Nat
    BY DEF SquareAt
  <2> HIDE DEF squares
  <2> QED BY <1>2, <2>1
<1>4. periods \subseteq squares
  <2> SUFFICES ASSUME NEW m \in 2 .. n, WholePeriod(Tailing(s, m)) # 0
               PROVE  WholePeriod(Tailing(s, m)) \in squares
    OBVIOUS
  <2>1. m \in 1 .. n
    OBVIOUS
  <2> QED BY <1>2, <2>1, WholeSquares
<1>5. halves = squares
  <2> SUFFICES ASSUME NEW p PROVE p \in halves <=> SquareAt(s, p)
    BY <1>2
  <2>1. p \in 1 .. n \div 2 <=> p \in 1 .. n /\ 2 * p <= n
    BY <1>1
  <2>2. ASSUME p \in 1 .. n, 2 * p <= n
        PROVE  Tailing(s, p) = SubSeq(s, n - 2 * p + 1, n - p)
                 <=> \A j \in 1 .. p : s[n - 2 * p + j] = s[n - p + j]
    <3> DEFINE t == Tailing(s, p)
               u == SubSeq(s, n - 2 * p + 1, n - p)
    <3>1. p \in 0 .. n /\ p \in Nat
      BY <1>1, <2>2
    <3>2. Len(t) = p /\ t \in Seq(S) /\ \A j \in 1 .. p : t[j] = s[n - p + j]
      BY <3>1, TailIs
    <3>3. Len(u) = p /\ u \in Seq(S) /\ \A j \in 1 .. p : u[j] = s[n - 2 * p + j]
      <4> DEFINE a == n - 2 * p + 1
                 c == n - p
      <4>1. /\ a \in 1 .. n /\ c \in 1 .. n /\ a <= c /\ c - a + 1 = p
            /\ \A j \in 1 .. p : a + j - 1 = n - 2 * p + j
        BY <1>1, <2>2
      <4> HIDE DEF a, c, n
      <4>2. \A i \in a .. c : s[i] \in S
        BY <1>1, <4>1 DEF n
      <4>3. SubSeq(s, a, c) \in Seq(S) /\ Len(SubSeq(s, a, c)) = p
        BY <1>1, <4>1, <4>2, SubSeqProperties DEF n
      <4>4. \A j \in 1 .. c - a + 1 : SubSeq(s, a, c)[j] = s[a + j - 1]
        BY <1>1, <4>1, SubSeqProperties DEF n
      <4> QED BY <4>1, <4>3, <4>4 DEF a, c
    <3> HIDE DEF t, u, n
    <3>4. t = u <=> \A j \in 1 .. p : t[j] = u[j]
      BY <3>1, <3>2, <3>3
    <3> QED BY <3>2, <3>3, <3>4 DEF t, u
  <2> QED BY <2>1, <2>2 DEF SquareAt
<1>6. whole # 0 => whole \in squares /\ Repeats(s, whole)
  <2> SUFFICES ASSUME whole # 0 PROVE whole \in squares /\ Repeats(s, whole)
    OBVIOUS
  <2>1. n \in 0 .. n /\ n \in 1 .. n /\ \A j \in 1 .. n : n - n + j = j
    BY <1>1
  <2>2. Tailing(s, n) = s
    <3>1. /\ Len(Tailing(s, n)) = n /\ Tailing(s, n) \in Seq(S)
          /\ \A j \in 1 .. n : Tailing(s, n)[j] = s[n - n + j]
      BY <2>1, TailIs
    <3> DEFINE t == Tailing(s, n)
    <3> HIDE DEF t
    <3> QED BY <2>1, <3>1 DEF t
  <2>3. SquareAt(s, whole)
    BY <2>1, <2>2, WholeSquares
  <2>4. n % whole = 0 /\ Periodic(s, whole)
    BY <1>1, WholeIs
  <2> QED BY <1>2, <2>3, <2>4 DEF Repeats, Periodic
<1>7. /\ RepeatedSuffixPeriod(s) = IF periods = {} THEN 0 ELSE Min(periods)
      /\ NoteInterval(s) = IF whole # 0 THEN whole ELSE IF halves = {} THEN 0 ELSE Min(halves)
  BY DEF RepeatedSuffixPeriod, NoteInterval
<1>8. CASE squares = {}
  <2>1. periods = {} /\ whole = 0 /\ halves = {}
    BY <1>4, <1>5, <1>6, <1>8
  <2> QED BY <1>7, <1>8, <2>1
<1>9. CASE squares # {}
  <2>1. least \in squares /\ \A p \in squares : least <= p
    <3> HIDE DEF squares
    <3> QED BY <1>3, <1>9, MinIs
  <2>2. least \in periods
    <3>1. WholePeriod(Tailing(s, 2 * least)) = least
      BY <1>2, <2>1, ShortestFound
    <3>2. 2 * least \in 2 .. n /\ least # 0
      <4>1. least \in 1 .. n /\ 2 * least <= n
        BY <1>2, <2>1 DEF SquareAt
      <4> HIDE DEF least, n
      <4> QED BY <1>1, <4>1
    <3> QED BY <3>1, <3>2
  <2> HIDE DEF squares, periods, least, whole, halves
  <2>3. Min(periods) = least
    <3>1. periods \in SUBSET Nat /\ periods # {}
      BY <1>3, <1>4, <2>2
    <3>2. Min(periods) \in periods /\ Min(periods) <= least
      BY <2>2, <3>1, MinIs
    <3>3. Min(periods) \in squares /\ least \in Nat /\ Min(periods) \in Nat
      BY <1>3, <1>4, <2>1, <3>2
    <3>4. least <= Min(periods)
      BY <2>1, <3>3
    <3> QED BY <3>2, <3>3, <3>4
  <2>4. RepeatedSuffixPeriod(s) = least
    BY <1>7, <2>2, <2>3
  <2>5. NoteInterval(s) \in squares
        /\ (NoteInterval(s) # least => Repeats(s, NoteInterval(s)))
    <3>1. CASE whole # 0
      BY <1>6, <1>7, <3>1
    <3>2. CASE whole = 0
      BY <1>5, <1>7, <1>9, <2>1, <3>2 DEF least
    <3> QED BY <3>1, <3>2
  <2> QED BY <1>9, <2>4, <2>5 DEF squares, least
<1> QED BY <1>8, <1>9

\* The input of the task is a history of signatures.
PeriodInv == task = "intervals" => input \in Seq(Signatures)

\* The guest announces the shortest period its history ends with twice, and
\* the host then has a candidate: for histories of any length.
THEOREM PeriodsFound == ASpec => []PeriodFound
<1>1. AInit => PeriodInv
  BY DEF AInit, PeriodInv
<1>2. ASSUME PeriodInv, [ANext]_avars PROVE PeriodInv'
  <2>1. CASE task' = "intervals" /\ NoteSignature
    <3>1. input \in Seq(Signatures)
      BY <1>2, <2>1 DEF PeriodInv, NoteSignature
    <3>2. PICK s \in Signatures : input' = Slide(input, s, HistoryLimit)
      BY <2>1 DEF NoteSignature
    <3>3. Len(input) = HistoryLimit => Tail(input) \in Seq(Signatures)
      <4>1. HistoryLimit \in Nat \ {0}
        BY AlgorithmAssumption
      <4>2. Len(input) = HistoryLimit => input # <<>>
        BY <4>1
      <4> QED BY <3>1, <4>2, HeadTailProperties
    <3>4. input' \in Seq(Signatures)
      BY <3>1, <3>2, <3>3, AppendProperties DEF Slide
    <3> QED BY <3>4 DEF PeriodInv
  <2>2. CASE UNCHANGED <<task, input>>
    BY <1>2, <2>2 DEF PeriodInv
  <2>3. CASE task' # "intervals"
    BY <2>3 DEF PeriodInv
  <2> QED
    BY <1>2, <2>1, <2>2, <2>3
       DEF ANext, avars, Batch, ProfileUnit, RecordCalls, Observe, EncodeWord,
           QueueElement, PackCalls
<1>3. PeriodInv => PeriodFound
  <2> SUFFICES ASSUME PeriodInv, task = "intervals", input # <<>> PROVE PeriodFound
    BY DEF PeriodFound
  <2>1. input \in Seq(Signatures)
    BY DEF PeriodInv
  <2> QED BY <2>1, Detected DEF PeriodFound
<1> QED BY <1>1, <1>2, <1>3, PTL DEF ASpec

-----------------------------------------------------------------------------
(* The sums and the rows of the planner *)

\* Prefix sums its sequence.
LEMMA PrefixIs ==
  ASSUME NEW s, Len(s) \in Nat
  PROVE  /\ DOMAIN Prefix(s) = 0 .. Len(s) /\ Prefix(s)[0] = 0
         /\ \A i \in 1 .. Len(s) : Prefix(s)[i] = Prefix(s)[i - 1] + s[i]
<1> DEFINE P(w) == w = [i \in 0 .. Len(s) |-> IF i = 0 THEN 0 ELSE w[i - 1] + s[i]]
           f == CHOOSE w : P(w)
<1>1. Prefix(s) = f
  BY DEF Prefix
<1>2. ASSUME NEW w PROVE P(w) <=> IsRec("prefix", s, 0, Len(s), w)
  <2>1. \A x, k : After("prefix", s, x, k) = x + s[k]
    BY DEF After
  <2> QED BY <2>1 DEF IsRec
<1> HIDE DEF P
<1>3. P(f)
  BY <1>2, RecExists
<1> HIDE DEF f
<1>4. f = [i \in 0 .. Len(s) |-> IF i = 0 THEN 0 ELSE f[i - 1] + s[i]]
  BY <1>3 DEF P
<1>5. DOMAIN f = 0 .. Len(s)
  BY <1>4
<1>6. ASSUME NEW i \in 0 .. Len(s) PROVE f[i] = IF i = 0 THEN 0 ELSE f[i - 1] + s[i]
  BY <1>4
<1>7. 0 \in 0 .. Len(s) /\ \A i \in 1 .. Len(s) : i \in 0 .. Len(s) /\ i # 0
  OBVIOUS
<1> QED BY <1>1, <1>5, <1>6, <1>7

\* The sums of naturals are naturals that never fall.
LEMMA PrefixGrows ==
  ASSUME NEW s, Len(s) \in Nat, \A i \in 1 .. Len(s) : s[i] \in Nat
  PROVE  /\ \A i \in 0 .. Len(s) : Prefix(s)[i] \in Nat
         /\ \A i \in 0 .. Len(s) : \A j \in 0 .. i : Prefix(s)[j] <= Prefix(s)[i]
<1> DEFINE P == Prefix(s)
           n == Len(s)
           T == {i \in 0 .. n : P[i] \in Nat /\ \A j \in 0 .. i : P[j] \in Nat /\ P[j] <= P[i]}
<1>1. P[0] = 0 /\ \A i \in 1 .. n : P[i] = P[i - 1] + s[i]
  BY PrefixIs
<1> HIDE DEF P
<1>2. 0 \in T
  BY <1>1
<1>3. ASSUME NEW i \in 1 .. n, i - 1 \in T PROVE i \in T
  <2>1. P[i - 1] \in Nat /\ \A j \in 0 .. i - 1 : P[j] \in Nat /\ P[j] <= P[i - 1]
    BY <1>3
  <2>2. s[i] \in Nat /\ P[i] = P[i - 1] + s[i]
    BY <1>1
  <2>3. P[i] \in Nat /\ P[i - 1] <= P[i]
    <3> DEFINE a == P[i - 1]
               b == s[i]
    <3>1. a \in Nat /\ b \in Nat /\ P[i] = a + b
      BY <2>1, <2>2
    <3> HIDE DEF a, b
    <3>2. P[i] \in Nat /\ a <= P[i]
      BY <3>1
    <3> QED BY <3>2 DEF a
  <2>4. ASSUME NEW j \in 0 .. i PROVE P[j] \in Nat /\ P[j] <= P[i]
    <3>1. CASE j = i
      BY <2>3, <3>1
    <3>2. CASE j # i
      <4>1. P[j] \in Nat /\ P[j] <= P[i - 1]
        BY <2>1, <3>2
      <4> QED BY <2>1, <2>3, <4>1
    <3> QED BY <3>1, <3>2
  <2> QED BY <2>3, <2>4
<1> HIDE DEF T
<1>4. \A i \in 0 .. n : i \in T
  BY <1>2, <1>3, Climbs
<1> QED BY <1>4 DEF T, P

\* The sum of a part is the difference of two sums.
LEMMA PrefixOfPart ==
  ASSUME NEW s \in Seq(Nat), NEW a \in 0 .. Len(s), NEW b \in a .. Len(s)
  PROVE  /\ Len(SubSeq(s, a + 1, b)) = b - a
         /\ Prefix(SubSeq(s, a + 1, b))[b - a] = Prefix(s)[b] - Prefix(s)[a]
<1> DEFINE q == SubSeq(s, a + 1, b)
           P == Prefix(s)
           Q == Prefix(q)
           T == {i \in 0 .. b - a : Q[i] = P[a + i] - P[a]}
<1>0. Len(s) \in Nat /\ \A i \in 1 .. Len(s) : s[i] \in Nat
  OBVIOUS
<1>1. Len(q) = b - a /\ \A i \in 1 .. b - a : q[i] = s[a + i]
  <2>1. a + 1 \in 1 .. Len(s) + 1 /\ b \in a + 1 - 1 .. Len(s)
    BY <1>0
  <2>2. /\ Len(q) = b - (a + 1) + 1
        /\ \A i \in 1 .. b - (a + 1) + 1 : q[i] = s[(a + 1) + i - 1]
    BY <2>1, SubSeqProperties
  <2>3. b - (a + 1) + 1 = b - a
    BY <1>0
  <2>4. \A i \in 1 .. b - a : (a + 1) + i - 1 = a + i
    BY <1>0
  <2> HIDE DEF q
  <2> QED BY <2>2, <2>3, <2>4
<1> HIDE DEF q
<1>2. Q[0] = 0 /\ \A i \in 1 .. b - a : Q[i] = Q[i - 1] + s[a + i]
  BY <1>1, PrefixIs
<1>3. \A i \in 1 .. Len(s) : P[i] = P[i - 1] + s[i]
  BY <1>0, PrefixIs
<1>4. \A i \in 0 .. Len(s) : P[i] \in Nat
  BY <1>0, PrefixGrows
<1> HIDE DEF P, Q
<1>5. 0 \in T
  BY <1>2, <1>4
<1>6. ASSUME NEW i \in 1 .. b - a, i - 1 \in T PROVE i \in T
  <2>1. a + i \in 1 .. Len(s) /\ a + i - 1 = a + (i - 1) /\ a + (i - 1) \in 0 .. Len(s)
    OBVIOUS
  <2>2. Q[i - 1] = P[a + (i - 1)] - P[a]
    BY <1>6
  <2>3. Q[i] = Q[i - 1] + s[a + i] /\ P[a + i] = P[a + (i - 1)] + s[a + i]
    BY <1>2, <1>3, <2>1
  <2> DEFINE u == P[a + (i - 1)]
             v == s[a + i]
             z == P[a]
  <2>4. u \in Nat /\ v \in Nat /\ z \in Nat
    BY <1>0, <1>4, <2>1
  <2>5. Q[i] = (u - z) + v /\ P[a + i] = u + v
    BY <2>2, <2>3
  <2> HIDE DEF u, v
  <2>6. Q[i] = P[a + i] - z
    <3> HIDE DEF z
    <3> QED BY <2>4, <2>5
  <2> QED BY <2>6
<1> HIDE DEF T
<1>7. b - a \in T
  <2>1. b - a \in Nat /\ b - a \in 0 .. b - a
    OBVIOUS
  <2>2. \A i \in 0 .. b - a : i \in T
    BY <1>5, <1>6, <2>1, Climbs
  <2> QED BY <2>1, <2>2
<1>8. Q[b - a] = P[b] - P[a]
  <2>1. a + (b - a) = b
    OBVIOUS
  <2> QED BY <1>7, <2>1 DEF T
<1> QED BY <1>1, <1>8 DEF P, Q, q

\* The rows are made one of the other.
LEMMA RowsAre ==
  ASSUME NEW guest, NEW host, NEW sigma, NEW limit \in Nat
  PROVE  LET R == Rows(guest, host, sigma, limit)
         IN /\ R[0] = FirstRow(Len(guest))
            /\ \A k \in 1 .. limit : R[k] = NextRow(R[k - 1], k, guest, host, sigma)
<1> DEFINE c == [guest |-> guest, host |-> host, sigma |-> sigma]
           base == FirstRow(Len(guest))
           P(w) == w = [k \in 0 .. limit |->
                          IF k = 0 THEN base ELSE NextRow(w[k - 1], k, guest, host, sigma)]
           f == CHOOSE w : P(w)
<1>1. Rows(guest, host, sigma, limit) = f
  BY DEF Rows
<1>2. ASSUME NEW w PROVE P(w) <=> IsRec("rows", c, base, limit, w)
  <2>1. \A x, k : After("rows", c, x, k) = NextRow(x, k, guest, host, sigma)
    BY DEF After
  <2> HIDE DEF c, base
  <2> QED BY <2>1 DEF IsRec
<1> HIDE DEF P, c, base
<1>3. P(f)
  BY <1>2, RecExists
<1> HIDE DEF f
<1>4. f = [k \in 0 .. limit |-> IF k = 0 THEN FirstRow(Len(guest))
                                ELSE NextRow(f[k - 1], k, guest, host, sigma)]
  BY <1>3 DEF P, base
<1>6. ASSUME NEW k \in 0 .. limit
      PROVE  f[k] = IF k = 0 THEN FirstRow(Len(guest))
                    ELSE NextRow(f[k - 1], k, guest, host, sigma)
  BY <1>4
<1>7. 0 \in 0 .. limit /\ \A k \in 1 .. limit : k \in 0 .. limit /\ k # 0
  OBVIOUS
<1> QED BY <1>1, <1>6, <1>7

\* The way back follows what the cells keep.
LEMMA BackIs ==
  ASSUME NEW rows, NEW count \in Nat, count >= 1, NEW n, NEW B, B = Back(rows, count, n)
  PROVE  /\ B[0] = n
         /\ \A t \in 1 .. count - 1 : B[t] = rows[count - t + 1][B[t - 1]].from
<1> DEFINE c == [rows |-> rows, count |-> count]
           P(w) == w = [t \in 0 .. count - 1 |->
                          IF t = 0 THEN n ELSE rows[count - t + 1][w[t - 1]].from]
           f == CHOOSE w : P(w)
<1>0. count - 1 \in Nat
  OBVIOUS
<1>1. Back(rows, count, n) = f
  BY DEF Back
<1>2. ASSUME NEW w PROVE P(w) <=> IsRec("back", c, n, count - 1, w)
  <2>1. \A x, k : After("back", c, x, k) = rows[count - k + 1][x].from
    BY DEF After
  <2> HIDE DEF c
  <2>2. [t \in 0 .. count - 1 |-> IF t = 0 THEN n ELSE After("back", c, w[t - 1], t)]
        = [t \in 0 .. count - 1 |-> IF t = 0 THEN n ELSE rows[count - t + 1][w[t - 1]].from]
    BY <2>1
  <2> QED BY <2>2 DEF IsRec
<1> HIDE DEF P, c
<1>3. P(f)
  BY <1>0, <1>2, RecExists
<1> HIDE DEF f
<1>4. f = [t \in 0 .. count - 1 |-> IF t = 0 THEN n ELSE rows[count - t + 1][f[t - 1]].from]
  BY <1>3 DEF P
<1>6. ASSUME NEW t \in 0 .. count - 1
      PROVE  f[t] = IF t = 0 THEN n ELSE rows[count - t + 1][f[t - 1]].from
  BY <1>4
<1>7. 0 \in 0 .. count - 1 /\ \A t \in 1 .. count - 1 : t \in 0 .. count - 1 /\ t # 0
  OBVIOUS
<1> QED BY <1>1, <1>6, <1>7

\* When each chunk of a schedule completes
Completes(w, ends, guest, host, sigma) ==
  /\ w[0] = 0
  /\ \A k \in 1 .. Len(ends) : w[k] = ChunkDone(w[k - 1], ends, guest, host, sigma, k)

\* A schedule completes chunk by chunk.
LEMMA SimulatedIs ==
  ASSUME NEW ends, Len(ends) \in Nat, NEW guest, NEW host, NEW sigma
  PROVE  \E w : /\ Completes(w, ends, guest, host, sigma)
                /\ Simulated(ends, guest, host, sigma) = w[Len(ends)]
<1> DEFINE c == [ends |-> ends, guest |-> guest, host |-> host, sigma |-> sigma]
           P(w) == w = [k \in 0 .. Len(ends) |->
                          IF k = 0 THEN 0 ELSE ChunkDone(w[k - 1], ends, guest, host, sigma, k)]
           f == CHOOSE w : P(w)
<1>1. Simulated(ends, guest, host, sigma) = f[Len(ends)]
  BY DEF Simulated
<1>2. ASSUME NEW w PROVE P(w) <=> IsRec("done", c, 0, Len(ends), w)
  <2>1. \A x, k : After("done", c, x, k) = ChunkDone(x, ends, guest, host, sigma, k)
    BY DEF After
  <2> HIDE DEF c
  <2> QED BY <2>1 DEF IsRec
<1> HIDE DEF P, c
<1>3. P(f)
  BY <1>2, RecExists
<1> HIDE DEF f
<1>4. f = [k \in 0 .. Len(ends) |->
             IF k = 0 THEN 0 ELSE ChunkDone(f[k - 1], ends, guest, host, sigma, k)]
  BY <1>3 DEF P
<1>6. ASSUME NEW k \in 0 .. Len(ends)
      PROVE  f[k] = IF k = 0 THEN 0 ELSE ChunkDone(f[k - 1], ends, guest, host, sigma, k)
  BY <1>4
<1>7. 0 \in 0 .. Len(ends) /\ \A k \in 1 .. Len(ends) : k \in 0 .. Len(ends) /\ k # 0
  OBVIOUS
<1>8. Completes(f, ends, guest, host, sigma)
  BY <1>6, <1>7 DEF Completes
<1> QED BY <1>1, <1>8

\* The profile of an occurrence and the cost of handing a chunk on
Profile(guest, host, sigma) ==
  /\ guest \in Seq(Nat) /\ host \in Seq(Nat) /\ Len(guest) = Len(host)
  /\ sigma.guest \in Nat /\ sigma.host \in Nat

\* A chunk never completes sooner because the one before it completes later.
LEMMA CompletionGrows ==
  ASSUME NEW guest, NEW host, NEW sigma, Profile(guest, host, sigma),
         NEW k \in Nat, NEW i \in 0 .. Len(guest), NEW j \in 0 .. i
  PROVE  /\ \A p \in Nat : Completion(p, guest, host, sigma, k, j, i) \in Nat
         /\ \A p, q \in Nat :
              p <= q => Completion(p, guest, host, sigma, k, j, i)
                          <= Completion(q, guest, host, sigma, k, j, i)
<1> DEFINE g == Prefix(guest)[i]
           u == Prefix(host)[i]
           v == Prefix(host)[j]
           m == k * sigma.guest
           sh == sigma.host
<1>1. g \in Nat
  <2>1. Len(guest) \in Nat /\ \A x \in 1 .. Len(guest) : guest[x] \in Nat
    BY DEF Profile
  <2> QED BY <2>1, PrefixGrows
<1>2. u \in Nat /\ v \in Nat /\ v <= u
  <2>1. Len(host) \in Nat /\ \A x \in 1 .. Len(host) : host[x] \in Nat
    BY DEF Profile
  <2>2. i \in 0 .. Len(host) /\ j \in 0 .. Len(host)
    BY DEF Profile
  <2> QED BY <2>1, <2>2, PrefixGrows
<1>3. m \in Nat /\ sh \in Nat
  BY DEF Profile
<1>4. \A p : Completion(p, guest, host, sigma, k, j, i) = Larger(p, g + m) + sh + u - v
  BY DEF Completion
<1> HIDE DEF g, u, v, m, sh
<1>5. \A p \in Nat : Larger(p, g + m) + sh + u - v \in Nat
  BY <1>1, <1>2, <1>3 DEF Larger
<1>6. \A p, q \in Nat : p <= q => Larger(p, g + m) + sh + u - v <= Larger(q, g + m) + sh + u - v
  BY <1>1, <1>2, <1>3 DEF Larger
<1> QED BY <1>4, <1>5, <1>6

\* What the code writes to a cell: the best of its candidates, and where it starts.
LEMMA CellIs ==
  ASSUME NEW guest, NEW host, NEW sigma, Profile(guest, host, sigma),
         NEW k \in Nat, k >= 1, NEW i \in 0 .. Len(guest), NEW row,
         \A j \in 0 .. Len(guest) : row[j].cost \in Nat \/ row[j].cost = Unreachable
  PROVE  LET starts == {j \in k - 1 .. i - 1 : row[j].cost # Unreachable}
             cell == NextCell(row, k, i, guest, host, sigma)
         IN /\ starts = {} => cell.cost = Unreachable
            /\ starts # {} =>
                 /\ cell.cost \in Nat /\ cell.from \in starts
                 /\ cell.cost = Completion(row[cell.from].cost, guest, host, sigma, k, cell.from, i)
                 /\ \A j \in starts :
                      cell.cost <= Completion(row[j].cost, guest, host, sigma, k, j, i)
<1> DEFINE starts == {j \in k - 1 .. i - 1 : row[j].cost # Unreachable}
           candidate == [j \in starts |-> Completion(row[j].cost, guest, host, sigma, k, j, i)]
           costs == {candidate[j] : j \in starts}
           best == Min(costs)
           ties == {j \in starts : candidate[j] = best}
           cell == NextCell(row, k, i, guest, host, sigma)
<1>0. Len(guest) \in Nat
  BY DEF Profile
<1>1. cell = IF starts = {} THEN [cost |-> Unreachable, from |-> 0]
             ELSE [cost |-> best, from |-> Min(ties)]
  BY DEF NextCell
<1> HIDE DEF cell
<1>2. ASSUME NEW j \in starts PROVE j \in Nat /\ candidate[j] \in Nat
  <2>1. j \in 0 .. i /\ j \in 0 .. Len(guest) /\ row[j].cost # Unreachable
    BY <1>0
  <2>2. row[j].cost \in Nat
    BY <2>1
  <2>3. Completion(row[j].cost, guest, host, sigma, k, j, i) \in Nat
    BY <2>1, <2>2, CompletionGrows
  <2> QED BY <2>1, <2>3
<1>3. \A j \in starts : candidate[j] = Completion(row[j].cost, guest, host, sigma, k, j, i)
  OBVIOUS
<1> HIDE DEF starts, candidate
<1>4. ASSUME starts # {}
      PROVE  /\ best \in costs /\ \A x \in costs : best <= x
             /\ ties # {} /\ Min(ties) \in ties
  <2>1. costs \in SUBSET Nat /\ costs # {}
    BY <1>2, <1>4
  <2> HIDE DEF costs
  <2>2. best \in costs /\ \A x \in costs : best <= x
    BY <2>1, MinIs
  <2>3. \E j \in starts : candidate[j] = best
    BY <2>2 DEF costs
  <2>4. ties \in SUBSET Nat /\ ties # {}
    BY <1>2, <2>3
  <2> HIDE DEF ties
  <2>5. Min(ties) \in ties
    BY <2>4, MinIs
  <2> QED BY <2>2, <2>4, <2>5
<1>5. ASSUME starts # {}
      PROVE  /\ cell.cost \in Nat /\ cell.from \in starts /\ cell.cost = candidate[cell.from]
             /\ \A j \in starts : cell.cost <= candidate[j]
  <2>1. cell.cost = best /\ cell.from = Min(ties)
    BY <1>1, <1>5
  <2>2. cell.from \in starts /\ candidate[cell.from] = best
    BY <1>4, <1>5, <2>1
  <2>3. \A j \in starts : candidate[j] \in costs
    OBVIOUS
  <2> HIDE DEF best, ties, costs
  <2> QED BY <1>2, <1>4, <1>5, <2>1, <2>2, <2>3
<1>6. starts = {} => cell.cost = Unreachable
  BY <1>1
<1> QED BY <1>3, <1>5, <1>6 DEF starts, cell

\* A cell that is reached is the best of the cells of the row before it.
Reached(R, guest, host, sigma, k, i) ==
  /\ R[k][i].cost \in Nat
  /\ R[k][i].from \in k - 1 .. i - 1 /\ R[k - 1][R[k][i].from].cost \in Nat
  /\ R[k][i].cost = Completion(R[k - 1][R[k][i].from].cost, guest, host, sigma,
                               k, R[k][i].from, i)
  /\ \A j \in k - 1 .. i - 1 :
       R[k - 1][j].cost \in Nat =>
         R[k][i].cost <= Completion(R[k - 1][j].cost, guest, host, sigma, k, j, i)

\* k chunks reach the units from k on, and no others; no chunks reach only the start.
IsTable(R, guest, host, sigma, limit) ==
  /\ \A i \in 0 .. Len(guest) : R[0][i].cost = IF i = 0 THEN 0 ELSE Unreachable
  /\ \A k \in 1 .. limit : \A i \in k .. Len(guest) : Reached(R, guest, host, sigma, k, i)
  /\ \A k \in 1 .. limit : \A i \in 0 .. k - 1 : R[k][i].cost = Unreachable

\* The rows are such a table.
LEMMA TableIs ==
  ASSUME NEW guest, NEW host, NEW sigma, Profile(guest, host, sigma),
         NEW limit \in 1 .. Len(guest)
  PROVE  IsTable(Rows(guest, host, sigma, limit), guest, host, sigma, limit)
<1> DEFINE R == Rows(guest, host, sigma, limit)
           n == Len(guest)
           Base(k) == \A i \in 0 .. n : R[k][i].cost = IF k = i THEN 0 ELSE Unreachable
           Row(k) == /\ \A i \in k .. n : Reached(R, guest, host, sigma, k, i)
                     /\ \A i \in 0 .. k - 1 : R[k][i].cost = Unreachable
           Open(k, i) == IF k = 0 THEN i = 0 ELSE i >= k
           T == {k \in 0 .. limit :
                   /\ \A i \in 0 .. n : IF Open(k, i) THEN R[k][i].cost \in Nat
                                        ELSE R[k][i].cost = Unreachable
                   /\ k = 0 \/ Row(k)}
<1>0. n \in Nat /\ limit \in Nat /\ limit <= n
  BY DEF Profile
<1>1. /\ R[0] = FirstRow(n)
      /\ \A k \in 1 .. limit : R[k] = NextRow(R[k - 1], k, guest, host, sigma)
  BY <1>0, RowsAre
<1>2. \A i \in 0 .. n : R[0][i].cost = IF i = 0 THEN 0 ELSE Unreachable
  BY <1>1 DEF FirstRow
<1>3. ASSUME NEW k \in 1 .. limit, NEW i \in 0 .. n
      PROVE  R[k][i] = NextCell(R[k - 1], k, i, guest, host, sigma)
  BY <1>1 DEF NextRow
<1> HIDE DEF R
<1>4. 0 \in T
  BY <1>0, <1>2
<1>5. ASSUME NEW k \in 1 .. limit, k - 1 \in T PROVE k \in T
  <2>1. \A j \in 0 .. n : IF Open(k - 1, j) THEN R[k - 1][j].cost \in Nat
                          ELSE R[k - 1][j].cost = Unreachable
    BY <1>5
  <2>2. \A j \in 0 .. n : R[k - 1][j].cost \in Nat \/ R[k - 1][j].cost = Unreachable
    BY <2>1
  <2>3. Unreachable \notin Nat
    BY DEF Unreachable
  <2>4. k \in Nat /\ k >= 1 /\ k <= n
    BY <1>0
  <2>5. \A j \in 0 .. n : R[k - 1][j].cost # Unreachable <=> Open(k - 1, j)
    BY <2>1, <2>3
  <2>6. ASSUME NEW i \in k .. n PROVE Reached(R, guest, host, sigma, k, i)
    <3> DEFINE starts == {j \in k - 1 .. i - 1 : R[k - 1][j].cost # Unreachable}
               cell == NextCell(R[k - 1], k, i, guest, host, sigma)
    <3>0. i \in 0 .. n /\ i \in Nat
      BY <1>0
    <3>1. k - 1 \in k - 1 .. i - 1 /\ k - 1 \in 0 .. n /\ Open(k - 1, k - 1)
      BY <1>0
    <3>2. starts # {}
      BY <2>5, <3>1
    <3>3. /\ cell.cost \in Nat /\ cell.from \in starts
          /\ cell.cost = Completion(R[k - 1][cell.from].cost, guest, host, sigma, k, cell.from, i)
          /\ \A j \in starts :
               cell.cost <= Completion(R[k - 1][j].cost, guest, host, sigma, k, j, i)
      BY <2>2, <2>4, <3>0, <3>2, CellIs
    <3>4. R[k][i] = cell
      BY <1>3, <3>0
    <3> HIDE DEF cell
    <3>5. \A j \in k - 1 .. i - 1 : j \in 0 .. n
      BY <1>0
    <3>6. cell.from \in k - 1 .. i - 1 /\ R[k - 1][cell.from].cost \in Nat
      BY <2>2, <3>3, <3>5
    <3>7. \A j \in k - 1 .. i - 1 : R[k - 1][j].cost \in Nat => j \in starts
      BY <2>3
    <3> HIDE DEF starts
    <3> QED BY <3>3, <3>4, <3>6, <3>7 DEF Reached
  <2>7. ASSUME NEW i \in 0 .. k - 1 PROVE R[k][i].cost = Unreachable
    <3> DEFINE starts == {j \in k - 1 .. i - 1 : R[k - 1][j].cost # Unreachable}
    <3>0. i \in 0 .. n
      BY <1>0
    <3>1. starts = {}
      BY <1>0
    <3>2. NextCell(R[k - 1], k, i, guest, host, sigma).cost = Unreachable
      BY <2>2, <2>4, <3>0, <3>1, CellIs
    <3> QED BY <1>3, <3>0, <3>2
  <2>8. \A i \in 0 .. n : IF Open(k, i) THEN R[k][i].cost \in Nat ELSE R[k][i].cost = Unreachable
    <3>1. \A i \in 0 .. n : IF Open(k, i) THEN i \in k .. n ELSE i \in 0 .. k - 1
      BY <1>0
    <3>2. \A i \in k .. n : R[k][i].cost \in Nat
      BY <2>6 DEF Reached
    <3> QED BY <2>7, <3>1, <3>2
  <2> HIDE DEF Open
  <2> QED BY <2>6, <2>7, <2>8
<1>6. \A k \in 0 .. limit : k \in T
  <2> HIDE DEF T
  <2> QED BY <1>0, <1>4, <1>5, Climbs
<1>7. \A k \in 1 .. limit : Row(k)
  <2> HIDE DEF Row, Open
  <2>1. \A k \in 1 .. limit : k \in 0 .. limit /\ k # 0
    OBVIOUS
  <2> QED BY <1>6, <2>1
<1>8. IsTable(R, guest, host, sigma, limit)
  BY <1>2, <1>7 DEF IsTable
<1> QED BY <1>8 DEF R

\* A schedule is a rising sequence of at most limit units that ends with the last.
LEMMA ScheduleIs ==
  ASSUME NEW n \in Nat, NEW limit \in Nat, NEW s
  PROVE  s \in Schedules(n, limit) <=>
           \E m \in 1 .. limit :
              /\ s \in [1 .. m -> 1 .. n] /\ Len(s) = m /\ s[m] = n
              /\ \A i \in 1 .. m - 1 : s[i] < s[i + 1]
<1>1. ASSUME NEW m \in 1 .. limit, s \in [1 .. m -> 1 .. n] PROVE Len(s) = m
  <2>1. m \in Nat /\ s \in Seq(1 .. n) /\ DOMAIN s = 1 .. m
    BY <1>1
  <2> QED BY <2>1, LenProperties
<1> QED BY <1>1 DEF Schedules

\* The chunk of a schedule completes as the planner computes it.
LEMMA ChunkDoneIs ==
  ASSUME NEW guest, NEW host, NEW sigma, Profile(guest, host, sigma),
         NEW k \in Nat, NEW ends, NEW a, NEW b, NEW p \in Nat,
         a = IF k = 1 THEN 0 ELSE ends[k - 1], b = ends[k],
         a \in 0 .. Len(guest), b \in a .. Len(guest)
  PROVE  ChunkDone(p, ends, guest, host, sigma, k) = Completion(p, guest, host, sigma, k, a, b)
<1> DEFINE q == SubSeq(host, a + 1, b)
           g == Prefix(guest)[b] + k * sigma.guest
           u == Prefix(host)[b]
           v == Prefix(host)[a]
           sh == sigma.host
<1>1. ChunkDone(p, ends, guest, host, sigma, k) = Larger(p, g) + sh + Prefix(q)[Len(q)]
  BY DEF ChunkDone
<1>2. Completion(p, guest, host, sigma, k, a, b) = Larger(p, g) + sh + u - v
  BY DEF Completion
<1>3. Prefix(q)[Len(q)] = u - v
  <2>1. host \in Seq(Nat) /\ a \in 0 .. Len(host) /\ b \in a .. Len(host)
    BY DEF Profile
  <2>2. Len(q) = b - a /\ Prefix(q)[b - a] = u - v
    BY <2>1, PrefixOfPart
  <2> HIDE DEF q, u, v
  <2> QED BY <2>2
<1>4. u \in Nat /\ v \in Nat
  <2>1. Len(host) \in Nat /\ \A x \in 1 .. Len(host) : host[x] \in Nat
    BY DEF Profile
  <2>2. a \in 0 .. Len(host) /\ b \in 0 .. Len(host)
    BY DEF Profile
  <2> QED BY <2>1, <2>2, PrefixGrows
<1>5. Larger(p, g) \in Int /\ sh \in Int
  <2>1. Len(guest) \in Nat /\ \A x \in 1 .. Len(guest) : guest[x] \in Nat
    BY DEF Profile
  <2>2. b \in 0 .. Len(guest)
    BY <2>1
  <2>3. Prefix(guest)[b] \in Nat
    BY <2>1, <2>2, PrefixGrows
  <2>4. k * sigma.guest \in Nat /\ sigma.host \in Nat
    BY DEF Profile
  <2> QED BY <2>3, <2>4 DEF Larger
<1> HIDE DEF q, g, u, v, sh
<1> QED BY <1>1, <1>2, <1>3, <1>4, <1>5

\* No schedule completes before the cell that stands for its chunks.
LEMMA NoneSooner ==
  ASSUME NEW guest, NEW host, NEW sigma, Profile(guest, host, sigma),
         NEW limit \in 1 .. Len(guest), NEW s \in Schedules(Len(guest), limit)
  PROVE  LET R == Rows(guest, host, sigma, limit)
         IN /\ Len(s) \in 1 .. limit
            /\ Simulated(s, guest, host, sigma) \in Nat
            /\ R[Len(s)][Len(guest)].cost <= Simulated(s, guest, host, sigma)
<1> DEFINE R == Rows(guest, host, sigma, limit)
           n == Len(guest)
           e(k) == IF k = 0 THEN 0 ELSE s[k]
<1>0. n \in Nat /\ limit \in Nat /\ limit <= n
  BY DEF Profile
<1>1. PICK m \in 1 .. limit :
        /\ s \in [1 .. m -> 1 .. n] /\ Len(s) = m /\ s[m] = n
        /\ \A i \in 1 .. m - 1 : s[i] < s[i + 1]
  BY <1>0, ScheduleIs
<1>2. PICK w : Completes(w, s, guest, host, sigma) /\ Simulated(s, guest, host, sigma) = w[m]
  <2>1. Len(s) \in Nat
    BY <1>0, <1>1
  <2> QED BY <1>1, <2>1, SimulatedIs
<1>9. w[0] = 0 /\ \A k \in 1 .. m : w[k] = ChunkDone(w[k - 1], s, guest, host, sigma, k)
  BY <1>1, <1>2 DEF Completes
<1>10. IsTable(R, guest, host, sigma, limit)
  BY TableIs
<1> HIDE DEF R
<1>3. /\ R[0][0].cost = 0
      /\ \A k \in 1 .. limit : \A i \in k .. n : Reached(R, guest, host, sigma, k, i)
  BY <1>0, <1>10 DEF IsTable
<1> DEFINE T == {k \in 0 .. m : /\ e(k) \in k .. n /\ w[k] \in Nat
                                /\ R[k][e(k)].cost \in Nat /\ R[k][e(k)].cost <= w[k]}
<1>4. 0 \in T
  BY <1>0, <1>3, <1>9
<1>5. ASSUME NEW k \in 1 .. m, k - 1 \in T PROVE k \in T
  <2> DEFINE a == e(k - 1)
             b == s[k]
             v == w[k - 1]
             c == R[k - 1][a].cost
  <2>1. a \in k - 1 .. n /\ v \in Nat /\ c \in Nat /\ c <= v
    BY <1>5
  <2>2. b \in 1 .. n /\ a < b
    <3>1. CASE k = 1
      <4>1. a = 0 /\ b \in 1 .. n
        BY <1>1, <3>1
      <4> QED BY <4>1
    <3>2. CASE k # 1
      <4>1. k - 1 \in 1 .. m - 1 /\ k - 1 # 0 /\ (k - 1) + 1 = k
        BY <3>2
      <4>2. s[k - 1] < s[k]
        BY <1>1, <4>1
      <4> QED BY <1>1, <4>1, <4>2
    <3> QED BY <3>1, <3>2
  <2>3. a = (IF k = 1 THEN 0 ELSE s[k - 1]) /\ e(k) = b
    OBVIOUS
  <2> HIDE DEF e, a, b, c, v
  <2>4. /\ k \in Nat /\ k \in 1 .. limit /\ a \in 0 .. n /\ b \in a .. n /\ b \in k .. n
        /\ b \in 0 .. n /\ a \in 0 .. b /\ a \in k - 1 .. b - 1
    BY <1>0, <2>1, <2>2
  <2>5. w[k] = Completion(v, guest, host, sigma, k, a, b)
    <3>1. w[k] = ChunkDone(v, s, guest, host, sigma, k)
      BY <1>9 DEF v
    <3>2. b = s[k]
      BY DEF b
    <3> QED BY <2>1, <2>3, <2>4, <3>1, <3>2, ChunkDoneIs
  <2>6. Reached(R, guest, host, sigma, k, b)
    BY <1>3, <2>4
  <2>7. R[k][b].cost \in Nat /\ R[k][b].cost <= Completion(c, guest, host, sigma, k, a, b)
    BY <2>1, <2>4, <2>6 DEF Reached, c
  <2>8. /\ Completion(c, guest, host, sigma, k, a, b) \in Nat
        /\ Completion(v, guest, host, sigma, k, a, b) \in Nat
        /\ Completion(c, guest, host, sigma, k, a, b) <= Completion(v, guest, host, sigma, k, a, b)
    BY <2>1, <2>4, CompletionGrows
  <2>9. w[k] \in Nat /\ R[k][b].cost <= w[k]
    <3> DEFINE x == R[k][b].cost
               y == Completion(c, guest, host, sigma, k, a, b)
               z == Completion(v, guest, host, sigma, k, a, b)
    <3>1. x \in Nat /\ y \in Nat /\ z \in Nat /\ x <= y /\ y <= z
      BY <2>7, <2>8
    <3> HIDE DEF x, y, z
    <3>2. x <= z
      BY <3>1
    <3> QED BY <2>5, <2>8, <3>2 DEF x, z
  <2> QED BY <2>3, <2>4, <2>7, <2>9
<1>6. m \in T
  <2> HIDE DEF T
  <2>1. m \in Nat /\ m \in 0 .. m
    BY <1>0
  <2>2. \A k \in 0 .. m : k \in T
    BY <1>4, <1>5, <2>1, Climbs
  <2> QED BY <2>1, <2>2
<1>7. e(m) = n /\ m # 0
  BY <1>1
<1>8. w[m] \in Nat /\ R[m][n].cost <= w[m]
  BY <1>6, <1>7
<1> QED BY <1>1, <1>2, <1>8 DEF R

\* The way back through the cells of the table from the last cell of the first row
\* that is best
IsPlan(plan, R, n, limit, count) ==
  /\ plan.predicted = R[count][n].cost
  /\ \A k \in 1 .. limit : R[count][n].cost <= R[k][n].cost
  /\ \A k \in 1 .. limit : R[k][n].cost = R[count][n].cost => count <= k
  /\ plan.ends \in [1 .. count -> 1 .. n] /\ plan.ends[count] = n
  /\ \A k \in 1 .. count : plan.ends[k] \in k .. n
  /\ \A k \in 1 .. count - 1 : plan.ends[k] = R[k + 1][plan.ends[k + 1]].from

\* That is what flime_plan_locked answers.
LEMMA PlanIs ==
  ASSUME NEW guest, NEW host, NEW sigma, Profile(guest, host, sigma), Len(guest) >= 1,
         NEW max \in Nat, NEW early \in BOOLEAN, early => max >= 1
  PROVE  LET n == Len(guest)
             limit == ChunkLimit(n, max, early)
             R == Rows(guest, host, sigma, limit)
             plan == Plan(guest, host, sigma, max, early)
         IN /\ limit \in 1 .. n
            /\ \E count \in 1 .. limit : IsPlan(plan, R, n, limit, count)
<1> DEFINE n == Len(guest)
           limit == ChunkLimit(n, max, early)
           R == Rows(guest, host, sigma, limit)
           plan == Plan(guest, host, sigma, max, early)
           reached == {k \in 1 .. limit : R[k][n].cost # Unreachable}
           costs == {R[k][n].cost : k \in reached}
           best == Min(costs)
           firsts == {k \in 1 .. limit : R[k][n].cost = best}
           count == Min(firsts)
           B == Back(R, count, n)
<1>0. n \in Nat /\ n >= 1
  BY DEF Profile
<1>1. limit \in 1 .. n
  <2> HIDE DEF n
  <2>1. CASE early
    <3>1. {max, n} \in SUBSET Nat /\ {max, n} # {}
      BY <1>0
    <3>2. Min({max, n}) \in {max, n} /\ \A x \in {max, n} : Min({max, n}) <= x
      BY <3>1, MinIs
    <3>3. limit = Min({max, n})
      BY <2>1 DEF ChunkLimit
    <3> HIDE DEF limit
    <3> QED BY <1>0, <2>1, <3>2, <3>3
  <2>2. CASE ~early
    BY <1>0, <2>2 DEF ChunkLimit
  <2> QED BY <2>1, <2>2
<1>2. /\ plan.ends = [k \in 1 .. count |-> B[count - k]]
      /\ plan.predicted = best
  BY DEF Plan
<1> HIDE DEF plan, limit
<1>24. IsTable(R, guest, host, sigma, limit)
  BY <1>1, TableIs
<1> HIDE DEF R
<1>3. \A k \in 1 .. limit : \A i \in k .. n : Reached(R, guest, host, sigma, k, i)
  BY <1>24 DEF IsTable
<1>4. \A k \in 1 .. limit : R[k][n].cost \in Nat
  <2>1. \A k \in 1 .. limit : n \in k .. n
    BY <1>0, <1>1
  <2> QED BY <1>3, <2>1 DEF Reached
<1>5. reached = 1 .. limit
  BY <1>4 DEF Unreachable
<1> HIDE DEF reached
<1>6. best \in costs /\ \A x \in costs : best <= x
  <2>1. 1 \in reached
    BY <1>0, <1>1, <1>5
  <2>2. costs # {}
    BY <2>1
  <2>3. costs \in SUBSET Nat
    BY <1>4, <1>5
  <2> HIDE DEF costs
  <2> QED BY <2>2, <2>3, MinIs
<1>7. \A k \in 1 .. limit : best <= R[k][n].cost
  BY <1>5, <1>6
<1>8. \E k \in 1 .. limit : R[k][n].cost = best
  BY <1>5, <1>6
<1> HIDE DEF best
<1>9. count \in firsts /\ \A k \in firsts : count <= k
  <2>1. firsts \in SUBSET Nat /\ firsts # {}
    BY <1>1, <1>8
  <2> HIDE DEF firsts
  <2> QED BY <2>1, MinIs
<1>10. count \in 1 .. limit /\ R[count][n].cost = best
  BY <1>9
<1>11. \A k \in 1 .. limit : R[k][n].cost = best => count <= k
  BY <1>9
<1> HIDE DEF count
<1>12. count \in Nat /\ count >= 1 /\ count <= n
  BY <1>0, <1>1, <1>10
<1>13. B[0] = n /\ \A t \in 1 .. count - 1 : B[t] = R[count - t + 1][B[t - 1]].from
  <2> HIDE DEF n
  <2>1. count \in Nat /\ count >= 1
    BY <1>12
  <2>2. B = Back(R, count, n)
    OBVIOUS
  <2> HIDE DEF B
  <2> QED BY <2>1, <2>2, BackIs
<1> HIDE DEF B
<1> DEFINE T == {t \in 0 .. count - 1 : B[t] \in count - t .. n}
<1>14. 0 \in T
  BY <1>0, <1>12, <1>13
<1>15. ASSUME NEW t \in 1 .. count - 1, t - 1 \in T PROVE t \in T
  <2> DEFINE k == count - t + 1
             i == B[t - 1]
  <2>1. i \in k .. n
    <3>1. count - (t - 1) = k
      BY <1>12
    <3> QED BY <1>15, <3>1
  <2>2. k \in 1 .. limit /\ k - 1 = count - t
    BY <1>0, <1>1, <1>10, <1>12
  <2>3. B[t] = R[k][i].from
    BY <1>13
  <2> HIDE DEF k, i
  <2>4. R[k][i].from \in k - 1 .. i - 1
    BY <1>3, <2>1, <2>2 DEF Reached
  <2>5. B[t] \in count - t .. n
    <3>1. B[t] \in k - 1 .. i - 1
      BY <2>3, <2>4
    <3> QED BY <1>0, <1>12, <2>1, <2>2, <3>1
  <2> QED BY <2>5
<1>16. \A t \in 0 .. count - 1 : B[t] \in count - t .. n
  <2> HIDE DEF T
  <2>1. count - 1 \in Nat
    BY <1>12
  <2>2. \A t \in 0 .. count - 1 : t \in T
    BY <1>14, <1>15, <2>1, Climbs
  <2> QED BY <2>2 DEF T
<1>17. \A k \in 1 .. count : plan.ends[k] = B[count - k] /\ plan.ends[k] \in k .. n
  <2>1. \A k \in 1 .. count : plan.ends[k] = B[count - k]
    BY <1>2
  <2>2. \A k \in 1 .. count : count - k \in 0 .. count - 1 /\ count - (count - k) = k
    BY <1>12
  <2> QED BY <1>16, <2>1, <2>2
<1>18. plan.ends \in [1 .. count -> 1 .. n]
  <2>1. \A k \in 1 .. count : B[count - k] \in 1 .. n
    BY <1>0, <1>12, <1>17
  <2> QED BY <1>2, <2>1
<1>19. plan.ends[count] = n
  <2>1. count \in 1 .. count /\ count - count = 0
    BY <1>12
  <2> QED BY <1>13, <1>17, <2>1
<1>20. ASSUME NEW k \in 1 .. count - 1
       PROVE  plan.ends[k] = R[k + 1][plan.ends[k + 1]].from
  <2>1. /\ k \in 1 .. count /\ k + 1 \in 1 .. count /\ count - k \in 1 .. count - 1
        /\ count - (count - k) + 1 = k + 1 /\ (count - k) - 1 = count - (k + 1)
    BY <1>12
  <2>2. plan.ends[k] = B[count - k] /\ plan.ends[k + 1] = B[count - (k + 1)]
    BY <1>17, <2>1
  <2>3. B[count - k] = R[count - (count - k) + 1][B[(count - k) - 1]].from
    BY <1>13, <2>1
  <2> QED BY <2>1, <2>2, <2>3
<1>21. plan.predicted = R[count][n].cost
  BY <1>2, <1>10
<1>22. /\ \A k \in 1 .. limit : R[count][n].cost <= R[k][n].cost
       /\ \A k \in 1 .. limit : R[k][n].cost = R[count][n].cost => count <= k
  BY <1>7, <1>10, <1>11
<1>23. IsPlan(plan, R, n, limit, count)
  BY <1>17, <1>18, <1>19, <1>20, <1>21, <1>22 DEF IsPlan
<1> QED BY <1>1, <1>10, <1>23 DEF n, limit, R, plan

\* The plan is a schedule, completes when it says, and none is better.
LEMMA PlanIsBest ==
  ASSUME NEW guest, NEW host, NEW sigma, Profile(guest, host, sigma), Len(guest) >= 1,
         NEW max \in Nat, NEW early \in BOOLEAN, early => max >= 1
  PROVE  LET n == Len(guest)
             limit == ChunkLimit(n, max, early)
             plan == Plan(guest, host, sigma, max, early)
         IN /\ plan.ends \in Schedules(n, limit)
            /\ Simulated(plan.ends, guest, host, sigma) = plan.predicted
            /\ plan.predicted \in Nat
            /\ \A s \in Schedules(n, limit) :
                 \/ Simulated(s, guest, host, sigma) > plan.predicted
                 \/ /\ Simulated(s, guest, host, sigma) = plan.predicted
                    /\ Len(s) >= Len(plan.ends)
<1> DEFINE n == Len(guest)
           limit == ChunkLimit(n, max, early)
           R == Rows(guest, host, sigma, limit)
           plan == Plan(guest, host, sigma, max, early)
           ends == plan.ends
           predicted == plan.predicted
<1>0. n \in Nat /\ n >= 1
  BY DEF Profile
<1>1. limit \in 1 .. n
  BY PlanIs
<1>17. PICK count \in 1 .. limit : IsPlan(plan, R, n, limit, count)
  BY PlanIs
<1>2. /\ count \in 1 .. limit
      /\ predicted = R[count][n].cost
      /\ \A k \in 1 .. limit : R[count][n].cost <= R[k][n].cost
      /\ \A k \in 1 .. limit : R[k][n].cost = R[count][n].cost => count <= k
      /\ ends \in [1 .. count -> 1 .. n] /\ ends[count] = n
      /\ \A k \in 1 .. count : ends[k] \in k .. n
      /\ \A k \in 1 .. count - 1 : ends[k] = R[k + 1][ends[k + 1]].from
  <2> HIDE DEF plan, R, limit, n
  <2> QED BY <1>17 DEF IsPlan
<1> HIDE DEF limit, ends, predicted
<1>3. /\ \A i \in 0 .. n : R[0][i].cost = IF i = 0 THEN 0 ELSE Unreachable
      /\ \A k \in 1 .. limit : \A i \in k .. n : Reached(R, guest, host, sigma, k, i)
  <2>1. IsTable(R, guest, host, sigma, limit)
    <3> HIDE DEF n
    <3> QED BY <1>1, TableIs DEF n
  <2> HIDE DEF R
  <2> QED BY <2>1 DEF IsTable
<1>4. ASSUME NEW s \in Schedules(n, limit)
      PROVE  /\ Len(s) \in 1 .. limit /\ Simulated(s, guest, host, sigma) \in Nat
             /\ R[Len(s)][n].cost <= Simulated(s, guest, host, sigma)
  BY <1>1, NoneSooner
<1> HIDE DEF R
<1>5. \A k \in 1 .. count : k \in 1 .. limit /\ Reached(R, guest, host, sigma, k, ends[k])
  <2>1. \A k \in 1 .. count : k \in 1 .. limit
    BY <1>1, <1>2
  <2> QED BY <1>2, <1>3, <2>1
<1>6. \A k \in 1 .. count - 1 : ends[k] < ends[k + 1]
  <2> SUFFICES ASSUME NEW k \in 1 .. count - 1 PROVE ends[k] < ends[k + 1]
    OBVIOUS
  <2>1. k + 1 \in 1 .. count /\ (k + 1) - 1 = k
    BY <1>1, <1>2
  <2>2. R[k + 1][ends[k + 1]].from \in k .. ends[k + 1] - 1
    BY <1>5, <2>1 DEF Reached
  <2>3. ends[k] \in k .. ends[k + 1] - 1 /\ ends[k + 1] \in k + 1 .. n
    BY <1>2, <2>1, <2>2
  <2> QED BY <1>0, <1>1, <1>2, <2>3
<1>7. Len(ends) = count /\ count \in Nat
  <2>1. count \in Nat
    BY <1>1, <1>2
  <2>2. ends \in Seq(1 .. n) /\ DOMAIN ends = 1 .. count
    BY <1>2, <2>1
  <2> QED BY <2>1, <2>2, LenProperties
<1>8. ends \in Schedules(n, limit)
  <2>1. limit \in Nat
    BY <1>1
  <2> QED BY <1>0, <1>2, <1>6, <1>7, <2>1, ScheduleIs
<1>9. PICK w : /\ Completes(w, ends, guest, host, sigma)
               /\ Simulated(ends, guest, host, sigma) = w[count]
  BY <1>7, SimulatedIs
<1>10. w[0] = 0 /\ \A k \in 1 .. count : w[k] = ChunkDone(w[k - 1], ends, guest, host, sigma, k)
  BY <1>7, <1>9 DEF Completes
<1> DEFINE e(k) == IF k = 0 THEN 0 ELSE ends[k]
           T == {k \in 0 .. count : w[k] = R[k][e(k)].cost}
<1>11. 0 \in T
  BY <1>0, <1>3, <1>7, <1>10
<1>12. ASSUME NEW k \in 1 .. count, k - 1 \in T PROVE k \in T
  <2> DEFINE a == e(k - 1)
             b == ends[k]
  <2>1. Reached(R, guest, host, sigma, k, b) /\ k \in 1 .. limit
    BY <1>5
  <2>2. a = R[k][b].from
    <3>1. CASE k = 1
      <4>0. R[k][b].from \in k - 1 .. b - 1 /\ R[k - 1][R[k][b].from].cost \in Nat
        BY <2>1 DEF Reached
      <4>1. R[1][b].from \in 0 .. b - 1 /\ R[0][R[1][b].from].cost \in Nat
        BY <3>1, <4>0
      <4>2. b \in 1 .. n
        BY <1>2
      <4>3. R[1][b].from \in 0 .. n
        BY <1>0, <4>1, <4>2
      <4>4. R[1][b].from = 0
        BY <1>3, <4>1, <4>3 DEF Unreachable
      <4> QED BY <3>1, <4>4
    <3>2. CASE k # 1
      <4>1. k - 1 \in 1 .. count - 1 /\ k - 1 # 0 /\ (k - 1) + 1 = k
        BY <1>7, <3>2
      <4> QED BY <1>2, <4>1
    <3> QED BY <3>1, <3>2
  <2>3. w[k - 1] = R[k - 1][a].cost
    BY <1>12
  <2>4. /\ a = (IF k = 1 THEN 0 ELSE ends[k - 1]) /\ e(k) = b /\ b \in k .. n
        /\ k \in Nat /\ k >= 1
    BY <1>2, <1>7
  <2>5. w[k] = ChunkDone(w[k - 1], ends, guest, host, sigma, k)
    BY <1>10
  <2>6. b = ends[k]
    OBVIOUS
  <2> HIDE DEF e, a, b
  <2>7. a \in k - 1 .. b - 1 /\ R[k - 1][a].cost \in Nat
        /\ R[k][b].cost = Completion(R[k - 1][a].cost, guest, host, sigma, k, a, b)
    BY <2>1, <2>2 DEF Reached
  <2>8. a \in 0 .. n /\ b \in a .. n
    BY <1>0, <2>4, <2>7
  <2>9. ChunkDone(w[k - 1], ends, guest, host, sigma, k)
        = Completion(w[k - 1], guest, host, sigma, k, a, b)
    BY <2>3, <2>4, <2>6, <2>7, <2>8, ChunkDoneIs
  <2> QED BY <2>3, <2>4, <2>5, <2>7, <2>9
<1>13. count \in T
  <2> HIDE DEF T
  <2>1. \A k \in 0 .. count : k \in T
    BY <1>7, <1>11, <1>12, Climbs
  <2> QED BY <1>7, <2>1
<1>14. Simulated(ends, guest, host, sigma) = predicted
  <2>1. e(count) = n
    BY <1>1, <1>2
  <2> QED BY <1>2, <1>9, <1>13, <2>1
<1>15. predicted \in Nat
  BY <1>4, <1>8, <1>14
<1>16. ASSUME NEW s \in Schedules(n, limit)
       PROVE  \/ Simulated(s, guest, host, sigma) > predicted
              \/ Simulated(s, guest, host, sigma) = predicted /\ Len(s) >= Len(ends)
  <2> DEFINE v == Simulated(s, guest, host, sigma)
             x == R[Len(s)][n].cost
  <2>1. Len(s) \in 1 .. limit /\ v \in Nat /\ x <= v
    BY <1>4
  <2>2. predicted <= x /\ (x = predicted => count <= Len(s))
    BY <1>2, <2>1
  <2>3. x \in Nat
    <3>1. n \in Len(s) .. n
      BY <1>0, <1>1, <2>1
    <3> QED BY <1>3, <2>1, <3>1 DEF Reached
  <2> HIDE DEF v, x
  <2>4. v > predicted \/ (v = predicted /\ x = predicted)
    BY <1>15, <2>1, <2>2, <2>3
  <2>5. v > predicted \/ (v = predicted /\ Len(s) >= count)
    BY <1>1, <1>7, <2>1, <2>2, <2>4
  <2> QED BY <1>7, <2>5 DEF v
<1> QED BY <1>8, <1>14, <1>15, <1>16 DEF n, limit, ends, predicted, plan

-----------------------------------------------------------------------------
(* The plans of the host *)

\* The input of the task is a profile, with a handoff cost and a chunk limit.
PlanInv ==
  task = "plan" =>
    /\ input.units \in Seq([guest : Costs, host : Costs])
    /\ input.guest \in Handoffs /\ input.host \in Handoffs /\ input.max \in ChunkLimits
    /\ input = [units |-> input.units, guest |-> input.guest, host |-> input.host,
                max |-> input.max]

\* Of such an input the plan is the best.
LEMMA PlanInvSuffices ==
  ASSUME PlanInv
  PROVE  PlanOptimal
<1> USE AlgorithmAssumption
<1> SUFFICES ASSUME task = "plan", input.units # <<>> PROVE PlanOptimal
  BY DEF PlanOptimal
<1> DEFINE units == input.units
           guest == [i \in DOMAIN units |-> units[i].guest]
           host == [i \in DOMAIN units |-> units[i].host]
           sigma == [guest |-> input.guest, host |-> input.host]
           early == input.max # 0
           n == Len(guest)
           plan == Plan(guest, host, sigma, input.max, early)
<1>1. /\ units \in Seq([guest : Costs, host : Costs]) /\ units # <<>>
      /\ input.guest \in Nat /\ input.host \in Nat /\ input.max \in Nat
  BY DEF PlanInv
<1>2. sigma.guest \in Nat /\ sigma.host \in Nat
  BY <1>1
<1>3. early \in BOOLEAN /\ (early => input.max >= 1)
  <2> DEFINE m == input.max
  <2>1. m \in Nat
    BY <1>1
  <2> HIDE DEF m
  <2>2. m # 0 => m >= 1
    BY <2>1
  <2> QED BY <2>2 DEF m
<1> HIDE DEF sigma, early
<1>4. Profile(guest, host, sigma) /\ Len(guest) >= 1
  <2>1. Len(units) \in Nat /\ Len(units) >= 1 /\ DOMAIN units = 1 .. Len(units)
    BY <1>1
  <2>2. ASSUME NEW i \in 1 .. Len(units) PROVE units[i].guest \in Nat /\ units[i].host \in Nat
    <3> DEFINE U == [guest : Costs, host : Costs]
    <3>1. units \in Seq(U)
      BY <1>1
    <3> HIDE DEF U, units
    <3>2. units[i] \in U
      BY <2>1, <3>1
    <3>3. units[i].guest \in Costs /\ units[i].host \in Costs
      BY <3>2 DEF U
    <3> QED BY <3>3
  <2> HIDE DEF units
  <2>3. guest \in [1 .. Len(units) -> Nat] /\ host \in [1 .. Len(units) -> Nat]
    BY <2>1, <2>2
  <2> HIDE DEF guest, host
  <2>4. ASSUME NEW q \in [1 .. Len(units) -> Nat] PROVE q \in Seq(Nat) /\ Len(q) = Len(units)
    <3>1. q \in Seq(Nat) /\ DOMAIN q = 1 .. Len(units)
      BY <2>1
    <3> QED BY <2>1, <3>1, LenProperties
  <2> QED BY <1>2, <2>1, <2>3, <2>4 DEF Profile
<1> HIDE DEF guest, host
<1>5. /\ plan.ends \in Schedules(n, ChunkLimit(n, input.max, early))
      /\ Simulated(plan.ends, guest, host, sigma) = plan.predicted
      /\ \A s \in Schedules(n, ChunkLimit(n, input.max, early)) :
           \/ Simulated(s, guest, host, sigma) > plan.predicted
           \/ /\ Simulated(s, guest, host, sigma) = plan.predicted
              /\ Len(s) >= Len(plan.ends)
  BY <1>1, <1>3, <1>4, PlanIsBest
<1> HIDE DEF plan
<1>6. PlanOptimal <=>
        /\ plan.ends \in Schedules(n, ChunkLimit(n, input.max, early))
        /\ Simulated(plan.ends, guest, host, sigma) = plan.predicted
        /\ \A s \in Schedules(n, ChunkLimit(n, input.max, early)) :
             \/ Simulated(s, guest, host, sigma) > plan.predicted
             \/ /\ Simulated(s, guest, host, sigma) = plan.predicted
                /\ Len(s) >= Len(plan.ends)
  BY <1>1 DEF PlanOptimal, plan, n, guest, host, sigma, early, units
<1> QED BY <1>5, <1>6

\* The boundaries flime_plan_locked computes from a profile of the units complete
\* when it predicts, and no other way to cut the units into chunks, within the limit
\* it has, completes sooner, or as soon with fewer chunks; whatever the costs are.
THEOREM BestPlans == ASpec => []PlanOptimal
<1> USE AlgorithmAssumption
<1>1. AInit => PlanInv
  <2> SUFFICES ASSUME AInit, task = "plan" PROVE PlanInv
    BY DEF PlanInv
  <2>1. input \in [units : {<<>>}, guest : Handoffs, host : Handoffs, max : ChunkLimits]
    BY DEF AInit
  <2>2. <<>> \in Seq([guest : Costs, host : Costs])
    OBVIOUS
  <2> QED BY <2>1, <2>2 DEF PlanInv
<1>2. PlanInv /\ [ANext]_avars => PlanInv'
  <2> SUFFICES ASSUME PlanInv, [ANext]_avars, task' = "plan" PROVE PlanInv'
    BY DEF PlanInv
  <2>1. CASE ProfileUnit
    <3>1. task = "plan"
      BY <2>1 DEF ProfileUnit
    <3> DEFINE U == [guest : Costs, host : Costs]
    <3>2. PICK g \in Costs, h \in Costs :
            input' = [input EXCEPT !.units = Append(@, [guest |-> g, host |-> h])]
      BY <2>1 DEF ProfileUnit
    <3>3. /\ input.units \in Seq(U)
          /\ input = [units |-> input.units, guest |-> input.guest, host |-> input.host,
                      max |-> input.max]
          /\ input.guest \in Handoffs /\ input.host \in Handoffs /\ input.max \in ChunkLimits
      BY <3>1 DEF PlanInv
    <3>4. input' = [units |-> Append(input.units, [guest |-> g, host |-> h]),
                    guest |-> input.guest, host |-> input.host, max |-> input.max]
      BY <3>2, <3>3
    <3>5. [guest |-> g, host |-> h] \in U
      OBVIOUS
    <3>6. Append(input.units, [guest |-> g, host |-> h]) \in Seq(U)
      <4> HIDE DEF U
      <4> QED BY <3>3, <3>5, AppendProperties
    <3> QED BY <3>3, <3>4, <3>6 DEF PlanInv
  <2>2. CASE UNCHANGED <<task, input>>
    BY <2>2 DEF PlanInv
  <2>3. CASE ~ProfileUnit /\ ~UNCHANGED <<task, input>>
    <3>1. task # "plan" /\ task' = task
      BY <2>3 DEF ANext, avars, Batch, NoteSignature, RecordCalls, Observe, EncodeWord,
                  QueueElement, PackCalls
    <3> QED BY <3>1
  <2> QED BY <2>1, <2>2, <2>3
<1>3. PlanInv => PlanOptimal
  BY PlanInvSuffices
<1> QED BY <1>1, <1>2, <1>3, PTL DEF ASpec

-----------------------------------------------------------------------------
(* The units of the guest *)

\* Recorded goes from call to call.
LEMMA RecordedIs ==
  ASSUME NEW calls, Len(calls) \in Nat, NEW per
  PROVE  \E w : /\ w[0] = [units |-> <<>>, unit |-> NoUnit, bytes |-> 0]
                /\ \A k \in 1 .. Len(calls) : w[k] = RecordCall(w[k - 1], calls[k], per)
                /\ Recorded(calls, per) = w[Len(calls)]
<1> DEFINE c == [calls |-> calls, per |-> per]
           base == [units |-> <<>>, unit |-> NoUnit, bytes |-> 0]
           P(w) == w = [k \in 0 .. Len(calls) |->
                          IF k = 0 THEN base ELSE RecordCall(w[k - 1], calls[k], per)]
           f == CHOOSE w : P(w)
<1>1. Recorded(calls, per) = f[Len(calls)]
  BY DEF Recorded
<1>2. ASSUME NEW w PROVE P(w) <=> IsRec("units", c, base, Len(calls), w)
  <2>1. \A x, k : After("units", c, x, k) = RecordCall(x, calls[k], per)
    BY DEF After
  <2> HIDE DEF c, base
  <2> QED BY <2>1 DEF IsRec
<1> HIDE DEF P, c
<1>3. P(f)
  <2> HIDE DEF base
  <2> QED BY <1>2, RecExists
<1> HIDE DEF f
<1>4. f = [k \in 0 .. Len(calls) |->
             IF k = 0 THEN base ELSE RecordCall(f[k - 1], calls[k], per)]
  BY <1>3 DEF P
<1> HIDE DEF base
<1>6. ASSUME NEW k \in 0 .. Len(calls)
      PROVE  f[k] = IF k = 0 THEN base ELSE RecordCall(f[k - 1], calls[k], per)
  BY <1>4
<1>7. 0 \in 0 .. Len(calls) /\ \A k \in 1 .. Len(calls) : k \in 0 .. Len(calls) /\ k # 0
  OBVIOUS
<1>8. f[0] = base /\ \A k \in 1 .. Len(calls) : f[k] = RecordCall(f[k - 1], calls[k], per)
  BY <1>6, <1>7
<1> QED BY <1>1, <1>8 DEF base

\* A unit while it is cut
OpenUnits == [begin : Nat, bytes : Nat, dispatches : Nat]

\* Units one behind the other: full, not empty, and without a gap
Chained(units, per) ==
  /\ units \in Seq(OpenUnits)
  /\ \A i \in 1 .. Len(units) : units[i].dispatches = per /\ units[i].bytes > 0
  /\ \A i \in 1 .. Len(units) - 1 : units[i + 1].begin = units[i].begin + units[i].bytes
  /\ units # <<>> => units[1].begin = 0

\* Where the closed units end
EndOf(units) ==
  IF units = <<>> THEN 0 ELSE units[Len(units)].begin + units[Len(units)].bytes

\* One unit more.
LEMMA ChainGrows ==
  ASSUME NEW units, NEW per, Chained(units, per), NEW unit \in OpenUnits,
         unit.dispatches = per, unit.bytes > 0, unit.begin = EndOf(units)
  PROVE  Chained(Append(units, unit), per) /\ EndOf(Append(units, unit)) = unit.begin + unit.bytes
<1> DEFINE more == Append(units, unit)
           n == Len(units)
<1>1. units \in Seq(OpenUnits) /\ n \in Nat
  BY DEF Chained
<1>2. /\ more \in Seq(OpenUnits) /\ Len(more) = n + 1 /\ more[n + 1] = unit
      /\ \A i \in 1 .. n : more[i] = units[i]
  BY <1>1, AppendProperties
<1>3. more # <<>>
  <2> HIDE DEF more
  <2> QED BY <1>1, <1>2
<1> HIDE DEF more
<1>4. EndOf(more) = unit.begin + unit.bytes
  BY <1>2, <1>3 DEF EndOf
<1>5. ASSUME NEW i \in 1 .. n + 1 PROVE more[i].dispatches = per /\ more[i].bytes > 0
  <2>1. CASE i = n + 1
    BY <1>2, <2>1
  <2>2. CASE i # n + 1
    <3>1. i \in 1 .. n
      BY <1>1, <2>2
    <3> QED BY <1>2, <3>1 DEF Chained
  <2> QED BY <2>1, <2>2
<1>6. ASSUME NEW i \in 1 .. n PROVE more[i + 1].begin = more[i].begin + more[i].bytes
  <2>1. CASE i = n
    <3>1. units # <<>>
      BY <1>1, <2>1
    <3>2. EndOf(units) = units[n].begin + units[n].bytes
      BY <3>1 DEF EndOf
    <3> QED BY <1>2, <2>1, <3>2
  <2>2. CASE i # n
    <3>1. i \in 1 .. n - 1 /\ i + 1 \in 1 .. n
      BY <1>1, <2>2
    <3>2. units[i + 1].begin = units[i].begin + units[i].bytes
      BY <3>1 DEF Chained
    <3> QED BY <1>2, <3>1, <3>2
  <2> QED BY <2>1, <2>2
<1>7. Len(more) - 1 = n
  BY <1>1, <1>2
<1>8. more[1].begin = 0
  <2>1. CASE n = 0
    <3>1. EndOf(units) = 0
      BY <1>1, <2>1 DEF EndOf
    <3> QED BY <1>2, <2>1, <3>1
  <2>2. CASE n # 0
    <3>1. units # <<>> /\ 1 \in 1 .. n
      BY <1>1, <2>2
    <3> QED BY <1>2, <3>1 DEF Chained
  <2> QED BY <2>1, <2>2
<1>9. Chained(more, per)
  BY <1>2, <1>5, <1>6, <1>7, <1>8 DEF Chained
<1> QED BY <1>4, <1>9 DEF more

\* What BuildUnits knows of its units between two calls
Cutting(acc, per) ==
  /\ Chained(acc.units, per)
  /\ acc.unit \in OpenUnits /\ acc.unit.begin = EndOf(acc.units)
  /\ acc.bytes = acc.unit.begin + acc.unit.bytes
  /\ acc.unit.dispatches <= per /\ (acc.unit.dispatches > 0 => acc.unit.bytes > 0)

\* A call keeps it.
LEMMA CallKeepsCutting ==
  ASSUME NEW per \in Nat \ {0}, NEW acc, Cutting(acc, per),
         NEW call \in [dispatch : BOOLEAN, bytes : 1 .. 2]
  PROVE  Cutting(RecordCall(acc, call, per), per)
<1> DEFINE cut == call.dispatch /\ acc.unit.dispatches = per
           open == IF cut THEN [NoUnit EXCEPT !.begin = acc.bytes] ELSE acc.unit
           units == IF cut THEN Append(acc.units, acc.unit) ELSE acc.units
           more == IF call.dispatch THEN 1 ELSE 0
           unit == [open EXCEPT !.bytes = @ + call.bytes, !.dispatches = @ + more]
           r == RecordCall(acc, call, per)
<1>1. r.units = units /\ r.unit = unit /\ r.bytes = acc.bytes + call.bytes
  BY DEF RecordCall
<1> HIDE DEF r
<1>2. /\ acc.unit \in OpenUnits /\ acc.unit.begin \in Nat /\ acc.unit.bytes \in Nat
      /\ acc.unit.dispatches \in Nat /\ acc.unit.begin = EndOf(acc.units)
      /\ acc.bytes = acc.unit.begin + acc.unit.bytes /\ acc.bytes \in Nat
      /\ acc.unit.dispatches <= per /\ (acc.unit.dispatches > 0 => acc.unit.bytes > 0)
      /\ Chained(acc.units, per)
  <2>1. acc.unit \in OpenUnits /\ acc.bytes = acc.unit.begin + acc.unit.bytes
    BY DEF Cutting
  <2>2. acc.unit.begin \in Nat /\ acc.unit.bytes \in Nat /\ acc.unit.dispatches \in Nat
    BY <2>1 DEF OpenUnits
  <2> QED BY <2>1, <2>2 DEF Cutting
<1>3. /\ Chained(units, per) /\ open \in OpenUnits /\ open.begin = EndOf(units)
      /\ acc.bytes = open.begin + open.bytes
      /\ open.dispatches <= per /\ (call.dispatch => open.dispatches < per)
  <2>1. CASE cut
    <3>1. open = [begin |-> acc.bytes, bytes |-> 0, dispatches |-> 0]
      BY <2>1 DEF NoUnit
    <3>2. units = Append(acc.units, acc.unit)
      BY <2>1
    <3>3. Chained(units, per) /\ EndOf(units) = acc.bytes
      BY <1>2, <2>1, <3>2, ChainGrows
    <3> HIDE DEF open, units
    <3>4. open \in OpenUnits
      BY <1>2, <3>1 DEF OpenUnits
    <3> QED BY <1>2, <3>1, <3>3, <3>4
  <2>2. CASE ~cut
    <3>1. open = acc.unit /\ units = acc.units
      BY <2>2
    <3>2. call.dispatch => acc.unit.dispatches # per
      BY <2>2
    <3> HIDE DEF open, units, cut
    <3>3. call.dispatch => acc.unit.dispatches < per
      BY <1>2, <3>2
    <3> QED BY <1>2, <3>1, <3>3
  <2> QED BY <2>1, <2>2
<1> HIDE DEF open, units
<1>4. open.begin \in Nat /\ open.bytes \in Nat /\ open.dispatches \in Nat
      /\ open = [begin |-> open.begin, bytes |-> open.bytes, dispatches |-> open.dispatches]
  BY <1>3 DEF OpenUnits
<1>5. call.bytes \in Nat /\ call.bytes > 0 /\ more \in Nat /\ call.dispatch \in BOOLEAN
      /\ (more = 1 => call.dispatch) /\ more <= 1
  OBVIOUS
<1>6. /\ unit \in OpenUnits
      /\ unit.begin = open.begin /\ unit.bytes = open.bytes + call.bytes
      /\ unit.dispatches = open.dispatches + more
  <2> DEFINE b == open.bytes + call.bytes
             d == open.dispatches + more
  <2>1. b \in Nat /\ d \in Nat
    BY <1>4, <1>5
  <2>2. unit = [[open EXCEPT !.bytes = b] EXCEPT !.dispatches = d]
    BY <1>4
  <2> HIDE DEF b, d, unit
  <2>3. unit \in OpenUnits
    BY <1>3, <2>1, <2>2 DEF OpenUnits
  <2>4. unit.begin = open.begin /\ unit.bytes = b /\ unit.dispatches = d
    BY <1>3, <2>2 DEF OpenUnits
  <2> QED BY <2>3, <2>4 DEF b, d
<1> HIDE DEF more, unit
<1>7. unit.dispatches <= per
  <2>1. CASE more = 0
    BY <1>3, <1>4, <1>6, <2>1
  <2>2. CASE more = 1
    BY <1>3, <1>4, <1>5, <1>6, <2>2
  <2> QED BY <1>5, <2>1, <2>2
<1>8. unit.bytes > 0 /\ acc.bytes + call.bytes = unit.begin + unit.bytes
  BY <1>3, <1>4, <1>5, <1>6
<1>9. Cutting(r, per)
  BY <1>1, <1>3, <1>6, <1>7, <1>8 DEF Cutting
<1> QED BY <1>9 DEF r

\* What BuildUnits reports: units without a gap, all full but the last, which is not empty
IsCut(cut, per) ==
  /\ cut \in Seq(OpenUnits) /\ cut # <<>>
  /\ cut[1].begin = 0
  /\ \A i \in 1 .. Len(cut) :
       cut[i].bytes > 0 /\ cut[i].dispatches >= 1 /\ cut[i].dispatches <= per
  /\ \A i \in 1 .. Len(cut) - 1 :
       cut[i].dispatches = per /\ cut[i + 1].begin = cut[i].begin + cut[i].bytes

\* The units of any sequence of calls are such.
LEMMA UnitsAreCut ==
  ASSUME NEW per \in Nat \ {0}, NEW calls \in Seq([dispatch : BOOLEAN, bytes : 1 .. 2]),
         BuildUnits(calls, per) # <<>>
  PROVE  \E cut : IsCut(cut, per) /\ BuildUnits(calls, per) = Sampled(cut)
<1> DEFINE m == Len(calls)
           Calls == [dispatch : BOOLEAN, bytes : 1 .. 2]
           end == Recorded(calls, per)
<1>1. m \in Nat /\ \A k \in 1 .. m : calls[k] \in Calls
  <2>1. calls \in Seq(Calls)
    OBVIOUS
  <2> HIDE DEF Calls
  <2> QED BY <2>1
<1>2. PICK w : /\ w[0] = [units |-> <<>>, unit |-> NoUnit, bytes |-> 0]
               /\ \A k \in 1 .. Len(calls) : w[k] = RecordCall(w[k - 1], calls[k], per)
               /\ Recorded(calls, per) = w[Len(calls)]
  BY <1>1, RecordedIs
<1> DEFINE T == {k \in 0 .. m : Cutting(w[k], per)}
<1>3. 0 \in T
  <2>1. /\ w[0].units = <<>> /\ w[0].unit = [begin |-> 0, bytes |-> 0, dispatches |-> 0]
        /\ w[0].bytes = 0
    BY <1>2 DEF NoUnit
  <2>2. w[0].unit \in OpenUnits
    BY <2>1 DEF OpenUnits
  <2>3. Chained(<<>>, per) /\ EndOf(<<>>) = 0
    BY DEF Chained, EndOf
  <2> QED BY <1>1, <2>1, <2>2, <2>3 DEF Cutting
<1>4. ASSUME NEW k \in 1 .. m, k - 1 \in T PROVE k \in T
  <2>1. Cutting(w[k - 1], per) /\ calls[k] \in Calls
    BY <1>1, <1>4
  <2>2. Cutting(RecordCall(w[k - 1], calls[k], per), per)
    BY <2>1, CallKeepsCutting
  <2> QED BY <1>2, <2>2
<1>5. Cutting(end, per)
  <2> HIDE DEF T
  <2>1. \A k \in 0 .. m : k \in T
    BY <1>1, <1>3, <1>4, Climbs
  <2>2. m \in T
    BY <1>1, <2>1
  <2> QED BY <1>2, <2>2 DEF T
<1> DEFINE cut == Append(end.units, end.unit)
<1>6. end.unit.dispatches # 0 /\ BuildUnits(calls, per) = Sampled(cut)
  BY DEF BuildUnits
<1> HIDE DEF end
<1> DEFINE units == end.units
           unit == end.unit
           n == Len(units)
<1>7. /\ Chained(units, per) /\ unit \in OpenUnits /\ unit.begin = EndOf(units)
      /\ unit.dispatches <= per /\ (unit.dispatches > 0 => unit.bytes > 0)
  BY <1>5 DEF Cutting
<1>8. unit.dispatches \in Nat /\ unit.dispatches >= 1 /\ unit.bytes > 0
  <2>1. unit.dispatches \in Nat
    BY <1>7 DEF OpenUnits
  <2> QED BY <1>6, <1>7, <2>1
<1> HIDE DEF units, unit
<1>9. units \in Seq(OpenUnits) /\ n \in Nat
  BY <1>7 DEF Chained
<1>10. /\ cut \in Seq(OpenUnits) /\ Len(cut) = n + 1 /\ cut[n + 1] = unit
       /\ \A i \in 1 .. n : cut[i] = units[i]
  BY <1>7, <1>9, AppendProperties DEF units, unit
<1> HIDE DEF cut
<1>11. cut # <<>>
  BY <1>9, <1>10
<1>12. ASSUME NEW i \in 1 .. n + 1
       PROVE  cut[i].bytes > 0 /\ cut[i].dispatches >= 1 /\ cut[i].dispatches <= per
  <2>1. CASE i = n + 1
    BY <1>7, <1>8, <1>10, <2>1
  <2>2. CASE i # n + 1
    <3>1. i \in 1 .. n
      BY <1>9, <2>2
    <3>2. units[i].dispatches = per /\ units[i].bytes > 0
      BY <1>7, <3>1 DEF Chained
    <3> QED BY <1>10, <3>1, <3>2
  <2> QED BY <2>1, <2>2
<1>13. ASSUME NEW i \in 1 .. n
       PROVE  cut[i].dispatches = per /\ cut[i + 1].begin = cut[i].begin + cut[i].bytes
  <2>1. cut[i].dispatches = per /\ cut[i] = units[i]
    BY <1>7, <1>10 DEF Chained
  <2>2. CASE i = n
    <3>1. units # <<>>
      BY <1>9, <2>2
    <3>2. EndOf(units) = units[n].begin + units[n].bytes
      BY <3>1 DEF EndOf
    <3> QED BY <1>7, <1>10, <2>1, <2>2, <3>2
  <2>3. CASE i # n
    <3>1. i \in 1 .. n - 1 /\ i + 1 \in 1 .. n
      BY <1>9, <2>3
    <3>2. units[i + 1].begin = units[i].begin + units[i].bytes
      BY <1>7, <3>1 DEF Chained
    <3> QED BY <1>10, <2>1, <3>1, <3>2
  <2> QED BY <2>2, <2>3
<1>14. cut[1].begin = 0
  <2>1. CASE n = 0
    <3>1. EndOf(units) = 0
      BY <1>9, <2>1 DEF EndOf
    <3> QED BY <1>7, <1>10, <2>1, <3>1
  <2>2. CASE n # 0
    <3>1. units # <<>> /\ 1 \in 1 .. n
      BY <1>9, <2>2
    <3>2. units[1].begin = 0
      BY <1>7, <3>1 DEF Chained
    <3> QED BY <1>10, <3>1, <3>2
  <2> QED BY <2>1, <2>2
<1>15. Len(cut) - 1 = n
  BY <1>9, <1>10
<1>16. IsCut(cut, per)
  BY <1>10, <1>11, <1>12, <1>13, <1>14, <1>15 DEF IsCut
<1> QED BY <1>6, <1>16

\* Units as they are reported
SampledUnits == [offset : Nat, bytes : Nat, dispatch_end : Nat, final : BOOLEAN]

\* n of them, full but for the last, and counted on from one to the next
AreSampled(units, n, per) ==
  /\ n \in Nat /\ n >= 1 /\ units # <<>> /\ Len(units) = n
  /\ units \in Seq(SampledUnits)
  /\ units[1].offset = 0
  /\ units[1].dispatch_end \in 1 .. per
  /\ \A i \in 1 .. n : units[i].bytes > 0 /\ (units[i].final <=> i = n)
  /\ \A i \in 1 .. n - 1 :
       /\ units[i + 1].offset = units[i].offset + units[i].bytes
       /\ units[i + 1].dispatch_end - units[i].dispatch_end \in 1 .. per
  /\ n > 1 => units[1].dispatch_end = per
  /\ \A i \in 2 .. n - 1 : units[i].dispatch_end - units[i - 1].dispatch_end = per

\* That is how the guest reports what it cut.
LEMMA SampledIs ==
  ASSUME NEW per \in Nat \ {0}, NEW cut, IsCut(cut, per)
  PROVE  AreSampled(Sampled(cut), Len(cut), per)
<1> DEFINE n == Len(cut)
           units == Sampled(cut)
           d == [j \in DOMAIN cut |-> cut[j].dispatches]
           S == Prefix(d)
<1>1. n \in Nat /\ n >= 1 /\ DOMAIN cut = 1 .. n
  BY DEF IsCut
<1>2. ASSUME NEW i \in 1 .. n
      PROVE  /\ cut[i].begin \in Nat /\ cut[i].bytes \in Nat /\ cut[i].bytes > 0
             /\ cut[i].dispatches \in 1 .. per
  <2>1. cut[i] \in OpenUnits
    BY <1>1 DEF IsCut
  <2>2. cut[i].begin \in Nat /\ cut[i].bytes \in Nat /\ cut[i].dispatches \in Nat
    BY <2>1 DEF OpenUnits
  <2> QED BY <2>2 DEF IsCut
<1>3. \A i \in 1 .. n - 1 :
        cut[i].dispatches = per /\ cut[i + 1].begin = cut[i].begin + cut[i].bytes
  BY DEF IsCut
<1>4. /\ d \in Seq(Nat) /\ Len(d) = n /\ \A i \in 1 .. n : d[i] = cut[i].dispatches
  <2>1. d \in [1 .. n -> Nat]
    BY <1>1, <1>2
  <2>2. \A i \in 1 .. n : d[i] = cut[i].dispatches
    BY <1>1
  <2> HIDE DEF d
  <2> QED BY <1>1, <2>1, <2>2, LenProperties
<1> HIDE DEF d
<1>5. S[0] = 0 /\ \A i \in 1 .. n : S[i] = S[i - 1] + d[i]
  BY <1>1, <1>4, PrefixIs
<1>6. \A i \in 0 .. n : S[i] \in Nat
  <2>1. \A i \in 1 .. Len(d) : d[i] \in Nat
    BY <1>1, <1>4
  <2> QED BY <1>1, <1>4, <2>1, PrefixGrows
<1>7. units = [i \in 1 .. n |-> [offset |-> cut[i].begin, bytes |-> cut[i].bytes,
                                 dispatch_end |-> S[i], final |-> i = n]]
  BY <1>1 DEF Sampled, d
<1> HIDE DEF S, units
<1>8. ASSUME NEW i \in 1 .. n
      PROVE  /\ units[i].offset = cut[i].begin /\ units[i].bytes = cut[i].bytes
             /\ units[i].dispatch_end = S[i] /\ (units[i].final <=> i = n)
  BY <1>7
<1>9. units \in Seq(SampledUnits) /\ Len(units) = n /\ units # <<>>
  <2>1. ASSUME NEW i \in 1 .. n
        PROVE  [offset |-> cut[i].begin, bytes |-> cut[i].bytes, dispatch_end |-> S[i],
                final |-> i = n] \in SampledUnits
    <3>1. S[i] \in Nat /\ (i = n) \in BOOLEAN
      BY <1>6
    <3> QED BY <1>2, <3>1 DEF SampledUnits
  <2>2. units \in [1 .. n -> SampledUnits]
    BY <1>7, <2>1
  <2> QED BY <1>1, <2>2, LenProperties
<1>10. ASSUME NEW i \in 1 .. n
       PROVE  S[i] - S[i - 1] = cut[i].dispatches /\ S[i] - S[i - 1] \in 1 .. per
  <2> DEFINE a == S[i - 1]
             c == cut[i].dispatches
  <2>1. a \in Nat /\ c \in 1 .. per /\ S[i] = a + c
    BY <1>1, <1>2, <1>4, <1>5, <1>6
  <2> HIDE DEF a, c
  <2>2. S[i] - a = c
    BY <2>1
  <2> QED BY <2>1, <2>2 DEF a, c
<1>11. units[1].offset = 0
  BY <1>1, <1>8 DEF IsCut
<1>12. S[1] = cut[1].dispatches /\ 1 \in 1 .. n
  <2>1. 1 \in 1 .. n
    BY <1>1
  <2> QED BY <1>2, <1>4, <1>5, <2>1
<1>13. units[1].dispatch_end \in 1 .. per /\ (n > 1 => units[1].dispatch_end = per)
  <2>1. n > 1 => 1 \in 1 .. n - 1
    BY <1>1
  <2> QED BY <1>2, <1>3, <1>8, <1>12, <2>1
<1>14. ASSUME NEW i \in 1 .. n - 1
       PROVE  /\ units[i + 1].offset = units[i].offset + units[i].bytes
              /\ units[i + 1].dispatch_end - units[i].dispatch_end \in 1 .. per
  <2>1. i \in 1 .. n /\ i + 1 \in 1 .. n /\ (i + 1) - 1 = i
    BY <1>1
  <2>2. S[i + 1] - S[i] \in 1 .. per
    BY <1>10, <2>1
  <2> QED BY <1>3, <1>8, <2>1, <2>2
<1>15. ASSUME NEW i \in 2 .. n - 1
       PROVE  units[i].dispatch_end - units[i - 1].dispatch_end = per
  <2>1. i \in 1 .. n /\ i - 1 \in 1 .. n /\ i \in 1 .. n - 1
    BY <1>1
  <2>2. S[i] - S[i - 1] = per
    BY <1>3, <1>10, <2>1
  <2> QED BY <1>8, <2>1, <2>2
<1>16. \A i \in 1 .. n : units[i].bytes > 0 /\ (units[i].final <=> i = n)
  BY <1>2, <1>8
<1>17. AreSampled(units, n, per)
  <2> HIDE DEF n
  <2> QED BY <1>1, <1>9, <1>11, <1>13, <1>14, <1>15, <1>16 DEF AreSampled
<1> QED BY <1>17 DEF units

\* The host accepts them one after the other.
LEMMA CutIsAccepted ==
  ASSUME NEW per \in Nat \ {0}, NEW cut, IsCut(cut, per)
  PROVE  ProfileAccepted(Sampled(cut), per)
<1> DEFINE n == Len(cut)
           units == Sampled(cut)
<1>0. AreSampled(units, n, per)
  BY SampledIs
<1> HIDE DEF units
<1>1. /\ n \in Nat /\ n >= 1 /\ units # <<>> /\ Len(units) = n
      /\ units \in Seq(SampledUnits)
      /\ units[1].offset = 0
      /\ units[1].dispatch_end \in 1 .. per
      /\ \A i \in 1 .. n : units[i].bytes > 0 /\ (units[i].final <=> i = n)
      /\ \A i \in 1 .. n - 1 :
           /\ units[i + 1].offset = units[i].offset + units[i].bytes
           /\ units[i + 1].dispatch_end - units[i].dispatch_end \in 1 .. per
      /\ n > 1 => units[1].dispatch_end = per
      /\ \A i \in 2 .. n - 1 : units[i].dispatch_end - units[i - 1].dispatch_end = per
  <2> HIDE DEF n
  <2> QED BY <1>0 DEF AreSampled
<1>2. ASSUME NEW i \in 1 .. n
      PROVE  units[i].offset \in Nat /\ units[i].bytes \in Nat /\ units[i].dispatch_end \in Nat
  <2>1. units[i] \in SampledUnits
    BY <1>1
  <2> QED BY <2>1 DEF SampledUnits
<1>3. ASSUME NEW i \in 1 .. n PROVE ValidateUnit(SubSeq(units, 1, i - 1), units[i], per)
  <2>1. CASE i = 1
    <3>1. SubSeq(units, 1, i - 1) = <<>>
      BY <1>1, <2>1
    <3>2. units[1].dispatch_end - 0 = units[1].dispatch_end
      BY <1>1
    <3>3. ~units[1].final => units[1].dispatch_end = per
      BY <1>1
    <3> QED BY <1>1, <1>2, <2>1, <3>1, <3>2, <3>3 DEF ValidateUnit
  <2>2. CASE i # 1
    <3> DEFINE had == SubSeq(units, 1, i - 1)
               count == units[i].dispatch_end - units[i - 1].dispatch_end
    <3>0. i - 1 \in 1 .. n /\ i - 1 # n /\ i - 1 \in 1 .. n - 1 /\ (i - 1) + 1 = i
      BY <1>1, <2>2
    <3>1. had # <<>> /\ Last(had) = units[i - 1]
      <4>1. 1 \in 1 .. Len(units) + 1 /\ i - 1 \in 1 - 1 .. Len(units)
        BY <1>1, <3>0
      <4>2. Len(had) = (i - 1) - 1 + 1 /\ \A x \in 1 .. (i - 1) - 1 + 1 : had[x] = units[1 + x - 1]
        BY <1>1, <4>1, SubSeqProperties
      <4>3. (i - 1) - 1 + 1 = i - 1 /\ 1 + (i - 1) - 1 = i - 1
        BY <1>1
      <4> HIDE DEF had
      <4>4. Len(had) = i - 1 /\ had[i - 1] = units[i - 1]
        BY <3>0, <4>2, <4>3
      <4> QED BY <3>0, <4>4 DEF Last
    <3>2. count \in 1 .. per
      BY <1>1, <3>0
    <3>3. ~units[i].final => count = per
      <4>1. ~units[i].final => i \in 2 .. n - 1
        BY <1>1, <2>2
      <4> QED BY <1>1, <4>1
    <3>4. ~units[i - 1].final
      BY <1>1, <3>0
    <3>5. units[i].offset = units[i - 1].offset + units[i - 1].bytes /\ units[i].offset \in Nat
      BY <1>1, <1>2, <3>0
    <3> HIDE DEF had, count
    <3>6. ValidateUnit(had, units[i], per)
      <4>1. count > 0 /\ count <= per
        BY <3>2
      <4>2. units[i].offset >= units[i - 1].offset + units[i - 1].bytes
        BY <3>5
      <4> QED BY <1>1, <3>1, <3>3, <3>4, <4>1, <4>2 DEF ValidateUnit, count
    <3> QED BY <3>6 DEF had
  <2> QED BY <2>1, <2>2
<1>4. DOMAIN units = 1 .. n
  BY <1>1
<1> QED BY <1>3, <1>4 DEF ProfileAccepted, units

\* A schedule of the units is a plan that fits them.
LEMMA ScheduleFits ==
  ASSUME NEW per \in Nat \ {0}, NEW cut, IsCut(cut, per), NEW limit \in Nat,
         NEW ends \in Schedules(Len(cut), limit)
  PROVE  PlanMatchesUnits(Boundaries(Sampled(cut), ends), Sampled(cut))
<1> DEFINE n == Len(cut)
           units == Sampled(cut)
           E(i) == units[i].offset + units[i].bytes
<1>0. AreSampled(units, n, per)
  BY SampledIs
<1> HIDE DEF units
<1>1. /\ n \in Nat /\ n >= 1 /\ units # <<>> /\ Len(units) = n
      /\ units \in Seq(SampledUnits)
      /\ \A i \in 1 .. n : units[i].bytes > 0
      /\ \A i \in 1 .. n - 1 : units[i + 1].offset = units[i].offset + units[i].bytes
  <2> HIDE DEF n
  <2> QED BY <1>0 DEF AreSampled
<1>2. ASSUME NEW i \in 1 .. n
      PROVE  units[i].offset \in Nat /\ units[i].bytes \in Nat /\ E(i) \in Nat
  <2>1. units[i] \in SampledUnits
    BY <1>1
  <2>2. units[i].offset \in Nat /\ units[i].bytes \in Nat
    BY <2>1 DEF SampledUnits
  <2> QED BY <2>2
<1>3. \A i \in 1 .. n : E(i) > 0
  BY <1>1, <1>2
<1>4. ASSUME NEW i \in 1 .. n - 1 PROVE E(i) < E(i + 1)
  <2>1. i + 1 \in 1 .. n /\ i \in 1 .. n
    BY <1>1
  <2>2. units[i + 1].offset = E(i) /\ units[i + 1].bytes > 0
    BY <1>1, <2>1
  <2>3. E(i + 1) = E(i) + units[i + 1].bytes /\ E(i) \in Nat /\ units[i + 1].bytes \in Nat
    BY <1>2, <2>1, <2>2
  <2> HIDE DEF E
  <2> QED BY <2>2, <2>3
<1> HIDE DEF E
<1> DEFINE T == {k \in 0 .. n : \A j \in 1 .. k : \A i \in 1 .. j - 1 : E(i) < E(j)}
<1>5. 0 \in T
  BY <1>1
<1>6. ASSUME NEW k \in 1 .. n, k - 1 \in T PROVE k \in T
  <2> SUFFICES ASSUME NEW j \in 1 .. k, NEW i \in 1 .. j - 1 PROVE E(i) < E(j)
    OBVIOUS
  <2>1. CASE j # k
    <3>1. j \in 1 .. k - 1
      BY <2>1
    <3> QED BY <1>6, <3>1
  <2>2. CASE j = k
    <3>1. j - 1 \in 1 .. k - 1 /\ j - 1 \in 1 .. n - 1 /\ (j - 1) + 1 = j
      BY <1>1, <2>2
    <3>2. E(j - 1) < E(j) /\ E(j - 1) \in Nat /\ E(j) \in Nat /\ E(i) \in Nat
      <4>1. j - 1 \in 1 .. n /\ j \in 1 .. n /\ i \in 1 .. n
        BY <1>1, <3>1
      <4>2. E(j - 1) < E((j - 1) + 1)
        BY <1>4, <3>1
      <4> QED BY <1>2, <3>1, <4>1, <4>2
    <3>3. CASE i = j - 1
      BY <3>2, <3>3
    <3>4. CASE i # j - 1
      <4>1. i \in 1 .. (j - 1) - 1
        BY <3>4
      <4>2. E(i) < E(j - 1)
        BY <1>6, <3>1, <4>1
      <4> QED BY <3>2, <4>2
    <3> QED BY <3>3, <3>4
  <2> QED BY <2>1, <2>2
<1>7. \A j \in 1 .. n : \A i \in 1 .. j - 1 : E(i) < E(j)
  <2> HIDE DEF T
  <2>1. \A k \in 0 .. n : k \in T
    BY <1>1, <1>5, <1>6, Climbs
  <2>2. n \in T
    BY <1>1, <2>1
  <2> QED BY <2>2 DEF T
<1> HIDE DEF T
<1>8. PICK m \in 1 .. limit :
        /\ ends \in [1 .. m -> 1 .. n] /\ Len(ends) = m /\ ends[m] = n
        /\ \A i \in 1 .. m - 1 : ends[i] < ends[i + 1]
  BY <1>1, ScheduleIs
<1> DEFINE bounds == Boundaries(units, ends)
<1>9. m \in Nat /\ m >= 1 /\ DOMAIN ends = 1 .. m
  BY <1>8
<1>10. bounds = [i \in 1 .. m |-> [unit |-> ends[i], offset |-> E(ends[i])]]
  BY <1>9 DEF Boundaries, E
<1> HIDE DEF bounds
<1>11. \A i \in 1 .. m : bounds[i].unit = ends[i] /\ bounds[i].offset = E(ends[i])
  BY <1>10
<1>12. DOMAIN bounds = 1 .. m /\ bounds # <<>> /\ Len(bounds) = m
  <2>1. DOMAIN bounds = 1 .. m
    BY <1>10
  <2>2. \E B : bounds \in Seq(B)
    <3> DEFINE B == {bounds[i] : i \in 1 .. m}
    <3>1. bounds \in [1 .. m -> B]
      BY <1>10
    <3> HIDE DEF B
    <3>2. bounds \in Seq(B)
      BY <1>9, <3>1
    <3> QED BY <3>2
  <2> QED BY <1>9, <2>1, <2>2, LenProperties
<1>13. ASSUME NEW i \in 1 .. m
       PROVE  LET previous == IF i = 1 THEN [unit |-> 0, offset |-> 0] ELSE bounds[i - 1]
                  b == bounds[i]
              IN /\ b.unit > previous.unit /\ b.unit <= Len(units)
                 /\ b.offset = units[b.unit].offset + units[b.unit].bytes
                 /\ b.offset > previous.offset
  <2>1. ends[i] \in 1 .. n /\ bounds[i].unit = ends[i] /\ bounds[i].offset = E(ends[i])
    BY <1>8, <1>11
  <2>2. bounds[i].offset = units[ends[i]].offset + units[ends[i]].bytes
    BY <2>1 DEF E
  <2>3. CASE i = 1
    <3>1. ends[i] > 0 /\ ends[i] <= n
      BY <1>1, <2>1
    <3>2. E(ends[i]) > 0
      BY <1>3, <2>1
    <3> QED BY <1>1, <2>1, <2>2, <2>3, <3>1, <3>2
  <2>4. CASE i # 1
    <3>1. i - 1 \in 1 .. m /\ i - 1 \in 1 .. m - 1 /\ (i - 1) + 1 = i
      BY <1>9, <2>4
    <3>2. bounds[i - 1].unit = ends[i - 1] /\ bounds[i - 1].offset = E(ends[i - 1])
      BY <1>11, <3>1
    <3>3. ends[i - 1] < ends[i] /\ ends[i - 1] \in 1 .. n
      <4>1. ends[i - 1] < ends[(i - 1) + 1]
        BY <1>8, <3>1
      <4> QED BY <1>8, <3>1, <4>1
    <3>4. ends[i - 1] \in 1 .. ends[i] - 1
      BY <1>1, <2>1, <3>3
    <3>5. E(ends[i - 1]) < E(ends[i])
      BY <1>7, <2>1, <3>4
    <3>6. E(ends[i - 1]) \in Nat /\ E(ends[i]) \in Nat
      BY <1>2, <2>1, <3>3
    <3>7. ends[i] > ends[i - 1] /\ ends[i] <= n /\ E(ends[i]) > E(ends[i - 1])
      BY <1>1, <2>1, <3>3, <3>5, <3>6
    <3> QED BY <1>1, <2>1, <2>2, <2>4, <3>2, <3>7
  <2> QED BY <2>3, <2>4
<1>14. Last(bounds).unit = Len(units)
  BY <1>1, <1>8, <1>9, <1>11, <1>12 DEF Last
<1> QED BY <1>1, <1>12, <1>13, <1>14 DEF PlanMatchesUnits, bounds, units

\* The input of the task is a sequence of calls.
UnitInv ==
  task = "units" =>
    /\ input.calls \in Seq([dispatch : BOOLEAN, bytes : 1 .. 2])
    /\ input.per \in DispatchesPerUnit
    /\ input = [calls |-> input.calls, per |-> input.per]

\* The units BuildUnits cuts are accepted by flime_validate_unit_locked one by one,
\* and the plan the host makes of them is one PlanMatchesUnits accepts; for any
\* number of calls, and any number of dispatches to a unit.
THEOREM UnitsFit == ASpec => []UnitsAndPlanFit
<1> USE AlgorithmAssumption
<1>1. AInit => UnitInv
  <2> SUFFICES ASSUME AInit, task = "units" PROVE UnitInv
    BY DEF UnitInv
  <2>1. input \in [calls : {<<>>}, per : DispatchesPerUnit]
    BY DEF AInit
  <2>2. <<>> \in Seq([dispatch : BOOLEAN, bytes : 1 .. 2])
    OBVIOUS
  <2> QED BY <2>1, <2>2 DEF UnitInv
<1>2. UnitInv /\ [ANext]_avars => UnitInv'
  <2> SUFFICES ASSUME UnitInv, [ANext]_avars, task' = "units" PROVE UnitInv'
    BY DEF UnitInv
  <2>1. CASE RecordCalls
    <3>1. task = "units"
      BY <2>1 DEF RecordCalls
    <3> DEFINE Calls == [dispatch : BOOLEAN, bytes : 1 .. 2]
    <3>2. PICK d \in BOOLEAN, b \in 1 .. 2 :
            input' = [input EXCEPT !.calls = Append(@, [dispatch |-> d, bytes |-> b])]
      BY <2>1 DEF RecordCalls
    <3>3. /\ input.calls \in Seq(Calls) /\ input.per \in DispatchesPerUnit
          /\ input = [calls |-> input.calls, per |-> input.per]
      BY <3>1 DEF UnitInv
    <3>4. input' = [calls |-> Append(input.calls, [dispatch |-> d, bytes |-> b]),
                    per |-> input.per]
      BY <3>2, <3>3
    <3>5. [dispatch |-> d, bytes |-> b] \in Calls
      OBVIOUS
    <3>6. Append(input.calls, [dispatch |-> d, bytes |-> b]) \in Seq(Calls)
      <4> HIDE DEF Calls
      <4> QED BY <3>3, <3>5, AppendProperties
    <3> QED BY <3>3, <3>4, <3>6 DEF UnitInv
  <2>2. CASE UNCHANGED <<task, input>>
    BY <2>2 DEF UnitInv
  <2>3. CASE ~RecordCalls /\ ~UNCHANGED <<task, input>>
    <3>1. task # "units" /\ task' = task
      BY <2>3 DEF ANext, avars, Batch, NoteSignature, ProfileUnit, Observe, EncodeWord,
                  QueueElement, PackCalls
    <3> QED BY <3>1
  <2> QED BY <2>1, <2>2, <2>3
<1>3. ASSUME UnitInv PROVE UnitsAndPlanFit
  <2> DEFINE units == BuildUnits(input.calls, input.per)
             cost == [i \in DOMAIN units |-> units[i].bytes]
             sigma == [guest |-> 1, host |-> 0]
             P(max) == Plan(cost, cost, sigma, max, max # 0)
  <2> SUFFICES ASSUME task = "units", units # <<>>
               PROVE  /\ ProfileAccepted(units, input.per) /\ units[Len(units)].final
                      /\ \A max \in 0 .. MaxUnits :
                           PlanMatchesUnits(Boundaries(units, P(max).ends), units)
    BY DEF UnitsAndPlanFit
  <2>1. /\ input.calls \in Seq([dispatch : BOOLEAN, bytes : 1 .. 2])
        /\ input.per \in Nat \ {0}
    BY <1>3 DEF UnitInv
  <2>2. PICK cut : IsCut(cut, input.per) /\ units = Sampled(cut)
    BY <2>1, UnitsAreCut
  <2> HIDE DEF units
  <2> DEFINE n == Len(cut)
  <2>3. /\ n \in Nat /\ n >= 1 /\ Len(units) = n /\ units \in Seq(SampledUnits)
        /\ \A i \in 1 .. n : units[i].final <=> i = n
    <3>1. AreSampled(units, n, input.per)
      BY <2>1, <2>2, SampledIs
    <3> HIDE DEF n
    <3> QED BY <3>1 DEF AreSampled
  <2>4. ProfileAccepted(units, input.per) /\ units[Len(units)].final
    <3>1. n \in 1 .. n
      BY <2>3
    <3> QED BY <2>1, <2>2, <2>3, <3>1, CutIsAccepted
  <2>5. cost \in Seq(Nat) /\ Len(cost) = n
    <3>1. DOMAIN units = 1 .. n /\ \A i \in 1 .. n : units[i] \in SampledUnits
      BY <2>3
    <3>2. \A i \in 1 .. n : units[i].bytes \in Nat
      BY <3>1 DEF SampledUnits
    <3>3. cost \in [1 .. n -> Nat]
      BY <3>1, <3>2
    <3> HIDE DEF cost
    <3> QED BY <2>3, <3>3, LenProperties
  <2> HIDE DEF cost
  <2>6. Profile(cost, cost, sigma) /\ Len(cost) >= 1
    BY <2>3, <2>5 DEF Profile
  <2> HIDE DEF sigma
  <2>7. ASSUME NEW max \in 0 .. MaxUnits
        PROVE  PlanMatchesUnits(Boundaries(units, P(max).ends), units)
    <3> DEFINE early == max # 0
               limit == ChunkLimit(Len(cost), max, early)
    <3>1. max \in Nat /\ early \in BOOLEAN /\ (early => max >= 1)
      OBVIOUS
    <3> HIDE DEF early
    <3>2. limit \in 1 .. Len(cost)
      BY <2>6, <3>1, PlanIs
    <3>3. Plan(cost, cost, sigma, max, early).ends \in Schedules(Len(cost), limit)
      BY <2>6, <3>1, PlanIsBest
    <3>4. limit \in Nat
      BY <2>5, <2>3, <3>2
    <3> HIDE DEF limit
    <3>5. P(max).ends \in Schedules(n, limit)
      BY <2>5, <3>3 DEF early
    <3> QED BY <2>1, <2>2, <3>4, <3>5, ScheduleFits
  <2> QED BY <2>4, <2>7
<1>4. UnitInv => UnitsAndPlanFit
  BY <1>3
<1> QED BY <1>1, <1>2, <1>4, PTL DEF ASpec

=============================================================================
