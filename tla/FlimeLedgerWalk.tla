--------------------------- MODULE FlimeLedgerWalk ---------------------------
(***************************************************************************)
(* The three batch decisions of the ledger as the loops of                 *)
(* express_vk_flime.c, one step per id of the batch, compared with the     *)
(* position conditions of FlimeLedgerOps that the other modules use.  The  *)
(* state is the input of a call: a ledger and a batch, any of either, not  *)
(* only those a session reaches.                                           *)
(***************************************************************************)
EXTENDS FlimeLedgerOps, SequencesExt

CONSTANTS UpdateIds, MaxLedger, MaxIds

VARIABLES L, ids
vars == <<L, ids>>

Ledgers ==
  {l \in UNION {[1 .. n -> [id : UpdateIds, sub : {"s"}, state : LedgerStates]] :
                  n \in 0 .. MaxLedger} :
     \A i, j \in DOMAIN l : l[i].id = l[j].id => i = j}

Batches == UNION {[1 .. n -> UpdateIds] : n \in 1 .. MaxIds}

Init == L \in Ledgers /\ ids = <<>>
Next == ids = <<>> /\ ids' \in Batches /\ UNCHANGED L
Spec == Init /\ [][Next]_vars

\* Positions start at 1; an unknown id is found at 0.
Found(u) == IF Has(L, u) THEN At(L, u) ELSE 0

\* while (frontier < count && emitted(ledger[frontier])) frontier++
Skip(from) ==
  CHOOSE f \in from .. Len(L) + 1 :
    /\ f = Len(L) + 1 \/ ~Emitted(L[f])
    /\ \A i \in from .. f - 1 : Emitted(L[i])

Start == [ok |-> TRUE, frontier |-> Skip(1), previous |-> 0, missing |-> 0]
Fail(acc) == [acc EXCEPT !.ok = FALSE]

\* fault: a batch may go back
StepKnownBack(acc, found, takes) ==
  IF acc.missing # 0 THEN Fail(acc)
  ELSE IF Emitted(L[found])
       THEN IF found >= acc.frontier THEN Fail(acc)
            ELSE [acc EXCEPT !.previous = found]
       ELSE IF L[found].state # takes \/ found # acc.frontier THEN Fail(acc)
            ELSE [acc EXCEPT !.previous = found, !.frontier = Skip(found + 1)]
\* A known id of a release (takes READY) or a replay (takes DISCARDED) batch
StepKnown(acc, found, takes) ==
  IF found <= acc.previous \/ acc.missing # 0 THEN Fail(acc)
  ELSE IF Emitted(L[found])
       THEN IF found >= acc.frontier THEN Fail(acc)
            ELSE [acc EXCEPT !.previous = found]
       ELSE IF L[found].state # takes \/ found # acc.frontier THEN Fail(acc)
            ELSE [acc EXCEPT !.previous = found, !.frontier = Skip(found + 1)]

ReleaseStep(acc, u) ==
  IF ~acc.ok \/ Found(u) = 0 THEN Fail(acc)
  ELSE StepKnown(acc, Found(u), "READY")

\* fault: an unknown id is appended wherever the frontier is
ReplayStepEarly(acc, u) ==
  IF ~acc.ok THEN acc
  ELSE IF Found(u) # 0 THEN StepKnown(acc, Found(u), "DISCARDED")
  ELSE [acc EXCEPT !.missing = @ + 1, !.frontier = @ + 1]
ReplayStep(acc, u) ==
  IF ~acc.ok THEN acc
  ELSE IF Found(u) # 0 THEN StepKnown(acc, Found(u), "DISCARDED")
  ELSE IF acc.frontier # Len(L) + acc.missing + 1 THEN Fail(acc)
  ELSE [acc EXCEPT !.missing = @ + 1, !.frontier = @ + 1]

AllEmittedIn(from, to) == \A i \in from .. to : Emitted(L[i])

\* fault: the entries between two ids of the batch are not looked at
FallbackStepGap(acc, u) ==
  IF ~acc.ok THEN acc
  ELSE IF Found(u) = 0
  THEN IF AllEmittedIn(acc.previous + 1, Len(L))
       THEN [acc EXCEPT !.previous = Len(L) + 1] ELSE Fail(acc)
  ELSE IF \/ acc.previous > Len(L) \/ Found(u) <= acc.previous
          \/ L[Found(u)].state \in InFlightStates
  THEN Fail(acc)
  ELSE [acc EXCEPT !.previous = Found(u)]
\* filter_fallback keeps only the previous position.
FallbackStep(acc, u) ==
  IF ~acc.ok THEN acc
  ELSE IF Found(u) = 0
  THEN IF AllEmittedIn(acc.previous + 1, Len(L))
       THEN [acc EXCEPT !.previous = Len(L) + 1] ELSE Fail(acc)
  ELSE IF \/ acc.previous > Len(L) \/ Found(u) <= acc.previous
          \/ ~AllEmittedIn(acc.previous + 1, Found(u) - 1)
          \/ L[Found(u)].state \in InFlightStates
  THEN Fail(acc)
  ELSE [acc EXCEPT !.previous = Found(u)]

ReleaseWalk == FoldLeft(ReleaseStep, Start, ids).ok
\* fault: the ids that will be appended are not counted
ReplayWalkUncounted(limit) == Distinct(ids) /\ FoldLeft(ReplayStep, Start, ids).ok
\* limit is max_ledger_entries.
ReplayWalk(limit) ==
  LET end == FoldLeft(ReplayStep, Start, ids)
  IN Distinct(ids) /\ end.ok /\ end.missing <= limit - Len(L)
FallbackWalk ==
  LET end == FoldLeft(FallbackStep, Start, ids)
  IN Distinct(ids) /\ end.ok /\ AllEmittedIn(end.previous + 1, Len(L))

-----------------------------------------------------------------------------
\* The frontier walk of begin_release_batch accepts exactly the batches whose
\* ids overtake nothing that is neither emitted nor taken before them; that of
\* begin_replay_batch, which also appends unknown ids, exactly the batches
\* ReplayBatchOK describes, whatever room there is for these; and filter_fallback, which keeps no frontier,
\* exactly the batches that cover the whole unemitted suffix in order.
WalksAgree ==
  /\ ids # <<>> =>
       /\ ReleaseWalk <=> ReleaseBatchOK(L, ids)
       /\ \A limit \in Len(L) .. MaxLedger :
            ReplayWalk(limit) <=> ReplayBatchOK(L, ids, [k \in DOMAIN ids |-> "s"], limit)
  /\ FallbackWalk <=> FallbackOK(L, ids)
=============================================================================
