--------------------------- MODULE FlimeLedgerOps ---------------------------
(***************************************************************************)
(* The recovery ledger of one FLIME session as a value, and the decisions  *)
(* that express_vk_flime.c takes on it.  A ledger is the sequence          *)
(* session->ledger[0 .. ledger_count - 1]; an entry is a record            *)
(*   [id |-> update_id, sub |-> submission_id, state |-> state]            *)
(* (template_offset only serves to reject a duplicate and is left out).    *)
(*                                                                         *)
(* The C code decides a batch with a loop that walks a "frontier", the     *)
(* index of the first entry that is neither emitted nor taken by the batch.*)
(* Here the same decision is a condition on positions: an id may be taken  *)
(* when everything before it is emitted or named earlier in the batch.     *)
(* FlimeLedgerWalk holds the loops and compares the two.                   *)
(***************************************************************************)
EXTENDS Naturals, Sequences

\* flime_ledger_emitted_state
EmittedStates == {"RELEASED", "COMMITTED", "REPLAY_EMITTED"}

\* The states between the two halves of an emission.  COMMIT_IN_FLIGHT is
\* declared by the header and assigned nowhere.
InFlightStates == {"RELEASE_IN_FLIGHT", "REPLAY_IN_FLIGHT"}

\* What begin_recovery may discard.
IdleStates == {"PREPARED", "READY", "DISCARDED"}

LedgerStates == EmittedStates \cup InFlightStates \cup IdleStates

Entry(u, s, st) == [id |-> u, sub |-> s, state |-> st]

Emitted(e) == e.state \in EmittedStates

\* flime_ledger_find_locked
Has(L, u) == \E i \in DOMAIN L : L[i].id = u
At(L, u)  == CHOOSE i \in DOMAIN L : L[i].id = u

\* flime_ledger_prefix_emitted_locked
PrefixEmitted(L, i) == \A j \in 1 .. i - 1 : Emitted(L[j])

AllEmitted(L)   == \A i \in DOMAIN L : Emitted(L[i])
AllCommitted(L) == \A i \in DOMAIN L : L[i].state = "COMMITTED"

SetState(L, i, st) == [L EXCEPT ![i].state = st]

\* The entries whose id satisfies Chosen move to st, the others stay.
SetStates(L, ids, mask, st) ==
  [i \in DOMAIN L |->
     IF \E k \in DOMAIN ids : mask[k] /\ ids[k] = L[i].id
     THEN [L[i] EXCEPT !.state = st]
     ELSE L[i]]

\* fault: the mask asks for what is already emitted too
EmitMaskAll(L, ids) == [k \in DOMAIN ids |-> TRUE]
\* emit_mask of a batch: the ids that still have to be emitted.
EmitMask(L, ids) ==
  [k \in DOMAIN ids |-> ~Has(L, ids[k]) \/ ~Emitted(L[At(L, ids[k])])]

Distinct(ids) == \A j, k \in DOMAIN ids : ids[j] = ids[k] => j = k

\* fault: the batch is sorted, but may skip an entry
SortedOnly(L, ids) ==
  \A k \in DOMAIN ids : Has(L, ids[k]) =>
    \A j \in 1 .. k - 1 : Has(L, ids[j]) /\ At(L, ids[j]) < At(L, ids[k])
\* Known ids come in ledger order, and none overtakes an entry that is
\* neither emitted nor named earlier in the batch.
NoOvertaking(L, ids) ==
  \A k \in DOMAIN ids : Has(L, ids[k]) =>
    /\ \A j \in 1 .. k - 1 :
         Has(L, ids[j]) /\ At(L, ids[j]) < At(L, ids[k])
    /\ \A p \in 1 .. At(L, ids[k]) - 1 :
         Emitted(L[p]) \/ \E j \in 1 .. k - 1 : ids[j] = L[p].id

\* An id the ledger does not know is taken after everything it knows.
UnknownLast(L, ids) ==
  \A k \in DOMAIN ids : ~Has(L, ids[k]) =>
    \A p \in DOMAIN L :
      Emitted(L[p]) \/ \E j \in 1 .. k - 1 : ids[j] = L[p].id

Known(L, ids, S) ==
  \A k \in DOMAIN ids : Has(L, ids[k]) => L[At(L, ids[k])].state \in S

\* express_vk_flime_session_ledger_begin_release_batch: every id known.
ReleaseBatchOK(L, ids) ==
  /\ \A k \in DOMAIN ids : Has(L, ids[k])
  /\ NoOvertaking(L, ids)
  /\ Known(L, ids, EmittedStates \cup {"READY"})

\* The ledger knows the first n ids of the batch and no other.
KnownFirst(L, ids, n) == \A k \in DOMAIN ids : Has(L, ids[k]) <=> k <= n

\* express_vk_flime_session_ledger_begin_replay_batch: subs[k] is the
\* submission the caller names for ids[k], limit is max_ledger_entries.
ReplayBatchOK(L, ids, subs, limit) ==
  /\ Distinct(ids)
  /\ \A k \in DOMAIN ids : Has(L, ids[k]) => L[At(L, ids[k])].sub = subs[k]
  /\ \E n \in 0 .. Len(ids) :
       KnownFirst(L, ids, n) /\ Len(L) + (Len(ids) - n) <= limit
  /\ NoOvertaking(L, ids)
  /\ UnknownLast(L, ids)
  /\ Known(L, ids, EmittedStates \cup {"DISCARDED"})

\* The ledger once the unknown tail of a replay batch is appended.
WithMissing(L, ids, subs) ==
  LET n == CHOOSE m \in 0 .. Len(ids) : KnownFirst(L, ids, m)
  IN L \o [k \in 1 .. Len(ids) - n |->
             Entry(ids[n + k], subs[n + k], "REPLAY_IN_FLIGHT")]

\* complete_release_batch and complete_replay_batch: what was begun is still
\* in flight, the rest of the batch is emitted.
CompletionOK(L, ids, mask, inflight) ==
  \A k \in DOMAIN ids :
    /\ Has(L, ids[k])
    /\ IF mask[k] THEN L[At(L, ids[k])].state = inflight
                  ELSE Emitted(L[At(L, ids[k])])

\* fault: entries in flight are discarded too
RecoveryOKInFlight(L) == \A i \in DOMAIN L : Emitted(L[i]) => PrefixEmitted(L, i)
\* flime_begin_recovery_locked: the emitted entries are a prefix, the suffix
\* is idle; it succeeds only then, and discards the suffix.
RecoveryOK(L) ==
  /\ \A i \in DOMAIN L : Emitted(L[i]) => PrefixEmitted(L, i)
  /\ \A i \in DOMAIN L : Emitted(L[i]) \/ L[i].state \in IdleStates

\* fault: a READY entry is taken for released
DiscardKeepsReady(L) ==
  [i \in DOMAIN L |-> IF Emitted(L[i]) \/ L[i].state = "READY" THEN L[i]
                      ELSE [L[i] EXCEPT !.state = "DISCARDED"]]
Discard(L) ==
  [i \in DOMAIN L |-> IF Emitted(L[i]) THEN L[i]
                      ELSE [L[i] EXCEPT !.state = "DISCARDED"]]

\* express_vk_flime_session_ledger_filter_fallback: the batch covers every
\* entry that is not emitted, in order, and unknown ids come last.
FallbackOK(L, ids) ==
  /\ Distinct(ids)
  /\ NoOvertaking(L, ids)
  /\ UnknownLast(L, ids)
  /\ \A p \in DOMAIN L : Emitted(L[p]) \/ \E k \in DOMAIN ids : ids[k] = L[p].id
  /\ Known(L, ids, EmittedStates \cup IdleStates)
=============================================================================
