-------------------------- MODULE FlimeLedgerProofs --------------------------
(***************************************************************************)
(* Proofs about FlimeLedger, for every set of updates and submissions and  *)
(* every bound: its invariants, and that it implements UpdateDelivery; and *)
(* about FlimeLedgerAPI, which adds the operations on one update.          *)
(***************************************************************************)
EXTENDS FlimeLedgerAPI, SequenceTheorems, TLAPS, WellFoundedInduction

Entries == [id : UpdateIds, sub : SubmissionIds, state : LedgerStates]

\* Two ledgers with the same updates in the same places.
SameUpdates(L, M) ==
  /\ Len(M) = Len(L)
  /\ \A i \in DOMAIN L : M[i].id = L[i].id /\ M[i].sub = L[i].sub

Unique(L) == \A i, j \in DOMAIN L : L[i].id = L[j].id => i = j

-----------------------------------------------------------------------------
(* Positions and the operators that rewrite states. *)

\* The position the ledger index answers is a position of that update.
LEMMA AtFinds ==
  ASSUME NEW L, NEW u, Has(L, u)
  PROVE  At(L, u) \in DOMAIN L /\ L[At(L, u)].id = u
BY DEF Has, At

\* With unique ids there is only one such position.
LEMMA AtIsPosition ==
  ASSUME NEW L, Unique(L), NEW p \in DOMAIN L
  PROVE  Has(L, L[p].id) /\ At(L, L[p].id) = p
BY DEF Has, At, Unique

\* Ledgers with the same updates are searched alike.
LEMMA SameAt ==
  ASSUME NEW L \in Seq(Entries), NEW M \in Seq(Entries), SameUpdates(L, M), Unique(L)
  PROVE  /\ DOMAIN M = DOMAIN L
         /\ Unique(M)
         /\ \A u : Has(M, u) <=> Has(L, u)
         /\ \A u : Has(L, u) => At(M, u) = At(L, u)
<1>1. DOMAIN M = DOMAIN L /\ Unique(M)
  BY DEF SameUpdates, Unique
<1>2. \A u : Has(M, u) <=> Has(L, u)
  BY <1>1 DEF SameUpdates, Has
<1>3. ASSUME NEW u, Has(L, u) PROVE At(M, u) = At(L, u)
  <2>1. At(L, u) \in DOMAIN L /\ L[At(L, u)].id = u
    BY <1>3, AtFinds
  <2>2. At(L, u) \in DOMAIN M /\ M[At(L, u)].id = u
    BY <1>1, <2>1 DEF SameUpdates
  <2> QED BY <1>1, <2>2, AtIsPosition
<1> QED BY <1>1, <1>2, <1>3

\* Rewriting the state of an entry.
LEMMA EntryState ==
  ASSUME NEW e \in Entries, NEW st \in LedgerStates
  PROVE  /\ [e EXCEPT !.state = st] \in Entries
         /\ [e EXCEPT !.state = st].id = e.id
         /\ [e EXCEPT !.state = st].sub = e.sub
         /\ [e EXCEPT !.state = st].state = st
BY DEF Entries

\* A function on the positions of a ledger is a ledger.
LEMMA SameShape ==
  ASSUME NEW L \in Seq(Entries), NEW M, DOMAIN M = DOMAIN L,
         M = [i \in DOMAIN L |-> M[i]],
         \A i \in DOMAIN L : M[i] \in Entries
  PROVE  M \in Seq(Entries) /\ Len(M) = Len(L)
<1>1. DOMAIN L = 1 .. Len(L) /\ Len(L) \in Nat
  OBVIOUS
<1>2. M \in [1 .. Len(L) -> Entries]
  BY <1>1, Zenon
<1> QED BY <1>1, <1>2

\* Changing the state of one entry leaves a ledger with the same updates.
LEMMA SetStateKeeps ==
  ASSUME NEW L \in Seq(Entries), NEW p \in DOMAIN L, NEW st \in LedgerStates
  PROVE  /\ SetState(L, p, st) \in Seq(Entries)
         /\ SameUpdates(L, SetState(L, p, st))
         /\ SetState(L, p, st)[p].state = st
         /\ \A i \in DOMAIN L : i # p => SetState(L, p, st)[i] = L[i]
<1> DEFINE e == [L[p] EXCEPT !.state = st]
           M == [L EXCEPT ![p] = e]
<1>1. L[p] \in Entries
  OBVIOUS
<1>2. e \in Entries /\ e.id = L[p].id /\ e.sub = L[p].sub /\ e.state = st
  BY <1>1, EntryState
<1> HIDE DEF e
<1>3. M \in Seq(Entries) /\ Len(M) = Len(L)
      /\ M[p] = e /\ \A i \in DOMAIN L : i # p => M[i] = L[i]
  BY <1>2
<1>4. M = SetState(L, p, st)
  BY DEF SetState, e
<1>5. SameUpdates(L, M)
  BY <1>2, <1>3 DEF SameUpdates
<1> QED BY <1>2, <1>3, <1>4, <1>5

\* So does changing the state of the entries a batch masks.
LEMMA SetStatesKeeps ==
  ASSUME NEW L \in Seq(Entries), NEW ids, NEW mask, NEW st \in LedgerStates
  PROVE  /\ SetStates(L, ids, mask, st) \in Seq(Entries)
         /\ SameUpdates(L, SetStates(L, ids, mask, st))
         /\ \A i \in DOMAIN L :
              IF \E k \in DOMAIN ids : mask[k] /\ ids[k] = L[i].id
              THEN SetStates(L, ids, mask, st)[i].state = st
              ELSE SetStates(L, ids, mask, st)[i] = L[i]
<1> DEFINE M == SetStates(L, ids, mask, st)
           Chosen(i) == \E k \in DOMAIN ids : mask[k] /\ ids[k] = L[i].id
<1>1. \A i \in DOMAIN L : L[i] \in Entries
  OBVIOUS
<1>2. /\ M = [i \in DOMAIN L |-> M[i]] /\ DOMAIN M = DOMAIN L
      /\ \A i \in DOMAIN L : M[i] = IF Chosen(i) THEN [L[i] EXCEPT !.state = st] ELSE L[i]
  BY DEF SetStates
<1> HIDE DEF M, Chosen
<1>3. \A i \in DOMAIN L :
        M[i] \in Entries /\ M[i].id = L[i].id /\ M[i].sub = L[i].sub
        /\ (Chosen(i) => M[i].state = st) /\ (~Chosen(i) => M[i] = L[i])
  <2> TAKE i \in DOMAIN L
  <2> DEFINE e == [L[i] EXCEPT !.state = st]
  <2>1. e \in Entries /\ e.id = L[i].id /\ e.sub = L[i].sub /\ e.state = st
    BY <1>1, EntryState
  <2>2. M[i] = IF Chosen(i) THEN e ELSE L[i]
    BY <1>2
  <2> HIDE DEF e
  <2> QED BY <1>1, <2>1, <2>2
<1>4. M \in Seq(Entries) /\ Len(M) = Len(L)
  BY <1>2, <1>3, SameShape
<1> QED BY <1>3, <1>4 DEF SameUpdates, M, Chosen

\* And so does discarding the suffix.
LEMMA DiscardKeeps ==
  ASSUME NEW L \in Seq(Entries)
  PROVE  /\ Discard(L) \in Seq(Entries)
         /\ SameUpdates(L, Discard(L))
         /\ \A i \in DOMAIN L : IF Emitted(L[i]) THEN Discard(L)[i] = L[i]
                                ELSE Discard(L)[i].state = "DISCARDED"
<1> DEFINE M == Discard(L)
<1>1. \A i \in DOMAIN L : L[i] \in Entries
  OBVIOUS
<1>2. /\ M = [i \in DOMAIN L |-> M[i]] /\ DOMAIN M = DOMAIN L
      /\ \A i \in DOMAIN L : M[i] = IF Emitted(L[i]) THEN L[i]
                                    ELSE [L[i] EXCEPT !.state = "DISCARDED"]
  BY DEF Discard
<1>3. "DISCARDED" \in LedgerStates
  BY DEF LedgerStates, IdleStates
<1> HIDE DEF M
<1>4. \A i \in DOMAIN L :
        M[i] \in Entries /\ M[i].id = L[i].id /\ M[i].sub = L[i].sub
        /\ (~Emitted(L[i]) => M[i].state = "DISCARDED") /\ (Emitted(L[i]) => M[i] = L[i])
  <2> TAKE i \in DOMAIN L
  <2> DEFINE e == [L[i] EXCEPT !.state = "DISCARDED"]
  <2>1. e \in Entries /\ e.id = L[i].id /\ e.sub = L[i].sub /\ e.state = "DISCARDED"
    BY <1>1, <1>3, EntryState
  <2>2. M[i] = IF Emitted(L[i]) THEN L[i] ELSE e
    BY <1>2
  <2> HIDE DEF e
  <2> QED BY <1>1, <2>1, <2>2
<1>5. M \in Seq(Entries) /\ Len(M) = Len(L)
  BY <1>2, <1>4, SameShape
<1> QED BY <1>4, <1>5 DEF SameUpdates, M
-----------------------------------------------------------------------------
(* Sequences the actions build. *)

\* A batch is a sequence of updates.
LEMMA BatchIsSeq ==
  ASSUME NEW ids \in IdBatches
  PROVE  ids \in Seq(UpdateIds) /\ Len(ids) \in Nat /\ DOMAIN ids = 1 .. Len(ids)
<1>1. PICK n \in 1 .. MaxBatch : ids \in [1 .. n -> UpdateIds]
  BY DEF IdBatches
<1>2. n \in Nat
  BY LedgerAssumption
<1> QED BY <1>1, <1>2

\* The emit mask has one answer per id.
LEMMA MaskIsSeq ==
  ASSUME NEW L, NEW ids \in Seq(UpdateIds)
  PROVE  EmitMask(L, ids) \in Seq(BOOLEAN) /\ DOMAIN EmitMask(L, ids) = DOMAIN ids
<1> DEFINE A(k) == ~Has(L, ids[k]) \/ ~Emitted(L[At(L, ids[k])])
<1>1. EmitMask(L, ids) = [k \in 1 .. Len(ids) |-> A(k)] /\ DOMAIN ids = 1 .. Len(ids)
  BY DEF EmitMask
<1>2. \A k \in 1 .. Len(ids) : A(k) \in BOOLEAN
  OBVIOUS
<1> HIDE DEF A
<1> QED BY <1>1, <1>2

\* Replaying updates the ledger does not know appends them, and leaves the
\* entries it has.
LEMMA MissingKeeps ==
  ASSUME NEW L \in Seq(Entries), NEW ids \in Seq(UpdateIds),
         NEW subs \in [DOMAIN ids -> SubmissionIds],
         NEW limit \in Nat, ReplayBatchOK(L, ids, subs, limit)
  PROVE  \E n \in 0 .. Len(ids) :
           /\ KnownFirst(L, ids, n)
           /\ WithMissing(L, ids, subs) \in Seq(Entries)
           /\ Len(WithMissing(L, ids, subs)) = Len(L) + (Len(ids) - n)
           /\ Len(WithMissing(L, ids, subs)) <= limit
           /\ \A i \in DOMAIN L : WithMissing(L, ids, subs)[i] = L[i]
           /\ \A k \in 1 .. Len(ids) - n :
                WithMissing(L, ids, subs)[Len(L) + k] =
                  Entry(ids[n + k], subs[n + k], "REPLAY_IN_FLIGHT")
<1> DEFINE P(m) == KnownFirst(L, ids, m)
           n == CHOOSE m \in 0 .. Len(ids) : P(m)
           new == [k \in 1 .. Len(ids) - n |->
                     Entry(ids[n + k], subs[n + k], "REPLAY_IN_FLIGHT")]
<1>1. PICK m \in 0 .. Len(ids) : P(m) /\ Len(L) + (Len(ids) - m) <= limit
  BY DEF ReplayBatchOK
<1>2. n \in 0 .. Len(ids) /\ P(n)
  <2> HIDE DEF P
  <2> QED BY <1>1
<1>3. Len(ids) \in Nat /\ DOMAIN ids = 1 .. Len(ids)
  OBVIOUS
<1>4. n = m
  <2> HIDE DEF n
  <2> USE <1>1, <1>2, <1>3 DEF KnownFirst
  <2>1. CASE n < m
    <3>1. m \in DOMAIN ids
      BY <2>1
    <3> QED BY <3>1, <2>1
  <2>2. CASE m < n
    <3>1. n \in DOMAIN ids
      BY <2>2
    <3> QED BY <3>1, <2>2
  <2> QED BY <2>1, <2>2
<1>5. WithMissing(L, ids, subs) = L \o new
  BY DEF WithMissing
<1> HIDE DEF n, P
<1>6. \A k \in 1 .. Len(ids) - n : new[k] \in Entries
  <2> TAKE k \in 1 .. Len(ids) - n
  <2>1. n + k \in DOMAIN ids
    BY <1>2, <1>3
  <2>2. ids[n + k] \in UpdateIds /\ subs[n + k] \in SubmissionIds
    BY <2>1, <1>3
  <2> QED BY <2>2 DEF Entries, Entry, LedgerStates, InFlightStates
<1>7. new \in Seq(Entries) /\ Len(new) = Len(ids) - n
  BY <1>2, <1>3, <1>6
<1> HIDE DEF new
<1>8. /\ L \o new \in Seq(Entries) /\ Len(L \o new) = Len(L) + (Len(ids) - n)
      /\ \A i \in DOMAIN L : (L \o new)[i] = L[i]
      /\ \A k \in 1 .. Len(ids) - n : (L \o new)[Len(L) + k] = new[k]
  <2>1. /\ L \o new \in Seq(Entries) /\ Len(L \o new) = Len(L) + Len(new)
        /\ \A i \in 1 .. Len(L) + Len(new) :
             (L \o new)[i] = IF i <= Len(L) THEN L[i] ELSE new[i - Len(L)]
    BY <1>7, ConcatProperties, Zenon
  <2>2. Len(L) \in Nat /\ DOMAIN L = 1 .. Len(L) /\ n \in Nat
    BY <1>2, <1>3
  <2>3. \A k \in 1 .. Len(ids) - n :
          Len(L) + k \in 1 .. Len(L) + Len(new) /\ (Len(L) + k) - Len(L) = k
          /\ ~(Len(L) + k <= Len(L))
    BY <1>3, <1>7, <2>2
  <2>4. \A i \in DOMAIN L : i \in 1 .. Len(L) + Len(new) /\ i <= Len(L)
    BY <1>2, <1>3, <1>7, <2>2
  <2> QED BY <1>7, <2>1, <2>3, <2>4
<1>9. \A k \in 1 .. Len(ids) - n :
        new[k] = Entry(ids[n + k], subs[n + k], "REPLAY_IN_FLIGHT")
  BY DEF new
<1>10. /\ KnownFirst(L, ids, n)
       /\ WithMissing(L, ids, subs) \in Seq(Entries)
       /\ Len(WithMissing(L, ids, subs)) = Len(L) + (Len(ids) - n)
       /\ Len(WithMissing(L, ids, subs)) <= limit
       /\ \A i \in DOMAIN L : WithMissing(L, ids, subs)[i] = L[i]
       /\ \A k \in 1 .. Len(ids) - n :
            WithMissing(L, ids, subs)[Len(L) + k] =
              Entry(ids[n + k], subs[n + k], "REPLAY_IN_FLIGHT")
  BY <1>1, <1>2, <1>4, <1>5, <1>8, <1>9 DEF P
<1> QED BY <1>2, <1>10
-----------------------------------------------------------------------------
(* Steps by what they do to the ledger. *)

\* The session variables keep their types.
SessionTyped ==
  /\ stage \in Stages
  /\ negotiated \in BOOLEAN /\ legacy \in BOOLEAN
  /\ caps \subseteq {"PROGRESSIVE", "LEDGER", "DIRECT"}
  /\ epoch \in 0 .. MaxEpoch

\* The kinds of a flight are told apart by their name.
LEMMA FlightKinds ==
  ASSUME TypeOK
  PROVE  /\ flight.kind \in {"none", "release", "replay", "fallback"}
         /\ flight = NoFlight <=> flight.kind = "none"
         /\ flight # NoFlight =>
              /\ flight.ids \in Seq(UpdateIds) /\ flight.mask \in Seq(BOOLEAN)
              /\ DOMAIN flight.mask = DOMAIN flight.ids
              /\ DOMAIN flight.ids = 1 .. Len(flight.ids)
              /\ flight.next \in 1 .. Len(flight.ids) + 1
BY DEF TypeOK, NoFlight

\* Without host work in flight recovery can begin.
LEMMA NoFlightRecovery ==
  ASSUME IInv, flight = NoFlight
  PROVE  RecoveryOK(ledger)
<1>1. flight.kind = "none"
  BY DEF NoFlight
<1>2. ~Batch
  BY <1>1 DEF Batch
<1>3. ledger \in Seq(Entries) /\ log \in Seq(UpdateIds) /\ base \in 0 .. Len(log)
  BY DEF IInv, TypeOK, Entries
<1>4. \A i \in DOMAIN ledger : i <= Applied <=> Emitted(ledger[i])
  BY <1>1, <1>2 DEF IInv, AppliedPrefix, Done
<1>5. \A i \in DOMAIN ledger : ledger[i].state \notin InFlightStates
  BY <1>2 DEF IInv, BatchInOrder
<1>6. \A i \in DOMAIN ledger : ledger[i].state \in LedgerStates
  <2>1. \A i \in DOMAIN ledger : ledger[i] \in Entries
    BY <1>3
  <2> QED BY <2>1 DEF Entries
<1>7. \A i \in DOMAIN ledger : Emitted(ledger[i]) \/ ledger[i].state \in IdleStates
  BY <1>5, <1>6 DEF LedgerStates, Emitted
<1>8. \A i \in DOMAIN ledger : Emitted(ledger[i]) => PrefixEmitted(ledger, i)
  BY <1>3, <1>4 DEF PrefixEmitted, Applied
<1> QED BY <1>7, <1>8 DEF RecoveryOK

\* Clearing the ledger while nothing is in flight.
LEMMA ClearStep ==
  ASSUME IInv, flight = NoFlight, UNCHANGED <<flight, log>>, ClearLedger, SessionTyped'
  PROVE  IInv'
<1>1. flight' = NoFlight /\ flight'.kind = "none" /\ ledger' = <<>>
      /\ log' = log /\ base' = Len(log) /\ log \in Seq(UpdateIds)
  BY DEF NoFlight, ClearLedger, IInv, TypeOK
<1>2. ledger' \in Seq(Entries) /\ Len(ledger') = 0 /\ DOMAIN ledger' = {}
  BY <1>1
<1>3. TypeOK'
  BY <1>1, <1>2, LedgerAssumption DEF TypeOK, SessionTyped, Entries
<1>4. UniqueIds' /\ RecoverWaits' /\ LegacyEmpty'
  BY <1>1, <1>2 DEF UniqueIds, RecoverWaits, LegacyEmpty
<1>5. AppliedPrefix'
  BY <1>1, <1>2 DEF AppliedPrefix, Applied, Done
<1>6. BatchInOrder' /\ FallbackFresh'
  BY <1>1, <1>2 DEF BatchInOrder, FallbackFresh, Batch
<1>7. AppliedOnce'
  BY <1>1 DEF IInv, AppliedOnce, Distinct
<1> QED BY <1>3, <1>4, <1>5, <1>6, <1>7 DEF IInv

\* Moving between stages with the ledger as it is.
LEMMA StageStep ==
  ASSUME IInv, UNCHANGED <<ledger, flight, log, base>>, SessionTyped',
         stage' # stage => stage' \notin {"LEGACY", "RECOVER"} /\ flight = NoFlight
  PROVE  IInv'
<1>1. TypeOK'
  BY DEF IInv, TypeOK, SessionTyped
<1>2. UniqueIds' /\ AppliedPrefix' /\ BatchInOrder' /\ FallbackFresh' /\ AppliedOnce'
  BY DEF IInv, UniqueIds, Fresh, AppliedPrefix, Applied, Done, Batch, BatchInOrder,
         FallbackFresh, AppliedOnce
<1>3. RecoverWaits'
  BY DEF IInv, RecoverWaits
<1>4. LegacyEmpty'
  BY DEF IInv, LegacyEmpty, NoFlight
<1> QED BY <1>1, <1>2, <1>3, <1>4 DEF IInv

\* Rewriting idle entries to idle entries, whatever is in flight.
LEMMA IdleStep ==
  ASSUME IInv, ledger' \in Seq(Entries), SameUpdates(ledger, ledger'),
         \A i \in DOMAIN ledger :
           \/ ledger'[i] = ledger[i]
           \/ ledger[i].state \in IdleStates /\ ledger'[i].state \in IdleStates,
         UNCHANGED <<flight, log, base>>, SessionTyped',
         flight.kind # "fallback",
         stage' = "LEGACY" => stage = "LEGACY",
         stage' = "RECOVER" => \A i \in DOMAIN ledger :
           Emitted(ledger'[i]) \/ ledger'[i].state \in {"DISCARDED", "REPLAY_IN_FLIGHT"}
  PROVE  IInv'
<1> DEFINE L == ledger
           M == ledger'
<1>1. L \in Seq(Entries) /\ Unique(L)
  BY DEF IInv, TypeOK, UniqueIds, Unique, Entries
<1>2. /\ DOMAIN M = DOMAIN L /\ Unique(M) /\ Len(M) = Len(L)
      /\ \A u : Has(M, u) <=> Has(L, u)
      /\ \A u : Has(L, u) => At(M, u) = At(L, u)
  BY <1>1, SameAt DEF SameUpdates
<1>3. \A i \in DOMAIN L : M[i].id = L[i].id /\ (Emitted(M[i]) <=> Emitted(L[i]))
  BY DEF SameUpdates, Emitted, EmittedStates, IdleStates
<1>4. \A i \in DOMAIN L : \A st \in InFlightStates : M[i].state = st <=> L[i].state = st
  BY DEF InFlightStates, IdleStates
<1>5. TypeOK'
  BY <1>2 DEF IInv, TypeOK, SessionTyped, Entries
<1>6. UniqueIds'
  BY <1>2, <1>3 DEF IInv, UniqueIds, Unique, Fresh
<1>7. AppliedPrefix'
  <2>1. AppliedPrefix /\ flight.kind # "fallback"
    BY DEF IInv
  <2>2. Applied' = Applied /\ Applied \in Nat
    BY DEF Applied, IInv, TypeOK
  <2>3. \A i \in DOMAIN L : Done(i)' <=> Done(i)
    BY <1>3 DEF Done, Batch
  <2>4. Applied' <= Len(M)
    BY <1>2, <2>1, <2>2 DEF AppliedPrefix
  <2>5. \A i \in 1 .. Applied : i \in DOMAIN L
    BY <1>1, <2>1, <2>2 DEF AppliedPrefix
  <2>6. \A i \in 1 .. Applied' : M[i].id = (log[base + i])'
    BY <1>3, <2>1, <2>2, <2>5 DEF AppliedPrefix
  <2>7. \A i \in DOMAIN M : i <= Applied' <=> Done(i)'
    BY <1>2, <2>1, <2>2, <2>3 DEF AppliedPrefix
  <2> HIDE DEF L, M
  <2> QED BY <2>4, <2>6, <2>7 DEF AppliedPrefix, M
<1>8. BatchInOrder'
  <2>1. ASSUME NEW i \in DOMAIN M, M[i].state \in InFlightStates
        PROVE  Batch /\ \E k \in DOMAIN flight.ids : flight.mask[k] /\ flight.ids[k] = M[i].id
    BY <1>2, <1>3, <1>4, <2>1 DEF IInv, BatchInOrder
  <2>2. ASSUME Batch
        PROVE  CompletionOK(M, flight.ids, flight.mask, InFlightOf(flight.kind))
    <3> DEFINE st == InFlightOf(flight.kind)
    <3>1. st \in InFlightStates
      BY DEF InFlightOf, InFlightStates
    <3> HIDE DEF st
    <3>2. CompletionOK(L, flight.ids, flight.mask, st)
      BY <2>2 DEF IInv, BatchInOrder, st
    <3> SUFFICES ASSUME NEW k \in DOMAIN flight.ids
                 PROVE  /\ Has(M, flight.ids[k])
                        /\ IF flight.mask[k] THEN M[At(M, flight.ids[k])].state = st
                           ELSE Emitted(M[At(M, flight.ids[k])])
      BY DEF CompletionOK, st
    <3>3. Has(L, flight.ids[k]) /\ At(M, flight.ids[k]) = At(L, flight.ids[k])
      BY <1>2, <3>2 DEF CompletionOK
    <3>4. At(L, flight.ids[k]) \in DOMAIN L
      BY <3>3, AtFinds
    <3> QED BY <1>2, <1>3, <1>4, <3>1, <3>2, <3>3, <3>4 DEF CompletionOK
  <2>3. ASSUME Batch PROVE NoOvertaking(M, flight.ids)
    <3>1. NoOvertaking(L, flight.ids)
      BY <2>3 DEF IInv, BatchInOrder
    <3>2. \A u : Has(L, u) => At(L, u) \in DOMAIN L
      BY AtFinds
    <3>3. \A u : Has(L, u) => \A p \in 1 .. At(L, u) - 1 : p \in DOMAIN L
      BY <1>1, <3>2
    <3> HIDE DEF L, M
    <3> QED BY <1>2, <1>3, <3>1, <3>3 DEF NoOvertaking
  <2> QED BY <2>1, <2>2, <2>3 DEF BatchInOrder, Batch
<1>9. FallbackFresh' /\ AppliedOnce'
  BY DEF IInv, FallbackFresh, AppliedOnce
<1>10. RecoverWaits'
  BY <1>2 DEF RecoverWaits
<1>11. LegacyEmpty'
  BY <1>1, <1>2 DEF IInv, LegacyEmpty
<1> QED BY <1>5, <1>6, <1>7, <1>8, <1>9, <1>10, <1>11 DEF IInv
-----------------------------------------------------------------------------
(* Control packets. *)

\* What the invariant says of the types, in the form the lemmas above take.
LEMMA InvTyped ==
  ASSUME IInv PROVE SessionTyped
BY DEF IInv, TypeOK, SessionTyped

\* Discarding the suffix, whatever is in flight (then nothing is discarded).
LEMMA DiscardStep ==
  ASSUME IInv, RecoveryOK(ledger), ledger' = Discard(ledger), stage' = "RECOVER",
         UNCHANGED <<flight, log, base>>, SessionTyped', flight.kind # "fallback"
  PROVE  IInv'
<1>1. ledger \in Seq(Entries)
  BY DEF IInv, TypeOK, Entries
<1>2. /\ ledger' \in Seq(Entries) /\ SameUpdates(ledger, ledger')
      /\ \A i \in DOMAIN ledger : IF Emitted(ledger[i]) THEN ledger'[i] = ledger[i]
                                  ELSE ledger'[i].state = "DISCARDED"
  BY <1>1, DiscardKeeps
<1>3. \A i \in DOMAIN ledger : Emitted(ledger[i]) \/ ledger[i].state \in IdleStates
  BY DEF RecoveryOK
<1>4. \A i \in DOMAIN ledger :
        \/ ledger'[i] = ledger[i]
        \/ ledger[i].state \in IdleStates /\ ledger'[i].state \in IdleStates
  BY <1>2, <1>3 DEF IdleStates
<1>5. \A i \in DOMAIN ledger :
        Emitted(ledger'[i]) \/ ledger'[i].state \in {"DISCARDED", "REPLAY_IN_FLIGHT"}
  BY <1>2
<1> QED BY <1>2, <1>4, <1>5, IdleStep

\* Falling back keeps the invariant: the ledger is empty, or kept for replay.
LEMMA ForceLegacyStep ==
  ASSUME IInv, Control, UNCHANGED epoch, ForceLegacy
  PROVE  IInv'
<1>1. flight = NoFlight /\ UNCHANGED <<flight, log>> /\ SessionTyped /\ flight.kind # "fallback"
  BY InvTyped DEF Control, NoFlight
<1>2. CASE EnterLegacy
  <2>1. SessionTyped' /\ ClearLedger
    BY <1>1, <1>2 DEF EnterLegacy, SessionTyped, Stages
  <2> QED BY <1>1, <2>1, ClearStep
<1>3. CASE ~EnterLegacy
  <2>1. ledger' = Discard(ledger) /\ stage' = "RECOVER" /\ UNCHANGED base /\ SessionTyped'
    BY <1>1, <1>3, NoFlightRecovery DEF ForceLegacy, SessionTyped, Stages
  <2> QED BY <1>1, <2>1, NoFlightRecovery, DiscardStep
<1> QED BY <1>2, <1>3

\* So does a recovery that falls back when it is refused.
LEMMA RecoverOrForceStep ==
  ASSUME IInv, Control, UNCHANGED epoch, RecoverOrForce
  PROVE  IInv'
<1>1. flight = NoFlight /\ UNCHANGED <<flight, log>> /\ SessionTyped /\ flight.kind # "fallback"
  BY InvTyped DEF Control, NoFlight
<1>2. ledger' = Discard(ledger) /\ stage' = "RECOVER" /\ UNCHANGED base /\ SessionTyped'
  BY <1>1, NoFlightRecovery DEF RecoverOrForce, SessionTyped, Stages
<1> QED BY <1>1, <1>2, NoFlightRecovery, DiscardStep

\* Clearing the ledger in a control packet.
LEMMA ControlClear ==
  ASSUME IInv, Control, ClearLedger, SessionTyped'
  PROVE  IInv'
BY ClearStep DEF Control

\* Every control packet keeps the invariant.
LEMMA ControlStep ==
  ASSUME IInv, ControlPacket
  PROVE  IInv'
<1> USE InvTyped DEF SessionTyped, Stages
<1>1. CASE Negotiate
  <2>1. ClearLedger /\ Control /\ epoch' \in 0 .. MaxEpoch
    BY <1>1, LedgerAssumption DEF Negotiate, EnterLegacy
  <2>2. CASE EnterLegacy
    BY <2>1, <2>2, ControlClear DEF EnterLegacy
  <2>3. CASE ~EnterLegacy
    <3>1. PICK p \in PeerCaps :
            /\ caps' = Normalize(p)
            /\ negotiated' = (Normalize(p) # {}) /\ legacy' = (Normalize(p) = {})
            /\ stage' = IF Normalize(p) = {} THEN "LEGACY" ELSE "DETECT"
      BY <1>1, <2>3 DEF Negotiate
    <3>2. caps' \subseteq {"PROGRESSIVE", "LEDGER", "DIRECT"}
      BY <3>1, LedgerAssumption DEF Normalize
    <3> QED BY <2>1, <3>1, <3>2, ControlClear
  <2> QED BY <2>2, <2>3
<1>2. ASSUME NEW found \in BOOLEAN, NoteInterval(found) PROVE IInv'
  <2>1. CASE Ready
    BY <1>2, <2>1, StageStep DEF NoteInterval, Control
  <2> QED BY <1>2, <2>1, ForceLegacyStep DEF NoteInterval
<1>3. ASSUME NEW from \in {"LEARN", "MATCH"}, NEW to \in {"MATCH", "FAST"}, NEW ok \in BOOLEAN,
             Advance(from, to, ok)
      PROVE  IInv'
  <2>1. CASE CanProgress /\ stage = from /\ ok
    BY <1>3, <2>1, StageStep DEF Advance, Control
  <2> QED BY <1>3, <2>1, ForceLegacyStep, RecoverOrForceStep DEF Advance
<1>4. CASE LearnComplete
  BY <1>3, <1>4 DEF LearnComplete
<1>5. ASSUME NEW ok \in BOOLEAN, MatchComplete(ok) PROVE IInv'
  BY <1>3, <1>5 DEF MatchComplete
<1>6. ASSUME NEW ok \in BOOLEAN, FastPeriodComplete(ok) PROVE IInv'
  <2>1. CASE ClearLedger /\ UNCHANGED session
    BY <1>6, <2>1, ControlClear DEF FastPeriodComplete, session
  <2> QED BY <1>6, <2>1, ForceLegacyStep, RecoverOrForceStep DEF FastPeriodComplete
<1>7. CASE Mismatch
  BY <1>7, ForceLegacyStep, RecoverOrForceStep DEF Mismatch
<1>8. CASE RecoveryComplete
  <2>1. CASE ForceLegacy
    BY <1>8, <2>1, ForceLegacyStep DEF RecoveryComplete
  <2>2. CASE ~ForceLegacy
    BY <1>8, <2>2, ControlClear DEF RecoveryComplete
  <2> QED BY <2>1, <2>2
<1>9. CASE WireError
  BY <1>9, ForceLegacyStep DEF WireError
<1>10. CASE SessionReset
  BY <1>10, ControlClear, LedgerAssumption DEF SessionReset
<1>11. CASE SessionTeardown
  <2>1. Control /\ EnterLegacy /\ epoch' \in 0 .. MaxEpoch
    BY <1>11, LedgerAssumption DEF SessionTeardown
  <2> QED BY <2>1, ControlClear DEF EnterLegacy
<1> QED
  BY <1>1, <1>2, <1>4, <1>5, <1>6, <1>7, <1>8, <1>9, <1>10, <1>11 DEF ControlPacket
-----------------------------------------------------------------------------
(* Ledger operations. *)

\* The parts of the invariant the ledger operations use.
LEMMA InvFacts ==
  ASSUME IInv
  PROVE  /\ ledger \in Seq(Entries) /\ Unique(ledger)
         /\ DOMAIN ledger = 1 .. Len(ledger) /\ Len(ledger) \in Nat
         /\ \A i \in DOMAIN ledger : ledger[i] \in Entries /\ ledger[i].state \in LedgerStates
         /\ log \in Seq(UpdateIds) /\ base \in 0 .. Len(log) /\ Len(log) \in Nat
         /\ Applied \in Nat /\ base + Applied = Len(log)
         /\ ledger # <<>> => flight.kind # "fallback"
<1>1. ledger \in Seq(Entries) /\ log \in Seq(UpdateIds) /\ base \in 0 .. Len(log)
  BY DEF IInv, TypeOK, Entries
<1>2. \A i \in DOMAIN ledger : ledger[i] \in Entries
  BY <1>1
<1>3. Unique(ledger)
  BY DEF IInv, UniqueIds, Unique
<1>4. ledger # <<>> => flight.kind # "fallback"
  BY DEF IInv, LegacyEmpty
<1> QED BY <1>1, <1>2, <1>3, <1>4 DEF Applied, Entries

\* A longer ledger is searched like the one it extends.
LEMMA ExtendAt ==
  ASSUME NEW L, NEW M, Unique(M), DOMAIN L \subseteq DOMAIN M,
         \A i \in DOMAIN L : M[i].id = L[i].id
  PROVE  \A u : Has(L, u) => Has(M, u) /\ At(M, u) = At(L, u) /\ At(L, u) \in DOMAIN L
<1> SUFFICES ASSUME NEW u, Has(L, u)
             PROVE  Has(M, u) /\ At(M, u) = At(L, u) /\ At(L, u) \in DOMAIN L
  OBVIOUS
<1>1. At(L, u) \in DOMAIN L /\ L[At(L, u)].id = u
  BY AtFinds
<1>2. At(L, u) \in DOMAIN M /\ M[At(L, u)].id = u
  BY <1>1
<1> QED BY <1>1, <1>2, AtIsPosition

\* With everything before it done and itself not, an entry is the next to be
\* applied, and its update is not in the log.
LEMMA NextPosition ==
  ASSUME IInv, NEW p \in DOMAIN ledger, ~Done(p), \A q \in 1 .. p - 1 : Done(q)
  PROVE  /\ p = Applied + 1
         /\ \A i \in DOMAIN log : log[i] # ledger[p].id
<1> USE InvFacts
<1>1. flight.kind # "fallback" /\ AppliedPrefix
  BY DEF IInv
<1>2. \A i \in DOMAIN ledger : i <= Applied <=> Done(i)
  BY <1>1 DEF AppliedPrefix
<1>3. p > Applied
  BY <1>2
<1>4. p - 1 <= Applied
  <2>1. CASE p = 1
    BY <2>1
  <2>2. CASE p # 1
    BY <1>2, <2>2
  <2> QED BY <2>1, <2>2
<1>5. p = Applied + 1
  BY <1>3, <1>4
<1>6. ASSUME NEW i \in DOMAIN log PROVE log[i] # ledger[p].id
  <2>1. CASE i <= base
    BY <2>1 DEF IInv, UniqueIds, Fresh
  <2>2. CASE i > base
    <3> DEFINE q == i - base
    <3>1. q \in 1 .. Applied /\ i = base + q
      BY <2>2
    <3>2. log[i] = ledger[q].id /\ q \in DOMAIN ledger
      BY <1>1, <3>1 DEF AppliedPrefix
    <3>3. q # p
      BY <1>5, <3>1
    <3> QED BY <3>2, <3>3 DEF Unique
  <2> QED BY <2>1, <2>2
<1> QED BY <1>5, <1>6

\* A batch keeps its order in a ledger that extends this one and has emitted
\* at least as much.
LEMMA OvertakingKeeps ==
  ASSUME NEW L, NEW M, NEW ids, NEW n \in Nat, NEW m \in Nat,
         DOMAIN ids = 1 .. m, DOMAIN L = 1 .. n,
         \A k \in DOMAIN ids : Has(L, ids[k]),
         \A u : Has(L, u) => Has(M, u) /\ At(M, u) = At(L, u) /\ At(L, u) \in DOMAIN L,
         \A i \in DOMAIN L : M[i].id = L[i].id /\ (Emitted(L[i]) => Emitted(M[i])),
         NoOvertaking(L, ids)
  PROVE  NoOvertaking(M, ids)
<1> SUFFICES ASSUME NEW k \in DOMAIN ids
             PROVE  /\ \A j \in 1 .. k - 1 :
                         Has(M, ids[j]) /\ At(M, ids[j]) < At(M, ids[k])
                    /\ \A p \in 1 .. At(M, ids[k]) - 1 :
                         Emitted(M[p]) \/ \E j \in 1 .. k - 1 : ids[j] = M[p].id
  BY DEF NoOvertaking
<1>1. Has(L, ids[k]) /\ At(M, ids[k]) = At(L, ids[k]) /\ At(L, ids[k]) \in DOMAIN L
  OBVIOUS
<1>2. \A j \in 1 .. k - 1 : j \in DOMAIN ids
  OBVIOUS
<1>3. ASSUME NEW j \in 1 .. k - 1
      PROVE  Has(M, ids[j]) /\ At(M, ids[j]) < At(M, ids[k])
  BY <1>1, <1>2 DEF NoOvertaking
<1>4. ASSUME NEW p \in 1 .. At(M, ids[k]) - 1
      PROVE  Emitted(M[p]) \/ \E j \in 1 .. k - 1 : ids[j] = M[p].id
  <2>1. p \in DOMAIN L
    BY <1>1
  <2>2. Emitted(L[p]) \/ \E j \in 1 .. k - 1 : ids[j] = L[p].id
    BY <1>1 DEF NoOvertaking
  <2> QED BY <2>1, <2>2
<1> QED BY <1>3, <1>4

\* So it does when only states change and nothing emitted is taken back.
LEMMA StatesOvertaking ==
  ASSUME NEW L \in Seq(Entries), NEW M \in Seq(Entries), SameUpdates(L, M), Unique(L),
         NEW ids \in Seq(UpdateIds), \A k \in DOMAIN ids : Has(L, ids[k]),
         \A i \in DOMAIN L : Emitted(L[i]) => Emitted(M[i]),
         NoOvertaking(L, ids)
  PROVE  NoOvertaking(M, ids)
<1>1. \A u : Has(L, u) => Has(M, u) /\ At(M, u) = At(L, u) /\ At(L, u) \in DOMAIN L
  BY SameAt, AtFinds
<1>2. \A i \in DOMAIN L : M[i].id = L[i].id /\ (Emitted(L[i]) => Emitted(M[i]))
  BY DEF SameUpdates
<1>3. /\ DOMAIN L = 1 .. Len(L) /\ Len(L) \in Nat
      /\ DOMAIN ids = 1 .. Len(ids) /\ Len(ids) \in Nat
  OBVIOUS
<1> QED BY <1>1, <1>2, <1>3, OvertakingKeeps

\* A prepared update enters behind everything else and was never applied.
LEMMA PrepareStep ==
  ASSUME IInv, NEW u \in UpdateIds, NEW s \in SubmissionIds, Prepare(u, s)
  PROVE  IInv'
<1> DEFINE e == Entry(u, s, "PREPARED")
<1>0. PICK n \in Nat : n = Len(ledger) + 1
  BY InvFacts
<1>1. /\ ~Has(ledger, u) /\ Fresh(u) /\ Len(ledger) < MaxLedgerEntries
      /\ ledger' = Append(ledger, e) /\ UNCHANGED <<session, flight, log, base, epoch>>
      /\ stage \in Learned
  BY DEF Prepare
<1>2. e \in Entries /\ e.id = u /\ e.state = "PREPARED"
  BY DEF Entry, Entries, LedgerStates, IdleStates
<1> HIDE DEF e
<1>a. /\ ledger \in Seq(Entries) /\ Unique(ledger) /\ Applied \in Nat
      /\ DOMAIN ledger = 1 .. Len(ledger) /\ Len(ledger) \in Nat
  BY InvFacts
<1>3. /\ ledger' \in Seq(Entries) /\ Len(ledger') = n /\ DOMAIN ledger' = 1 .. n
      /\ ledger'[n] = e /\ \A i \in DOMAIN ledger : ledger'[i] = ledger[i]
  BY <1>0, <1>1, <1>2, <1>a
<1>4. \A i \in DOMAIN ledger' : i \in DOMAIN ledger \/ i = n
  BY <1>0, <1>3, <1>a
<1>5. \A i \in DOMAIN ledger : ledger[i].id # u
  BY <1>1 DEF Has
<1>6. Unique(ledger')
  BY <1>2, <1>3, <1>4, <1>5, <1>a DEF Unique
<1>7. \A v : Has(ledger, v) => Has(ledger', v) /\ At(ledger', v) = At(ledger, v)
                               /\ At(ledger, v) \in DOMAIN ledger
  <2>1. DOMAIN ledger \subseteq DOMAIN ledger'
    BY <1>0, <1>3, <1>a
  <2>2. \A i \in DOMAIN ledger : ledger'[i].id = ledger[i].id
    BY <1>3
  <2> QED BY <1>6, <2>1, <2>2, ExtendAt
<1>8. stage \notin {"LEGACY", "RECOVER"} /\ flight.kind # "fallback"
  BY <1>1 DEF Learned, IInv, LegacyEmpty
<1>9. TypeOK'
  BY <1>0, <1>1, <1>3, <1>a, LedgerAssumption DEF IInv, TypeOK, session, Entries
<1>10. UniqueIds'
  BY <1>1, <1>2, <1>3, <1>4, <1>6 DEF IInv, UniqueIds, Unique, Fresh
<1>11. Batch => /\ CompletionOK(ledger, flight.ids, flight.mask, InFlightOf(flight.kind))
                /\ NoOvertaking(ledger, flight.ids)
                /\ Len(flight.ids) \in Nat /\ DOMAIN flight.ids = 1 .. Len(flight.ids)
                /\ flight.next \in 1 .. Len(flight.ids) + 1
  BY FlightKinds DEF IInv, BatchInOrder, Batch
<1>12. AppliedPrefix'
  <2>1. AppliedPrefix
    BY DEF IInv
  <2>2. Applied' = Applied /\ UNCHANGED <<flight, log, base>>
    BY <1>1 DEF Applied
  <2>3. \A i \in DOMAIN ledger : Done(i)' <=> Done(i)
    BY <1>1, <1>3 DEF Done, Batch
  <2>4. ~Done(n)'
    <3>1. ~Emitted(ledger'[n])
      BY <1>2, <1>3 DEF Emitted, EmittedStates
    <3>2. ASSUME Batch, NEW k \in 1 .. flight.next - 1 PROVE flight.ids[k] # ledger'[n].id
      <4>1. k \in DOMAIN flight.ids
        BY <1>11, <3>2
      <4> QED BY <1>1, <1>2, <1>3, <1>11, <3>2, <4>1 DEF CompletionOK
    <3> QED BY <2>2, <3>1, <3>2 DEF Done, Batch
  <2>5. Applied <= Len(ledger) /\ \A i \in 1 .. Applied : i \in DOMAIN ledger
    BY <1>8, <1>a, <2>1 DEF AppliedPrefix
  <2>6. Applied' <= Len(ledger') /\ \A i \in 1 .. Applied' : ledger'[i].id = log'[base' + i]
    BY <1>0, <1>3, <1>8, <1>a, <2>1, <2>2, <2>5 DEF AppliedPrefix
  <2>7. \A i \in DOMAIN ledger' : i <= Applied' <=> Done(i)'
    BY <1>0, <1>4, <1>8, <1>a, <2>1, <2>2, <2>3, <2>4, <2>5 DEF AppliedPrefix
  <2> QED BY <2>6, <2>7 DEF AppliedPrefix
<1>13. BatchInOrder'
  <2>1. ASSUME NEW i \in DOMAIN ledger', ledger'[i].state \in InFlightStates
        PROVE  Batch /\ \E k \in DOMAIN flight.ids :
                          flight.mask[k] /\ flight.ids[k] = ledger'[i].id
    <3>1. i \in DOMAIN ledger
      BY <1>2, <1>3, <1>4, <2>1 DEF InFlightStates
    <3> QED BY <1>3, <2>1, <3>1 DEF IInv, BatchInOrder
  <2>2. ASSUME Batch
        PROVE  CompletionOK(ledger', flight.ids, flight.mask, InFlightOf(flight.kind))
    BY <1>3, <1>7, <1>11, <2>2 DEF CompletionOK
  <2>3. ASSUME Batch PROVE NoOvertaking(ledger', flight.ids)
    <3>1. \A k \in DOMAIN flight.ids : Has(ledger, flight.ids[k])
      BY <1>11, <2>3 DEF CompletionOK
    <3> QED BY <1>3, <1>7, <1>11, <1>a, <2>3, <3>1, OvertakingKeeps
  <2> QED BY <1>1, <2>1, <2>2, <2>3 DEF BatchInOrder, Batch
<1>14. FallbackFresh' /\ RecoverWaits' /\ LegacyEmpty' /\ AppliedOnce'
  BY <1>1, <1>8 DEF FallbackFresh, RecoverWaits, LegacyEmpty, session, IInv, AppliedOnce
<1> QED BY <1>9, <1>10, <1>12, <1>13, <1>14 DEF IInv

\* Marking an entry ready moves nothing that is emitted or in flight.
LEMMA MarkReadyStep ==
  ASSUME IInv, NEW u \in UpdateIds, MarkReady(u)
  PROVE  IInv'
<1>1. PICK p \in DOMAIN ledger : p = At(ledger, u)
  BY AtFinds DEF MarkReady
<1>2. ledger' = SetState(ledger, p, "READY") /\ ledger[p].state = "PREPARED"
      /\ UNCHANGED <<session, flight, log, base, epoch>>
  BY <1>1 DEF MarkReady
<1>a. ledger \in Seq(Entries) /\ "READY" \in LedgerStates
  BY InvFacts DEF LedgerStates, IdleStates
<1>3. /\ ledger' \in Seq(Entries) /\ SameUpdates(ledger, ledger') /\ ledger'[p].state = "READY"
      /\ \A i \in DOMAIN ledger : i # p => ledger'[i] = ledger[i]
  BY <1>1, <1>2, <1>a, SetStateKeeps
<1>4. stage # "RECOVER"
  BY <1>1, <1>2 DEF IInv, RecoverWaits, Emitted, EmittedStates
<1>5. SessionTyped' /\ flight.kind # "fallback"
  BY <1>1, <1>2, <1>a, InvTyped, InvFacts DEF SessionTyped, session
<1>6. \A i \in DOMAIN ledger :
        \/ ledger'[i] = ledger[i]
        \/ ledger[i].state \in IdleStates /\ ledger'[i].state \in IdleStates
  BY <1>1, <1>2, <1>3 DEF IdleStates
<1>7. UNCHANGED <<stage, flight, log, base>>
  BY <1>2 DEF session
<1> QED BY <1>3, <1>4, <1>5, <1>6, <1>7, IdleStep

\* Both begins at once: W is the ledger the batch is taken from, with the
\* unknown updates of a replay appended.
LEMMA BeginStep ==
  ASSUME IInv, flight = NoFlight, NEW kind \in {"release", "replay"},
         NEW ids \in Seq(UpdateIds), NEW W \in Seq(Entries), Unique(W),
         Len(ledger) <= Len(W), Len(W) <= MaxLedgerEntries,
         \A i \in DOMAIN ledger : W[i] = ledger[i],
         \A i \in DOMAIN W : Fresh(W[i].id),
         \A i \in DOMAIN W : i \notin DOMAIN ledger => W[i].state = "REPLAY_IN_FLIGHT",
         \A i \in DOMAIN W : i \notin DOMAIN ledger =>
           \E k \in DOMAIN ids : ids[k] = W[i].id /\ ~Has(ledger, ids[k]),
         \A k \in DOMAIN ids : Has(W, ids[k]),
         NoOvertaking(W, ids),
         stage = "LEGACY" => W = <<>>,
         stage = "RECOVER" => kind = "replay" \/ \A k \in DOMAIN ids : ~EmitMask(ledger, ids)[k],
         flight' = Reservation(kind, ids, EmitMask(ledger, ids)),
         ledger' = SetStates(W, ids, EmitMask(ledger, ids), InFlightOf(kind)),
         UNCHANGED <<session, log, base, epoch>>
  PROVE  IInv'
<1> DEFINE mask == EmitMask(ledger, ids)
           st == InFlightOf(kind)
           Chosen(i) == \E k \in DOMAIN ids : mask[k] /\ ids[k] = W[i].id
<1>1. /\ ledger \in Seq(Entries) /\ Unique(ledger) /\ Applied \in Nat
      /\ DOMAIN ledger = 1 .. Len(ledger) /\ Len(ledger) \in Nat
      /\ DOMAIN W = 1 .. Len(W) /\ Len(W) \in Nat
      /\ DOMAIN ids = 1 .. Len(ids) /\ Len(ids) \in Nat
      /\ \A i \in DOMAIN ledger : ledger[i].state \in LedgerStates
  BY InvFacts
<1>2. st \in InFlightStates /\ st \in LedgerStates
  BY DEF InFlightOf, InFlightStates, LedgerStates
<1>3. /\ flight'.kind = kind /\ flight'.ids = ids /\ flight'.mask = mask /\ flight'.next = 1
      /\ flight' # NoFlight /\ mask \in Seq(BOOLEAN) /\ DOMAIN mask = DOMAIN ids
      /\ flight' = [kind |-> kind, ids |-> ids, mask |-> mask, next |-> 1]
      /\ Batch'
  BY MaskIsSeq DEF Reservation, NoFlight, Batch
<1> HIDE DEF Chosen
<1>4. /\ ledger' \in Seq(Entries) /\ SameUpdates(W, ledger')
      /\ \A i \in DOMAIN W : IF Chosen(i) THEN ledger'[i].state = st ELSE ledger'[i] = W[i]
  BY <1>2, SetStatesKeeps DEF Chosen
<1>5. /\ DOMAIN ledger' = DOMAIN W /\ Unique(ledger') /\ Len(ledger') = Len(W)
      /\ \A u : Has(ledger', u) <=> Has(W, u)
      /\ \A u : Has(W, u) => At(ledger', u) = At(W, u)
  BY <1>4, SameAt DEF SameUpdates
<1>6. DOMAIN ledger \subseteq DOMAIN W
  BY <1>1
<1>7. \A u : Has(ledger, u) => At(W, u) = At(ledger, u) /\ At(ledger, u) \in DOMAIN ledger
  BY <1>6, ExtendAt
<1>8. \A u : Has(W, u) => At(W, u) \in DOMAIN W /\ W[At(W, u)].id = u
  BY AtFinds
<1>9. \A i \in DOMAIN ledger : Has(ledger, ledger[i].id) /\ At(ledger, ledger[i].id) = i
  BY <1>1, AtIsPosition
<1>10. \A k \in DOMAIN ids : mask[k] <=> (~Has(ledger, ids[k]) \/ ~Emitted(ledger[At(ledger, ids[k])]))
  BY DEF EmitMask
<1> HIDE DEF mask, st
<1>11. \A i \in DOMAIN W : Chosen(i) => ~Emitted(W[i])
  <2> SUFFICES ASSUME NEW i \in DOMAIN W, NEW k \in DOMAIN ids, mask[k], ids[k] = W[i].id
               PROVE  ~Emitted(W[i])
    BY DEF Chosen
  <2>1. CASE i \in DOMAIN ledger
    <3>1. Has(ledger, ids[k]) /\ At(ledger, ids[k]) = i /\ W[i] = ledger[i]
      BY <1>9, <2>1
    <3> QED BY <1>10, <3>1
  <2>2. CASE i \notin DOMAIN ledger
    BY <2>2 DEF Emitted, EmittedStates
  <2> QED BY <2>1, <2>2
<1>12. \A i \in DOMAIN W : Emitted(ledger'[i]) <=> Emitted(W[i])
  BY <1>2, <1>4, <1>11 DEF Emitted, EmittedStates, InFlightStates
<1>13. \A i \in DOMAIN W : i \notin DOMAIN ledger => Chosen(i)
  BY <1>10 DEF Chosen
<1>14. TypeOK'
  <2>1. flight' \in [kind : {"release", "replay", "fallback"},
                     ids : Seq(UpdateIds), mask : Seq(BOOLEAN), next : Nat]
    BY <1>3
  <2>2. flight'.next \in 1 .. Len(flight'.ids) + 1
    BY <1>1, <1>3
  <2> QED BY <1>3, <1>4, <1>5, <2>1, <2>2 DEF IInv, TypeOK, session, Entries
<1>15. UniqueIds'
  BY <1>4, <1>5 DEF IInv, UniqueIds, Unique, Fresh, SameUpdates
<1>16. AppliedPrefix'
  <2>1. flight.kind = "none" /\ AppliedPrefix
    BY DEF IInv, NoFlight
  <2>2. \A i \in DOMAIN ledger : i <= Applied <=> Emitted(ledger[i])
    BY <2>1 DEF AppliedPrefix, Done, Batch
  <2>3. Applied' = Applied /\ UNCHANGED <<log, base>>
    BY DEF Applied
  <2>4. Applied <= Len(ledger) /\ \A i \in 1 .. Applied : i \in DOMAIN ledger
    BY <1>1, <2>1 DEF AppliedPrefix
  <2>5. Applied' <= Len(ledger') /\ \A i \in 1 .. Applied' : ledger'[i].id = log'[base' + i]
    BY <1>1, <1>4, <1>5, <1>6, <2>1, <2>3, <2>4 DEF AppliedPrefix, SameUpdates
  <2>6. \A i \in DOMAIN ledger' : Done(i)' <=> Emitted(ledger'[i])
    BY <1>3 DEF Done
  <2>7. \A i \in DOMAIN ledger' : i <= Applied <=> Emitted(ledger'[i])
    <3> TAKE i \in DOMAIN ledger'
    <3>1. CASE i \in DOMAIN ledger
      BY <1>5, <1>12, <2>2, <3>1
    <3>2. CASE i \notin DOMAIN ledger
      BY <1>1, <1>5, <1>11, <1>12, <1>13, <2>4, <3>2
    <3> QED BY <3>1, <3>2
  <2> QED BY <2>3, <2>5, <2>6, <2>7 DEF AppliedPrefix
<1>17. BatchInOrder'
  <2>1. ASSUME NEW i \in DOMAIN ledger', ledger'[i].state \in InFlightStates
        PROVE  \E k \in DOMAIN ids : mask[k] /\ ids[k] = ledger'[i].id
    <3>1. CASE Chosen(i)
      BY <1>4, <1>5, <3>1 DEF Chosen, SameUpdates
    <3>2. CASE ~Chosen(i)
      <4>1. i \in DOMAIN ledger /\ ledger'[i] = ledger[i]
        BY <1>4, <1>5, <1>13, <3>2
      <4> QED BY <2>1, <4>1 DEF IInv, BatchInOrder, Batch, NoFlight
    <3> QED BY <3>1, <3>2
  <2>2. CompletionOK(ledger', ids, mask, st)
    <3> SUFFICES ASSUME NEW k \in DOMAIN ids
                 PROVE  /\ Has(ledger', ids[k])
                        /\ IF mask[k] THEN ledger'[At(ledger', ids[k])].state = st
                           ELSE Emitted(ledger'[At(ledger', ids[k])])
      BY DEF CompletionOK
    <3>1. Has(W, ids[k]) /\ At(ledger', ids[k]) = At(W, ids[k]) /\ Has(ledger', ids[k])
      BY <1>5
    <3>2. CASE mask[k]
      BY <1>4, <1>8, <3>1, <3>2 DEF Chosen
    <3>3. CASE ~mask[k]
      <4>1. Has(ledger, ids[k]) /\ Emitted(ledger[At(ledger, ids[k])])
        BY <1>10, <3>3
      <4> QED BY <1>6, <1>7, <1>12, <3>1, <3>3, <4>1
    <3> QED BY <3>1, <3>2, <3>3
  <2>3. NoOvertaking(ledger', ids)
    <3>1. \A i \in DOMAIN W : Emitted(W[i]) => Emitted(ledger'[i])
      BY <1>12
    <3> QED BY <1>4, <3>1, StatesOvertaking
  <2> QED BY <1>3, <2>1, <2>2, <2>3 DEF BatchInOrder, st
<1>18. RecoverWaits'
  <2> SUFFICES ASSUME stage = "RECOVER", NEW i \in DOMAIN W
               PROVE  Emitted(ledger'[i]) \/ ledger'[i].state \in {"DISCARDED", "REPLAY_IN_FLIGHT"}
    BY <1>5 DEF RecoverWaits, session
  <2>1. CASE Chosen(i)
    BY <1>4, <2>1 DEF Chosen, st, InFlightOf, mask
  <2>2. CASE ~Chosen(i)
    BY <1>4, <1>13, <2>2 DEF IInv, RecoverWaits
  <2> QED BY <2>1, <2>2
<1>19. LegacyEmpty' /\ FallbackFresh' /\ AppliedOnce'
  BY <1>1, <1>3, <1>4, <1>5 DEF LegacyEmpty, FallbackFresh, AppliedOnce, IInv, session
<1> QED BY <1>14, <1>15, <1>16, <1>17, <1>18, <1>19 DEF IInv

\* Beginning a release takes entries right behind the emitted ones.
LEMMA BeginReleaseStep ==
  ASSUME IInv, NEW ids \in IdBatches, BeginReleaseBatch(ids)
  PROVE  IInv'
<1>1. /\ flight = NoFlight /\ ReleaseBatchOK(ledger, ids)
      /\ ledger' = SetStates(ledger, ids, EmitMask(ledger, ids), InFlightOf("release"))
      /\ flight' = Reservation("release", ids, EmitMask(ledger, ids))
      /\ UNCHANGED <<session, log, base, epoch>>
  BY DEF BeginReleaseBatch, InFlightOf
<1>2. /\ \A k \in DOMAIN ids : Has(ledger, ids[k])
      /\ NoOvertaking(ledger, ids)
      /\ Known(ledger, ids, EmittedStates \cup {"READY"})
  BY <1>1 DEF ReleaseBatchOK
<1>3. /\ ids \in Seq(UpdateIds) /\ ledger \in Seq(Entries) /\ Unique(ledger)
      /\ Len(ledger) <= Len(ledger) /\ Len(ledger) <= MaxLedgerEntries
      /\ \A i \in DOMAIN ledger : Fresh(ledger[i].id)
      /\ stage = "LEGACY" => ledger = <<>>
  BY BatchIsSeq, InvFacts DEF IInv, TypeOK, UniqueIds, LegacyEmpty
<1>4. ASSUME stage = "RECOVER", NEW k \in DOMAIN ids
      PROVE  ~EmitMask(ledger, ids)[k]
  <2>1. At(ledger, ids[k]) \in DOMAIN ledger /\ Has(ledger, ids[k])
    BY <1>2, AtFinds
  <2>2. Emitted(ledger[At(ledger, ids[k])])
        \/ ledger[At(ledger, ids[k])].state \in {"DISCARDED", "REPLAY_IN_FLIGHT"}
    BY <1>4, <2>1 DEF IInv, RecoverWaits
  <2>3. ledger[At(ledger, ids[k])].state \in EmittedStates \cup {"READY"}
    BY <1>2, <2>1 DEF Known
  <2>4. Emitted(ledger[At(ledger, ids[k])])
    BY <2>2, <2>3 DEF Emitted
  <2> QED BY <2>1, <2>4 DEF EmitMask
<1> QED BY <1>1, <1>2, <1>3, <1>4, BeginStep

\* W is the ledger with the ids of a replay from the n-th on appended, in
\* flight.
Extended(L, W, ids, n) ==
  /\ KnownFirst(L, ids, n) /\ W \in Seq(Entries) /\ Unique(W)
  /\ Len(W) = Len(L) + (Len(ids) - n)
  /\ \A i \in DOMAIN L : W[i] = L[i]
  /\ \A i \in DOMAIN W : i \notin DOMAIN L =>
       /\ n + (i - Len(L)) \in DOMAIN ids
       /\ W[i].id = ids[n + (i - Len(L))]
       /\ W[i].state = "REPLAY_IN_FLIGHT"
       /\ ~Has(L, ids[n + (i - Len(L))])
  /\ \A k \in DOMAIN ids : k > n => Has(W, ids[k]) /\ At(W, ids[k]) = Len(L) + (k - n)
  /\ \A k \in DOMAIN ids : Has(W, ids[k])

\* That is what a replay makes of it before the batch is marked.
LEMMA MissingIs ==
  ASSUME NEW L \in Seq(Entries), Unique(L), NEW ids \in Seq(UpdateIds),
         NEW subs \in [DOMAIN ids -> SubmissionIds],
         NEW limit \in Nat, ReplayBatchOK(L, ids, subs, limit)
  PROVE  \E n \in 0 .. Len(ids) :
           /\ Extended(L, WithMissing(L, ids, subs), ids, n)
           /\ Len(WithMissing(L, ids, subs)) <= limit
<1>1. PICK W : W = WithMissing(L, ids, subs)
  OBVIOUS
<1>2. Distinct(ids)
  BY DEF ReplayBatchOK
<1>3. /\ DOMAIN ids = 1 .. Len(ids) /\ Len(ids) \in Nat
      /\ DOMAIN L = 1 .. Len(L) /\ Len(L) \in Nat
  OBVIOUS
<1>4. PICK n \in 0 .. Len(ids) :
        /\ KnownFirst(L, ids, n)
        /\ W \in Seq(Entries)
        /\ Len(W) = Len(L) + (Len(ids) - n)
        /\ Len(W) <= limit
        /\ \A i \in DOMAIN L : W[i] = L[i]
        /\ \A k \in 1 .. Len(ids) - n :
             W[Len(L) + k] = Entry(ids[n + k], subs[n + k], "REPLAY_IN_FLIGHT")
  <2>1. \E n \in 0 .. Len(ids) :
          /\ KnownFirst(L, ids, n)
          /\ WithMissing(L, ids, subs) \in Seq(Entries)
          /\ Len(WithMissing(L, ids, subs)) = Len(L) + (Len(ids) - n)
          /\ Len(WithMissing(L, ids, subs)) <= limit
          /\ \A i \in DOMAIN L : WithMissing(L, ids, subs)[i] = L[i]
          /\ \A k \in 1 .. Len(ids) - n :
               WithMissing(L, ids, subs)[Len(L) + k] =
                 Entry(ids[n + k], subs[n + k], "REPLAY_IN_FLIGHT")
    BY MissingKeeps
  <2> QED BY <1>1, <2>1
<1>5. DOMAIN W = 1 .. Len(L) + (Len(ids) - n)
  BY <1>4
<1>6. \A i \in DOMAIN W : i \notin DOMAIN L =>
        /\ n + (i - Len(L)) \in DOMAIN ids
        /\ W[i].id = ids[n + (i - Len(L))]
        /\ W[i].state = "REPLAY_IN_FLIGHT"
        /\ ~Has(L, ids[n + (i - Len(L))])
  <2> SUFFICES ASSUME NEW i \in DOMAIN W, i \notin DOMAIN L
               PROVE  /\ n + (i - Len(L)) \in DOMAIN ids
                      /\ W[i].id = ids[n + (i - Len(L))]
                      /\ W[i].state = "REPLAY_IN_FLIGHT"
                      /\ ~Has(L, ids[n + (i - Len(L))])
    OBVIOUS
  <2>1. PICK k \in 1 .. Len(ids) - n : k = i - Len(L) /\ i = Len(L) + k
    <3>1. i \in Nat /\ i > Len(L) /\ i <= Len(L) + (Len(ids) - n)
      BY <1>3, <1>5
    <3>2. i - Len(L) \in 1 .. Len(ids) - n
          /\ i = Len(L) + (i - Len(L))
      BY <1>3, <3>1
    <3> QED BY <3>2
  <2>2. W[i] = Entry(ids[n + k], subs[n + k], "REPLAY_IN_FLIGHT")
    BY <1>4, <2>1
  <2>3. n + k \in DOMAIN ids /\ ~(n + k <= n)
    BY <1>3, <2>1
  <2>4. ~Has(L, ids[n + k])
    BY <1>4, <2>3 DEF KnownFirst
  <2>5. W[i].id = ids[n + k] /\ W[i].state = "REPLAY_IN_FLIGHT"
    BY <2>2 DEF Entry
  <2> QED BY <2>1, <2>3, <2>4, <2>5
<1>7. \A i \in DOMAIN L : Has(L, L[i].id)
  BY DEF Has
<1>8. Unique(W)
  <2> SUFFICES ASSUME NEW i \in DOMAIN W, NEW j \in DOMAIN W, W[i].id = W[j].id
               PROVE  i = j
    BY DEF Unique
  <2>1. CASE i \in DOMAIN L /\ j \in DOMAIN L
    BY <1>4, <2>1 DEF Unique
  <2>2. CASE i \in DOMAIN L /\ j \notin DOMAIN L
    BY <1>4, <1>6, <1>7, <2>2
  <2>3. CASE i \notin DOMAIN L /\ j \in DOMAIN L
    BY <1>4, <1>6, <1>7, <2>3
  <2>4. CASE i \notin DOMAIN L /\ j \notin DOMAIN L
    <3>1. n + (i - Len(L)) = n + (j - Len(L))
      BY <1>2, <1>6, <2>4 DEF Distinct
    <3> QED BY <1>3, <1>5, <3>1
  <2> QED BY <2>1, <2>2, <2>3, <2>4
<1>9. DOMAIN L \subseteq DOMAIN W
  BY <1>3, <1>4, <1>5
<1>10. \A u : Has(L, u) => Has(W, u) /\ At(W, u) = At(L, u)
                                /\ At(L, u) \in DOMAIN L
  BY <1>4, <1>8, <1>9, ExtendAt
<1>11. \A k \in DOMAIN ids : k > n =>
         Has(W, ids[k]) /\ At(W, ids[k]) = Len(L) + (k - n)
  <2> SUFFICES ASSUME NEW k \in DOMAIN ids, k > n
               PROVE  Has(W, ids[k]) /\ At(W, ids[k]) = Len(L) + (k - n)
    OBVIOUS
  <2>1. PICK p \in DOMAIN W : p = Len(L) + (k - n) /\ p \notin DOMAIN L
    BY <1>3, <1>4, <1>5
  <2>2. W[p].id = ids[k]
    BY <1>3, <1>6, <2>1
  <2> QED BY <1>8, <2>1, <2>2, AtIsPosition
<1>12. \A k \in DOMAIN ids : k <= n => Has(L, ids[k])
  BY <1>4 DEF KnownFirst
<1>13. \A k \in DOMAIN ids : Has(W, ids[k])
  BY <1>3, <1>10, <1>11, <1>12
<1> QED BY <1>1, <1>4, <1>6, <1>8, <1>11, <1>13 DEF Extended

\* Beginning a replay does too, with unknown ids appended first.
LEMMA BeginReplayStep ==
  ASSUME IInv, NEW ids \in IdBatches, NEW subs \in [DOMAIN ids -> SubmissionIds],
         BeginReplayBatch(ids, subs)
  PROVE  IInv'
<1>0. PICK W : W = WithMissing(ledger, ids, subs)
  OBVIOUS
<1>1. /\ flight = NoFlight /\ stage = "RECOVER"
      /\ \A k \in DOMAIN ids : Fresh(ids[k])
      /\ ReplayBatchOK(ledger, ids, subs, MaxLedgerEntries)
      /\ ledger' = SetStates(W, ids, EmitMask(ledger, ids), InFlightOf("replay"))
      /\ flight' = Reservation("replay", ids, EmitMask(ledger, ids))
      /\ UNCHANGED <<session, log, base, epoch>>
  BY <1>0 DEF BeginReplayBatch, InFlightOf
<1>2. /\ Distinct(ids) /\ NoOvertaking(ledger, ids) /\ UnknownLast(ledger, ids)
  BY <1>1 DEF ReplayBatchOK
<1>3. /\ ids \in Seq(UpdateIds) /\ ledger \in Seq(Entries) /\ Unique(ledger)
      /\ DOMAIN ids = 1 .. Len(ids) /\ Len(ids) \in Nat
      /\ DOMAIN ledger = 1 .. Len(ledger) /\ Len(ledger) \in Nat
      /\ \A i \in DOMAIN ledger : Fresh(ledger[i].id)
  BY BatchIsSeq, InvFacts DEF IInv, UniqueIds
<1>4. PICK n \in 0 .. Len(ids) : Extended(ledger, W, ids, n) /\ Len(W) <= MaxLedgerEntries
  <2>1. MaxLedgerEntries \in Nat
    BY LedgerAssumption
  <2> QED BY <1>0, <1>1, <1>3, <2>1, MissingIs
<1>5. /\ KnownFirst(ledger, ids, n) /\ W \in Seq(Entries) /\ Unique(W)
      /\ Len(W) = Len(ledger) + (Len(ids) - n)
      /\ \A i \in DOMAIN ledger : W[i] = ledger[i]
      /\ \A i \in DOMAIN W : i \notin DOMAIN ledger =>
           /\ n + (i - Len(ledger)) \in DOMAIN ids
           /\ W[i].id = ids[n + (i - Len(ledger))]
           /\ W[i].state = "REPLAY_IN_FLIGHT"
           /\ ~Has(ledger, ids[n + (i - Len(ledger))])
      /\ \A k \in DOMAIN ids : k > n =>
           Has(W, ids[k]) /\ At(W, ids[k]) = Len(ledger) + (k - n)
      /\ \A k \in DOMAIN ids : Has(W, ids[k])
  BY <1>4 DEF Extended
<1>6. DOMAIN W = 1 .. Len(ledger) + (Len(ids) - n) /\ DOMAIN ledger \subseteq DOMAIN W
  BY <1>3, <1>5
<1>7. \A i \in DOMAIN W : Fresh(W[i].id)
  BY <1>1, <1>3, <1>5
<1>8. \A u : Has(ledger, u) => Has(W, u) /\ At(W, u) = At(ledger, u)
                                /\ At(ledger, u) \in DOMAIN ledger
  BY <1>5, <1>6, ExtendAt
<1>9. \A k \in DOMAIN ids : k <= n => Has(ledger, ids[k])
  BY <1>5 DEF KnownFirst
<1>10. NoOvertaking(W, ids)
  <2> SUFFICES ASSUME NEW k \in DOMAIN ids
               PROVE  /\ \A j \in 1 .. k - 1 :
                           Has(W, ids[j]) /\ At(W, ids[j]) < At(W, ids[k])
                      /\ \A p \in 1 .. At(W, ids[k]) - 1 :
                           Emitted(W[p]) \/ \E j \in 1 .. k - 1 : ids[j] = W[p].id
    BY DEF NoOvertaking
  <2>1. \A j \in 1 .. k - 1 : j \in DOMAIN ids
    BY <1>3
  <2>2. CASE k <= n
    <3>1. Has(ledger, ids[k]) /\ At(W, ids[k]) = At(ledger, ids[k])
          /\ At(ledger, ids[k]) \in DOMAIN ledger
      BY <1>8, <1>9, <2>2
    <3>2. \A j \in 1 .. k - 1 :
            Has(ledger, ids[j]) /\ At(ledger, ids[j]) < At(ledger, ids[k])
      BY <1>2, <3>1 DEF NoOvertaking
    <3>3. \A p \in 1 .. At(ledger, ids[k]) - 1 :
            Emitted(ledger[p]) \/ \E j \in 1 .. k - 1 : ids[j] = ledger[p].id
      BY <1>2, <3>1 DEF NoOvertaking
    <3>4. \A p \in 1 .. At(ledger, ids[k]) - 1 : W[p] = ledger[p]
      BY <1>3, <1>5, <3>1
    <3>5. \A j \in 1 .. k - 1 : Has(W, ids[j]) /\ At(W, ids[j]) < At(W, ids[k])
      BY <1>8, <3>1, <3>2
    <3> QED BY <3>1, <3>3, <3>4, <3>5
  <2>3. CASE k > n
    <3>1. At(W, ids[k]) = Len(ledger) + (k - n) /\ ~Has(ledger, ids[k])
      BY <1>5, <2>3 DEF KnownFirst
    <3>2. ASSUME NEW j \in 1 .. k - 1
          PROVE  Has(W, ids[j]) /\ At(W, ids[j]) < At(W, ids[k])
      <4>1. CASE j <= n
        <5>1. At(W, ids[j]) \in DOMAIN ledger
          BY <1>8, <1>9, <2>1, <4>1
        <5> QED BY <1>3, <1>5, <2>1, <2>3, <3>1, <5>1
      <4>2. CASE j > n
        <5>1. At(W, ids[j]) = Len(ledger) + (j - n)
          BY <1>5, <2>1, <4>2
        <5> QED BY <1>3, <1>5, <2>1, <2>3, <3>1, <5>1
      <4> QED BY <1>3, <4>1, <4>2
    <3>3. ASSUME NEW p \in 1 .. At(W, ids[k]) - 1
          PROVE  Emitted(W[p]) \/ \E j \in 1 .. k - 1 : ids[j] = W[p].id
      <4>1. CASE p \in DOMAIN ledger
        BY <1>2, <1>5, <3>1, <4>1 DEF UnknownLast
      <4>2. CASE p \notin DOMAIN ledger
        <5>1. p \in DOMAIN W /\ n + (p - Len(ledger)) \in 1 .. k - 1
          BY <1>3, <1>6, <3>1, <4>2
        <5> QED BY <1>5, <4>2, <5>1
      <4> QED BY <4>1, <4>2
    <3> QED BY <3>2, <3>3
  <2> QED BY <1>3, <2>2, <2>3
<1>11. \A i \in DOMAIN W : i \notin DOMAIN ledger =>
         /\ W[i].state = "REPLAY_IN_FLIGHT"
         /\ \E k \in DOMAIN ids : ids[k] = W[i].id /\ ~Has(ledger, ids[k])
  BY <1>5
<1>12. Len(ledger) <= Len(W) /\ stage # "LEGACY"
  BY <1>1, <1>3, <1>5
<1> QED
  BY <1>1, <1>3, <1>4, <1>5, <1>7, <1>10, <1>11, <1>12, BeginStep

\* Applying an update that is not in the log.
LEMMA AppendLog ==
  ASSUME IInv, NEW u \in UpdateIds, log' = Append(log, u), UNCHANGED base,
         \A i \in DOMAIN log : log[i] # u
  PROVE  /\ log' \in Seq(UpdateIds) /\ Len(log') = Len(log) + 1
         /\ DOMAIN log' = 1 .. Len(log) + 1
         /\ log'[Len(log) + 1] = u /\ \A i \in DOMAIN log : log'[i] = log[i]
         /\ base' \in 0 .. Len(log') /\ Applied' = Applied + 1
         /\ AppliedOnce'
         /\ \A v : Fresh(v)' <=> Fresh(v)
<1>1. log \in Seq(UpdateIds) /\ base \in 0 .. Len(log) /\ Len(log) \in Nat
      /\ DOMAIN log = 1 .. Len(log)
  BY InvFacts
<1>2. /\ log' \in Seq(UpdateIds) /\ Len(log') = Len(log) + 1
      /\ DOMAIN log' = 1 .. Len(log) + 1
      /\ log'[Len(log) + 1] = u /\ \A i \in DOMAIN log : log'[i] = log[i]
  BY <1>1
<1>3. base' \in 0 .. Len(log') /\ Applied' = Applied + 1
  BY <1>1, <1>2 DEF Applied
<1>4. AppliedOnce'
  <2>1. \A i \in DOMAIN log' : i \in DOMAIN log \/ i = Len(log) + 1
    BY <1>1, <1>2
  <2>2. \A i, j \in DOMAIN log : log[i] = log[j] => i = j
    BY DEF IInv, AppliedOnce, Distinct
  <2>3. \A i, j \in DOMAIN log' : log'[i] = log'[j] => i = j
    BY <1>2, <2>1, <2>2
  <2> QED BY <2>3 DEF AppliedOnce, Distinct
<1>5. \A v : Fresh(v)' <=> Fresh(v)
  <2>1. \A i \in 1 .. base : i \in DOMAIN log
    BY <1>1
  <2> QED BY <1>2, <2>1 DEF Fresh
<1> QED BY <1>2, <1>3, <1>4, <1>5

\* The log once the next entry is applied.
LEMMA AppendApplied ==
  ASSUME IInv, NEW p \in DOMAIN ledger, ~Done(p), \A q \in 1 .. p - 1 : Done(q),
         log' = Append(log, ledger[p].id), UNCHANGED base,
         Len(ledger') = Len(ledger),
         \A i \in DOMAIN ledger : ledger'[i].id = ledger[i].id,
         \A i \in DOMAIN ledger : Done(i)' <=> Done(i) \/ i = p,
         DOMAIN ledger' = DOMAIN ledger, UNCHANGED stage
  PROVE  AppliedPrefix'
<1>1. /\ DOMAIN ledger = 1 .. Len(ledger) /\ Len(ledger) \in Nat
      /\ Applied \in Nat /\ base + Applied = Len(log) /\ base \in Nat /\ Len(log) \in Nat
      /\ DOMAIN log = 1 .. Len(log)
      /\ ledger[p].id \in UpdateIds
  BY InvFacts DEF Entries
<1>2. flight.kind # "fallback" /\ AppliedPrefix
  BY InvFacts DEF IInv
<1>3. p = Applied + 1 /\ \A i \in DOMAIN log : log[i] # ledger[p].id
  BY NextPosition
<1>4. /\ log'[Len(log) + 1] = ledger[p].id /\ \A i \in DOMAIN log : log'[i] = log[i]
      /\ Applied' = Applied + 1
  BY <1>1, <1>3, AppendLog
<1>5. Applied' <= Len(ledger')
  BY <1>1, <1>3, <1>4
<1>6. \A i \in 1 .. Applied' : ledger'[i].id = log'[base' + i]
  <2> SUFFICES ASSUME NEW i \in 1 .. Applied + 1
               PROVE  ledger'[i].id = log'[base + i]
    BY <1>4
  <2>1. CASE i = Applied + 1
    <3>1. i = p /\ base + i = Len(log) + 1
      <4>1. i = p
        BY <1>3, <2>1
      <4>2. Applied \in Nat /\ base \in Nat /\ base + Applied = Len(log)
        BY <1>1
      <4>3. base + (Applied + 1) = (base + Applied) + 1
        BY <4>2
      <4> QED BY <2>1, <4>1, <4>2, <4>3
    <3>2. ledger'[p].id = ledger[p].id
      OBVIOUS
    <3> QED BY <1>4, <3>1, <3>2
  <2>2. CASE i # Applied + 1
    <3>1. i \in 1 .. Applied /\ base + i \in DOMAIN log /\ i \in DOMAIN ledger
      BY <1>1, <1>3, <2>2
    <3> QED BY <1>2, <1>4, <3>1 DEF AppliedPrefix
  <2> QED BY <2>1, <2>2
<1>7. \A i \in DOMAIN ledger' : i <= Applied' <=> Done(i)'
  <2> SUFFICES ASSUME NEW i \in DOMAIN ledger
               PROVE  i <= Applied + 1 <=> Done(i) \/ i = p
    BY <1>4
  <2>1. i <= Applied <=> Done(i)
    BY <1>2 DEF AppliedPrefix
  <2> QED BY <1>1, <1>3, <2>1
<1> QED BY <1>5, <1>6, <1>7 DEF AppliedPrefix

\* The next update of a reservation is the oldest one not yet applied.
LEMMA ApplyNextStep ==
  ASSUME IInv, ApplyNext
  PROVE  IInv'
<1>0. PICK m \in Nat : m = flight.next
  BY FlightKinds DEF ApplyNext, IInv
<1>1. /\ flight # NoFlight /\ m <= Len(flight.ids)
      /\ flight' = [flight EXCEPT !.next = m + 1]
      /\ log' = IF flight.mask[m] THEN Append(log, flight.ids[m]) ELSE log
      /\ UNCHANGED <<ledger, session, base, epoch>>
  BY <1>0 DEF ApplyNext
<1>2. /\ flight \in [kind : {"release", "replay", "fallback"},
                     ids : Seq(UpdateIds), mask : Seq(BOOLEAN), next : Nat]
      /\ DOMAIN flight.mask = DOMAIN flight.ids
      /\ DOMAIN flight.ids = 1 .. Len(flight.ids) /\ Len(flight.ids) \in Nat
      /\ m \in DOMAIN flight.ids /\ flight.ids[m] \in UpdateIds
      /\ flight.mask[m] \in BOOLEAN /\ flight.next = m
  BY <1>0, <1>1 DEF IInv, TypeOK
<1>3. /\ flight' \in [kind : {"release", "replay", "fallback"},
                      ids : Seq(UpdateIds), mask : Seq(BOOLEAN), next : Nat]
      /\ flight'.kind = flight.kind /\ flight'.ids = flight.ids
      /\ flight'.mask = flight.mask /\ flight'.next = m + 1
      /\ (Batch' <=> Batch)
  BY <1>1, <1>2 DEF Batch
<1>4. flight'.next \in 1 .. Len(flight'.ids) + 1
  BY <1>1, <1>2, <1>3
<1>5. BatchInOrder' /\ RecoverWaits' /\ LegacyEmpty'
  BY <1>1, <1>3 DEF IInv, BatchInOrder, RecoverWaits, LegacyEmpty, session, Batch
<1>6. \A i \in DOMAIN ledger :
        Done(i)' <=> Done(i) \/ (Batch /\ flight.mask[m] /\ flight.ids[m] = ledger[i].id)
  <2> TAKE i \in DOMAIN ledger
  <2>1. \A k : k \in 1 .. (m + 1) - 1 <=> k \in 1 .. m - 1 \/ k = m
    BY <1>2
  <2> QED BY <1>1, <1>2, <1>3, <2>1 DEF Done
<1>7. CASE ~flight.mask[m]
  <2>1. log' = log
    BY <1>1, <1>7
  <2>2. TypeOK'
    BY <1>1, <1>2, <1>3, <1>4, <2>1 DEF IInv, TypeOK, session
  <2>3. UniqueIds' /\ AppliedOnce'
    BY <1>1, <2>1 DEF IInv, UniqueIds, AppliedOnce, Fresh
  <2>4. AppliedPrefix'
    BY <1>1, <1>3, <1>6, <1>7, <2>1 DEF IInv, AppliedPrefix, Applied
  <2>5. FallbackFresh'
    <3>1. \A k \in m + 1 .. Len(flight.ids) : k \in m .. Len(flight.ids)
      BY <1>2
    <3> QED BY <1>2, <1>3, <2>1, <3>1 DEF IInv, FallbackFresh
  <2> QED BY <1>5, <2>2, <2>3, <2>4, <2>5 DEF IInv
<1>8. CASE flight.mask[m] /\ flight.kind = "fallback"
  <2>1. log' = Append(log, flight.ids[m]) /\ UNCHANGED base
    BY <1>1, <1>8
  <2>2. m \in m .. Len(flight.ids) /\ FallbackFresh
    BY <1>1, <1>2 DEF IInv
  <2>3. \A i \in DOMAIN log : log[i] # flight.ids[m]
    BY <1>2, <1>8, <2>2 DEF FallbackFresh
  <2>4. /\ log' \in Seq(UpdateIds) /\ base' \in 0 .. Len(log')
        /\ DOMAIN log' = 1 .. Len(log) + 1
        /\ log'[Len(log) + 1] = flight.ids[m] /\ \A i \in DOMAIN log : log'[i] = log[i]
        /\ AppliedOnce'
        /\ \A v : Fresh(v)' <=> Fresh(v)
    BY <1>2, <2>1, <2>3, AppendLog
  <2>5. TypeOK'
    BY <1>1, <1>2, <1>3, <1>4, <2>4 DEF IInv, TypeOK, session
  <2>6. UniqueIds' /\ AppliedPrefix'
    BY <1>1, <1>3, <1>8, <2>4 DEF IInv, UniqueIds, AppliedPrefix
  <2>7. FallbackFresh'
    <3> SUFFICES ASSUME NEW k \in m + 1 .. Len(flight.ids), flight.mask[k],
                        NEW i \in DOMAIN log'
                 PROVE  log'[i] # flight.ids[k]
      BY <1>3, <1>8, <2>2 DEF FallbackFresh
    <3>1. k \in m .. Len(flight.ids) /\ k \in DOMAIN flight.ids /\ k # m
      BY <1>2
    <3>2. i \in DOMAIN log \/ i = Len(log) + 1
      BY <2>4, InvFacts
    <3>3. CASE i \in DOMAIN log
      BY <1>2, <1>8, <2>2, <2>4, <3>1, <3>3 DEF FallbackFresh
    <3>4. CASE i = Len(log) + 1
      BY <1>2, <1>8, <2>2, <2>4, <3>1, <3>4 DEF FallbackFresh, Distinct
    <3> QED BY <3>2, <3>3, <3>4
  <2> QED BY <1>5, <2>4, <2>5, <2>6, <2>7 DEF IInv
<1>9. CASE flight.mask[m] /\ flight.kind # "fallback"
  <2>1. Batch /\ log' = Append(log, flight.ids[m]) /\ UNCHANGED base
    BY <1>1, <1>2, <1>9 DEF Batch
  <2>2. /\ CompletionOK(ledger, flight.ids, flight.mask, InFlightOf(flight.kind))
        /\ NoOvertaking(ledger, flight.ids)
    BY <2>1 DEF IInv, BatchInOrder
  <2>3. PICK p \in DOMAIN ledger : p = At(ledger, flight.ids[m]) /\ ledger[p].id = flight.ids[m]
                                   /\ ledger[p].state = InFlightOf(flight.kind)
    BY <1>2, <1>9, <2>2, AtFinds DEF CompletionOK
  <2>4. \A j \in 1 .. m - 1 :
          /\ j \in DOMAIN flight.ids /\ Has(ledger, flight.ids[j])
          /\ At(ledger, flight.ids[j]) < p
          /\ At(ledger, flight.ids[j]) \in DOMAIN ledger
          /\ ledger[At(ledger, flight.ids[j])].id = flight.ids[j]
    BY <1>2, <2>2, <2>3, AtFinds DEF NoOvertaking, CompletionOK
  <2>5. DOMAIN ledger = 1 .. Len(ledger) /\ Len(ledger) \in Nat /\ Unique(ledger)
    BY InvFacts
  <2>6. ~Done(p)
    <3>1. ~Emitted(ledger[p])
      BY <2>3 DEF Emitted, EmittedStates, InFlightOf
    <3>2. \A j \in 1 .. m - 1 : flight.ids[j] # flight.ids[m]
      BY <2>3, <2>4, <2>5
    <3> QED BY <1>2, <2>3, <3>1, <3>2 DEF Done
  <2>7. \A q \in 1 .. p - 1 : Done(q)
    <3> TAKE q \in 1 .. p - 1
    <3>1. q \in DOMAIN ledger
      BY <2>5
    <3>2. Emitted(ledger[q]) \/ \E j \in 1 .. m - 1 : flight.ids[j] = ledger[q].id
      <4>1. Has(ledger, flight.ids[m]) /\ q \in 1 .. At(ledger, flight.ids[m]) - 1
        BY <1>2, <2>2, <2>3 DEF CompletionOK
      <4>2. \A r \in 1 .. At(ledger, flight.ids[m]) - 1 :
              Emitted(ledger[r]) \/ \E j \in 1 .. m - 1 : flight.ids[j] = ledger[r].id
        BY <1>2, <2>2, <4>1 DEF NoOvertaking
      <4> QED BY <4>1, <4>2
    <3>3. ASSUME NEW j \in 1 .. m - 1, flight.ids[j] = ledger[q].id PROVE Done(q)
      <4>1. CASE flight.mask[j]
        BY <1>2, <2>1, <3>3, <4>1 DEF Done
      <4>2. CASE ~flight.mask[j]
        <5>1. At(ledger, flight.ids[j]) = q
          BY <2>5, <3>1, <3>3, AtIsPosition
        <5> QED BY <2>2, <2>4, <4>2, <5>1 DEF CompletionOK, Done
      <4> QED BY <4>1, <4>2
    <3> QED BY <3>2, <3>3 DEF Done
  <2>8. /\ \A i \in DOMAIN ledger : Done(i)' <=> Done(i) \/ i = p
        /\ log' = Append(log, ledger[p].id)
    BY <1>6, <1>9, <2>1, <2>3, <2>5 DEF Unique
  <2>9. \A i \in DOMAIN log : log[i] # flight.ids[m]
    BY <2>3, <2>6, <2>7, NextPosition
  <2>10. /\ log' \in Seq(UpdateIds) /\ base' \in 0 .. Len(log')
         /\ AppliedOnce'
         /\ \A v : Fresh(v)' <=> Fresh(v)
    BY <1>2, <2>1, <2>9, AppendLog
  <2>11. TypeOK'
    BY <1>1, <1>2, <1>3, <1>4, <2>10 DEF IInv, TypeOK, session
  <2>12. UniqueIds'
    BY <1>1, <2>10 DEF IInv, UniqueIds
  <2>13. AppliedPrefix'
    BY <1>1, <2>6, <2>7, <2>8, AppendApplied DEF session
  <2>14. FallbackFresh'
    BY <1>3, <1>9 DEF FallbackFresh
  <2> QED BY <1>5, <2>10, <2>11, <2>12, <2>13, <2>14 DEF IInv
<1> QED BY <1>7, <1>8, <1>9

\* A completion turns exactly the applied entries into emitted ones.
LEMMA CompleteBatchStep ==
  ASSUME IInv, NEW emitted \in BOOLEAN, CompleteBatch(emitted)
  PROVE  IInv'
<1>0. PICK st : st = IF emitted THEN AppliedOf(flight.kind) ELSE RefusedOf(flight.kind)
  OBVIOUS
<1> DEFINE Chosen(i) == \E k \in DOMAIN flight.ids :
                          flight.mask[k] /\ flight.ids[k] = ledger[i].id
<1>1. /\ Batch /\ flight.next = IF emitted THEN Len(flight.ids) + 1 ELSE 1
      /\ CompletionOK(ledger, flight.ids, flight.mask, InFlightOf(flight.kind))
      /\ ledger' = SetStates(ledger, flight.ids, flight.mask, st)
      /\ flight' = NoFlight
      /\ UNCHANGED <<session, log, base, epoch>>
  BY <1>0 DEF CompleteBatch, Batch
<1>2. /\ st \in LedgerStates /\ st \notin InFlightStates /\ (st \in EmittedStates <=> emitted)
      /\ ~emitted => st = IF flight.kind = "release" THEN "READY" ELSE "DISCARDED"
  BY <1>0 DEF AppliedOf, RefusedOf, LedgerStates, InFlightStates, EmittedStates, IdleStates
<1>3. /\ ledger \in Seq(Entries) /\ Unique(ledger) /\ Applied \in Nat
      /\ DOMAIN ledger = 1 .. Len(ledger) /\ Len(ledger) \in Nat
      /\ DOMAIN flight.ids = 1 .. Len(flight.ids) /\ Len(flight.ids) \in Nat
  BY <1>1, InvFacts, FlightKinds DEF IInv, Batch
<1>4. /\ ledger' \in Seq(Entries) /\ SameUpdates(ledger, ledger')
      /\ \A i \in DOMAIN ledger : IF Chosen(i) THEN ledger'[i].state = st
                                  ELSE ledger'[i] = ledger[i]
  <2>1. ledger \in Seq(Entries) /\ st \in LedgerStates
    BY <1>2, <1>3
  <2>2. ledger' = SetStates(ledger, flight.ids, flight.mask, st)
    BY <1>1
  <2> QED BY <2>1, <2>2, SetStatesKeeps
<1>5. DOMAIN ledger' = DOMAIN ledger /\ Unique(ledger') /\ Len(ledger') = Len(ledger)
  BY <1>3, <1>4, SameAt DEF SameUpdates
<1>6. \A i \in DOMAIN ledger : Chosen(i) => ledger[i].state = InFlightOf(flight.kind)
  <2> SUFFICES ASSUME NEW i \in DOMAIN ledger, NEW k \in DOMAIN flight.ids,
                      flight.mask[k], flight.ids[k] = ledger[i].id
               PROVE  ledger[i].state = InFlightOf(flight.kind)
    OBVIOUS
  <2>1. At(ledger, flight.ids[k]) = i
    BY <1>3, AtIsPosition
  <2> QED BY <1>1, <2>1 DEF CompletionOK
<1>7. \A i \in DOMAIN ledger : Chosen(i) => ~Emitted(ledger[i])
  BY <1>6 DEF Emitted, EmittedStates, InFlightOf
<1>8. \A i \in DOMAIN ledger : Done(i) <=> Emitted(ledger'[i])
  <2> TAKE i \in DOMAIN ledger
  <2>1. CASE emitted
    <3>1. \A k : k \in 1 .. (Len(flight.ids) + 1) - 1 <=> k \in DOMAIN flight.ids
      BY <1>3
    <3>2. Done(i) <=> Emitted(ledger[i]) \/ Chosen(i)
      BY <1>1, <2>1, <3>1 DEF Done
    <3> QED BY <1>2, <1>4, <2>1, <3>2 DEF Emitted
  <2>2. CASE ~emitted
    <3>1. \A k : k \notin 1 .. 1 - 1
      OBVIOUS
    <3>2. Done(i) <=> Emitted(ledger[i])
      BY <1>1, <2>2, <3>1 DEF Done
    <3>3. CASE Chosen(i)
      BY <1>2, <1>4, <1>7, <2>2, <3>2, <3>3 DEF Emitted
    <3>4. CASE ~Chosen(i)
      BY <1>4, <3>2, <3>4
    <3> QED BY <3>3, <3>4
  <2> QED BY <2>1, <2>2
<1> HIDE DEF Chosen
<1>9. /\ flight'.kind = "none" /\ ~Batch'
  BY <1>1 DEF NoFlight, Batch
<1>10. TypeOK'
  BY <1>1, <1>4, <1>5 DEF IInv, TypeOK, session, Entries
<1>11. UniqueIds'
  BY <1>1, <1>4, <1>5 DEF IInv, UniqueIds, Unique, Fresh, SameUpdates
<1>12. AppliedPrefix'
  <2>1. AppliedPrefix /\ flight.kind # "fallback"
    BY <1>1 DEF IInv, Batch
  <2>2. Applied' = Applied /\ UNCHANGED <<log, base>>
    BY <1>1 DEF Applied
  <2>3. Applied <= Len(ledger) /\ \A i \in 1 .. Applied : i \in DOMAIN ledger
    BY <1>3, <2>1 DEF AppliedPrefix
  <2>4. Applied' <= Len(ledger') /\ \A i \in 1 .. Applied' : ledger'[i].id = log'[base' + i]
    BY <1>4, <1>5, <2>1, <2>2, <2>3 DEF AppliedPrefix, SameUpdates
  <2>5. \A i \in DOMAIN ledger' : Done(i)' <=> Emitted(ledger'[i])
    BY <1>9 DEF Done
  <2>6. \A i \in DOMAIN ledger' : i <= Applied' <=> Done(i)'
    BY <1>5, <1>8, <2>1, <2>2, <2>5 DEF AppliedPrefix
  <2> QED BY <2>4, <2>6 DEF AppliedPrefix
<1>13. BatchInOrder'
  <2>1. \A i \in DOMAIN ledger : ledger[i].state \in InFlightStates => Chosen(i)
    BY DEF IInv, BatchInOrder, Chosen
  <2>2. \A i \in DOMAIN ledger' : ledger'[i].state \notin InFlightStates
    BY <1>2, <1>4, <1>5, <2>1
  <2> QED BY <1>9, <2>2 DEF BatchInOrder
<1>14. RecoverWaits'
  <2> SUFFICES ASSUME stage = "RECOVER", NEW i \in DOMAIN ledger
               PROVE  Emitted(ledger'[i]) \/ ledger'[i].state \in {"DISCARDED", "REPLAY_IN_FLIGHT"}
    BY <1>1, <1>5 DEF RecoverWaits, session
  <2>1. Emitted(ledger[i]) \/ ledger[i].state \in {"DISCARDED", "REPLAY_IN_FLIGHT"}
    BY DEF IInv, RecoverWaits
  <2>2. CASE ~Chosen(i)
    BY <1>4, <2>1, <2>2
  <2>3. CASE Chosen(i) /\ emitted
    BY <1>2, <1>4, <2>3 DEF Emitted
  <2>4. CASE Chosen(i) /\ ~emitted
    <3>1. flight.kind # "release"
      BY <1>6, <1>7, <2>1, <2>4 DEF InFlightOf
    <3> QED BY <1>2, <1>4, <2>4, <3>1
  <2> QED BY <2>2, <2>3, <2>4
<1>15. LegacyEmpty' /\ FallbackFresh' /\ AppliedOnce'
  BY <1>1, <1>3, <1>4, <1>5, <1>9 DEF IInv, LegacyEmpty, FallbackFresh, AppliedOnce, session
<1> QED BY <1>10, <1>11, <1>12, <1>13, <1>14, <1>15 DEF IInv

\* A commit applies at most the entry right behind the emitted ones.
LEMMA CommitStep ==
  ASSUME IInv, NEW u \in UpdateIds, Commit(u)
  PROVE  IInv'
<1>0. PICK p \in DOMAIN ledger : p = At(ledger, u) /\ ledger[p].id = u
  BY AtFinds DEF Commit
<1>1. /\ PrefixEmitted(ledger, p)
      /\ ledger[p].state \in {"READY", "RELEASED", "REPLAY_EMITTED"}
      /\ ledger' = SetState(ledger, p, "COMMITTED")
      /\ log' = IF ledger[p].state = "READY" THEN Append(log, u) ELSE log
      /\ UNCHANGED <<session, flight, base, epoch>>
  BY <1>0 DEF Commit
<1>2. /\ ledger \in Seq(Entries) /\ Unique(ledger) /\ Applied \in Nat
      /\ DOMAIN ledger = 1 .. Len(ledger) /\ Len(ledger) \in Nat
      /\ flight.kind # "fallback"
  BY <1>0, InvFacts
<1>3. /\ ledger' \in Seq(Entries) /\ SameUpdates(ledger, ledger')
      /\ ledger'[p].state = "COMMITTED"
      /\ \A i \in DOMAIN ledger : i # p => ledger'[i] = ledger[i]
  <2>1. ledger \in Seq(Entries) /\ "COMMITTED" \in LedgerStates
    BY <1>2 DEF LedgerStates, EmittedStates
  <2>2. ledger' = SetState(ledger, p, "COMMITTED")
    BY <1>1
  <2> QED BY <2>1, <2>2, SetStateKeeps
<1>4. /\ DOMAIN ledger' = DOMAIN ledger /\ Unique(ledger') /\ Len(ledger') = Len(ledger)
      /\ \A v : Has(ledger', v) <=> Has(ledger, v)
      /\ \A v : Has(ledger, v) => At(ledger', v) = At(ledger, v)
      /\ \A i \in DOMAIN ledger : ledger'[i].id = ledger[i].id
  BY <1>2, <1>3, SameAt DEF SameUpdates
<1>5. \A i \in DOMAIN ledger : Emitted(ledger'[i]) <=> Emitted(ledger[i]) \/ i = p
  BY <1>3 DEF Emitted, EmittedStates
<1>6. Batch => /\ CompletionOK(ledger, flight.ids, flight.mask, InFlightOf(flight.kind))
               /\ NoOvertaking(ledger, flight.ids)
               /\ flight.ids \in Seq(UpdateIds)
               /\ DOMAIN flight.ids = 1 .. Len(flight.ids) /\ Len(flight.ids) \in Nat
               /\ flight.next \in 1 .. Len(flight.ids) + 1
  BY FlightKinds DEF IInv, BatchInOrder, Batch
<1>7. \A i \in DOMAIN ledger : Done(i)' <=> Done(i) \/ i = p
  BY <1>1, <1>4, <1>5 DEF Done, Batch
<1>8. ASSUME ledger[p].state = "READY"
      PROVE  ~Done(p) /\ \A q \in 1 .. p - 1 : Done(q)
  <2>1. ~Emitted(ledger[p])
    BY <1>8 DEF Emitted, EmittedStates
  <2>2. ASSUME Batch, NEW k \in 1 .. flight.next - 1, flight.mask[k] PROVE flight.ids[k] # u
    <3>1. k \in DOMAIN flight.ids
      BY <1>6, <2>2
    <3>2. ledger[At(ledger, flight.ids[k])].state = InFlightOf(flight.kind)
      BY <1>6, <2>2, <3>1 DEF CompletionOK
    <3> QED BY <1>0, <1>8, <3>2 DEF InFlightOf
  <2>3. \A q \in 1 .. p - 1 : Done(q)
    BY <1>1 DEF PrefixEmitted, Done
  <2> QED BY <1>0, <2>1, <2>2, <2>3 DEF Done
<1>9. UNCHANGED stage
  BY <1>1 DEF session
<1>10. /\ log' \in Seq(UpdateIds) /\ base' \in 0 .. Len(log')
       /\ AppliedOnce' /\ \A v : Fresh(v)' <=> Fresh(v)
       /\ AppliedPrefix'
  <2>1. CASE ledger[p].state = "READY"
    <3>1. /\ log' = Append(log, ledger[p].id) /\ UNCHANGED base
          /\ \A i \in DOMAIN log : log[i] # u
      BY <1>0, <1>1, <1>8, <2>1, NextPosition
    <3>2. AppliedPrefix'
      BY <1>4, <1>7, <1>8, <1>9, <2>1, <3>1, AppendApplied
    <3> QED BY <1>0, <3>1, <3>2, AppendLog
  <2>2. CASE ledger[p].state # "READY"
    <3>1. log' = log /\ UNCHANGED base /\ Applied' = Applied
      BY <1>1, <2>2 DEF Applied
    <3>2. Done(p)
      BY <1>1, <2>2 DEF Done, Emitted, EmittedStates
    <3>3. AppliedPrefix
      BY DEF IInv
    <3>4. \A i \in 1 .. Applied : i \in DOMAIN ledger
      BY <1>2, <3>3 DEF AppliedPrefix
    <3>5. Applied' <= Len(ledger') /\ \A i \in 1 .. Applied' : ledger'[i].id = log'[base' + i]
      BY <1>2, <1>4, <3>1, <3>3, <3>4 DEF AppliedPrefix
    <3>6. \A i \in DOMAIN ledger' : i <= Applied' <=> Done(i)'
      BY <1>2, <1>4, <1>7, <3>1, <3>2, <3>3 DEF AppliedPrefix
    <3>7. AppliedPrefix'
      BY <3>5, <3>6 DEF AppliedPrefix
    <3> QED BY <3>1, <3>7, InvFacts DEF IInv, AppliedOnce, Fresh
  <2> QED BY <2>1, <2>2
<1>11. TypeOK'
  BY <1>1, <1>3, <1>4, <1>10 DEF IInv, TypeOK, session, Entries
<1>12. UniqueIds'
  BY <1>4, <1>10 DEF IInv, UniqueIds, Unique
<1>13. BatchInOrder'
  <2>1. ASSUME NEW i \in DOMAIN ledger', ledger'[i].state \in InFlightStates
        PROVE  Batch /\ \E k \in DOMAIN flight.ids :
                          flight.mask[k] /\ flight.ids[k] = ledger'[i].id
    <3>1. i # p /\ i \in DOMAIN ledger
      BY <1>3, <1>4, <2>1 DEF InFlightStates
    <3> QED BY <1>3, <2>1, <3>1 DEF IInv, BatchInOrder
  <2>2. ASSUME Batch
        PROVE  CompletionOK(ledger', flight.ids, flight.mask, InFlightOf(flight.kind))
    <3> SUFFICES ASSUME NEW k \in DOMAIN flight.ids
                 PROVE  /\ Has(ledger', flight.ids[k])
                        /\ IF flight.mask[k]
                           THEN ledger'[At(ledger', flight.ids[k])].state = InFlightOf(flight.kind)
                           ELSE Emitted(ledger'[At(ledger', flight.ids[k])])
      BY DEF CompletionOK
    <3>1. Has(ledger, flight.ids[k]) /\ At(ledger', flight.ids[k]) = At(ledger, flight.ids[k])
          /\ At(ledger, flight.ids[k]) \in DOMAIN ledger /\ Has(ledger', flight.ids[k])
      BY <1>4, <1>6, <2>2, AtFinds DEF CompletionOK
    <3>2. CASE flight.mask[k]
      <4>1. ledger[At(ledger, flight.ids[k])].state = InFlightOf(flight.kind)
        BY <1>6, <2>2, <3>2 DEF CompletionOK
      <4>2. At(ledger, flight.ids[k]) # p
        BY <1>1, <4>1 DEF InFlightOf
      <4> QED BY <1>3, <3>1, <3>2, <4>1, <4>2
    <3>3. CASE ~flight.mask[k]
      BY <1>5, <1>6, <2>2, <3>1, <3>3 DEF CompletionOK
    <3> QED BY <3>2, <3>3, <3>1
  <2>3. ASSUME Batch PROVE NoOvertaking(ledger', flight.ids)
    <3>1. \A k \in DOMAIN flight.ids : Has(ledger, flight.ids[k])
      BY <1>6, <2>3 DEF CompletionOK
    <3>2. \A i \in DOMAIN ledger : Emitted(ledger[i]) => Emitted(ledger'[i])
      BY <1>5
    <3> QED BY <1>2, <1>3, <1>6, <2>3, <3>1, <3>2, StatesOvertaking
  <2> QED BY <1>1, <2>1, <2>2, <2>3 DEF BatchInOrder, Batch
<1>14. RecoverWaits'
  BY <1>3, <1>4, <1>9 DEF IInv, RecoverWaits, Emitted, EmittedStates
<1>15. LegacyEmpty' /\ FallbackFresh'
  BY <1>1, <1>2, <1>4, <1>9 DEF IInv, LegacyEmpty, FallbackFresh
<1> QED BY <1>10, <1>11, <1>12, <1>13, <1>14, <1>15 DEF IInv

\* A fallback flush takes updates that were not applied, each once.
LEMMA FallbackFlushStep ==
  ASSUME IInv, NEW ids \in IdBatches \cup {<<>>}, FallbackFlush(ids)
  PROVE  IInv'
<1> DEFINE mask == EmitMask(ledger, ids)
<1>1. /\ flight = NoFlight /\ \A k \in DOMAIN ids : Fresh(ids[k])
      /\ Distinct(ids)
      /\ flight' = [kind |-> "fallback", ids |-> ids, mask |-> mask, next |-> 1]
      /\ ledger' = <<>> /\ base' = Len(log) /\ log' = log /\ epoch' = epoch
      /\ stage' = "LEGACY" /\ negotiated' = FALSE /\ legacy' = TRUE /\ caps' = {}
  BY DEF FallbackFlush, EnterLegacy, ClearLedger, Reservation, FallbackOK
<1>2. ids \in Seq(UpdateIds) /\ DOMAIN ids = 1 .. Len(ids) /\ Len(ids) \in Nat
  <2>1. CASE ids \in IdBatches
    BY <2>1, BatchIsSeq
  <2>2. CASE ids = <<>>
    BY <2>2
  <2> QED BY <2>1, <2>2
<1>3. /\ mask \in Seq(BOOLEAN) /\ DOMAIN mask = DOMAIN ids
      /\ \A k \in DOMAIN ids :
           mask[k] => ~Has(ledger, ids[k]) \/ ~Emitted(ledger[At(ledger, ids[k])])
  BY <1>2, MaskIsSeq DEF EmitMask
<1> HIDE DEF mask
<1>4. /\ flight'.kind = "fallback" /\ flight'.ids = ids /\ flight'.mask = mask
      /\ flight'.next = 1 /\ ~Batch' /\ DOMAIN ledger' = {}
  BY <1>1 DEF Batch
<1>5. TypeOK'
  <2>1. flight' \in [kind : {"release", "replay", "fallback"},
                     ids : Seq(UpdateIds), mask : Seq(BOOLEAN), next : Nat]
    BY <1>1, <1>2, <1>3
  <2>2. flight'.next \in 1 .. Len(flight'.ids) + 1
    BY <1>2, <1>4
  <2>3. base' \in 0 .. Len(log') /\ log' \in Seq(UpdateIds)
    BY <1>1, InvFacts
  <2>4. ledger' \in Seq(Entries) /\ Len(ledger') = 0 /\ 0 <= MaxLedgerEntries
    BY <1>1, LedgerAssumption
  <2> QED BY <1>1, <1>3, <1>4, <2>1, <2>2, <2>3, <2>4 DEF IInv, TypeOK, Stages, Entries
<1>6. FallbackFresh'
  <2> SUFFICES ASSUME NEW k \in 1 .. Len(ids), mask[k], NEW i \in DOMAIN log
               PROVE  log[i] # ids[k]
    BY <1>1, <1>4 DEF FallbackFresh
  <2>1. log \in Seq(UpdateIds) /\ base \in 0 .. Len(log) /\ i \in 1 .. Len(log)
        /\ base + Applied = Len(log) /\ Applied \in Nat /\ Unique(ledger)
        /\ DOMAIN ledger = 1 .. Len(ledger) /\ Len(ledger) \in Nat /\ Len(log) \in Nat
    BY InvFacts
  <2>2. CASE i <= base
    BY <1>1, <1>2, <2>1, <2>2 DEF Fresh
  <2>3. CASE i > base
    <3>1. PICK q \in 1 .. Applied : base + q = i
      <4>1. i - base \in 1 .. Applied /\ base + (i - base) = i
        BY <2>1, <2>3
      <4> QED BY <4>1
    <3>2. flight.kind = "none" /\ AppliedPrefix
      BY <1>1 DEF NoFlight, IInv
    <3>3. q \in DOMAIN ledger /\ ledger[q].id = log[i] /\ Done(q)
      BY <2>1, <3>1, <3>2 DEF AppliedPrefix
    <3>4. Emitted(ledger[q])
      BY <3>2, <3>3 DEF Done, Batch
    <3>5. Has(ledger, ledger[q].id) /\ At(ledger, ledger[q].id) = q
      BY <2>1, <3>3, AtIsPosition
    <3> QED BY <1>2, <1>3, <3>3, <3>4, <3>5
  <2> QED BY <2>1, <2>2, <2>3
<1>7. UniqueIds' /\ AppliedPrefix' /\ BatchInOrder' /\ RecoverWaits' /\ LegacyEmpty'
  BY <1>1, <1>4 DEF UniqueIds, AppliedPrefix, BatchInOrder, RecoverWaits, LegacyEmpty
<1>8. AppliedOnce'
  BY <1>1 DEF IInv, AppliedOnce, Distinct
<1> QED BY <1>5, <1>6, <1>7, <1>8 DEF IInv

\* Its completion closes the ledger it flushed.
LEMMA CompleteFallbackStep ==
  ASSUME IInv, CompleteFallback
  PROVE  IInv'
<1>1. /\ flight' = NoFlight /\ base' = Len(log) /\ log' = log
      /\ UNCHANGED <<session, epoch, ledger>> /\ ledger = <<>>
  BY DEF CompleteFallback, IInv, LegacyEmpty
<1>2. flight'.kind = "none" /\ ~Batch' /\ DOMAIN ledger' = {} /\ Len(ledger') = 0
  BY <1>1 DEF NoFlight, Batch
<1>3. log \in Seq(UpdateIds) /\ Len(log) \in Nat
  BY InvFacts
<1>4. TypeOK'
  BY <1>1, <1>2, <1>3 DEF IInv, TypeOK, session
<1>5. AppliedPrefix'
  BY <1>1, <1>2, <1>3 DEF AppliedPrefix, Applied
<1>6. UniqueIds' /\ BatchInOrder' /\ FallbackFresh' /\ RecoverWaits' /\ LegacyEmpty'
  BY <1>1, <1>2 DEF UniqueIds, BatchInOrder, FallbackFresh, RecoverWaits, LegacyEmpty
<1>7. AppliedOnce'
  BY <1>1 DEF IInv, AppliedOnce, Distinct
<1> QED BY <1>4, <1>5, <1>6, <1>7 DEF IInv

-----------------------------------------------------------------------------
(* The invariant. *)

\* The invariant holds at the start.
LEMMA InitIInv == Init => IInv
<1> SUFFICES ASSUME Init PROVE IInv
  OBVIOUS
<1> USE DEF Init
<1>1. flight.kind = "none" /\ ~Batch /\ DOMAIN ledger = {} /\ DOMAIN log = {}
      /\ Applied = 0 /\ Len(ledger) = 0 /\ Len(log) = 0
  BY DEF NoFlight, Batch, Applied
<1>2. TypeOK
  <2>1. ledger \in Seq(Entries) /\ log \in Seq(UpdateIds) /\ base \in 0 .. Len(log)
    BY <1>1
  <2>2. Len(ledger) <= MaxLedgerEntries /\ epoch \in 0 .. MaxEpoch
    BY <1>1, LedgerAssumption
  <2> QED BY <2>1, <2>2 DEF TypeOK, Stages, Entries
<1>3. AppliedPrefix
  BY <1>1 DEF AppliedPrefix
<1>4. UniqueIds /\ BatchInOrder /\ FallbackFresh /\ RecoverWaits /\ LegacyEmpty /\ AppliedOnce
  BY <1>1 DEF UniqueIds, BatchInOrder, FallbackFresh, RecoverWaits, LegacyEmpty,
              AppliedOnce, Distinct
<1> QED BY <1>2, <1>3, <1>4 DEF IInv

\* The invariant is inductive: one lemma above for each action.
LEMMA NextIInv == IInv /\ [Next]_vars => IInv'
<1> SUFFICES ASSUME IInv, [Next]_vars PROVE IInv'
  OBVIOUS
<1>1. CASE ControlPacket
  BY <1>1, ControlStep
<1>2. ASSUME NEW u \in UpdateIds, NEW s \in SubmissionIds, Prepare(u, s) PROVE IInv'
  BY <1>2, PrepareStep
<1>3. ASSUME NEW u \in UpdateIds, MarkReady(u) PROVE IInv'
  BY <1>3, MarkReadyStep
<1>4. ASSUME NEW ids \in IdBatches, BeginReleaseBatch(ids) PROVE IInv'
  BY <1>4, BeginReleaseStep
<1>5. ASSUME NEW ids \in IdBatches, NEW subs \in [DOMAIN ids -> SubmissionIds],
             BeginReplayBatch(ids, subs)
      PROVE  IInv'
  BY <1>5, BeginReplayStep
<1>6. CASE ApplyNext
  BY <1>6, ApplyNextStep
<1>7. ASSUME NEW emitted \in BOOLEAN, CompleteBatch(emitted) PROVE IInv'
  BY <1>7, CompleteBatchStep
<1>8. ASSUME NEW u \in UpdateIds, Commit(u) PROVE IInv'
  BY <1>8, CommitStep
<1>9. CASE BeginRecovery
  <2>1. SessionTyped'
    BY <1>9, InvTyped DEF BeginRecovery, SessionTyped, Stages
  <2> QED BY <1>9, <2>1, DiscardStep DEF BeginRecovery
<1>10. ASSUME NEW ids \in IdBatches \cup {<<>>}, FallbackFlush(ids) PROVE IInv'
  BY <1>10, FallbackFlushStep
<1>11. CASE CompleteFallback
  BY <1>11, CompleteFallbackStep
<1>12. CASE UNCHANGED vars
  <2>1. UNCHANGED <<ledger, flight, log, base>> /\ SessionTyped' /\ UNCHANGED stage
    BY <1>12, InvTyped DEF vars, SessionTyped
  <2> QED BY <2>1, StageStep
<1> QED
  BY <1>1, <1>2, <1>3, <1>4, <1>5, <1>6, <1>7, <1>8, <1>9, <1>10, <1>11, <1>12
     DEF Next, LedgerOperation

\* The inductive invariant holds in every reachable state, whatever the
\* updates, the batches, the ledger size and the number of restarts.
THEOREM Invariance == Spec => []IInv
<1>1. Init => IInv
  BY InitIInv
<1>2. IInv /\ [Next]_vars => IInv'
  BY NextIInv
<1> QED BY <1>1, <1>2, PTL DEF Spec

\* Every variable keeps its type.
THEOREM TypeCorrect == Spec => []TypeOK
<1>1. IInv => TypeOK
  BY DEF IInv
<1> QED BY <1>1, Invariance, PTL

\* Updates are applied in the order they were admitted, and what the ledger
\* calls emitted has been applied.
THEOREM InOrder == Spec => []AppliedInOrder
<1>1. IInv => AppliedInOrder
  BY DEF IInv, AppliedPrefix, AppliedInOrder, Done
<1> QED BY <1>1, Invariance, PTL

\* No update is applied twice.
THEOREM Once == Spec => []AppliedOnce
<1>1. IInv => AppliedOnce
  BY DEF IInv
<1> QED BY <1>1, Invariance, PTL

\* Every begin can be completed.
THEOREM Completes == Spec => []CompletionAccepted
<1>1. IInv => CompletionAccepted
  BY DEF IInv, BatchInOrder, CompletionAccepted, Batch
<1> QED BY <1>1, Invariance, PTL

\* With nothing in flight recovery can begin.
THEOREM Recovers == Spec => []RecoveryPossible
<1>1. IInv => RecoveryPossible
  BY NoFlightRecovery DEF RecoveryPossible
<1> QED BY <1>1, Invariance, PTL

\* A session in Legacy owes nothing.
THEOREM LegacyIsEmpty == Spec => []LegacyOwesNothing
<1>1. IInv => LegacyOwesNothing
  BY DEF IInv, LegacyEmpty, LegacyOwesNothing
<1> QED BY <1>1, Invariance, PTL

-----------------------------------------------------------------------------
(* What the guest can count on. *)

\* With nothing in flight a flush of the whole ledger is accepted.
LEMMA FallbackAccepted ==
  ASSUME IInv, flight = NoFlight
  PROVE  FallbackOK(ledger, [i \in DOMAIN ledger |-> ledger[i].id])
<1>0. PICK ids : ids = [i \in DOMAIN ledger |-> ledger[i].id]
  OBVIOUS
<1>1. /\ DOMAIN ledger = 1 .. Len(ledger) /\ Len(ledger) \in Nat /\ Unique(ledger)
  BY InvFacts
<1>2. DOMAIN ids = DOMAIN ledger /\ \A k \in DOMAIN ids : ids[k] = ledger[k].id
  BY <1>0
<1>3. \A k \in DOMAIN ids : Has(ledger, ids[k]) /\ At(ledger, ids[k]) = k
  BY <1>1, <1>2, AtIsPosition
<1>4. \A k \in DOMAIN ids : \A j \in 1 .. k - 1 : j \in DOMAIN ids /\ j < k
  BY <1>1, <1>2
<1>5. Distinct(ids)
  BY <1>1, <1>2 DEF Distinct, Unique
<1>6. NoOvertaking(ledger, ids)
  <2> SUFFICES ASSUME NEW k \in DOMAIN ids
               PROVE  /\ \A j \in 1 .. k - 1 :
                           Has(ledger, ids[j]) /\ At(ledger, ids[j]) < At(ledger, ids[k])
                      /\ \A p \in 1 .. At(ledger, ids[k]) - 1 :
                           Emitted(ledger[p]) \/ \E j \in 1 .. k - 1 : ids[j] = ledger[p].id
    BY DEF NoOvertaking
  <2>1. At(ledger, ids[k]) = k
    BY <1>3
  <2> QED BY <1>2, <1>3, <1>4, <2>1
<1>7. UnknownLast(ledger, ids)
  BY <1>3 DEF UnknownLast
<1>8. \A p \in DOMAIN ledger : Emitted(ledger[p]) \/ \E k \in DOMAIN ids : ids[k] = ledger[p].id
  BY <1>2
<1>9. Known(ledger, ids, EmittedStates \cup IdleStates)
  <2>1. \A i \in DOMAIN ledger : Emitted(ledger[i]) \/ ledger[i].state \in IdleStates
    BY NoFlightRecovery DEF RecoveryOK
  <2> QED BY <1>2, <1>3, <2>1 DEF Known, Emitted
<1> QED BY <1>0, <1>5, <1>6, <1>7, <1>8, <1>9 DEF FallbackOK

\* In Recover with nothing in flight the replay of the rest is accepted.
LEMMA ReplayAccepted ==
  ASSUME IInv, stage = "RECOVER", flight = NoFlight, Owed # {}
  PROVE  \E n \in DOMAIN ledger :
           /\ Owed = n .. Len(ledger)
           /\ ReplayBatchOK(ledger,
                            [k \in 1 .. Len(ledger) - n + 1 |-> ledger[n + k - 1].id],
                            [k \in 1 .. Len(ledger) - n + 1 |-> ledger[n + k - 1].sub],
                            MaxLedgerEntries)
<1>1. /\ ledger \in Seq(Entries) /\ Unique(ledger) /\ Applied \in Nat
      /\ DOMAIN ledger = 1 .. Len(ledger) /\ Len(ledger) \in Nat
      /\ Len(ledger) <= MaxLedgerEntries
  BY InvFacts DEF IInv, TypeOK
<1>2. \A i \in DOMAIN ledger : i <= Applied <=> Emitted(ledger[i])
  BY DEF IInv, AppliedPrefix, Done, Batch, NoFlight
<1>3. PICK n \in Nat : n = Applied + 1
  BY <1>1
<1>4. Owed = n .. Len(ledger)
  <2>1. \A i \in Owed : i \in n .. Len(ledger)
    BY <1>1, <1>2, <1>3 DEF Owed
  <2>2. \A i \in n .. Len(ledger) : i \in DOMAIN ledger /\ ~(i <= Applied)
    BY <1>1, <1>3
  <2>3. \A i \in n .. Len(ledger) : i \in Owed
    BY <1>2, <2>2 DEF Owed
  <2> QED BY <2>1, <2>3
<1>5. n \in DOMAIN ledger
  BY <1>1, <1>3, <1>4
<1>6. PICK m \in Nat : m = Len(ledger) - n + 1
  <2>1. n \in Nat /\ n <= Len(ledger) /\ Len(ledger) \in Nat
    BY <1>1, <1>5
  <2>2. Len(ledger) - n + 1 \in Nat
    BY <2>1
  <2> QED BY <2>2
<1>7. PICK ids : ids = [k \in 1 .. m |-> ledger[n + k - 1].id]
  OBVIOUS
<1>8. PICK subs : subs = [k \in 1 .. m |-> ledger[n + k - 1].sub]
  OBVIOUS
<1>9. /\ \A k \in 1 .. m : /\ n + k - 1 \in DOMAIN ledger
                           /\ ids[k] = ledger[n + k - 1].id
                           /\ subs[k] = ledger[n + k - 1].sub
      /\ DOMAIN ids = 1 .. m /\ Len(ids) = m
  <2>1. \A k \in 1 .. m : n + k - 1 \in DOMAIN ledger
    BY <1>1, <1>3, <1>6
  <2>2. DOMAIN ids = 1 .. m /\ \A k \in 1 .. m : ids[k] = ledger[n + k - 1].id
    BY <1>7
  <2>3. \A k \in 1 .. m : subs[k] = ledger[n + k - 1].sub
    BY <1>8
  <2>4. Len(ids) = m
    BY <1>7
  <2> QED BY <2>1, <2>2, <2>3, <2>4
<1>10. \A k \in 1 .. m : Has(ledger, ids[k]) /\ At(ledger, ids[k]) = n + k - 1
  BY <1>1, <1>9, AtIsPosition
<1>11. \A k \in 1 .. m : ledger[n + k - 1].state = "DISCARDED"
  <2> TAKE k \in 1 .. m
  <2>1. n + k - 1 \in DOMAIN ledger /\ n + k - 1 \in Owed
    BY <1>1, <1>3, <1>4, <1>9
  <2>2. ledger[n + k - 1].state \notin InFlightStates
    BY <2>1 DEF IInv, BatchInOrder, Batch, NoFlight
  <2> QED BY <2>1, <2>2 DEF IInv, RecoverWaits, Owed, InFlightStates
<1>12. Distinct(ids)
  <2> SUFFICES ASSUME NEW j \in 1 .. m, NEW k \in 1 .. m, ids[j] = ids[k]
               PROVE  j = k
    BY <1>9 DEF Distinct
  <2>1. n + j - 1 = n + k - 1
    BY <1>10
  <2> QED BY <1>3, <2>1
<1>13. NoOvertaking(ledger, ids)
  <2> SUFFICES ASSUME NEW k \in 1 .. m
               PROVE  /\ \A j \in 1 .. k - 1 :
                           Has(ledger, ids[j]) /\ At(ledger, ids[j]) < At(ledger, ids[k])
                      /\ \A p \in 1 .. At(ledger, ids[k]) - 1 :
                           Emitted(ledger[p]) \/ \E j \in 1 .. k - 1 : ids[j] = ledger[p].id
    BY <1>9 DEF NoOvertaking
  <2>1. At(ledger, ids[k]) = n + k - 1 /\ n + k - 1 \in DOMAIN ledger
    BY <1>9, <1>10
  <2>2. ASSUME NEW j \in 1 .. k - 1
        PROVE  Has(ledger, ids[j]) /\ At(ledger, ids[j]) < At(ledger, ids[k])
    <3>1. j \in 1 .. m
      BY <1>6
    <3>2. n + j - 1 < n + k - 1
      BY <1>3
    <3> QED BY <1>10, <2>1, <3>1, <3>2
  <2>3. ASSUME NEW p \in 1 .. n + k - 2
        PROVE  Emitted(ledger[p]) \/ \E j \in 1 .. k - 1 : ids[j] = ledger[p].id
    <3>1. CASE p < n
      BY <1>1, <1>2, <1>3, <1>5, <3>1
    <3>2. CASE p >= n
      <4>1. p - n + 1 \in 1 .. k - 1 /\ p - n + 1 \in 1 .. m /\ n + (p - n + 1) - 1 = p
        BY <1>3, <1>6, <3>2
      <4> QED BY <1>9, <4>1
    <3> QED BY <1>3, <3>1, <3>2
  <2>4. (n + k - 1) - 1 = n + k - 2
    BY <1>3
  <2> QED BY <2>1, <2>2, <2>3, <2>4
<1>14. UnknownLast(ledger, ids) /\ KnownFirst(ledger, ids, m)
  BY <1>9, <1>10 DEF UnknownLast, KnownFirst
<1>15. Known(ledger, ids, EmittedStates \cup {"DISCARDED"})
  BY <1>9, <1>10, <1>11 DEF Known
<1>16. \A k \in DOMAIN ids : Has(ledger, ids[k]) => ledger[At(ledger, ids[k])].sub = subs[k]
  BY <1>9, <1>10
<1>17. \E j \in 0 .. Len(ids) :
         KnownFirst(ledger, ids, j) /\ Len(ledger) + (Len(ids) - j) <= MaxLedgerEntries
  <2>1. m \in 0 .. Len(ids) /\ Len(ledger) + (Len(ids) - m) <= MaxLedgerEntries
    BY <1>1, <1>9
  <2> QED BY <1>14, <2>1
<1>18. ReplayBatchOK(ledger, ids, subs, MaxLedgerEntries)
  BY <1>12, <1>13, <1>14, <1>15, <1>16, <1>17 DEF ReplayBatchOK
<1> QED BY <1>4, <1>5, <1>6, <1>7, <1>8, <1>18

\* In Recover the guest can replay everything it owes.
THEOREM Replays == Spec => []ReplayPossible
<1>1. IInv => ReplayPossible
  BY ReplayAccepted DEF ReplayPossible
<1> QED BY <1>1, Invariance, PTL

\* The guest can flush its ledger whenever nothing is in flight.
THEOREM FallsBack == Spec => []FallbackPossible
<1>1. IInv => FallbackPossible
  BY FallbackAccepted DEF FallbackPossible
<1> QED BY <1>1, Invariance, PTL

-----------------------------------------------------------------------------
(* How a ledger is forgotten. *)

\* A ledger with the same updates is not a forgotten one.
LEMMA KeptIsNotForgotten ==
  ASSUME ledger \in Seq(Entries), ledger' \in Seq(Entries), Len(ledger) <= Len(ledger')
  PROVE  Forgotten
<1>1. ledger # <<>> => ledger' # <<>>
  OBVIOUS
<1> QED BY <1>1 DEF Forgotten

\* A recovery keeps every entry.
LEMMA DiscardIsNotForgotten ==
  ASSUME IInv, ledger' = Discard(ledger)
  PROVE  Forgotten
<1>1. ledger \in Seq(Entries)
  BY InvFacts
<1>2. ledger' \in Seq(Entries) /\ Len(ledger') = Len(ledger)
  BY <1>1, DiscardKeeps DEF SameUpdates
<1> QED BY <1>1, <1>2, KeptIsNotForgotten

\* A forced fallback keeps a ledger that is not empty.
LEMMA ForceIsNotForgotten ==
  ASSUME IInv, ForceLegacy \/ RecoverOrForce
  PROVE  Forgotten
<1>1. CASE ledger = <<>>
  BY <1>1 DEF Forgotten
<1>2. CASE ledger # <<>>
  <2>1. ledger' = Discard(ledger) \/ ledger' = ledger
    BY <1>2 DEF ForceLegacy, RecoverOrForce
  <2> QED BY <2>1, DiscardIsNotForgotten DEF Forgotten
<1> QED BY <1>1, <1>2

\* No step forgets a ledger that still owes an update.
LEMMA StepForgets ==
  ASSUME IInv, [Next]_vars
  PROVE  Forgotten
<1>1. ASSUME UNCHANGED ledger PROVE Forgotten
  BY <1>1 DEF Forgotten
<1>2. CASE ControlPacket
  <2> USE ForceIsNotForgotten
  <2>1. CASE Negotiate \/ SessionReset \/ SessionTeardown
    <3>1. epoch' # epoch
      BY <2>1 DEF Negotiate, SessionReset, SessionTeardown, IInv, TypeOK
    <3> QED BY <3>1 DEF Forgotten
  <2>2. ASSUME NEW found \in BOOLEAN, NoteInterval(found) PROVE Forgotten
    BY <1>1, <2>2 DEF NoteInterval
  <2>3. ASSUME NEW from, NEW to, NEW ok \in BOOLEAN, Advance(from, to, ok) PROVE Forgotten
    BY <1>1, <2>3 DEF Advance
  <2>4. ASSUME NEW ok \in BOOLEAN, FastPeriodComplete(ok) PROVE Forgotten
    BY <2>4 DEF FastPeriodComplete, Forgotten
  <2>5. CASE Mismatch \/ WireError
    BY <2>5 DEF Mismatch, WireError
  <2>6. CASE RecoveryComplete
    BY <2>6 DEF RecoveryComplete, Forgotten
  <2> QED BY <1>2, <2>1, <2>2, <2>3, <2>4, <2>5, <2>6
             DEF ControlPacket, LearnComplete, MatchComplete
<1> USE InvFacts
<1>3. ASSUME NEW u \in UpdateIds, NEW s \in SubmissionIds, Prepare(u, s) PROVE Forgotten
  <2>1. ledger' = Append(ledger, Entry(u, s, "PREPARED"))
    BY <1>3 DEF Prepare
  <2>2. ledger' # <<>>
    BY <2>1
  <2> QED BY <2>2 DEF Forgotten
<1>4. ASSUME NEW u \in UpdateIds, MarkReady(u) \/ Commit(u) PROVE Forgotten
  <2>1. PICK p \in DOMAIN ledger : p = At(ledger, u)
    BY <1>4, AtFinds DEF MarkReady, Commit
  <2>2. PICK st \in LedgerStates : ledger' = SetState(ledger, p, st)
    BY <1>4, <2>1 DEF MarkReady, Commit, LedgerStates, IdleStates, EmittedStates
  <2>3. ledger' \in Seq(Entries) /\ Len(ledger') = Len(ledger)
    BY <2>1, <2>2, SetStateKeeps DEF SameUpdates
  <2> QED BY <2>3, KeptIsNotForgotten
<1>5. ASSUME NEW ids, NEW mask, NEW st \in LedgerStates, NEW W \in Seq(Entries),
             Len(ledger) <= Len(W), ledger' = SetStates(W, ids, mask, st)
      PROVE  Forgotten
  <2>1. ledger' \in Seq(Entries) /\ Len(ledger') = Len(W)
    BY <1>5, SetStatesKeeps DEF SameUpdates
  <2> QED BY <1>5, <2>1, KeptIsNotForgotten
<1>6. ASSUME NEW ids \in IdBatches, BeginReleaseBatch(ids) PROVE Forgotten
  <2>1. "RELEASE_IN_FLIGHT" \in LedgerStates
    BY DEF LedgerStates, InFlightStates
  <2>2. ledger' = SetStates(ledger, ids, EmitMask(ledger, ids), "RELEASE_IN_FLIGHT")
    BY <1>6 DEF BeginReleaseBatch
  <2> QED BY <1>5, <2>1, <2>2
<1>7. ASSUME NEW ids \in IdBatches, NEW subs \in [DOMAIN ids -> SubmissionIds],
             BeginReplayBatch(ids, subs)
      PROVE  Forgotten
  <2>1. "REPLAY_IN_FLIGHT" \in LedgerStates /\ MaxLedgerEntries \in Nat
    BY LedgerAssumption DEF LedgerStates, InFlightStates
  <2>2. /\ ReplayBatchOK(ledger, ids, subs, MaxLedgerEntries)
        /\ ledger' = SetStates(WithMissing(ledger, ids, subs), ids, EmitMask(ledger, ids),
                               "REPLAY_IN_FLIGHT")
    BY <1>7 DEF BeginReplayBatch
  <2>3. ids \in Seq(UpdateIds) /\ Len(ids) \in Nat
    BY BatchIsSeq
  <2>4. \E n \in 0 .. Len(ids) :
          /\ WithMissing(ledger, ids, subs) \in Seq(Entries)
          /\ Len(WithMissing(ledger, ids, subs)) = Len(ledger) + (Len(ids) - n)
    BY <2>1, <2>2, <2>3, MissingKeeps
  <2>5. WithMissing(ledger, ids, subs) \in Seq(Entries)
        /\ Len(ledger) <= Len(WithMissing(ledger, ids, subs))
    BY <2>3, <2>4
  <2> QED BY <1>5, <2>1, <2>2, <2>5
<1>8. ASSUME NEW emitted \in BOOLEAN, CompleteBatch(emitted) PROVE Forgotten
  <2>1. PICK st : st = IF emitted THEN AppliedOf(flight.kind) ELSE RefusedOf(flight.kind)
    OBVIOUS
  <2>2. ledger' = SetStates(ledger, flight.ids, flight.mask, st)
    BY <1>8, <2>1 DEF CompleteBatch
  <2>3. st \in LedgerStates
    BY <2>1 DEF AppliedOf, RefusedOf, LedgerStates, EmittedStates, IdleStates
  <2> QED BY <1>5, <2>2, <2>3
<1>9. CASE BeginRecovery
  BY <1>9, DiscardIsNotForgotten DEF BeginRecovery
<1>10. ASSUME NEW ids \in IdBatches \cup {<<>>}, FallbackFlush(ids) PROVE Forgotten
  <2>1. /\ flight'.kind = "fallback" /\ flight'.ids = ids
        /\ flight'.mask = EmitMask(ledger, ids) /\ FallbackOK(ledger, ids)
    BY <1>10 DEF FallbackFlush, Reservation
  <2>2. ASSUME NEW i \in Owed
        PROVE  \E k \in DOMAIN ids : ids[k] = ledger[i].id /\ EmitMask(ledger, ids)[k]
    <3>1. i \in DOMAIN ledger /\ ~Emitted(ledger[i])
      BY DEF Owed
    <3>2. PICK k \in DOMAIN ids : ids[k] = ledger[i].id
      BY <2>1, <3>1 DEF FallbackOK
    <3>3. At(ledger, ids[k]) = i
      BY <3>1, <3>2, AtIsPosition
    <3> QED BY <3>1, <3>2, <3>3 DEF EmitMask
  <2> QED BY <2>1, <2>2 DEF Forgotten
<1>11. CASE ApplyNext \/ CompleteFallback \/ UNCHANGED vars
  BY <1>1, <1>11 DEF ApplyNext, CompleteFallback, vars
<1> QED
  BY <1>2, <1>3, <1>4, <1>6, <1>7, <1>8, <1>9, <1>10, <1>11 DEF Next, LedgerOperation

\* A ledger is forgotten when it is committed, handed to a flush that covers
\* it, or when the guest restarts the protocol, and never otherwise.
THEOREM Forgets == Spec => ForgottenOnlyWhenDone
<1>1. IInv /\ [Next]_vars => [Forgotten]_vars
  BY StepForgets
<1> QED BY <1>1, Invariance, PTL DEF Spec, ForgottenOnlyWhenDone

-----------------------------------------------------------------------------
(* The ledger implements UpdateDelivery: every step of it admits updates,  *)
(* applies the oldest update owed, is a restart the guest asked for, or    *)
(* changes nothing that UpdateDelivery sees.                               *)

\* What the two modes owe: the entries of a ledger behind the first a, and
\* the rest of a fallback flush from its first masked id on.
Rest(L, a) == [k \in 1 .. Len(L) - a |-> L[a + k].id]

Left(fl) == {k \in fl.next .. Len(fl.ids) : fl.mask[k]}
From(fl) == CHOOSE k \in Left(fl) \cup {Len(fl.ids) + 1} : \A j \in Left(fl) : k <= j
Flush(fl) == SubSeq(fl.ids, From(fl), Len(fl.ids))

\* Behind the first id a fallback flush has to apply, it applies every id.
FallbackSorted ==
  flight.kind = "fallback" =>
    \A j, k \in DOMAIN flight.ids : flight.mask[j] /\ j < k => flight.mask[k]

\* The first a entries of a ledger are the end of the log, behind b updates
\* of earlier ledgers.
LogEnds(L, a, lg, b) ==
  /\ Len(lg) = b + a
  /\ \A i \in DOMAIN L : \A j \in 1 .. b : lg[j] # L[i].id
  /\ \A i \in 1 .. a : L[i].id = lg[b + i]

\* The first a entries of a ledger are the emitted ones.
EmittedFirst(L, a) == \A i \in DOMAIN L : i <= a <=> Emitted(L[i])

-----------------------------------------------------------------------------
(* Least elements. *)

\* A set of naturals that is not empty has a least element.
LEMMA NatMin ==
  ASSUME NEW T \in SUBSET Nat, T # {}
  PROVE  \E x \in T : \A y \in T : x <= y
<1> DEFINE R == OpToRel(<, Nat)
<1>1. IsWellFoundedOn(R, Nat)
  BY NatLessThanWellFounded
<1>2. \A x, y \in Nat : x < y => <<x, y>> \in R
  BY DEF OpToRel
<1> HIDE DEF R
<1>3. \E x \in T : \A y \in T : ~(<<y, x>> \in R)
  BY <1>1, WFMin
<1>4. PICK x \in T : \A y \in T : ~(<<y, x>> \in R)
  BY <1>3
<1>5. \A y \in T : ~(y < x)
  BY <1>2, <1>4
<1>6. \A y \in T : x <= y
  BY <1>5
<1> QED BY <1>6

\* The rest of a flush starts at its first masked id, or behind the last id.
LEMMA FromFinds ==
  ASSUME NEW fl, NEW n \in Nat, Len(fl.ids) = n, fl.next \in 1 .. n + 1
  PROVE  /\ From(fl) \in fl.next .. n + 1
         /\ (From(fl) \in Left(fl) \/ From(fl) = n + 1)
         /\ \A j \in Left(fl) : From(fl) <= j
<1> DEFINE T == Left(fl) \cup {n + 1}
<1>1. T \in SUBSET Nat /\ T # {} /\ Left(fl) \subseteq fl.next .. n
  BY DEF Left
<1>2. PICK x \in T : \A y \in T : x <= y
  <2> HIDE DEF T
  <2> QED BY <1>1, NatMin
<1>3. \E k \in T : \A j \in Left(fl) : k <= j
  BY <1>2
<1>4. From(fl) \in T /\ \A j \in Left(fl) : From(fl) <= j
  <2>1. From(fl) = CHOOSE k \in T : \A j \in Left(fl) : k <= j
    BY DEF From
  <2> HIDE DEF T
  <2> QED BY <1>3, <2>1
<1> QED BY <1>1, <1>4

-----------------------------------------------------------------------------
(* What is owed. *)

\* OwedIds in the two modes, before and after a step.
LEMMA OwedModes ==
  /\ OwedIds = IF flight.kind = "fallback" THEN Flush(flight) ELSE Rest(ledger, Applied)
  /\ OwedIds' = IF flight'.kind = "fallback" THEN Flush(flight')
                ELSE Rest(ledger', Applied')
BY DEF OwedIds, Flush, From, Left, Rest

\* What a ledger owes is a sequence, one element for each entry that is left.
LEMMA RestIs ==
  ASSUME NEW L \in Seq(Entries), NEW a \in 0 .. Len(L)
  PROVE  /\ Rest(L, a) \in Seq(UpdateIds)
         /\ Len(Rest(L, a)) = Len(L) - a
         /\ \A k \in 1 .. Len(L) - a : Rest(L, a)[k] = L[a + k].id
         /\ a = Len(L) => Rest(L, a) = <<>>
<1>1. \A k \in 1 .. Len(L) - a : L[a + k].id \in UpdateIds
  <2> TAKE k \in 1 .. Len(L) - a
  <2>1. a + k \in 1 .. Len(L)
    OBVIOUS
  <2>2. L[a + k] \in Entries
    BY <2>1
  <2> QED BY <2>2 DEF Entries
<1>2. Len(L) - a \in Nat
  OBVIOUS
<1>3. Rest(L, a) \in Seq(UpdateIds) /\ Len(Rest(L, a)) = Len(L) - a
      /\ \A k \in 1 .. Len(L) - a : Rest(L, a)[k] = L[a + k].id
  BY <1>1, <1>2 DEF Rest
<1>4. a = Len(L) => Rest(L, a) = <<>>
  BY <1>3, EmptySeq
<1> QED BY <1>3, <1>4

\* Nothing owed by a ledger has been applied, and it is owed once.
LEMMA RestFresh ==
  ASSUME NEW L \in Seq(Entries), NEW a \in 0 .. Len(L), Unique(L),
         NEW lg \in Seq(UpdateIds), NEW b \in Nat, LogEnds(L, a, lg, b)
  PROVE  /\ \A k \in 1 .. Len(L) - a : \A j \in DOMAIN lg : lg[j] # Rest(L, a)[k]
         /\ \A j, k \in 1 .. Len(L) - a : Rest(L, a)[j] = Rest(L, a)[k] => j = k
<1>1. \A k \in 1 .. Len(L) - a :
        Rest(L, a)[k] = L[a + k].id /\ a + k \in DOMAIN L /\ a + k \notin 1 .. a
  <2>1. \A k \in 1 .. Len(L) - a : a + k \in DOMAIN L /\ a + k \notin 1 .. a
    <3>1. DOMAIN L = 1 .. Len(L) /\ Len(L) \in Nat
      OBVIOUS
    <3> QED BY <3>1
  <2>2. \A k \in 1 .. Len(L) - a : Rest(L, a)[k] = L[a + k].id
    BY RestIs
  <2> QED BY <2>1, <2>2
<1>2. ASSUME NEW k \in 1 .. Len(L) - a, NEW j \in DOMAIN lg
      PROVE  lg[j] # Rest(L, a)[k]
  <2>1. CASE j <= b
    BY <1>1, <2>1 DEF LogEnds
  <2>2. CASE j > b
    <3>1. PICK q \in 1 .. a : b + q = j
      <4>1. j - b \in 1 .. a /\ b + (j - b) = j
        BY <2>2 DEF LogEnds
      <4> QED BY <4>1
    <3>2. L[q].id = lg[j] /\ q \in DOMAIN L
      BY <3>1 DEF LogEnds
    <3> QED BY <1>1, <3>2 DEF Unique
  <2> QED BY <2>1, <2>2
<1>3. ASSUME NEW j \in 1 .. Len(L) - a, NEW k \in 1 .. Len(L) - a,
             Rest(L, a)[j] = Rest(L, a)[k]
      PROVE  j = k
  <2>1. a + j = a + k
    BY <1>1, <1>3 DEF Unique
  <2> QED BY <2>1
<1> QED BY <1>2, <1>3

-----------------------------------------------------------------------------
(* Steps of UpdateDelivery. *)

DeliveryStep == [Delivery!Next]_Delivery!vars

\* New updates behind what was owed, none of them applied or named twice.
LEMMA AdmitStep ==
  ASSUME OwedIds \in Seq(UpdateIds), OwedIds' \in Seq(UpdateIds), UNCHANGED <<log, epoch>>,
         Len(OwedIds) <= Len(OwedIds'),
         \A k \in 1 .. Len(OwedIds) : OwedIds'[k] = OwedIds[k],
         \A k \in 1 .. Len(OwedIds') : \A j \in DOMAIN log : log[j] # OwedIds'[k],
         \A j, k \in 1 .. Len(OwedIds') : OwedIds'[j] = OwedIds'[k] => j = k
  PROVE  DeliveryStep
<1> DEFINE O == OwedIds
           P == OwedIds'
<1>1. O \in Seq(UpdateIds) /\ P \in Seq(UpdateIds) /\ Len(O) \in Nat /\ Len(P) \in Nat
      /\ Len(O) <= Len(P) /\ \A k \in 1 .. Len(O) : P[k] = O[k]
  OBVIOUS
<1>2. CASE Len(P) = Len(O)
  <2>1. P = O
    <3> HIDE DEF O, P
    <3> QED BY <1>1, <1>2, SeqEqual
  <2> QED BY <2>1 DEF DeliveryStep, Delivery!vars
<1>3. CASE Len(P) > Len(O)
  <2>1. SubSeq(P, 1, Len(O)) = O
    <3> HIDE DEF O, P
    <3>1. SubSeq(P, 1, Len(O)) \in Seq(UpdateIds) /\ Len(SubSeq(P, 1, Len(O))) = Len(O)
          /\ \A k \in 1 .. Len(O) : SubSeq(P, 1, Len(O))[k] = P[k]
      BY <1>1
    <3> QED BY <1>1, <3>1, SeqEqual
  <2>2. ASSUME NEW i \in Len(O) + 1 .. Len(P)
        PROVE  /\ P[i] \in UpdateIds
               /\ ~Delivery!In(P[i], log)
               /\ \A j \in 1 .. i - 1 : P[j] # P[i]
    <3>1. i \in 1 .. Len(P) /\ \A j \in 1 .. i - 1 : j \in 1 .. Len(P) /\ j # i
      BY <1>1
    <3>2. P[i] \in UpdateIds
      <4> HIDE DEF P
      <4> QED BY <1>1, <3>1
    <3> QED BY <3>1, <3>2 DEF Delivery!In
  <2> QED BY <1>3, <2>1, <2>2 DEF DeliveryStep, Delivery!Next, Delivery!Admit
<1> QED BY <1>1, <1>2, <1>3

\* The oldest update owed is applied.
LEMMA ApplyStep ==
  ASSUME OwedIds # <<>>, OwedIds' = Tail(OwedIds), log' = Append(log, Head(OwedIds)),
         UNCHANGED epoch
  PROVE  DeliveryStep
BY DEF DeliveryStep, Delivery!Next, Delivery!Apply

\* A step inside one ledger that keeps its entries, may append to it, and
\* applies nothing.
LEMMA GrowStep ==
  ASSUME IInv, IInv', flight.kind # "fallback", flight'.kind # "fallback",
         UNCHANGED <<log, base, epoch>>, Len(ledger) <= Len(ledger'),
         \A i \in DOMAIN ledger : ledger'[i].id = ledger[i].id
  PROVE  DeliveryStep
<1> DEFINE L == ledger
           M == ledger'
           a == Applied
<1>1. /\ L \in Seq(Entries) /\ a \in 0 .. Len(L) /\ log \in Seq(UpdateIds)
      /\ base \in Nat /\ Len(log) = base + a
  BY InvFacts DEF IInv, AppliedPrefix
<1>2. /\ M \in Seq(Entries) /\ Applied' = a /\ Len(L) <= Len(M) /\ Len(L) \in Nat
      /\ Unique(M) /\ \A i \in DOMAIN M : \A j \in 1 .. base : log[j] # M[i].id
      /\ \A i \in 1 .. a : M[i].id = log[base + i]
  BY DEF IInv, TypeOK, Entries, UniqueIds, Unique, Fresh, AppliedPrefix, Applied
<1>3. OwedIds = Rest(L, a) /\ OwedIds' = Rest(M, a)
  BY <1>2, OwedModes
<1>4. \A i \in DOMAIN L : M[i].id = L[i].id
  OBVIOUS
<1> HIDE DEF L, M, a
<1>5. Len(M) \in Nat /\ a \in 0 .. Len(M)
  BY <1>1, <1>2
<1>6. /\ OwedIds \in Seq(UpdateIds) /\ Len(OwedIds) = Len(L) - a
      /\ OwedIds' \in Seq(UpdateIds) /\ Len(OwedIds') = Len(M) - a
      /\ \A k \in 1 .. Len(L) - a : OwedIds[k] = L[a + k].id
      /\ \A k \in 1 .. Len(M) - a : OwedIds'[k] = M[a + k].id
  BY <1>1, <1>2, <1>3, <1>5, RestIs
<1>7. \A k \in 1 .. Len(OwedIds) : OwedIds'[k] = OwedIds[k]
  <2> TAKE k \in 1 .. Len(OwedIds)
  <2>1. k \in 1 .. Len(L) - a /\ k \in 1 .. Len(M) - a /\ a + k \in DOMAIN L
    BY <1>1, <1>2, <1>6
  <2> QED BY <1>4, <1>6, <2>1
<1>8. /\ \A k \in 1 .. Len(OwedIds') : \A j \in DOMAIN log : log[j] # OwedIds'[k]
      /\ \A j, k \in 1 .. Len(OwedIds') : OwedIds'[j] = OwedIds'[k] => j = k
  <2>1. LogEnds(M, a, log, base)
    BY <1>1, <1>2 DEF LogEnds
  <2>2. M \in Seq(Entries) /\ a \in 0 .. Len(M) /\ Unique(M)
    BY <1>2, <1>5
  <2>3. /\ \A k \in 1 .. Len(M) - a : \A j \in DOMAIN log : log[j] # Rest(M, a)[k]
        /\ \A j, k \in 1 .. Len(M) - a : Rest(M, a)[j] = Rest(M, a)[k] => j = k
    BY <1>1, <2>1, <2>2, RestFresh
  <2> QED BY <1>3, <1>6, <2>3
<1>9. Len(OwedIds) <= Len(OwedIds')
  BY <1>1, <1>2, <1>5, <1>6
<1> QED BY <1>6, <1>7, <1>8, <1>9, AdmitStep

\* A step inside one ledger that applies an update: by the invariant it is
\* the first entry behind the applied ones.
LEMMA AppliesStep ==
  ASSUME IInv, IInv', flight.kind # "fallback", flight'.kind # "fallback",
         UNCHANGED <<base, epoch>>, Len(ledger') = Len(ledger),
         \A i \in DOMAIN ledger : ledger'[i].id = ledger[i].id,
         NEW u \in UpdateIds, log' = Append(log, u)
  PROVE  DeliveryStep
<1> DEFINE L == ledger
           M == ledger'
           a == Applied
<1>1. /\ L \in Seq(Entries) /\ a \in Nat /\ log \in Seq(UpdateIds) /\ Len(log) \in Nat
      /\ base \in Nat /\ Len(log) = base + a
  BY InvFacts
<1>2. Len(log') = Len(log) + 1 /\ log'[Len(log) + 1] = u
  BY <1>1
<1>3. Applied' = a + 1
  BY <1>1, <1>2 DEF Applied
<1>4. /\ M \in Seq(Entries) /\ a + 1 <= Len(M) /\ Len(M) = Len(L) /\ Len(L) \in Nat
      /\ M[a + 1].id = log'[base + (a + 1)]
  <2>1. M \in Seq(Entries)
    BY DEF IInv, TypeOK, Entries
  <2>2. Applied' <= Len(M) /\ \A i \in 1 .. Applied' : M[i].id = log'[base + i]
    BY DEF IInv, AppliedPrefix
  <2>3. a + 1 \in 1 .. Applied'
    BY <1>1, <1>3
  <2> QED BY <1>1, <1>3, <2>1, <2>2, <2>3
<1>5. OwedIds = Rest(L, a) /\ OwedIds' = Rest(M, a + 1)
  BY <1>3, OwedModes
<1>6. \A i \in DOMAIN L : M[i].id = L[i].id
  OBVIOUS
<1> HIDE DEF L, M, a
<1>7. L[a + 1].id = u
  <2>1. base + (a + 1) = Len(log) + 1 /\ a + 1 \in DOMAIN L
    BY <1>1, <1>4
  <2> QED BY <1>2, <1>4, <1>6, <2>1
<1>8. /\ OwedIds \in Seq(UpdateIds) /\ Len(OwedIds) = Len(L) - a
      /\ \A k \in 1 .. Len(L) - a : OwedIds[k] = L[a + k].id
  <2>1. a \in 0 .. Len(L)
    BY <1>1, <1>4
  <2> QED BY <1>1, <1>5, <2>1, RestIs
<1>9. /\ OwedIds' \in Seq(UpdateIds) /\ Len(OwedIds') = Len(L) - (a + 1)
      /\ \A k \in 1 .. Len(L) - (a + 1) : OwedIds'[k] = M[(a + 1) + k].id
  <2>1. a + 1 \in 0 .. Len(M)
    BY <1>1, <1>4
  <2> QED BY <1>4, <1>5, <2>1, RestIs
<1>10. OwedIds # <<>> /\ Head(OwedIds) = u
  <2>1. 1 \in 1 .. Len(L) - a
    BY <1>1, <1>4
  <2> QED BY <1>7, <1>8, <2>1
<1>11. OwedIds' = Tail(OwedIds)
  <2>1. /\ Tail(OwedIds) \in Seq(UpdateIds) /\ Len(Tail(OwedIds)) = Len(OwedIds) - 1
        /\ \A k \in 1 .. Len(OwedIds) - 1 : Tail(OwedIds)[k] = OwedIds[k + 1]
    BY <1>8, <1>10, HeadTailProperties
  <2>2. ASSUME NEW k \in 1 .. Len(L) - (a + 1)
        PROVE  OwedIds'[k] = OwedIds[k + 1]
    <3>1. k + 1 \in 1 .. Len(L) - a /\ a + (k + 1) = (a + 1) + k /\ a + (k + 1) \in DOMAIN L
      BY <1>1, <1>4
    <3> QED BY <1>6, <1>8, <1>9, <3>1
  <2>3. Len(OwedIds) - 1 = Len(L) - (a + 1)
    BY <1>1, <1>4, <1>8
  <2> QED BY <1>9, <2>1, <2>2, <2>3, SeqEqual
<1> QED BY <1>10, <1>11, ApplyStep

\* The ledger is cleared: it owed nothing, or the guest restarts the protocol.
LEMMA ClearedStep ==
  ASSUME IInv, IInv', flight'.kind # "fallback", ledger' = <<>>, base' = Len(log'),
         UNCHANGED log,
         \/ OwedIds = <<>> /\ UNCHANGED epoch
         \/ epoch' = epoch + 1
  PROVE  DeliveryStep
<1>1. Applied' = 0 /\ Len(ledger') = 0 /\ ledger' \in Seq(Entries)
  BY InvFacts DEF Applied, IInv, TypeOK, Entries
<1>2. Rest(ledger', Applied') = <<>>
  <2>1. Applied' \in 0 .. Len(ledger') /\ Applied' = Len(ledger')
    BY <1>1
  <2> QED BY <1>1, <2>1, RestIs
<1>3. OwedIds' = <<>>
  BY <1>2, OwedModes
<1> QED BY <1>3 DEF DeliveryStep, Delivery!Next, Delivery!Restart, Delivery!vars

\* A committed ledger owes nothing.
LEMMA CommittedOwesNothing ==
  ASSUME IInv, flight = NoFlight, AllCommitted(ledger)
  PROVE  OwedIds = <<>>
<1>1. flight.kind # "fallback"
  BY DEF NoFlight
<1>2. /\ ledger \in Seq(Entries) /\ Applied \in 0 .. Len(ledger)
      /\ Len(ledger) \in Nat /\ DOMAIN ledger = 1 .. Len(ledger)
  BY <1>1, InvFacts DEF IInv, AppliedPrefix
<1>3. \A i \in DOMAIN ledger : i <= Applied
  <2>1. \A i \in DOMAIN ledger : Done(i)
    BY DEF AllCommitted, Done, Emitted, EmittedStates
  <2> QED BY <1>1, <2>1 DEF IInv, AppliedPrefix
<1>4. Applied = Len(ledger)
  <2>1. CASE Len(ledger) = 0
    BY <1>2, <2>1
  <2>2. CASE Len(ledger) # 0
    <3>1. Len(ledger) \in DOMAIN ledger
      BY <1>2, <2>2
    <3>2. Len(ledger) <= Applied
      BY <1>3, <3>1
    <3>3. \A m, n \in Nat : m \in 0 .. n /\ n <= m => m = n
      OBVIOUS
    <3>4. Applied \in Nat
      BY InvFacts
    <3> QED BY <1>2, <3>2, <3>3, <3>4, Zenon
  <2> QED BY <2>1, <2>2
<1>5. OwedIds = Rest(ledger, Applied)
  BY <1>1, OwedModes
<1> QED BY <1>2, <1>4, <1>5, RestIs

-----------------------------------------------------------------------------
(* The fallback flush. *)

\* What is left of a flush, position by position.
LEMMA FlushIs ==
  ASSUME NEW fl, fl.ids \in Seq(UpdateIds), fl.next \in 1 .. Len(fl.ids) + 1
  PROVE  /\ From(fl) \in 1 .. Len(fl.ids) + 1
         /\ Flush(fl) \in Seq(UpdateIds)
         /\ Len(Flush(fl)) = Len(fl.ids) + 1 - From(fl)
         /\ \A k \in 1 .. Len(fl.ids) + 1 - From(fl) :
              Flush(fl)[k] = fl.ids[From(fl) + k - 1]
<1>1. Len(fl.ids) \in Nat /\ DOMAIN fl.ids = 1 .. Len(fl.ids)
  OBVIOUS
<1>2. From(fl) \in 1 .. Len(fl.ids) + 1
  BY <1>1, FromFinds
<1> DEFINE ids == fl.ids
           m   == From(fl)
           n   == Len(fl.ids)
<1>3. Flush(fl) = SubSeq(ids, m, n)
  BY DEF Flush
<1>4. ids \in Seq(UpdateIds) /\ DOMAIN ids = 1 .. n /\ n \in Nat /\ m \in 1 .. n + 1
  BY <1>1, <1>2
<1> HIDE DEF ids, m, n
<1>5. \A i \in m .. n : ids[i] \in UpdateIds
  BY <1>4
<1>6. /\ SubSeq(ids, m, n) \in Seq(UpdateIds)
      /\ Len(SubSeq(ids, m, n)) = IF m <= n THEN n - m + 1 ELSE 0
      /\ \A i \in 1 .. n - m + 1 : SubSeq(ids, m, n)[i] = ids[m + i - 1]
  BY <1>4, <1>5, SubSeqProperties
<1>7. n - m + 1 = n + 1 - m /\ (~(m <= n) => n + 1 - m = 0)
  BY <1>4
<1>8. /\ Flush(fl) \in Seq(UpdateIds) /\ Len(Flush(fl)) = n + 1 - m
      /\ \A i \in 1 .. n + 1 - m : Flush(fl)[i] = ids[m + i - 1]
  BY <1>3, <1>6, <1>7
<1> QED BY <1>4, <1>8 DEF ids, m, n

\* Going past one id of a flush takes it off what is left, if it is masked.
LEMMA FlushNext ==
  ASSUME NEW fl, NEW fm, fl.ids \in Seq(UpdateIds), fl.next \in 1 .. Len(fl.ids),
         \A j, k \in DOMAIN fl.ids : fl.mask[j] /\ j < k => fl.mask[k],
         fm.ids = fl.ids, fm.mask = fl.mask, fm.next = fl.next + 1
  PROVE  IF fl.mask[fl.next]
         THEN /\ Flush(fl) # <<>> /\ Head(Flush(fl)) = fl.ids[fl.next]
              /\ Flush(fm) = Tail(Flush(fl))
         ELSE Flush(fm) = Flush(fl)
<1> DEFINE n == Len(fl.ids)
           m == fl.next
<1>1. n \in Nat /\ m \in 1 .. n /\ DOMAIN fl.ids = 1 .. n /\ fm.next = m + 1 /\ fm.next \in 1 .. n + 1
  OBVIOUS
<1>2. /\ Left(fl) = {k \in m .. n : fl.mask[k]}
      /\ Left(fm) = {k \in m + 1 .. n : fl.mask[k]}
  BY DEF Left
<1>3. /\ From(fl) \in m .. n + 1 /\ (From(fl) \in Left(fl) \/ From(fl) = n + 1)
      /\ \A j \in Left(fl) : From(fl) <= j
      /\ From(fm) \in m + 1 .. n + 1 /\ (From(fm) \in Left(fm) \/ From(fm) = n + 1)
      /\ \A j \in Left(fm) : From(fm) <= j
  BY <1>1, FromFinds
<1>4. CASE fl.mask[m]
  <2>1. From(fl) = m
    <3>1. m \in Left(fl)
      BY <1>1, <1>2, <1>4
    <3> QED BY <1>1, <1>3, <3>1
  <2>2. From(fm) = m + 1
    <3>1. CASE m = n
      BY <1>1, <1>3, <3>1
    <3>2. CASE m < n
      <4>1. fl.mask[m + 1] /\ m + 1 \in m + 1 .. n
        BY <1>1, <1>4, <3>2
      <4>2. m + 1 \in Left(fm)
        BY <1>2, <4>1
      <4> QED BY <1>1, <1>3, <4>2
    <3> QED BY <1>1, <3>1, <3>2
  <2>3. Flush(fl) = SubSeq(fl.ids, m, n) /\ Flush(fm) = SubSeq(fl.ids, m + 1, n)
    BY <2>1, <2>2 DEF Flush
  <2>4. n \in m .. n
    BY <1>1
  <2>5. Head(SubSeq(fl.ids, m, n)) = fl.ids[m]
        /\ Tail(SubSeq(fl.ids, m, n)) = SubSeq(fl.ids, m + 1, n)
    BY <1>1, <2>4, HeadTailOfSubSeq
  <2>6. Flush(fl) # <<>>
    <3>1. Len(Flush(fl)) = n + 1 - m /\ Flush(fl) \in Seq(UpdateIds)
      BY <1>1, <2>1, FlushIs
    <3> QED BY <1>1, <3>1
  <2> QED BY <1>4, <2>3, <2>5, <2>6
<1>5. CASE ~fl.mask[m]
  <2>1. Left(fm) = Left(fl)
    BY <1>1, <1>2, <1>5
  <2>2. From(fm) = From(fl)
    BY <2>1 DEF From
  <2> QED BY <1>5, <2>2 DEF Flush
<1> QED BY <1>4, <1>5

\* An id of a fallback batch is masked when the ledger does not know it, or
\* has it behind the emitted entries; what follows a masked id is masked.
LEMMA FallbackMask ==
  ASSUME NEW L \in Seq(Entries), NEW ids \in Seq(UpdateIds), FallbackOK(L, ids),
         NEW a \in 0 .. Len(L), EmittedFirst(L, a)
  PROVE  /\ \A k \in DOMAIN ids :
              EmitMask(L, ids)[k] <=> (Has(L, ids[k]) => At(L, ids[k]) > a)
         /\ \A j, k \in DOMAIN ids : EmitMask(L, ids)[j] /\ j < k => EmitMask(L, ids)[k]
<1> DEFINE mask == EmitMask(L, ids)
<1>1. ASSUME NEW k \in DOMAIN ids
      PROVE  mask[k] <=> (Has(L, ids[k]) => At(L, ids[k]) > a)
  <2>1. mask[k] <=> ~Has(L, ids[k]) \/ ~Emitted(L[At(L, ids[k])])
    BY DEF EmitMask
  <2>2. CASE Has(L, ids[k])
    <3>1. At(L, ids[k]) \in DOMAIN L /\ DOMAIN L = 1 .. Len(L)
      BY <2>2, AtFinds
    <3>2. At(L, ids[k]) <= a <=> Emitted(L[At(L, ids[k])])
      BY <3>1 DEF EmittedFirst
    <3> QED BY <2>1, <2>2, <3>1, <3>2
  <2>3. CASE ~Has(L, ids[k])
    BY <2>1, <2>3
  <2> QED BY <2>2, <2>3
<1> HIDE DEF mask
<1>2. ASSUME NEW j \in DOMAIN ids, NEW k \in DOMAIN ids, mask[j], j < k
      PROVE  mask[k]
  <2> SUFFICES ASSUME Has(L, ids[k]) PROVE At(L, ids[k]) > a
    BY <1>1
  <2>1. j \in 1 .. k - 1
    BY <1>2
  <2>2. Has(L, ids[j]) /\ At(L, ids[j]) < At(L, ids[k])
    BY <2>1 DEF FallbackOK, NoOvertaking
  <2>3. At(L, ids[j]) > a
    BY <1>1, <1>2, <2>2
  <2>4. At(L, ids[j]) \in 1 .. Len(L) /\ At(L, ids[k]) \in 1 .. Len(L)
    BY <2>2, AtFinds
  <2> QED BY <2>2, <2>3, <2>4
<1> QED BY <1>1, <1>2 DEF mask

\* A fallback batch names neighbours of the ledger that are both left side by
\* side.
LEMMA FallbackNeighbours ==
  ASSUME NEW L \in Seq(Entries), Unique(L), NEW ids \in Seq(UpdateIds), FallbackOK(L, ids),
         NEW p \in DOMAIN L, p + 1 \in DOMAIN L, ~Emitted(L[p]), ~Emitted(L[p + 1]),
         NEW k \in DOMAIN ids, ids[k] = L[p].id
  PROVE  k + 1 \in DOMAIN ids /\ ids[k + 1] = L[p + 1].id
<1>1. DOMAIN ids = 1 .. Len(ids) /\ DOMAIN L = 1 .. Len(L) /\ Len(ids) \in Nat
  OBVIOUS
<1>2. PICK q \in DOMAIN ids : ids[q] = L[p + 1].id
  BY DEF FallbackOK
<1>3. /\ Has(L, ids[k]) /\ At(L, ids[k]) = p
      /\ Has(L, ids[q]) /\ At(L, ids[q]) = p + 1
  BY <1>2, AtIsPosition
<1>4. k < q
  <2>1. p \in 1 .. At(L, ids[q]) - 1
    BY <1>1, <1>3
  <2>2. PICK j \in 1 .. q - 1 : ids[j] = L[p].id
    BY <1>3, <2>1 DEF FallbackOK, NoOvertaking
  <2>3. j = k
    <3>1. j \in DOMAIN ids
      BY <1>1
    <3> QED BY <2>2, <3>1 DEF FallbackOK, Distinct
  <2> QED BY <1>1, <2>3
<1>5. ASSUME k + 1 < q PROVE FALSE
  <2> DEFINE j == k + 1
  <2>1. j \in DOMAIN ids /\ j \in 1 .. q - 1 /\ k \in 1 .. j - 1
    BY <1>1, <1>5
  <2> HIDE DEF j
  <2>2. Has(L, ids[j]) /\ At(L, ids[j]) < p + 1
    BY <1>3, <2>1 DEF FallbackOK, NoOvertaking
  <2>3. p < At(L, ids[j])
    BY <1>3, <2>1, <2>2 DEF FallbackOK, NoOvertaking
  <2>4. At(L, ids[j]) \in DOMAIN L
    BY <2>2, AtFinds
  <2> QED BY <1>1, <2>2, <2>3, <2>4
<1>6. q = k + 1
  BY <1>1, <1>4, <1>5
<1> QED BY <1>2, <1>6

\* So a fallback flush owes what the ledger owed first, in the same order.
LEMMA FallbackCovers ==
  ASSUME NEW L \in Seq(Entries), Unique(L), NEW ids \in Seq(UpdateIds), FallbackOK(L, ids),
         NEW a \in 0 .. Len(L), EmittedFirst(L, a),
         NEW fl, fl.ids = ids, fl.mask = EmitMask(L, ids), fl.next = 1
  PROVE  \A i \in 1 .. Len(L) - a :
           From(fl) + i - 1 \in DOMAIN ids /\ ids[From(fl) + i - 1] = L[a + i].id
<1> DEFINE from == From(fl)
           Placed(i) == from + i - 1 \in DOMAIN ids /\ ids[from + i - 1] = L[a + i].id
           T == {i \in 1 .. Len(L) - a : ~Placed(i)}
<1>1. DOMAIN ids = 1 .. Len(ids) /\ DOMAIN L = 1 .. Len(L) /\ Len(ids) \in Nat /\ Len(L) \in Nat
  OBVIOUS
<1>2. /\ from \in 1 .. Len(ids) + 1 /\ (from \in Left(fl) \/ from = Len(ids) + 1)
      /\ \A j \in Left(fl) : from <= j
      /\ Left(fl) = {k \in 1 .. Len(ids) : fl.mask[k]}
  <2>1. fl.next \in 1 .. Len(ids) + 1 /\ Len(fl.ids) = Len(ids)
    BY <1>1
  <2> QED BY <1>1, <2>1, FromFinds DEF Left
<1>3. \A k \in DOMAIN ids : fl.mask[k] <=> (Has(L, ids[k]) => At(L, ids[k]) > a)
  BY FallbackMask
<1>4. \A i \in 1 .. Len(L) - a : a + i \in DOMAIN L /\ ~Emitted(L[a + i])
  <2> TAKE i \in 1 .. Len(L) - a
  <2>1. a + i \in DOMAIN L /\ ~(a + i <= a)
    BY <1>1
  <2> QED BY <2>1 DEF EmittedFirst
<1> HIDE DEF from
<1>5. ASSUME 1 \in 1 .. Len(L) - a PROVE Placed(1)
  <2>1. PICK k \in DOMAIN ids : ids[k] = L[a + 1].id
    BY <1>4, <1>5 DEF FallbackOK
  <2>2. Has(L, ids[k]) /\ At(L, ids[k]) = a + 1
    BY <1>4, <1>5, <2>1, AtIsPosition
  <2>3. k \in Left(fl)
    BY <1>1, <1>2, <1>3, <2>2
  <2>4. from <= k /\ from \in Left(fl) /\ from \in DOMAIN ids
    BY <1>1, <1>2, <2>3
  <2>5. ASSUME from < k PROVE FALSE
    <3>1. Has(L, ids[from]) /\ At(L, ids[from]) < a + 1
      BY <1>1, <1>2, <2>2, <2>5 DEF FallbackOK, NoOvertaking
    <3>2. At(L, ids[from]) > a
      BY <1>2, <1>3, <2>4, <3>1
    <3>3. At(L, ids[from]) \in DOMAIN L
      BY <3>1, AtFinds
    <3> QED BY <1>1, <3>1, <3>2, <3>3
  <2>6. from = k /\ from + 1 - 1 = from
    BY <1>1, <1>2, <2>4, <2>5
  <2> QED BY <2>1, <2>6
<1>6. ASSUME NEW i \in 1 .. Len(L) - a, i + 1 \in 1 .. Len(L) - a, Placed(i)
      PROVE  Placed(i + 1)
  <2>1. /\ from + (i + 1) - 1 = (from + i - 1) + 1
        /\ a + (i + 1) = (a + i) + 1
    BY <1>1, <1>2
  <2>2. a + i \in DOMAIN L /\ (a + i) + 1 \in DOMAIN L
        /\ ~Emitted(L[a + i]) /\ ~Emitted(L[(a + i) + 1])
    BY <1>4, <1>6, <2>1
  <2>3. (from + i - 1) + 1 \in DOMAIN ids /\ ids[(from + i - 1) + 1] = L[(a + i) + 1].id
    BY <1>6, <2>2, FallbackNeighbours
  <2> QED BY <2>1, <2>3
<1>7. T = {}
  <2> SUFFICES ASSUME T # {} PROVE FALSE
    OBVIOUS
  <2>1. PICK i \in T : \A j \in T : i <= j
    <3>1. T \in SUBSET Nat
      OBVIOUS
    <3> HIDE DEF T
    <3> QED BY <3>1, NatMin
  <2>2. i \in 1 .. Len(L) - a /\ ~Placed(i)
    BY <2>1
  <2>3. i # 1
    BY <1>5, <2>2
  <2>4. i - 1 \in 1 .. Len(L) - a /\ ~(i <= i - 1) /\ (i - 1) + 1 = i
    BY <1>1, <2>2, <2>3
  <2>5. Placed(i - 1)
    <3> HIDE DEF Placed
    <3> QED BY <2>1, <2>4
  <2>6. Placed((i - 1) + 1)
    <3> HIDE DEF Placed
    <3> QED BY <1>6, <2>2, <2>4, <2>5
  <2> HIDE DEF Placed
  <2> QED BY <2>2, <2>4, <2>6
<1> QED BY <1>7 DEF from

\* A fallback flush admits what it names beyond the ledger, and owes the rest
\* as before.
LEMMA FallbackFlushAdmits ==
  ASSUME IInv, NEW ids \in IdBatches \cup {<<>>}, FallbackFlush(ids)
  PROVE  DeliveryStep /\ FallbackSorted'
<1> DEFINE L == ledger
           a == Applied
           mask == EmitMask(ledger, ids)
           f == flight'
<1>1. /\ flight.kind = "none" /\ ~Batch /\ FallbackOK(L, ids)
      /\ f.kind = "fallback" /\ f.ids = ids /\ f.mask = mask /\ f.next = 1
      /\ log' = log /\ epoch' = epoch
  BY DEF FallbackFlush, EnterLegacy, ClearLedger, Reservation, FallbackOK, NoFlight, Batch
<1>2. ids \in Seq(UpdateIds) /\ DOMAIN ids = 1 .. Len(ids) /\ Len(ids) \in Nat
  <2>1. CASE ids \in IdBatches
    BY <2>1, BatchIsSeq
  <2>2. CASE ids = <<>>
    BY <2>2
  <2> QED BY <2>1, <2>2
<1>3. /\ L \in Seq(Entries) /\ Unique(L) /\ a \in 0 .. Len(L)
      /\ EmittedFirst(L, a)
  BY <1>1, InvFacts DEF IInv, AppliedPrefix, Done, EmittedFirst
<1>4. /\ \A k \in DOMAIN ids : mask[k] <=> (Has(L, ids[k]) => At(L, ids[k]) > a)
      /\ \A j, k \in DOMAIN ids : mask[j] /\ j < k => mask[k]
  BY <1>1, <1>2, <1>3, FallbackMask
<1>5. FallbackSorted'
  BY <1>1, <1>4 DEF FallbackSorted
<1>6. OwedIds = Rest(L, a) /\ OwedIds' = Flush(f)
  BY <1>1, OwedModes
<1>7. \A i \in 1 .. Len(L) - a : From(f) + i - 1 \in DOMAIN ids
                                /\ ids[From(f) + i - 1] = L[a + i].id
  BY <1>1, <1>2, <1>3, FallbackCovers
<1>8. FallbackFresh' /\ Distinct(ids)
  BY <1>1, FallbackFlushStep DEF IInv, FallbackOK
<1> HIDE DEF L, a, mask, f
<1>9. /\ From(f) \in 1 .. Len(ids) + 1 /\ OwedIds' \in Seq(UpdateIds)
      /\ Len(OwedIds') = Len(ids) + 1 - From(f)
      /\ \A k \in 1 .. Len(ids) + 1 - From(f) : OwedIds'[k] = ids[From(f) + k - 1]
  <2>1. f.ids \in Seq(UpdateIds) /\ f.next \in 1 .. Len(f.ids) + 1
    BY <1>1, <1>2
  <2> QED BY <1>1, <1>6, <2>1, FlushIs
<1>10. /\ OwedIds \in Seq(UpdateIds) /\ Len(OwedIds) = Len(L) - a
       /\ \A k \in 1 .. Len(L) - a : OwedIds[k] = L[a + k].id
  BY <1>3, <1>6, RestIs
<1>11. Len(L) - a <= Len(ids) + 1 - From(f)
  <2>1. Len(L) - a \in Nat
    BY <1>3
  <2>2. CASE Len(L) - a = 0
    BY <1>2, <1>9, <2>2
  <2>3. CASE Len(L) - a # 0
    <3>1. Len(L) - a \in 1 .. Len(L) - a
      BY <2>1, <2>3
    <3>2. From(f) + (Len(L) - a) - 1 \in DOMAIN ids
      BY <1>7, <3>1
    <3> QED BY <1>2, <1>9, <2>1, <3>2
  <2> QED BY <2>2, <2>3
<1>12. \A k \in 1 .. Len(OwedIds) : OwedIds'[k] = OwedIds[k]
  <2> TAKE k \in 1 .. Len(OwedIds)
  <2>1. k \in 1 .. Len(L) - a
    BY <1>10
  <2>2. k \in 1 .. Len(ids) + 1 - From(f)
    <3>1. Len(L) - a \in Nat
      BY <1>3
    <3> QED BY <1>2, <1>9, <1>11, <2>1, <3>1
  <2> QED BY <1>7, <1>9, <1>10, <2>1, <2>2
<1>13. \A k \in 1 .. Len(OwedIds') :
         /\ From(f) + k - 1 \in DOMAIN ids /\ mask[From(f) + k - 1]
         /\ OwedIds'[k] = ids[From(f) + k - 1]
  <2> TAKE k \in 1 .. Len(OwedIds')
  <2>1. From(f) + k - 1 \in From(f) .. Len(ids) /\ From(f) \in DOMAIN ids
        /\ From(f) + k - 1 \in DOMAIN ids
    BY <1>2, <1>9
  <2>2. mask[From(f)]
    <3>1. From(f) \in Left(f) \/ From(f) = Len(ids) + 1
      BY <1>1, <1>2, FromFinds
    <3> QED BY <1>1, <1>2, <2>1, <3>1 DEF Left
  <2>3. mask[From(f) + k - 1]
    <3>1. CASE From(f) + k - 1 = From(f)
      BY <2>2, <3>1
    <3>2. CASE From(f) + k - 1 # From(f)
      <4>1. From(f) < From(f) + k - 1
        BY <1>2, <1>9, <2>1, <3>2
      <4> QED BY <1>4, <2>1, <2>2, <4>1
    <3> QED BY <3>1, <3>2
  <2> QED BY <1>9, <2>1, <2>3
<1>14. \A k \in 1 .. Len(OwedIds') : \A j \in DOMAIN log : log[j] # OwedIds'[k]
  <2> TAKE k \in 1 .. Len(OwedIds')
  <2>1. From(f) + k - 1 \in 1 .. Len(ids) /\ mask[From(f) + k - 1]
        /\ OwedIds'[k] = ids[From(f) + k - 1]
    BY <1>2, <1>13
  <2>2. \A m \in 1 .. Len(ids) : mask[m] => \A j \in DOMAIN log : log[j] # ids[m]
    BY <1>1, <1>8 DEF FallbackFresh, f
  <2> QED BY <2>1, <2>2
<1>15. \A j, k \in 1 .. Len(OwedIds') : OwedIds'[j] = OwedIds'[k] => j = k
  <2> TAKE j, k \in 1 .. Len(OwedIds')
  <2> HAVE OwedIds'[j] = OwedIds'[k]
  <2>1. From(f) + j - 1 = From(f) + k - 1
    BY <1>8, <1>13 DEF Distinct
  <2> QED BY <1>2, <1>9, <2>1
<1>16. Len(OwedIds) <= Len(OwedIds')
  BY <1>9, <1>10, <1>11
<1> QED BY <1>1, <1>5, <1>9, <1>10, <1>12, <1>14, <1>15, <1>16, AdmitStep

\* Applying the next id of a fallback flush.
LEMMA FallbackApplies ==
  ASSUME IInv, FallbackSorted, flight.kind = "fallback", ApplyNext
  PROVE  DeliveryStep /\ FallbackSorted'
<1>1. /\ flight \in [kind : {"release", "replay", "fallback"},
                     ids : Seq(UpdateIds), mask : Seq(BOOLEAN), next : Nat]
      /\ flight.next \in 1 .. Len(flight.ids) /\ Len(flight.ids) \in Nat
  BY DEF IInv, TypeOK, ApplyNext
<1>2. /\ flight'.kind = "fallback" /\ flight'.ids = flight.ids
      /\ flight'.mask = flight.mask /\ flight'.next = flight.next + 1
      /\ UNCHANGED epoch
      /\ log' = IF flight.mask[flight.next] THEN Append(log, flight.ids[flight.next]) ELSE log
  BY <1>1 DEF ApplyNext
<1>3. FallbackSorted'
  BY <1>2 DEF FallbackSorted
<1>4. OwedIds = Flush(flight) /\ OwedIds' = Flush(flight')
  BY <1>2, OwedModes
<1>5. \A j, k \in DOMAIN flight.ids : flight.mask[j] /\ j < k => flight.mask[k]
  BY DEF FallbackSorted
<1>6. IF flight.mask[flight.next]
      THEN /\ Flush(flight) # <<>> /\ Head(Flush(flight)) = flight.ids[flight.next]
           /\ Flush(flight') = Tail(Flush(flight))
      ELSE Flush(flight') = Flush(flight)
  BY <1>1, <1>2, <1>5, FlushNext
<1>7. CASE flight.mask[flight.next]
  BY <1>2, <1>3, <1>4, <1>6, <1>7, ApplyStep
<1>8. CASE ~flight.mask[flight.next]
  BY <1>2, <1>3, <1>4, <1>6, <1>8 DEF DeliveryStep, Delivery!vars
<1> QED BY <1>7, <1>8

\* A flush that has gone past its last id owes nothing.
LEMMA FallbackEnds ==
  ASSUME IInv, IInv', CompleteFallback
  PROVE  DeliveryStep
<1>1. flight.ids \in Seq(UpdateIds) /\ Len(flight.ids) \in Nat
      /\ flight.kind = "fallback" /\ flight.next = Len(flight.ids) + 1
  BY DEF CompleteFallback, IInv, TypeOK, NoFlight
<1>2. From(flight) = Len(flight.ids) + 1
  BY <1>1, FromFinds
<1>3. Flush(flight) \in Seq(UpdateIds) /\ Len(Flush(flight)) = 0
  BY <1>1, <1>2, FlushIs
<1>4. OwedIds = <<>>
  <2>1. Flush(flight) = <<>>
    BY <1>3, EmptySeq
  <2> QED BY <1>1, <2>1, OwedModes
<1>5. /\ flight'.kind # "fallback" /\ ledger' = <<>> /\ log' = log /\ base' = Len(log')
      /\ UNCHANGED epoch
  BY DEF CompleteFallback, NoFlight, IInv, LegacyEmpty
<1> QED BY <1>4, <1>5, ClearedStep

-----------------------------------------------------------------------------
(* The ledger's steps. *)

\* A step that keeps the ledger, the log and the flight's mode.
LEMMA SameStep ==
  ASSUME IInv, IInv', flight.kind # "fallback", flight'.kind # "fallback",
         UNCHANGED <<ledger, log, base, epoch>>
  PROVE  DeliveryStep
BY GrowStep, InvFacts

\* Discarding the suffix keeps what is owed.
LEMMA DiscardOwes ==
  ASSUME IInv, IInv', flight.kind # "fallback", ledger' = Discard(ledger),
         UNCHANGED <<flight, log, base, epoch>>
  PROVE  DeliveryStep
<1>1. /\ Len(ledger') = Len(ledger) /\ Len(ledger) \in Nat
      /\ \A i \in DOMAIN ledger : ledger'[i].id = ledger[i].id
  BY InvFacts, DiscardKeeps DEF SameUpdates
<1>2. Len(ledger) <= Len(ledger')
  BY <1>1
<1> QED BY <1>1, <1>2, GrowStep

\* Falling back drops an empty ledger, or keeps it for replay.
LEMMA ForceOwes ==
  ASSUME IInv, IInv', Control, UNCHANGED epoch, ForceLegacy \/ RecoverOrForce
  PROVE  DeliveryStep
<1>1. flight = NoFlight /\ UNCHANGED <<flight, log>> /\ flight.kind # "fallback"
      /\ flight'.kind # "fallback"
  BY DEF Control, NoFlight
<1>2. CASE EnterLegacy /\ ledger = <<>>
  <2>1. ledger' = <<>> /\ base' = Len(log')
    BY <1>1, <1>2 DEF EnterLegacy, ClearLedger
  <2>2. AllCommitted(ledger)
    BY <1>2 DEF AllCommitted
  <2>3. OwedIds = <<>>
    BY <1>1, <2>2, CommittedOwesNothing
  <2> QED BY <1>1, <2>1, <2>3, ClearedStep
<1>3. CASE ~(EnterLegacy /\ ledger = <<>>)
  <2>1. ledger' = Discard(ledger) /\ UNCHANGED base
    BY <1>1, <1>3, NoFlightRecovery DEF ForceLegacy, RecoverOrForce
  <2> QED BY <1>1, <2>1, DiscardOwes
<1> QED BY <1>2, <1>3

\* A control packet clears a ledger that owes nothing, keeps what is owed, or
\* restarts the protocol.
LEMMA ControlOwes ==
  ASSUME IInv, IInv', ControlPacket
  PROVE  DeliveryStep
<1>1. flight = NoFlight /\ UNCHANGED <<flight, log>> /\ flight.kind # "fallback"
      /\ flight'.kind # "fallback"
  BY DEF ControlPacket, Control, NoFlight, Negotiate, NoteInterval, Advance, LearnComplete,
         MatchComplete, FastPeriodComplete, Mismatch, RecoveryComplete, WireError,
         SessionReset, SessionTeardown
<1>2. CASE Negotiate \/ SessionReset \/ SessionTeardown
  <2>1. ledger' = <<>> /\ base' = Len(log') /\ epoch' = epoch + 1
    BY <1>1, <1>2 DEF Negotiate, SessionReset, SessionTeardown, EnterLegacy, ClearLedger
  <2> QED BY <1>1, <2>1, ClearedStep
<1>3. ASSUME NEW found \in BOOLEAN, NoteInterval(found) PROVE DeliveryStep
  <2>1. CASE Ready
    BY <1>1, <1>3, <2>1, SameStep DEF NoteInterval
  <2> QED BY <1>3, <2>1, ForceOwes DEF NoteInterval
<1>4. ASSUME NEW from, NEW to, NEW ok \in BOOLEAN, Advance(from, to, ok) PROVE DeliveryStep
  <2>1. CASE CanProgress /\ stage = from /\ ok
    BY <1>1, <1>4, <2>1, SameStep DEF Advance
  <2> QED BY <1>4, <2>1, ForceOwes DEF Advance
<1>5. ASSUME AllCommitted(ledger), ClearLedger, UNCHANGED epoch PROVE DeliveryStep
  <2>1. OwedIds = <<>>
    BY <1>1, <1>5, CommittedOwesNothing
  <2>2. ledger' = <<>> /\ base' = Len(log')
    BY <1>1, <1>5 DEF ClearLedger
  <2> QED BY <1>1, <1>5, <2>1, <2>2, ClearedStep
<1>6. ASSUME NEW ok \in BOOLEAN, FastPeriodComplete(ok) PROVE DeliveryStep
  <2>1. Control /\ UNCHANGED epoch
        /\ ((AllCommitted(ledger) /\ ClearLedger) \/ ForceLegacy \/ RecoverOrForce)
    BY <1>6 DEF FastPeriodComplete
  <2> QED BY <1>5, <2>1, ForceOwes
<1>7. CASE Mismatch \/ WireError
  BY <1>7, ForceOwes DEF Mismatch, WireError
<1>8. CASE RecoveryComplete
  <2>1. Control /\ UNCHANGED epoch /\ ((AllCommitted(ledger) /\ ClearLedger) \/ ForceLegacy)
    BY <1>8 DEF RecoveryComplete
  <2> QED BY <1>5, <2>1, ForceOwes
<1> QED
  BY <1>2, <1>3, <1>4, <1>6, <1>7, <1>8 DEF ControlPacket, LearnComplete, MatchComplete

\* Changing the states of entries keeps what is owed, unless an update is
\* applied with it: then it is the oldest.
LEMMA StatesOwe ==
  ASSUME IInv, IInv', flight.kind # "fallback", flight'.kind # "fallback",
         UNCHANGED <<base, epoch>>, SameUpdates(ledger, ledger'),
         log' = log \/ \E u \in UpdateIds : log' = Append(log, u)
  PROVE  DeliveryStep
<1>1. /\ Len(ledger') = Len(ledger) /\ Len(ledger) <= Len(ledger')
      /\ \A i \in DOMAIN ledger : ledger'[i].id = ledger[i].id
  BY InvFacts DEF SameUpdates
<1>2. CASE log' = log
  BY <1>1, <1>2, GrowStep
<1>3. ASSUME NEW u \in UpdateIds, log' = Append(log, u) PROVE DeliveryStep
  BY <1>1, <1>3, AppliesStep
<1> QED BY <1>2, <1>3

\* Every operation outside a fallback flush is a step of UpdateDelivery.
LEMMA OperationOwes ==
  ASSUME IInv, IInv', flight.kind # "fallback", LedgerOperation,
         ~\E ids \in IdBatches \cup {<<>>} : FallbackFlush(ids)
  PROVE  DeliveryStep /\ flight'.kind # "fallback"
<1> USE InvFacts
<1>1. ASSUME NEW u \in UpdateIds, NEW s \in SubmissionIds, Prepare(u, s)
      PROVE  DeliveryStep /\ flight'.kind # "fallback"
  <2>1. /\ UNCHANGED <<flight, log, base, epoch>>
        /\ ledger' = Append(ledger, Entry(u, s, "PREPARED"))
    BY <1>1 DEF Prepare
  <2>2. Entry(u, s, "PREPARED") \in Entries
    BY DEF Entry, Entries, LedgerStates, IdleStates
  <2>3. Len(ledger) <= Len(ledger') /\ \A i \in DOMAIN ledger : ledger'[i].id = ledger[i].id
    BY <2>1, <2>2
  <2> QED BY <2>1, <2>3, GrowStep
<1>2. ASSUME NEW u \in UpdateIds, MarkReady(u) \/ Commit(u)
      PROVE  DeliveryStep /\ flight'.kind # "fallback"
  <2>1. PICK p \in DOMAIN ledger : p = At(ledger, u)
    BY <1>2, AtFinds DEF MarkReady, Commit
  <2>2. PICK st \in LedgerStates : ledger' = SetState(ledger, p, st)
    BY <1>2, <2>1 DEF MarkReady, Commit, LedgerStates, IdleStates, EmittedStates
  <2>3. SameUpdates(ledger, ledger')
    BY <2>2, SetStateKeeps
  <2>4. UNCHANGED <<flight, base, epoch>> /\ (log' = log \/ log' = Append(log, u))
    BY <1>2 DEF MarkReady, Commit
  <2> QED BY <2>3, <2>4, StatesOwe
<1>3. ASSUME NEW ids \in IdBatches, BeginReleaseBatch(ids)
      PROVE  DeliveryStep /\ flight'.kind # "fallback"
  <2>1. "RELEASE_IN_FLIGHT" \in LedgerStates
    BY DEF LedgerStates, InFlightStates
  <2>2. /\ ledger' = SetStates(ledger, ids, EmitMask(ledger, ids), "RELEASE_IN_FLIGHT")
        /\ UNCHANGED <<log, base, epoch>> /\ flight'.kind # "fallback"
    BY <1>3 DEF BeginReleaseBatch, Reservation
  <2>3. SameUpdates(ledger, ledger')
    BY <2>1, <2>2, SetStatesKeeps
  <2> QED BY <2>2, <2>3, StatesOwe
<1>4. ASSUME NEW ids \in IdBatches, NEW subs \in [DOMAIN ids -> SubmissionIds],
             BeginReplayBatch(ids, subs)
      PROVE  DeliveryStep /\ flight'.kind # "fallback"
  <2> DEFINE W == WithMissing(ledger, ids, subs)
  <2>1. "REPLAY_IN_FLIGHT" \in LedgerStates /\ MaxLedgerEntries \in Nat
    BY LedgerAssumption DEF LedgerStates, InFlightStates
  <2>2. /\ ReplayBatchOK(ledger, ids, subs, MaxLedgerEntries)
        /\ ledger' = SetStates(W, ids, EmitMask(ledger, ids), "REPLAY_IN_FLIGHT")
        /\ UNCHANGED <<log, base, epoch>> /\ flight'.kind # "fallback"
    BY <1>4 DEF BeginReplayBatch, Reservation
  <2>3. ids \in Seq(UpdateIds) /\ Len(ids) \in Nat
    BY BatchIsSeq
  <2>4. PICK n \in 0 .. Len(ids) :
          /\ W \in Seq(Entries) /\ Len(W) = Len(ledger) + (Len(ids) - n)
          /\ \A i \in DOMAIN ledger : W[i] = ledger[i]
    BY <2>1, <2>2, <2>3, MissingKeeps
  <2> HIDE DEF W
  <2>5. SameUpdates(W, ledger')
    BY <2>1, <2>2, <2>4, SetStatesKeeps
  <2>6. Len(ledger) <= Len(W) /\ DOMAIN ledger \subseteq DOMAIN W
    BY <2>3, <2>4
  <2>7. Len(ledger) <= Len(ledger') /\ \A i \in DOMAIN ledger : ledger'[i].id = ledger[i].id
    BY <2>4, <2>5, <2>6 DEF SameUpdates
  <2> QED BY <2>2, <2>7, GrowStep
<1>5. CASE ApplyNext
  <2>1. /\ UNCHANGED <<ledger, base, epoch>> /\ flight'.kind = flight.kind
        /\ log' = log \/ \E u \in UpdateIds : log' = Append(log, u)
    BY <1>5, FlightKinds DEF ApplyNext, IInv, TypeOK
  <2>2. SameUpdates(ledger, ledger')
    BY <2>1 DEF SameUpdates
  <2> QED BY <2>1, <2>2, StatesOwe
<1>6. ASSUME NEW emitted \in BOOLEAN, CompleteBatch(emitted)
      PROVE  DeliveryStep /\ flight'.kind # "fallback"
  <2>1. PICK st : st = IF emitted THEN AppliedOf(flight.kind) ELSE RefusedOf(flight.kind)
    OBVIOUS
  <2>2. /\ ledger' = SetStates(ledger, flight.ids, flight.mask, st)
        /\ UNCHANGED <<log, base, epoch>> /\ flight'.kind # "fallback"
    BY <1>6, <2>1 DEF CompleteBatch, NoFlight
  <2>3. st \in LedgerStates
    BY <2>1 DEF AppliedOf, RefusedOf, LedgerStates, EmittedStates, IdleStates
  <2>4. SameUpdates(ledger, ledger')
    BY <2>2, <2>3, SetStatesKeeps
  <2> QED BY <2>2, <2>4, StatesOwe
<1>7. CASE BeginRecovery
  BY <1>7, DiscardOwes DEF BeginRecovery
<1>8. ~CompleteFallback
  BY DEF CompleteFallback
<1> QED
  BY <1>1, <1>2, <1>3, <1>4, <1>5, <1>6, <1>7, <1>8 DEF LedgerOperation

\* While a fallback flush runs, only its own steps can change anything.
LEMMA FlushOwes ==
  ASSUME IInv, IInv', FallbackSorted, flight.kind = "fallback", LedgerOperation
  PROVE  DeliveryStep /\ FallbackSorted'
<1>1. flight # NoFlight /\ ledger = <<>> /\ stage = "LEGACY" /\ ~Batch
  BY DEF NoFlight, IInv, LegacyEmpty, Batch
<1>2. /\ \A u \in UpdateIds : ~MarkReady(u) /\ ~Commit(u)
      /\ \A u \in UpdateIds, s \in SubmissionIds : ~Prepare(u, s)
      /\ \A ids : ~BeginReleaseBatch(ids) /\ ~FallbackFlush(ids)
      /\ \A ids, subs : ~BeginReplayBatch(ids, subs)
      /\ \A emitted \in BOOLEAN : ~CompleteBatch(emitted)
      /\ ~BeginRecovery
  BY <1>1 DEF MarkReady, Commit, Has, Prepare, Learned, BeginReleaseBatch, FallbackFlush,
              BeginReplayBatch, CompleteBatch, BeginRecovery
<1>3. CASE ApplyNext
  BY <1>3, FallbackApplies
<1>4. CASE CompleteFallback
  <2>1. FallbackSorted'
    BY <1>4 DEF CompleteFallback, NoFlight, FallbackSorted
  <2> QED BY <1>4, <2>1, FallbackEnds
<1> QED BY <1>2, <1>3, <1>4 DEF LedgerOperation

-----------------------------------------------------------------------------
(* The refinement. *)

\* Every step of the ledger is a step of UpdateDelivery or changes nothing
\* there, and a fallback flush stays sorted.
LEMMA StepImplements ==
  ASSUME IInv, FallbackSorted, [Next]_vars
  PROVE  DeliveryStep /\ FallbackSorted'
<1>1. IInv'
  BY NextIInv
<1>2. CASE ControlPacket
  <2>1. flight'.kind # "fallback"
    BY <1>2 DEF ControlPacket, Control, NoFlight, Negotiate, NoteInterval, Advance,
                LearnComplete, MatchComplete, FastPeriodComplete, Mismatch,
                RecoveryComplete, WireError, SessionReset, SessionTeardown
  <2> QED BY <1>1, <1>2, <2>1, ControlOwes DEF FallbackSorted
<1>3. CASE LedgerOperation
  <2>1. CASE flight.kind = "fallback"
    BY <1>1, <1>3, <2>1, FlushOwes
  <2>2. ASSUME NEW ids \in IdBatches \cup {<<>>}, FallbackFlush(ids)
        PROVE  DeliveryStep /\ FallbackSorted'
    BY <2>2, FallbackFlushAdmits
  <2>3. CASE flight.kind # "fallback" /\ ~\E ids \in IdBatches \cup {<<>>} : FallbackFlush(ids)
    BY <1>1, <1>3, <2>3, OperationOwes DEF FallbackSorted
  <2> QED BY <2>1, <2>2, <2>3
<1>4. CASE UNCHANGED vars
  <2>1. UNCHANGED <<OwedIds, log, epoch>> /\ FallbackSorted'
    BY <1>4 DEF vars, OwedIds, Applied, FallbackSorted
  <2> QED BY <2>1 DEF DeliveryStep, Delivery!vars
<1> QED BY <1>2, <1>3, <1>4 DEF Next

\* The ledger starts where UpdateDelivery starts.
LEMMA InitImplements ==
  ASSUME Init
  PROVE  Delivery!Init /\ FallbackSorted
<1>1. flight.kind # "fallback" /\ Applied = 0 /\ ledger = <<>> /\ log = <<>> /\ epoch = 0
  BY DEF Init, NoFlight, Applied
<1>2. Rest(ledger, Applied) = <<>>
  <2>1. ledger \in Seq(Entries) /\ Applied \in 0 .. Len(ledger) /\ Applied = Len(ledger)
    BY <1>1
  <2> QED BY <2>1, RestIs
<1>3. OwedIds = <<>>
  BY <1>1, <1>2, OwedModes
<1> QED BY <1>1, <1>3 DEF Delivery!Init, FallbackSorted

\* The ledger implements UpdateDelivery, whatever the updates, the batches,
\* the ledger size and the number of restarts: updates are applied in the
\* order they were admitted, one at a time and once, and what is owed is
\* given up only when the guest restarts the protocol.
THEOREM Refines == Spec => ImplementsDelivery
<1>1. Init => Delivery!Init /\ FallbackSorted
  BY InitImplements
<1>2. IInv /\ FallbackSorted /\ [Next]_vars
        => [Delivery!Next]_Delivery!vars /\ FallbackSorted'
  BY StepImplements DEF DeliveryStep
<1> QED BY <1>1, <1>2, Invariance, PTL DEF Spec, ImplementsDelivery, Delivery!Spec

-----------------------------------------------------------------------------
(* The whole interface (FlimeLedgerAPI). *)

\* The parts of the invariant the operations use.
LEMMA APIFacts ==
  ASSUME APIInv
  PROVE  /\ ledger \in Seq(Entries) /\ Unique(ledger)
         /\ DOMAIN ledger = 1 .. Len(ledger) /\ Len(ledger) \in Nat
         /\ Len(ledger) <= MaxLedgerEntries
         /\ \A i \in DOMAIN ledger : ledger[i] \in Entries /\ Fresh(ledger[i].id)
         /\ log \in Seq(UpdateIds) /\ base \in 0 .. Len(log) /\ Len(log) \in Nat
         /\ DOMAIN log = 1 .. Len(log)
         /\ ledger # <<>> => flight.kind # "fallback"
         /\ SessionTyped
<1>1. ledger \in Seq(Entries) /\ log \in Seq(UpdateIds) /\ base \in 0 .. Len(log)
  BY DEF APIInv, TypeOK, Entries
<1>2. \A i \in DOMAIN ledger : ledger[i] \in Entries /\ Fresh(ledger[i].id)
  BY <1>1 DEF APIInv, UniqueIds
<1>3. Unique(ledger)
  BY DEF APIInv, UniqueIds, Unique
<1>4. ledger # <<>> => flight.kind # "fallback"
  BY DEF APIInv, LegacyEmpty
<1>5. SessionTyped /\ Len(ledger) <= MaxLedgerEntries
  BY DEF APIInv, TypeOK, SessionTyped
<1> QED BY <1>1, <1>2, <1>3, <1>4, <1>5

\* An update that is new to a session, and one whose entry is not done, were
\* not applied.
LEMMA NotInLog ==
  ASSUME APIInv, flight.kind # "fallback", NEW u, Fresh(u),
         \A i \in DOMAIN ledger : ledger[i].id = u => ~Done(i)
  PROVE  \A j \in DOMAIN log : log[j] # u
<1> SUFFICES ASSUME NEW j \in DOMAIN log, log[j] = u PROVE FALSE
  OBVIOUS
<1>1. j \in 1 .. Len(log) /\ base \in 0 .. Len(log) /\ Len(log) \in Nat
  BY APIFacts
<1>2. CASE j <= base
  BY <1>1, <1>2 DEF Fresh
<1>3. CASE ~(j <= base)
  <2>1. j \in base + 1 .. Len(log)
    BY <1>1, <1>3
  <2> QED BY <2>1 DEF APIInv, LogInLedger
<1> QED BY <1>2, <1>3

\* What an entry of a reservation is before it is done.
LEMMA NotDone ==
  ASSUME APIInv, NEW p \in DOMAIN ledger, ~Emitted(ledger[p]),
         ledger[p].state \notin InFlightStates
  PROVE  ~Done(p)
<1> SUFFICES ASSUME Batch, NEW k \in 1 .. flight.next - 1, flight.mask[k],
                    flight.ids[k] = ledger[p].id
             PROVE  FALSE
  BY DEF Done
<1>1. k \in DOMAIN flight.ids
  BY FlightKinds DEF APIInv, Batch
<1>2. ledger[At(ledger, flight.ids[k])].state = InFlightOf(flight.kind)
  BY <1>1 DEF APIInv, Reserved, CompletionOK
<1>3. At(ledger, flight.ids[k]) = p
  BY APIFacts, AtIsPosition
<1> QED BY <1>2, <1>3 DEF InFlightOf, InFlightStates

\* The ledger is what it was, with other states and more entries behind: no
\* id twice, none spent, none done taken back.
Grown ==
  /\ ledger' \in Seq(Entries) /\ Unique(ledger')
  /\ Len(ledger) <= Len(ledger') /\ Len(ledger') <= MaxLedgerEntries
  /\ \A i \in DOMAIN ledger : ledger'[i].id = ledger[i].id
  /\ \A i \in DOMAIN ledger : Done(i) => Done(i)'
  /\ \A i \in DOMAIN ledger' : Fresh(ledger'[i].id)
  /\ UNCHANGED base
  /\ stage' = "LEGACY" => ledger' = <<>>
  /\ SessionTyped'

\* The reservation stays, or another one is made.
Flies ==
  /\ \/ flight' = NoFlight
     \/ /\ flight' \in [kind : {"release", "replay", "fallback"},
                        ids : Seq(UpdateIds), mask : Seq(BOOLEAN), next : Nat]
        /\ DOMAIN flight'.mask = DOMAIN flight'.ids
        /\ flight'.next \in 1 .. Len(flight'.ids) + 1
  /\ Reserved' /\ FallbackFresh'
  /\ flight'.kind = "fallback" => flight.kind = "fallback" /\ stage' = "LEGACY"
  /\ flight.kind = "fallback" => flight'.kind = "fallback"

\* A step that applies nothing.
LEMMA QuietStep ==
  ASSUME APIInv, Grown, Flies, log' = log
  PROVE  APIInv'
<1>1. \A v : Fresh(v)' <=> Fresh(v)
  BY DEF Fresh, Grown
<1>2. UniqueIds' /\ LegacyEmpty'
  BY <1>1 DEF Grown, Flies, UniqueIds, Unique, LegacyEmpty
<1>3. LogInLedger'
  <2> SUFFICES ASSUME flight'.kind # "fallback", NEW j \in base + 1 .. Len(log)
               PROVE  \E i \in DOMAIN ledger' : ledger'[i].id = log[j] /\ Done(i)'
    BY DEF Grown, LogInLedger
  <2>1. PICK i \in DOMAIN ledger : ledger[i].id = log[j] /\ Done(i)
    BY DEF APIInv, LogInLedger, Flies
  <2>2. i \in DOMAIN ledger'
    BY APIFacts DEF Grown
  <2> QED BY <2>1, <2>2 DEF Grown
<1>4. TypeOK'
  BY DEF APIInv, TypeOK, Grown, Flies, SessionTyped, Entries
<1> QED BY <1>2, <1>3, <1>4 DEF APIInv, Flies, AppliedOnce

\* A step that applies an update of the ledger, for the first time.
LEMMA LoudStep ==
  ASSUME APIInv, Grown, Flies, NEW u \in UpdateIds, log' = Append(log, u),
         \A j \in DOMAIN log : log[j] # u, flight.kind # "fallback",
         NEW p \in DOMAIN ledger', ledger'[p].id = u, Done(p)'
  PROVE  APIInv'
<1>1. /\ log \in Seq(UpdateIds) /\ base \in 0 .. Len(log) /\ Len(log) \in Nat
      /\ DOMAIN log = 1 .. Len(log) /\ base' = base
  BY APIFacts DEF Grown
<1>2. /\ log' \in Seq(UpdateIds) /\ Len(log') = Len(log) + 1
      /\ DOMAIN log' = 1 .. Len(log) + 1
      /\ log'[Len(log) + 1] = u /\ \A j \in DOMAIN log : log'[j] = log[j]
  BY <1>1
<1>3. \A j \in DOMAIN log' : j \in DOMAIN log \/ j = Len(log) + 1
  BY <1>1, <1>2
<1>4. AppliedOnce'
  <2>1. \A i, j \in DOMAIN log : log[i] = log[j] => i = j
    BY DEF APIInv, AppliedOnce, Distinct
  <2>2. \A i, j \in DOMAIN log' : log'[i] = log'[j] => i = j
    BY <1>2, <1>3, <2>1
  <2> QED BY <2>2 DEF AppliedOnce, Distinct
<1>5. \A v : Fresh(v)' <=> Fresh(v)
  <2>1. \A i \in 1 .. base : i \in DOMAIN log
    BY <1>1
  <2> QED BY <1>1, <1>2, <2>1 DEF Fresh
<1>6. UniqueIds' /\ LegacyEmpty'
  BY <1>5 DEF Grown, Flies, UniqueIds, Unique, LegacyEmpty
<1>7. LogInLedger'
  <2> SUFFICES ASSUME NEW j \in base + 1 .. Len(log) + 1
               PROVE  \E i \in DOMAIN ledger' : ledger'[i].id = log'[j] /\ Done(i)'
    BY <1>1, <1>2 DEF LogInLedger
  <2>1. CASE j = Len(log) + 1
    BY <1>2, <2>1
  <2>2. CASE j # Len(log) + 1
    <3>1. j \in base + 1 .. Len(log) /\ j \in DOMAIN log
      BY <1>1, <2>2
    <3>2. PICK i \in DOMAIN ledger : ledger[i].id = log[j] /\ Done(i)
      BY <3>1 DEF APIInv, LogInLedger
    <3>3. i \in DOMAIN ledger'
      BY APIFacts DEF Grown
    <3> QED BY <1>2, <3>1, <3>2, <3>3 DEF Grown
  <2> QED BY <2>1, <2>2
<1>8. TypeOK'
  <2>1. base' \in 0 .. Len(log')
    BY <1>1, <1>2
  <2> QED BY <1>2, <2>1 DEF APIInv, TypeOK, Grown, Flies, SessionTyped, Entries
<1> QED BY <1>4, <1>6, <1>7, <1>8 DEF APIInv, Flies

\* A ledger that is cleared while nothing is in flight.
LEMMA APIClear ==
  ASSUME APIInv, flight = NoFlight, UNCHANGED <<flight, log>>, ClearLedger, SessionTyped'
  PROVE  APIInv'
<1>1. /\ flight' = NoFlight /\ flight'.kind = "none" /\ ledger' = <<>>
      /\ log' = log /\ base' = Len(log) /\ log \in Seq(UpdateIds) /\ Len(log) \in Nat
  BY APIFacts DEF NoFlight, ClearLedger
<1>2. ledger' \in Seq(Entries) /\ Len(ledger') = 0 /\ DOMAIN ledger' = {}
  BY <1>1
<1>3. TypeOK'
  BY <1>1, <1>2, LedgerAssumption DEF TypeOK, SessionTyped, Entries
<1>4. UniqueIds' /\ LegacyEmpty' /\ Reserved' /\ FallbackFresh'
  BY <1>1, <1>2 DEF UniqueIds, LegacyEmpty, Reserved, FallbackFresh, Batch
<1>5. LogInLedger'
  BY <1>1 DEF LogInLedger
<1>6. AppliedOnce'
  BY <1>1 DEF APIInv, AppliedOnce, Distinct
<1> QED BY <1>3, <1>4, <1>5, <1>6 DEF APIInv

\* Other states, where what is emitted stays emitted and what is in flight
\* stays as it is.
LEMMA Restated ==
  ASSUME APIInv, ledger' \in Seq(Entries), SameUpdates(ledger, ledger'),
         \A i \in DOMAIN ledger : Emitted(ledger[i]) => Emitted(ledger'[i]),
         \A i \in DOMAIN ledger : ledger[i].state \in InFlightStates => ledger'[i] = ledger[i],
         UNCHANGED <<flight, base>>, flight.kind = "fallback" => log' = log /\ stage' = "LEGACY",
         SessionTyped', stage' = "LEGACY" => ledger' = <<>>
  PROVE  Grown /\ Flies
<1>1. /\ DOMAIN ledger' = DOMAIN ledger /\ Unique(ledger') /\ Len(ledger') = Len(ledger)
      /\ \A u : Has(ledger', u) <=> Has(ledger, u)
      /\ \A u : Has(ledger, u) => At(ledger', u) = At(ledger, u)
      /\ \A i \in DOMAIN ledger : ledger'[i].id = ledger[i].id
  BY APIFacts, SameAt DEF SameUpdates
<1>2. \A i \in DOMAIN ledger : Done(i) => Done(i)'
  BY <1>1 DEF Done, Batch
<1>3. Grown
  <2>1. Len(ledger) \in Nat /\ Len(ledger) <= MaxLedgerEntries
        /\ \A i \in DOMAIN ledger : Fresh(ledger[i].id)
    BY APIFacts
  <2> QED BY <1>1, <1>2, <2>1 DEF Grown
<1>4. Reserved'
  <2> SUFFICES ASSUME Batch
               PROVE  CompletionOK(ledger', flight.ids, flight.mask, InFlightOf(flight.kind))
    BY DEF APIInv, Reserved, Batch
  <2>1. CompletionOK(ledger, flight.ids, flight.mask, InFlightOf(flight.kind))
    BY DEF APIInv, Reserved
  <2> SUFFICES ASSUME NEW k \in DOMAIN flight.ids
               PROVE  /\ Has(ledger', flight.ids[k])
                      /\ IF flight.mask[k]
                         THEN ledger'[At(ledger', flight.ids[k])].state = InFlightOf(flight.kind)
                         ELSE Emitted(ledger'[At(ledger', flight.ids[k])])
    BY DEF CompletionOK
  <2>2. Has(ledger, flight.ids[k]) /\ At(ledger', flight.ids[k]) = At(ledger, flight.ids[k])
        /\ At(ledger, flight.ids[k]) \in DOMAIN ledger /\ Has(ledger', flight.ids[k])
    BY <1>1, <2>1, AtFinds DEF CompletionOK
  <2>3. InFlightOf(flight.kind) \in InFlightStates
    BY DEF InFlightOf, InFlightStates
  <2> QED BY <2>1, <2>2, <2>3 DEF CompletionOK
<1>5. FallbackFresh'
  BY DEF APIInv, FallbackFresh
<1>6. \/ flight' = NoFlight
      \/ /\ flight' \in [kind : {"release", "replay", "fallback"},
                        ids : Seq(UpdateIds), mask : Seq(BOOLEAN), next : Nat]
         /\ DOMAIN flight'.mask = DOMAIN flight'.ids
         /\ flight'.next \in 1 .. Len(flight'.ids) + 1
  BY DEF APIInv, TypeOK
<1> QED BY <1>3, <1>4, <1>5, <1>6 DEF Flies

\* Moving between stages with the ledger as it is.
LEMMA APIStage ==
  ASSUME APIInv, UNCHANGED <<ledger, flight, log, base>>, SessionTyped',
         stage' # stage => stage' # "LEGACY" /\ flight.kind # "fallback"
  PROVE  APIInv'
<1>1. stage' = "LEGACY" => ledger' = <<>>
  BY DEF APIInv, LegacyEmpty
<1>2. flight.kind = "fallback" => log' = log /\ stage' = "LEGACY"
  BY DEF APIInv, LegacyEmpty
<1>3. ledger' \in Seq(Entries) /\ SameUpdates(ledger, ledger')
  BY APIFacts DEF SameUpdates
<1>4. Grown /\ Flies
  BY <1>1, <1>2, <1>3, Restated
<1> QED BY <1>4, QuietStep

\* Discarding what is not emitted, when nothing is in flight by its state.
LEMMA APIDiscard ==
  ASSUME APIInv, RecoveryOK(ledger), ledger' = Discard(ledger), stage' # "LEGACY",
         UNCHANGED <<flight, log, base>>, SessionTyped', flight.kind # "fallback"
  PROVE  APIInv'
<1>1. /\ ledger' \in Seq(Entries) /\ SameUpdates(ledger, ledger')
      /\ \A i \in DOMAIN ledger : IF Emitted(ledger[i]) THEN ledger'[i] = ledger[i]
                                  ELSE ledger'[i].state = "DISCARDED"
  BY APIFacts, DiscardKeeps
<1>2. \A i \in DOMAIN ledger : ledger[i].state \notin InFlightStates
  BY DEF RecoveryOK, Emitted, EmittedStates, IdleStates, InFlightStates
<1>3. Grown /\ Flies
  BY <1>1, <1>2, Restated
<1> QED BY <1>3, QuietStep

\* Falling back clears the ledger when it is empty, and keeps it otherwise.
LEMMA APIForce ==
  ASSUME APIInv, Control, UNCHANGED epoch, ForceLegacy
  PROVE  APIInv'
<1>1. flight = NoFlight /\ UNCHANGED <<flight, log>> /\ SessionTyped /\ flight.kind # "fallback"
  BY APIFacts DEF Control, NoFlight
<1>2. CASE EnterLegacy
  <2>1. SessionTyped' /\ ClearLedger
    BY <1>1, <1>2 DEF EnterLegacy, SessionTyped, Stages
  <2> QED BY <1>1, <2>1, APIClear
<1>3. CASE ~EnterLegacy
  <2>1. /\ ledger' = IF RecoveryOK(ledger) THEN Discard(ledger) ELSE ledger
        /\ stage' = "RECOVER" /\ UNCHANGED base /\ SessionTyped'
    BY <1>1, <1>3 DEF ForceLegacy, SessionTyped, Stages
  <2> QED BY <1>1, <2>1, APIDiscard, APIStage
<1> QED BY <1>2, <1>3

\* A recovery that falls back when it is refused.
LEMMA APIRecoverOrForce ==
  ASSUME APIInv, Control, UNCHANGED epoch, RecoverOrForce
  PROVE  APIInv'
<1>1. flight = NoFlight /\ UNCHANGED <<flight, log>> /\ SessionTyped /\ flight.kind # "fallback"
  BY APIFacts DEF Control, NoFlight
<1>2. CASE RecoveryOK(ledger)
  <2>1. ledger' = Discard(ledger) /\ stage' = "RECOVER" /\ UNCHANGED base /\ SessionTyped'
    BY <1>1, <1>2 DEF RecoverOrForce, SessionTyped, Stages
  <2> QED BY <1>1, <1>2, <2>1, APIDiscard
<1> QED BY <1>2, APIForce DEF RecoverOrForce

\* Clearing the ledger in a control packet.
LEMMA APIControlClear ==
  ASSUME APIInv, Control, ClearLedger, SessionTyped'
  PROVE  APIInv'
BY APIClear DEF Control

\* Every control packet keeps the invariant.
LEMMA APIControl ==
  ASSUME APIInv, ControlPacket
  PROVE  APIInv'
<1> USE APIFacts DEF SessionTyped, Stages
<1>1. CASE Negotiate
  <2>1. ClearLedger /\ Control /\ epoch' \in 0 .. MaxEpoch
    BY <1>1, LedgerAssumption DEF Negotiate, EnterLegacy
  <2>2. CASE EnterLegacy
    BY <2>1, <2>2, APIControlClear DEF EnterLegacy
  <2>3. CASE ~EnterLegacy
    <3>1. PICK p \in PeerCaps :
            /\ caps' = Normalize(p)
            /\ negotiated' = (Normalize(p) # {}) /\ legacy' = (Normalize(p) = {})
            /\ stage' = IF Normalize(p) = {} THEN "LEGACY" ELSE "DETECT"
      BY <1>1, <2>3 DEF Negotiate
    <3>2. caps' \subseteq {"PROGRESSIVE", "LEDGER", "DIRECT"}
      BY <3>1, LedgerAssumption DEF Normalize
    <3> QED BY <2>1, <3>1, <3>2, APIControlClear
  <2> QED BY <2>2, <2>3
<1>2. ASSUME NEW found \in BOOLEAN, NoteInterval(found) PROVE APIInv'
  <2>1. CASE Ready
    <3>1. UNCHANGED <<ledger, flight, log, base>> /\ SessionTyped' /\ flight.kind # "fallback"
      BY <1>2, <2>1 DEF NoteInterval, Control, NoFlight
    <3>2. stage' # stage => stage' # "LEGACY"
      BY <1>2, <2>1 DEF NoteInterval
    <3> QED BY <3>1, <3>2, APIStage
  <2> QED BY <1>2, <2>1, APIForce DEF NoteInterval
<1>3. ASSUME NEW from \in {"LEARN", "MATCH"}, NEW to \in {"MATCH", "FAST"}, NEW ok \in BOOLEAN,
             Advance(from, to, ok)
      PROVE  APIInv'
  <2>1. CASE CanProgress /\ stage = from /\ ok
    <3>1. UNCHANGED <<ledger, flight, log, base>> /\ SessionTyped' /\ stage' # "LEGACY"
          /\ flight.kind # "fallback"
      BY <1>3, <2>1 DEF Advance, Control, NoFlight
    <3> QED BY <3>1, APIStage
  <2> QED BY <1>3, <2>1, APIForce, APIRecoverOrForce DEF Advance
<1>4. CASE LearnComplete
  BY <1>3, <1>4 DEF LearnComplete
<1>5. ASSUME NEW ok \in BOOLEAN, MatchComplete(ok) PROVE APIInv'
  BY <1>3, <1>5 DEF MatchComplete
<1>6. ASSUME NEW ok \in BOOLEAN, FastPeriodComplete(ok) PROVE APIInv'
  <2>1. CASE ClearLedger /\ UNCHANGED session
    BY <1>6, <2>1, APIControlClear DEF FastPeriodComplete, session
  <2> QED BY <1>6, <2>1, APIForce, APIRecoverOrForce DEF FastPeriodComplete
<1>7. CASE Mismatch
  BY <1>7, APIForce, APIRecoverOrForce DEF Mismatch
<1>8. CASE RecoveryComplete
  <2>1. CASE ForceLegacy
    BY <1>8, <2>1, APIForce DEF RecoveryComplete
  <2>2. CASE ~ForceLegacy
    BY <1>8, <2>2, APIControlClear DEF RecoveryComplete
  <2> QED BY <2>1, <2>2
<1>9. CASE WireError
  BY <1>9, APIForce DEF WireError
<1>10. CASE SessionReset
  BY <1>10, APIControlClear, LedgerAssumption DEF SessionReset
<1>11. CASE SessionTeardown
  <2>1. Control /\ EnterLegacy /\ epoch' \in 0 .. MaxEpoch
    BY <1>11, LedgerAssumption DEF SessionTeardown
  <2> QED BY <2>1, APIControlClear DEF EnterLegacy
<1> QED
  BY <1>1, <1>2, <1>4, <1>5, <1>6, <1>7, <1>8, <1>9, <1>10, <1>11 DEF ControlPacket

\* An update the ledger does not know goes to its end.
LEMMA AppendedIs ==
  ASSUME APIInv, NEW u \in UpdateIds, NEW s \in SubmissionIds, NEW st \in LedgerStates,
         ~Has(ledger, u), Len(ledger) < MaxLedgerEntries,
         ledger' = Append(ledger, Entry(u, s, st))
  PROVE  /\ ledger' \in Seq(Entries) /\ Unique(ledger')
         /\ Len(ledger') = Len(ledger) + 1 /\ DOMAIN ledger' = 1 .. Len(ledger) + 1
         /\ Len(ledger') <= MaxLedgerEntries
         /\ \A i \in DOMAIN ledger : ledger'[i] = ledger[i]
         /\ ledger'[Len(ledger) + 1].id = u /\ ledger'[Len(ledger) + 1].state = st
         /\ \A i \in DOMAIN ledger' : i \in DOMAIN ledger \/ i = Len(ledger) + 1
         /\ \A v : Has(ledger, v) => Has(ledger', v) /\ At(ledger', v) = At(ledger, v)
                                     /\ At(ledger, v) \in DOMAIN ledger
<1> DEFINE e == Entry(u, s, st)
<1>1. e \in Entries /\ e.id = u /\ e.state = st
  BY DEF Entry, Entries
<1>2. PICK M : M = ledger' /\ M = Append(ledger, e)
  OBVIOUS
<1> HIDE DEF e
<1>3. /\ ledger \in Seq(Entries) /\ Unique(ledger) /\ MaxLedgerEntries \in Nat
      /\ DOMAIN ledger = 1 .. Len(ledger) /\ Len(ledger) \in Nat
  BY APIFacts, LedgerAssumption
<1>4. /\ M \in Seq(Entries) /\ Len(M) = Len(ledger) + 1
      /\ DOMAIN M = 1 .. Len(ledger) + 1
      /\ M[Len(ledger) + 1] = e /\ \A i \in DOMAIN ledger : M[i] = ledger[i]
  BY <1>1, <1>2, <1>3
<1>5. \A i \in DOMAIN M : i \in DOMAIN ledger \/ i = Len(ledger) + 1
  BY <1>3, <1>4
<1>6. \A i \in DOMAIN ledger : ledger[i].id # u
  BY DEF Has
<1>7. Unique(M)
  BY <1>1, <1>3, <1>4, <1>5, <1>6 DEF Unique
<1>8. \A v : Has(ledger, v) => Has(M, v) /\ At(M, v) = At(ledger, v)
                               /\ At(ledger, v) \in DOMAIN ledger
  <2>1. DOMAIN ledger \subseteq DOMAIN M
    BY <1>3, <1>4
  <2>2. \A i \in DOMAIN ledger : M[i].id = ledger[i].id
    BY <1>4
  <2> QED BY <1>7, <2>1, <2>2, ExtendAt
<1>9. Len(M) <= MaxLedgerEntries
  BY <1>3, <1>4
<1> QED BY <1>1, <1>2, <1>4, <1>5, <1>7, <1>8, <1>9

\* That is no concern of the reservation.
LEMMA Appended ==
  ASSUME APIInv, NEW u \in UpdateIds, NEW s \in SubmissionIds, NEW st \in LedgerStates,
         ~Has(ledger, u), Fresh(u), Len(ledger) < MaxLedgerEntries,
         ledger' = Append(ledger, Entry(u, s, st)),
         UNCHANGED <<session, flight, base, epoch>>, stage # "LEGACY"
  PROVE  Grown /\ Flies
<1> DEFINE n == Len(ledger)
<1>1. /\ ledger' \in Seq(Entries) /\ Unique(ledger')
      /\ Len(ledger') = n + 1 /\ DOMAIN ledger' = 1 .. n + 1
      /\ Len(ledger') <= MaxLedgerEntries
      /\ \A i \in DOMAIN ledger : ledger'[i] = ledger[i]
      /\ ledger'[n + 1].id = u /\ ledger'[n + 1].state = st
      /\ \A i \in DOMAIN ledger' : i \in DOMAIN ledger \/ i = n + 1
      /\ \A v : Has(ledger, v) => Has(ledger', v) /\ At(ledger', v) = At(ledger, v)
                                  /\ At(ledger, v) \in DOMAIN ledger
  BY AppendedIs
<1>2. /\ n \in Nat /\ \A i \in DOMAIN ledger : Fresh(ledger[i].id)
      /\ flight.kind # "fallback" /\ SessionTyped'
  BY APIFacts DEF APIInv, LegacyEmpty, session, SessionTyped
<1> HIDE DEF n
<1>3. \A i \in DOMAIN ledger : Done(i) => Done(i)'
  BY <1>1 DEF Done, Batch
<1>4. Grown
  <2>1. Len(ledger) <= Len(ledger')
    BY <1>1, <1>2 DEF n
  <2> QED BY <1>1, <1>2, <1>3, <2>1 DEF Grown, session
<1>5. Reserved'
  BY <1>1 DEF APIInv, Reserved, CompletionOK, Batch
<1>6. FallbackFresh'
  BY <1>2 DEF FallbackFresh
<1> QED BY <1>2, <1>4, <1>5, <1>6 DEF Flies, APIInv, TypeOK

\* A prepared update is new.
LEMMA APIPrepare ==
  ASSUME APIInv, NEW u \in UpdateIds, NEW s \in SubmissionIds, Prepare(u, s)
  PROVE  APIInv'
<1>1. /\ ~Has(ledger, u) /\ Fresh(u) /\ Len(ledger) < MaxLedgerEntries
      /\ ledger' = Append(ledger, Entry(u, s, "PREPARED"))
      /\ UNCHANGED <<session, flight, log, base, epoch>> /\ stage # "LEGACY"
  BY DEF Prepare, Learned
<1>2. "PREPARED" \in LedgerStates
  BY DEF LedgerStates, IdleStates
<1>3. Grown /\ Flies
  BY <1>1, <1>2, Appended
<1> QED BY <1>1, <1>3, QuietStep

\* The state of one entry that is not in flight, emitted if it was.
LEMMA RestatedOne ==
  ASSUME APIInv, NEW p \in DOMAIN ledger, NEW st \in LedgerStates,
         ledger[p].state \notin InFlightStates,
         Emitted(ledger[p]) => st \in EmittedStates,
         ledger' = SetState(ledger, p, st), UNCHANGED <<session, flight, base, epoch>>
  PROVE  /\ Grown /\ Flies /\ p \in DOMAIN ledger'
         /\ ledger'[p].id = ledger[p].id /\ ledger'[p].state = st
<1>1. /\ ledger' \in Seq(Entries) /\ SameUpdates(ledger, ledger')
      /\ ledger'[p].state = st
      /\ \A i \in DOMAIN ledger : i # p => ledger'[i] = ledger[i]
  <2> DEFINE M == SetState(ledger, p, st)
  <2>1. ledger \in Seq(Entries)
    BY APIFacts
  <2>2. /\ M \in Seq(Entries) /\ SameUpdates(ledger, M) /\ M[p].state = st
        /\ \A i \in DOMAIN ledger : i # p => M[i] = ledger[i]
    BY <2>1, SetStateKeeps
  <2>3. ledger' = M
    OBVIOUS
  <2> HIDE DEF M
  <2> QED BY <2>2, <2>3
<1>2. \A i \in DOMAIN ledger : Emitted(ledger[i]) => Emitted(ledger'[i])
  BY <1>1 DEF Emitted
<1>3. \A i \in DOMAIN ledger : ledger[i].state \in InFlightStates => ledger'[i] = ledger[i]
  BY <1>1
<1>4. /\ ledger # <<>> /\ stage # "LEGACY" /\ flight.kind # "fallback"
      /\ SessionTyped' /\ stage' = stage
  <2>1. ledger # <<>>
    BY APIFacts
  <2> QED BY <2>1, APIFacts DEF APIInv, LegacyEmpty, session, SessionTyped
<1>5. Grown /\ Flies
  BY <1>1, <1>2, <1>3, <1>4, Restated
<1>6. p \in DOMAIN ledger' /\ ledger'[p].id = ledger[p].id
  BY <1>1, APIFacts DEF SameUpdates
<1> QED BY <1>1, <1>5, <1>6

\* An idle entry that is emitted and applied at once was not applied before.
LEMMA EmittedNow ==
  ASSUME APIInv, NEW p \in DOMAIN ledger, NEW st \in EmittedStates,
         ledger[p].state \in IdleStates,
         ledger' = SetState(ledger, p, st), log' = Append(log, ledger[p].id),
         UNCHANGED <<session, flight, base, epoch>>
  PROVE  APIInv'
<1>1. st \in LedgerStates /\ ~Emitted(ledger[p]) /\ ledger[p].state \notin InFlightStates
  BY DEF LedgerStates, Emitted, EmittedStates, IdleStates, InFlightStates
<1>2. /\ Grown /\ Flies /\ p \in DOMAIN ledger'
      /\ ledger'[p].id = ledger[p].id /\ ledger'[p].state = st
  BY <1>1, RestatedOne
<1>3. ~Done(p)
  BY <1>1, NotDone
<1>4. /\ ledger[p].id \in UpdateIds /\ Fresh(ledger[p].id)
      /\ flight.kind # "fallback" /\ Unique(ledger)
  BY APIFacts DEF Entries
<1>5. \A j \in DOMAIN log : log[j] # ledger[p].id
  BY <1>3, <1>4, NotInLog DEF Unique
<1>6. Done(p)'
  BY <1>2 DEF Done, Emitted
<1> QED BY <1>2, <1>4, <1>5, <1>6, LoudStep

\* Marking ready, releasing at once and committing are such changes.
LEMMA APIOneEntry ==
  ASSUME APIInv, NEW u \in UpdateIds, MarkReady(u) \/ Release(u) \/ Commit(u)
  PROVE  APIInv'
<1>1. PICK p \in DOMAIN ledger : p = At(ledger, u) /\ ledger[p].id = u
  BY AtFinds DEF MarkReady, Release, Commit
<1> USE DEF LedgerStates, EmittedStates, InFlightStates, IdleStates, Emitted
<1>2. CASE MarkReady(u)
  <2>1. /\ ledger' = SetState(ledger, p, "READY") /\ ledger[p].state = "PREPARED"
        /\ UNCHANGED <<session, flight, log, base, epoch>>
    BY <1>1, <1>2 DEF MarkReady
  <2>2. Grown /\ Flies
    BY <2>1, RestatedOne
  <2> QED BY <2>1, <2>2, QuietStep
<1>3. CASE Release(u)
  <2>1. /\ ledger' = SetState(ledger, p, "RELEASED") /\ ledger[p].state = "READY"
        /\ log' = Append(log, ledger[p].id)
        /\ UNCHANGED <<session, flight, base, epoch>>
    BY <1>1, <1>3 DEF Release, StateOf
  <2> QED BY <2>1, EmittedNow
<1>4. CASE Commit(u)
  <2>1. /\ ledger' = SetState(ledger, p, "COMMITTED")
        /\ ledger[p].state \in {"READY", "RELEASED", "REPLAY_EMITTED"}
        /\ log' = IF ledger[p].state = "READY" THEN Append(log, ledger[p].id) ELSE log
        /\ UNCHANGED <<session, flight, base, epoch>>
    BY <1>1, <1>4 DEF Commit
  <2>2. CASE ledger[p].state = "READY"
    BY <2>1, <2>2, EmittedNow
  <2>3. CASE ledger[p].state # "READY"
    <3>1. Grown /\ Flies /\ log' = log
      BY <2>1, <2>3, RestatedOne
    <3> QED BY <3>1, QuietStep
  <2> QED BY <2>2, <2>3
<1> QED BY <1>2, <1>3, <1>4

\* A replay that is applied at once: of a discarded entry, or of an update
\* that is new to the ledger.
LEMMA APIReplay ==
  ASSUME APIInv, NEW u \in UpdateIds, NEW s \in SubmissionIds, Replay(u, s)
  PROVE  APIInv'
<1>1. /\ stage = "RECOVER" /\ Fresh(u) /\ ReplayInto(u, s, "REPLAY_EMITTED")
      /\ log' = Append(log, u) /\ UNCHANGED <<session, flight, base, epoch>>
  BY DEF Replay, MayReplay
<1>2. "REPLAY_EMITTED" \in EmittedStates /\ "REPLAY_EMITTED" \in LedgerStates
  BY DEF EmittedStates, LedgerStates
<1>3. CASE Has(ledger, u)
  <2>1. PICK p \in DOMAIN ledger : p = At(ledger, u) /\ ledger[p].id = u
    BY <1>3, AtFinds
  <2>2. ledger[p].state = "DISCARDED" /\ ledger' = SetState(ledger, p, "REPLAY_EMITTED")
    BY <1>1, <1>3, <2>1 DEF ReplayInto, StateOf
  <2>3. ledger[p].state \in IdleStates /\ log' = Append(log, ledger[p].id)
    BY <1>1, <2>1, <2>2 DEF IdleStates
  <2> QED BY <1>1, <1>2, <2>2, <2>3, EmittedNow
<1>4. CASE ~Has(ledger, u)
  <2>1. /\ Len(ledger) < MaxLedgerEntries
        /\ ledger' = Append(ledger, Entry(u, s, "REPLAY_EMITTED"))
    BY <1>1, <1>4 DEF ReplayInto
  <2>2. Grown /\ Flies
    BY <1>1, <1>2, <1>4, <2>1, Appended
  <2>3. PICK p \in DOMAIN ledger' : ledger'[p].id = u /\ ledger'[p].state = "REPLAY_EMITTED"
    <3>1. Len(ledger) + 1 \in DOMAIN ledger'
          /\ ledger'[Len(ledger) + 1].id = u
          /\ ledger'[Len(ledger) + 1].state = "REPLAY_EMITTED"
      BY <1>2, <1>4, <2>1, AppendedIs, APIFacts
    <3> QED BY <3>1
  <2>4. Done(p)'
    BY <1>2, <2>3 DEF Done, Emitted
  <2>5. flight.kind # "fallback" /\ \A i \in DOMAIN ledger : ledger[i].id # u
    BY <1>1, <1>4 DEF APIInv, LegacyEmpty, Has
  <2>6. \A j \in DOMAIN log : log[j] # u
    BY <1>1, <2>5, NotInLog
  <2> QED BY <1>1, <2>2, <2>3, <2>4, <2>5, <2>6, LoudStep
<1> QED BY <1>3, <1>4

\* A reservation is made while there is none: its entries are put in flight,
\* and what is emitted stays so.
LEMMA Begun ==
  ASSUME APIInv, flight = NoFlight, NEW kind \in {"release", "replay"},
         NEW ids \in Seq(UpdateIds), NEW mask \in Seq(BOOLEAN), DOMAIN mask = DOMAIN ids,
         Distinct(ids), CompletionOK(ledger', ids, mask, InFlightOf(kind)),
         flight' = Reservation(kind, ids, mask),
         ledger' \in Seq(Entries), Unique(ledger'), Len(ledger) <= Len(ledger'),
         Len(ledger') <= MaxLedgerEntries,
         \A i \in DOMAIN ledger : ledger'[i].id = ledger[i].id,
         \A i \in DOMAIN ledger : Emitted(ledger[i]) => Emitted(ledger'[i]),
         \A i \in DOMAIN ledger' : Fresh(ledger'[i].id),
         stage = "LEGACY" => ledger' = <<>>,
         UNCHANGED <<session, log, base, epoch>>
  PROVE  APIInv'
<1>1. /\ flight'.kind = kind /\ flight'.ids = ids /\ flight'.mask = mask /\ flight'.next = 1
      /\ flight' = [kind |-> kind, ids |-> ids, mask |-> mask, next |-> 1]
      /\ flight'.kind # "fallback" /\ flight.kind # "fallback" /\ ~Batch
  BY DEF Reservation, NoFlight, Batch
<1>2. \A i \in DOMAIN ledger : Done(i) => Done(i)'
  BY <1>1 DEF Done
<1>3. Grown
  BY <1>2, APIFacts DEF Grown, session, SessionTyped
<1>4. Reserved' /\ FallbackFresh'
  BY <1>1 DEF Reserved, FallbackFresh
<1>5. /\ flight' \in [kind : {"release", "replay", "fallback"},
                      ids : Seq(UpdateIds), mask : Seq(BOOLEAN), next : Nat]
      /\ flight'.next \in 1 .. Len(flight'.ids) + 1
  BY <1>1
<1>6. Flies
  BY <1>1, <1>4, <1>5 DEF Flies
<1>7. log' = log
  OBVIOUS
<1> QED BY <1>3, <1>6, <1>7, QuietStep

\* For a batch: W is the ledger with the unknown updates of a replay behind.
LEMMA BegunBatch ==
  ASSUME APIInv, flight = NoFlight, NEW kind \in {"release", "replay"},
         NEW ids \in Seq(UpdateIds), Distinct(ids),
         NEW W \in Seq(Entries), Unique(W), Len(ledger) <= Len(W), Len(W) <= MaxLedgerEntries,
         \A i \in DOMAIN ledger : W[i] = ledger[i],
         \A i \in DOMAIN W : Fresh(W[i].id),
         \A k \in DOMAIN ids : Has(W, ids[k]),
         stage = "LEGACY" => W = <<>>,
         flight' = Reservation(kind, ids, EmitMask(ledger, ids)),
         ledger' = SetStates(W, ids, EmitMask(ledger, ids), InFlightOf(kind)),
         UNCHANGED <<session, log, base, epoch>>
  PROVE  APIInv'
<1> DEFINE mask == EmitMask(ledger, ids)
           st == InFlightOf(kind)
           M == SetStates(W, ids, mask, st)
           Chosen(i) == \E k \in DOMAIN ids : mask[k] /\ ids[k] = W[i].id
<1>1. /\ ledger \in Seq(Entries) /\ Unique(ledger)
      /\ DOMAIN ledger = 1 .. Len(ledger) /\ Len(ledger) \in Nat
      /\ DOMAIN W = 1 .. Len(W) /\ Len(W) \in Nat
  BY APIFacts
<1>2. st \in LedgerStates
  BY DEF InFlightOf, InFlightStates, LedgerStates
<1>3. mask \in Seq(BOOLEAN) /\ DOMAIN mask = DOMAIN ids
  BY MaskIsSeq
<1>4. ledger' = M /\ flight' = Reservation(kind, ids, mask)
  OBVIOUS
<1>5. \A k \in DOMAIN ids : mask[k] <=> (~Has(ledger, ids[k]) \/ ~Emitted(ledger[At(ledger, ids[k])]))
  BY DEF EmitMask
<1> HIDE DEF mask, st, Chosen
<1>6. /\ M \in Seq(Entries) /\ SameUpdates(W, M)
      /\ \A i \in DOMAIN W : IF Chosen(i) THEN M[i].state = st ELSE M[i] = W[i]
  BY <1>2, SetStatesKeeps DEF Chosen
<1> HIDE DEF M
<1>7. /\ DOMAIN M = DOMAIN W /\ Unique(M) /\ Len(M) = Len(W)
      /\ \A u : Has(M, u) <=> Has(W, u)
      /\ \A u : Has(W, u) => At(M, u) = At(W, u)
      /\ \A i \in DOMAIN W : M[i].id = W[i].id
  BY <1>6, SameAt DEF SameUpdates
<1>8. DOMAIN ledger \subseteq DOMAIN W
  BY <1>1
<1>9. \A u : Has(ledger, u) => At(W, u) = At(ledger, u) /\ At(ledger, u) \in DOMAIN ledger
  BY <1>8, ExtendAt
<1>10. \A i \in DOMAIN ledger : Emitted(ledger[i]) => ~Chosen(i)
  <2> SUFFICES ASSUME NEW i \in DOMAIN ledger, Emitted(ledger[i]), NEW k \in DOMAIN ids,
                      mask[k], ids[k] = W[i].id
               PROVE  FALSE
    BY DEF Chosen
  <2>1. Has(ledger, ids[k]) /\ At(ledger, ids[k]) = i
    BY <1>1, AtIsPosition
  <2> QED BY <1>5, <2>1
<1>11. \A i \in DOMAIN ledger : Emitted(ledger[i]) => Emitted(M[i])
  BY <1>6, <1>8, <1>10
<1>12. CompletionOK(M, ids, mask, st)
  <2> SUFFICES ASSUME NEW k \in DOMAIN ids
               PROVE  /\ Has(M, ids[k])
                      /\ IF mask[k] THEN M[At(M, ids[k])].state = st
                         ELSE Emitted(M[At(M, ids[k])])
    BY DEF CompletionOK
  <2>1. Has(W, ids[k]) /\ At(M, ids[k]) = At(W, ids[k]) /\ Has(M, ids[k])
        /\ At(W, ids[k]) \in DOMAIN W /\ W[At(W, ids[k])].id = ids[k]
    BY <1>7, AtFinds
  <2>2. CASE mask[k]
    BY <1>6, <2>1, <2>2 DEF Chosen
  <2>3. CASE ~mask[k]
    <3>1. Has(ledger, ids[k]) /\ Emitted(ledger[At(ledger, ids[k])])
      BY <1>5, <2>3
    <3> QED BY <1>9, <1>11, <2>1, <2>3, <3>1
  <2> QED BY <2>2, <2>3
<1>13. \A i \in DOMAIN M : Fresh(M[i].id)
  BY <1>7
<1>14. \A i \in DOMAIN ledger : M[i].id = ledger[i].id
  BY <1>7, <1>8
<1>15. stage = "LEGACY" => M = <<>>
  BY <1>1, <1>6, <1>7
<1>16. CompletionOK(ledger', ids, mask, InFlightOf(kind))
  BY <1>4, <1>12 DEF st
<1>17. /\ ledger' \in Seq(Entries) /\ Unique(ledger') /\ Len(ledger) <= Len(ledger')
       /\ Len(ledger') <= MaxLedgerEntries
       /\ \A i \in DOMAIN ledger : ledger'[i].id = ledger[i].id
       /\ \A i \in DOMAIN ledger : Emitted(ledger[i]) => Emitted(ledger'[i])
       /\ \A i \in DOMAIN ledger' : Fresh(ledger'[i].id)
       /\ stage = "LEGACY" => ledger' = <<>>
  BY <1>4, <1>6, <1>7, <1>11, <1>13, <1>14, <1>15
<1> QED BY <1>3, <1>4, <1>16, <1>17, Begun

\* The ids of a batch in ledger order are distinct.
LEMMA OrderedDistinct ==
  ASSUME NEW L \in Seq(Entries), NEW ids \in Seq(UpdateIds),
         \A k \in DOMAIN ids : Has(L, ids[k]), NoOvertaking(L, ids)
  PROVE  Distinct(ids)
<1> SUFFICES ASSUME NEW j \in DOMAIN ids, NEW k \in DOMAIN ids, ids[j] = ids[k], j < k
             PROVE  FALSE
  BY DEF Distinct
<1>1. j \in 1 .. k - 1
  OBVIOUS
<1>2. At(L, ids[j]) < At(L, ids[k]) /\ At(L, ids[j]) \in DOMAIN L
  BY <1>1, AtFinds DEF NoOvertaking
<1> QED BY <1>2

\* Beginning a batch keeps the invariant.
LEMMA APIBeginBatch ==
  ASSUME APIInv, NEW ids \in IdBatches,
         \/ BeginReleaseBatch(ids)
         \/ \E subs \in [DOMAIN ids -> SubmissionIds] : BeginReplayBatch(ids, subs)
  PROVE  APIInv'
<1>1. /\ ids \in Seq(UpdateIds) /\ ledger \in Seq(Entries) /\ Unique(ledger)
      /\ DOMAIN ids = 1 .. Len(ids) /\ Len(ids) \in Nat
      /\ DOMAIN ledger = 1 .. Len(ledger) /\ Len(ledger) \in Nat
      /\ Len(ledger) <= MaxLedgerEntries
      /\ \A i \in DOMAIN ledger : Fresh(ledger[i].id)
      /\ stage = "LEGACY" => ledger = <<>>
  BY BatchIsSeq, APIFacts DEF APIInv, LegacyEmpty
<1>2. CASE BeginReleaseBatch(ids)
  <2>1. /\ flight = NoFlight /\ \A k \in DOMAIN ids : Has(ledger, ids[k])
        /\ NoOvertaking(ledger, ids)
        /\ ledger' = SetStates(ledger, ids, EmitMask(ledger, ids), InFlightOf("release"))
        /\ flight' = Reservation("release", ids, EmitMask(ledger, ids))
        /\ UNCHANGED <<session, log, base, epoch>>
    BY <1>2 DEF BeginReleaseBatch, ReleaseBatchOK, InFlightOf
  <2>2. Distinct(ids)
    BY <1>1, <2>1, OrderedDistinct
  <2>3. Len(ledger) <= Len(ledger) /\ \A i \in DOMAIN ledger : ledger[i] = ledger[i]
    BY <1>1
  <2> QED BY <1>1, <2>1, <2>2, <2>3, BegunBatch
<1>3. ASSUME NEW subs \in [DOMAIN ids -> SubmissionIds], BeginReplayBatch(ids, subs)
      PROVE  APIInv'
  <2>1. PICK W : W = WithMissing(ledger, ids, subs)
    OBVIOUS
  <2>2. /\ flight = NoFlight /\ stage # "LEGACY"
        /\ \A k \in DOMAIN ids : Fresh(ids[k])
        /\ ReplayBatchOK(ledger, ids, subs, MaxLedgerEntries)
        /\ ledger' = SetStates(W, ids, EmitMask(ledger, ids), InFlightOf("replay"))
        /\ flight' = Reservation("replay", ids, EmitMask(ledger, ids))
        /\ UNCHANGED <<session, log, base, epoch>>
    BY <1>3, <2>1 DEF BeginReplayBatch, InFlightOf
  <2>3. Distinct(ids)
    BY <2>2 DEF ReplayBatchOK
  <2>4. PICK n \in 0 .. Len(ids) : Extended(ledger, W, ids, n) /\ Len(W) <= MaxLedgerEntries
    <3>1. MaxLedgerEntries \in Nat
      BY LedgerAssumption
    <3> QED BY <1>1, <2>1, <2>2, <3>1, MissingIs
  <2>5. /\ W \in Seq(Entries) /\ Unique(W) /\ Len(W) = Len(ledger) + (Len(ids) - n)
        /\ \A i \in DOMAIN ledger : W[i] = ledger[i]
        /\ \A i \in DOMAIN W : i \notin DOMAIN ledger =>
             n + (i - Len(ledger)) \in DOMAIN ids /\ W[i].id = ids[n + (i - Len(ledger))]
        /\ \A k \in DOMAIN ids : Has(W, ids[k])
    BY <2>4 DEF Extended
  <2>6. \A i \in DOMAIN W : Fresh(W[i].id)
    BY <1>1, <2>2, <2>5
  <2>7. Len(ledger) <= Len(W) /\ Len(W) <= MaxLedgerEntries
    BY <1>1, <2>4, <2>5
  <2> QED BY <1>1, <2>2, <2>3, <2>5, <2>6, <2>7, BegunBatch
<1> QED BY <1>2, <1>3

\* The batch of one update.
LEMMA OneIs ==
  ASSUME NEW u
  PROVE  /\ One(u) = <<u>> /\ DOMAIN One(u) = {1} /\ Len(One(u)) = 1 /\ One(u)[1] = u
         /\ Distinct(One(u))
<1>1. DOMAIN <<u>> = {1} /\ <<u>>[1] = u
  OBVIOUS
<1>2. One(u) = <<u>>
  BY <1>1 DEF One
<1> QED BY <1>1, <1>2 DEF Distinct

\* Beginning with one update does too: of a READY entry, of a discarded one,
\* or of an update that is new to the ledger.
LEMMA BegunOne ==
  ASSUME APIInv, flight = NoFlight, NEW kind \in {"release", "replay"}, NEW u \in UpdateIds,
         ledger' \in Seq(Entries), Unique(ledger'), Len(ledger) <= Len(ledger'),
         Len(ledger') <= MaxLedgerEntries,
         NEW p \in DOMAIN ledger', ledger'[p].id = u, ledger'[p].state = InFlightOf(kind),
         \A i \in DOMAIN ledger : ledger'[i].id = ledger[i].id,
         \A i \in DOMAIN ledger : Emitted(ledger[i]) => Emitted(ledger'[i]),
         \A i \in DOMAIN ledger' : Fresh(ledger'[i].id),
         flight' = Reservation(kind, One(u), One(TRUE)), stage # "LEGACY",
         UNCHANGED <<session, log, base, epoch>>
  PROVE  APIInv'
<1>1. /\ One(u) \in Seq(UpdateIds) /\ One(TRUE) \in Seq(BOOLEAN)
      /\ DOMAIN One(u) = DOMAIN One(TRUE) /\ Distinct(One(u))
  <2>1. <<u>> \in Seq(UpdateIds) /\ <<TRUE>> \in Seq(BOOLEAN)
    OBVIOUS
  <2> QED BY <2>1, OneIs
<1>2. Has(ledger', u) /\ At(ledger', u) = p
  BY AtIsPosition
<1>3. CompletionOK(ledger', One(u), One(TRUE), InFlightOf(kind))
  <2>1. DOMAIN One(u) = {1} /\ One(u)[1] = u /\ One(TRUE)[1] = TRUE
    BY OneIs
  <2>2. /\ Has(ledger', One(u)[1])
        /\ IF One(TRUE)[1] THEN ledger'[At(ledger', One(u)[1])].state = InFlightOf(kind)
           ELSE Emitted(ledger'[At(ledger', One(u)[1])])
    BY <1>2, <2>1
  <2>3. \A k \in DOMAIN One(u) : k = 1
    BY <2>1
  <2> QED BY <2>2, <2>3 DEF CompletionOK
<1> QED BY <1>1, <1>3, Begun

\* Beginning with one update keeps the invariant.
LEMMA APIBeginOne ==
  ASSUME APIInv, NEW u \in UpdateIds,
         BeginRelease(u) \/ \E s \in SubmissionIds : BeginReplay(u, s)
  PROVE  APIInv'
<1>1. /\ ledger \in Seq(Entries) /\ Unique(ledger) /\ Len(ledger) <= MaxLedgerEntries
      /\ Len(ledger) \in Nat /\ DOMAIN ledger = 1 .. Len(ledger)
      /\ \A i \in DOMAIN ledger : Fresh(ledger[i].id)
  BY APIFacts
<1>2. ASSUME NEW kind \in {"release", "replay"}, Has(ledger, u),
             ledger[At(ledger, u)].state \in IdleStates,
             flight = NoFlight, ledger' = SetState(ledger, At(ledger, u), InFlightOf(kind)),
             flight' = Reservation(kind, One(u), One(TRUE)),
             UNCHANGED <<session, log, base, epoch>>
      PROVE  APIInv'
  <2> DEFINE p == At(ledger, u)
             M == SetState(ledger, p, InFlightOf(kind))
  <2>1. p \in DOMAIN ledger /\ ledger[p].id = u
    BY <1>2, AtFinds
  <2>2. InFlightOf(kind) \in LedgerStates
    BY DEF InFlightOf, InFlightStates, LedgerStates
  <2>3. ledger' = M /\ ledger[p].state \in IdleStates
    BY <1>2
  <2> HIDE DEF p
  <2>4. /\ M \in Seq(Entries) /\ SameUpdates(ledger, M) /\ M[p].state = InFlightOf(kind)
        /\ \A i \in DOMAIN ledger : i # p => M[i] = ledger[i]
    BY <1>1, <2>1, <2>2, SetStateKeeps
  <2> HIDE DEF M
  <2>5. /\ DOMAIN M = DOMAIN ledger /\ Unique(M) /\ Len(M) = Len(ledger)
        /\ \A i \in DOMAIN ledger : M[i].id = ledger[i].id
    BY <1>1, <2>4, SameAt DEF SameUpdates
  <2>6. \A i \in DOMAIN ledger : Emitted(ledger[i]) => Emitted(M[i])
    BY <2>3, <2>4 DEF Emitted, EmittedStates, IdleStates
  <2>7. stage # "LEGACY"
    BY <2>1 DEF APIInv, LegacyEmpty
  <2>8. /\ ledger' \in Seq(Entries) /\ Unique(ledger') /\ Len(ledger) <= Len(ledger')
        /\ Len(ledger') <= MaxLedgerEntries
        /\ p \in DOMAIN ledger' /\ ledger'[p].id = u /\ ledger'[p].state = InFlightOf(kind)
        /\ \A i \in DOMAIN ledger : ledger'[i].id = ledger[i].id
        /\ \A i \in DOMAIN ledger : Emitted(ledger[i]) => Emitted(ledger'[i])
        /\ \A i \in DOMAIN ledger' : Fresh(ledger'[i].id)
    BY <1>1, <2>1, <2>3, <2>4, <2>5, <2>6
  <2> QED BY <1>2, <2>7, <2>8, BegunOne
<1>3. CASE BeginRelease(u)
  <2>1. /\ Has(ledger, u) /\ ledger[At(ledger, u)].state \in IdleStates
        /\ flight = NoFlight
        /\ ledger' = SetState(ledger, At(ledger, u), InFlightOf("release"))
        /\ flight' = Reservation("release", One(u), One(TRUE))
        /\ UNCHANGED <<session, log, base, epoch>>
    BY <1>3 DEF BeginRelease, StateOf, IdleStates, InFlightOf
  <2> QED BY <1>2, <2>1
<1>4. ASSUME NEW s \in SubmissionIds, BeginReplay(u, s) PROVE APIInv'
  <2>1. /\ flight = NoFlight /\ stage # "LEGACY" /\ Fresh(u)
        /\ ReplayInto(u, s, "REPLAY_IN_FLIGHT")
        /\ flight' = Reservation("replay", One(u), One(TRUE))
        /\ UNCHANGED <<session, log, base, epoch>>
    BY <1>4 DEF BeginReplay, MayReplay
  <2>2. CASE Has(ledger, u)
    <3>1. /\ ledger[At(ledger, u)].state \in IdleStates
          /\ ledger' = SetState(ledger, At(ledger, u), InFlightOf("replay"))
      BY <2>1, <2>2 DEF ReplayInto, StateOf, IdleStates, InFlightOf
    <3> QED BY <1>2, <2>1, <2>2, <3>1
  <2>3. CASE ~Has(ledger, u)
    <3>1. /\ Len(ledger) < MaxLedgerEntries
          /\ ledger' = Append(ledger, Entry(u, s, "REPLAY_IN_FLIGHT"))
          /\ "REPLAY_IN_FLIGHT" \in LedgerStates
      BY <2>1, <2>3 DEF ReplayInto, LedgerStates, InFlightStates
    <3>2. PICK p : p = Len(ledger) + 1
      OBVIOUS
    <3>3. /\ ledger' \in Seq(Entries) /\ Unique(ledger')
          /\ Len(ledger') = Len(ledger) + 1 /\ DOMAIN ledger' = 1 .. Len(ledger) + 1
          /\ Len(ledger') <= MaxLedgerEntries
          /\ \A i \in DOMAIN ledger : ledger'[i] = ledger[i]
          /\ ledger'[p].id = u /\ ledger'[p].state = "REPLAY_IN_FLIGHT"
          /\ \A i \in DOMAIN ledger' : i \in DOMAIN ledger \/ i = p
      BY <2>3, <3>1, <3>2, AppendedIs
    <3>4. p \in DOMAIN ledger' /\ Len(ledger) <= Len(ledger')
      BY <1>1, <3>2, <3>3
    <3>5. \A i \in DOMAIN ledger' : Fresh(ledger'[i].id)
      BY <1>1, <2>1, <3>3
    <3>6. /\ \A i \in DOMAIN ledger : ledger'[i].id = ledger[i].id
          /\ \A i \in DOMAIN ledger : Emitted(ledger[i]) => Emitted(ledger'[i])
          /\ ledger'[p].state = InFlightOf("replay")
      BY <3>3 DEF InFlightOf
    <3> QED BY <2>1, <3>3, <3>4, <3>5, <3>6, BegunOne
  <2> QED BY <2>2, <2>3
<1> QED BY <1>3, <1>4

\* The next update of a reservation was not applied before.
LEMMA APIApplyNext ==
  ASSUME APIInv, ApplyNext
  PROVE  APIInv'
<1>0. PICK m \in Nat : m = flight.next
  BY FlightKinds DEF ApplyNext, APIInv
<1>1. /\ flight # NoFlight /\ m <= Len(flight.ids)
      /\ flight' = [flight EXCEPT !.next = m + 1]
      /\ log' = IF flight.mask[m] THEN Append(log, flight.ids[m]) ELSE log
      /\ UNCHANGED <<ledger, session, base, epoch>>
  BY <1>0 DEF ApplyNext
<1>2. /\ flight \in [kind : {"release", "replay", "fallback"},
                     ids : Seq(UpdateIds), mask : Seq(BOOLEAN), next : Nat]
      /\ DOMAIN flight.mask = DOMAIN flight.ids
      /\ DOMAIN flight.ids = 1 .. Len(flight.ids) /\ Len(flight.ids) \in Nat
      /\ m \in DOMAIN flight.ids /\ flight.ids[m] \in UpdateIds
      /\ flight.mask[m] \in BOOLEAN /\ flight.next = m
  BY <1>0, <1>1 DEF APIInv, TypeOK
<1>3. /\ flight' \in [kind : {"release", "replay", "fallback"},
                      ids : Seq(UpdateIds), mask : Seq(BOOLEAN), next : Nat]
      /\ flight'.kind = flight.kind /\ flight'.ids = flight.ids
      /\ flight'.mask = flight.mask /\ flight'.next = m + 1
      /\ (Batch' <=> Batch)
  BY <1>1, <1>2 DEF Batch
<1>4. flight'.next \in 1 .. Len(flight'.ids) + 1
  BY <1>1, <1>2, <1>3
<1>5. Reserved' /\ LegacyEmpty'
  BY <1>1, <1>3 DEF APIInv, Reserved, LegacyEmpty, session, Batch
<1>6. \A i \in DOMAIN ledger :
        Done(i)' <=> Done(i) \/ (Batch /\ flight.mask[m] /\ flight.ids[m] = ledger[i].id)
  <2> TAKE i \in DOMAIN ledger
  <2>1. \A k : k \in 1 .. (m + 1) - 1 <=> k \in 1 .. m - 1 \/ k = m
    BY <1>2
  <2> QED BY <1>1, <1>2, <1>3, <2>1 DEF Done
<1>7. Grown
  <2>1. stage' = "LEGACY" => ledger' = <<>>
    BY <1>1 DEF APIInv, LegacyEmpty, session
  <2>2. \A i \in DOMAIN ledger : Done(i) => Done(i)'
    BY <1>6
  <2> QED BY <1>1, <2>1, <2>2, APIFacts DEF Grown, session, SessionTyped
<1>8. CASE ~flight.mask[m]
  <2>1. log' = log
    BY <1>1, <1>8
  <2>2. FallbackFresh'
    <3>1. \A k \in m + 1 .. Len(flight.ids) : k \in m .. Len(flight.ids)
      BY <1>2
    <3> QED BY <1>2, <1>3, <2>1, <3>1 DEF APIInv, FallbackFresh
  <2>3. Flies
    BY <1>1, <1>2, <1>3, <1>4, <1>5, <2>2 DEF Flies, LegacyEmpty
  <2> QED BY <1>7, <2>1, <2>3, QuietStep
<1>9. CASE flight.mask[m] /\ flight.kind # "fallback"
  <2>1. Batch /\ log' = Append(log, flight.ids[m])
    BY <1>1, <1>2, <1>9 DEF Batch
  <2>2. /\ CompletionOK(ledger, flight.ids, flight.mask, InFlightOf(flight.kind))
        /\ Distinct(flight.ids)
    BY <2>1 DEF APIInv, Reserved
  <2>3. PICK p \in DOMAIN ledger : ledger[p].id = flight.ids[m]
                                   /\ ledger[p].state = InFlightOf(flight.kind)
    BY <1>2, <1>9, <2>2, AtFinds DEF CompletionOK
  <2>4. ~Done(p)
    <3>1. ~Emitted(ledger[p])
      BY <2>3 DEF Emitted, EmittedStates, InFlightOf
    <3>2. \A j \in 1 .. m - 1 : flight.ids[j] # flight.ids[m]
      BY <1>2, <2>2 DEF Distinct
    <3> QED BY <1>2, <2>3, <3>1, <3>2 DEF Done
  <2>5. \A j \in DOMAIN log : log[j] # flight.ids[m]
    <3>1. Unique(ledger) /\ Fresh(ledger[p].id)
      BY APIFacts
    <3>2. \A i \in DOMAIN ledger : ledger[i].id = flight.ids[m] => ~Done(i)
      BY <2>3, <2>4, <3>1 DEF Unique
    <3> QED BY <1>9, <2>3, <3>1, <3>2, NotInLog
  <2>6. p \in DOMAIN ledger' /\ ledger'[p].id = flight.ids[m] /\ Done(p)'
    BY <1>1, <1>6, <1>9, <2>1, <2>3
  <2>7. FallbackFresh'
    BY <1>3, <1>9 DEF FallbackFresh
  <2>8. Flies
    BY <1>1, <1>2, <1>3, <1>4, <1>5, <1>9, <2>7 DEF Flies
  <2>9. flight.ids[m] \in UpdateIds
    BY <1>2
  <2> QED BY <1>7, <1>9, <2>1, <2>5, <2>6, <2>8, <2>9, LoudStep
<1>10. CASE flight.mask[m] /\ flight.kind = "fallback"
  <2> DEFINE u == flight.ids[m]
  <2>1. log' = Append(log, u) /\ base' = base /\ u \in UpdateIds
    BY <1>1, <1>2, <1>10
  <2>2. m \in m .. Len(flight.ids) /\ FallbackFresh
    BY <1>1, <1>2 DEF APIInv
  <2>3. \A j \in DOMAIN log : log[j] # u
    BY <1>2, <1>10, <2>2 DEF FallbackFresh
  <2>4. /\ log \in Seq(UpdateIds) /\ base \in 0 .. Len(log) /\ Len(log) \in Nat
        /\ DOMAIN log = 1 .. Len(log)
    BY APIFacts
  <2> HIDE DEF u
  <2>5. /\ log' \in Seq(UpdateIds) /\ Len(log') = Len(log) + 1
        /\ DOMAIN log' = 1 .. Len(log) + 1
        /\ log'[Len(log) + 1] = u /\ \A j \in DOMAIN log : log'[j] = log[j]
    BY <2>1, <2>4
  <2>6. \A j \in DOMAIN log' : j \in DOMAIN log \/ j = Len(log) + 1
    BY <2>4, <2>5
  <2>7. AppliedOnce'
    <3>1. \A i, j \in DOMAIN log : log[i] = log[j] => i = j
      BY DEF APIInv, AppliedOnce, Distinct
    <3>2. \A i, j \in DOMAIN log' : log'[i] = log'[j] => i = j
      BY <2>3, <2>5, <2>6, <3>1
    <3> QED BY <3>2 DEF AppliedOnce, Distinct
  <2>8. FallbackFresh'
    <3> SUFFICES ASSUME NEW k \in m + 1 .. Len(flight.ids), flight.mask[k],
                        NEW i \in DOMAIN log'
                 PROVE  log'[i] # flight.ids[k]
      BY <1>3, <1>10, <2>2 DEF FallbackFresh
    <3>1. k \in m .. Len(flight.ids) /\ k \in DOMAIN flight.ids /\ k # m
      BY <1>2
    <3>2. CASE i \in DOMAIN log
      BY <1>2, <1>10, <2>2, <2>5, <3>1, <3>2 DEF FallbackFresh
    <3>3. CASE i = Len(log) + 1
      BY <1>2, <1>10, <2>2, <2>5, <3>1, <3>3 DEF FallbackFresh, Distinct, u
    <3> QED BY <2>6, <3>2, <3>3
  <2>9. ledger = <<>> /\ ledger' = <<>>
    BY <1>1, <1>10 DEF APIInv, LegacyEmpty
  <2>10. UniqueIds' /\ LogInLedger'
    BY <1>3, <1>10, <2>9 DEF UniqueIds, LogInLedger
  <2>11. TypeOK'
    <3>1. base' \in 0 .. Len(log')
      BY <2>1, <2>4, <2>5
    <3> QED BY <1>1, <1>3, <1>4, <1>2, <2>5, <3>1 DEF APIInv, TypeOK, session
  <2> QED BY <1>5, <2>7, <2>8, <2>10, <2>11 DEF APIInv
<1> QED BY <1>2, <1>8, <1>9, <1>10

\* A completion turns what was done into emitted entries, and nothing else.
LEMMA Completed ==
  ASSUME APIInv, Batch, ledger' \in Seq(Entries), SameUpdates(ledger, ledger'),
         \A i \in DOMAIN ledger : Done(i) => Emitted(ledger'[i]),
         flight' = NoFlight, UNCHANGED <<session, log, base, epoch>>
  PROVE  APIInv'
<1>1. /\ DOMAIN ledger' = DOMAIN ledger /\ Unique(ledger') /\ Len(ledger') = Len(ledger)
      /\ \A i \in DOMAIN ledger : ledger'[i].id = ledger[i].id
  BY APIFacts, SameAt DEF SameUpdates
<1>2. flight.kind # "fallback" /\ flight'.kind = "none" /\ ~Batch'
  BY DEF Batch, NoFlight
<1>3. stage' = "LEGACY" => ledger' = <<>>
  BY <1>1 DEF APIInv, LegacyEmpty, session
<1>4. Grown
  <2>1. \A i \in DOMAIN ledger : Done(i)'  <=> Emitted(ledger'[i])
    BY <1>2 DEF Done
  <2>2. Len(ledger) \in Nat /\ Len(ledger) <= MaxLedgerEntries
        /\ \A i \in DOMAIN ledger : Fresh(ledger[i].id)
    BY APIFacts
  <2> QED BY <1>1, <1>3, <2>1, <2>2, APIFacts DEF Grown, session, SessionTyped
<1>5. Reserved' /\ FallbackFresh'
  BY <1>2 DEF Reserved, FallbackFresh
<1>6. Flies
  BY <1>2, <1>5 DEF Flies
<1>7. log' = log
  OBVIOUS
<1> QED BY <1>4, <1>6, <1>7, QuietStep

\* The completion of a batch, also of one the caller gave up in the middle.
LEMMA APICompleteBatch ==
  ASSUME APIInv, NEW emitted \in BOOLEAN, CompleteBatch(emitted)
  PROVE  APIInv'
<1> DEFINE st == IF emitted THEN AppliedOf(flight.kind) ELSE RefusedOf(flight.kind)
           M == SetStates(ledger, flight.ids, flight.mask, st)
           Chosen(i) == \E k \in DOMAIN flight.ids :
                          flight.mask[k] /\ flight.ids[k] = ledger[i].id
<1>1. /\ Batch /\ flight.next = IF emitted THEN Len(flight.ids) + 1 ELSE 1
      /\ CompletionOK(ledger, flight.ids, flight.mask, InFlightOf(flight.kind))
      /\ ledger' = M /\ flight' = NoFlight
      /\ UNCHANGED <<session, log, base, epoch>>
  BY DEF CompleteBatch, Batch
<1>2. st \in LedgerStates /\ (emitted => st \in EmittedStates)
  BY DEF AppliedOf, RefusedOf, LedgerStates, EmittedStates, IdleStates
<1> HIDE DEF st
<1>3. /\ ledger \in Seq(Entries) /\ Unique(ledger)
      /\ DOMAIN flight.ids = 1 .. Len(flight.ids) /\ Len(flight.ids) \in Nat
  BY <1>1, APIFacts, FlightKinds DEF APIInv, Batch
<1>4. /\ M \in Seq(Entries) /\ SameUpdates(ledger, M)
      /\ \A i \in DOMAIN ledger : IF Chosen(i) THEN M[i].state = st ELSE M[i] = ledger[i]
  BY <1>2, <1>3, SetStatesKeeps
<1> HIDE DEF M
<1>5. \A i \in DOMAIN ledger : Chosen(i) => ~Emitted(ledger[i])
  <2> SUFFICES ASSUME NEW i \in DOMAIN ledger, NEW k \in DOMAIN flight.ids,
                      flight.mask[k], flight.ids[k] = ledger[i].id
               PROVE  ~Emitted(ledger[i])
    OBVIOUS
  <2>1. At(ledger, flight.ids[k]) = i
    BY <1>3, AtIsPosition
  <2>2. ledger[i].state = InFlightOf(flight.kind)
    BY <1>1, <2>1 DEF CompletionOK
  <2> QED BY <2>2 DEF Emitted, EmittedStates, InFlightOf
<1>6. \A i \in DOMAIN ledger : Done(i) => Emitted(M[i])
  <2> TAKE i \in DOMAIN ledger
  <2>1. CASE emitted
    <3>1. \A k \in 1 .. (Len(flight.ids) + 1) - 1 : k \in DOMAIN flight.ids
      BY <1>3
    <3>2. Done(i) => Emitted(ledger[i]) \/ Chosen(i)
      BY <1>1, <2>1, <3>1 DEF Done
    <3> QED BY <1>2, <1>4, <2>1, <3>2 DEF Emitted
  <2>2. CASE ~emitted
    <3>1. Done(i) => Emitted(ledger[i])
      BY <1>1, <2>2 DEF Done
    <3> QED BY <1>4, <1>5, <3>1
  <2> QED BY <2>1, <2>2
<1> HIDE DEF Chosen
<1> QED BY <1>1, <1>4, <1>6, Completed

\* The completion of a reservation of one update.
LEMMA APICompleteOne ==
  ASSUME APIInv, NEW kind \in {"release", "replay"}, NEW emitted \in BOOLEAN,
         CompleteOne(kind, emitted)
  PROVE  APIInv'
<1> DEFINE u == flight.ids[1]
           p == At(ledger, u)
           st == IF emitted THEN AppliedOf(kind) ELSE RefusedOf(kind)
           M == SetState(ledger, p, st)
<1>1. /\ Batch /\ flight.kind = kind /\ Len(flight.ids) = 1
      /\ flight.next = IF emitted THEN 2 ELSE 1
      /\ ledger[p].state = InFlightOf(kind)
      /\ ledger' = M /\ flight' = NoFlight
      /\ UNCHANGED <<session, log, base, epoch>>
  BY DEF CompleteOne, Batch, StateOf
<1>2. st \in LedgerStates /\ (emitted => st \in EmittedStates)
  BY DEF AppliedOf, RefusedOf, LedgerStates, EmittedStates, IdleStates
<1>3. ledger \in Seq(Entries) /\ Unique(ledger) /\ 1 \in DOMAIN flight.ids
  BY <1>1, APIFacts, FlightKinds DEF APIInv, Batch
<1> HIDE DEF st
<1>4. p \in DOMAIN ledger /\ ledger[p].id = u
  <2>1. Has(ledger, u)
    BY <1>1, <1>3 DEF APIInv, Reserved, CompletionOK
  <2> QED BY <2>1, AtFinds
<1>5. ~Emitted(ledger[p])
  BY <1>1 DEF Emitted, EmittedStates, InFlightOf
<1> HIDE DEF p
<1>6. /\ M \in Seq(Entries) /\ SameUpdates(ledger, M) /\ M[p].state = st
      /\ \A i \in DOMAIN ledger : i # p => M[i] = ledger[i]
  BY <1>2, <1>3, <1>4, SetStateKeeps
<1> HIDE DEF M
<1>7. \A i \in DOMAIN ledger : Done(i) => Emitted(M[i])
  <2> TAKE i \in DOMAIN ledger
  <2>1. CASE emitted
    <3>1. \A k \in 1 .. 2 - 1 : k = 1
      OBVIOUS
    <3>2. Done(i) => Emitted(ledger[i]) \/ ledger[i].id = u
      BY <1>1, <2>1, <3>1 DEF Done
    <3>3. ledger[i].id = u => i = p
      BY <1>3, <1>4 DEF Unique
    <3> QED BY <1>2, <1>5, <1>6, <2>1, <3>2, <3>3 DEF Emitted
  <2>2. CASE ~emitted
    <3>1. Done(i) => Emitted(ledger[i])
      BY <1>1, <2>2 DEF Done
    <3> QED BY <1>5, <1>6, <3>1
  <2> QED BY <2>1, <2>2
<1> QED BY <1>1, <1>6, <1>7, Completed

\* A fallback flush takes updates that were not applied, each once.
LEMMA APIFallbackFlush ==
  ASSUME APIInv, NEW ids \in IdBatches \cup {<<>>}, FallbackFlush(ids)
  PROVE  APIInv'
<1> DEFINE mask == EmitMask(ledger, ids)
<1>1. /\ flight = NoFlight /\ \A k \in DOMAIN ids : Fresh(ids[k])
      /\ Distinct(ids)
      /\ flight' = [kind |-> "fallback", ids |-> ids, mask |-> mask, next |-> 1]
      /\ ledger' = <<>> /\ base' = Len(log) /\ log' = log /\ epoch' = epoch
      /\ stage' = "LEGACY" /\ negotiated' = FALSE /\ legacy' = TRUE /\ caps' = {}
  BY DEF FallbackFlush, EnterLegacy, ClearLedger, Reservation, FallbackOK
<1>2. ids \in Seq(UpdateIds) /\ DOMAIN ids = 1 .. Len(ids) /\ Len(ids) \in Nat
  <2>1. CASE ids \in IdBatches
    BY <2>1, BatchIsSeq
  <2>2. CASE ids = <<>>
    BY <2>2
  <2> QED BY <2>1, <2>2
<1>3. /\ mask \in Seq(BOOLEAN) /\ DOMAIN mask = DOMAIN ids
      /\ \A k \in DOMAIN ids :
           mask[k] => ~Has(ledger, ids[k]) \/ ~Emitted(ledger[At(ledger, ids[k])])
  BY <1>2, MaskIsSeq DEF EmitMask
<1> HIDE DEF mask
<1>4. /\ flight'.kind = "fallback" /\ flight'.ids = ids /\ flight'.mask = mask
      /\ flight'.next = 1 /\ ~Batch' /\ DOMAIN ledger' = {}
  BY <1>1 DEF Batch
<1>5. TypeOK'
  <2>1. flight' \in [kind : {"release", "replay", "fallback"},
                     ids : Seq(UpdateIds), mask : Seq(BOOLEAN), next : Nat]
    BY <1>1, <1>2, <1>3
  <2>2. flight'.next \in 1 .. Len(flight'.ids) + 1
    BY <1>2, <1>4
  <2>3. base' \in 0 .. Len(log') /\ log' \in Seq(UpdateIds)
    BY <1>1, APIFacts
  <2>4. ledger' \in Seq(Entries) /\ Len(ledger') = 0 /\ 0 <= MaxLedgerEntries
    BY <1>1, LedgerAssumption
  <2> QED BY <1>1, <1>3, <1>4, <2>1, <2>2, <2>3, <2>4 DEF APIInv, TypeOK, Stages, Entries
<1>6. FallbackFresh'
  <2> SUFFICES ASSUME NEW k \in 1 .. Len(ids), mask[k], NEW i \in DOMAIN log
               PROVE  log[i] # ids[k]
    BY <1>1, <1>4 DEF FallbackFresh
  <2>1. flight.kind # "fallback" /\ ~Batch
    BY <1>1 DEF NoFlight, Batch
  <2>2. ASSUME NEW q \in DOMAIN ledger, ledger[q].id = ids[k] PROVE ~Done(q)
    <3>1. Has(ledger, ids[k]) /\ At(ledger, ids[k]) = q
      BY <2>2, APIFacts, AtIsPosition
    <3>2. ~Emitted(ledger[q])
      BY <1>2, <1>3, <3>1
    <3> QED BY <2>1, <3>2 DEF Done
  <2>3. Fresh(ids[k])
    BY <1>1, <1>2
  <2> QED BY <2>1, <2>2, <2>3, NotInLog
<1>7. UniqueIds' /\ LogInLedger' /\ Reserved' /\ LegacyEmpty'
  BY <1>1, <1>4 DEF UniqueIds, LogInLedger, Reserved, LegacyEmpty
<1>8. AppliedOnce'
  BY <1>1 DEF APIInv, AppliedOnce, Distinct
<1> QED BY <1>5, <1>6, <1>7, <1>8 DEF APIInv

\* The end of a fallback flush.
LEMMA APICompleteFallback ==
  ASSUME APIInv, CompleteFallback
  PROVE  APIInv'
<1>1. /\ flight' = NoFlight /\ base' = Len(log) /\ log' = log
      /\ UNCHANGED <<session, epoch, ledger>> /\ ledger = <<>>
  BY DEF CompleteFallback, APIInv, LegacyEmpty
<1>2. flight'.kind = "none" /\ ~Batch' /\ DOMAIN ledger' = {}
  BY <1>1 DEF NoFlight, Batch
<1>3. log \in Seq(UpdateIds) /\ Len(log) \in Nat
  BY APIFacts
<1>4. TypeOK'
  BY <1>1, <1>2, <1>3 DEF APIInv, TypeOK, session
<1>5. LogInLedger'
  BY <1>1, <1>3 DEF LogInLedger
<1>6. UniqueIds' /\ Reserved' /\ FallbackFresh' /\ LegacyEmpty'
  BY <1>1, <1>2 DEF UniqueIds, Reserved, FallbackFresh, LegacyEmpty
<1>7. AppliedOnce'
  BY <1>1 DEF APIInv, AppliedOnce, Distinct
<1> QED BY <1>4, <1>5, <1>6, <1>7 DEF APIInv

\* The invariant of the batches gives that of the whole interface at the start.
LEMMA APIInit == Init => APIInv
<1> SUFFICES ASSUME Init PROVE APIInv
  OBVIOUS
<1>1. IInv
  BY InitIInv
<1>2. LogInLedger /\ Reserved
  BY DEF Init, LogInLedger, Reserved, Batch, NoFlight
<1> QED BY <1>1, <1>2 DEF IInv, APIInv

\* The invariant of the whole interface is inductive.
LEMMA APIStep == APIInv /\ [APINext]_vars => APIInv'
<1> SUFFICES ASSUME APIInv, [APINext]_vars PROVE APIInv'
  OBVIOUS
<1>1. CASE ControlPacket
  BY <1>1, APIControl
<1>2. ASSUME NEW u \in UpdateIds, NEW s \in SubmissionIds, Prepare(u, s) PROVE APIInv'
  BY <1>2, APIPrepare
<1>3. ASSUME NEW u \in UpdateIds, MarkReady(u) \/ Release(u) \/ Commit(u) PROVE APIInv'
  BY <1>3, APIOneEntry
<1>4. ASSUME NEW ids \in IdBatches,
             \/ BeginReleaseBatch(ids)
             \/ \E subs \in [DOMAIN ids -> SubmissionIds] : BeginReplayBatch(ids, subs)
      PROVE  APIInv'
  BY <1>4, APIBeginBatch
<1>5. CASE ApplyNext
  BY <1>5, APIApplyNext
<1>6. ASSUME NEW emitted \in BOOLEAN, CompleteBatch(emitted) PROVE APIInv'
  BY <1>6, APICompleteBatch
<1>7. CASE BeginRecovery
  <2>1. SessionTyped' /\ stage' # "LEGACY"
    BY <1>7, APIFacts DEF BeginRecovery, SessionTyped, Stages
  <2> QED BY <1>7, <2>1, APIDiscard DEF BeginRecovery
<1>8. ASSUME NEW ids \in IdBatches \cup {<<>>}, FallbackFlush(ids) PROVE APIInv'
  BY <1>8, APIFallbackFlush
<1>9. CASE CompleteFallback
  BY <1>9, APICompleteFallback
<1>10. ASSUME NEW u \in UpdateIds, NEW s \in SubmissionIds, Replay(u, s) PROVE APIInv'
  BY <1>10, APIReplay
<1>11. ASSUME NEW u \in UpdateIds, BeginRelease(u) \/ \E s \in SubmissionIds : BeginReplay(u, s)
       PROVE  APIInv'
  BY <1>11, APIBeginOne
<1>12. ASSUME NEW emitted \in BOOLEAN, CompleteRelease(emitted) \/ CompleteReplay(emitted)
       PROVE  APIInv'
  BY <1>12, APICompleteOne DEF CompleteRelease, CompleteReplay
<1>13. CASE Checkpoint
  <2>1. SessionTyped'
    BY <1>13, APIFacts DEF Checkpoint, session, SessionTyped
  <2> QED BY <1>13, <2>1, APIClear DEF Checkpoint
<1>14. CASE UNCHANGED vars
  <2>1. UNCHANGED <<ledger, flight, log, base>> /\ SessionTyped' /\ UNCHANGED stage
    BY <1>14, APIFacts DEF vars, SessionTyped
  <2> QED BY <2>1, APIStage
<1> QED
  <2>1. CASE SingleRelease \/ SingleReplay
    BY <1>3, <1>10, <1>11, <1>12, <1>13, <2>1 DEF SingleRelease, SingleReplay
  <2>2. CASE LedgerOperation
    BY <1>2, <1>3, <1>4, <1>5, <1>6, <1>7, <1>8, <1>9, <2>2 DEF LedgerOperation
  <2> QED BY <1>1, <1>14, <2>1, <2>2 DEF APINext, Next

\* Whatever order the operations of the header are called in, an update that was
\* applied and is still in the ledger is emitted or done, and what a caller has
\* reserved is in flight.
THEOREM APIInvariance == APISpec => []APIInv
<1> QED BY APIInit, APIStep, PTL DEF APISpec

\* No update is applied twice when the one-update operations and the batches
\* of the header are mixed.
THEOREM OnceWithSingles == APISpec => []AppliedOnce
<1>1. APIInv => AppliedOnce
  BY DEF APIInv
<1> QED BY <1>1, APIInvariance, PTL

\* Every begin of the header can be completed, whatever runs in between.
THEOREM CompletesWithSingles == APISpec => []CompletionAccepted
<1>1. APIInv => CompletionAccepted
  BY DEF APIInv, Reserved, CompletionAccepted, Batch
<1> QED BY <1>1, APIInvariance, PTL
=============================================================================
