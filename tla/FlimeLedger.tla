---------------------------- MODULE FlimeLedger ----------------------------
(***************************************************************************)
(* The recovery ledger of one FLIME host session and the progress stage it *)
(* is tied to (express_vk_flime.c).  A descriptor update is admitted to    *)
(* the ledger, reserved by a begin operation, applied by the renderer      *)
(* outside the session lock, and completed; a mismatch discards what was   *)
(* not applied and the guest replays it.                                   *)
(*                                                                         *)
(* The caller is express_vk_flime_bridge.c: routes prepare updates only in *)
(* Learn, Match and Fast and replay them only in Recover                   *)
(* (flime_validate_route_plan_locked), and control packets are refused     *)
(* while host work is in flight (express_vk_flime_bridge_control).  The    *)
(* guest numbers updates, so an id that went through a cleared ledger is   *)
(* not used again.                                                         *)
(*                                                                         *)
(* flight is the caller's reservation between a begin and its completion;  *)
(* log is what the renderer applied, in order; base is the part of log     *)
(* applied under ledgers that have been cleared since.                     *)
(***************************************************************************)
EXTENDS FlimeLedgerOps

CONSTANTS UpdateIds, SubmissionIds,
          MaxLedgerEntries,   \* config.max_ledger_entries
          PeerCaps,           \* capability sets a peer may ask for
          MaxBatch,           \* bound: longest batch
          MaxEpoch            \* bound: protocol restarts the guest asks for

ASSUME LedgerAssumption ==
  /\ MaxLedgerEntries \in Nat \ {0}
  /\ MaxBatch \in Nat \ {0}
  /\ MaxEpoch \in Nat
  /\ PeerCaps \subseteq SUBSET {"PROGRESSIVE", "LEDGER", "DIRECT"}

VARIABLES ledger, stage, negotiated, legacy, caps, flight, log, base, epoch

vars == <<ledger, stage, negotiated, legacy, caps, flight, log, base, epoch>>
session == <<stage, negotiated, legacy, caps>>

Stages == {"LEGACY", "DETECT", "LEARN", "MATCH", "FAST", "RECOVER"}
Learned == {"LEARN", "MATCH", "FAST"}

IdBatches == UNION {[1 .. n -> UpdateIds] : n \in 1 .. MaxBatch}

NoFlight == [kind |-> "none"]

\* A reservation: the batch, its emit_mask and the next element to apply.
Reservation(kind, ids, mask) ==
  [kind |-> kind, ids |-> ids, mask |-> mask, next |-> 1]

InFlightOf(kind) ==
  IF kind = "release" THEN "RELEASE_IN_FLIGHT" ELSE "REPLAY_IN_FLIGHT"
AppliedOf(kind) == IF kind = "release" THEN "RELEASED" ELSE "REPLAY_EMITTED"
\* fault: a failed batch stays in flight
RefusedStays(kind) == InFlightOf(kind)
RefusedOf(kind) == IF kind = "release" THEN "READY" ELSE "DISCARDED"

\* flime_ready_locked
Ready == negotiated /\ ~legacy

\* flime_normalize_capabilities, for the capabilities the ledger depends on
Normalize(c) ==
  IF {"PROGRESSIVE", "LEDGER"} \subseteq c THEN c ELSE c \ {"DIRECT"}

\* An id that went through an earlier ledger is spent.
Fresh(u) == \A i \in 1 .. base : log[i] # u

Init ==
  /\ ledger = <<>>
  /\ stage = "LEGACY" /\ negotiated = FALSE /\ legacy = TRUE /\ caps = {}
  /\ flight = NoFlight
  /\ log = <<>> /\ base = 0 /\ epoch = 0

-----------------------------------------------------------------------------
(* What clears the ledger: the applied updates stay in the log. *)

ClearLedger == ledger' = <<>> /\ base' = Len(log)

\* flime_enter_legacy_locked
EnterLegacy ==
  /\ ClearLedger
  /\ stage' = "LEGACY" /\ negotiated' = FALSE /\ legacy' = TRUE /\ caps' = {}

\* fault: the session goes Legacy and keeps its ledger
ForceLegacyKeeps ==
  /\ stage' = "LEGACY" /\ negotiated' = FALSE /\ legacy' = TRUE /\ caps' = {}
  /\ UNCHANGED <<ledger, base>>
\* fault: the owed replay is not looked at
ForceLegacyDrops == EnterLegacy
\* flime_wire_force_legacy: a session that owes replay keeps its ledger and
\* its capabilities; the result of begin_recovery is ignored.
ForceLegacy ==
  IF ledger = <<>>
  THEN EnterLegacy
  ELSE /\ ledger' = IF RecoveryOK(ledger) THEN Discard(ledger) ELSE ledger
       /\ stage' = "RECOVER" /\ legacy' = TRUE
       /\ UNCHANGED <<negotiated, caps, base>>

\* flime_begin_recovery_locked inside a control packet
RecoverOrForce ==
  IF RecoveryOK(ledger)
  THEN /\ ledger' = Discard(ledger)
       /\ stage' = "RECOVER"
       /\ UNCHANGED <<negotiated, legacy, caps, base>>
  ELSE ForceLegacy

-----------------------------------------------------------------------------
(* Control packets, refused while host work is in flight. *)

Control == flight = NoFlight /\ UNCHANGED <<flight, log>>

\* WIRE_CAPABILITIES: a version both sides know, or none at all.  The bridge
\* lets a session renegotiate in Legacy only.
Negotiate ==
  /\ Control
  /\ stage = "LEGACY"
  /\ epoch < MaxEpoch /\ epoch' = epoch + 1
  /\ \/ \E c \in {Normalize(p) : p \in PeerCaps} :
          /\ ClearLedger
          /\ caps' = c
          /\ negotiated' = (c # {}) /\ legacy' = (c = {})
          /\ stage' = IF c = {} THEN "LEGACY" ELSE "DETECT"
     \/ EnterLegacy

\* WIRE_INTERVAL_SIGNATURE: found is the answer of the repetition search
NoteInterval(found) ==
  /\ Control /\ UNCHANGED epoch
  /\ IF Ready
     THEN /\ stage' = IF found /\ stage = "DETECT" THEN "LEARN" ELSE stage
          /\ UNCHANGED <<ledger, negotiated, legacy, caps, base>>
     ELSE ForceLegacy

CanProgress == Ready /\ "PROGRESSIVE" \in caps

Advance(from, to, ok) ==
  /\ Control /\ UNCHANGED epoch
  /\ IF ~CanProgress \/ stage # from
     THEN ForceLegacy
     ELSE IF ok
          THEN /\ stage' = to
               /\ UNCHANGED <<ledger, negotiated, legacy, caps, base>>
          ELSE RecoverOrForce

\* PROGRESS_LEARN_COMPLETE: the wire requires the generic shadow to have run
LearnComplete == Advance("LEARN", "MATCH", TRUE)

\* PROGRESS_MATCH_COMPLETE: ok when the match succeeded, the shadow ran and
\* the template is the learned one
MatchComplete(ok) == Advance("MATCH", "FAST", ok)

\* fault: released entries count as committed
FastPeriodCompleteEmitted(ok) ==
  /\ Control /\ UNCHANGED epoch
  /\ IF ~CanProgress \/ stage # "FAST"
     THEN ForceLegacy
     ELSE IF ok /\ AllEmitted(ledger)
          THEN ClearLedger /\ UNCHANGED session
          ELSE RecoverOrForce
\* PROGRESS_FAST_PERIOD_COMPLETE: ok when the match succeeded on the learned
\* template and the period closed after the last checkpoint
FastPeriodComplete(ok) ==
  /\ Control /\ UNCHANGED epoch
  /\ IF ~CanProgress \/ stage # "FAST"
     THEN ForceLegacy
     ELSE IF ok /\ AllCommitted(ledger)
          THEN ClearLedger /\ UNCHANGED session
          ELSE RecoverOrForce

\* PROGRESS_MISMATCH
Mismatch ==
  /\ Control /\ UNCHANGED epoch
  /\ IF ~CanProgress \/ stage \notin Learned
     THEN ForceLegacy
     ELSE RecoverOrForce

\* PROGRESS_RECOVERY_COMPLETE, also accepted from a session that fell back
RecoveryComplete ==
  /\ Control /\ UNCHANGED epoch
  /\ IF /\ Ready \/ (legacy /\ negotiated /\ stage = "RECOVER")
        /\ "PROGRESSIVE" \in caps
        /\ stage = "RECOVER"
        /\ AllCommitted(ledger)
     THEN /\ ClearLedger
          /\ stage' = IF legacy THEN "LEGACY" ELSE "DETECT"
          /\ negotiated' = ~legacy
          /\ caps' = IF legacy THEN {} ELSE caps
          /\ UNCHANGED legacy
     ELSE ForceLegacy

\* A packet that does not parse
WireError == Control /\ UNCHANGED epoch /\ ForceLegacy

\* WIRE_SESSION_RESET, refused in Recover by the bridge
SessionReset ==
  /\ Control
  /\ stage # "RECOVER" /\ Ready
  /\ epoch < MaxEpoch /\ epoch' = epoch + 1
  /\ ClearLedger
  /\ stage' = "DETECT"
  /\ UNCHANGED <<negotiated, legacy, caps>>

\* WIRE_SESSION_TEARDOWN: the session is removed, and a new one starts Legacy
SessionTeardown ==
  /\ Control
  /\ epoch < MaxEpoch /\ epoch' = epoch + 1
  /\ EnterLegacy

-----------------------------------------------------------------------------
(* Ledger operations. *)

\* fault: off by one at the limit
PrepareOneMore(u, s) ==
  /\ Ready /\ "DIRECT" \in caps /\ stage \in Learned
  /\ ~Has(ledger, u) /\ Fresh(u)
  /\ Len(ledger) <= MaxLedgerEntries
  /\ ledger' = Append(ledger, Entry(u, s, "PREPARED"))
  /\ UNCHANGED <<session, flight, log, base, epoch>>
\* express_vk_flime_session_ledger_prepare of a new id
Prepare(u, s) ==
  /\ Ready /\ "DIRECT" \in caps /\ stage \in Learned
  /\ ~Has(ledger, u) /\ Fresh(u)
  /\ Len(ledger) < MaxLedgerEntries
  /\ ledger' = Append(ledger, Entry(u, s, "PREPARED"))
  /\ UNCHANGED <<session, flight, log, base, epoch>>

\* express_vk_flime_session_ledger_mark_ready
MarkReady(u) ==
  /\ Has(ledger, u) /\ ledger[At(ledger, u)].state = "PREPARED"
  /\ ledger' = SetState(ledger, At(ledger, u), "READY")
  /\ UNCHANGED <<session, flight, log, base, epoch>>

BeginReleaseBatch(ids) ==
  LET mask == EmitMask(ledger, ids)
  IN /\ flight = NoFlight
     /\ ReleaseBatchOK(ledger, ids)
     /\ ledger' = SetStates(ledger, ids, mask, "RELEASE_IN_FLIGHT")
     /\ flight' = Reservation("release", ids, mask)
     /\ UNCHANGED <<session, log, base, epoch>>

BeginReplayBatch(ids, subs) ==
  LET mask == EmitMask(ledger, ids)
  IN /\ flight = NoFlight
     /\ stage = "RECOVER" /\ "DIRECT" \in caps
     /\ \A k \in DOMAIN ids : Fresh(ids[k])
     /\ ReplayBatchOK(ledger, ids, subs, MaxLedgerEntries)
     /\ ledger' = SetStates(WithMissing(ledger, ids, subs), ids, mask,
                            "REPLAY_IN_FLIGHT")
     /\ flight' = Reservation("replay", ids, mask)
     /\ UNCHANGED <<session, log, base, epoch>>

\* The renderer applies the next update of the reservation.
ApplyNext ==
  /\ flight # NoFlight /\ flight.next <= Len(flight.ids)
  /\ flight' = [flight EXCEPT !.next = @ + 1]
  /\ log' = IF flight.mask[flight.next]
            THEN Append(log, flight.ids[flight.next]) ELSE log
  /\ UNCHANGED <<ledger, session, base, epoch>>

\* complete_release_batch and complete_replay_batch: emitted once the whole
\* batch is applied, not emitted when it failed before the renderer ran.
CompleteBatch(emitted) ==
  /\ flight.kind \in {"release", "replay"}
  /\ flight.next = IF emitted THEN Len(flight.ids) + 1 ELSE 1
  /\ CompletionOK(ledger, flight.ids, flight.mask, InFlightOf(flight.kind))
  /\ ledger' = SetStates(ledger, flight.ids, flight.mask,
                         IF emitted THEN AppliedOf(flight.kind)
                                    ELSE RefusedOf(flight.kind))
  /\ flight' = NoFlight
  /\ UNCHANGED <<session, log, base, epoch>>

\* express_vk_flime_session_ledger_commit; the caller emits a READY update
\* itself when it is told to.
Commit(u) ==
  LET i == At(ledger, u)
  IN /\ Has(ledger, u)
     /\ PrefixEmitted(ledger, i)
     /\ ledger[i].state \in {"READY", "RELEASED", "REPLAY_EMITTED"}
     /\ ledger' = SetState(ledger, i, "COMMITTED")
     /\ log' = IF ledger[i].state = "READY" THEN Append(log, u) ELSE log
     /\ UNCHANGED <<session, flight, base, epoch>>

\* express_vk_flime_session_ledger_begin_recovery, called by the bridge on
\* any failure of a route or a submit; refused while a batch is in flight.
\* A fallback flush has removed the session.
BeginRecovery ==
  /\ flight.kind # "fallback"
  /\ RecoveryOK(ledger)
  /\ ledger' = Discard(ledger)
  /\ stage' = "RECOVER"
  /\ UNCHANGED <<negotiated, legacy, caps, flight, log, base, epoch>>

\* A FALLBACK_FLUSH route: the ledger chooses what is left to apply, the
\* session is removed, and the caller applies it.
FallbackFlush(ids) ==
  /\ flight = NoFlight
  /\ Ready /\ "DIRECT" \in caps /\ stage \in Learned \cup {"RECOVER"}
  /\ \A k \in DOMAIN ids : Fresh(ids[k])
  /\ FallbackOK(ledger, ids)
  /\ flight' = Reservation("fallback", ids, EmitMask(ledger, ids))
  /\ EnterLegacy
  /\ UNCHANGED <<log, epoch>>

CompleteFallback ==
  /\ flight.kind = "fallback"
  /\ flight.next = Len(flight.ids) + 1
  /\ flight' = NoFlight
  /\ base' = Len(log)
  /\ UNCHANGED <<ledger, session, log, epoch>>

-----------------------------------------------------------------------------
ControlPacket ==
  \/ Negotiate
  \/ \E found \in BOOLEAN : NoteInterval(found)
  \/ LearnComplete
  \/ \E ok \in BOOLEAN : MatchComplete(ok)
  \/ \E ok \in BOOLEAN : FastPeriodComplete(ok)
  \/ Mismatch
  \/ RecoveryComplete
  \/ WireError
  \/ SessionReset
  \/ SessionTeardown

LedgerOperation ==
  \/ \E u \in UpdateIds, s \in SubmissionIds : Prepare(u, s)
  \/ \E u \in UpdateIds : MarkReady(u)
  \/ \E ids \in IdBatches : BeginReleaseBatch(ids)
  \/ \E ids \in IdBatches :
       \E subs \in [DOMAIN ids -> SubmissionIds] : BeginReplayBatch(ids, subs)
  \/ ApplyNext
  \/ \E emitted \in BOOLEAN : CompleteBatch(emitted)
  \/ \E u \in UpdateIds : Commit(u)
  \/ BeginRecovery
  \/ \E ids \in IdBatches \cup {<<>>} : FallbackFlush(ids)
  \/ CompleteFallback

Next == ControlPacket \/ LedgerOperation

Spec == Init /\ [][Next]_vars

-----------------------------------------------------------------------------
(* Properties. *)

\* The updates of the current ledger that the renderer has applied.
Applied == Len(log) - base

\* Every variable keeps to the values the C types and enums give it.
TypeOK ==
  /\ ledger \in Seq([id : UpdateIds, sub : SubmissionIds, state : LedgerStates])
  /\ Len(ledger) <= MaxLedgerEntries
  /\ stage \in Stages
  /\ negotiated \in BOOLEAN /\ legacy \in BOOLEAN
  /\ caps \subseteq {"PROGRESSIVE", "LEDGER", "DIRECT"}
  /\ \/ flight = NoFlight
     \/ /\ flight \in [kind : {"release", "replay", "fallback"},
                       ids : Seq(UpdateIds), mask : Seq(BOOLEAN), next : Nat]
        /\ DOMAIN flight.mask = DOMAIN flight.ids
        /\ flight.next \in 1 .. Len(flight.ids) + 1
  /\ log \in Seq(UpdateIds)
  /\ base \in 0 .. Len(log)
  /\ epoch \in 0 .. MaxEpoch

\* The renderer applies the updates of a ledger in the order the guest
\* admitted them, whatever mix of releases, failed batches, commits,
\* recoveries and replays got them there; and an entry the ledger calls
\* emitted has been applied.
AppliedInOrder ==
  flight.kind # "fallback" =>
    /\ Applied <= Len(ledger)
    /\ \A i \in 1 .. Applied : ledger[i].id = log[base + i]
    /\ \A i \in DOMAIN ledger : Emitted(ledger[i]) => i <= Applied

\* No update reaches the renderer twice, across recoveries, checkpoints and
\* fallback (express_vk_flime.h: should_emit "is true exactly once").
AppliedOnce == Distinct(log)

\* A begin is always answered by a completion the ledger accepts: nothing
\* that runs between the two halves may move an entry the batch covers.
CompletionAccepted ==
  flight.kind \in {"release", "replay"} =>
    CompletionOK(ledger, flight.ids, flight.mask, InFlightOf(flight.kind))

\* With no host work in flight begin_recovery cannot fail, which is what
\* flime_wire_force_legacy relies on when it ignores the answer.
RecoveryPossible == flight = NoFlight => RecoveryOK(ledger)

\* In Recover the guest can always replay what was discarded: the batch of
\* every entry not yet emitted, in ledger order, is accepted.
Owed == {i \in DOMAIN ledger : ~Emitted(ledger[i])}
ReplayPossible ==
  (stage = "RECOVER" /\ flight = NoFlight /\ Owed # {}) =>
    \E n \in DOMAIN ledger :
      /\ Owed = n .. Len(ledger)
      /\ ReplayBatchOK(ledger,
                       [k \in 1 .. Len(ledger) - n + 1 |-> ledger[n + k - 1].id],
                       [k \in 1 .. Len(ledger) - n + 1 |-> ledger[n + k - 1].sub],
                       MaxLedgerEntries)

\* A guest that repeats its whole ledger can always flush and go legacy.
FallbackPossible ==
  flight = NoFlight => FallbackOK(ledger, [i \in DOMAIN ledger |-> ledger[i].id])

\* A session in Legacy owes nothing, so the renegotiation and the fallback
\* that Legacy allows cannot drop an update.
LegacyOwesNothing == stage = "LEGACY" => ledger = <<>>

\* Unless the guest restarts the protocol, a ledger is forgotten only when
\* every entry is committed, or handed to a fallback flush that covers it.
Forgotten ==
  ledger # <<>> /\ ledger' = <<>> /\ epoch' = epoch =>
    \/ AllCommitted(ledger)
    \/ /\ flight'.kind = "fallback"
       /\ \A i \in Owed : \E k \in DOMAIN flight'.ids :
            flight'.ids[k] = ledger[i].id /\ flight'.mask[k]
ForgottenOnlyWhenDone == [][Forgotten]_vars

\* The inductive invariant: how the entries, the reservation and the log fit
\* together at every step.
Batch == flight.kind \in {"release", "replay"}

\* An update is in the ledger once, and never went through an earlier one.
UniqueIds ==
  /\ \A i, j \in DOMAIN ledger : ledger[i].id = ledger[j].id => i = j
  /\ \A i \in DOMAIN ledger : Fresh(ledger[i].id)

\* The applied updates are the first entries: those emitted, and those of
\* the batch in flight that the renderer has already done.
Done(i) ==
  \/ Emitted(ledger[i])
  \/ /\ Batch
     /\ \E k \in 1 .. flight.next - 1 :
          flight.mask[k] /\ flight.ids[k] = ledger[i].id
AppliedPrefix ==
  flight.kind # "fallback" =>
    /\ Applied <= Len(ledger)
    /\ \A i \in 1 .. Applied : ledger[i].id = log[base + i]
    /\ \A i \in DOMAIN ledger : i <= Applied <=> Done(i)

\* The batch in flight covers its in-flight entries in ledger order, right
\* behind the emitted ones, and no other entry is in flight.
BatchInOrder ==
  /\ \A i \in DOMAIN ledger : ledger[i].state \in InFlightStates =>
       Batch /\ \E k \in DOMAIN flight.ids :
                  flight.mask[k] /\ flight.ids[k] = ledger[i].id
  /\ Batch =>
       /\ CompletionOK(ledger, flight.ids, flight.mask, InFlightOf(flight.kind))
       /\ NoOvertaking(ledger, flight.ids)

\* A fallback flush has nothing left that is applied or named twice.
FallbackFresh ==
  flight.kind = "fallback" =>
    /\ Distinct(flight.ids)
    /\ \A k \in flight.next .. Len(flight.ids) :
         flight.mask[k] => \A i \in DOMAIN log : log[i] # flight.ids[k]

\* What is left in Recover waits for its replay.
RecoverWaits ==
  stage = "RECOVER" => \A i \in DOMAIN ledger :
    Emitted(ledger[i]) \/ ledger[i].state \in {"DISCARDED", "REPLAY_IN_FLIGHT"}

LegacyEmpty ==
  /\ stage = "LEGACY" => ledger = <<>>
  /\ flight.kind = "fallback" => stage = "LEGACY"

IInv ==
  /\ TypeOK /\ UniqueIds /\ AppliedPrefix /\ BatchInOrder /\ FallbackFresh
  /\ RecoverWaits /\ LegacyEmpty /\ AppliedOnce

\* The ledger implements UpdateDelivery: owed are the entries behind the
\* applied ones, or what is left of a fallback flush.
OwedIds ==
  IF flight.kind = "fallback"
  THEN LET left == {k \in flight.next .. Len(flight.ids) : flight.mask[k]}
           n    == Len(flight.ids) + 1
           from == CHOOSE k \in left \cup {n} : \A j \in left : k <= j
       IN SubSeq(flight.ids, from, Len(flight.ids))
  ELSE [k \in 1 .. Len(ledger) - Applied |-> ledger[Applied + k].id]

Delivery == INSTANCE UpdateDelivery
              WITH owed <- OwedIds, applied <- log, restarts <- epoch

\* Whatever the ledger does is one of: take new updates, apply the oldest it
\* owes, or give up because the guest restarted the protocol.
ImplementsDelivery == Delivery!Spec
=============================================================================
