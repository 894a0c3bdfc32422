--------------------------- MODULE FlimeLedgerAPI ---------------------------
(***************************************************************************)
(* The whole ledger interface of express_vk_flime.h.  The bridge only uses *)
(* the batch operations of FlimeLedger; the header also exports operations *)
(* on one update and an explicit checkpoint, modelled here.  A call that   *)
(* answers should_emit makes the caller apply the update: at once for      *)
(* release and replay, between begin and complete for the two-step forms.  *)
(***************************************************************************)
EXTENDS FlimeLedger

StateOf(u) == ledger[At(ledger, u)].state

One(u) == [k \in {1} |-> u]

\* express_vk_flime_session_ledger_release
Release(u) ==
  /\ Has(ledger, u) /\ PrefixEmitted(ledger, At(ledger, u))
  /\ StateOf(u) = "READY"
  /\ ledger' = SetState(ledger, At(ledger, u), "RELEASED")
  /\ log' = Append(log, u)
  /\ UNCHANGED <<session, flight, base, epoch>>

\* express_vk_flime_session_ledger_begin_release
BeginRelease(u) ==
  /\ flight = NoFlight
  /\ Has(ledger, u) /\ PrefixEmitted(ledger, At(ledger, u))
  /\ StateOf(u) = "READY"
  /\ ledger' = SetState(ledger, At(ledger, u), "RELEASE_IN_FLIGHT")
  /\ flight' = Reservation("release", One(u), One(TRUE))
  /\ UNCHANGED <<session, log, base, epoch>>

\* What complete_release and complete_replay share: the update of the
\* reservation leaves its in-flight state.
CompleteOne(kind, emitted) ==
  /\ flight.kind = kind /\ Len(flight.ids) = 1
  /\ flight.next = IF emitted THEN 2 ELSE 1
  /\ StateOf(flight.ids[1]) = InFlightOf(kind)
  /\ ledger' = SetState(ledger, At(ledger, flight.ids[1]),
                        IF emitted THEN AppliedOf(kind) ELSE RefusedOf(kind))
  /\ flight' = NoFlight
  /\ UNCHANGED <<session, log, base, epoch>>

CompleteRelease(emitted) == CompleteOne("release", emitted)
CompleteReplay(emitted)  == CompleteOne("replay", emitted)

\* fault: the state of a known update is not looked at
ReplayAny(u, s, st) ==
  \/ /\ Has(ledger, u)
     /\ ledger[At(ledger, u)].sub = s
     /\ PrefixEmitted(ledger, At(ledger, u))
     /\ ledger' = SetState(ledger, At(ledger, u), st)
  \/ /\ ~Has(ledger, u)
     /\ Len(ledger) < MaxLedgerEntries
     /\ ledger' = Append(ledger, Entry(u, s, st))
\* The position a single replay takes: the discarded entry when the ledger
\* knows the update, else a new entry at the end, with no look at what is
\* before it.
ReplayInto(u, s, st) ==
  \/ /\ Has(ledger, u)
     /\ ledger[At(ledger, u)].sub = s
     /\ StateOf(u) = "DISCARDED"
     /\ PrefixEmitted(ledger, At(ledger, u))
     /\ ledger' = SetState(ledger, At(ledger, u), st)
  \/ /\ ~Has(ledger, u)
     /\ Len(ledger) < MaxLedgerEntries
     /\ ledger' = Append(ledger, Entry(u, s, st))

\* A route may replay in Recover only.
MayReplay(u) == stage = "RECOVER" /\ "DIRECT" \in caps /\ Fresh(u)

\* express_vk_flime_session_ledger_replay
Replay(u, s) ==
  /\ MayReplay(u)
  /\ ReplayInto(u, s, "REPLAY_EMITTED")
  /\ log' = Append(log, u)
  /\ UNCHANGED <<session, flight, base, epoch>>

\* express_vk_flime_session_ledger_begin_replay
BeginReplay(u, s) ==
  /\ flight = NoFlight
  /\ MayReplay(u)
  /\ ReplayInto(u, s, "REPLAY_IN_FLIGHT")
  /\ flight' = Reservation("replay", One(u), One(TRUE))
  /\ UNCHANGED <<session, log, base, epoch>>

\* express_vk_flime_session_ledger_checkpoint of a later period: a period
\* boundary, so nothing is in flight.
Checkpoint ==
  /\ flight = NoFlight
  /\ ledger # <<>> /\ AllCommitted(ledger)
  /\ ClearLedger
  /\ UNCHANGED <<session, flight, log, epoch>>

SingleRelease ==
  \/ \E u \in UpdateIds : Release(u) \/ BeginRelease(u)
  \/ \E emitted \in BOOLEAN : CompleteRelease(emitted)
  \/ Checkpoint

SingleReplay ==
  \/ \E u \in UpdateIds, s \in SubmissionIds : Replay(u, s) \/ BeginReplay(u, s)
  \/ \E emitted \in BOOLEAN : CompleteReplay(emitted)

APINext == Next \/ SingleRelease \/ SingleReplay

APISpec == Init /\ [][APINext]_vars

-----------------------------------------------------------------------------
(* A single replay appends with no look at what is before it, so the applied *)
(* updates are no longer the first entries, and the invariant of FlimeLedger *)
(* fails here.  What remains is enough for AppliedOnce.                      *)

\* What was applied under this ledger is an entry that is emitted, or one of
\* the reservation that the caller has done.
LogInLedger ==
  flight.kind # "fallback" =>
    \A j \in base + 1 .. Len(log) :
      \E i \in DOMAIN ledger : ledger[i].id = log[j] /\ Done(i)

\* A reservation names its updates once and can be completed.
Reserved ==
  Batch =>
    /\ Distinct(flight.ids)
    /\ CompletionOK(ledger, flight.ids, flight.mask, InFlightOf(flight.kind))

\* The inductive invariant of the whole interface.
APIInv ==
  /\ TypeOK /\ UniqueIds /\ LogInLedger /\ Reserved /\ FallbackFresh /\ LegacyEmpty
  /\ AppliedOnce

=============================================================================
