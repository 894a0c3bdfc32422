----------------------------- MODULE FlimeBridge -----------------------------
(***************************************************************************)
(* The sessions of one process in express_vk_flime_bridge.c: control       *)
(* packets, routed submissions, the submit gate, and the failures that end *)
(* in a recovery.  Each stream s has                                       *)
(*   host[s].b   the bridge session,                                       *)
(*   host[s].c   the core session, cut down to what the bridge asks of it, *)
(*               its ledger being the one of FlimeLedgerOps,               *)
(*   host[s].p   its pending submission.                                   *)
(*                                                                         *)
(* vk_trans.c holds one lock over a control packet, over a route with the  *)
(* realization of its release, and over a submit from the gate to its      *)
(* completion.  work says which of the last two is under way; the planner  *)
(* thread and a shutdown for a snapshot do not take that lock and fall in  *)
(* between.  So at most one pending submission of a stream is referenced   *)
(* at a time, listed or not.                                               *)
(*                                                                         *)
(* Period ids grow and a period has one submission, so a submission has    *)
(* the number of its period.  Its updates are <<number, k>>.               *)
(***************************************************************************)
EXTENDS FlimeLedgerOps, FiniteSets

CONSTANTS
  Streams, Queues,
  NoQueue,        \* not a queue
  Sizes,          \* how many updates a submission may declare
  PlanChunks,     \* chunks of a planned (not single-flush) submission
  MaxPeriods,     \* bound: periods begun in all
  MaxSessions     \* bound: sessions opened in all

ASSUME BridgeAssumption ==
  /\ NoQueue \notin Queues
  /\ Sizes \subseteq Nat
  /\ PlanChunks \in Nat \ {0}
  /\ MaxPeriods \in Nat /\ MaxSessions \in Nat

VARIABLES
  host,      \* see above
  work,      \* the route or submit that holds the transaction lock
  ran,       \* the submissions that were really run
  periods,   \* periods begun
  opened     \* sessions opened

vars == <<host, work, ran, periods, opened>>

Learned == {"LEARN", "MATCH", "FAST"}

NoWork == [op |-> "none"]

NewBridge ==
  [live |-> TRUE, queue |-> NoQueue, last |-> 0, period |-> 0,
   single |-> FALSE, sub |-> 0, declared |-> 0, open |-> FALSE,
   executed |-> FALSE, committed |-> FALSE, profiled |-> FALSE,
   chunks |-> 0, units |-> FALSE, pending |-> 0, inflight |-> 0,
   deferred |-> FALSE]

\* flime_enter_legacy_locked
LegacyCore ==
  [stage |-> "LEGACY", fallback |-> TRUE, ledger |-> <<>>,
   open |-> FALSE, cur |-> 0, last |-> 0]
\* express_vk_flime_session_negotiate with capabilities in common
FreshCore == [LegacyCore EXCEPT !.stage = "DETECT", !.fallback = FALSE]

NoPending ==
  [sub |-> 0, queue |-> NoQueue, n |-> 0, got |-> 0, next |-> 0,
   chunks |-> 0, complete |-> FALSE, recovery |-> FALSE, failed |-> FALSE,
   started |-> FALSE, applied |-> FALSE, submitting |-> FALSE,
   releasing |-> FALSE, ids |-> <<>>, tail |-> <<>>, listed |-> FALSE,
   refs |-> 0]

Gone == [b |-> [NewBridge EXCEPT !.live = FALSE], c |-> LegacyCore, p |-> NoPending]

Init ==
  /\ host = [s \in Streams |-> Gone]
  /\ work = NoWork
  /\ ran = {}
  /\ periods = 0 /\ opened = 0

-----------------------------------------------------------------------------
(* One stream h: recovery, and the life of a pending submission. *)

\* flime_session_begin_recovery_locked: nothing happens while a batch is in
\* flight in the ledger
BeganRecovery(h) ==
  IF RecoveryOK(h.c.ledger)
  THEN [h EXCEPT !.c.stage = "RECOVER", !.c.ledger = Discard(@)]
  ELSE h

\* flime_begin_or_defer_session_recovery_locked
BeginOrDefer(h) ==
  IF ~h.b.live THEN h
  ELSE IF h.c.stage = "RECOVER" THEN [h EXCEPT !.b.deferred = FALSE]
  ELSE IF h.c.stage \notin Learned /\ ~h.b.open /\ h.b.pending = 0 THEN h
  ELSE IF h.b.inflight # 0 THEN [h EXCEPT !.b.deferred = TRUE]
  ELSE [BeganRecovery(h) EXCEPT !.b.deferred = ~RecoveryOK(h.c.ledger)]

\* fault: a submission that is no longer listed starts no recovery
PendingRecoveryListed(h) ==
  IF h.p.started \/ h.p.releasing \/ h.p.submitting \/ ~h.p.listed
  THEN h
  ELSE [BeganRecovery(h) EXCEPT !.p.started = RecoveryOK(h.c.ledger)]
\* flime_pending_begin_recovery_locked
PendingRecovery(h) ==
  IF h.p.started \/ h.p.releasing \/ h.p.submitting
  THEN h
  ELSE [BeganRecovery(h) EXCEPT !.p.started = RecoveryOK(h.c.ledger)]

\* flime_unlink_pending_locked
Unlinked(h) ==
  IF h.p.listed THEN [h EXCEPT !.p.listed = FALSE, !.b.pending = @ - 1] ELSE h

\* flime_pending_unref
Unref(h) ==
  IF h.p.refs = 1 THEN [h EXCEPT !.p = NoPending] ELSE [h EXCEPT !.p.refs = @ - 1]

\* A listed submission is given up: marked, unlinked and dropped, and the
\* session recovers if recover is set.
Dropped(h, recover) ==
  IF ~h.p.listed THEN h
  ELSE LET u == Unlinked([h EXCEPT !.p.failed = TRUE])
       IN Unref(IF recover THEN PendingRecovery(u) ELSE u)

\* flime_pending_host_work_end_locked
WorkEnded(h) ==
  LET g == [h EXCEPT !.b.inflight = @ - 1]
  IN IF g.b.inflight = 0 /\ g.b.deferred THEN BeginOrDefer(g) ELSE g

\* A live stream gives up what it routed and recovers, now or when its host
\* work ends (flime_control_delivery_failed_locked, flime_cancel_control_process)
Failed(h) == BeginOrDefer(Dropped(h, TRUE))

-----------------------------------------------------------------------------
(* Control packets: express_vk_flime_bridge_control.                       *)

\* fault: a packet is taken while host work is in flight
ControlInFlight(s) == host[s].b.live
\* The checks every packet passes
Control(s) == work = NoWork /\ host[s].b.live /\ host[s].b.inflight = 0

\* Only a mismatch and a teardown may cross a routed submission.
Quiet(s) == Control(s) /\ host[s].b.pending = 0

Becomes(s, h) == host' = [host EXCEPT ![s] = h]

\* flime_wire_force_legacy: a ledger that owes updates is kept for a replay.
ForcedLegacy(c) ==
  IF c.ledger = <<>> THEN LegacyCore
  ELSE [c EXCEPT !.stage = "RECOVER", !.fallback = TRUE,
                 !.ledger = IF RecoveryOK(@) THEN Discard(@) ELSE @]

\* flime_reset_bridge_session_locked
ResetBridge(b) ==
  [NewBridge EXCEPT !.pending = b.pending, !.inflight = b.inflight]

\* The first capabilities of a stream: flime_get_session creates it.
Open(s) ==
  /\ work = NoWork /\ ~host[s].b.live
  /\ opened < MaxSessions /\ opened' = opened + 1
  /\ Becomes(s, [b |-> NewBridge, c |-> FreshCore, p |-> NoPending])
  /\ UNCHANGED <<work, ran, periods>>

\* Capabilities again: only in Legacy, with nothing bound
Renegotiate(s) ==
  /\ Quiet(s)
  /\ host[s].c.stage = "LEGACY" /\ host[s].b.queue = NoQueue /\ ~host[s].b.open
  /\ Becomes(s, [host[s] EXCEPT !.c = FreshCore])
  /\ UNCHANGED <<work, ran, periods, opened>>

\* The signature that completes a repetition
EnterLearn(s) ==
  /\ Quiet(s)
  /\ host[s].c.stage = "DETECT"
  /\ Becomes(s, [host[s] EXCEPT !.c.stage = "LEARN"])
  /\ UNCHANGED <<work, ran, periods, opened>>

\* WIRE_PERIOD_BEGIN.  Without a plan, and so outside Fast, a period is a
\* single flush.
PeriodBegin(s, single) ==
  /\ Quiet(s)
  /\ host[s].c.stage \in Learned /\ ~host[s].c.fallback /\ ~host[s].c.open
  /\ ~host[s].b.open /\ ~host[s].b.profiled
  /\ single \/ host[s].c.stage = "FAST"
  /\ periods < MaxPeriods /\ periods' = periods + 1
  /\ Becomes(s,
       [host[s] EXCEPT
          !.c = [@ EXCEPT !.open = TRUE, !.cur = periods + 1, !.last = periods + 1],
          !.b = [@ EXCEPT
                   !.period = periods + 1, !.single = single, !.open = TRUE,
                   !.sub = 0, !.declared = 0, !.chunks = 0, !.units = FALSE,
                   !.executed = FALSE, !.committed = FALSE, !.profiled = FALSE,
                   !.deferred = FALSE]])
  /\ UNCHANGED <<work, ran, opened>>

\* fault: the profile may come before the submission has run
ProfilePeriodEarly(s, fits) ==
  /\ Quiet(s)
  /\ ~host[s].c.fallback /\ host[s].c.open
  /\ host[s].b.open /\ host[s].b.sub # 0
  /\ LET closed == [host[s] EXCEPT !.c.open = FALSE]
     IN Becomes(s, [closed EXCEPT !.b.open = FALSE, !.b.profiled = TRUE])
  /\ UNCHANGED <<work, ran, periods, opened>>
\* fault: a profile that does not fit starts no recovery
ProfilePeriodUnmatched(s, fits) ==
  /\ Quiet(s)
  /\ ~host[s].c.fallback /\ host[s].c.open
  /\ host[s].b.open /\ host[s].b.sub # 0 /\ host[s].b.committed
  /\ fits => host[s].b.units
  /\ LET closed == [host[s] EXCEPT !.c.open = FALSE]
     IN Becomes(s, IF fits
                   THEN [closed EXCEPT !.b.open = FALSE, !.b.profiled = TRUE]
                   ELSE closed)
  /\ UNCHANGED <<work, ran, periods, opened>>
\* WIRE_PROFILE_PERIOD and flime_merge_host_profile_locked; fits is FALSE
\* when the profile does not have the geometry or the timing of what was
\* routed, which closes the period of the core alone.
ProfilePeriod(s, fits) ==
  /\ Quiet(s)
  /\ ~host[s].c.fallback /\ host[s].c.open
  /\ host[s].b.open /\ host[s].b.sub # 0 /\ host[s].b.committed
  /\ fits => host[s].b.units
  /\ LET closed == [host[s] EXCEPT !.c.open = FALSE]
     IN Becomes(s, IF fits
                   THEN [closed EXCEPT !.b.open = FALSE, !.b.profiled = TRUE]
                   ELSE BeganRecovery(Dropped(closed, TRUE)))
  /\ UNCHANGED <<work, ran, periods, opened>>

\* A profiled occurrence that really ran
Occurrence(b) == ~b.open /\ b.profiled /\ b.period # 0 /\ b.sub # 0 /\ b.committed

\* PROGRESS_LEARN_COMPLETE, MATCH_COMPLETE and FAST_PERIOD_COMPLETE; ok is
\* FALSE when the guest reports that the occurrence did not match.
StageComplete(s, ok) ==
  /\ Quiet(s)
  /\ Occurrence(host[s].b)
  /\ host[s].c.stage \in Learned /\ ~host[s].c.fallback
  /\ ok \/ host[s].c.stage # "LEARN"
  /\ LET h == [host[s] EXCEPT !.b.profiled = FALSE]
     IN Becomes(s,
          IF ~ok \/ (h.c.stage = "FAST" /\ ~AllCommitted(h.c.ledger))
          THEN BeganRecovery(h)
          ELSE CASE h.c.stage = "LEARN" -> [h EXCEPT !.c.stage = "MATCH"]
                 [] h.c.stage = "MATCH" -> [h EXCEPT !.c.stage = "FAST"]
                 [] h.c.stage = "FAST"  -> [h EXCEPT !.c.ledger = <<>>])
  /\ UNCHANGED <<work, ran, periods, opened>>

\* PROGRESS_MISMATCH: what was routed is dropped, then the core recovers.
Mismatch(s) ==
  /\ Control(s)
  /\ host[s].c.stage \in Learned /\ ~host[s].c.fallback
  /\ Becomes(s, BeganRecovery([Dropped(host[s], FALSE) EXCEPT !.b.profiled = FALSE]))
  /\ UNCHANGED <<work, ran, periods, opened>>

\* fault: the submission need not have been committed
RecoveryCompleteEarly(s) ==
  /\ Quiet(s)
  /\ host[s].c.stage = "RECOVER"
  /\ host[s].b.period # 0 /\ host[s].b.sub # 0
  /\ LET c == host[s].c
         b == host[s].b
     IN Becomes(s, [host[s] EXCEPT
          !.c = [c EXCEPT !.stage = IF c.fallback THEN "LEGACY" ELSE "DETECT",
                          !.ledger = <<>>, !.open = FALSE],
          !.b = [NewBridge EXCEPT !.queue = b.queue, !.last = b.last]])
  /\ UNCHANGED <<work, ran, periods, opened>>
\* PROGRESS_RECOVERY_COMPLETE: the queue and the last submission stay; a
\* session that fell back ends in Legacy.
RecoveryComplete(s) ==
  /\ Quiet(s)
  /\ host[s].c.stage = "RECOVER" /\ AllCommitted(host[s].c.ledger)
  /\ host[s].b.period # 0 /\ host[s].b.sub # 0
  /\ host[s].b.executed /\ host[s].b.committed
  /\ LET c == host[s].c
         b == host[s].b
     IN Becomes(s, [host[s] EXCEPT
          !.c = [c EXCEPT !.stage = IF c.fallback THEN "LEGACY" ELSE "DETECT",
                          !.ledger = <<>>, !.open = FALSE],
          !.b = [NewBridge EXCEPT !.queue = b.queue, !.last = b.last]])
  /\ UNCHANGED <<work, ran, periods, opened>>

\* WIRE_SESSION_RESET
SessionReset(s) ==
  /\ Quiet(s)
  /\ host[s].c.stage # "RECOVER" /\ ~host[s].c.fallback
  /\ Becomes(s, [host[s] EXCEPT !.c = FreshCore, !.b = ResetBridge(@)])
  /\ UNCHANGED <<work, ran, periods, opened>>

\* WIRE_SESSION_TEARDOWN: the session goes once its answer is published.
SessionTeardown(s, published) ==
  /\ Control(s)
  /\ LET h == [Dropped(host[s], FALSE) EXCEPT !.c = LegacyCore]
     IN Becomes(s, IF published THEN [h EXCEPT !.b.live = FALSE] ELSE Failed(h))
  /\ UNCHANGED <<work, ran, periods, opened>>

\* A packet the core refuses.  Legacy owes nothing and is unbound; otherwise
\* the session keeps its identity for the replay.
Refused(s) ==
  /\ Control(s)
  /\ LET h == [host[s] EXCEPT !.c = ForcedLegacy(@)]
     IN IF h.c.stage = "LEGACY"
        THEN Becomes(s, [Dropped(h, FALSE) EXCEPT !.b = ResetBridge(@)])
        ELSE Becomes(s, BeganRecovery(Dropped(h, TRUE)))
  /\ UNCHANGED <<work, ran, periods, opened>>

\* A packet without a sound identity
AbortProcess ==
  /\ work = NoWork
  /\ host' = [s \in Streams |-> Failed(host[s])]
  /\ UNCHANGED <<work, ran, periods, opened>>

-----------------------------------------------------------------------------
(* Routed submissions: express_vk_flime_bridge_route.                      *)
(*                                                                         *)
(* A route packet r names its queue, the number of its submission and      *)
(* period, its place in the submission, how many updates the submission    *)
(* declares and which it carries.                                          *)

Upd(n, k) == <<n, k>>

Final(h, r)  == r.kind = "recovery" \/ r.index + 1 = (IF h.b.single THEN 1 ELSE PlanChunks)
Begins(r)    == r.kind = "recovery" \/ r.index = 0
Recovers(r)  == r.kind = "recovery"

\* What the guest may send about the period that is open: the chunks of the
\* submission in order, or all of it for a recovery, where the last update
\* may be another one than was declared.
Packets(s) ==
  LET b == host[s].b
      got == host[s].p.got
  IN {[kind |-> "chunk", queue |-> q, sub |-> b.period, index |-> i, n |-> n,
       ids |-> [j \in 1 .. k |-> Upd(b.period, (IF i = 0 THEN 0 ELSE got) + j)]] :
         q \in Queues, i \in 0 .. PlanChunks - 1, n \in Sizes,
         k \in UNION {0 .. m : m \in Sizes}}
     \cup
     {[kind |-> "recovery", queue |-> q, sub |-> b.period, index |-> 0, n |-> n,
       ids |-> [j \in 1 .. n |-> Upd(b.period, IF j = n /\ other THEN 0 ELSE j)]] :
         q \in Queues, n \in Sizes, other \in BOOLEAN}

Live(s) == host[s].b.live

\* The checks up to the binding of the queue
Admitted(s, r) ==
  LET b == host[s].b
      c == host[s].c
  IN /\ b.live /\ b.open
     /\ IF Recovers(r)
        THEN ~b.executed /\ c.stage = "RECOVER" /\ c.cur = r.sub /\ c.last = r.sub
        ELSE /\ c.open /\ c.cur = r.sub /\ ~c.fallback
             /\ c.stage = "FAST" \/ (b.single /\ c.stage \in Learned)
             /\ b.single => r.index = 0
     /\ \A t \in Streams \ {s} : Live(t) => host[t].b.queue # r.queue
     /\ b.queue \in {NoQueue, r.queue} \/ (Begins(r) /\ b.pending = 0)

\* fault: a submission of the period is replaced by another one
FirstOfAnyNumber(s, r) ==
  LET b == host[s].b
  IN /\ ~host[s].p.listed
     /\ Recovers(r) /\ b.sub # 0 => r.sub = b.sub /\ r.n = b.declared
     /\ \A t \in Streams : host[t].p.listed => host[t].p.queue # r.queue
\* A BEGIN: the one submission of the period, and the same one in a recovery
FirstOfSubmission(s, r) ==
  LET b == host[s].b
  IN /\ ~host[s].p.listed
     /\ IF b.sub = 0 THEN r.sub > b.last
        ELSE Recovers(r) /\ r.sub = b.sub /\ r.n = b.declared
     /\ \A t \in Streams : host[t].p.listed => host[t].p.queue # r.queue

\* Any other chunk: it continues what is pending.
NextOfSubmission(h, r) ==
  h.p.listed /\ h.p.sub = r.sub /\ r.index = h.p.next

\* The chunk fits the pending submission p.
Fits(h, r) ==
  /\ ~h.p.complete /\ ~h.p.failed /\ ~h.p.releasing
  /\ h.p.queue = r.queue /\ h.p.n = r.n /\ h.p.recovery = Recovers(r)
  /\ h.p.got + Len(r.ids) <= h.p.n
  /\ Final(h, r) => h.p.got + Len(r.ids) = h.p.n

\* The stream after a BEGIN: the occurrence is pinned and pending, and a
\* recovery discards what was not applied.
Begun(h, r) ==
  LET pinned == [h.b EXCEPT
        !.sub = r.sub, !.declared = r.n, !.last = r.sub,
        !.committed = IF h.b.sub = 0 THEN FALSE ELSE @,
        !.chunks = IF Recovers(r) \/ h.b.single THEN 1 ELSE PlanChunks,
        !.units = FALSE, !.pending = @ + 1]
      g == [h EXCEPT
        !.b = pinned,
        !.p = [NoPending EXCEPT
                 !.sub = r.sub, !.queue = r.queue, !.n = r.n,
                 !.chunks = pinned.chunks, !.recovery = Recovers(r),
                 !.listed = TRUE, !.refs = 1]]
  IN IF Recovers(r)
     THEN [BeganRecovery(g) EXCEPT !.p.started = RecoveryOK(g.c.ledger)]
     ELSE g

\* flime_cancel_route_locked for a packet with a sound identity: the
\* submission is pinned if it was not, dropped, and its session recovers; an
\* identity no open period has fails every stream of the process.
Cancelled(s, h, r) ==
  LET mine   == h.b.live /\ h.b.open /\ h.b.period = r.sub
      pins   == mine /\ h.b.sub = 0 /\ Begins(r) /\ ~Recovers(r) /\ r.sub > h.b.last
      g      == IF pins
                THEN [h EXCEPT !.b.sub = r.sub, !.b.declared = r.n,
                               !.b.committed = FALSE, !.b.last = r.sub]
                ELSE h
      d      == IF g.p.listed /\ g.p.sub = r.sub THEN Dropped(g, TRUE) ELSE g
  IN IF mine /\ g.b.sub = r.sub
     THEN [host EXCEPT ![s] = BeginOrDefer(d)]
     ELSE [t \in Streams |-> BeginOrDefer(IF t = s THEN d ELSE host[t])]

\* A chunk is recorded.
Taken(h, r, L) ==
  [h EXCEPT !.c.ledger = L,
            !.p.ids = @ \o r.ids, !.p.got = @ + Len(r.ids), !.p.next = @ + 1,
            !.p.complete = Final(h, r), !.b.units = @ \/ Final(h, r)]

\* The host realizes the updates ids outside the bridge lock.
Releasing(s, h, kind, ids) ==
  /\ Becomes(s, [h EXCEPT !.p.releasing = TRUE, !.p.refs = @ + 1, !.b.inflight = @ + 1])
  /\ work' = [op |-> kind, s |-> s, ids |-> ids]

AllOf(ids) == [k \in DOMAIN ids |-> TRUE]
SubsOf(ids) == [k \in DOMAIN ids |-> ids[k][1]]
\* The records of a replay that are emitted; they keep their places in ids.
ToBeEmitted(L, ids) ==
  [k \in {j \in DOMAIN ids : EmitMask(L, ids)[j]} |-> ids[k]]

\* The whole submission again: what the GPU has not seen is replayed.
RouteReplay(s, h, r) ==
  LET L  == h.c.ledger
      L2 == IF r.ids = <<>> THEN L
            ELSE SetStates(WithMissing(L, r.ids, SubsOf(r.ids)), r.ids,
                           EmitMask(L, r.ids), "REPLAY_IN_FLIGHT")
      due == ToBeEmitted(L, r.ids)
  IN IF h.p.started /\ ReplayBatchOK(L, r.ids, SubsOf(r.ids), Len(L) + Len(r.ids))
     THEN IF due # <<>>
          THEN Releasing(s, Taken(h, r, L2), "replay", due)
          ELSE Becomes(s, Taken(h, r, L2)) /\ UNCHANGED work
     ELSE host' = Cancelled(s, Dropped(h, TRUE), r) /\ UNCHANGED work

\* A chunk in order: its updates are READY; all but the last chunk's are
\* realized now, the last wait for the submit.  accepted is FALSE when the
\* ledger is full or has had one of these updates.
RouteChunk(s, h, r, accepted) ==
  LET L == h.c.ledger \o [k \in DOMAIN r.ids |-> Entry(r.ids[k], r.sub, "READY")]
  IN IF ~accepted /\ r.ids # <<>>
     THEN host' = Cancelled(s, Dropped(h, TRUE), r) /\ UNCHANGED work
     ELSE IF Final(h, r)
     THEN Becomes(s, [Taken(h, r, L) EXCEPT !.p.tail = r.ids]) /\ UNCHANGED work
     ELSE IF r.ids = <<>>
     THEN Becomes(s, Taken(h, r, L)) /\ UNCHANGED work
     ELSE IF ReleaseBatchOK(L, r.ids)
     THEN Releasing(s, Taken(h, r, SetStates(L, r.ids, AllOf(r.ids), "RELEASE_IN_FLIGHT")),
                    "release", r.ids)
     ELSE host' = Cancelled(s, Dropped([h EXCEPT !.c.ledger = L], TRUE), r) /\ UNCHANGED work

Route(s, r, accepted) ==
  LET bound == IF Admitted(s, r) THEN [host[s] EXCEPT !.b.queue = r.queue] ELSE host[s]
      h == IF Begins(r) THEN Begun(bound, r) ELSE bound
  IN /\ work = NoWork /\ Live(s)
     /\ IF /\ Admitted(s, r)
           /\ IF Begins(r) THEN FirstOfSubmission(s, r) ELSE NextOfSubmission(bound, r)
        THEN IF ~Fits(h, r)
             THEN host' = Cancelled(s, Dropped(h, TRUE), r) /\ UNCHANGED work
             ELSE IF Recovers(r)
             THEN RouteReplay(s, h, r)
             ELSE RouteChunk(s, h, r, accepted)
        ELSE host' = Cancelled(s, bound, r) /\ UNCHANGED work
     /\ UNCHANGED <<ran, periods, opened>>

\* A packet about a submission that is not the open one
RouteStale(s) ==
  /\ work = NoWork /\ Live(s)
  /\ host' = Cancelled(s, host[s], [kind |-> "chunk", sub |-> MaxPeriods + 1, index |-> 1])
  /\ UNCHANGED <<work, ran, periods, opened>>

\* The realized updates of work are emitted, if the ledger still has them in
\* flight; answers whether it had.
RealizedOK(h) ==
  CompletionOK(h.c.ledger, work.ids, AllOf(work.ids),
               IF work.op = "replay" THEN "REPLAY_IN_FLIGHT" ELSE "RELEASE_IN_FLIGHT")
Realized(h) ==
  IF RealizedOK(h)
  THEN [h EXCEPT !.c.ledger =
          SetStates(@, work.ids, AllOf(work.ids),
                    IF work.op = "replay" THEN "REPLAY_EMITTED" ELSE "RELEASED")]
  ELSE h

\* express_vk_flime_bridge_complete_release: the caller always reports that
\* the writes were applied.
CompleteRelease ==
  /\ work.op \in {"release", "replay"}
  /\ LET h == host[work.s]
         g == WorkEnded([Realized(h) EXCEPT !.p.releasing = FALSE,
                                            !.p.failed = @ \/ ~RealizedOK(h)])
     IN Becomes(work.s, Unref(IF g.p.failed THEN PendingRecovery(Dropped(g, FALSE)) ELSE g))
  /\ work' = NoWork
  /\ UNCHANGED <<ran, periods, opened>>

\* A FALLBACK_FLUSH: the host realizes what is owed under the same lock, and
\* the session is gone.
FallbackFlush(s) ==
  /\ Control(s)
  /\ ~host[s].c.fallback /\ host[s].c.stage \in Learned \cup {"RECOVER"}
  /\ Becomes(s, [Dropped(host[s], FALSE) EXCEPT !.b.live = FALSE])
  /\ UNCHANGED <<work, ran, periods, opened>>

-----------------------------------------------------------------------------
(* The submit gate: prepare_submit, submit_updates_applied, complete_submit. *)

PendingOn(q) == {s \in Streams : host[s].p.listed /\ host[s].p.queue = q}
BoundTo(q)   == {s \in Streams : Live(s) /\ host[s].b.queue = q}

\* A stream that has opened a period and has yet to bind a queue
Unbound == {s \in Streams : Live(s) /\ host[s].b.queue = NoQueue /\ host[s].b.open
                            /\ host[s].c.stage \in Learned \cup {"RECOVER"}}

\* fault: a stream in recovery lets the submit through
StreamGateRecovering(h) ==
  IF h.b.profiled THEN "BLOCKED"
  ELSE IF h.c.stage \in {"LEGACY", "DETECT", "RECOVER"} THEN "LEGACY"
  ELSE IF h.b.open /\ h.b.sub # 0
  THEN IF h.b.inflight # 0 THEN "BLOCKED" ELSE "RECOVER"
  ELSE IF h.c.stage = "FAST" THEN "RECOVER"
  ELSE IF h.b.open THEN "BLOCKED" ELSE "LEGACY"
\* What a bound stream h says of a submit that was not routed
StreamGate(h) ==
  IF h.b.profiled \/ h.c.stage = "RECOVER" THEN "BLOCKED"
  ELSE IF h.c.stage \in {"LEGACY", "DETECT"} THEN "LEGACY"
  ELSE IF h.b.open /\ h.b.sub # 0
  THEN IF h.b.inflight # 0 THEN "BLOCKED" ELSE "RECOVER"
  ELSE IF h.c.stage = "FAST" THEN "RECOVER"
  ELSE IF h.b.open THEN "BLOCKED" ELSE "LEGACY"

Answer(h) == IF h.c.stage = "FAST" THEN "RECOVER" ELSE "BLOCKED"

\* What a submit on q that was not routed may be told, and by which stream:
\* the one bound to q, else one that may yet bind it; nobody lets it through.
Gates(q) ==
  LET bound == {s \in BoundTo(q) : StreamGate(host[s]) # "LEGACY"}
  IN IF bound # {} THEN {[gate |-> StreamGate(host[s]), s |-> s] : s \in bound}
     ELSE {[gate |-> Answer(host[s]), s |-> s] : s \in Unbound}

\* SUBMIT_LEGACY: the queue is given the command with no further ado.
LetThrough(q) ==
  work = NoWork /\ PendingOn(q) = {} /\ \A g \in Gates(q) : g.gate = "LEGACY"

\* A submit that was not routed and not expected starts a recovery; matches
\* is FALSE when the queue is not the one the stream was bound to.
SubmitUnrouted(q, matches) ==
  /\ work = NoWork /\ PendingOn(q) = {}
  /\ \E s \in Streams :
       /\ IF matches THEN [gate |-> "RECOVER", s |-> s] \in Gates(q) ELSE s \in BoundTo(q)
       /\ Becomes(s, BeganRecovery(host[s]))
  /\ UNCHANGED <<work, ran, periods, opened>>

EntriesOf(L, n) == {i \in DOMAIN L : L[i].sub = n}

\* fault: the records of a replay are not counted
Uncounted(h) == TRUE
\* A replay is submitted when it holds exactly what was declared, all of it
\* emitted.
ReplayWhole(h) ==
  /\ h.c.stage = "RECOVER"
  /\ \A i \in EntriesOf(h.c.ledger, h.p.sub) : Emitted(h.c.ledger[i])
  /\ Cardinality(EntriesOf(h.c.ledger, h.p.sub)) = h.p.n

\* A routed submission is given up at the gate: its queue has changed, a
\* replay is not whole, or the ledger does not release its last chunk.
SubmitRefused(s, matches) ==
  LET h == host[s]
  IN /\ work = NoWork /\ h.p.listed
     /\ \/ ~matches /\ Becomes(s, Dropped(h, TRUE))
        \/ /\ matches /\ h.p.complete /\ ~h.p.releasing /\ h.p.recovery
           /\ ~ReplayWhole(h)
           /\ Becomes(s, Dropped(h, FALSE))
        \/ /\ matches /\ h.p.complete /\ ~h.p.releasing
           /\ h.p.recovery => ReplayWhole(h)
           /\ ~ReleaseBatchOK(h.c.ledger, h.p.tail)
           /\ Becomes(s, Dropped(h, TRUE))
     /\ UNCHANGED <<work, ran, periods, opened>>

\* SUBMIT_READY; real is FALSE when the command itself did not parse, and
\* then the submit is skipped and completed as failed.
SubmitReady(s, real) ==
  LET h == host[s]
  IN /\ work = NoWork /\ h.p.listed
     /\ h.p.complete /\ ~h.p.releasing
     /\ h.p.recovery => ReplayWhole(h)
     /\ ReleaseBatchOK(h.c.ledger, h.p.tail)
     /\ Becomes(s, [h EXCEPT
          !.c.ledger = SetStates(@, h.p.tail, AllOf(h.p.tail), "RELEASE_IN_FLIGHT"),
          !.p.submitting = TRUE, !.p.refs = @ + 1, !.b.inflight = @ + 1])
     /\ work' = [op |-> IF real THEN "realize" ELSE "skip", s |-> s, ids |-> h.p.tail]
     /\ UNCHANGED <<ran, periods, opened>>

\* express_vk_flime_bridge_submit_updates_applied, after the last chunk is
\* realized; the submit is skipped when the ledger does not take it.
UpdatesApplied ==
  /\ work.op = "realize"
  /\ LET h == host[work.s]
     IN IF RealizedOK(h)
        THEN /\ Becomes(work.s, [Realized(h) EXCEPT !.p.applied = TRUE])
             /\ work' = [work EXCEPT !.op = "submit"]
        ELSE /\ Becomes(work.s, PendingRecovery([h EXCEPT !.p.failed = TRUE]))
             /\ work' = [work EXCEPT !.op = "skip"]
  /\ UNCHANGED <<ran, periods, opened>>

\* The updates of the submission are committed one by one.
CommitOK(h) ==
  \A k \in DOMAIN h.p.ids :
    /\ Has(h.c.ledger, h.p.ids[k])
    /\ PrefixEmitted(h.c.ledger, At(h.c.ledger, h.p.ids[k]))
    /\ h.c.ledger[At(h.c.ledger, h.p.ids[k])].state \in EmittedStates

\* fault: that it ran is only recorded with the commit
AnsweredLate(h, success, whole) ==
  LET same == h.b.live /\ h.b.period = h.p.sub /\ h.b.sub = h.p.sub
      ok == whole /\ same /\ h.b.open /\ ~h.p.failed
  IN [h EXCEPT !.b.executed = @ \/ ok, !.b.committed = @ \/ ok]
\* The bridge session once the submission of h has run
Answered(h, success, whole) ==
  LET same == h.b.live /\ h.b.period = h.p.sub /\ h.b.sub = h.p.sub
  IN [h EXCEPT
        !.b.executed = @ \/ (success /\ same),
        !.b.committed = @ \/ (whole /\ same /\ h.b.open /\ h.b.chunks = h.p.chunks /\ h.b.units)]

\* express_vk_flime_bridge_complete_submit.  A submit that succeeds commits
\* its updates; one that fails, or was cancelled meanwhile, recovers.
CompleteSubmit(success) ==
  /\ work.op = "submit" \/ (work.op = "skip" /\ ~success)
  /\ LET h == host[work.s]
         whole == success /\ CommitOK(h)
         back == IF work.op = "skip" /\ RealizedOK(h)
                 THEN [h EXCEPT !.c.ledger = SetStates(@, work.ids, AllOf(work.ids), "READY")]
                 ELSE h
         done == IF whole
                 THEN [h EXCEPT !.c.ledger =
                         SetStates(@, h.p.ids, AllOf(h.p.ids), "COMMITTED")]
                 ELSE [back EXCEPT !.p.failed = TRUE]
         ended == WorkEnded([done EXCEPT !.p.submitting = FALSE])
         safe == IF ended.p.failed THEN PendingRecovery(ended) ELSE ended
         answered == Answered(safe, success, whole)
     IN /\ Becomes(work.s,
             Unref(IF answered.p.listed THEN Unref(Unlinked(answered)) ELSE answered))
        /\ ran' = IF success THEN ran \cup {h.p.sub} ELSE ran
  /\ work' = NoWork
  /\ UNCHANGED <<periods, opened>>

-----------------------------------------------------------------------------
(* What takes no transaction lock: the planner thread, whose control page   *)
(* cannot be written, and a shutdown; and under the lock a process exit, a  *)
(* virtio reset and a device that is destroyed.                             *)

DeliveryFailed(s) ==
  /\ Live(s)
  /\ work = NoWork \/ host[s].c.stage \in {"FAST", "RECOVER"}
  /\ Becomes(s, Failed(host[s]))
  /\ UNCHANGED <<work, ran, periods, opened>>

\* fault: a session is removed with its submission still pending
RemovedPending(h) == [h EXCEPT !.b.live = FALSE]
RemovedOf(h) == [Dropped(h, TRUE) EXCEPT !.b.live = FALSE]

RemovesAll ==
  /\ \E s \in Streams : Live(s)
  /\ host' = [s \in Streams |-> IF Live(s) THEN RemovedOf(host[s]) ELSE host[s]]
  /\ UNCHANGED <<work, ran, periods, opened>>

\* express_vk_flime_bridge_cleanup_process and reset_transport: both callers
\* hold the lock.
RemoveAll == work = NoWork /\ RemovesAll

\* express_vk_flime_bridge_shutdown: remove_all_render_thread_contexts, which
\* makes room for a snapshot, does not.
Shutdown == RemovesAll

\* express_vk_flime_bridge_cleanup_device: the streams bound to the device
CleanupDevice ==
  /\ work = NoWork
  /\ host' = [s \in Streams |-> IF Live(s) /\ host[s].b.queue # NoQueue
                                THEN RemovedOf(host[s]) ELSE host[s]]
  /\ UNCHANGED <<work, ran, periods, opened>>

-----------------------------------------------------------------------------
ControlPacket(s) ==
  \/ Open(s)
  \/ Renegotiate(s)
  \/ EnterLearn(s)
  \/ \E single \in BOOLEAN : PeriodBegin(s, single)
  \/ \E fits \in BOOLEAN : ProfilePeriod(s, fits)
  \/ \E ok \in BOOLEAN : StageComplete(s, ok)
  \/ Mismatch(s)
  \/ RecoveryComplete(s)
  \/ SessionReset(s)
  \/ \E published \in BOOLEAN : SessionTeardown(s, published)
  \/ Refused(s)

RoutePacket(s) ==
  \/ \E r \in Packets(s) : Route(s, r, TRUE)
  \/ \E r \in {x \in Packets(s) : ~Recovers(x) /\ x.ids # <<>>} : Route(s, r, FALSE)
  \/ RouteStale(s)
  \/ FallbackFlush(s)

Submit ==
  \/ \E q \in Queues, matches \in BOOLEAN : SubmitUnrouted(q, matches)
  \/ \E s \in Streams, matches \in BOOLEAN : SubmitRefused(s, matches)
  \/ \E s \in Streams, real \in BOOLEAN : SubmitReady(s, real)

HostWork ==
  \/ CompleteRelease
  \/ UpdatesApplied
  \/ \E success \in BOOLEAN : CompleteSubmit(success)

Elsewhere ==
  \/ \E s \in Streams : DeliveryFailed(s)
  \/ RemoveAll
  \/ Shutdown
  \/ CleanupDevice
  \/ AbortProcess

Next ==
  \/ \E s \in Streams : ControlPacket(s) \/ RoutePacket(s)
  \/ Submit
  \/ HostWork
  \/ Elsewhere

Spec == Init /\ [][Next]_vars

-----------------------------------------------------------------------------
(* Properties. *)

\* A pending submission is freed exactly when the list, a release and a
\* submit have all let go of it, and the counters of its session agree with
\* what is listed and in flight, through every cancellation.
RefsBalanced ==
  \A s \in Streams :
    LET h == host[s]
        holds(x) == IF x THEN 1 ELSE 0
    IN /\ h.p.refs = holds(h.p.listed) + holds(h.p.releasing) + holds(h.p.submitting)
       /\ h.b.pending = holds(h.p.listed)
       /\ h.b.inflight = holds(h.p.releasing) + holds(h.p.submitting)
       /\ h.p.listed => Live(s)
       /\ h.b.inflight # 0 <=> (work # NoWork /\ work.s = s)

\* What the host has realized is still in flight in the ledger when the
\* completion asks for it, whatever came between.
CompletionAccepted ==
  /\ work.op \in {"release", "replay", "realize", "skip"} => RealizedOK(host[work.s])
  /\ work.op = "submit" => CommitOK(host[work.s])

\* A submission goes to the GPU with all the updates it declared applied, also
\* when it was cancelled after the gate, and only if it has not run: nothing is
\* replayed after a completion that a cancellation overtook.
RunsWholeAndOnce ==
  work.op = "submit" =>
    LET h == host[work.s]
    IN /\ h.p.sub \notin ran
       /\ \A i \in EntriesOf(h.c.ledger, h.p.sub) : Emitted(h.c.ledger[i])
       /\ Cardinality(EntriesOf(h.c.ledger, h.p.sub)) = h.p.n

\* A session believes that its occurrence committed only if it really ran
\* and nothing is left to replay.
CommittedMeansRun ==
  \A s \in Streams :
    Live(s) /\ host[s].b.committed =>
      /\ host[s].b.sub \in ran /\ host[s].b.executed
      /\ \A i \in EntriesOf(host[s].c.ledger, host[s].b.sub) :
           host[s].c.ledger[i].state = "COMMITTED"

\* A routed occurrence that was lost on the way, is not pending and has not
\* committed, leaves its session in recovery (or out of the protocol).
LostIsRecovered ==
  \A s \in Streams :
    LET h == host[s]
    IN Live(s) /\ h.b.open /\ h.b.sub # 0 /\ ~h.b.committed /\ h.b.pending = 0 =>
         h.b.deferred \/ h.c.stage \notin Learned

\* The bridge and the core agree on the open period while it can be routed.
PeriodsAgree ==
  \A s \in Streams :
    Live(s) /\ host[s].c.stage \in Learned =>
      (host[s].b.open <=> host[s].c.open)
      /\ (host[s].b.open => host[s].b.period = host[s].c.cur)

\* No submit passes unseen while a stream that owns its queue has applied
\* updates of a submission that has not run.
NoBypass ==
  \A q \in Queues : LetThrough(q) =>
    \A s \in BoundTo(q) : AllCommitted(host[s].c.ledger)

\* A session in recovery that owes a replay can get out without losing an
\* update: by replaying its occurrence, by reporting it complete, or by a
\* fallback flush.
RecoverHasExit ==
  \A s \in Streams :
    LET h == host[s]
    IN work = NoWork /\ Live(s) /\ h.c.stage = "RECOVER" /\ h.c.ledger # <<>>
         /\ h.b.pending = 0 =>
       \/ ~h.c.fallback
       \/ h.b.open /\ ~h.b.executed /\ h.c.cur = h.b.period /\ h.c.last = h.b.period
       \/ h.b.executed /\ h.b.committed /\ h.b.sub # 0 /\ AllCommitted(h.c.ledger)

\* A ledger is only forgotten, by a recovery that is complete, a Fast
\* occurrence or a reset, when the GPU has run all of it.  (A teardown gives
\* the session up, and a fallback flush realizes what is owed.)
NothingForgotten ==
  [][\A s \in Streams :
       Live(s) /\ host'[s].b.live /\ host'[s].c.ledger = <<>> =>
         AllCommitted(host[s].c.ledger) \/ SessionTeardown(s, FALSE)]_vars
=============================================================================
