--------------------------- MODULE PlannerHandoff ---------------------------
(***************************************************************************)
(* The asynchronous planner of one FLIME session: how a plan that becomes  *)
(* due reaches the control page the guest reads, and how a failure on the  *)
(* way takes the session to Recover (express_vk_flime_bridge.c, with the   *)
(* planner state of express_vk_flime.c).                                   *)
(*                                                                         *)
(* Two locks: flime_bridge_lock covers a control packet from its first     *)
(* check to its answer, a host-work step, and the worker's first and last  *)
(* step; session->lock covers each call into the core.  The worker plans   *)
(* with neither, so its core steps fall between the core calls of a packet *)
(* (ingest, encode, planner_due): a packet is three actions here.          *)
(*                                                                         *)
(* FAST stands for Learn, Match and Fast, the stages that a failed         *)
(* delivery takes to Recover.  A plan is a Boolean: pending means computed *)
(* and not installed, seen that the control page shows the latest plan.    *)
(* Init is a session after its first capability exchange.                  *)
(***************************************************************************)
EXTENDS Naturals

CONSTANT MaxPackets   \* bound: control packets, routes and submits of the guest

ASSUME HandoffAssumption == MaxPackets \in Nat

VARIABLES
  core,     \* the core session: stage, ready, replan_due, pending_valid,
            \* replan_generation
  bridge,   \* the bridge session: planner_generation, planner_queued, the
            \* sink, what it shows, recovery_deferred, host work, period_open,
            \* period_submission_committed, queue_bound, removed
  packet,   \* the control packet that holds the bridge lock
  worker,   \* the planner thread, with what it read
  sent      \* guest messages so far

vars == <<core, bridge, packet, worker, sent>>

NoPacket == [at |-> "none", kind |-> "plain"]
Idle == [at |-> "idle", gen |-> 0, core |-> 0, failure |-> "none", published |-> FALSE]

Init ==
  /\ core = [stage |-> "DETECT", ready |-> TRUE, due |-> FALSE,
             pending |-> FALSE, gen |-> 0]
  /\ bridge = [gen |-> 0, queued |-> FALSE, sink |-> TRUE, seen |-> TRUE,
               deferred |-> FALSE, work |-> "none", open |-> FALSE,
               committed |-> FALSE, bound |-> FALSE, removed |-> FALSE]
  /\ packet = NoPacket
  /\ worker = Idle
  /\ sent = 0

LockFree == packet = NoPacket

\* express_vk_flime_session_planner_due
PlannerDue == core.due /\ ~core.pending /\ core.ready

\* replan_generation++, or planner_generation++
Moved(x) == [x EXCEPT !.gen = @ + 1]

\* flime_clear_specialization_locked
Cleared(c) == Moved([c EXCEPT !.due = FALSE, !.pending = FALSE])

\* flime_enter_legacy_locked
Legacy(c) == [Cleared(c) EXCEPT !.stage = "LEGACY", !.ready = FALSE]

\* flime_session_begin_recovery_locked, from the bridge state b
Recover(b) ==
  /\ core' = [core EXCEPT !.stage = "RECOVER"]
  /\ bridge' = Moved([b EXCEPT !.deferred = FALSE])

\* flime_begin_or_defer_session_recovery_locked
BeginOrDefer(b) ==
  IF core.stage = "RECOVER"
  THEN bridge' = [b EXCEPT !.deferred = FALSE] /\ UNCHANGED core
  ELSE IF core.stage # "FAST" /\ ~b.open /\ b.work # "routed"
  THEN bridge' = b /\ UNCHANGED core
  ELSE IF b.work = "running"
  THEN /\ bridge' = IF b.deferred THEN b ELSE Moved([b EXCEPT !.deferred = TRUE])
       /\ UNCHANGED core
  ELSE Recover(b)

\* flime_cancel_session_pending_locked with recovery, then the above: a
\* routed submission that no host work holds recovers at once.
FailSession(b) ==
  IF b.work = "routed" THEN Recover([b EXCEPT !.work = "none"])
                       ELSE BeginOrDefer(b)

\* fault: the sink is dropped and the session goes on
DeliveryDropsSink(b) == bridge' = [b EXCEPT !.sink = FALSE] /\ UNCHANGED core
\* flime_control_delivery_failed_locked
DeliveryFailed(b) == FailSession([b EXCEPT !.sink = FALSE])

-----------------------------------------------------------------------------
(* Control packets: express_vk_flime_bridge_control. *)

\* The checks every packet passes; a routed submission lets only a mismatch
\* and a teardown through.
MayTalk ==
  /\ LockFree /\ ~bridge.removed /\ bridge.work # "running"
  /\ sent < MaxPackets /\ sent' = sent + 1

\* The core accepted the packet, and answers (c, b).
Accept(kind, c, b) ==
  /\ core' = c
  /\ bridge' = IF c.stage = "RECOVER" THEN Moved(b) ELSE b
  /\ packet' = [at |-> "reply", kind |-> kind]
  /\ UNCHANGED worker

\* flime_reset_bridge_session_locked
ResetBridge(b) ==
  Moved([b EXCEPT !.bound = FALSE, !.open = FALSE, !.committed = FALSE,
                  !.deferred = FALSE])

\* WIRE_CAPABILITIES, with capabilities in common or none
Negotiate(common) ==
  /\ MayTalk /\ bridge.work = "none"
  /\ core.stage = "LEGACY" /\ ~bridge.bound /\ ~bridge.open
  /\ Accept("plain", IF common THEN [Cleared(core) EXCEPT !.stage = "DETECT", !.ready = TRUE]
                               ELSE Legacy(core), bridge)

\* Packets that leave the planner alone: interval signatures, completed
\* stages, a plan acknowledgement
OtherPacket ==
  /\ MayTalk /\ bridge.work = "none"
  /\ core.ready
  /\ Accept("plain", core, bridge)

EnterLearned ==
  /\ MayTalk /\ bridge.work = "none"
  /\ core.ready /\ core.stage = "DETECT"
  /\ Accept("plain", [core EXCEPT !.stage = "FAST"], bridge)

\* WIRE_PERIOD_BEGIN; an acknowledged plan is installed
PeriodBegin(install) ==
  /\ MayTalk /\ bridge.work = "none"
  /\ core.ready /\ core.stage = "FAST" /\ ~bridge.open
  /\ install => core.pending /\ bridge.seen
  /\ Accept("plain", [core EXCEPT !.pending = @ /\ ~install],
                     [bridge EXCEPT !.open = TRUE, !.committed = FALSE, !.deferred = FALSE])

\* WIRE_PROFILE_PERIOD: the period ends, and a new plan may be due
ProfilePeriod(replan) ==
  /\ MayTalk /\ bridge.work = "none"
  /\ core.ready /\ core.stage = "FAST" /\ bridge.open /\ bridge.committed
  /\ Accept("plain", Moved([core EXCEPT !.due = @ \/ replan]),
                     [bridge EXCEPT !.open = FALSE])

\* PROGRESS_MISMATCH; the core starts the recovery, the bridge drops what was routed
Mismatch ==
  /\ MayTalk
  /\ core.ready /\ core.stage = "FAST"
  /\ Accept("plain", [core EXCEPT !.stage = "RECOVER"], [bridge EXCEPT !.work = "none"])

\* PROGRESS_RECOVERY_COMPLETE; a session that fell back ends in Legacy
RecoveryComplete ==
  /\ MayTalk /\ bridge.work = "none"
  /\ core.stage = "RECOVER" /\ bridge.committed
  /\ Accept("plain",
            [Cleared(core) EXCEPT !.stage = IF core.ready THEN "DETECT" ELSE "LEGACY"],
            Moved([bridge EXCEPT !.open = FALSE, !.committed = FALSE,
                                 !.deferred = FALSE]))

SessionReset ==
  /\ MayTalk /\ bridge.work = "none"
  /\ core.ready /\ core.stage # "RECOVER"
  /\ Accept("reset", [Cleared(core) EXCEPT !.stage = "DETECT"], ResetBridge(bridge))

SessionTeardown ==
  /\ MayTalk
  /\ Accept("teardown", Legacy(core), [bridge EXCEPT !.work = "none"])

\* A packet the core refuses: Legacy when the ledger owes nothing, else a
\* recovery in which the session is no longer ready
WireError(owes) ==
  /\ MayTalk
  /\ owes => core.stage \in {"FAST", "RECOVER"}
  /\ IF owes
     THEN /\ core' = [core EXCEPT !.stage = "RECOVER", !.ready = FALSE]
          /\ bridge' = Moved([bridge EXCEPT !.work = "none"])
     ELSE /\ core' = Legacy(core)
          /\ bridge' = [ResetBridge(bridge) EXCEPT !.work = "none", !.sink = FALSE]
  /\ UNCHANGED <<packet, worker>>

\* A profile that does not fit the routed occurrence: the period of the core
\* is closed and the session recovers.
ProfileRefused ==
  /\ MayTalk /\ bridge.work = "none"
  /\ core.ready /\ core.stage = "FAST" /\ bridge.open /\ bridge.committed
  /\ Recover(bridge)
  /\ UNCHANGED <<packet, worker>>

\* A packet without a sound identity: flime_cancel_control_process
AbortProcess ==
  /\ LockFree /\ ~bridge.removed
  /\ sent < MaxPackets /\ sent' = sent + 1
  /\ FailSession(bridge)
  /\ UNCHANGED <<packet, worker>>

\* The answer is encoded and published on the page the packet brought.
Reply(published) ==
  /\ packet.at = "reply"
  /\ IF published
     THEN /\ bridge' = [bridge EXCEPT !.seen = TRUE, !.sink = packet.kind = "plain"]
          /\ packet' = [packet EXCEPT !.at = "schedule"]
          /\ UNCHANGED core
     ELSE DeliveryFailed(bridge) /\ packet' = NoPacket
  /\ UNCHANGED <<worker, sent>>

\* fault: a planner that is queued already needs no new generation
ScheduledOnce(b) ==
  IF b.queued THEN b ELSE Moved([b EXCEPT !.queued = TRUE])
\* flime_schedule_planner_locked
Scheduled(b) == Moved([b EXCEPT !.queued = TRUE])

\* flime_remove_session_locked
Removed(b) == Moved([b EXCEPT !.removed = TRUE, !.sink = FALSE])

\* The last step of a packet: the planner is scheduled when a plan is due.
Schedule ==
  /\ packet.at = "schedule"
  /\ bridge' = IF packet.kind = "teardown" THEN Removed(bridge)
               ELSE IF PlannerDue THEN Scheduled(bridge) ELSE bridge
  /\ packet' = NoPacket
  /\ UNCHANGED <<core, worker, sent>>

-----------------------------------------------------------------------------
(* Host work: the routes and submits of the guest. *)

HostWorkBegin ==
  /\ LockFree /\ ~bridge.removed /\ bridge.work # "running"
  /\ \/ core.stage = "FAST" /\ bridge.open
     \/ core.stage = "RECOVER" /\ core.ready /\ (bridge.open \/ bridge.committed)
  /\ sent < MaxPackets /\ sent' = sent + 1
  /\ bridge' = [bridge EXCEPT !.work = "running", !.bound = TRUE]
  /\ UNCHANGED <<core, packet, worker>>

\* fault: a deferred recovery is not looked at
HostWorkEndForgets(more) ==
  /\ LockFree /\ bridge.work = "running"
  /\ more => ~bridge.deferred /\ ~bridge.removed
  /\ bridge' = [bridge EXCEPT !.work = IF more THEN "routed" ELSE "none"]
  /\ UNCHANGED <<core, packet, worker, sent>>
\* Host work ends well: more of the submission is to come, or it is done.
\* flime_pending_host_work_end_locked starts a recovery that was deferred.
HostWorkEnd(more) ==
  /\ LockFree /\ bridge.work = "running"
  /\ more => ~bridge.deferred /\ ~bridge.removed
  /\ LET b == [bridge EXCEPT !.work = IF more THEN "routed" ELSE "none",
                             !.committed = @ \/ (~more /\ bridge.open)]
     IN IF bridge.deferred /\ ~bridge.removed
        THEN BeginOrDefer(b)
        ELSE bridge' = b /\ UNCHANGED core
  /\ UNCHANGED <<packet, worker, sent>>

\* Host work, or the step between two pieces of it, fails.
HostWorkFails ==
  /\ LockFree /\ bridge.work # "none"
  /\ LET b == [bridge EXCEPT !.work = "none"]
     IN IF bridge.removed THEN bridge' = b /\ UNCHANGED core ELSE Recover(b)
  /\ UNCHANGED <<packet, worker, sent>>

\* Device or transport teardown, or a fallback flush, removes the session.
RemoveSession ==
  /\ LockFree /\ ~bridge.removed
  /\ bridge' = [Removed(bridge) EXCEPT !.work = IF @ = "routed" THEN "none" ELSE @]
  /\ UNCHANGED <<core, packet, worker, sent>>

-----------------------------------------------------------------------------
(* flime_planner_worker and express_vk_flime_session_run_pending_planner. *)

Read ==
  /\ LockFree
  /\ \/ worker.at = "idle" /\ bridge.queued /\ ~bridge.removed
     \/ worker.at = "read"
  /\ worker' = IF bridge.removed THEN Idle
               ELSE [Idle EXCEPT !.at = "snapshot", !.gen = bridge.gen]
  /\ UNCHANGED <<core, bridge, packet, sent>>

Snapshot ==
  /\ worker.at = "snapshot"
  /\ worker' = IF PlannerDue
               THEN [worker EXCEPT !.at = "plan", !.core = core.gen]
               ELSE [worker EXCEPT !.at = "finish",
                                   !.failure = IF core.ready THEN "none" ELSE "not ready"]
  /\ UNCHANGED <<core, bridge, packet, sent>>

\* The plan computed from the snapshot is kept only if nothing moved.
Publish ==
  /\ worker.at = "plan"
  /\ IF PlannerDue /\ core.gen = worker.core
     THEN /\ core' = [core EXCEPT !.pending = TRUE, !.due = FALSE]
          /\ bridge' = [bridge EXCEPT !.seen = FALSE]
          /\ worker' = [worker EXCEPT !.at = "finish", !.published = TRUE]
     ELSE /\ worker' = [worker EXCEPT !.at = "finish"]
          /\ UNCHANGED <<core, bridge>>
  /\ UNCHANGED <<packet, sent>>

PlanFails ==
  /\ worker.at = "plan"
  /\ worker' = [worker EXCEPT !.at = "finish", !.failure = "plan"]
  /\ UNCHANGED <<core, bridge, packet, sent>>

\* fault: the generation is not looked at
FinishUnchecked(mapped) ==
  LET b == [bridge EXCEPT !.queued = FALSE]
  IN /\ worker.at = "finish" /\ LockFree
     /\ worker' = Idle
     /\ IF ~bridge.removed /\ (\/ worker.failure # "none"
                               \/ worker.published /\ ~(bridge.sink /\ mapped))
        THEN DeliveryFailed(b)
        ELSE /\ bridge' = [b EXCEPT !.seen = @ \/ worker.published]
             /\ UNCHANGED core
     /\ UNCHANGED <<packet, sent>>
\* mapped is FALSE when the control page cannot be encoded or mapped.
Finish(mapped) ==
  LET b == [bridge EXCEPT !.queued = FALSE]
  IN /\ worker.at = "finish" /\ LockFree
     /\ IF bridge.removed
        THEN worker' = Idle /\ bridge' = b /\ UNCHANGED core
        ELSE IF worker.gen # bridge.gen
        THEN worker' = [Idle EXCEPT !.at = "read"] /\ UNCHANGED <<core, bridge>>
        ELSE /\ worker' = Idle
             /\ IF \/ worker.failure # "none"
                   \/ worker.published /\ ~(bridge.sink /\ mapped)
                THEN DeliveryFailed(b)
                ELSE /\ bridge' = [b EXCEPT !.seen = @ \/ worker.published]
                     /\ UNCHANGED core
     /\ UNCHANGED <<packet, sent>>

-----------------------------------------------------------------------------
GuestPacket ==
  \/ \E common \in BOOLEAN : Negotiate(common)
  \/ OtherPacket
  \/ EnterLearned
  \/ \E install \in BOOLEAN : PeriodBegin(install)
  \/ \E replan \in BOOLEAN : ProfilePeriod(replan)
  \/ Mismatch
  \/ RecoveryComplete
  \/ SessionReset
  \/ SessionTeardown
  \/ \E owes \in BOOLEAN : WireError(owes)
  \/ ProfileRefused
  \/ AbortProcess

Answer == (\E published \in BOOLEAN : Reply(published)) \/ Schedule

HostStep ==
  \/ HostWorkBegin
  \/ \E more \in BOOLEAN : HostWorkEnd(more)
  \/ HostWorkFails
  \/ RemoveSession

Worker ==
  Read \/ Snapshot \/ Publish \/ PlanFails \/ \E mapped \in BOOLEAN : Finish(mapped)

Next == GuestPacket \/ Answer \/ HostStep \/ Worker

\* A packet once begun is answered, host work ends, and the planner thread
\* runs; the guest may stop at any time.
Fairness ==
  /\ WF_vars(Answer)
  /\ WF_vars(Worker)
  /\ WF_vars(HostWorkFails \/ \E more \in BOOLEAN : HostWorkEnd(more))

Spec == Init /\ [][Next]_vars /\ Fairness

-----------------------------------------------------------------------------
CoreType ==
  [stage : {"LEGACY", "DETECT", "FAST", "RECOVER"}, ready : BOOLEAN,
   due : BOOLEAN, pending : BOOLEAN, gen : Nat]
BridgeType ==
  [gen : Nat, queued : BOOLEAN, sink : BOOLEAN, seen : BOOLEAN,
   deferred : BOOLEAN, work : {"none", "routed", "running"}, open : BOOLEAN,
   committed : BOOLEAN, bound : BOOLEAN, removed : BOOLEAN]
PacketType ==
  [at : {"none", "reply", "schedule"}, kind : {"plain", "reset", "teardown"}]
WorkerType ==
  [at : {"idle", "read", "snapshot", "plan", "finish"}, gen : Nat, core : Nat,
   failure : {"none", "not ready", "plan"}, published : BOOLEAN]

\* Every field keeps to the values its C type and the steps above give it,
\* and the generations the worker holds are never ahead of their counters.
TypeOK ==
  /\ core \in CoreType /\ bridge \in BridgeType
  /\ packet \in PacketType /\ worker \in WorkerType
  /\ sent \in 0 .. MaxPackets
  /\ worker.gen <= bridge.gen /\ worker.core <= core.gen

\* A recovery put off because of host work always has that work still to
\* end: no path leaves recovery_deferred set with nobody to act on it.
DeferredHasOwner ==
  bridge.deferred /\ ~bridge.removed => bridge.work = "running"

\* A learned session whose page was dropped is on its way to Recover: it
\* never goes on without a channel for its plans.
FailClosed ==
  LockFree /\ ~bridge.removed /\ core.stage = "FAST" /\ ~bridge.sink
    => bridge.deferred

\* A due plan is computed, or given up with the stage, once the guest lets
\* the planner be.
DueIsResolved ==
  PlannerDue /\ ~bridge.removed /\ core.stage = "FAST" ~>
    ~PlannerDue \/ bridge.removed \/ core.stage # "FAST"

\* A deferred recovery is started, or the session is removed.
DeferredRecovers ==
  bridge.deferred ~> core.stage = "RECOVER" \/ bridge.removed

\* "Planner, allocation, encoding, and DMA failures are all equivalent at the
\* guest boundary: the new plan was not delivered.  Drop the sink and fail
\* closed rather than silently leaving a pending or stale plan installed."
\* With the planner at rest, a pending plan is on the page or the session is
\* failing closed.
DeliveredOrFailed ==
  LockFree /\ ~bridge.removed /\ ~bridge.queued /\ core.pending
    => bridge.seen \/ core.stage = "RECOVER" \/ bridge.deferred

\* The generation check keeps what the planner found from being applied to
\* another state of the session: a run that failed because the session was
\* in Legacy fails no session that has been negotiated since.
FailureIsCurrent ==
  LockFree /\ worker.at = "finish" /\ worker.gen = bridge.gen /\ ~bridge.removed
    /\ worker.failure = "not ready" => ~core.ready
=============================================================================
