# A TLA+ model of flimeLLM

flimeLLM is a paravirtual Vulkan path: a guest driver encodes Vulkan calls, a
virtio transport (teleport-express) carries them, and the host (express-gpu)
realizes them. FLIME is the part with its own logic: the guest learns that a
workload repeats the same *period* of descriptor updates, then sends the updates
ahead of the submission that needs them, in chunks whose size a host planner
chooses. When the guest sees a mismatch it must fall back to the ordinary path
without losing, repeating or reordering an update.

`F` is `code/host/hw/express-gpu/express_vk_flime.c` (the core session), `B` is
`express_vk_flime_bridge.c` beside it (the host bridge), both below `src/`. `GC` is
`code/guest/express_vk_flime_guest_core.cpp`. The repository has no tests; its
promises are in comments, error texts, the header `express_vk_flime.h` and the two
index pages.

## 1. The system

| Component | State | Operations | Talks to | What makes it correct |
|---|---|---|---|---|
| Recovery ledger (F 2261-3337) | `ledger[]`: update id, submission id, state | prepare, mark ready, begin/complete a release or replay batch, commit, begin recovery, filter fallback, checkpoint, and one-update forms | called by the bridge between two locks; the renderer applies what it is told to | each update applied once and in order; a begin is always completed; recovery, replay and fallback possible; nothing forgotten |
| Stages and progress (F 2012-2259) | `progress.stage`, `legacy_fallback`, `negotiated` | interval signatures, learn / match / period complete, mismatch, recovery complete, reset, teardown | clears the ledger; driven by control packets | only a session that owes nothing leaves Recover or goes Legacy |
| Capability negotiation (F 295-315, 627-687) | `capabilities`, version | negotiate | first packet of a stream; again in Legacy | no state survives a renegotiation |
| Interval detection (F 1926-2010) | bounded signature history, KMP table, rolling hashes | note interval | stage Detect to Learn | finds a repetition exactly when there is one |
| Period profiling (F 1049-1598, B 1804-1975) | units and chunks of a period, estimates, `replan_due` | period begin / end, guest and host units | planner | a period closes complete, an estimate is of one template |
| Chunk planner (F 762-942, 1631-1762) | two plan slots, `pending_valid`, `replan_generation` | plan, install, acknowledge | planner thread, control page | the cheapest split; a plan belongs to the template in use |
| Planner hand-off (B 521-760) | `planner_generation`, `planner_queued`, the sink | schedule, worker loop, publish, fail delivery | the thread meets every control packet and every host-work step | a due plan is delivered or the session fails closed |
| Bridge sessions, pending submissions, submit gate (B 100-3439) | session list, pending list, `host_work_inflight`, `recovery_deferred`, queue binding, period mirror, `submit_inflight` | route, complete release, cancel, reset, remove; prepare submit, updates applied, complete submit | core, Vulkan translation, vkQueueSubmit | what is routed runs whole and once; what is lost is recovered; references are balanced |
| Control page (B 533-662, GC 440-600) | guest page, sequence number | map, publish; poll, copy, compare | guest polls it as a seqlock | the guest uses no torn, stale or freed page |
| Wire codec (F 3370-3885, B 827-1186) | none | decode, check, dispatch | | a bad packet changes nothing but the stage |
| Guest protocol (`code/guest/express_vk_flime_guest*.cpp`) | guest stage, template, plan, periods | learn, match, send, acknowledge, fall back | control and route calls | what it sends is acceptable when it arrives; it holds no plan of an old template |
| Guest shadow and frontier (same files; hooks called from `all_out_vk.cpp`) | descriptor slots and their values, pending records, an early route, the active submit, lifecycle reservations | update, allocate, free, destroy, record a command, submit, recover, fall back | application threads under `g_mutex`; route calls; raw calls of the encoders | a submission sees every update made before it; no suppressed update is lost; the device fails only for a reason |
| Cluster preflight (`express_device_ctrl.c` 85-290) | the scan of a clustered call | scan, walk, dispatch | every clustered call of a guest | all calls of a cluster are dispatched or none |
| Teleport transport (`code/host/hw/teleport-express`) | call queues, register ring, interrupts | pack a call, dispatch, interrupt, register sync | virtio, device threads | a call is cut out whole and in order, its data copied exactly; handled and returned once: assumed |
| Vulkan translation, device glue, generated encoders | object maps | thousands of calls | | no protocol state: out of scope |

Hard behaviours: (a) a batch is reserved under the session lock, applied with
no lock and completed under it again; (b) recovery can start on any failure and
must wait for host work; (c) the planner thread works with no lock and meets a
session that may have been rescheduled, recovered, renegotiated or removed;
(d) any packet the core refuses forces the session to Legacy, or to Recover when
it owes updates; (e) guest and host keep separate copies of the stage, the
template, the plan and the ledger; (f) the guest suppresses updates and owes them to
the host, while threads of the application free sets, destroy buffers and record
commands between its critical sections. `PROJECT.json` lists each hazard at its line.

Locks, outermost first: the Vulkan transaction lock of `vk_trans.c`, the bridge
lock, the session lock. Control packets, routes, submits, a process exit and a virtio
reset hold the transaction lock; the planner worker and the shutdown before a snapshot
is loaded do not take it.

## 2. Modules

| Module | Role |
|---|---|
| `UpdateDelivery` | What the ledger promises, without a ledger: updates are admitted, applied oldest first, never twice, and given up only when the guest restarts the protocol |
| `FlimeLedgerOps` | The ledger as a value: a sequence of entries, and the conditions under which F accepts a batch, a recovery, a fallback |
| `FlimeLedger`, `FlimeLedgerMC` | State machine of one session: ledger, stage, negotiation, the caller's reservation, and what the renderer applied |
| `FlimeLedgerAPI`, `FlimeLedgerAPIMC` | `FlimeLedger` plus the one-update operations and the checkpoint the header exports |
| `PlannerHandoff` | Planner thread, control packets and host work of one bridge session at lock granularity |
| `FlimeBridge`, `FlimeBridgeMC` | Two streams that contend for a queue: sessions, pending submissions, routes, releases, the submit gate, cancellations and removals, on the ledger of `FlimeLedgerOps` |
| `PlanExchange` | Guest, host session and planner thread around the life of a plan |
| `ControlPage` | The page between host and guest, one memory access per step |
| `GuestFrontier`, `GuestFrontierMC` | The guest's shadow of descriptors and what it owes the host, under application threads |
| `FlimeLedgerWalk`, `IntervalDetector`, `ChunkPlanner`, `TemplateMatch`, `ClusterCall`, `CallTransport` | Pure computations: the batch loops, period detection, the dynamic program and the guest's units, template matching, the preflight of a clustered call, cutting calls out of a queue |
| `FlimeAlgorithms`, `FlimeAlgorithmsMC` | One module that feeds all of these their inputs, an element at a time |
| `FlimeLedgerProofs`, `PlannerHandoffProofs`, `ControlPageProofs`, `PlanExchangeProofs`, `FlimeBridgeProofs`, `GuestFrontierProofs`, `FlimeAlgorithmsProofs` | Theorems about the module each is named for; `FlimeLedgerProofs` has those about `FlimeLedgerAPI` too, and that `FlimeLedger` implements `UpdateDelivery` |
| `FlimeBridgeSafety` | Theorems about what a submission, a recovery and a commit may do in `FlimeBridge`, on top of `FlimeBridgeProofs` |

The models overlap where the system's parts meet. `FlimeBridge` uses the ledger's
conditions and says of a session's stage what `FlimeLedger` says; it takes a plan as
accepted or not, which `PlanExchange` decides; `PlanExchange` takes a control call as
answered and the worker as publishing or not, which `ControlPage` and
`PlannerHandoff` work out. `GuestFrontier` takes a route as realized whole and in order,
or refused, which the ledger and the bridge see to.

### FlimeLedger and the code

* `ledger` is `session->ledger[0 .. ledger_count-1]`. `template_offset` only
  serves to refuse a duplicate and is left out; the hash index `ledger_index` is
  the function `At`.
* `stage`, `negotiated`, `legacy`, `caps` are the session fields of those names,
  the capabilities cut down to the three the ledger looks at.
* `flight` is what the bridge holds between a begin and its completion
  (`ExpressVkFlimeReleaseBatch`): the batch, its `emit_mask`, how far the
  renderer is. `log` is what the renderer has applied. `base` marks the part of
  the log that belongs to ledgers cleared since. `epoch` counts the restarts the
  guest asked for (capabilities, reset, teardown).
* `BeginReleaseBatch`, `BeginReplayBatch`, `CompleteBatch`, `Commit`,
  `BeginRecovery`, `Prepare`, `MarkReady` and `FallbackFlush` are the ledger
  functions with the stage test of the route that calls them.
  `ApplyNext` is the renderer. The other actions are control packets; a packet
  the core refuses runs `ForceLegacy` (`flime_wire_force_legacy`), which ignores
  the answer of `begin_recovery`; `RecoveryPossible` is why that is harmless.
* Assumed of the caller: a control packet is refused while host work is in
  flight (B 2044-2133); one batch at a time is in flight for a session; the guest
  numbers updates, so an id that went through a cleared ledger is not used again
  (`Fresh`). A batch is completed as emitted only after all of it is applied,
  as not emitted only before any of it is: the routes complete before they
  return, and the renderer's failures come at validation. `FlimeBridge` has the
  callers themselves.

### PlannerHandoff and the code

A control packet is three actions, because B makes three calls into the core
while it holds the bridge lock (ingest, encode, planner due) and the worker needs
only the session lock for its two: a handler action (one per packet), `Reply`
and `Schedule`. The worker is `Read` (bridge lock, reads the generation),
`Snapshot`, `Publish` or `PlanFails` (session lock) and `Finish` (bridge lock).
Host work is `HostWorkBegin`, `HostWorkEnd`, `HostWorkFails`. `FAST` stands for
Learn, Match and Fast, which a failed delivery treats alike. A plan is one bit,
`pending`; `seen` says that the control page shows the latest plan. The initial
state follows the first capability exchange, before which there is no sink and
no worker for the session.

### FlimeBridge and the code

* `host[s].b` is the bridge session of stream `s` (queue binding, period mirror,
  `pending_count`, `host_work_inflight`, `recovery_deferred`), `host[s].c` what B
  asks of the core session (stage, ledger, open period), `host[s].p` the stream's
  `FlimePendingSubmission` with its reference count, `listed`, and the flags of
  release and submit. `ran` is what really reached the GPU.
* `vk_trans.c` holds one transaction lock over a control packet, over a route
  together with the release it realizes, and over a submit from the gate to its
  completion. `work` is the route or the submit that holds it. `RemoveAll` (process
  exit, virtio reset) and `CleanupDevice` are under the lock too. `DeliveryFailed` (the
  planner thread) and `Shutdown` (`remove_all_render_thread_contexts`, before a snapshot
  is loaded) take no such lock and fall in between, which is what cancellations are
  about.
* `Open` to `SessionTeardown` and `Refused` are the control packets; `Route` has
  the cases of `express_vk_flime_bridge_route` (a first chunk, a next chunk, a
  replay, a bad update, a stale plan); `CompleteRelease` is its second half;
  `SubmitUnrouted`, `SubmitRefused` and `SubmitReady` are the gate for a queue
  submission that no pending submission matches, one that is not ready, and one
  that is; `UpdatesApplied` and `CompleteSubmit` follow it.
* A period has one submission, so both have one number. `Sizes` is what a
  submission may declare, `PlanChunks` the chunks of a planned one.

### PlanExchange and the code

* `core` is the part of `ExpressVkFlimeSession` that knows plans: stage, open
  period and its flags, active and pending slot, acknowledgement, stability count,
  the count of Fast profiles, `replan_due`. `est` is the template whose costs were
  last taken: `clear_specialization` does not clear `estimates[i].valid`, so that a
  plan is made from the right costs needs the argument of section 5.
* `guest` is the guest's `DeviceState`; `sub` the occurrence it submits, with the
  flags, the acknowledgement and the plan its packets carry; `reply` the host's
  answer until the guest returns from the call. `page` is the last plan message.
  `planner` is the worker from the core's `run_pending_planner` to the publication.
* One host action per packet (`HostBegin`, `HostMismatch`, `HostRoute`,
  `HostProfile`, `HostComplete`, `HostRecovered`), one guest action per step
  between packets (`Announce`, `BeforeSubmit`, `EarlyRoute`, `CompleteEarlyRoute`,
  `AfterSubmit`, the `After...` of `Returns`, the fallbacks). An application may
  submit either template at any time and may cause a mismatch at any time.
* `Refuse` leaves open whether the ledger owes something, so it ends in Recover or
  in Legacy. A template is a member of `Shapes`, a plan its chunk count. The model
  takes a refused packet as told from an accepted one, as the guest means to;
  `ControlPage` shows when it is not.
* `HostMismatch`: the guest may report one in every stage it believes specialized.
  A Recover stage of the guest's own exists in its enumeration and is never set.

### ControlPage and the code

`page` is the memory: sequence word, header, payload, freed or not. A publication is
its serial number and is written in three accesses after the odd sequence number
(`WriteHeader`, `WritePayload`, `WriteEven`), under the bridge lock (`writer`). The
guest's `RefreshControlPage` is `Poll`, `LoadFirst`, `CopyHeader`, `CopyPayload`,
`LoadSecond`, `Returned`; `SendPacket` and `SendReturns` are the two ends of
`SendControlLocked`, with `ControlAccept`, `ControlUndelivered`, `ControlRefuse` at
the host. `DisableDevice`, `Fallback`, `BeforeDestroy`, `DestroyDevice` are the ways a
device ends, `CleanupDevice`, `RouteBinds` their host side. `TransportFails` loses a
call or its answer. The barriers on both sides order the accesses, so the model is
sequentially consistent.

### GuestFrontier and the code

* `guest` is the `DeviceState` under `g_mutex`: stage, `transport_failed` (`failed`),
  `next_update_id`, the sets it knows, for each slot its value and `pending_record`
  (`link`), `records`, `active_submit` with its frontier and consumed sets, the early
  route, the command buffer that was learned, the sets each command buffer consumes and
  how many units its dispatches make (`units`).
  A descriptor is a buffer, a slot is one binding element of one set.
* `host` is what the guest's calls brought about: the content of the real slots, the
  live handles, the number of calls that went wrong (a control page that could not be
  read in eight looks is counted with them: `BeforeSubmit`). `app` is a history variable: what
  the application last wrote to each slot (`content`), what of it it may count on
  (`known`: nothing for a slot whose own call was refused or went wrong, or that was
  copied from such a slot), the handles it may use, and what it did that failed the device
  with no call going wrong (`causes`): `opaque`, or another `legal` call.
  `pc[t]` is the wrapper thread `t` is in.
* A lifecycle wrapper is several steps, as it takes `g_mutex` several times and does its
  RPC without it: `StartUpdate`, `UpdateDescriptorSets` (the hook), `UpdateRpc`;
  `StartFree`, `Prepare`, `FreeRpc`, `FreeDescriptorSets`; `StartAllocate`,
  `AllocateRpc`, `AllocateDescriptorSets`; `StartDestroy`, `Prepare`,
  `DestroyDescriptorPayload`, `DestroyRpc`. `Reserve` is the entry of all four; it waits
  for an active submit, and `Submit` waits while a reservation is held.
* `Submit` is `FlimeGuestBeforeQueueSubmit` with every branch of
  `ProtocolBeforeSubmitLocked`: Detect, a normal route, the rest of an early route, a
  recovery with its rebuilt records, the drained fallback. `SubmitReturns` is the RPC
  and `FlimeGuestAfterQueueSubmit`. `BeginCommandBuffer`, `EndCommandBuffer` and
  `OpaqueCommand` are the command hooks; the raw call and its hook are one step.
* Two limits fail the device. `Oversized`: a specialized submission of more than
  `max_units` units (GC 3974) sets `transport_failed` and is blocked, in `NormalRoute` and
  in `RecoveryRoute`; an early route is not begun or finished for it. `RecordTooMany`: one
  command more than a recording holds (`kMaxSemanticCalls`, `kMaxTemplateBytes`). A
  command FLIME knows by name sets `transport_failed` and is not sent
  (`NamedCommandTooMany`, GC 6112), any other one leads to Legacy (`OtherCommandTooMany`).
  What a recording holds is not counted: the command too many may come in any recording.
* `FreeNullHandle`: `vkFreeCommandBuffers` with a null handle, which Vulkan ignores, is an
  unknown command buffer to the guest and fails it while it is specialized
  (`express_vk_flime_guest.cpp` 388).
* An operator such as `RouteChunks` or `FallbackToLegacy` returns the *set* of ways a
  call may end, each with guest and host after it. A route may be accepted, refused with
  any number of its chunks applied, or go wrong with its effect done or not.
* Whether an occurrence matches the learned one is left open, and so is when the guest
  finds an update it does not support: the properties hold whatever is compared
  (`TemplateMatch` has the comparison). An elided record is removed from the set.
  Legacy is for good in the code, and there the shadow is not followed further.
* The application keeps to Vulkan's rules (`Sensible`, `NotUsed`): no use of a handle
  that was given up, no concurrent use of a set, no update of a set that a submission
  under way reads. The properties would be false of any driver otherwise.

### The algorithms

`FlimeAlgorithms` picks a task and builds its input an element at a time, so that each
reachable state is one input and an invariant is a statement about all of them:

* `batch`: the loops of the three batch functions, step by step, against the
  conditions of `FlimeLedgerOps` (`FlimeLedgerWalk`), with every limit of the ledger that
  the entries in it leave possible;
* `intervals`: the border function over the sliding history, and the guest's search;
* `plan`: `flime_plan_locked` with integers for the `double` costs, against every
  partition; its chunk limit;
* `units`: how the guest cuts an occurrence into units (`BuildUnits`), against what the
  host accepts and what the planner cuts;
* `template`: whether a later occurrence is the learned one up to a renaming of its
  handles;
* `cluster`: the preflight of a clustered call and the walk that dispatches it;
* `packing`: `pack_call_from_queue`, the guest queuing the elements of its calls one by
  one and the host looking at the queue at any time, against the calls in one piece.

## 3. Runs

| Run | Instance | What it shows |
|---|---|---|
| `ledger` | 4 updates, 2 submissions, 3 entries, batches up to 3, 2 restarts; 57,860 states | all safety of the ledger, and that it implements `UpdateDelivery` |
| `ledger_api` | 3 updates, 1 submission, batches up to 2, 1 restart; 7,391 states | once-only application with the one-update calls mixed in |
| `bridge` | 2 streams, 1 queue, 3 periods, 2 sessions; 221,585 states | what is routed runs whole and once, what is lost is recovered, nothing bypasses an owed replay, nothing is forgotten |
| `planner_handoff` | 9 guest messages; 206,182 states | no due plan forgotten, deferred recovery happens, fail closed |
| `plan_exchange` | 2 templates, 12 periods, 3 replan periods, 2 chunks; 914,033 states | no plan outlives its template, it is taken up soon, nothing the guest sends is refused |
| `control_page` | 6 packets, 4 planner passes, 3 attempts; 98,476 states | no torn, freed or stale page |
| `guest` | 2 threads, 2 sets, 2 buffers, 2 command buffers, 2 records, 1 failing call; 1,720,638 states | a submission runs on the latest descriptors, nothing owed is lost, the device fails only with a failing call or at one of four calls of the application |
| `algorithms` | 260,748 inputs, bounds below | the pure computations do what they are for |
| `planner_delivery`, `planner_stale`, `control_answer`, `guest_opaque` | as above, the page with 2 packets, the guest with no failing call | the four disagreements of section 6 |

Why these bounds are enough.

* Ledger: batches of three and three entries let an emitted, an in-flight and an idle
  entry stand side by side, a batch start in front of, inside and behind each, and the
  ledger be full; a fourth update makes the limit bite and lets an unknown id meet a
  full ledger; two restarts allow a session to be negotiated, to fall back and to be
  negotiated again. The theorems need no bound. `log` is as long as there are updates.
* Bridge: two streams on one queue is the contention the gate arbitrates (a submission
  matched to the other stream, a stream that owes a replay in the way). Three periods
  take one stream to a planned Fast occurrence, or two streams through their first
  ones; two sessions in all allow one to be torn down and opened again. A submission
  declares two updates in up to two chunks, so it can be half routed.
* Hand-off: nine messages suffice for a whole period, host work, a plan due during the
  next packet, a recovery and a new start. Generation counters grow only with
  messages and worker steps.
* Plan exchange: twelve periods pass the learning periods, the first plan, a full cycle
  of three stable periods with its re-plan, and a change of template and back. Two
  templates are what a stale plan needs. With `ReplanPeriods = 1` every period would
  be fine and the guest would never use a plan, so the runs take 3, the least with a
  stable period that is neither the first nor the last of a cycle. Two chunks make a
  planned route different from an unplanned one and allow an early prefix.
* Page: `SeqTop` is 1000 for 2^64-1; a sink has at most one publication per packet and
  per planner pass, so the wrap is not reached (`PageAssumption`; at 64 bits it is
  not reached in practice either). Three attempts of poll and copy are enough for
  each of: seen at once, torn then whole, given up.
* Guest: two threads are a submission against a lifecycle call, or two lifecycle calls at
  once. One command buffer consumes both sets and one only the first, so that a record
  is carried over a submission that does not consume it. Updates of one descriptor, with or
  without a copy to the other set, and a copy alone make a value depend on an older
  record, and on one whose call was refused.
  `MaxRecords = 2` and `LastId = 4` make the record limit and the last update id bite:
  the two ids left for suppressed updates are one that a submission takes and one that it
  leaves, or the two that a call with a copy, or a recovery of both sets, needs at once.
  With `MaxUnits = 1` the second command buffer may be recorded within the limit or one
  unit past it, also again after it was learned. After a failing call the device has
  failed or is in Legacy, where there is no limit, unless it was a submit that went out
  as it was, which changes nothing. So one failing call can hit every RPC, and a second
  one would meet nothing new. For the same reason the run does not follow a state with
  a failing call *and* an oversized command buffer or another cause of failure
  (`OneMishap`, a CONSTRAINT); the theorems have no such bound. Handles are given up only while the
  device has not failed (`Healthy`), and nothing but submits and opaque commands is
  begun in a device that failed and has no way into Legacy (`Usable`): the wrappers
  would only refuse, and the submission is excused from what was refused.
* Algorithms: ledgers of 3, a history of 6 over 3 signatures, 4 units of costs 1 or 3
  with chunk limits 0, 2 and 4, 5 calls of an occurrence, templates of 2 calls,
  clustered calls of 6 words, 7 elements of calls with up to 2 parameters. A history of
  six holds a period of up to three twice; costs 1 and 3 make one large chunk, several
  small ones and ties optimal in turn.

Symmetry is used for update and submission ids, streams, queues, threads and buffers
(compared for equality only) and in safety runs only. Deadlock is checked in the ledger
runs. It is off where inputs are enumerated or a bound lets the guest stop (the guest may stop
sending at any time), and in the guest runs, where an application that has given up its
handles has nothing left to do.

### Properties worth reading

* `AppliedInOrder`, `AppliedOnce`: order and once-only over any mix of releases,
  failed batches, recoveries, replays, commits and fallbacks. `CompletionAccepted`:
  whatever happens between the two locks, the completion is accepted; otherwise the
  host would fail after the renderer ran.
* `RecoveryPossible`, `ReplayPossible`, `FallbackPossible`, `RecoverHasExit`: the ways
  out are open in every reachable state. These are about what the *code will accept*.
* `ForgottenOnlyWhenDone`, `LegacyOwesNothing`, `NothingForgotten`: no quiet loss.
* `ImplementsDelivery`: refinement of `UpdateDelivery`.
* `RunsWholeAndOnce`, `CommittedMeansRun`, `LostIsRecovered`, `NoBypass`: the gate.
  The hard cases are a submit answered after its session was torn down, reset or
  recovered by another thread. `RefsBalanced`: through all of these each pending
  submission is freed once. `PeriodsAgree`: the bridge's mirror of the period.
* `DueIsResolved`: a due plan is computed or given up with its stage.
  `DeferredHasOwner`, `DeferredRecovers`: `recovery_deferred` is always somebody's job
  and leads to Recover. `FailClosed`: no learned session goes on without its page.
* `PlanOfThisTemplate`: no plan is due, being made, pending, active or held by the guest
  for a template that was given up. `PlanTakenUpSoon`: a published plan is
  acknowledged with the period it applies to, except for one that began before the
  guest saw it and one that owes a fine profile. `NothingRefused`: the
  planner may publish between the guest's look at the page and the packet that
  depends on it, and the packet is still acceptable.
* `WholeSnapshot`, `PagePinned`, `SuccessSeesAnswer`, `NothingUnread`: the page.
  `SuccessSeesAnswer` is as strong as the code allows: a *refused* packet counts as
  successful for the guest when the planner publishes in between.
* `RunsOnLatest`: at any submission the host's content of each slot it reads is what the
  application last wrote, whether it went there directly, by a route, an early route, a
  recovery or a flush. Excepted are updates whose own call was refused or went wrong,
  and copies of what such a call was to write. `NothingLost`:
  a value that the host does not have is owed by exactly one record. `FailsOnlyOnFault`:
  the device fails only when a call, or a look at the page, went wrong, or at one of four
  calls of the application, legal ones: a submission of too many units, a command too many
  for its recording, a null handle given back, an opaque command while a submission is
  under way. Nothing else fails
  it, in any order: it is about retired handles (a route that names one is refused as a
  whole), retirement of frontiers and fallbacks that may not be taken. `Because` notes a
  cause only when the device fails at that very call, so that a long recording, say, that
  went well excuses no later failure. All hold with any outcome of the comparison with the learned template.
* `WalksAgree`, `PeriodFound`, `PlanOptimal`, `UnitsAndPlanFit`, `MatchIsRenaming`,
  `ClusterAllOrNothing`, `CallsWholeInOrder`: the algorithms against
  their definitions.

### Fairness

Only `PlannerHandoff` has liveness and assumes fairness: weak fairness of the answer to
a packet that holds the bridge lock (the handler runs to its end), of the worker (a
thread that only blocks on the queue and on two short locks) and of the end of host
work (a Vulkan call that returns or fails). Nothing is assumed of the guest. It sends
finitely many messages, so `DueIsResolved` does not cover a guest that ends periods
faster than the planner plans: the code lets such a guest keep the plan away for
ever, since each period end moves `replan_generation`. Elsewhere what should happen
eventually is stated as a bound (`PlanTakenUpSoon`) or as an exit that stays open
(`RecoverHasExit`).

## 4. Mutants

For each property `PROJECT.json` names a definition and a faulty version of it,
marked `fault:` in the modules: a batch that may skip an entry, a recovery that
discards in-flight entries, a forced Legacy that keeps or drops the ledger, a
cancelled submission that starts no recovery, a session removed with its submission
pending, an acknowledgement that leaves the period the plan was made for, a plan that
stays due through a recovery, a second load of the sequence word that only looks
whether a write is in progress, a page freed with its device, a recovery that replays
only the sets of its own submission, a set freed with records that name it, and so on.
TLC finds
each property broken with its fault in place.

## 5. Proofs

Everything here holds for every value of the constants, under the assumption named in
the module. None of the properties of the protocol modules is inductive; each proof
module states an `IInv` (`CountInv` and `SafeInv` for the bridge, `APIInv` for the whole
ledger interface) that is, and shows it of the initial state and of each action. In
`FlimeAlgorithms` a state is an input, so its theorems need only what the inputs are made
of, and the argument is about the loops.

| Module | Theorem | States |
|---|---|---|
| `FlimeLedgerProofs` | `Invariance` | `Spec => []IInv`, from `LedgerAssumption` |
| | `TypeCorrect`, `InOrder`, `Once`, `Completes` | `TypeOK` (which no run checks by itself), `AppliedInOrder`, `AppliedOnce`, `CompletionAccepted` |
| | `Recovers`, `Replays`, `FallsBack` | `RecoveryPossible`, `ReplayPossible`, `FallbackPossible` |
| | `LegacyIsEmpty`, `Forgets` | `LegacyOwesNothing`, `ForgottenOnlyWhenDone` |
| | `Refines` | `ImplementsDelivery`: `Spec => Delivery!Spec` |
| | `APIInvariance` | `APISpec => []APIInv` |
| | `OnceWithSingles`, `CompletesWithSingles` | `AppliedOnce`, `CompletionAccepted` of `APISpec` |
| `PlannerHandoffProofs` | `HandoffInvariance` | `Spec => []IInv`, from `HandoffAssumption` |
| | `HandoffTyped`, `DeferredOwned`, `FailsClosed` | `TypeOK` (likewise), `DeferredHasOwner`, `FailClosed` |
| `ControlPageProofs` | `PageInvariance` | `Spec => []IInv`, from `PageAssumption` |
| | `PageTyped`, `NoTornSnapshot`, `NoWriteAfterFree`, `SuccessIsSeen`, `NothingOverwritten` | `TypeOK` (likewise), `WholeSnapshot`, `PagePinned`, `SuccessSeesAnswer`, `NothingUnread` |
| `PlanExchangeProofs` | `PlanInvariance`, `PlanBelongs` | `Spec => []IInv`, `PlanOfThisTemplate`, from `PlanExchangeAssumption` |
| | `ReadyInvariance`, `NeverRefused` | `Spec => []Ready`, `NothingRefused` |
| | `TakenUp` | `PlanTakenUpSoon`, for `ReplanPeriods > 1` |
| `FlimeBridgeProofs` | `BridgeInvariance`, `Balanced` | `Spec => []CountInv`, `RefsBalanced` |
| `FlimeBridgeSafety` | `SafeInvariance` | `Spec => []SafeInv` |
| | `CompletionsAccepted`, `WholeAndOnce`, `Committed` | `CompletionAccepted`, `RunsWholeAndOnce`, `CommittedMeansRun` |
| | `LostRecovers`, `RecoveryEnds`, `NothingIsForgotten` | `LostIsRecovered`, `RecoverHasExit`, `NothingForgotten` |
| | `NothingBypasses`, `PeriodsAgreeAlways` | `NoBypass`, `PeriodsAgree` |
| `GuestFrontierProofs` | `FrontierInvariance` | `Spec => []IInv`, from `GuestAssumption` |
| | `LatestRuns`, `NoUpdateLost`, `FailsForCause` | `RunsOnLatest`, `NothingLost`, `FailsOnlyOnFault` |
| `FlimeAlgorithmsProofs` | `LoopsAgree` | `WalksAgree`; all of this module from `AlgorithmAssumption` |
| | `WholeCalls`, `AllOrNothing` | `CallsWholeInOrder`, `ClusterAllOrNothing` |
| | `RenamingMatches`, `PeriodsFound` | `MatchIsRenaming`, `PeriodFound` |
| | `BestPlans`, `UnitsFit` | `PlanOptimal`, `UnitsAndPlanFit` |

*Ledger.* `UniqueIds`: an id is in the ledger once and never went through an earlier
one. `AppliedPrefix`: the applied updates are exactly the first entries, being those
emitted and those of the batch in flight that the renderer has done. `BatchInOrder`:
the batch in flight covers exactly the in-flight entries, in ledger order, with
nothing idle before them; this carries the order from `begin` to `complete`.
`FallbackFresh`: what is left of a flush is not applied yet. `RecoverWaits`: in Recover
nothing is left PREPARED or READY. `LegacyEmpty`: Legacy has no ledger, and a flush is
in Legacy. Lemmas first establish what the ledger operations preserve, then, action by
action, each part of `IInv`; `ApplyNext` and `CompleteBatch` need `BatchInOrder`.

*Refinement.* Outside a flush the abstract queue is the entries behind the applied
ones. A step that keeps the entries, or appends to them, admits; by `AppliedPrefix`
after the step, whatever it adds to the log is the oldest entry owed; a ledger that is
cleared without a restart is committed or empty, so it owes nothing. A fallback flush
changes the mode: what it owes is the batch from its first masked id on. That this
begins with what the ledger owed, in the same order, is `FallbackCovers`: neighbours in
the ledger are neighbours in the batch (`FallbackNeighbours`, from the order the ledger
imposes and from its covering everything), and a smallest position out of place would
contradict that. `FallbackSorted`, which joins the invariant here, says that behind the
first masked id every id is masked, so the flush applies its queue without a gap.

*Whole interface.* A replay of one update that the ledger does not know goes to its end
with no look at what is before it, so the applied updates need not be the first entries,
and order is lost (section 6). Once-only is not, and needs a weaker invariant. `APIInv`
keeps what the invariant above says of ids, flushes and Legacy, and for the rest says of
each update by itself where it stands. `LogInLedger`: what was applied since the ledger
began is in it, emitted or done. `Reserved`: a reservation names its updates once and they
are in flight. Every step either applies nothing and takes back nothing that is done
(`QuietStep`), or applies one update that is in no done entry (`LoudStep`).

*Hand-off.* A recovery deferred by running host work could be lost if the session left
the stages in which the end of the work starts it. `RunningStage` says it does not:
host work runs only in a learned stage or in Recover. `PacketHolds` says why no packet
can take the stage away: a packet that holds the lock has seen no host work, and one
that resets or tears down has left the learned stages before its answer, so a failed
answer fails nothing closed that is not there.

*Control page.* While the guest copies the page no packet is at the host, so only the
planner can write, and it continues the numbers of the sink: the word only grows
during a copy, and a copy whose two loads agree saw no write. A packet restarts the
numbering, but only between two refreshes. The page is exposed only by a packet; what
takes the exposure back leaves a host without a sink or without a planner run to use
it, also in `DisableDevice`, which skips the teardown when the device is not
negotiated although its page was exposed.

*Plans.* Whatever is due, pending, active or on the page is of the guest's template,
and exists only while the guest is in Fast. The two stages differ only while an answer
is under way (`Stages`). The crux is that stale costs are never planned from although
the code leaves them valid: a plan becomes due at the end of a Fast profile, and only
of a fine one (`Occurrence`: an unplanned period is fine, and FORCE_REPLAN goes with
FINE), which takes the costs of an occurrence the guest has compared with its
template. Each way out of the template empties the core and makes the planner's
result unwanted (`PlannerPlans`), and the answer to a completed recovery shows no plan.

*What the host accepts.* The guest decides on what it last read, and the planner may
have installed a plan since. `Ready` says why the decision still holds while the host
is in a stage the guest shares (`Joined`); a host that has left it may refuse anything.
`InStep` and `Numbered`: both sides have the same period open, with its flags, in each
phase of a packet. `Fits`: what the page or the guest's copy shows may be old, but is no
plan, the active or the pending one, and it asks for the fine profile if one is due. An
installation cannot make one due: without a plan every period is a fine one, and a second
plan leaves the count alone. `Epochs`: a pending
plan is newer than the one acknowledged, the active one is the one acknowledged; so an
epoch the guest names means the same plan to the host (`Asked`, `Granted`).

*How long a plan waits.* `Waiting` bounds it. When a plan is installed it applies to the
next period (`Soonest`). A guest that has begun that period without having seen the plan
acknowledges the following one; one that sees it acknowledges it unless a fine profile is
due, and the stable count that makes it due starts again with that period. The theorem
needs `ReplanPeriods > 1`: with 1 each period is a fine one and no plan is used at all.
The code negotiates 32 (`EXPRESS_VK_FLIME_PAPER_REPLAN_PERIODS`), and the guest accepts no
other number.

*Bridge.* `CountInv` ties the flags and the counters of a stream to the work that
holds the transaction lock: a submission is releasing or submitting exactly while a
release or a submit of its stream is under way, and has a reference for the list and
one for the work. Most handlers are compositions of a few operations on one stream, so
the lemmas are about those: a recovery counts nothing; giving up a submission keeps the
count, whether or not work still holds it (`DroppedCounted`); host work that is over
leaves one reference owed (`Owed`), which stays owed through a recovery, an unlinking
or a second failure until the last `Unref`. The steps that take no transaction lock
need nothing more, which is what makes them safe in the middle of host work.

*What the bridge submits.* `SafeInv` holds of each stream by itself, given the work it
holds, and says besides that no two sessions have one period. None of the properties of
the gate can be shown alone, since each rests on what the others forbid:

* `LedgerOK`: an update is in the ledger once; what is emitted comes first, then what is
  in flight; in flight is exactly what the work in progress realizes. A completion is
  therefore accepted, and a recovery with no work finds nothing in flight.
* `Settled`: what is not committed belongs to the open occurrence, which is not
  committed. `Occurs`: the occurrence is the session's period, executed and committed
  together, and then it ran; a session without an open period owes nothing.
* `Agrees`: bridge and core name one period while it can be routed or is owed, and a
  session in Legacy or Detect has no ledger.
* `Pends`: a submission that is listed or worked on is of the open occurrence and has not
  run (`Current`); its chunks so far, and the last one, which waits for the submit, are
  the updates it declared (`Routed`); its updates are in the ledger, emitted but for those
  that wait or are in flight, and at the submit there are no others of the occurrence in
  it (`Ledgered`).
* `LostOK`, `Deferral`: a routed occurrence that is neither committed nor listed is in
  recovery, or a recovery is put off, and only while host work is under way.

A replay needs the most care. It repeats the discarded updates of the ledger under their
own numbers and may be cancelled between any two chunks, so the updates of a submission
are the first ones of its period only outside a recovery. The steps that another thread
takes during host work (`DeliveryFailed`, `Shutdown`) recover, unlink and remove a
session whose work goes on. The lemmas about `Recovered` and `Dropped` say that this
leaves the ledger to the work (`Sound`) and the submission to its references (`Owed`), and
the end of the work starts the recovery that was put off. `NoBypass` follows from
`Settled` and `LostOK` with the guard of the gate, and `RunsWholeAndOnce` from `Current`
and `Ledgered`, also for a submission cancelled after the gate. All of it is from
`BridgeAssumption`, which gives the constants their types.

*The guest's frontier.* `IInv` is `Good` and `Settled`, and `Good` has three parts.

* `Orderly`, of the guest alone: a slot has one record, an id one record; a record that
  was not released is the one its slot is linked to and has the slot's value; the
  frontier of a routed submission under way is released, and of the sets it consumes.
* `Holds`: what the application may count on is at the host or in a record that was not
  released. It says nothing of the shadow and survives Legacy, where the shadow ends.
* `Agreed`: the rest that threads rely on between their steps. The shadow has the value
  too, unless an update that Detect shadowed is still on its way (`Shadows`); each call
  has made sure of what its next part needs (`CallOK`: an allocated set is at the host
  before it is known, no record names a set or a buffer when its handle is given up,
  what a submission reads is at the host when its RPC begins); calls under way do not
  meet, and no lifecycle call is under way at a routed submission (`Apart`, `Gated`); and
  while no call went wrong and no such cause was noted the device works and its records name
  handles that live (`Living`).
* `Settled`: a released record belongs to an early route, the submission under way or a
  device that failed, so that in between what is owed is not released.

These are operators of a guest, a host, an application and the calls, because one step
goes through several of them: a submission may rebuild its records, send some of them,
fall back, and take the gate. Such changes are mostly *moves* (`Moves`): the application
learns nothing of them and every call under way keeps what it was sure of. Moves
compose, so a lemma about each (`RouteChunksMoves`, `FallbackMoves`, `RetireGood`,
`RebuiltGood`) gives every branch of `Submit` by composition. What is left is one lemma
per action on how calls begin, go on and return. Two of them need an argument of their
own. `RetirementAccounts`: a routed submission that returns can always be retired, as the
frontier it took is still there, so `FailsOnlyOnFault` does not depend on luck. (A failure
with another cause is noted in `causes` at the same step, `Caused`; from then on `Living` asks for
nothing, while the other parts go on.) And a
recovery gives one record to each slot with a value, under new ids in whatever order it
meets the slots (`NumberingExists`: there is such a numbering), so what was owed before
is owed after, under ids that nothing else has.

An update writes its descriptors one after the other, and a copy reads what the ones
before it wrote, so its effect is a recursive function (`Staged`). That the function
exists and what it leaves alone is shown with a least counterexample in place of
induction (`NatMin`, `Climbs`). The proof needs from `GuestAssumption` that a call is a
sequence of writes to slots and that there are finitely many slots: the count of the
records is compared with their limit.

The proof found the exception of `RunsOnLatest` to be too small. It left out the updates
whose call was refused, but a later update that goes through may copy from a slot of such
a call; the guest's shadow and the host then differ although every call since was fine,
and a run with copies alone shows it. The model now says what the application may count
on (`known`) and passes it on with each copy.

*The loops.* A fold, or a recursive function, is by definition *some* function that
satisfies the recursion, so nothing can be said of a loop before there is one. The library
shows this with an operator as the parameter of a theorem, which the provers cannot be
given. Here `After` makes one operator of all loops, selected by name, and `RecExists`,
`IterExists` and `FoldExists` show it once for all of them; `FoldIsLoop` then says what
the next element does to the result. Inductions go by the least counterexample
(`NatMin`, `Climbs`). What is left is what each loop's variables know of the input that is
behind them.

* `WalksAgree`: the loop of a batch keeps a frontier, the conditions speak of positions in
  the ledger; the frontier is the last position of the batch so far (`ReleaseStepTracks`,
  `ReplayStepTracks`, `FallbackStepCovers`). This is what lets the other modules use the
  conditions in place of the loops.
* `CallsWholeInOrder`: what was handed on, what is put aside and what is in the queue make
  up what was queued (`Packed`), through each way out of `pack_call_from_queue`.
* `ClusterAllOrNothing`: the scan marks where calls start. If it accepts, the marks
  are a cut of the stream (`PathCuts`), the only one (`CutFollows`), and the walk follows
  it (`WalkFollows`); a proper cut is never refused (`ProperDispatched`).
* `MatchIsRenaming`: the template numbers the handles in the order in which they occur;
  equal numbers are what a renaming keeps (`RoleStands`, `MetNames`).
* `PeriodFound`: falling back from border to border finds the longest that can be
  extended (`FallFinds`), so the table holds the longest border of each prefix
  (`BordersAre`); the period it leaves is one the history ends with twice (`WholeSquares`).
* `PlanOptimal`: each cell is the best of its candidates (`CellIs`, `TableIs`); no
  schedule is done before the cell that stands for its chunks (`NoneSooner`), as a later
  start never ends sooner; and the way back through the cells is a schedule that is done
  when the last one says (`PlanIs`, `PlanIsBest`). Costs are any naturals, where the code
  has doubles: rounding is not covered.
* `UnitsAndPlanFit`: units are cut without a gap, full but for the last (`Chained`,
  `Cutting`), which is what the host checks of each (`AreSampled`); a schedule ends at
  units, so the plan fits them (`ScheduleFits`).

Model-checked only: liveness (`DueIsResolved`, `DeferredRecovers`), which cannot be
proved under fairness with this prover. Every invariant and every action property that a
run finds to hold is a theorem.

## 6. Disagreements between the code and what it says

1. *A plan that is published and not delivered* (run `planner_delivery`). A packet
   that finds a plan due while the worker is planning moves `planner_generation`.
   The worker then publishes to the core, finds the generation changed, and drops
   `published`; its second round finds nothing due. The comment in the worker asks
   for the opposite. The plan reaches the guest only with a later answer.
2. *A stale failure* (run `planner_stale`). Renegotiating from Legacy does not move
   `planner_generation`. A worker whose run failed in Legacy passes the generation
   check afterwards and drops the new session's page, or takes it to Recover.
3. *Every answer has the same number* (run `control_answer`). `vk_trans.c` hands the
   page over with every control packet, so each accepted packet replaces the sink,
   which resets `control_sequence`. The answers to two packets then carry the same
   sequence number, and the guest, which takes an unchanged word for a refusal, gives
   the stream up, unless the planner wrote in between.
4. *An opaque command is dropped* (run `guest_opaque`). A draw is to be sent after the
   retained ledger is drained. `FallbackToLegacyLocked` refuses to drain while a
   submission is active, and `g_mutex` is free between the two halves of a submit. A
   draw that another thread records in that time is not sent, and the device fails with
   it, though nothing went wrong. The lifecycle hooks wait for the submit; this one
   does not.

Three more contradict a text of the repository and have no run of their own:

* `vk_trans.h` 5-9 says that the transaction lock serializes realization and submits
  with destruction, and that destructive transport cleanup takes it before the bridge
  lock. Process exit, virtio reset and unrealize do; loading a snapshot reaches
  `express_vk_flime_bridge_shutdown` without it, so a session may be removed while its
  release is being realized. `FlimeBridge` has this step (`Shutdown`), and its
  properties hold in spite of it.
* The one-update replay (F 2766, 2851) looks at the prefix only for an update it knows.
  An unknown one is appended as emitted behind discarded entries, which the next
  `begin_recovery` refuses ("released ledger entry appears after unreleased suffix").
  The batch form makes the check, and it is the one the bridge uses.
* "Negotiated wire sessions therefore collect a few single-flush Fast periods before
  publishing their first adaptive plan" (F 1543). The guest marks every fine Fast profile
  FORCE_REPLAN, and without a plan every profile is asked to be fine, so the first one
  starts the planner: in `PlanExchange` a plan can be pending after one profile.

Other things met on the way, which no text of the repository contradicts: four things
fail the device, though Legacy would be open to it and no call went wrong. An occurrence
of more units than the host granted (256 by default) is learned like any other, as Detect
does not count units, and the first specialized submission of it sets
`transport_failed` (GC 5298, 3974); a recording that is full does so at the next command
FLIME knows by name, in Detect too (GC 6112); a null handle in `vkFreeCommandBuffers`
does so in a specialized guest; and a control page that a writer holds
through eight looks does so at the next submission (GC 463). Further, an update
that the guest refuses as fatal sets `transport_failed`, which a later fallback that
succeeds clears again (GC 4543) and which a submit in Legacy does not look at, so that
submissions go on without the update (the exception of `RunsOnLatest`); a plan
published during an early route makes the submit fall back to Legacy for good;
`vkDestroyDevice` (`all_out_vk.cpp` 7396) ignores the answer of `BeforeDestroyDevice`;
in the transport two threads that release calls at once can leave the tail of the
recycle ring behind, so that a later call waits for the ring to come round
(`teleport_express_register.c` 117), and a bad parameter makes
`pack_call_from_queue` go on with an element it has given back
(`teleport_express_call.c` 692).

## 7. Not modelled

* *Generated code and Vulkan translation.* `all_out_vk.cpp`, the deep-copy, counting and
  encoding files of the guest and `vk_trans.c` make up most of the tree's lines. They
  marshal thousands of calls, one like another, and keep object maps; they have no
  protocol state. What `vk_trans.c` does for FLIME (the transaction lock, realizing a
  release, the submit) is in `FlimeBridge` as the caller of B. The share of the
  tree's lines that the models stand for is small for this reason.
* *Teleport transport*, but for `CallTransport`. Memory-mapped registers, the allocation
  of calls, the recycle ring, interrupts and threads of the emulator. The models assume
  of it that a call is delivered once and returns or fails. `CallTransport` takes elements
  as well formed, which is the guest driver's part.
* *Wire codec.* A packet is accepted or refused. The checks are comparisons of fields.
* *Parts of the guest.* Descriptor update templates (a second way to write the same
  call), pool reset and destruction (many sets at once), images, samplers and buffer
  views as payloads, several queues of one device, the compiled descriptor calls of Fast
  and the clusters of small calls. What they decide is open in `GuestFrontier`: an
  occurrence may match or not, an update may be unsupported.
  Also left out: period, submission and occurrence numbers that run out at 2^64-1, where
  the device fails too (GC 556, 5289); handles that collide in the guest's tables
  (`express_vk_flime_guest.cpp` 246, 331, 351); and the calls that give a specialized
  guest up because the shadow cannot hold a layout, a pool or a template
  (`DisableDeviceFlimeLocked`): they hold a lifecycle reservation, so that no submission is
  under way, and end as any other fallback.
* *Paths that change no property.* `FlimeBridge` drops a chunk that is refused as a whole,
  where B (2761-2783) makes its first records READY and then discards them; the
  ledger's own models have that state. `DeliveryFailed` is tried in fewer stages than
  the worker may be in; `PlannerHandoff` has this path in full. `ControlPage` leaves out
  a payload that does not parse after its number was taken (GC 362, 471-473), with which
  the packet fails.
* *Numbers and time.* Costs are small integers, not `double`s; smoothing of estimates is
  left out; hashes are exact; the eight polls of the page have no duration.
* Allocation failures except where a path changes state, and logging.

What could still be added: liveness of the plan exchange under an assumption about
planning time.
