---------------------------- MODULE GuestFrontier ----------------------------
(***************************************************************************)
(* The guest half of FLIME for one device with one queue: the descriptor   *)
(* shadow, the pending records that stand for suppressed updates, the      *)
(* frontier of them that a submission takes along, early routes, recovery  *)
(* and the fallback to legacy (express_vk_flime_guest_*.cpp), driven by    *)
(* application threads through the wrappers of all_out_vk.cpp.             *)
(*                                                                         *)
(*   guest     the DeviceState, under g_mutex;                             *)
(*   host      what the guest's RPCs did: descriptor contents, live        *)
(*             handles, and how many calls went wrong (external), a        *)
(*             control page that cannot be read counted with them;         *)
(*   app       what the application may count on, and what it did that     *)
(*             may fail the device by itself (a history variable);         *)
(*   pc[t]     the call thread t is in.  A step is one critical section    *)
(*             of g_mutex or one RPC; the last section of a lifecycle      *)
(*             call, which only lowers lifecycle_inflight, is folded into  *)
(*             the step before it.                                         *)
(*                                                                         *)
(* An elided record is one that is no longer in guest.records: everything  *)
(* that walks the records skips it.  Whether an occurrence matches what    *)
(* was learned (signatures, units, plans, compiled descriptor calls, the   *)
(* mismatch flag) is left open: either may happen at any submission.       *)
(***************************************************************************)
EXTENDS Integers, Sequences, FiniteSets

CONSTANTS
  Sets, Slots, Buffers, Cmds, Threads,
  SetOf,        \* the descriptor set a slot is in
  Calls,        \* the vkUpdateDescriptorSets calls the application makes:
                \* sequences of [dst |-> slot, src |-> buffer or slot]
  Shapes,       \* what each command buffer may be recorded as: the sets its
                \* dispatches consume, and how many units they make
  MaxUnits,     \* max_units, as it was negotiated
  None,         \* no buffer, no command buffer
  MaxRecords,   \* kMaxRouteRecords
  LastId,       \* stands for UINT64_MAX among the update ids
  MaxFaults     \* bound: RPCs that go wrong

ASSUME GuestAssumption ==
  /\ SetOf \in [Slots -> Sets]
  /\ Calls \subseteq Seq([dst : Slots, src : Slots \cup Buffers])
  /\ Shapes \in [Cmds -> SUBSET [sets : SUBSET Sets, units : Nat]]
  /\ None \notin Buffers \cup Cmds
  /\ Slots \cap Buffers = {} /\ IsFiniteSet(Slots)
  /\ MaxUnits \in Nat /\ MaxRecords \in Nat /\ LastId \in Nat /\ MaxFaults \in Nat

VARIABLES guest, host, app, pc

vars == <<guest, host, app, pc>>

Specialized(g) == g.stage \in {"Learn", "Match", "Fast"}

NoSubmit == [kind |-> "none", frontier |-> {}, consumed |-> {}]
NoEarly == [cmd |-> None, frontier |-> {}, consumed |-> {}]
Unlinked == [k \in Slots |-> 0]
Idle == [op |-> "idle", at |-> "idle", sets |-> {}, bufs |-> {}]

Init ==
  /\ guest = [stage |-> "Detect", failed |-> FALSE, nextId |-> 1,
              sets |-> Sets, value |-> [k \in Slots |-> None],
              link |-> Unlinked, records |-> {}, active |-> NoSubmit,
              early |-> NoEarly, learned |-> None, executable |-> {},
              binds |-> [c \in Cmds |-> {}], units |-> [c \in Cmds |-> 0]]
  /\ host = [content |-> [k \in Slots |-> None], sets |-> Sets,
             buffers |-> Buffers, faults |-> 0]
  /\ app = [content |-> [k \in Slots |-> None], known |-> [k \in Slots |-> None],
            sets |-> Sets, buffers |-> Buffers, ready |-> {}, causes |-> {}]
  /\ pc = [t \in Threads |-> Idle]

-----------------------------------------------------------------------------
(* The host.  A routed packet is realized in the order of its ids; one     *)
(* that names a handle the host no longer knows is refused as a whole, and *)
(* the host may refuse a route for reasons of its own.  When a call goes   *)
(* wrong its effect may or may not have taken place.                       *)

Mapped(h, R) == \A r \in R : SetOf[r.slot] \in h.sets /\ r.val \in h.buffers

Newest(R, k) == CHOOSE r \in R : r.slot = k /\ \A q \in R : q.slot = k => q.id <= r.id

Realize(h, R) ==
  [h EXCEPT !.content = [k \in Slots |->
     IF \E r \in R : r.slot = k THEN Newest(R, k).val ELSE @[k]]]

Faulty(H) == {[h EXCEPT !.faults = @ + 1] : h \in {x \in H : x.faults < MaxFaults}}

\* SendRoutePacketLocked
Route(h, R) ==
  LET kept == IF Mapped(h, R) THEN {Realize(h, R)} ELSE {}
  IN     {[reply |-> "refused", h |-> h]}
    \cup {[reply |-> "accepted", h |-> x] : x \in kept}
    \cup {[reply |-> "invalid", h |-> x] : x \in Faulty({h} \cup kept)}

-----------------------------------------------------------------------------
(* The shadow and the records *)

Written(call) == {call[i].dst : i \in DOMAIN call}
Copied(call) == {call[i].src : i \in DOMAIN call} \cap Slots

\* The values after one change, and after the first i changes of a call for each
\* i: writes and then copies take effect one after the other.
Changed(v, m) == [v EXCEPT ![m.dst] = IF m.src \in Slots THEN v[m.src] ELSE m.src]
Staged(v, call) ==
  LET f[i \in 0..Len(call)] == IF i = 0 THEN v ELSE Changed(f[i-1], call[i]) IN f
Overlay(v, call) == Staged(v, call)[Len(call)]

LastWrite(call, k) ==
  CHOOSE i \in DOMAIN call :
    call[i].dst = k /\ \A j \in DOMAIN call : call[j].dst = k => j <= i

\* What FlimePlanDescriptorWrites and FlimePlanDescriptorCopies accept, and
\* the limits the hook and the commit put on it.
Plannable(g, call) ==
  /\ \A i \in DOMAIN call :
       /\ SetOf[call[i].dst] \in g.sets
       /\ call[i].src \in Slots =>
            /\ SetOf[call[i].src] \in g.sets
            /\ Staged(g.value, call)[i - 1][call[i].src] # None
  /\ g.nextId + Len(call) <= LastId
  /\ Specialized(g) =>
       /\ g.nextId + Len(call) < LastId
       /\ Cardinality(g.records) + Len(call) <= MaxRecords

Pending(g, K) == {r \in g.records : r.slot \in K /\ g.link[r.slot] = r.id /\ ~r.released}

Commit(g, call) ==
  LET W == Written(call)
      id(k) == g.nextId + LastWrite(call, k) - 1
      v == Overlay(g.value, call)
      old == g.records \ Pending(g, W)
      new == {[id |-> id(k), slot |-> k, val |-> v[k], released |-> FALSE] : k \in W}
  IN IF Specialized(g)
     THEN [g EXCEPT !.value = v, !.records = old \cup new, !.nextId = @ + Len(call),
                    !.link = [k \in Slots |-> IF k \in W THEN id(k) ELSE @[k]]]
     ELSE [g EXCEPT !.value = v, !.records = old,
                    !.link = [k \in Slots |-> IF k \in W THEN 0 ELSE @[k]]]

\* The values of slots K are gone, and so are the updates that were to bring them.
Discard(g, K) ==
  [g EXCEPT !.records = @ \ Pending(g, K),
            !.link = [k \in Slots |-> IF k \in K THEN 0 ELSE @[k]],
            !.value = [k \in Slots |-> IF k \in K THEN None ELSE @[k]]]

FreeSets(g, s) == [Discard(g, {k \in Slots : SetOf[k] = s}) EXCEPT !.sets = @ \ {s}]
InvalidatePayload(g, b) == Discard(g, {k \in Slots : g.value[k] = b})

\* FlimePendingRecordMatchesSlot
MatchesSlot(g, r) ==
  /\ ~r.released
  /\ SetOf[r.slot] \in g.sets /\ g.value[r.slot] = r.val
  /\ g.link[r.slot] = r.id

Ids(R) == {r.id : r \in R}
Frontier(g, consumed) == {r \in g.records : SetOf[r.slot] \in consumed}

Release(g, R) ==
  [g EXCEPT !.records = (@ \ R) \cup {[r EXCEPT !.released = TRUE] : r \in R},
            !.link = [k \in Slots |-> IF @[k] \in Ids(R) THEN 0 ELSE @[k]]]

ClearOccurrence(g) == [g EXCEPT !.records = {}, !.link = Unlinked]
ClearActive(g) == [g EXCEPT !.active = NoSubmit]
Failed(g) == [g EXCEPT !.failed = TRUE]

\* Legacy is for good, and nothing there reads the shadow or the update ids:
\* they are not followed any further.
EnterLegacy(g) ==
  [ClearActive(ClearOccurrence(g)) EXCEPT
     !.stage = "Legacy", !.early = NoEarly, !.learned = None,
     !.value = [k \in Slots |-> None], !.nextId = 1]

-----------------------------------------------------------------------------
(* Leaving specialized mode.  These give the ways a call may end: ok, the  *)
(* guest and the host after it.                                            *)

FallbackToLegacy(g, h) ==
  LET flushed == Realize(h, g.records)
  IN IF /\ Specialized(g) /\ g.active.kind = "none"
        /\ Cardinality(g.records) <= MaxRecords
        /\ Mapped(h, g.records)
     THEN   {[ok |-> TRUE, g |-> [EnterLegacy(g) EXCEPT !.failed = FALSE], h |-> flushed]}
       \cup {[ok |-> FALSE, g |-> Failed(g), h |-> x] : x \in Faulty({h, flushed})}
     ELSE {[ok |-> FALSE, g |-> Failed(g), h |-> h]}

DrainEarlyRoute(g, h) ==
  IF g.early = NoEarly THEN {[ok |-> TRUE, g |-> g, h |-> h]} ELSE FallbackToLegacy(g, h)

\* fault: only an early route is drained before a handle is given up
RetirementDrainsEarly(g, h) ==
  IF g.failed THEN {[ok |-> FALSE, g |-> g, h |-> h]} ELSE DrainEarlyRoute(g, h)

\* FlimeGuestPrepareDescriptorRetirement
PrepareRetirement(g, h) ==
  IF ~Specialized(g) \/ (g.early = NoEarly /\ g.records = {})
  THEN {[ok |-> TRUE, g |-> g, h |-> h]}
  ELSE IF g.failed THEN {[ok |-> FALSE, g |-> g, h |-> h]}
  ELSE FallbackToLegacy(g, h)

\* SendRoutedSubmissionRangeLocked: the records R in chunks, the oldest
\* first.  A chunk may be refused when earlier ones are already out.
Prefixes(R) == {{r \in R : r.id < n} : n \in Ids(R)}

RouteChunks(g, h, R) ==
  LET sent(P) == Release(g, P)
  IN     {[reply |-> a.reply, h |-> a.h,
           g |-> IF a.reply = "accepted" THEN sent(R) ELSE g] : a \in Route(h, R)}
    \cup {[reply |-> "refused", g |-> sent(P), h |-> Realize(h, P)]
          : P \in {Q \in Prefixes(R) : Mapped(h, Q)}}

\* BuildUnits, BuildChunksLocked: its units are more than a period may have.
Oversized(g, c) == g.units[c] > MaxUnits

\* MaybeAdvanceFastRouteLocked: all chunks but the last go out.
MaybeAdvance(g, h, c) ==
  LET F == Frontier(g, g.binds[c])
      stay == [ok |-> TRUE, g |-> g, h |-> h]
      open(x) == [x EXCEPT !.early = [cmd |-> c, frontier |-> Ids(F), consumed |-> g.binds[c]]]
      after(a) == IF a.reply = "accepted" THEN {[ok |-> TRUE, g |-> open(a.g), h |-> a.h]}
                                          ELSE FallbackToLegacy(a.g, a.h)
  IN IF g.failed THEN {[stay EXCEPT !.ok = FALSE]}
     ELSE IF g.early # NoEarly
     THEN IF g.early.cmd = c THEN {stay} ELSE FallbackToLegacy(g, h)
     ELSE IF \/ g.stage # "Fast" \/ g.active.kind # "none"
             \/ g.learned # c \/ c \notin g.executable \/ Oversized(g, c)
     THEN {stay}
     ELSE {stay} \cup UNION {after(a) : a \in UNION {RouteChunks(g, h, P) : P \in Prefixes(F) \cup {F}}}

-----------------------------------------------------------------------------
(* vkUpdateDescriptorSets: FlimeGuestUpdateDescriptorSets *)

UpdateFailure(g, h) ==
  IF ~Specialized(g) THEN {[action |-> "legacy", g |-> EnterLegacy(g), h |-> h]}
  ELSE {[action |-> IF r.ok THEN "legacy" ELSE "fatal", g |-> r.g, h |-> r.h]
        : r \in FallbackToLegacy(g, h)}

UpdateHook(g, h, call) ==
  LET shadowed == Commit(g, call)
      advanced == {[action |-> IF r.ok THEN "suppress" ELSE "fatal",
                    g |-> IF r.ok THEN r.g ELSE Failed(r.g), h |-> r.h]
                   : r \in MaybeAdvance(shadowed, h, g.learned)}
  IN IF g.failed THEN {[action |-> "fatal", g |-> g, h |-> h]}
     ELSE IF g.early # NoEarly
     THEN {[action |-> IF r.ok THEN "legacy" ELSE "fatal", g |-> r.g, h |-> r.h]
           : r \in FallbackToLegacy(g, h)}
     ELSE IF g.stage = "Legacy" THEN {[action |-> "legacy", g |-> g, h |-> h]}
     ELSE UpdateFailure(g, h) \cup     \* a type or structure it does not support
          IF ~Plannable(g, call) THEN {}
          ELSE IF g.stage = "Detect" THEN {[action |-> "legacy", g |-> shadowed, h |-> h]}
          ELSE IF g.stage = "Fast" THEN advanced
          ELSE {[action |-> "suppress", g |-> shadowed, h |-> h]}

-----------------------------------------------------------------------------
(* vkQueueSubmit.  The gate: "plain" (the submit goes out as it is),       *)
(* "drained" (it goes out after the fallback and still holds the gate),    *)
(* "routed" (its frontier is at the host) or "blocked" (it does not go).   *)

Blocked(g, H) == {[gate |-> "blocked", g |-> Failed(g), h |-> x] : x \in H}

\* PrepareFallbackLegacySubmitLocked
DrainedSubmit(g, h) ==
  {[gate |-> IF r.ok THEN "drained" ELSE "blocked", h |-> r.h,
    g |-> IF r.ok THEN [r.g EXCEPT !.active.kind = "drained"] ELSE r.g]
   : r \in FallbackToLegacy(g, h)}

Active(g, kind, F, consumed) ==
  [g EXCEPT !.active = [kind |-> kind, frontier |-> Ids(F), consumed |-> consumed]]

DetectSubmit(g, h) ==
  LET cleared == ClearOccurrence(g)
  IN     {[gate |-> "plain", g |-> x, h |-> h]
          : x \in {cleared, [cleared EXCEPT !.stage = "Learn"], EnterLegacy(g)}}
    \cup Blocked(cleared, Faulty({h}))

\* What is left of an early route goes out if this is the submission it was
\* made for.
CompleteEarlyRoute(g, h, c) ==
  LET F == Frontier(g, g.binds[c])
      exact == /\ g.early = [cmd |-> c, frontier |-> Ids(F), consumed |-> g.binds[c]]
               /\ ~Oversized(g, c)
      after(a) ==
        IF a.reply = "accepted"
        THEN {[gate |-> "routed", h |-> a.h,
               g |-> Active([a.g EXCEPT !.early = NoEarly], "Fast", F, g.binds[c])]}
        ELSE DrainedSubmit(a.g, a.h)
  IN DrainedSubmit(g, h) \cup
     IF exact THEN UNION {after(a) : a \in RouteChunks(g, h, {r \in F : ~r.released})} ELSE {}

\* A submission with more units than a period may have fails the device.
NormalRoute(g, h, c) ==
  LET F == Frontier(g, g.binds[c])
      after(a) ==
        CASE a.reply = "accepted" ->
               {[gate |-> "routed", g |-> Active(a.g, g.stage, F, g.binds[c]), h |-> a.h]}
          [] a.reply = "refused" -> DrainedSubmit(a.g, a.h)
          [] a.reply = "invalid" -> Blocked(a.g, {a.h})
  IN IF Oversized(g, c) THEN Blocked(g, {h})
     ELSE UNION {after(a) : a \in RouteChunks(g, h, F)}

\* fault: only the sets of this submission
ReplayedConsumed(g, c) == g.binds[c]
\* Every valid slot of the sets this submission and the pending records
\* concern is routed again, under new ids.
Replayed(g, c) == g.binds[c] \cup {SetOf[r.slot] : r \in g.records}
Valid(g, S) == {k \in Slots : SetOf[k] \in S /\ g.value[k] # None}

CanRebuild(g, S) ==
  /\ \A r \in g.records : MatchesSlot(g, r)
  /\ S \subseteq g.sets
  /\ Cardinality(Valid(g, S)) <= MaxRecords
  /\ g.nextId + Cardinality(Valid(g, S)) < LastId

Rebuilt(g, S) ==
  LET K == Valid(g, S)
      id == CHOOSE f \in [K -> g.nextId .. g.nextId + Cardinality(K) - 1] :
              \A j, k \in K : j # k => f[j] # f[k]
  IN [g EXCEPT !.records = {[id |-> id[k], slot |-> k, val |-> g.value[k], released |-> FALSE]
                            : k \in K},
               !.link = [k \in Slots |-> IF k \in K THEN id[k] ELSE 0],
               !.nextId = @ + Cardinality(K)]

RecoveryRoute(g, h, c) ==
  LET S == Replayed(g, c)
      n == Rebuilt(g, S)
      after(a) ==
        IF a.reply = "accepted"
        THEN {[gate |-> "routed", h |-> a.h,
               g |-> Active(Release(n, n.records), "Recovery", n.records, S)]}
        ELSE DrainedSubmit(n, a.h)
  IN IF ~CanRebuild(g, S) THEN DrainedSubmit(g, h)
     ELSE IF Oversized(g, c) THEN Blocked(n, {h})
     ELSE Blocked(n, Faulty({h})) \cup UNION {after(a) : a \in Route(h, n.records)}

\* ProtocolBeforeSubmitLocked.  Before anything else what is clustered goes out and
\* the control page is read: a page that a writer holds in eight looks fails too.
BeforeSubmit(g, h, c) ==
  CASE g.stage = "Legacy" -> {[gate |-> "plain", g |-> g, h |-> h]}
    [] g.failed /\ g.stage # "Legacy" -> Blocked(g, {h})
    [] ~g.failed /\ g.stage # "Legacy" ->
         Blocked(g, Faulty({h})) \cup
         IF g.stage = "Detect" THEN DetectSubmit(g, h)
         ELSE DrainedSubmit(g, h) \cup       \* opaque, no dispatch, not assembled
              IF g.early # NoEarly THEN CompleteEarlyRoute(g, h, c)
                                   ELSE NormalRoute(g, h, c) \cup RecoveryRoute(g, h, c)

\* fault: the records go with the occurrence
RetainedNone(g) == {}
\* RetireActiveFrontierLocked: the frontier of the submission is done, what
\* it did not consume stays pending.
Retained(g) == {r \in g.records : r.id \notin g.active.frontier /\ ~r.released}

CanRetire(g) ==
  LET done == {r \in g.records : r.id \in g.active.frontier}
  IN /\ Ids(done) = g.active.frontier
     /\ \A r \in done : r.released /\ SetOf[r.slot] \in g.active.consumed
     /\ \A r \in Retained(g) : MatchesSlot(g, r)

Retire(g) ==
  [g EXCEPT !.records = Retained(g),
            !.link = [k \in Slots |-> IF \E r \in Retained(g) : r.slot = k THEN @[k] ELSE 0]]

\* FlimeShadowVerifyRecoveryCheckpoint, routed
Verified(g) ==
  /\ Ids(g.records) = g.active.frontier /\ g.link = Unlinked
  /\ \A r \in g.records : r.released /\ g.value[r.slot] = r.val
  /\ {r.slot : r \in g.records} = Valid(g, g.active.consumed)

AfterRecovery(g, h) ==
  LET leave == {[g |-> IF r.ok THEN r.g ELSE ClearActive(r.g), h |-> r.h]
                : r \in FallbackToLegacy(ClearActive(g), h)}
      retired == ClearActive(Retire(g))
      refused == UNION {{[g |-> IF r.ok THEN r.g ELSE ClearActive(r.g), h |-> r.h]
                         : r \in FallbackToLegacy(retired, x)} : x \in Faulty({h})}
  IN IF ~(Verified(g) /\ CanRetire(g) /\ Retained(g) = {}) THEN leave
     ELSE refused \cup
          {[g |-> [retired EXCEPT !.stage = "Detect", !.learned = None, !.early = NoEarly], h |-> h]}

AfterPeriod(g, h, c) ==
  LET kind == g.active.kind
      done == ClearActive(Retire(g))
  IN {[g |-> Failed(ClearActive(g)), h |-> x] : x \in Faulty({h})} \cup
     IF ~CanRetire(g) THEN {[g |-> Failed(ClearActive(g)), h |-> h]}
     ELSE {[h |-> h, g |-> [done EXCEPT !.stage = IF kind = "Learn" THEN "Match" ELSE "Fast",
                                        !.learned = IF kind = "Fast" THEN @ ELSE c]]}

AfterSubmit(g, h, c, gate, ok) ==
  CASE gate = "plain" -> {[g |-> g, h |-> h]}
    [] gate = "drained" \/ (gate = "routed" /\ ~ok) ->
         {[g |-> IF ok THEN ClearActive(g) ELSE Failed(ClearActive(g)), h |-> h]}
    [] gate = "routed" /\ ok /\ g.active.kind = "Recovery" -> AfterRecovery(g, h)
    [] gate = "routed" /\ ok /\ g.active.kind # "Recovery" -> AfterPeriod(g, h, c)

-----------------------------------------------------------------------------
(* The application.  It keeps to Vulkan's rules: handles are not used      *)
(* after they were given up or by two calls at once, and a set is not      *)
(* changed while a submission that reads it is under way.                  *)

Lifecycle == {"update", "free", "allocate", "destroy"}
Reserved == \E t \in Threads : pc[t].op \in Lifecycle
\* Bound: handles are given up and taken while the device has not failed.
\* Updates and recordings go on in Legacy, and where an early route is left to
\* drain, which ends in Legacy; otherwise a failed device only refuses them.
Healthy == ~guest.failed
Usable == guest.failed => guest.stage = "Legacy" \/ guest.early # NoEarly
NotUsed(S) == \A t \in Threads : pc[t].sets \cap S = {}

Sensible(call) ==
  \A i \in DOMAIN call :
    /\ SetOf[call[i].dst] \in app.sets
    /\ IF call[i].src \in Slots
       THEN /\ SetOf[call[i].src] \in app.sets
            /\ Staged(app.content, call)[i - 1][call[i].src] # None
       ELSE call[i].src \in app.buffers

SetsOfSlots(K) == {SetOf[k] : k \in K}
Without(v, S) == [k \in Slots |-> IF SetOf[k] \in S THEN None ELSE v[k]]

At(t, op, at) == pc[t].op = op /\ pc[t].at = at
Goto(t, at) == pc' = [pc EXCEPT ![t].at = at]
Return(t) == pc' = [pc EXCEPT ![t] = Idle]

\* FlimeGuestBeforeDescriptorLifecycle: a reservation is made even when the
\* early route could not be drained.
Reserve(t, call) ==
  /\ pc[t] = Idle
  /\ guest.active.kind = "none"
  /\ \E r \in DrainEarlyRoute(guest, host) : guest' = r.g /\ host' = r.h
  /\ pc' = [pc EXCEPT ![t] = call]

\* What the host does in the raw call of a lifecycle operation.
Done(h, call) ==
  CASE call.op = "update" -> [h EXCEPT !.content = Overlay(@, call.call)]
    [] call.op = "free" -> [h EXCEPT !.sets = @ \ {call.set}]
    [] call.op = "allocate" ->
         [h EXCEPT !.sets = @ \cup {call.set},
                   !.content = [k \in Slots |-> IF SetOf[k] = call.set THEN None ELSE @[k]]]
    [] call.op = "destroy" -> [h EXCEPT !.buffers = @ \ {call.buf}]

\* That call through FlimeGuestWrite: an early route goes first, and the call
\* may go wrong.
RawWrite(call, early) ==
  UNION {IF ~r.ok THEN {[r EXCEPT !.g = Failed(r.g)]}
         ELSE {[r EXCEPT !.h = Done(r.h, call)]} \cup
              {[ok |-> FALSE, g |-> Failed(r.g), h |-> x] : x \in Faulty({r.h, Done(r.h, call)})}
         : r \in early}

NoDrain == {[ok |-> TRUE, g |-> guest, h |-> host]}

\* What the application wrote, and what the host must have of it: nothing of an
\* update that was refused or went wrong, nor of one that copies from such a slot.
Returned(call, ok) ==
  app' = [app EXCEPT !.content = Overlay(@, call),
                     !.known = IF ok THEN Overlay(@, call)
                               ELSE [k \in Slots |-> IF k \in Written(call) THEN None
                                                                           ELSE @[k]]]

StartUpdate(t, call) ==
  LET S == SetsOfSlots(Written(call) \cup Copied(call))
  IN /\ Usable /\ Sensible(call) /\ NotUsed(S)
     /\ Reserve(t, [op |-> "update", at |-> "hook", call |-> call, sets |-> S,
                    bufs |-> {Overlay(app.content, call)[k] : k \in Written(call)}])
     /\ UNCHANGED app

\* FlimeGuestUpdateDescriptorSets
UpdateDescriptorSets(t) ==
  /\ At(t, "update", "hook")
  /\ \E r \in UpdateHook(guest, host, pc[t].call) :
       /\ guest' = r.g /\ host' = r.h
       /\ IF r.action = "legacy" THEN Goto(t, "rpc") /\ UNCHANGED app
          ELSE Return(t) /\ Returned(pc[t].call, r.action = "suppress")

UpdateRpc(t) ==
  /\ At(t, "update", "rpc")
  /\ \E r \in RawWrite(pc[t], DrainEarlyRoute(guest, host)) :
       guest' = r.g /\ host' = r.h /\ Returned(pc[t].call, r.ok)
  /\ Return(t)

StartFree(t, s) ==
  /\ Healthy /\ s \in app.sets /\ NotUsed({s})
  /\ Reserve(t, [op |-> "free", at |-> "prepare", set |-> s, sets |-> {s}, bufs |-> {}])
  /\ app' = [app EXCEPT !.sets = @ \ {s},
                        !.content = Without(@, {s}), !.known = Without(@, {s}),
                        !.ready = {c \in @ : s \notin guest.binds[c]}]

\* FlimeGuestPrepareDescriptorRetirement; when it fails nothing is sent.
Prepare(t) ==
  /\ pc[t].at = "prepare"
  /\ \E r \in PrepareRetirement(guest, host) :
       /\ guest' = (IF r.ok THEN r.g ELSE Failed(r.g)) /\ host' = r.h
       /\ IF r.ok THEN Goto(t, IF pc[t].op = "free" THEN "rpc" ELSE "payload") ELSE Return(t)
  /\ UNCHANGED app

FreeRpc(t) ==
  /\ At(t, "free", "rpc")
  /\ \E r \in RawWrite(pc[t], NoDrain) :
       /\ guest' = r.g /\ host' = r.h
       /\ IF r.ok THEN Goto(t, "hook") ELSE Return(t)
  /\ UNCHANGED app

\* FlimeGuestFreeDescriptorSets
FreeDescriptorSets(t) ==
  /\ At(t, "free", "hook")
  /\ \E r \in DrainEarlyRoute(guest, host) :
       guest' = FreeSets(r.g, pc[t].set) /\ host' = r.h
  /\ Return(t)
  /\ UNCHANGED app

StartAllocate(t, s) ==
  /\ Healthy /\ s \notin app.sets \cup host.sets \cup guest.sets /\ NotUsed({s})
  /\ Reserve(t, [op |-> "allocate", at |-> "rpc", set |-> s, sets |-> {s}, bufs |-> {}])
  /\ UNCHANGED app

AllocateRpc(t) ==
  /\ At(t, "allocate", "rpc")
  /\ \E r \in RawWrite(pc[t], DrainEarlyRoute(guest, host)) :
       /\ guest' = r.g /\ host' = r.h
       /\ IF r.ok THEN Goto(t, "hook") ELSE Return(t)
  /\ UNCHANGED app

\* FlimeGuestAllocateDescriptorSets
AllocateDescriptorSets(t) ==
  /\ At(t, "allocate", "hook")
  /\ guest' = [guest EXCEPT !.sets = @ \cup {pc[t].set}]
  /\ app' = [app EXCEPT !.sets = @ \cup {pc[t].set}]
  /\ Return(t)
  /\ UNCHANGED host

StartDestroy(t, b) ==
  /\ Healthy /\ b \in app.buffers
  /\ \A u \in Threads : b \notin pc[u].bufs
  /\ Reserve(t, [op |-> "destroy", at |-> "prepare", buf |-> b, sets |-> {}, bufs |-> {b}])
  /\ LET forget(v) == [k \in Slots |-> IF v[k] = b THEN None ELSE v[k]]
     IN app' = [app EXCEPT !.buffers = @ \ {b}, !.content = forget(@), !.known = forget(@)]

\* FlimeGuestDestroyDescriptorPayload
DestroyDescriptorPayload(t) ==
  /\ At(t, "destroy", "payload")
  /\ guest' = InvalidatePayload(guest, pc[t].buf)
  /\ Goto(t, "rpc")
  /\ UNCHANGED <<host, app>>

DestroyRpc(t) ==
  /\ At(t, "destroy", "rpc")
  /\ \E r \in RawWrite(pc[t], DrainEarlyRoute(guest, host)) : guest' = r.g /\ host' = r.h
  /\ Return(t)
  /\ UNCHANGED app

-----------------------------------------------------------------------------
(* Command buffers.  The raw calls drain an early route; the hooks behind  *)
(* them are taken with them.                                               *)

Submitting(c) == \E t \in Threads : pc[t].op = "submit" /\ pc[t].cmd = c

BeginCommandBuffer(t, c) ==
  /\ pc[t] = Idle /\ Usable /\ c \in guest.executable /\ ~Submitting(c)
  /\ \E r \in DrainEarlyRoute(guest, host) :
       /\ host' = r.h
       /\ guest' = IF r.ok THEN [r.g EXCEPT !.executable = @ \ {c}, !.binds[c] = {}, !.units[c] = 0]
                           ELSE r.g
       /\ app' = [app EXCEPT !.ready = IF r.ok THEN @ \ {c} ELSE @]
  /\ UNCHANGED pc

\* Ends the recording of a command buffer.
EndCommandBuffer(t, c, shape) ==
  LET advance(g, h) == {IF a.ok THEN a ELSE [a EXCEPT !.g = Failed(a.g)] : a \in MaybeAdvance(g, h, c)}
      recorded(g) == [g EXCEPT !.executable = @ \cup {c}, !.binds[c] = shape.sets,
                               !.units[c] = shape.units]
  IN /\ pc[t] = Idle /\ Usable /\ c \notin guest.executable /\ shape.sets \subseteq app.sets
     /\ \E r \in DrainEarlyRoute(guest, host) :
          IF ~r.ok THEN guest' = r.g /\ host' = r.h /\ UNCHANGED app
          ELSE /\ \E a \in advance(recorded(r.g), r.h) : guest' = a.g /\ host' = a.h
               /\ app' = [app EXCEPT !.ready = @ \cup {c}]
     /\ UNCHANGED pc

\* RecordCommandCallLocked, FlimeGuestCmdExecuteCommands: a command FLIME knows by
\* name, in a recording that is full.  It is not sent, and the device fails; an
\* early route only ends.
NamedCommandTooMany(g, h) ==
  IF g.failed \/ g.early = NoEarly THEN {[ok |-> FALSE, g |-> Failed(g), h |-> h]}
  ELSE DrainEarlyRoute(g, h)

\* FlimeGuestWriteCommand: any other command there ends Detect or specialized mode.
OtherCommandTooMany(g, h) ==
  IF g.stage = "Detect" THEN {[ok |-> TRUE, g |-> EnterLegacy(g), h |-> h]}
  ELSE FallbackToLegacy(g, h)

\* The device failed at one call, and no RPC was sent in it that went wrong.  The
\* first such cause is noted: an opaque command, or another legal call.
Because(cause, r) ==
  [app EXCEPT !.causes = IF r.g.failed /\ r.h = host /\ @ = {} THEN {cause} ELSE @]

\* One command more than AppendSemantic keeps of a recording: kMaxSemanticCalls, or
\* kMaxTemplateBytes of them.
RecordTooMany(t, c) ==
  /\ pc[t] = Idle /\ Usable /\ guest.stage # "Legacy" /\ c \notin guest.executable
  /\ \E r \in NamedCommandTooMany(guest, host) \cup OtherCommandTooMany(guest, host) :
       guest' = r.g /\ host' = r.h /\ app' = Because("legal", r)
  /\ UNCHANGED pc

\* FlimeGuestFreeCommandBuffers with a null handle, which Vulkan ignores: a
\* specialized guest takes it for one it lost.  (Its RPC changes nothing.)
FreeNullHandle(t) ==
  /\ pc[t] = Idle /\ Healthy /\ Specialized(guest) /\ guest.active.kind = "none"
  /\ \E d \in DrainEarlyRoute(guest, host) :
       LET r == [d EXCEPT !.g = IF Specialized(d.g) THEN Failed(d.g) ELSE d.g]
       IN guest' = r.g /\ host' = r.h /\ app' = Because("legal", r)
  /\ UNCHANGED pc

\* FlimeGuestWriteCommand of a command outside the audited list (vkCmdDraw):
\* specialized mode ends before it is sent, or it is not sent.
OpaqueCommand(t) ==
  /\ pc[t] = Idle /\ Specialized(guest)
  /\ \E r \in FallbackToLegacy(guest, host) :
       guest' = r.g /\ host' = r.h /\ app' = Because("opaque", r)
  /\ UNCHANGED pc

\* FlimeGuestBeforeQueueSubmit
Submit(t, c) ==
  /\ pc[t] = Idle
  /\ guest.active.kind = "none" /\ ~Reserved
  /\ c \in app.ready /\ NotUsed(guest.binds[c])
  /\ \A u \in Threads : pc[u].op # "submit"
  /\ \E r \in BeforeSubmit(guest, host, c) :
       /\ guest' = r.g /\ host' = r.h
       /\ app' = IF Specialized(guest) /\ Oversized(guest, c) THEN Because("legal", r) ELSE app
       /\ pc' = IF r.gate = "blocked" THEN pc
                ELSE [pc EXCEPT ![t] =
                        [op |-> "submit", at |-> "rpc", cmd |-> c, gate |-> r.gate,
                         sets |-> guest.binds[c],
                         bufs |-> {app.content[k] : k \in {j \in Slots : SetOf[j] \in guest.binds[c]}}]]

\* The submit's RPC, which may go wrong, and FlimeGuestAfterQueueSubmit
SubmitReturns(t) ==
  /\ pc[t].op = "submit"
  /\ \E o \in {[ok |-> TRUE, h |-> host]} \cup {[ok |-> FALSE, h |-> x] : x \in Faulty({host})} :
       \E r \in AfterSubmit(guest, o.h, pc[t].cmd, pc[t].gate, o.ok) : guest' = r.g /\ host' = r.h
  /\ Return(t)
  /\ UNCHANGED app

Next ==
  \E t \in Threads :
    \/ \E call \in Calls : StartUpdate(t, call)
    \/ UpdateDescriptorSets(t) \/ UpdateRpc(t)
    \/ \E s \in Sets : StartFree(t, s) \/ StartAllocate(t, s)
    \/ Prepare(t)
    \/ FreeRpc(t) \/ FreeDescriptorSets(t)
    \/ AllocateRpc(t) \/ AllocateDescriptorSets(t)
    \/ \E b \in Buffers : StartDestroy(t, b)
    \/ DestroyDescriptorPayload(t) \/ DestroyRpc(t)
    \/ \E c \in Cmds : \/ BeginCommandBuffer(t, c) \/ Submit(t, c)
                       \/ RecordTooMany(t, c)
                       \/ \E shape \in Shapes[c] : EndCommandBuffer(t, c, shape)
    \/ FreeNullHandle(t) \/ OpaqueCommand(t) \/ SubmitReturns(t)

Spec == Init /\ [][Next]_vars

-----------------------------------------------------------------------------
(* Properties *)

\* What the GPU runs sees every descriptor update the application made before
\* the submission, in whichever way it got to the host - except one whose own
\* call was refused or went wrong, or that copies what such a call left behind.
\* (The submit gate, the frontier, the early route, recovery, fallback and the
\* raw calls together.)
RunsOnLatest ==
  \A t \in Threads : pc[t].op = "submit" =>
    \A k \in Slots :
      SetOf[k] \in guest.binds[pc[t].cmd] /\ app.known[k] # None =>
        host.content[k] = app.known[k]

\* While the guest is not in Legacy, the shadow is what the application wrote,
\* and a value the host does not have yet is in exactly one pending record
\* that its slot is linked to.  (Commit, release, retirement, invalidation.)
NothingLost ==
  guest.stage # "Legacy" /\ ~guest.failed =>
    \A k \in Slots :
      NotUsed({SetOf[k]}) /\ app.content[k] # None =>
        /\ guest.value[k] = app.content[k]
        /\ host.content[k] # guest.value[k] =>
             Cardinality({r \in guest.records : MatchesSlot(guest, r) /\ r.slot = k}) = 1

\* The device fails only when a call really went wrong (a control page that could
\* not be read is counted with those), or when the application itself did one of
\* four things: it submitted, to a specialized guest, a command buffer of more
\* units than were negotiated; it recorded more commands than a recording holds;
\* it gave back a null command buffer; or it recorded the command of
\* OpaqueRunsOnce.  Whatever else is modelled here, in any order and on any
\* thread, the guest never sends handles that are gone, gives back records it
\* cannot account for, or falls back when it must not.
FailsOnlyOnFault == guest.failed => host.faults > 0 \/ app.causes # {}

\* "Drain the exact retained ledger synchronously before the opaque native
\* command is sent, then execute it once in Legacy"
\* (express_vk_flime_guest.cpp:188): such a command is sent when no call went
\* wrong.  It is not when another thread's submission is under way.
OpaqueRunsOnce == "opaque" \notin app.causes
=============================================================================
