------------------------------ MODULE PlanExchange ------------------------------
(***************************************************************************)
(* The life of a plan between the guest, the host session and the planner  *)
(* thread of the bridge: profiled periods make a plan due, the planner     *)
(* computes and publishes it, the guest reads it from the control page,    *)
(* acknowledges it with a PERIOD_BEGIN and routes by it, and a mismatch    *)
(* throws it away.                                                         *)
(*                                                                         *)
(* A packet is two steps: the host handles it, then the guest returns from *)
(* the call and reads the page.  The guest does nothing in between; the    *)
(* planner does.  An answered packet is told from a refused one, as        *)
(* SendControlLocked means to (ControlPage shows where it does not).  The  *)
(* ledger and the submit gate are in FlimeBridge; here a routed submission *)
(* is committed.  A template and its units are a member of Shapes, and a   *)
(* plan is its chunk count.                                                *)
(***************************************************************************)
EXTENDS Integers

CONSTANTS Shapes,           \* templates an application may submit
          ReplanPeriods,    \* negotiated replan_periods
          InitialProfiles,  \* EXPRESS_VK_FLIME_PAPER_INITIAL_FAST_PROFILES
          MaxChunks,        \* negotiated max_chunks
          MaxPeriods        \* bound: periods the guest begins

ASSUME PlanExchangeAssumption ==
  /\ ReplanPeriods \in Nat \ {0} /\ InitialProfiles \in Nat \ {0}
  /\ MaxChunks \in Nat \ {0} /\ MaxPeriods \in Nat \ {0}

VARIABLES core,     \* the host session
          page,     \* the last plan message on the page
          planner,  \* the planner thread
          guest,    \* DeviceState
          sub,      \* the occurrence the guest is submitting
          reply     \* the host's answer to the packet in flight
vars == <<core, page, planner, guest, sub, reply>>

None == "none"
NoPlan == [epoch |-> 0, apply |-> 0, shape |-> None, chunks |-> 0]

Specialized == {"Learn", "Match", "Fast"}
SingleFine == {"SINGLE", "FINE"}

NewCore(last, epoch) ==
  [stage |-> "Detect", open |-> FALSE, last |-> last, flags |-> {},
   active |-> NoPlan, pending |-> NoPlan, ack |-> [epoch |-> 0, period |-> 0],
   stable |-> 0, profiles |-> 0, due |-> FALSE, apply |-> 0, est |-> None,
   next_plan_epoch |-> epoch]

NewGuest(next) ==
  [stage |-> "Detect", at |-> "idle", next |-> next, template |-> None,
   plan |-> NoPlan, fine |-> TRUE, acked |-> 0]

NoSub == [id |-> 0, shape |-> None, flags |-> {}, ack |-> 0, epoch |-> 0,
          chunks |-> 0, recovery |-> FALSE, early |-> FALSE]
NoPlanner == [at |-> "idle", apply |-> 0, shape |-> None, current |-> FALSE]

Published(c) == c.pending # NoPlan \/ c.active # NoPlan
Selected(c, id) ==
  \/ c.active # NoPlan
  \/ /\ c.pending # NoPlan
     /\ c.ack = [epoch |-> c.pending.epoch, period |-> id]
FineDue(c) == Published(c) => c.stable = ReplanPeriods - 1

\* encode_control: the pending plan if there is one
Message(c) ==
  [plan |-> IF c.pending # NoPlan THEN c.pending ELSE c.active, fine |-> FineDue(c)]

Init ==
  /\ core = NewCore(0, 0) /\ page = Message(core)
  /\ planner = NoPlanner /\ guest = NewGuest(1) /\ sub = NoSub /\ reply = None

Larger(a, b) == IF a >= b THEN a ELSE b

-----------------------------------------------------------------------------
(* The host.  A packet is handled under the bridge lock: the core takes it  *)
(* and the page is written, or it is refused.                               *)

Recovering(c) == [c EXCEPT !.stage = "Recover"]

Accept(c) ==
  /\ core' = c /\ page' = Message(c) /\ reply' = "accepted"
  /\ UNCHANGED <<guest, sub>>

\* The core forces Legacy, or Recover first if its ledger owes something; the
\* page is not written.
Legacy(c) == [NewCore(0, c.next_plan_epoch) EXCEPT !.stage = "Legacy"]
Refuse ==
  /\ core' \in {Recovering(core), Legacy(core)} /\ reply' = "refused"
  /\ planner' = [planner EXCEPT !.current = FALSE]
  /\ UNCHANGED <<page, guest, sub>>

Sent(kind) == guest.at = kind /\ reply = None

AckOK ==
  sub.ack # 0 => /\ core.pending.epoch = sub.ack
                 /\ sub.id >= core.pending.apply /\ sub.id > core.last
\* fault: an acknowledgement leaves the period the plan was computed for
AcknowledgedEarly(c) ==
  IF sub.ack = 0 THEN c
  ELSE [c EXCEPT !.ack = [epoch |-> sub.ack, period |-> c.pending.apply]]
Acknowledged(c) ==
  IF sub.ack = 0 THEN c
  ELSE [c EXCEPT !.ack = [epoch |-> sub.ack, period |-> sub.id],
                 !.pending.apply = sub.id]

BeginOK(c) ==
  /\ c.stage \in Specialized /\ ~c.open /\ sub.id > c.last
  /\ "STABLE" \in sub.flags => c.stage = "Fast"
  /\ c.stage = "Fast" /\ Selected(c, sub.id) => "STABLE" \in sub.flags
  /\ FineDue(c) => "FINE" \in sub.flags
  /\ ~Published(c) => "SINGLE" \in sub.flags

Installed(c) ==
  IF /\ c.pending # NoPlan /\ c.pending.apply = sub.id
     /\ c.ack = [epoch |-> c.pending.epoch, period |-> sub.id]
  THEN [c EXCEPT !.active = c.pending, !.pending = NoPlan] ELSE c

HostBegin ==
  /\ Sent("begin")
  /\ LET c == Acknowledged(core)
     IN IF AckOK /\ BeginOK(c)
        THEN /\ Accept([Installed(c) EXCEPT !.open = TRUE, !.last = sub.id,
                                            !.flags = sub.flags])
             /\ UNCHANGED planner
        ELSE Refuse

HostMismatch ==
  /\ Sent("mismatch")
  /\ IF core.stage \in Specialized
     THEN Accept(Recovering(core)) /\ UNCHANGED planner
     ELSE Refuse

\* flime_validate_route_plan_locked with the period and shape checks before it
RouteOK ==
  IF sub.recovery THEN core.stage = "Recover" /\ core.last = sub.id
  ELSE /\ core.open /\ core.last = sub.id
       /\ IF sub.epoch = 0
          THEN core.stage \in Specialized /\ "SINGLE" \in core.flags
          ELSE /\ core.stage = "Fast" /\ "SINGLE" \notin core.flags
               /\ core.active.epoch = sub.epoch /\ sub.id >= core.active.apply
               /\ core.active.shape = sub.shape /\ core.active.chunks = sub.chunks

\* Routes leave the core's plans and the page alone.
HostRoute ==
  /\ \/ Sent("route") \/ Sent("prefix")
  /\ IF RouteOK
     THEN reply' = "accepted" /\ UNCHANGED <<core, page, planner, guest, sub>>
     ELSE Refuse

\* period_end of a complete profile
ProfileEnded(c) ==
  LET fast == c.stage = "Fast"
      fine == "FINE" \in c.flags
      count == IF fast /\ ~Published(c) /\ c.profiles < InitialProfiles
               THEN c.profiles + 1 ELSE c.profiles
      replan == /\ fast
                /\ \/ ~Published(c) /\ count >= InitialProfiles
                   \/ Published(c) /\ fine
                   \/ "FORCE" \in c.flags
  IN [c EXCEPT !.open = FALSE, !.flags = {}, !.profiles = count,
               !.stable = IF "STABLE" \in c.flags THEN (@ + 1) % ReplanPeriods ELSE @,
               !.est = IF fast /\ fine THEN sub.shape ELSE @,
               !.due = @ \/ replan,
               !.apply = IF replan THEN c.last + 1 ELSE @]

HostProfile ==
  /\ Sent("profile")
  /\ IF core.open /\ core.last = sub.id
     THEN /\ Accept(ProfileEnded(core))
          /\ planner' = [planner EXCEPT !.current = @ /\ core.stage # "Fast"]
     ELSE Refuse

\* LEARN, MATCH and FAST_PERIOD_COMPLETE: the guest sends the one of its stage
NextStage(stage) == CASE stage = "Learn" -> "Match" [] OTHER -> "Fast"
HostComplete ==
  /\ Sent("complete")
  /\ IF core.stage = guest.stage /\ ~core.open /\ core.last = sub.id
     THEN Accept([core EXCEPT !.stage = NextStage(@)]) /\ UNCHANGED planner
     ELSE Refuse

\* fault: the plan of the old template stays due
ClearedKeepsDue(c) == [NewCore(c.last, c.next_plan_epoch) EXCEPT !.due = c.due]
Cleared(c) == NewCore(c.last, c.next_plan_epoch)
HostRecovered ==
  /\ Sent("recovered")
  /\ IF core.stage = "Recover"
     THEN /\ Accept(Cleared(core))
          /\ planner' = [planner EXCEPT !.current = FALSE]
     ELSE Refuse

-----------------------------------------------------------------------------
(* The planner thread, whenever a plan is due.                              *)

PlannerStart ==
  /\ planner.at = "idle" /\ core.due /\ core.pending = NoPlan
  /\ planner' = [at |-> "planning", apply |-> Larger(core.apply, core.last + 1),
                 shape |-> core.est, current |-> TRUE]
  /\ UNCHANGED <<core, page, guest, sub, reply>>

Installable(chunks) ==
  [epoch |-> core.next_plan_epoch + 1, apply |-> Larger(planner.apply, core.last + 1),
   shape |-> planner.shape, chunks |-> chunks]
StillWanted == core.due /\ core.pending = NoPlan /\ planner.current

PlannerInstall ==
  /\ planner.at = "planning" /\ StillWanted
  /\ \E chunks \in 1 .. MaxChunks :
       core' = [core EXCEPT !.pending = Installable(chunks), !.due = FALSE,
                            !.next_plan_epoch = @ + 1]
  /\ planner' = [NoPlanner EXCEPT !.at = "publishing"]
  /\ UNCHANGED <<page, guest, sub, reply>>

PlannerDiscards ==
  /\ planner.at = "planning" /\ ~StillWanted
  /\ planner' = NoPlanner
  /\ UNCHANGED <<core, page, guest, sub, reply>>

\* The page is written, or the publication is skipped: a packet scheduled the
\* planner again in the meantime (PlannerHandoff).
PlannerPublish ==
  /\ planner.at = "publishing"
  /\ page' = Message(core)
  /\ planner' = NoPlanner
  /\ UNCHANGED <<core, guest, sub, reply>>
PlannerSkips ==
  /\ planner.at = "publishing"
  /\ planner' = NoPlanner
  /\ UNCHANGED <<core, page, guest, sub, reply>>

\* The page could not be mapped.  A session in Detect or Legacy stays there.
DeliveryFailed ==
  /\ planner.at = "publishing"
  /\ core' = IF core.stage \in Specialized THEN Recovering(core) ELSE core
  /\ planner' = NoPlanner
  /\ UNCHANGED <<page, guest, sub, reply>>

-----------------------------------------------------------------------------
(* The guest.                                                              *)

Refreshed(g) == [g EXCEPT !.plan = page.plan, !.fine = page.fine]

\* Both sides meet in Learn: two equal interval signatures (IntervalDetector)
Announce ==
  /\ guest.at = "idle" /\ guest.stage = "Detect" /\ core.stage = "Detect"
  /\ core' = [core EXCEPT !.stage = "Learn"]
  /\ page' = Message(core')
  /\ guest' = [guest EXCEPT !.stage = "Learn", !.plan = page'.plan, !.fine = page'.fine]
  /\ UNCHANGED <<planner, sub, reply>>

Geometry(g, shape) ==
  g.stage = "Fast" /\ ~g.fine /\ g.plan # NoPlan /\ g.plan.shape = shape
PendingApplies(g, shape, id) ==
  Geometry(g, shape) /\ g.plan.epoch # g.acked /\ g.plan.apply <= id
AlreadyActive(g, shape) == Geometry(g, shape) /\ g.plan.epoch = g.acked
Planned(g, shape, id) == PendingApplies(g, shape, id) \/ AlreadyActive(g, shape)

\* A planned Fast profile keeps STABLE; one the host asked for forces a replan.
\* fault: a Fast profile without a plan in use is not marked stable
FineFlagsBare(g, recovery) ==
  SingleFine \cup (IF g.fine /\ g.stage = "Fast" /\ ~recovery THEN {"FORCE"} ELSE {})
FineFlags(g, recovery) ==
  SingleFine \cup (IF g.stage = "Fast" /\ g.plan # NoPlan THEN {"STABLE"} ELSE {})
             \cup (IF g.fine /\ g.stage = "Fast" /\ ~recovery THEN {"FORCE"} ELSE {})

BuildChunks(g, shape, mismatch, id) ==
  LET recovery == mismatch \/ (g.stage # "Learn" /\ shape # g.template)
      planned == Planned(g, shape, id) /\ ~recovery
  IN [id |-> id, shape |-> shape, early |-> FALSE, recovery |-> recovery,
      flags |-> IF planned THEN {"STABLE"} ELSE FineFlags(g, recovery),
      ack |-> IF planned /\ PendingApplies(g, shape, id) THEN g.plan.epoch ELSE 0,
      epoch |-> IF planned THEN g.plan.epoch ELSE 0,
      chunks |-> IF planned THEN g.plan.chunks ELSE 1]

\* ProtocolBeforeSubmit: any occurrence, the learned template or another, with
\* or without a mismatch noticed while it was recorded
BeforeSubmit ==
  /\ guest.at = "idle" /\ guest.stage \in Specialized /\ guest.next <= MaxPeriods
  /\ \E shape \in Shapes, mismatch \in BOOLEAN :
       sub' = BuildChunks(Refreshed(guest), shape, mismatch, guest.next)
  /\ guest' = [Refreshed(guest) EXCEPT !.at = "begin", !.next = @ + 1]
  /\ UNCHANGED <<core, page, planner, reply>>

\* MaybeAdvanceFastRoute: the command buffer of the learned occurrence is
\* complete before it is submitted; all chunks but the last go ahead.
EarlyRoute ==
  /\ guest.at = "idle" /\ guest.stage = "Fast" /\ guest.next <= MaxPeriods
  /\ AlreadyActive(guest, guest.template) /\ guest.plan.apply <= guest.next
  /\ guest.plan.chunks > 1
  /\ sub' = [BuildChunks(guest, guest.template, FALSE, guest.next) EXCEPT !.early = TRUE]
  /\ guest' = [guest EXCEPT !.at = "begin", !.next = @ + 1]
  /\ UNCHANGED <<core, page, planner, reply>>

\* CompleteEarlyRoute: the submit finds the plan it was routed by
Exact(g) ==
  /\ AlreadyActive(g, sub.shape) /\ g.plan.epoch = sub.epoch
  /\ g.plan.apply <= sub.id /\ g.plan.chunks = sub.chunks
CompleteEarlyRoute ==
  /\ guest.at = "early" /\ Exact(Refreshed(guest))
  /\ guest' = [Refreshed(guest) EXCEPT !.at = "route"]
  /\ UNCHANGED <<core, page, planner, sub, reply>>

\* What is owed is flushed, and the host ends the session.
FallbackToLegacy ==
  /\ guest' = [NewGuest(guest.next + 1) EXCEPT !.stage = "Legacy"]
  /\ core' = Legacy(core)
  /\ planner' = [planner EXCEPT !.current = FALSE]
  /\ sub' = NoSub /\ reply' = None
  /\ UNCHANGED page

\* An occurrence that cannot be routed, another one than was routed ahead, or a
\* plan published since
FallsBack ==
  guest.at \in {"idle", "early"} /\ guest.stage \in Specialized /\ FallbackToLegacy

\* The queue submission succeeded.
AfterSubmit ==
  /\ guest.at = "active"
  /\ guest' = [guest EXCEPT !.at = IF sub.recovery THEN "recovered" ELSE "profile"]
  /\ UNCHANGED <<core, page, planner, sub, reply>>

\* What follows an accepted packet
AfterBegin ==
  /\ guest.at = "begin"
  /\ guest' = [Refreshed(guest) EXCEPT
                 !.at = IF sub.recovery THEN "mismatch"
                        ELSE IF sub.early THEN "prefix" ELSE "route",
                 !.acked = IF sub.ack # 0 THEN sub.ack ELSE @]
  /\ UNCHANGED sub
AfterMismatch == guest.at = "mismatch" /\ guest' = [Refreshed(guest) EXCEPT !.at = "route"]
                 /\ UNCHANGED sub
AfterRoute ==
  /\ guest.at \in {"prefix", "route"}
  /\ guest' = [guest EXCEPT !.at = IF @ = "prefix" THEN "early" ELSE "active"]
  /\ UNCHANGED sub
AfterProfile == guest.at = "profile" /\ guest' = [Refreshed(guest) EXCEPT !.at = "complete"]
                /\ UNCHANGED sub
AfterComplete ==
  /\ guest.at = "complete"
  /\ guest' = [Refreshed(guest) EXCEPT
                 !.at = "idle", !.stage = NextStage(@),
                 !.template = IF guest.stage = "Learn" THEN sub.shape ELSE @]
  /\ sub' = NoSub
AfterRecovered ==
  /\ guest.at = "recovered" /\ guest' = NewGuest(guest.next) /\ sub' = NoSub

Returns ==
  /\ reply = "accepted" /\ reply' = None
  /\ \/ AfterBegin \/ AfterMismatch \/ AfterRoute
     \/ AfterProfile \/ AfterComplete \/ AfterRecovered
  /\ UNCHANGED <<core, page, planner>>

\* transport_failed: the device is not used any more
GivesUp ==
  /\ reply = "refused" /\ reply' = None
  /\ guest' = [guest EXCEPT !.at = "failed"]
  /\ UNCHANGED <<core, page, planner, sub>>
\* A refused route, early period or recovery is given up for the fallback flush.
RefusedFallsBack ==
  /\ reply = "refused"
  /\ guest.at \in {"prefix", "route", "recovered"} \/ (guest.at = "begin" /\ sub.early)
  /\ FallbackToLegacy

-----------------------------------------------------------------------------
HostStep == HostBegin \/ HostMismatch \/ HostRoute \/ HostProfile
              \/ HostComplete \/ HostRecovered
PlannerStep == PlannerStart \/ PlannerInstall \/ PlannerDiscards
                 \/ PlannerPublish \/ PlannerSkips \/ DeliveryFailed
GuestStep == Announce \/ BeforeSubmit \/ EarlyRoute \/ CompleteEarlyRoute
               \/ FallsBack \/ AfterSubmit \/ Returns
               \/ GivesUp \/ RefusedFallsBack
Next == HostStep \/ PlannerStep \/ GuestStep
Spec == Init /\ [][Next]_vars

-----------------------------------------------------------------------------
\* The stage the guest takes the session to be in
Believed ==
  IF sub.recovery /\ guest.at \in {"route", "active", "recovered"}
  THEN "Recover" ELSE guest.stage

\* The host refuses nothing the guest sends unless it left the guest's stage on
\* its own, whatever the planner does between the guest's look at the page and
\* the packet's arrival: the flags of a period, the acknowledgement of a plan
\* and the plan a route names are acceptable when they get there.
NothingRefused == [][reply' = "refused" => core.stage # Believed]_vars

\* A plan belongs to the template in use: none is due, being installed, pending,
\* active or held by the guest for a template that was given up.
PlanOfThisTemplate ==
  LET plans == {core.active, core.pending} \ {NoPlan}
  IN /\ guest.stage \notin {"Fast", "Legacy"} => plans = {} /\ ~core.due
     /\ \A p \in plans : p.shape = guest.template
     /\ core.due => core.est = guest.template
     /\ guest.stage = "Fast" /\ guest.plan # NoPlan => guest.plan.shape = guest.template

\* A published plan is taken up soon: the guest may have begun a period before
\* it was published and may owe a fine profile, and no more until the template
\* is given up.
PlanTakenUpSoon ==
  core.stage = "Fast" /\ core.pending # NoPlan /\ ~sub.recovery =>
    core.last <= core.pending.apply + 1
=============================================================================
