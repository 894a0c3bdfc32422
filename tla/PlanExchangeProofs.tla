--------------------------- MODULE PlanExchangeProofs ---------------------------
(***************************************************************************)
(* No plan outlives its template, the host refuses nothing while the two   *)
(* sides share a stage, and a published plan is taken up soon: for any     *)
(* number of periods, templates and chunks.                                *)
(*                                                                         *)
(* The first argument (IInv).  Whatever is due, pending, active or on the *)
(* page is of the guest's template, and exists only while the guest is in  *)
(* Fast.  The two stages differ only while an answer is under way.  A plan *)
(* becomes due at the end of a Fast profile, and only of a fine one, whose *)
(* occurrence the guest has compared with the template; so the cost the    *)
(* planner reads is of that template.  Each way out of the template leaves *)
(* the core empty and the planner's result unwanted.  The second (Ready)   *)
(* and the third (Waiting) are told where they begin.                      *)
(***************************************************************************)
EXTENDS PlanExchange, TLAPS

Names == Shapes \cup {None}
Flags == {"SINGLE", "FINE", "STABLE", "FORCE"}
PlanType == [epoch : Nat, apply : Nat, shape : Names, chunks : Nat]
CoreType ==
  [stage : Specialized \cup {"Detect", "Recover", "Legacy"}, open : BOOLEAN, last : Nat,
   flags : SUBSET Flags, active : PlanType, pending : PlanType,
   ack : [epoch : Nat, period : Nat], stable : Nat, profiles : Nat, due : BOOLEAN,
   apply : Nat, est : Names, next_plan_epoch : Nat]
InFlight == {"begin", "mismatch", "prefix", "early", "route", "active", "profile",
             "complete", "recovered"}
GuestType ==
  [stage : Specialized \cup {"Detect", "Legacy"}, at : InFlight \cup {"idle", "failed"},
   next : Nat, template : Names, plan : PlanType, fine : BOOLEAN, acked : Nat]
SubType == [id : Nat, shape : Names, flags : SUBSET Flags, ack : Nat, epoch : Nat,
            chunks : Nat, recovery : BOOLEAN, early : BOOLEAN]
PlannerType == [at : {"idle", "planning", "publishing"}, apply : Nat, shape : Names,
                current : BOOLEAN]
PageType == [plan : PlanType, fine : BOOLEAN]

Typed ==
  /\ core \in CoreType /\ page \in PageType /\ planner \in PlannerType
  /\ guest \in GuestType /\ sub \in SubType
  /\ reply \in {None, "accepted", "refused"}

\* Plans of the core, due or made, are of the guest's template, in Fast
CorePlans ==
  /\ core.active # NoPlan => guest.stage = "Fast" /\ core.active.shape = guest.template
  /\ core.pending # NoPlan => guest.stage = "Fast" /\ core.pending.shape = guest.template
  /\ core.due => guest.stage = "Fast" /\ core.est = guest.template
  /\ core.stage \notin {"Fast", "Recover"} =>
       core.active = NoPlan /\ core.pending = NoPlan /\ ~core.due

\* What the planner will install is wanted and of the template
PlannerPlans ==
  planner.at = "planning" /\ planner.current => core.due /\ planner.shape = guest.template

\* Plans the guest reads or holds
GuestPlans ==
  /\ page.plan # NoPlan => guest.stage \in {"Fast", "Legacy"}
  /\ page.plan # NoPlan /\ guest.stage = "Fast" => page.plan.shape = guest.template
  /\ guest.stage = "Fast" /\ guest.plan # NoPlan => guest.plan.shape = guest.template
  /\ guest.at = "recovered" /\ reply = "accepted" => page.plan = NoPlan

\* The two stages, with the answers under way
Stages ==
  /\ core.stage = "Fast" =>
       guest.stage = "Fast"
         \/ (guest.stage = "Match" /\ guest.at = "complete" /\ reply = "accepted")
  /\ guest.at = "complete" /\ reply = "accepted" =>
       core.stage \in {NextStage(guest.stage), "Recover"}
  /\ guest.at = "recovered" /\ reply = "accepted" => core.stage = "Detect"
  /\ guest.at \in InFlight => guest.stage \in Specialized
  /\ reply # None => guest.at \in InFlight \ {"early", "active"}

\* The occurrence in flight
Occurrence ==
  /\ guest.at \in InFlight /\ guest.stage \in {"Match", "Fast"} /\ ~sub.recovery =>
       sub.shape = guest.template
  /\ guest.at \in {"profile", "complete"} => ~sub.recovery
  /\ "FORCE" \in sub.flags => "FINE" \in sub.flags
  /\ "FORCE" \in core.flags => "FINE" \in core.flags
  /\ core.open /\ core.stage = "Fast" /\ ~Published(core) => "FINE" \in core.flags

IInv == Typed /\ CorePlans /\ PlannerPlans /\ GuestPlans /\ Stages /\ Occurrence

-----------------------------------------------------------------------------
(* What the operations on a session and on the guest's copy return.        *)

\* A session that left its template has no plan and nothing due.
LEMMA NewCoreEmpty ==
  ASSUME NEW last \in Nat, NEW epoch \in Nat
  PROVE  LET c == NewCore(last, epoch)
         IN /\ c \in CoreType /\ c.active = NoPlan /\ c.pending = NoPlan /\ ~c.due
            /\ c.stage = "Detect" /\ c.flags = {} /\ ~c.open
<1> QED BY DEF NewCore, CoreType, PlanType, NoPlan, Names, Flags, Specialized

\* Nor has one in Legacy.
LEMMA LegacyEmpty ==
  ASSUME NEW c \in CoreType
  PROVE  /\ Legacy(c) \in CoreType /\ Legacy(c).active = NoPlan
         /\ Legacy(c).pending = NoPlan /\ ~Legacy(c).due
         /\ Legacy(c).stage = "Legacy" /\ Legacy(c).flags = {} /\ ~Legacy(c).open
<1> DEFINE n == NewCore(0, c.next_plan_epoch)
<1>1. c.next_plan_epoch \in Nat BY DEF CoreType
<1>2. /\ n \in CoreType /\ n.active = NoPlan /\ n.pending = NoPlan /\ ~n.due
      /\ n.flags = {} /\ ~n.open
  BY <1>1, NewCoreEmpty
<1> HIDE DEF n
<1> QED BY <1>2 DEF Legacy, CoreType, n

\* A recovery moves the stage only.
LEMMA RecoveringKeeps ==
  ASSUME NEW c \in CoreType
  PROVE  /\ Recovering(c) \in CoreType /\ Recovering(c).active = c.active
         /\ Recovering(c).pending = c.pending /\ Recovering(c).due = c.due
         /\ Recovering(c).stage = "Recover" /\ Recovering(c).flags = c.flags
         /\ Recovering(c).open = c.open /\ Recovering(c).est = c.est
<1> QED BY DEF Recovering, CoreType

\* The page shows a plan of the core.
LEMMA MessageOfCore ==
  ASSUME NEW c \in CoreType
  PROVE  /\ Message(c) \in PageType /\ Message(c).plan \in {c.active, c.pending}
         /\ Published(c) \in BOOLEAN
         /\ Message(c).plan = NoPlan <=> ~Published(c)
<1> QED BY DEF Message, CoreType, PageType, FineDue, Published

\* What the guest keeps when it reads the page.
LEMMA RefreshedKeeps ==
  ASSUME NEW g \in GuestType, page \in PageType
  PROVE  /\ Refreshed(g) \in GuestType /\ Refreshed(g).plan = page.plan
         /\ Refreshed(g).stage = g.stage /\ Refreshed(g).at = g.at
         /\ Refreshed(g).template = g.template /\ Refreshed(g).acked = g.acked
         /\ Refreshed(g).next = g.next
<1> QED BY DEF Refreshed, GuestType, PageType

\* A guest that starts again holds no plan.
LEMMA NewGuestEmpty ==
  ASSUME NEW next \in Nat
  PROVE  /\ NewGuest(next) \in GuestType /\ NewGuest(next).plan = NoPlan
         /\ NewGuest(next).stage = "Detect" /\ NewGuest(next).at = "idle"
<1> QED BY DEF NewGuest, GuestType, PlanType, NoPlan, Names, InFlight, Specialized

\* The count of stable periods stays a number.
LEMMA RemainderIsNat ==
  ASSUME NEW k \in Nat, NEW r \in Nat \ {0}
  PROVE  k % r \in Nat
<1> QED OBVIOUS

\* The flags of a fine profile: a forced one is fine.
LEMMA FineFlagsForced ==
  ASSUME NEW g, NEW recovery
  PROVE  FineFlags(g, recovery) \in SUBSET Flags /\ "FINE" \in FineFlags(g, recovery)
<1> QED BY DEF FineFlags, SingleFine, Flags

\* An occurrence of a shape, which the guest compared with its template
OccurrenceOf(b, g, shape) ==
  /\ b \in SubType /\ b.shape = shape
  /\ g.stage # "Learn" /\ ~b.recovery => shape = g.template
  /\ "FORCE" \in b.flags => "FINE" \in b.flags

\* An occurrence the guest does not recover from is of its template.
LEMMA BuiltOccurrence ==
  ASSUME NEW g \in GuestType, NEW shape \in Names, NEW mismatch \in BOOLEAN, NEW id \in Nat
  PROVE  OccurrenceOf(BuildChunks(g, shape, mismatch, id), g, shape)
<1> DEFINE rec == mismatch \/ (g.stage # "Learn" /\ shape # g.template)
           b == BuildChunks(g, shape, mismatch, id)
<1>1. PICK flags \in {{"STABLE"}, FineFlags(g, rec)}, ack \in Nat, epoch \in Nat,
           chunks \in Nat :
        b = [id |-> id, shape |-> shape, early |-> FALSE, recovery |-> rec,
             flags |-> flags, ack |-> ack, epoch |-> epoch, chunks |-> chunks]
  BY DEF BuildChunks, GuestType, PlanType
<1>2. rec \in BOOLEAN OBVIOUS
<1>3. g.stage # "Learn" /\ ~rec => shape = g.template OBVIOUS
<1> HIDE DEF rec, b
<1>4. flags \in SUBSET Flags /\ ("FORCE" \in flags => "FINE" \in flags)
  BY FineFlagsForced DEF Flags
<1>5. b \in SubType BY <1>1, <1>2, <1>4 DEF SubType
<1>6. b.shape = shape /\ b.recovery = rec /\ b.flags = flags BY <1>1
<1>7. OccurrenceOf(b, g, shape) BY <1>3, <1>4, <1>5, <1>6 DEF OccurrenceOf
<1> QED BY <1>7 DEF b

-----------------------------------------------------------------------------
(* The steps.                                                              *)

\* A refused packet leaves a session that wants no plan.
LEMMA RefuseKeeps ==
  ASSUME IInv, guest.at \in InFlight \ {"early", "active"}, Refuse
  PROVE  IInv'
<1>a. core \in CoreType BY DEF IInv, Typed
<1>b. /\ core' \in CoreType /\ core'.stage \in {"Recover", "Legacy"}
      /\ \/ core' = Legacy(core)
         \/ /\ core'.stage = "Recover"
            /\ core'.active = core.active /\ core'.pending = core.pending
            /\ core'.due = core.due /\ core'.est = core.est /\ core'.flags = core.flags
  BY <1>a, RecoveringKeeps, LegacyEmpty DEF Refuse
<1>c. core' = Legacy(core) =>
        /\ core'.active = NoPlan /\ core'.pending = NoPlan /\ ~core'.due
        /\ core'.flags = {} /\ ~core'.open
  BY <1>a, LegacyEmpty
<1>1. Typed'
  <2>1. core' \in CoreType /\ page' \in PageType
    BY <1>b DEF IInv, Typed, Refuse
  <2>2. planner' \in PlannerType
    BY DEF IInv, Typed, PlannerType, Refuse
  <2>3. guest' \in GuestType
    BY DEF IInv, Typed, Refuse
  <2>4. sub' \in SubType /\ reply' \in {None, "accepted", "refused"}
    BY DEF IInv, Typed, Refuse
  <2> QED BY <2>1, <2>2, <2>3, <2>4 DEF Typed
<1>2. CorePlans'
  BY <1>b, <1>c DEF IInv, CorePlans, Refuse
<1>3. PlannerPlans'
  BY DEF IInv, PlannerPlans, Refuse
<1>4. GuestPlans'
  BY DEF IInv, GuestPlans, Refuse
<1>5. Stages'
  BY <1>b DEF IInv, Stages, Refuse
<1>6. Occurrence'
  BY <1>b, <1>c DEF IInv, Occurrence, Refuse
<1> QED BY <1>1, <1>2, <1>3, <1>4, <1>5, <1>6 DEF IInv

\* A reported mismatch stops the session and keeps its plans for the recovery.
LEMMA MismatchKeeps ==
  ASSUME IInv, HostMismatch, core.stage \in Specialized
  PROVE  IInv'
<1>a. core \in CoreType /\ core' = Recovering(core) /\ page' = Message(core')
  BY DEF IInv, Typed, HostMismatch, Accept
<1>b. /\ core' \in CoreType /\ core'.active = core.active /\ core'.pending = core.pending
      /\ core'.due = core.due /\ core'.stage = "Recover" /\ core'.flags = core.flags
      /\ core'.open = core.open /\ core'.est = core.est
  BY <1>a, RecoveringKeeps
<1>c. page' \in PageType /\ page'.plan \in {core'.active, core'.pending}
  BY <1>a, <1>b, MessageOfCore
<1>1. Typed'
  <2>1. core' \in CoreType /\ page' \in PageType
    BY <1>b, <1>c DEF IInv
  <2>2. planner' \in PlannerType
    BY DEF IInv, Typed, HostMismatch
  <2>3. guest' \in GuestType
    BY DEF IInv, Typed, HostMismatch, Accept
  <2>4. sub' \in SubType /\ reply' \in {None, "accepted", "refused"}
    BY DEF IInv, Typed, HostMismatch, Accept
  <2> QED BY <2>1, <2>2, <2>3, <2>4 DEF Typed
<1>2. CorePlans'
  BY <1>b DEF IInv, CorePlans, HostMismatch, Accept
<1>3. PlannerPlans'
  BY <1>b DEF IInv, PlannerPlans, HostMismatch, Accept
<1>4. GuestPlans'
  BY <1>b, <1>c DEF IInv, CorePlans, GuestPlans, HostMismatch, Sent, Accept
<1>5. Stages'
  BY <1>b DEF IInv, InFlight, Stages, HostMismatch, Sent, Accept
<1>6. Occurrence'
  BY <1>b DEF IInv, Occurrence, HostMismatch, Accept
<1> QED BY <1>1, <1>2, <1>3, <1>4, <1>5, <1>6 DEF IInv

\* A period is complete: the session follows the guest, whose answer is under way.
LEMMA CompleteKeeps ==
  ASSUME IInv, HostComplete, core.stage = guest.stage, ~core.open, core.last = sub.id
  PROVE  IInv'
<1>a. /\ core \in CoreType /\ core' = [core EXCEPT !.stage = NextStage(@)]
      /\ page' = Message(core') /\ core.stage \in Specialized
  BY DEF IInv, Typed, HostComplete, Accept, Sent, Stages, InFlight
<1>b. NextStage(core.stage) \in Specialized BY <1>a DEF NextStage, Specialized
<1>c. /\ core' \in CoreType /\ core'.active = core.active /\ core'.pending = core.pending
      /\ core'.due = core.due /\ core'.stage = NextStage(core.stage)
      /\ core'.flags = core.flags /\ core'.open = core.open /\ core'.est = core.est
  BY <1>a, <1>b DEF CoreType
<1>d. page' \in PageType /\ page'.plan \in {core'.active, core'.pending}
  BY <1>a, <1>c, MessageOfCore
<1>1. Typed'
  <2>1. core' \in CoreType /\ page' \in PageType
    BY <1>c, <1>d DEF IInv
  <2>2. planner' \in PlannerType
    BY DEF IInv, Typed, HostComplete
  <2>3. guest' \in GuestType
    BY DEF IInv, Typed, HostComplete, Accept
  <2>4. sub' \in SubType /\ reply' \in {None, "accepted", "refused"}
    BY DEF IInv, Typed, HostComplete, Accept
  <2> QED BY <2>1, <2>2, <2>3, <2>4 DEF Typed
<1>2. CorePlans'
  BY <1>c DEF IInv, CorePlans, NextStage, HostComplete, Accept
<1>3. PlannerPlans'
  BY <1>c DEF IInv, PlannerPlans, HostComplete, Accept
<1>4. GuestPlans'
  BY <1>c, <1>d DEF IInv, CorePlans, GuestPlans, HostComplete, Sent, Accept
<1>5. Stages'
  BY <1>c DEF IInv, InFlight, Specialized, Stages, NextStage, HostComplete, Sent, Accept
<1>6. Occurrence'
  BY <1>c DEF IInv, Occurrence, HostComplete, Accept
<1> QED BY <1>1, <1>2, <1>3, <1>4, <1>5, <1>6 DEF IInv

\* A recovery is complete: the plans go with the template.
LEMMA RecoveredKeeps ==
  ASSUME IInv, HostRecovered, core.stage = "Recover"
  PROVE  IInv'
<1>a. /\ core \in CoreType /\ core' = NewCore(core.last, core.next_plan_epoch)
      /\ page' = Message(core')
  BY DEF IInv, Typed, HostRecovered, Accept, Cleared
<1>b. core.last \in Nat /\ core.next_plan_epoch \in Nat BY <1>a DEF CoreType
<1>c. /\ core' \in CoreType /\ core'.active = NoPlan /\ core'.pending = NoPlan
      /\ ~core'.due /\ core'.stage = "Detect" /\ core'.flags = {} /\ ~core'.open
  BY <1>a, <1>b, NewCoreEmpty
<1>d. page' \in PageType /\ page'.plan = NoPlan
  BY <1>a, <1>c, MessageOfCore
<1>1. Typed'
  <2>1. core' \in CoreType /\ page' \in PageType
    BY <1>c, <1>d DEF IInv
  <2>2. planner' \in PlannerType
    BY DEF IInv, Typed, PlannerType, HostRecovered
  <2>3. guest' \in GuestType
    BY DEF IInv, Typed, HostRecovered, Accept
  <2>4. sub' \in SubType /\ reply' \in {None, "accepted", "refused"}
    BY DEF IInv, Typed, HostRecovered, Accept
  <2> QED BY <2>1, <2>2, <2>3, <2>4 DEF Typed
<1>2. CorePlans'
  BY <1>c DEF IInv, CorePlans
<1>3. PlannerPlans'
  BY DEF IInv, Typed, PlannerType, PlannerPlans, HostRecovered
<1>4. GuestPlans'
  BY <1>d DEF IInv, GuestPlans, HostRecovered, Accept
<1>5. Stages'
  BY <1>c DEF IInv, InFlight, Stages, HostRecovered, Sent, Accept
<1>6. Occurrence'
  BY <1>c DEF IInv, Occurrence, HostRecovered, Accept
<1> QED BY <1>1, <1>2, <1>3, <1>4, <1>5, <1>6 DEF IInv

\* The planner takes the costs of the template that is due.
LEMMA PlannerStartKeeps ==
  ASSUME IInv, PlannerStart
  PROVE  IInv'
<1>1. Typed'
  BY DEF IInv, Typed, CoreType, PlannerType, PlannerStart, Larger
<1>2. CorePlans'
  BY DEF IInv, CorePlans, PlannerStart
<1>3. PlannerPlans'
  BY DEF IInv, CorePlans, PlannerPlans, PlannerStart
<1>4. GuestPlans'
  BY DEF IInv, GuestPlans, PlannerStart
<1>5. Stages'
  BY DEF IInv, Stages, PlannerStart
<1>6. Occurrence'
  BY DEF IInv, Occurrence, PlannerStart
<1> QED BY <1>1, <1>2, <1>3, <1>4, <1>5, <1>6 DEF IInv

\* The planner's result is installed only while it is wanted, so it is of the template.
LEMMA PlannerInstallKeeps ==
  ASSUME IInv, PlannerInstall
  PROVE  IInv'
<1>a. PICK n \in 1 .. MaxChunks :
        core' = [core EXCEPT !.pending = Installable(n), !.due = FALSE,
                             !.next_plan_epoch = @ + 1]
  BY DEF PlannerInstall
<1>b. /\ core \in CoreType /\ planner.apply \in Nat /\ core.last \in Nat
      /\ core.next_plan_epoch \in Nat /\ planner.shape \in Names /\ n \in Nat
  BY DEF IInv, Typed, CoreType, PlannerType
<1>c. core.next_plan_epoch + 1 \in Nat /\ Larger(planner.apply, core.last + 1) \in Nat
  BY <1>b DEF Larger
<1>d. Installable(n) \in PlanType /\ Installable(n).shape = planner.shape
      /\ Installable(n) # NoPlan
  BY <1>b, <1>c DEF Installable, PlanType, NoPlan
<1>e. /\ core' \in CoreType /\ core'.active = core.active /\ core'.pending = Installable(n)
      /\ ~core'.due /\ core'.stage = core.stage /\ core'.flags = core.flags
      /\ core'.open = core.open /\ core'.est = core.est
  BY <1>a, <1>b, <1>c, <1>d DEF CoreType
<1>1. Typed'
  <2>1. core' \in CoreType /\ page' \in PageType
    BY <1>e DEF IInv, Typed, PlannerInstall
  <2>2. planner' \in PlannerType
    BY DEF IInv, PlannerType, Names, PlannerInstall, NoPlanner
  <2>3. guest' \in GuestType
    BY DEF IInv, Typed, PlannerInstall
  <2>4. sub' \in SubType /\ reply' \in {None, "accepted", "refused"}
    BY DEF IInv, Typed, PlannerInstall
  <2> QED BY <2>1, <2>2, <2>3, <2>4 DEF Typed
<1>2. CorePlans'
  BY <1>d, <1>e DEF IInv, CorePlans, PlannerPlans, PlannerInstall, StillWanted
<1>3. PlannerPlans'
  BY DEF IInv, PlannerPlans, PlannerInstall
<1>4. GuestPlans'
  BY DEF IInv, GuestPlans, PlannerInstall
<1>5. Stages'
  BY DEF IInv, Stages, PlannerInstall
<1>6. Occurrence'
  BY DEF IInv, Occurrence, Published, PlannerInstall, StillWanted
<1> QED BY <1>1, <1>2, <1>3, <1>4, <1>5, <1>6 DEF IInv

\* A result nobody wants is dropped.
LEMMA PlannerDiscardsKeeps ==
  ASSUME IInv, PlannerDiscards
  PROVE  IInv'
<1>1. Typed'
  BY DEF IInv, Typed, PlannerType, Names, PlannerDiscards, NoPlanner
<1>2. CorePlans'
  BY DEF IInv, CorePlans, PlannerDiscards
<1>3. PlannerPlans'
  BY DEF IInv, PlannerPlans, PlannerDiscards, NoPlanner
<1>4. GuestPlans'
  BY DEF IInv, GuestPlans, PlannerDiscards
<1>5. Stages'
  BY DEF IInv, Stages, PlannerDiscards
<1>6. Occurrence'
  BY DEF IInv, Occurrence, PlannerDiscards
<1> QED BY <1>1, <1>2, <1>3, <1>4, <1>5, <1>6 DEF IInv

\* The planner's message shows a plan of the core.
LEMMA PlannerPublishKeeps ==
  ASSUME IInv, PlannerPublish
  PROVE  IInv'
<1>a. core \in CoreType /\ page' = Message(core) BY DEF IInv, Typed, PlannerPublish
<1>b. page' \in PageType /\ page'.plan \in {core.active, core.pending}
  BY <1>a, MessageOfCore
<1>c. guest.at = "recovered" /\ reply = "accepted" =>
        core.active = NoPlan /\ core.pending = NoPlan
  BY DEF IInv, CorePlans, Stages
<1>1. Typed'
  BY <1>b DEF IInv, Typed, PlannerType, Names, PlannerPublish, NoPlanner
<1>2. CorePlans'
  BY DEF IInv, CorePlans, PlannerPublish
<1>3. PlannerPlans'
  BY DEF IInv, PlannerPlans, PlannerPublish, NoPlanner
<1>4. GuestPlans'
  BY <1>b, <1>c DEF IInv, CorePlans, GuestPlans, PlannerPublish
<1>5. Stages'
  BY DEF IInv, Stages, PlannerPublish
<1>6. Occurrence'
  BY DEF IInv, Occurrence, PlannerPublish
<1> QED BY <1>1, <1>2, <1>3, <1>4, <1>5, <1>6 DEF IInv

\* A skipped publication changes no plan.
LEMMA PlannerSkipsKeeps ==
  ASSUME IInv, PlannerSkips
  PROVE  IInv'
<1>1. Typed'
  BY DEF IInv, Typed, PlannerType, Names, PlannerSkips, NoPlanner
<1>2. CorePlans'
  BY DEF IInv, CorePlans, PlannerSkips
<1>3. PlannerPlans'
  BY DEF IInv, PlannerPlans, PlannerSkips, NoPlanner
<1>4. GuestPlans'
  BY DEF IInv, GuestPlans, PlannerSkips
<1>5. Stages'
  BY DEF IInv, Stages, PlannerSkips
<1>6. Occurrence'
  BY DEF IInv, Occurrence, PlannerSkips
<1> QED BY <1>1, <1>2, <1>3, <1>4, <1>5, <1>6 DEF IInv

\* A failed delivery stops the session.
LEMMA DeliveryFailedKeeps ==
  ASSUME IInv, DeliveryFailed
  PROVE  IInv'
<1>1. Typed'
  BY DEF IInv, Typed, CoreType, PlannerType, Names, DeliveryFailed, NoPlanner,
     Recovering
<1>2. CorePlans'
  BY DEF IInv, CorePlans, DeliveryFailed, Recovering
<1>3. PlannerPlans'
  BY DEF IInv, PlannerPlans, DeliveryFailed, NoPlanner
<1>4. GuestPlans'
  BY DEF IInv, GuestPlans, DeliveryFailed
<1>5. Stages'
  BY DEF IInv, Specialized, Stages, DeliveryFailed, Recovering
<1>6. Occurrence'
  BY DEF IInv, Occurrence, DeliveryFailed, Recovering
<1> QED BY <1>1, <1>2, <1>3, <1>4, <1>5, <1>6 DEF IInv

\* An accepted route changes no plan.
LEMMA RouteKeeps ==
  ASSUME IInv, HostRoute, RouteOK
  PROVE  IInv'
<1>1. Typed'
  BY DEF IInv, Typed, HostRoute
<1>2. CorePlans'
  BY DEF IInv, CorePlans, HostRoute
<1>3. PlannerPlans'
  BY DEF IInv, PlannerPlans, HostRoute
<1>4. GuestPlans'
  BY DEF IInv, GuestPlans, HostRoute, Sent
<1>5. Stages'
  BY DEF IInv, InFlight, Stages, HostRoute, Sent
<1>6. Occurrence'
  BY DEF IInv, Occurrence, HostRoute
<1> QED BY <1>1, <1>2, <1>3, <1>4, <1>5, <1>6 DEF IInv

\* The submission succeeded: the guest goes on.
LEMMA AfterSubmitKeeps ==
  ASSUME IInv, AfterSubmit
  PROVE  IInv'
<1>1. Typed'
  BY DEF IInv, Typed, GuestType, InFlight, AfterSubmit
<1>2. CorePlans'
  BY DEF IInv, CorePlans, AfterSubmit
<1>3. PlannerPlans'
  BY DEF IInv, PlannerPlans, AfterSubmit
<1>4. GuestPlans'
  BY DEF IInv, GuestPlans, Stages, None, AfterSubmit
<1>5. Stages'
  BY DEF IInv, InFlight, Stages, None, AfterSubmit
<1>6. Occurrence'
  BY DEF IInv, InFlight, Occurrence, AfterSubmit
<1> QED BY <1>1, <1>2, <1>3, <1>4, <1>5, <1>6 DEF IInv

\* A guest that gives up holds no new plan.
LEMMA GivesUpKeeps ==
  ASSUME IInv, GivesUp
  PROVE  IInv'
<1>1. Typed'
  BY DEF IInv, Typed, GuestType, GivesUp
<1>2. CorePlans'
  BY DEF IInv, CorePlans, GivesUp
<1>3. PlannerPlans'
  BY DEF IInv, PlannerPlans, GivesUp
<1>4. GuestPlans'
  BY DEF IInv, GuestPlans, GivesUp
<1>5. Stages'
  BY DEF IInv, InFlight, Stages, GivesUp
<1>6. Occurrence'
  BY DEF IInv, InFlight, Occurrence, GivesUp
<1> QED BY <1>1, <1>2, <1>3, <1>4, <1>5, <1>6 DEF IInv

\* Both sides start to learn with no plan.
LEMMA AnnounceKeeps ==
  ASSUME IInv, Announce
  PROVE  IInv'
<1>a. /\ core \in CoreType /\ guest \in GuestType
      /\ core' = [core EXCEPT !.stage = "Learn"] /\ page' = Message(core')
  BY DEF IInv, Typed, Announce
<1>b. /\ core' \in CoreType /\ core'.active = core.active /\ core'.pending = core.pending
      /\ core'.due = core.due /\ core'.stage = "Learn"
      /\ core'.flags = core.flags /\ core'.open = core.open /\ core'.est = core.est
  BY <1>a DEF CoreType, Specialized
<1>c. page' \in PageType /\ page'.plan \in {core'.active, core'.pending}
  BY <1>a, <1>b, MessageOfCore
<1>d. core.active = NoPlan /\ core.pending = NoPlan /\ ~core.due
  BY DEF IInv, CorePlans, Announce
<1>e. guest' \in GuestType
  BY <1>a, <1>c DEF Announce, GuestType, PageType, Specialized
<1>1. Typed'
  <2>1. core' \in CoreType /\ page' \in PageType
    BY <1>b, <1>c DEF IInv
  <2>2. planner' \in PlannerType
    BY DEF IInv, Typed, Announce
  <2>3. guest' \in GuestType BY <1>e
  <2>4. sub' \in SubType /\ reply' \in {None, "accepted", "refused"}
    BY DEF IInv, Typed, Announce
  <2> QED BY <2>1, <2>2, <2>3, <2>4 DEF Typed
<1>2. CorePlans'
  BY DEF IInv, CorePlans, Announce
<1>3. PlannerPlans'
  BY DEF IInv, PlannerPlans, Announce
<1>4. GuestPlans'
  BY <1>c, <1>d DEF IInv, GuestPlans, Announce
<1>5. Stages'
  BY DEF IInv, Specialized, Stages, Announce
<1>6. Occurrence'
  BY DEF IInv, Occurrence, Announce
<1> QED BY <1>1, <1>2, <1>3, <1>4, <1>5, <1>6 DEF IInv

\* The guest reads the page and goes on with the plan it routed by.
LEMMA CompleteEarlyRouteKeeps ==
  ASSUME IInv, CompleteEarlyRoute
  PROVE  IInv'
<1>a. /\ guest' \in GuestType /\ guest'.plan = page.plan /\ guest'.stage = guest.stage
      /\ guest'.at = "route" /\ guest'.template = guest.template
  BY RefreshedKeeps DEF IInv, Typed, CompleteEarlyRoute, GuestType, InFlight
<1>1. Typed'
  BY <1>a DEF IInv, Typed, CompleteEarlyRoute
<1>2. CorePlans'
  BY <1>a DEF IInv, CorePlans, CompleteEarlyRoute
<1>3. PlannerPlans'
  BY <1>a DEF IInv, PlannerPlans, CompleteEarlyRoute
<1>4. GuestPlans'
  BY <1>a DEF IInv, GuestPlans, CompleteEarlyRoute
<1>5. Stages'
  BY <1>a DEF IInv, InFlight, Stages, CompleteEarlyRoute
<1>6. Occurrence'
  BY <1>a DEF IInv, InFlight, Occurrence, CompleteEarlyRoute
<1> QED BY <1>1, <1>2, <1>3, <1>4, <1>5, <1>6 DEF IInv

\* A fallback leaves no plan on either side.
LEMMA FallbackKeeps ==
  ASSUME IInv, FallbackToLegacy
  PROVE  IInv'
<1>a. core \in CoreType /\ core' = Legacy(core) BY DEF IInv, Typed, FallbackToLegacy
<1>b. /\ core' \in CoreType /\ core'.active = NoPlan /\ core'.pending = NoPlan
      /\ ~core'.due /\ core'.stage = "Legacy" /\ core'.flags = {} /\ ~core'.open
  BY <1>a, LegacyEmpty
<1>c. guest.next + 1 \in Nat BY DEF IInv, Typed, GuestType
<1>d. NewGuest(guest.next + 1) \in GuestType BY <1>c, NewGuestEmpty
<1>e. guest' \in GuestType
  BY <1>d DEF FallbackToLegacy, GuestType
<1>1. Typed'
  <2>1. core' \in CoreType /\ page' \in PageType
    BY <1>b DEF IInv, Typed, FallbackToLegacy
  <2>2. planner' \in PlannerType
    BY DEF IInv, Typed, PlannerType, FallbackToLegacy
  <2>3. guest' \in GuestType BY <1>e
  <2>4. sub' \in SubType /\ reply' \in {None, "accepted", "refused"}
    BY DEF IInv, SubType, Names, FallbackToLegacy, NoSub
  <2> QED BY <2>1, <2>2, <2>3, <2>4 DEF Typed
<1>2. CorePlans'
  BY <1>b DEF IInv, CorePlans
<1>3. PlannerPlans'
  BY DEF IInv, PlannerPlans, FallbackToLegacy
<1>4. GuestPlans'
  BY DEF IInv, GuestPlans, FallbackToLegacy, NewGuest
<1>5. Stages'
  BY <1>b DEF IInv, InFlight, Stages, FallbackToLegacy, NewGuest
<1>6. Occurrence'
  BY <1>b DEF IInv, Occurrence, FallbackToLegacy, NoSub
<1> QED BY <1>1, <1>2, <1>3, <1>4, <1>5, <1>6 DEF IInv

\* A profile ends: a plan comes due only for the template, whose costs are taken.
LEMMA ProfileKeeps ==
  ASSUME IInv, HostProfile, core.open, core.last = sub.id
  PROVE  IInv'
<1> DEFINE c == ProfileEnded(core)
<1>a. /\ core \in CoreType /\ core' = c /\ page' = Message(c) /\ guest.at = "profile"
      /\ UNCHANGED <<guest, sub>> /\ sub \in SubType
  BY DEF IInv, Typed, HostProfile, Accept, Sent
<1>b. /\ core'.stage = core.stage /\ core'.active = core.active
      /\ core'.pending = core.pending /\ core'.flags = {} /\ ~core'.open
  BY <1>a DEF ProfileEnded
<1>c. core'.est =
        IF core.stage = "Fast" /\ "FINE" \in core.flags THEN sub.shape ELSE core.est
  BY <1>a DEF ProfileEnded
<1>d. core'.due => core.due \/ (core.stage = "Fast" /\ "FINE" \in core.flags)
  <2>1. core'.due =>
          \/ core.due
          \/ /\ core.stage = "Fast"
             /\ ~Published(core) \/ "FINE" \in core.flags \/ "FORCE" \in core.flags
    BY <1>a DEF ProfileEnded, CoreType
  <2> QED BY <2>1, <1>a DEF IInv, Occurrence
<1>e. core' \in CoreType
  <2>1. core.last + 1 \in Nat /\ core.profiles + 1 \in Nat
    BY <1>a DEF CoreType
  <2>2. (core.stable + 1) % ReplanPeriods \in Nat
    <3>1. core.stable + 1 \in Nat BY <1>a DEF CoreType
    <3> QED BY <3>1, PlanExchangeAssumption, RemainderIsNat, Zenon
  <2>3. core'.profiles \in Nat BY <1>a, <2>1 DEF ProfileEnded, CoreType
  <2>4. core'.stable \in Nat BY <1>a, <2>2 DEF ProfileEnded, CoreType
  <2>5. core'.est \in Names BY <1>a, <1>c DEF CoreType, SubType
  <2>6. core'.due \in BOOLEAN BY <1>a DEF ProfileEnded, CoreType
  <2>7. core'.apply \in Nat BY <1>a, <2>1 DEF ProfileEnded, CoreType
  <2>8. core' = [core EXCEPT !.open = FALSE, !.flags = {}, !.profiles = core'.profiles,
                   !.stable = core'.stable, !.est = core'.est, !.due = core'.due,
                   !.apply = core'.apply]
    BY <1>a DEF ProfileEnded
  <2> QED BY <1>a, <2>3, <2>4, <2>5, <2>6, <2>7, <2>8 DEF CoreType
<1>f. page' \in PageType /\ page'.plan \in {core'.active, core'.pending}
  BY <1>a, <1>e, MessageOfCore
<1>g. core.stage = "Fast" => guest.stage = "Fast" /\ sub.shape = guest.template
  BY <1>a DEF IInv, Stages, Occurrence, InFlight
<1>h. core'.due => core'.est = guest.template /\ guest.stage = "Fast"
  BY <1>c, <1>d, <1>g DEF IInv, CorePlans
<1>i. core.due => core'.due BY <1>a DEF ProfileEnded, CoreType
<1> HIDE DEF c
<1>1. Typed'
  <2>1. core' \in CoreType /\ page' \in PageType
    BY <1>e, <1>f DEF IInv
  <2>2. planner' \in PlannerType
    BY DEF IInv, Typed, PlannerType, HostProfile
  <2>3. guest' \in GuestType
    BY DEF IInv, Typed, HostProfile, Accept
  <2>4. sub' \in SubType /\ reply' \in {None, "accepted", "refused"}
    BY DEF IInv, Typed, HostProfile, Accept
  <2> QED BY <2>1, <2>2, <2>3, <2>4 DEF Typed
<1>2. CorePlans'
  BY <1>b, <1>d, <1>h DEF IInv, CorePlans, HostProfile, Accept
<1>3. PlannerPlans'
  BY <1>i DEF IInv, Typed, PlannerType, PlannerPlans, HostProfile, Accept
<1>4. GuestPlans'
  BY <1>b, <1>f DEF IInv, CorePlans, GuestPlans, HostProfile, Sent, Accept
<1>5. Stages'
  BY <1>b DEF IInv, InFlight, Stages, HostProfile, Sent, Accept
<1>6. Occurrence'
  BY <1>b DEF IInv, Occurrence, HostProfile, Accept
<1> QED BY <1>1, <1>2, <1>3, <1>4, <1>5, <1>6 DEF IInv
\* A period begins: acknowledging a plan and installing it keep its template.
LEMMA BeginKeeps ==
  ASSUME IInv, HostBegin, AckOK, BeginOK(Acknowledged(core))
  PROVE  IInv'
<1> DEFINE a == Acknowledged(core)
           i == Installed(a)
<1>a. /\ core \in CoreType /\ sub \in SubType /\ guest.at = "begin"
      /\ core' = [i EXCEPT !.open = TRUE, !.last = sub.id, !.flags = sub.flags]
      /\ page' = Message(core')
  BY DEF IInv, Typed, HostBegin, Accept, Sent
<1>b. /\ a \in CoreType /\ a.stage = core.stage /\ a.active = core.active
      /\ a.due = core.due /\ a.est = core.est
      /\ a.pending.shape = core.pending.shape
      /\ a.pending # NoPlan <=> core.pending # NoPlan
  <2>1. CASE sub.ack = 0 BY <2>1, <1>a DEF Acknowledged
  <2>2. CASE sub.ack # 0
    <3>1. core.pending \in PlanType /\ sub.id \in Nat /\ sub.ack \in Nat
      BY <1>a DEF CoreType, SubType
    <3>2. a = [core EXCEPT !.ack = [epoch |-> sub.ack, period |-> sub.id],
                           !.pending = [core.pending EXCEPT !.apply = sub.id]]
      BY <2>2 DEF Acknowledged
    <3>3. /\ [core.pending EXCEPT !.apply = sub.id] \in PlanType
          /\ [core.pending EXCEPT !.apply = sub.id].epoch = sub.ack
          /\ [core.pending EXCEPT !.apply = sub.id].shape = core.pending.shape
          /\ core.pending.epoch = sub.ack
      BY <3>1, <2>2 DEF PlanType, AckOK
    <3> PICK p \in PlanType : p = [core.pending EXCEPT !.apply = sub.id] BY <3>3
    <3>4. NoPlan.epoch = 0 BY DEF NoPlan
    <3>5. core.pending # NoPlan BY <3>3, <3>4, <2>2
    <3>6. p # NoPlan
      <4>1. p.epoch = sub.ack BY <3>3
      <4> QED BY <4>1, <3>4, <2>2
    <3>7. a = [core EXCEPT !.ack = [epoch |-> sub.ack, period |-> sub.id], !.pending = p]
      BY <3>2
    <3>8. [epoch |-> sub.ack, period |-> sub.id] \in [epoch : Nat, period : Nat]
      BY <3>1
    <3>9. p \in PlanType /\ p.shape = core.pending.shape BY <3>3
    <3> HIDE DEF a
    <3> QED BY <1>a, <3>5, <3>6, <3>7, <3>8, <3>9 DEF CoreType
  <2> QED BY <2>1, <2>2
<1>c. /\ i \in CoreType /\ i.stage = core.stage /\ i.due = core.due /\ i.est = core.est
      /\ \/ i.active = a.active /\ i.pending = a.pending
         \/ a.pending # NoPlan /\ i.active = a.pending /\ i.pending = NoPlan
  <2>1. NoPlan \in PlanType BY DEF NoPlan, PlanType, Names
  <2> HIDE DEF a
  <2> QED BY <2>1, <1>b DEF Installed, CoreType
<1>d. /\ core' \in CoreType /\ core'.stage = core.stage /\ core'.due = core.due
      /\ core'.est = core.est /\ core'.flags = sub.flags
      /\ core'.active = i.active /\ core'.pending = i.pending
  <2> HIDE DEF i
  <2> QED BY <1>a, <1>c DEF CoreType, SubType
<1>e. page' \in PageType /\ page'.plan \in {core'.active, core'.pending}
  BY <1>a, <1>d, MessageOfCore
<1>f. ~Published(core') => ~Published(a)
  <2> HIDE DEF i, a
  <2> QED BY <1>b, <1>c, <1>d DEF Published
<1>g. ~Published(core') => "FINE" \in sub.flags
  <2> HIDE DEF i
  <2> QED BY <1>f DEF BeginOK, FineDue
<1> HIDE DEF a, i
<1>h. /\ core'.active # NoPlan =>
           \/ core.active # NoPlan /\ core'.active.shape = core.active.shape
           \/ core.pending # NoPlan /\ core'.active.shape = core.pending.shape
      /\ core'.pending # NoPlan =>
           core.pending # NoPlan /\ core'.pending.shape = core.pending.shape
  BY <1>b, <1>c, <1>d
<1>j. UNCHANGED <<planner, guest, sub>> /\ reply' = "accepted" BY DEF HostBegin, Accept
<1>1. Typed'
  <2>1. core' \in CoreType /\ page' \in PageType
    BY <1>d, <1>e DEF IInv
  <2>2. planner' \in PlannerType
    BY DEF IInv, Typed, HostBegin
  <2>3. guest' \in GuestType
    BY DEF IInv, Typed, HostBegin, Accept
  <2>4. sub' \in SubType /\ reply' \in {None, "accepted", "refused"}
    BY DEF IInv, Typed, HostBegin, Accept
  <2> QED BY <2>1, <2>2, <2>3, <2>4 DEF Typed
<1>2. CorePlans'
  BY <1>d, <1>h, <1>j DEF IInv, CorePlans
<1>3. PlannerPlans'
  BY <1>d, <1>j DEF IInv, PlannerPlans
<1>4. GuestPlans'
  BY <1>e, <1>h, <1>j DEF IInv, CorePlans, GuestPlans, HostBegin, Sent
<1>5. Stages'
  BY <1>d, <1>j DEF IInv, InFlight, Stages, HostBegin, Sent
<1>6. Occurrence'
  BY <1>d, <1>g, <1>j DEF IInv, Occurrence
<1> QED BY <1>1, <1>2, <1>3, <1>4, <1>5, <1>6 DEF IInv

\* The guest reads the page and begins an occurrence.
LEMMA BeforeSubmitKeeps ==
  ASSUME IInv, BeforeSubmit
  PROVE  IInv'
<1> DEFINE r == Refreshed(guest)
<1>a. /\ guest \in GuestType /\ page \in PageType /\ guest.next \in Nat
      /\ guest.next + 1 \in Nat /\ guest' = [r EXCEPT !.at = "begin", !.next = @ + 1]
  BY DEF IInv, Typed, GuestType, BeforeSubmit
<1>b. /\ r \in GuestType /\ r.plan = page.plan /\ r.stage = guest.stage
      /\ r.template = guest.template /\ r.next = guest.next
  BY <1>a, RefreshedKeeps
<1>c. /\ guest' \in GuestType /\ guest'.plan = page.plan /\ guest'.stage = guest.stage
      /\ guest'.at = "begin" /\ guest'.template = guest.template
  <2> HIDE DEF r
  <2> QED BY <1>a, <1>b DEF GuestType, InFlight
<1>d. PICK shape \in Shapes, mismatch \in BOOLEAN :
        sub' = BuildChunks(r, shape, mismatch, guest.next)
  BY DEF BeforeSubmit
<1>e. /\ sub' \in SubType /\ sub'.shape = shape
      /\ r.stage # "Learn" /\ ~sub'.recovery => shape = r.template
      /\ "FORCE" \in sub'.flags => "FINE" \in sub'.flags
  <2> HIDE DEF r
  <2> QED BY <1>a, <1>b, <1>d, BuiltOccurrence DEF Names, OccurrenceOf
<1> HIDE DEF r
<1>f. guest.stage # "Learn" /\ ~sub'.recovery => sub'.shape = guest.template
  BY <1>b, <1>e
<1>g. /\ UNCHANGED <<core, page, planner, reply>> /\ guest.at = "idle"
      /\ guest.stage \in Specialized
  BY DEF BeforeSubmit
<1>1. Typed'
  <2>1. core' \in CoreType /\ page' \in PageType
    BY DEF IInv, Typed, BeforeSubmit
  <2>2. planner' \in PlannerType
    BY DEF IInv, Typed, BeforeSubmit
  <2>3. guest' \in GuestType BY <1>c
  <2>4. sub' \in SubType /\ reply' \in {None, "accepted", "refused"}
    BY <1>e DEF IInv, Typed, BeforeSubmit
  <2> QED BY <2>1, <2>2, <2>3, <2>4 DEF Typed
<1>2. CorePlans'
  BY <1>c DEF IInv, CorePlans, BeforeSubmit
<1>3. PlannerPlans'
  BY <1>c DEF IInv, PlannerPlans, BeforeSubmit
<1>4. GuestPlans'
  BY <1>c DEF IInv, GuestPlans, BeforeSubmit
<1>5. Stages'
  BY <1>c DEF IInv, InFlight, Stages, BeforeSubmit
<1>6. Occurrence'
  BY <1>c, <1>e, <1>f DEF IInv, Occurrence, BeforeSubmit
<1> QED BY <1>1, <1>2, <1>3, <1>4, <1>5, <1>6 DEF IInv

\* The guest routes an occurrence of the template ahead of its submission.
LEMMA EarlyRouteKeeps ==
  ASSUME IInv, EarlyRoute
  PROVE  IInv'
<1> DEFINE b == BuildChunks(guest, guest.template, FALSE, guest.next)
<1>a. /\ guest \in GuestType /\ guest.next \in Nat /\ guest.template \in Names
      /\ guest.next + 1 \in Nat /\ guest' = [guest EXCEPT !.at = "begin", !.next = @ + 1]
      /\ sub' = [b EXCEPT !.early = TRUE]
  BY DEF IInv, Typed, GuestType, EarlyRoute
<1>b. /\ b \in SubType /\ b.shape = guest.template
      /\ "FORCE" \in b.flags => "FINE" \in b.flags
  <2>1. OccurrenceOf(b, guest, guest.template) BY <1>a, BuiltOccurrence
  <2> QED BY <2>1 DEF OccurrenceOf
<1>c. /\ guest' \in GuestType /\ guest'.plan = guest.plan /\ guest'.stage = guest.stage
      /\ guest'.at = "begin" /\ guest'.template = guest.template
  BY <1>a DEF GuestType, InFlight
<1>e. /\ sub' \in SubType /\ sub'.shape = guest.template
      /\ "FORCE" \in sub'.flags => "FINE" \in sub'.flags
  <2> HIDE DEF b
  <2> QED BY <1>a, <1>b DEF SubType
<1> HIDE DEF b
<1>g. /\ UNCHANGED <<core, page, planner, reply>> /\ guest.at = "idle"
      /\ guest.stage = "Fast"
  BY DEF EarlyRoute
<1>1. Typed'
  <2>1. core' \in CoreType /\ page' \in PageType
    BY DEF IInv, Typed, EarlyRoute
  <2>2. planner' \in PlannerType
    BY DEF IInv, Typed, EarlyRoute
  <2>3. guest' \in GuestType BY <1>c
  <2>4. sub' \in SubType /\ reply' \in {None, "accepted", "refused"}
    BY <1>e DEF IInv, Typed, EarlyRoute
  <2> QED BY <2>1, <2>2, <2>3, <2>4 DEF Typed
<1>2. CorePlans'
  BY <1>c, <1>g DEF IInv, CorePlans
<1>3. PlannerPlans'
  BY <1>c, <1>g DEF IInv, PlannerPlans
<1>4. GuestPlans'
  BY <1>c, <1>g DEF IInv, GuestPlans
<1>5. Stages'
  BY <1>c, <1>g DEF IInv, InFlight, Specialized, Stages
<1>6. Occurrence'
  BY <1>c, <1>e, <1>g DEF IInv, Occurrence
<1> QED BY <1>1, <1>2, <1>3, <1>4, <1>5, <1>6 DEF IInv

\* An accepted period: the guest reads the page and keeps its stage.
LEMMA AfterBeginKeeps ==
  ASSUME IInv, AfterBegin, reply = "accepted", reply' = None,
         UNCHANGED <<core, page, planner>>
  PROVE  IInv'
<1> DEFINE r == Refreshed(guest)
<1>a. guest \in GuestType /\ page \in PageType /\ sub \in SubType /\ guest.at = "begin"
  BY DEF IInv, Typed, AfterBegin
<1>b. /\ r \in GuestType /\ r.plan = page.plan /\ r.stage = guest.stage
      /\ r.template = guest.template /\ r.acked = guest.acked
  BY <1>a, RefreshedKeeps
<1>c. /\ guest' \in GuestType /\ guest'.plan = page.plan /\ guest'.stage = guest.stage
      /\ guest'.at \in {"mismatch", "prefix", "route"}
      /\ guest'.template = guest.template /\ sub' = sub
  <2> HIDE DEF r
  <2> QED BY <1>a, <1>b DEF AfterBegin, GuestType, SubType, InFlight, r
<1> HIDE DEF r
<1>1. Typed'
  <2>1. core' \in CoreType /\ page' \in PageType
    BY DEF IInv, Typed
  <2>2. planner' \in PlannerType
    BY DEF IInv, Typed
  <2>3. guest' \in GuestType BY <1>c
  <2>4. sub' \in SubType /\ reply' \in {None, "accepted", "refused"}
    BY DEF IInv, Typed, AfterBegin
  <2> QED BY <2>1, <2>2, <2>3, <2>4 DEF Typed
<1>2. CorePlans'
  BY <1>c DEF IInv, CorePlans
<1>3. PlannerPlans'
  BY <1>c DEF IInv, PlannerPlans
<1>4. GuestPlans'
  BY <1>c DEF IInv, GuestPlans
<1>5. Stages'
  BY <1>c DEF IInv, InFlight, Stages, AfterBegin
<1>6. Occurrence'
  BY <1>c DEF IInv, InFlight, Occurrence, AfterBegin
<1> QED BY <1>1, <1>2, <1>3, <1>4, <1>5, <1>6 DEF IInv

\* An accepted mismatch: the guest reads the page and keeps its stage.
LEMMA AfterMismatchKeeps ==
  ASSUME IInv, AfterMismatch, reply = "accepted", reply' = None,
         UNCHANGED <<core, page, planner>>
  PROVE  IInv'
<1> DEFINE r == Refreshed(guest)
<1>a. guest \in GuestType /\ page \in PageType /\ sub \in SubType /\ guest.at = "mismatch"
  BY DEF IInv, Typed, AfterMismatch
<1>b. /\ r \in GuestType /\ r.plan = page.plan /\ r.stage = guest.stage
      /\ r.template = guest.template /\ r.acked = guest.acked
  BY <1>a, RefreshedKeeps
<1>c. /\ guest' \in GuestType /\ guest'.plan = page.plan /\ guest'.stage = guest.stage
      /\ guest'.at \in {"route"}
      /\ guest'.template = guest.template /\ sub' = sub
  <2> HIDE DEF r
  <2> QED BY <1>a, <1>b DEF AfterMismatch, GuestType, SubType, InFlight, r
<1> HIDE DEF r
<1>1. Typed'
  <2>1. core' \in CoreType /\ page' \in PageType
    BY DEF IInv, Typed
  <2>2. planner' \in PlannerType
    BY DEF IInv, Typed
  <2>3. guest' \in GuestType BY <1>c
  <2>4. sub' \in SubType /\ reply' \in {None, "accepted", "refused"}
    BY DEF IInv, Typed, AfterMismatch
  <2> QED BY <2>1, <2>2, <2>3, <2>4 DEF Typed
<1>2. CorePlans'
  BY <1>c DEF IInv, CorePlans
<1>3. PlannerPlans'
  BY <1>c DEF IInv, PlannerPlans
<1>4. GuestPlans'
  BY <1>c DEF IInv, GuestPlans
<1>5. Stages'
  BY <1>c DEF IInv, InFlight, Stages, AfterMismatch
<1>6. Occurrence'
  BY <1>c DEF IInv, InFlight, Occurrence, AfterMismatch
<1> QED BY <1>1, <1>2, <1>3, <1>4, <1>5, <1>6 DEF IInv

\* An accepted profile: the guest reads the page and keeps its stage.
LEMMA AfterProfileKeeps ==
  ASSUME IInv, AfterProfile, reply = "accepted", reply' = None,
         UNCHANGED <<core, page, planner>>
  PROVE  IInv'
<1> DEFINE r == Refreshed(guest)
<1>a. guest \in GuestType /\ page \in PageType /\ sub \in SubType /\ guest.at = "profile"
  BY DEF IInv, Typed, AfterProfile
<1>b. /\ r \in GuestType /\ r.plan = page.plan /\ r.stage = guest.stage
      /\ r.template = guest.template /\ r.acked = guest.acked
  BY <1>a, RefreshedKeeps
<1>c. /\ guest' \in GuestType /\ guest'.plan = page.plan /\ guest'.stage = guest.stage
      /\ guest'.at \in {"complete"}
      /\ guest'.template = guest.template /\ sub' = sub
  <2> HIDE DEF r
  <2> QED BY <1>a, <1>b DEF AfterProfile, GuestType, SubType, InFlight, r
<1> HIDE DEF r
<1>1. Typed'
  <2>1. core' \in CoreType /\ page' \in PageType
    BY DEF IInv, Typed
  <2>2. planner' \in PlannerType
    BY DEF IInv, Typed
  <2>3. guest' \in GuestType BY <1>c
  <2>4. sub' \in SubType /\ reply' \in {None, "accepted", "refused"}
    BY DEF IInv, Typed, AfterProfile
  <2> QED BY <2>1, <2>2, <2>3, <2>4 DEF Typed
<1>2. CorePlans'
  BY <1>c DEF IInv, CorePlans
<1>3. PlannerPlans'
  BY <1>c DEF IInv, PlannerPlans
<1>4. GuestPlans'
  BY <1>c DEF IInv, GuestPlans
<1>5. Stages'
  BY <1>c DEF IInv, Stages, None, AfterProfile
<1>6. Occurrence'
  BY <1>c DEF IInv, InFlight, Occurrence, AfterProfile
<1> QED BY <1>1, <1>2, <1>3, <1>4, <1>5, <1>6 DEF IInv

\* An accepted route changes nothing of the plan.
LEMMA AfterRouteKeeps ==
  ASSUME IInv, AfterRoute, reply = "accepted", reply' = None,
         UNCHANGED <<core, page, planner>>
  PROVE  IInv'
<1>1. Typed'
  BY DEF IInv, Typed, GuestType, InFlight, AfterRoute
<1>2. CorePlans'
  BY DEF IInv, CorePlans, AfterRoute
<1>3. PlannerPlans'
  BY DEF IInv, PlannerPlans, AfterRoute
<1>4. GuestPlans'
  BY DEF IInv, GuestPlans, AfterRoute
<1>5. Stages'
  BY DEF IInv, InFlight, Stages, AfterRoute
<1>6. Occurrence'
  BY DEF IInv, InFlight, Occurrence, AfterRoute
<1> QED BY <1>1, <1>2, <1>3, <1>4, <1>5, <1>6 DEF IInv

\* The guest follows the session into the next stage, which has no plan before Fast.
LEMMA AfterCompleteKeeps ==
  ASSUME IInv, AfterComplete, reply = "accepted", reply' = None,
         UNCHANGED <<core, page, planner>>
  PROVE  IInv'
<1> DEFINE r == Refreshed(guest)
<1>a. guest \in GuestType /\ page \in PageType /\ sub \in SubType /\ guest.at = "complete"
  BY DEF IInv, Typed, AfterComplete
<1>b. /\ r \in GuestType /\ r.plan = page.plan /\ r.stage = guest.stage
      /\ r.template = guest.template
  BY <1>a, RefreshedKeeps
<1>c. /\ guest' = [r EXCEPT !.at = "idle", !.stage = NextStage(r.stage),
                     !.template = IF guest.stage = "Learn" THEN sub.shape ELSE r.template]
      /\ NextStage(r.stage) \in Specialized
      /\ (IF guest.stage = "Learn" THEN sub.shape ELSE r.template) \in Names
  BY <1>a, <1>b DEF AfterComplete, NextStage, Specialized, SubType, GuestType
<1>d. /\ guest' \in GuestType /\ guest'.plan = page.plan
      /\ guest'.stage = NextStage(guest.stage) /\ guest'.at = "idle"
      /\ guest.stage # "Learn" => guest'.template = guest.template
  <2> HIDE DEF r
  <2> QED BY <1>b, <1>c DEF GuestType
<1> HIDE DEF r
<1>e. sub' \in SubType /\ ~("FORCE" \in sub'.flags)
  BY DEF AfterComplete, NoSub, SubType, Names
<1>f. guest.stage \in Specialized BY <1>a DEF IInv, Stages, InFlight
<1>1. Typed'
  <2>1. core' \in CoreType /\ page' \in PageType
    BY DEF IInv, Typed
  <2>2. planner' \in PlannerType
    BY DEF IInv, Typed
  <2>3. guest' \in GuestType BY <1>d
  <2>4. sub' \in SubType /\ reply' \in {None, "accepted", "refused"}
    BY <1>e DEF IInv
  <2> QED BY <2>1, <2>2, <2>3, <2>4 DEF Typed
<1>2. CorePlans'
  BY <1>d DEF IInv, CorePlans, NextStage
<1>3. PlannerPlans'
  BY <1>d DEF IInv, CorePlans, PlannerPlans
<1>4. GuestPlans'
  BY <1>d, <1>f DEF IInv, Specialized, GuestPlans, NextStage
<1>5. Stages'
  BY <1>d DEF IInv, Specialized, Stages, NextStage
<1>6. Occurrence'
  BY <1>e DEF IInv, InFlight, Occurrence, AfterComplete
<1> QED BY <1>1, <1>2, <1>3, <1>4, <1>5, <1>6 DEF IInv

\* The guest starts again after the session did.
LEMMA AfterRecoveredKeeps ==
  ASSUME IInv, AfterRecovered, reply = "accepted", reply' = None,
         UNCHANGED <<core, page, planner>>
  PROVE  IInv'
<1>a. guest.next \in Nat /\ guest' = NewGuest(guest.next) /\ guest.at = "recovered"
  BY DEF IInv, Typed, GuestType, AfterRecovered
<1>b. /\ guest' \in GuestType /\ guest'.plan = NoPlan
      /\ guest'.stage = "Detect" /\ guest'.at = "idle"
  BY <1>a, NewGuestEmpty
<1>c. core.stage = "Detect" /\ page.plan = NoPlan BY <1>a DEF IInv, Stages, GuestPlans
<1>d. core.active = NoPlan /\ core.pending = NoPlan /\ ~core.due
  BY <1>c DEF IInv, CorePlans
<1>e. sub' \in SubType /\ ~("FORCE" \in sub'.flags)
  BY DEF AfterRecovered, NoSub, SubType, Names
<1>1. Typed'
  <2>1. core' \in CoreType /\ page' \in PageType
    BY DEF IInv, Typed
  <2>2. planner' \in PlannerType
    BY DEF IInv, Typed
  <2>3. guest' \in GuestType BY <1>b
  <2>4. sub' \in SubType /\ reply' \in {None, "accepted", "refused"}
    BY <1>e DEF IInv
  <2> QED BY <2>1, <2>2, <2>3, <2>4 DEF Typed
<1>2. CorePlans'
  BY <1>d DEF IInv, CorePlans
<1>3. PlannerPlans'
  BY <1>d DEF IInv, PlannerPlans
<1>4. GuestPlans'
  BY <1>b DEF IInv, GuestPlans, AfterRecovered
<1>5. Stages'
  BY <1>b DEF IInv, InFlight, Stages, AfterRecovered
<1>6. Occurrence'
  BY <1>b, <1>e DEF IInv, Occurrence
<1> QED BY <1>1, <1>2, <1>3, <1>4, <1>5, <1>6 DEF IInv

-----------------------------------------------------------------------------
(* The theorems.                                                           *)

\* No plan anywhere at the start.
LEMMA InitHolds ==
  ASSUME Init
  PROVE  IInv
<1>1. 0 \in Nat /\ 1 \in Nat OBVIOUS
<1>2. /\ core \in CoreType /\ core.active = NoPlan /\ core.pending = NoPlan /\ ~core.due
      /\ core.stage = "Detect" /\ core.flags = {} /\ ~core.open
  BY <1>1, NewCoreEmpty DEF Init
<1>3. page \in PageType /\ page.plan = NoPlan BY <1>2, MessageOfCore DEF Init
<1>4. /\ guest \in GuestType /\ guest.plan = NoPlan
      /\ guest.stage = "Detect" /\ guest.at = "idle"
  BY <1>1, NewGuestEmpty DEF Init
<1>5. planner \in PlannerType /\ planner.at = "idle"
  BY DEF Init, NoPlanner, PlannerType, Names
<1>6. sub \in SubType /\ sub.flags = {} /\ reply = None
  BY DEF Init, NoSub, SubType, Names, Flags
<1>7. Typed BY <1>2, <1>3, <1>4, <1>5, <1>6 DEF Typed
<1>8. CorePlans /\ PlannerPlans /\ GuestPlans
  BY <1>2, <1>3, <1>4, <1>5, <1>6 DEF CorePlans, PlannerPlans, GuestPlans, None
<1>9. Stages /\ Occurrence
  BY <1>2, <1>4, <1>6 DEF Stages, Occurrence, InFlight, None
<1> QED BY <1>7, <1>8, <1>9 DEF IInv

\* The host's steps: each packet is taken or refused.
LEMMA HostStepKeeps ==
  ASSUME IInv, HostStep
  PROVE  IInv'
<1>1. \A kind \in {"begin", "mismatch", "prefix", "route", "profile", "complete",
                   "recovered"} : kind \in InFlight \ {"early", "active"}
  BY DEF InFlight
<1>2. CASE HostBegin
  <2>1. CASE AckOK /\ BeginOK(Acknowledged(core)) BY <1>2, <2>1, BeginKeeps
  <2>2. CASE ~(AckOK /\ BeginOK(Acknowledged(core)))
    BY <1>1, <1>2, <2>2, RefuseKeeps DEF HostBegin, Sent
  <2> QED BY <2>1, <2>2
<1>3. CASE HostMismatch
  <2>1. CASE core.stage \in Specialized BY <1>3, <2>1, MismatchKeeps
  <2>2. CASE ~(core.stage \in Specialized)
    BY <1>1, <1>3, <2>2, RefuseKeeps DEF HostMismatch, Sent
  <2> QED BY <2>1, <2>2
<1>4. CASE HostRoute
  <2>1. CASE RouteOK BY <1>4, <2>1, RouteKeeps
  <2>2. CASE ~RouteOK BY <1>1, <1>4, <2>2, RefuseKeeps DEF HostRoute, Sent
  <2> QED BY <2>1, <2>2
<1>5. CASE HostProfile
  <2>1. CASE core.open /\ core.last = sub.id BY <1>5, <2>1, ProfileKeeps
  <2>2. CASE ~(core.open /\ core.last = sub.id)
    BY <1>1, <1>5, <2>2, RefuseKeeps DEF HostProfile, Sent
  <2> QED BY <2>1, <2>2
<1>6. CASE HostComplete
  <2>1. CASE core.stage = guest.stage /\ ~core.open /\ core.last = sub.id
    BY <1>6, <2>1, CompleteKeeps
  <2>2. CASE ~(core.stage = guest.stage /\ ~core.open /\ core.last = sub.id)
    BY <1>1, <1>6, <2>2, RefuseKeeps DEF HostComplete, Sent
  <2> QED BY <2>1, <2>2
<1>7. CASE HostRecovered
  <2>1. CASE core.stage = "Recover" BY <1>7, <2>1, RecoveredKeeps
  <2>2. CASE core.stage # "Recover"
    BY <1>1, <1>7, <2>2, RefuseKeeps DEF HostRecovered, Sent
  <2> QED BY <2>1, <2>2
<1> QED BY <1>2, <1>3, <1>4, <1>5, <1>6, <1>7 DEF HostStep

\* The planner's steps.
LEMMA PlannerStepKeeps ==
  ASSUME IInv, PlannerStep
  PROVE  IInv'
<1> QED
  BY PlannerStartKeeps, PlannerInstallKeeps, PlannerDiscardsKeeps, PlannerPublishKeeps,
     PlannerSkipsKeeps, DeliveryFailedKeeps DEF PlannerStep

\* The guest's steps.
LEMMA GuestStepKeeps ==
  ASSUME IInv, GuestStep
  PROVE  IInv'
<1>1. CASE Announce BY <1>1, AnnounceKeeps
<1>2. CASE BeforeSubmit BY <1>2, BeforeSubmitKeeps
<1>3. CASE EarlyRoute BY <1>3, EarlyRouteKeeps
<1>4. CASE CompleteEarlyRoute BY <1>4, CompleteEarlyRouteKeeps
<1>5. CASE FallsBack BY <1>5, FallbackKeeps DEF FallsBack
<1>6. CASE AfterSubmit BY <1>6, AfterSubmitKeeps
<1>7. CASE Returns
  <2>1. reply = "accepted" /\ reply' = None /\ UNCHANGED <<core, page, planner>>
    BY <1>7 DEF Returns
  <2>2. CASE AfterBegin BY <2>1, <2>2, AfterBeginKeeps
  <2>3. CASE AfterMismatch BY <2>1, <2>3, AfterMismatchKeeps
  <2>4. CASE AfterRoute BY <2>1, <2>4, AfterRouteKeeps
  <2>5. CASE AfterProfile BY <2>1, <2>5, AfterProfileKeeps
  <2>6. CASE AfterComplete BY <2>1, <2>6, AfterCompleteKeeps
  <2>7. CASE AfterRecovered BY <2>1, <2>7, AfterRecoveredKeeps
  <2> QED BY <1>7, <2>2, <2>3, <2>4, <2>5, <2>6, <2>7 DEF Returns
<1>8. CASE GivesUp BY <1>8, GivesUpKeeps
<1>9. CASE RefusedFallsBack BY <1>9, FallbackKeeps DEF RefusedFallsBack
<1> QED BY <1>1, <1>2, <1>3, <1>4, <1>5, <1>6, <1>7, <1>8, <1>9 DEF GuestStep

\* Every step keeps the invariant.
LEMMA NextKeeps ==
  ASSUME IInv, [Next]_vars
  PROVE  IInv'
<1>1. CASE HostStep BY <1>1, HostStepKeeps
<1>2. CASE PlannerStep BY <1>2, PlannerStepKeeps
<1>3. CASE GuestStep BY <1>3, GuestStepKeeps
<1>4. CASE UNCHANGED vars
  BY <1>4 DEF vars, IInv, Typed, CorePlans, PlannerPlans, GuestPlans, Stages, Occurrence,
     Published
<1> QED BY <1>1, <1>2, <1>3, <1>4 DEF Next

\* The inductive invariant: plans, costs and messages of all three sides belong to the
\* template in use, with every packet and answer that may be under way.
THEOREM PlanInvariance == Spec => []IInv
<1>1. Init => IInv BY InitHolds
<1>2. IInv /\ [Next]_vars => IInv' BY NextKeeps
<1> QED BY <1>1, <1>2, PTL DEF Spec

\* No plan is due, being installed, pending, active or held by the guest for a template
\* that was given up: period_end, install_plan and clear_specialization of the core,
\* RefreshControlLocked and the reset of the guest.
THEOREM PlanBelongs == Spec => []PlanOfThisTemplate
<1>1. IInv => PlanOfThisTemplate
  BY DEF IInv, CorePlans, GuestPlans, PlanOfThisTemplate
<1> QED BY <1>1, PlanInvariance, PTL

-----------------------------------------------------------------------------
(* Nothing is refused.  While the session is in a stage of its own choosing *)
(* that the guest shares, the two sides agree on the open period, its       *)
(* number and flags, on the plans and on whether a fine profile is due,     *)
(* also when the planner has moved on since the guest looked.               *)

\* The host has not left the protocol by itself.
Joined == core.stage \in Specialized

\* The host has not heard of the occurrence, or is in it.
Unheard == guest.at = "begin" /\ reply # "accepted"
Opened ==
  \/ guest.at \in {"mismatch", "prefix", "early", "route", "active"}
  \/ guest.at = "begin" /\ reply = "accepted"
  \/ guest.at = "profile" /\ reply = None

\* The stages, and the period that is open at both sides
InStep ==
  Joined =>
    /\ guest.at \notin {"failed", "recovered"} /\ reply # "refused"
    /\ guest.at = "mismatch" => reply = None
    /\ sub.recovery => guest.at \in {"begin", "mismatch"}
    /\ IF guest.at = "complete" /\ reply = "accepted"
       THEN core.stage = NextStage(guest.stage) ELSE core.stage = guest.stage
    /\ core.open <=> Opened
    /\ core.open => core.flags = sub.flags

\* Periods are numbered one by one.
Numbered ==
  /\ guest.at \in InFlight => sub.id = guest.next - 1
  /\ core.stage # "Legacy" /\ guest.at # "failed" =>
       core.last = IF Unheard THEN guest.next - 2 ELSE guest.next - 1

\* A recovery the guest asked for
Recoveries ==
  /\ sub.recovery /\ guest.at \in {"route", "active"} =>
       core.stage = "Recover" /\ reply # "refused"
  /\ guest.at = "recovered" =>
       sub.recovery /\ reply # "refused" /\ (reply = None => core.stage = "Recover")
  /\ guest.at = "mismatch" => sub.recovery /\ (reply = "accepted" => core.stage = "Recover")
  /\ guest.at \in {"idle", "prefix", "early", "profile", "complete"} => ~sub.recovery
  /\ sub.early => ~sub.recovery
  /\ reply = "refused" => core.stage \in {"Recover", "Legacy"}
  /\ core.stage = "Legacy" =>
       reply = "refused" \/ guest.at = "failed" \/ guest.stage = "Legacy"
  /\ core.stage = "Detect" => ~core.open /\ core.ack.period = 0
  /\ guest.stage = "Detect" => guest.acked = 0

\* What one reads of the plans may be old, but is a plan of the session; and it
\* asks for every fine profile that is due.
Fits(m) ==
  /\ m.plan \in {NoPlan, core.active, core.pending}
  /\ core.active # NoPlan => m.plan # NoPlan
  /\ FineDue(core) => m.fine

\* That is so of the page, and of the guest's copy until its next packet is handled.
Shown == Joined => Fits(page)
Waits == guest.at = "idle" \/ (guest.at = "begin" /\ reply = None)
Copied == Joined /\ Waits => Fits(guest)

\* Plans are told apart by their epochs.
Epochs ==
  Joined =>
    /\ core.pending # NoPlan =>
         /\ core.pending.epoch > guest.acked /\ core.pending.epoch > core.active.epoch
         /\ core.pending.epoch <= core.next_plan_epoch
    /\ core.active.epoch <= core.next_plan_epoch /\ guest.acked <= core.next_plan_epoch
    /\ core.active # NoPlan =>
         /\ core.active.epoch > 0 /\ core.active.apply <= core.last
         /\ core.active.epoch = IF guest.at = "begin" /\ reply = "accepted" /\ sub.ack # 0
                                THEN sub.ack ELSE guest.acked
    /\ core.ack.period <= core.last

\* An occurrence b is planned by the guest g, or not.
FlaggedAs(b, g) ==
  IF b.epoch = 0 THEN b.ack = 0 /\ "SINGLE" \in b.flags
  ELSE b.flags = {"STABLE"} /\ g.stage = "Fast" /\ ~b.recovery
Flagged == Joined /\ guest.at \in InFlight => FlaggedAs(sub, guest)

\* One that the host has not seen is what it may be.
AskedAs(b, g) ==
  /\ "STABLE" \in b.flags => g.stage = "Fast"
  /\ g.stage = "Fast" /\ g.plan # NoPlan => "STABLE" \in b.flags
  /\ g.fine => SingleFine \subseteq b.flags
  /\ b.ack # 0 =>
       /\ b.epoch = b.ack /\ b.ack = core.pending.epoch /\ core.pending.apply <= b.id
       /\ b.shape = core.pending.shape /\ b.chunks = core.pending.chunks
  /\ b.epoch # 0 /\ b.ack = 0 =>
       /\ b.epoch = core.active.epoch
       /\ b.shape = core.active.shape /\ b.chunks = core.active.chunks
Asked == Joined /\ guest.at = "begin" /\ reply = None => AskedAs(sub, guest)

\* One that has begun is routed by the active plan.
Granted ==
  Joined /\ Opened /\ sub.epoch # 0 =>
    /\ core.stage = "Fast" /\ sub.epoch = core.active.epoch
    /\ sub.shape = core.active.shape /\ sub.chunks = core.active.chunks

\* A plan applies no later than with the next period.
Soonest ==
  /\ core.stage # "Legacy" => core.apply <= core.last + 1
  /\ planner.at = "planning" /\ planner.current => planner.apply <= core.last + 1

Loose == Numbered /\ Recoveries /\ Soonest
Tight == InStep /\ Flagged /\ Shown /\ Copied /\ Epochs /\ Asked /\ Granted
Ready == IInv /\ Loose /\ Tight

\* The types of what is counted.
LEMMA Counts ==
  ASSUME IInv
  PROVE  /\ core.last \in Nat /\ core.stable \in Nat /\ core.apply \in Nat
         /\ core.next_plan_epoch \in Nat /\ core.ack.period \in Nat
         /\ core.active.epoch \in Nat /\ core.active.apply \in Nat
         /\ core.pending.epoch \in Nat /\ core.pending.apply \in Nat
         /\ guest.next \in Nat /\ guest.acked \in Nat /\ guest.plan.epoch \in Nat
         /\ sub.id \in Nat /\ sub.ack \in Nat /\ sub.epoch \in Nat
         /\ planner.apply \in Nat
BY DEF IInv, Typed, CoreType, PlanType, GuestType, SubType, PlannerType

\* A session that has left its stage owes the guest nothing.
LEMMA LeftTight ==
  core'.stage \notin Specialized => Tight'
BY DEF Tight, Joined, InStep, Flagged, Shown, Copied, Epochs, Asked, Granted

\* What a session that recovers or goes Legacy keeps.
LEMMA LeavingKeeps ==
  ASSUME NEW c \in CoreType
  PROVE  /\ Recovering(c).last = c.last /\ Recovering(c).apply = c.apply
         /\ Recovering(c).stage = "Recover"
         /\ Legacy(c).stage = "Legacy"
BY DEF Recovering, Legacy, NewCore, CoreType

\* A packet is refused only by a session that has left the guest's stage.
LEMMA RefuseReady ==
  ASSUME Ready, Refuse, core.stage # Believed, reply = None,
         guest.at \in InFlight \ {"early", "active"}
  PROVE  Loose' /\ Tight'
<1>1. core \in CoreType /\ planner \in PlannerType
  BY DEF Ready, IInv, Typed
<1>2. /\ core'.stage \in {"Recover", "Legacy"} /\ reply' = "refused"
      /\ core'.stage # "Legacy" => core'.last = core.last /\ core'.apply = core.apply
      /\ planner'.current = FALSE /\ UNCHANGED <<guest, sub>>
  BY <1>1, LeavingKeeps DEF Refuse, PlannerType
<1>3. core.stage # "Legacy" /\ guest.stage \in Specialized
  BY DEF Ready, Loose, Recoveries, IInv, Stages, InFlight, None, Specialized
<1>4. guest.at # "recovered" /\ ~(sub.recovery /\ guest.at = "route")
  BY DEF Ready, Loose, Recoveries, Believed, None
<1>5. Numbered' /\ Soonest'
  BY <1>2, <1>3 DEF Ready, Loose, Numbered, Soonest, Unheard, None
<1>6. Recoveries'
  BY <1>2, <1>3, <1>4 DEF Ready, Loose, Recoveries, InFlight, None
<1>7. Tight'
  BY <1>2, LeftTight DEF Specialized
<1> QED BY <1>5, <1>6, <1>7 DEF Loose

\* The page could not be delivered.
LEMMA DeliveryFailedReady ==
  ASSUME Ready, DeliveryFailed
  PROVE  Loose' /\ Tight'
<1>1. core \in CoreType /\ planner \in PlannerType
  BY DEF Ready, IInv, Typed
<1>2. /\ core' = IF core.stage \in Specialized THEN Recovering(core) ELSE core
      /\ planner'.at = "idle" /\ UNCHANGED <<page, guest, sub, reply>>
  BY DEF DeliveryFailed, NoPlanner
<1>3. /\ core'.last = core.last /\ core'.apply = core.apply
      /\ IF core.stage \in Specialized THEN core'.stage = "Recover" ELSE core' = core
  BY <1>1, <1>2, LeavingKeeps
<1>4. Numbered' /\ Soonest'
  BY <1>2, <1>3 DEF Ready, Loose, Numbered, Soonest, Unheard, Specialized
<1>5. Recoveries'
  BY <1>2, <1>3 DEF Ready, Loose, Recoveries, Specialized
<1>6. Tight'
  BY <1>3, LeftTight DEF Specialized
<1> QED BY <1>4, <1>5, <1>6 DEF Loose

\* The guest goes Legacy, and takes the host with it.
LEMMA FallbackReady ==
  ASSUME Ready, FallbackToLegacy
  PROVE  Loose' /\ Tight'
<1>1. core \in CoreType /\ planner \in PlannerType
  BY DEF Ready, IInv, Typed
<1>2. /\ core'.stage = "Legacy" /\ guest'.stage = "Legacy" /\ guest'.at = "idle"
      /\ planner'.current = FALSE /\ sub' = NoSub /\ reply' = None
  BY <1>1, LeavingKeeps DEF FallbackToLegacy, NewGuest, PlannerType
<1>3. Numbered' /\ Soonest'
  BY <1>2 DEF Numbered, Soonest, InFlight
<1>4. Recoveries'
  BY <1>2 DEF Recoveries, NoSub, None
<1>5. Tight'
  BY <1>2, LeftTight DEF Specialized
<1> QED BY <1>3, <1>4, <1>5 DEF Loose

\* The guest gives up after a refusal.
LEMMA GivesUpReady ==
  ASSUME Ready, GivesUp
  PROVE  Loose' /\ Tight'
<1>1. guest \in GuestType
  BY DEF Ready, IInv, Typed
<1>2. /\ guest'.at = "failed" /\ guest'.stage = guest.stage /\ guest'.acked = guest.acked
      /\ core' = core /\ planner' = planner /\ sub' = sub
  BY <1>1 DEF GivesUp, GuestType
<1>3. core.stage \in {"Recover", "Legacy"}
  BY DEF GivesUp, Ready, Loose, Recoveries
<1>4. Numbered' /\ Soonest'
  BY <1>2 DEF Ready, Loose, Numbered, Soonest, InFlight
<1>5. Recoveries'
  BY <1>2, <1>3 DEF Ready, Loose, Recoveries, GivesUp, None
<1>6. Tight'
  BY <1>2, <1>3, LeftTight DEF Specialized
<1> QED BY <1>4, <1>5, <1>6 DEF Loose

\* A mismatch ends the stage.
LEMMA MismatchReady ==
  ASSUME Ready, HostMismatch, core.stage \in Specialized
  PROVE  Loose' /\ Tight'
<1>1. core \in CoreType
  BY DEF Ready, IInv, Typed
<1>2. /\ guest.at = "mismatch" /\ reply = None /\ core' = Recovering(core)
      /\ reply' = "accepted" /\ UNCHANGED <<guest, sub, planner>>
  BY DEF HostMismatch, Sent, Accept
<1>3. core'.last = core.last /\ core'.apply = core.apply /\ core'.stage = "Recover"
  BY <1>1, <1>2, LeavingKeeps
<1>4. Numbered' /\ Soonest'
  BY <1>2, <1>3 DEF Ready, Loose, Numbered, Soonest, Unheard, Specialized
<1>5. Recoveries'
  BY <1>2, <1>3 DEF Ready, Loose, Recoveries, None
<1>6. Tight'
  BY <1>3, LeftTight DEF Specialized
<1> QED BY <1>4, <1>5, <1>6 DEF Loose

\* A recovery ends in Detect, with the numbers as they were.
LEMMA RecoveredReady ==
  ASSUME Ready, HostRecovered, core.stage = "Recover"
  PROVE  Loose' /\ Tight'
<1>1. planner \in PlannerType
  BY DEF Ready, IInv, Typed
<1>2. /\ guest.at = "recovered" /\ reply = None /\ core' = Cleared(core)
      /\ reply' = "accepted" /\ UNCHANGED <<guest, sub>>
  BY DEF HostRecovered, Sent, Accept
<1>3. planner'.current = FALSE
  BY <1>1 DEF HostRecovered, PlannerType
<1>4. core'.last = core.last /\ core'.apply = 0 /\ core'.stage = "Detect" /\ ~core'.open
      /\ core'.ack.period = 0
  BY <1>2 DEF Cleared, NewCore
<1>5. core.last \in Nat
  BY Counts DEF Ready
<1>6. Numbered' /\ Soonest'
  BY <1>2, <1>3, <1>4, <1>5 DEF Ready, Loose, Numbered, Soonest, Unheard
<1>7. Recoveries'
  BY <1>2, <1>4 DEF Ready, Loose, Recoveries, None
<1>8. Tight'
  BY <1>4, LeftTight DEF Specialized
<1> QED BY <1>6, <1>7, <1>8 DEF Loose

-----------------------------------------------------------------------------
(* The planner, and the guest between packets.                             *)

\* A step that changes neither side leaves them in step.
LEMMA TightFrame ==
  ASSUME Tight, UNCHANGED <<core, page, guest, sub, reply>>
  PROVE  Tight'
BY DEF Tight, Joined, InStep, Opened, Flagged, FlaggedAs, Shown, Copied, Waits, Fits, Epochs,
       Asked, AskedAs, Granted, FineDue, Published, NextStage

\* A page just written shows what the core has.
LEMMA Written ==
  ASSUME page' = Message(core')
  PROVE  Fits(page)'
<1>1. /\ page'.plan = IF core'.pending # NoPlan THEN core'.pending ELSE core'.active
      /\ page'.fine = FineDue(core')
  BY DEF Message
<1> QED BY <1>1 DEF Fits, FineDue, Published

\* The planner starts for the next period.
LEMMA PlannerStartReady ==
  ASSUME Ready, PlannerStart
  PROVE  Loose' /\ Tight'
<1>1. UNCHANGED <<core, page, guest, sub, reply>> /\ core.due
  BY DEF PlannerStart
<1>2. core.stage # "Legacy"
  BY <1>1 DEF Ready, IInv, CorePlans
<1>3. planner'.apply = Larger(core.apply, core.last + 1)
  BY DEF PlannerStart
<1>4. Soonest'
  BY <1>1, <1>2, <1>3, Counts DEF Ready, Loose, Soonest, Larger
<1>5. Numbered' /\ Recoveries'
  BY <1>1 DEF Ready, Loose, Numbered, Recoveries, Unheard
<1>6. Tight'
  BY <1>1, TightFrame DEF Ready
<1> QED BY <1>4, <1>5, <1>6 DEF Loose

\* It ends without a plan, or skips the page.
LEMMA PlannerStopsReady ==
  ASSUME Ready, PlannerDiscards \/ PlannerSkips
  PROVE  Loose' /\ Tight'
<1>1. UNCHANGED <<core, page, guest, sub, reply>> /\ planner'.at = "idle"
  BY DEF PlannerDiscards, PlannerSkips, NoPlanner
<1>2. Numbered' /\ Recoveries' /\ Soonest'
  BY <1>1 DEF Ready, Loose, Numbered, Recoveries, Soonest, Unheard
<1>3. Tight'
  BY <1>1, TightFrame DEF Ready
<1> QED BY <1>2, <1>3 DEF Loose

\* It writes the page.
LEMMA PlannerPublishReady ==
  ASSUME Ready, PlannerPublish
  PROVE  Loose' /\ Tight'
<1>1. /\ UNCHANGED <<core, guest, sub, reply>> /\ planner'.at = "idle"
      /\ page' = Message(core')
  BY DEF PlannerPublish, NoPlanner
<1>2. Numbered' /\ Recoveries' /\ Soonest'
  BY <1>1 DEF Ready, Loose, Numbered, Recoveries, Soonest, Unheard
<1>3. Shown'
  BY <1>1, Written DEF Shown
<1>4. InStep' /\ Flagged' /\ Copied' /\ Epochs' /\ Asked' /\ Granted'
  BY <1>1 DEF Ready, Tight, Joined, InStep, Opened, Flagged, FlaggedAs, Copied, Waits, Fits,
     Epochs, Asked, AskedAs, Granted, FineDue, Published, NextStage
<1> QED BY <1>2, <1>3, <1>4 DEF Loose, Tight

\* A plan is installed behind the active one: no fine profile becomes due by it,
\* and no occurrence had acknowledged it.
LEMMA PlannerInstallReady ==
  ASSUME Ready, PlannerInstall
  PROVE  Loose' /\ Tight'
<1>1. PICK chunks \in 1 .. MaxChunks :
        core' = [core EXCEPT !.pending = Installable(chunks), !.due = FALSE,
                             !.next_plan_epoch = @ + 1]
  BY DEF PlannerInstall
<1>2. /\ core \in CoreType /\ core.pending = NoPlan /\ planner'.at = "publishing"
      /\ UNCHANGED <<page, guest, sub, reply>>
  BY DEF PlannerInstall, StillWanted, NoPlanner, Ready, IInv, Typed
<1> DEFINE p == Installable(chunks)
<1>3. p.epoch = core.next_plan_epoch + 1
  BY DEF Installable
<1> HIDE DEF p
<1>4. /\ core'.pending = p /\ core'.next_plan_epoch = core.next_plan_epoch + 1
      /\ core'.stage = core.stage /\ core'.last = core.last /\ core'.open = core.open
      /\ core'.flags = core.flags /\ core'.active = core.active /\ core'.ack = core.ack
      /\ core'.stable = core.stable /\ core'.apply = core.apply
  BY <1>1, <1>2 DEF CoreType, p
<1>5. NoPlan.epoch = 0 /\ core.pending.epoch = 0
  BY <1>2 DEF NoPlan
<1>6. p # NoPlan
  BY <1>3, <1>5, Counts DEF Ready
<1>7. FineDue(core') => FineDue(core)
  BY <1>4, <1>6 DEF FineDue, Published
<1>8. Numbered' /\ Recoveries' /\ Soonest'
  BY <1>2, <1>4 DEF Ready, Loose, Numbered, Recoveries, Soonest, Unheard
<1>9. InStep' /\ Flagged' /\ Granted'
  BY <1>2, <1>4 DEF Ready, Tight, Joined, InStep, Opened, Flagged, FlaggedAs, Granted,
     NextStage
<1>10. Shown' /\ Copied'
  BY <1>2, <1>4, <1>7 DEF Ready, Tight, Joined, Shown, Copied, Waits, Fits
<1>11. Epochs'
  BY <1>2, <1>3, <1>4, Counts DEF Ready, Tight, Joined, Epochs
<1>12. Asked'
  BY <1>2, <1>4, <1>5 DEF Ready, Tight, Joined, Asked, AskedAs
<1> QED BY <1>8, <1>9, <1>10, <1>11, <1>12 DEF Loose, Tight

\* Both sides enter Learn, with nothing planned.
LEMMA AnnounceReady ==
  ASSUME Ready, Announce
  PROVE  Loose' /\ Tight'
<1>1. /\ core \in CoreType /\ guest \in GuestType
      /\ guest.at = "idle" /\ guest.stage = "Detect" /\ core.stage = "Detect"
      /\ core' = [core EXCEPT !.stage = "Learn"] /\ page' = Message(core')
      /\ guest' = [guest EXCEPT !.stage = "Learn", !.plan = page'.plan, !.fine = page'.fine]
      /\ UNCHANGED <<planner, sub, reply>>
  BY DEF Announce, Ready, IInv, Typed
<1>2. /\ core'.stage = "Learn" /\ core'.last = core.last /\ core'.open = core.open
      /\ core'.active = core.active /\ core'.pending = core.pending
      /\ core'.ack = core.ack /\ core'.apply = core.apply
      /\ core'.next_plan_epoch = core.next_plan_epoch
  BY <1>1 DEF CoreType
<1>3. /\ guest'.stage = "Learn" /\ guest'.plan = page'.plan /\ guest'.fine = page'.fine
      /\ guest'.at = "idle" /\ guest'.next = guest.next /\ guest'.acked = guest.acked
  BY <1>1 DEF GuestType
<1>4. /\ guest.acked = 0 /\ ~core.open /\ core.ack.period = 0 /\ ~sub.recovery
  BY <1>1 DEF Ready, Loose, Recoveries
<1>5. core.active = NoPlan /\ core.pending = NoPlan /\ NoPlan.epoch = 0
  BY <1>1 DEF Ready, IInv, CorePlans, NoPlan
<1>6. reply = None
  BY <1>1 DEF Ready, IInv, Stages, InFlight
<1>7. Numbered' /\ Soonest'
  BY <1>1, <1>2, <1>3 DEF Ready, Loose, Numbered, Soonest, Unheard, InFlight
<1>8. Recoveries'
  BY <1>1, <1>2, <1>3, <1>6 DEF Ready, Loose, Recoveries, None
<1>9. Fits(page)'
  BY <1>1, Written
<1>10. Shown' /\ Copied'
  BY <1>3, <1>9 DEF Shown, Copied, Fits
<1>11. InStep' /\ Flagged' /\ Asked' /\ Granted'
  BY <1>1, <1>2, <1>3, <1>4, <1>6 DEF InStep, Flagged, Asked, Granted, Opened, InFlight, None
<1>12. Epochs'
  BY <1>2, <1>3, <1>4, <1>5, Counts DEF Epochs, Ready
<1> QED BY <1>7, <1>8, <1>10, <1>11, <1>12 DEF Loose, Tight

-----------------------------------------------------------------------------
(* The guest begins an occurrence.                                         *)

\* The fields of an occurrence.
BuiltAs(b, g, shape, mismatch, id) ==
  LET recovery == mismatch \/ (g.stage # "Learn" /\ shape # g.template)
  IN /\ b.id = id /\ b.shape = shape /\ b.recovery = recovery /\ b.early = FALSE
     /\ Planned(g, shape, id) /\ ~recovery =>
          /\ b.flags = {"STABLE"} /\ b.epoch = g.plan.epoch /\ b.chunks = g.plan.chunks
          /\ b.ack = IF PendingApplies(g, shape, id) THEN g.plan.epoch ELSE 0
     /\ ~(Planned(g, shape, id) /\ ~recovery) =>
          b.flags = FineFlags(g, recovery) /\ b.epoch = 0 /\ b.ack = 0

\* So BuildChunks makes them.
LEMMA BuiltFields ==
  ASSUME NEW g, NEW shape, NEW mismatch, NEW id
  PROVE  BuiltAs(BuildChunks(g, shape, mismatch, id), g, shape, mismatch, id)
BY DEF BuildChunks, BuiltAs

\* A fine profile is marked stable where plans are in use.
LEMMA FineFlagsAre ==
  ASSUME NEW g, NEW recovery
  PROVE  /\ SingleFine \subseteq FineFlags(g, recovery)
         /\ "SINGLE" \in FineFlags(g, recovery)
         /\ "STABLE" \in FineFlags(g, recovery) <=> g.stage = "Fast" /\ g.plan # NoPlan
BY DEF FineFlags, SingleFine

\* A guest whose copy fits builds an occurrence that the host may take.
LEMMA BuiltFits ==
  ASSUME Ready, Joined, guest.at = "idle",
         NEW g \in GuestType, Fits(g), g.stage = guest.stage, g.acked = guest.acked,
         NEW shape, NEW mismatch \in BOOLEAN, NEW id \in Nat
  PROVE  LET b == BuildChunks(g, shape, mismatch, id)
         IN FlaggedAs(b, g) /\ AskedAs(b, g)
<1> DEFINE b == BuildChunks(g, shape, mismatch, id)
           recovery == mismatch \/ (g.stage # "Learn" /\ shape # g.template)
<1>1. /\ b.id = id /\ b.shape = shape /\ b.recovery = recovery
      /\ Planned(g, shape, id) /\ ~recovery =>
           /\ b.flags = {"STABLE"} /\ b.epoch = g.plan.epoch /\ b.chunks = g.plan.chunks
           /\ b.ack = IF PendingApplies(g, shape, id) THEN g.plan.epoch ELSE 0
      /\ ~(Planned(g, shape, id) /\ ~recovery) =>
           b.flags = FineFlags(g, recovery) /\ b.epoch = 0 /\ b.ack = 0
  <2>1. BuiltAs(b, g, shape, mismatch, id)
    BY BuiltFields, Zenon
  <2> HIDE DEF b
  <2> QED BY <2>1 DEF BuiltAs
<1> HIDE DEF b, recovery
<1>2. CASE ~(Planned(g, shape, id) /\ ~recovery)
  <2>1. /\ SingleFine \subseteq b.flags /\ "SINGLE" \in b.flags
        /\ "STABLE" \in b.flags <=> g.stage = "Fast" /\ g.plan # NoPlan
        /\ b.epoch = 0 /\ b.ack = 0
    BY <1>1, <1>2, FineFlagsAre
  <2> QED BY <2>1 DEF FlaggedAs, AskedAs, b
<1>3. CASE Planned(g, shape, id) /\ ~recovery
  <2>1. /\ b.flags = {"STABLE"} /\ b.epoch = g.plan.epoch /\ b.chunks = g.plan.chunks
        /\ b.ack = IF PendingApplies(g, shape, id) THEN g.plan.epoch ELSE 0
        /\ ~b.recovery
    BY <1>1, <1>3
  <2>2. /\ g.stage = "Fast" /\ ~g.fine /\ g.plan # NoPlan /\ g.plan.shape = shape
        /\ IF PendingApplies(g, shape, id) THEN g.plan.epoch # g.acked /\ g.plan.apply <= id
                                           ELSE g.plan.epoch = g.acked
    BY <1>3 DEF Planned, PendingApplies, AlreadyActive, Geometry
  <2>3. /\ g.plan \in {core.active, core.pending}
        /\ core.active # NoPlan => core.active.epoch = guest.acked /\ core.active.epoch > 0
        /\ core.pending # NoPlan => core.pending.epoch > guest.acked
    BY <2>2 DEF Fits, Ready, Tight, Epochs
  <2>4. g.plan.epoch # 0
    BY <2>2, <2>3, Counts DEF Ready
  <2>5. /\ g.plan.epoch # g.acked => g.plan = core.pending
        /\ g.plan.epoch = g.acked => g.plan = core.active
    BY <2>2, <2>3, Counts DEF Ready
  <2>6. FlaggedAs(b, g)
    BY <2>1, <2>2, <2>4 DEF FlaggedAs
  <2>7. AskedAs(b, g)
    BY <1>1, <2>1, <2>2, <2>4, <2>5 DEF AskedAs
  <2> QED BY <2>6, <2>7 DEF b
<1> QED BY <1>2, <1>3

\* What follows when the guest begins occurrence b with its copy g.
LEMMA BegunReady ==
  ASSUME Ready, guest.at = "idle", NEW g \in GuestType, NEW b,
         Joined => Fits(g), g.stage = guest.stage, g.acked = guest.acked,
         g.next = guest.next,
         guest' = [g EXCEPT !.at = "begin", !.next = @ + 1],
         sub' = b, b.id = guest.next, b.early => ~b.recovery,
         Joined => FlaggedAs(b, g) /\ AskedAs(b, g),
         UNCHANGED <<core, page, planner, reply>>
  PROVE  Loose' /\ Tight'
<1>1. /\ guest'.at = "begin" /\ guest'.next = guest.next + 1 /\ guest'.stage = guest.stage
      /\ guest'.plan = g.plan /\ guest'.fine = g.fine /\ guest'.acked = guest.acked
  BY DEF GuestType
<1>2. reply = None
  BY DEF Ready, IInv, Stages, InFlight
<1>3. Numbered'
  BY <1>1, <1>2, Counts DEF Ready, Loose, Numbered, Unheard, InFlight, None
<1>4. Recoveries' /\ Soonest'
  BY <1>1, <1>2 DEF Ready, Loose, Recoveries, Soonest, None
<1>5. InStep'
  BY <1>1, <1>2 DEF Ready, Tight, Joined, InStep, Opened, None
<1>6. Shown' /\ Copied'
  BY <1>1 DEF Ready, Tight, Joined, Shown, Copied, Fits, FineDue, Published
<1>7. Epochs' /\ Granted'
  BY <1>1, <1>2 DEF Ready, Tight, Joined, Epochs, Granted, Opened, None
<1>8. Flagged' /\ Asked'
  BY <1>1 DEF Joined, Flagged, Asked, FlaggedAs, AskedAs
<1> QED BY <1>3, <1>4, <1>5, <1>6, <1>7, <1>8 DEF Loose, Tight

\* The guest reads the page and begins the occurrence that is submitted.
LEMMA BeforeSubmitReady ==
  ASSUME Ready, BeforeSubmit
  PROVE  Loose' /\ Tight'
<1> DEFINE r == Refreshed(guest)
<1>1. /\ guest \in GuestType /\ page \in PageType /\ guest.at = "idle"
      /\ guest' = [r EXCEPT !.at = "begin", !.next = @ + 1]
      /\ UNCHANGED <<core, page, planner, reply>> /\ guest.next \in Nat
  BY Counts DEF BeforeSubmit, Ready, IInv, Typed
<1>2. PICK shape \in Shapes, mismatch \in BOOLEAN :
        sub' = BuildChunks(r, shape, mismatch, guest.next)
  BY DEF BeforeSubmit
<1>3. /\ r \in GuestType /\ r.plan = page.plan /\ r.stage = guest.stage
      /\ r.acked = guest.acked /\ r.next = guest.next
  BY <1>1, RefreshedKeeps
<1>4. r.fine = page.fine
  BY <1>1 DEF Refreshed, GuestType
<1> HIDE DEF r
<1>5. Joined => Fits(r)
  BY <1>3, <1>4 DEF Ready, Tight, Shown, Fits
<1> DEFINE b == BuildChunks(r, shape, mismatch, guest.next)
<1>6. b.id = guest.next /\ ~b.early
  <2>1. BuiltAs(b, r, shape, mismatch, guest.next)
    BY BuiltFields, Zenon
  <2> HIDE DEF b
  <2> QED BY <2>1 DEF BuiltAs
<1>7. Joined => FlaggedAs(b, r) /\ AskedAs(b, r)
  BY <1>1, <1>3, <1>5, BuiltFits
<1> HIDE DEF b
<1>8. sub' = b
  BY <1>2 DEF b
<1> QED BY <1>1, <1>3, <1>5, <1>6, <1>7, <1>8, BegunReady

\* An early route begins with the copy the guest has.
LEMMA EarlyRouteReady ==
  ASSUME Ready, EarlyRoute
  PROVE  Loose' /\ Tight'
<1> DEFINE e == BuildChunks(guest, guest.template, FALSE, guest.next)
           b == [e EXCEPT !.early = TRUE]
<1>1. /\ guest \in GuestType /\ guest.at = "idle" /\ guest.next \in Nat
      /\ guest' = [guest EXCEPT !.at = "begin", !.next = @ + 1] /\ sub' = b
      /\ UNCHANGED <<core, page, planner, reply>>
  BY Counts DEF EarlyRoute, Ready, IInv, Typed
<1>2. Joined => Fits(guest)
  BY <1>1 DEF Ready, Tight, Copied, Waits
<1>3. e.id = guest.next /\ ~e.recovery
  <2>1. BuiltAs(e, guest, guest.template, FALSE, guest.next)
    BY BuiltFields, Zenon
  <2> HIDE DEF e
  <2> QED BY <2>1 DEF BuiltAs
<1>4. Joined => FlaggedAs(e, guest) /\ AskedAs(e, guest)
  BY <1>1, <1>2, BuiltFits
<1>5. e \in SubType
  <2>1. guest.template \in Names
    BY <1>1 DEF GuestType
  <2> HIDE DEF e
  <2>2. OccurrenceOf(e, guest, guest.template)
    BY <1>1, <2>1, BuiltOccurrence DEF e
  <2> QED BY <2>2 DEF OccurrenceOf
<1> HIDE DEF e
<1>6. /\ b.id = e.id /\ b.recovery = e.recovery /\ b.flags = e.flags /\ b.ack = e.ack
      /\ b.epoch = e.epoch /\ b.shape = e.shape /\ b.chunks = e.chunks
  BY <1>5 DEF SubType
<1> HIDE DEF b
<1>7. Joined => FlaggedAs(b, guest) /\ AskedAs(b, guest)
  BY <1>4, <1>6 DEF FlaggedAs, AskedAs
<1> QED BY <1>1, <1>2, <1>3, <1>6, <1>7, BegunReady

-----------------------------------------------------------------------------
(* The host takes a packet.                                                *)

\* A period that begins on both sides: an acknowledgement installs the pending
\* plan, and nothing else changes a plan.
BegunAs(c) ==
  /\ c.stage = core.stage /\ c.open /\ c.last = sub.id /\ c.flags = sub.flags
  /\ c.apply = core.apply /\ c.next_plan_epoch = core.next_plan_epoch
  /\ c.stable = core.stable
  /\ IF sub.ack = 0
     THEN c.active = core.active /\ c.pending = core.pending /\ c.ack = core.ack
     ELSE /\ c.active.epoch = sub.ack /\ c.active.apply = sub.id
          /\ c.active.shape = core.pending.shape /\ c.active.chunks = core.pending.chunks
          /\ c.pending = NoPlan /\ c.ack.period = sub.id

\* The core after a begin it accepts.
LEMMA BeginIs ==
  ASSUME IInv, HostBegin, AckOK, BeginOK(Acknowledged(core)),
         core.ack.period <= core.last
  PROVE  BegunAs(core')
<1> DEFINE a == Acknowledged(core)
           i == Installed(a)
<1>1. /\ core \in CoreType /\ sub \in SubType
      /\ core' = [i EXCEPT !.open = TRUE, !.last = sub.id, !.flags = sub.flags]
  BY DEF IInv, Typed, HostBegin, Accept
<1>2. CASE sub.ack = 0
  <2>1. a = core
    BY <1>2 DEF Acknowledged
  <2>2. core.ack.period # sub.id
    <3>1. sub.id > core.last
      BY <2>1 DEF BeginOK
    <3> QED BY <3>1, Counts
  <2>3. i = core
    BY <2>1, <2>2 DEF Installed
  <2> QED BY <1>1, <1>2, <2>3 DEF BegunAs, CoreType
<1>3. CASE sub.ack # 0
  <2> DEFINE p == [core.pending EXCEPT !.apply = sub.id]
             k == [epoch |-> sub.ack, period |-> sub.id]
  <2>1. core.pending \in PlanType /\ sub.id \in Nat /\ core.pending.epoch = sub.ack
    BY <1>1, <1>3 DEF CoreType, SubType, AckOK
  <2>2. /\ p \in PlanType /\ p.epoch = sub.ack /\ p.apply = sub.id
        /\ p.shape = core.pending.shape /\ p.chunks = core.pending.chunks
    BY <2>1 DEF PlanType
  <2>3. k.epoch = sub.ack /\ k.period = sub.id /\ k \in [epoch : Nat, period : Nat]
    BY <1>1 DEF SubType
  <2>4. a = [core EXCEPT !.ack = k, !.pending = p]
    BY <1>3 DEF Acknowledged
  <2>5. k = [epoch |-> p.epoch, period |-> sub.id]
    BY <2>2
  <2>6. p # NoPlan
    BY <1>3, <2>2 DEF NoPlan
  <2> HIDE DEF p, k, a
  <2>7. /\ a.pending = p /\ a.ack = k /\ a.stage = core.stage /\ a.apply = core.apply
        /\ a.next_plan_epoch = core.next_plan_epoch /\ a.stable = core.stable
        /\ a \in CoreType
    BY <1>1, <2>2, <2>3, <2>4 DEF CoreType
  <2>8. i = [a EXCEPT !.active = p, !.pending = NoPlan]
    BY <2>2, <2>5, <2>6, <2>7 DEF Installed
  <2>9. NoPlan \in PlanType
    BY DEF NoPlan, PlanType, Names
  <2> HIDE DEF i
  <2>10. /\ i.active = p /\ i.pending = NoPlan /\ i.ack = k /\ i.stage = core.stage
         /\ i.apply = core.apply /\ i.next_plan_epoch = core.next_plan_epoch
         /\ i.stable = core.stable /\ i \in CoreType
    BY <2>2, <2>7, <2>8, <2>9 DEF CoreType
  <2>11. /\ core'.active = p /\ core'.pending = NoPlan /\ core'.ack = k
         /\ core'.stage = core.stage /\ core'.open /\ core'.last = sub.id
         /\ core'.flags = sub.flags /\ core'.apply = core.apply
         /\ core'.next_plan_epoch = core.next_plan_epoch /\ core'.stable = core.stable
    BY <1>1, <2>10 DEF CoreType
  <2> QED BY <1>3, <2>2, <2>3, <2>11 DEF BegunAs
<1> QED BY <1>2, <1>3

\* A PERIOD_BEGIN that is taken opens the period of the occurrence.
LEMMA BeginReady ==
  ASSUME Ready, HostBegin, AckOK, BeginOK(Acknowledged(core))
  PROVE  Loose' /\ Tight'
<1>1. /\ guest.at = "begin" /\ reply = None /\ reply' = "accepted"
      /\ page' = Message(core') /\ UNCHANGED <<planner, guest, sub>>
  BY DEF HostBegin, Sent, Accept
<1>2. core.stage \in Specialized
  <2>1. Acknowledged(core).stage = core.stage
    BY DEF Acknowledged, Ready, IInv, Typed, CoreType
  <2> QED BY <2>1 DEF BeginOK
<1>3. BegunAs(core')
  BY <1>2, BeginIs DEF Ready, Tight, Epochs, Joined
<1>4. /\ sub.id = guest.next - 1 /\ core.last = guest.next - 2
      /\ core.stage = guest.stage /\ FlaggedAs(sub, guest) /\ AskedAs(sub, guest)
  BY <1>1, <1>2 DEF Ready, Loose, Tight, Numbered, Unheard, InStep, Flagged, Asked, Joined,
     InFlight, None, Specialized
<1>5. Numbered' /\ Soonest'
  BY <1>1, <1>3, <1>4, Counts DEF Ready, Loose, Numbered, Unheard, Soonest, BegunAs
<1>6. Recoveries'
  BY <1>1, <1>2, <1>3 DEF Ready, Loose, Recoveries, BegunAs, Specialized
<1>7. InStep' /\ Flagged'
  BY <1>1, <1>3, <1>4 DEF InStep, Flagged, Joined, Opened, BegunAs, FlaggedAs, InFlight
<1>8. Shown' /\ Copied' /\ Asked'
  BY <1>1, Written DEF Shown, Copied, Waits, Asked, None
<1>9. Epochs'
  <2>1. /\ core.active.epoch <= core.next_plan_epoch /\ guest.acked <= core.next_plan_epoch
        /\ core.ack.period <= core.last
        /\ core.pending # NoPlan =>
             /\ core.pending.epoch > guest.acked /\ core.pending.epoch > core.active.epoch
             /\ core.pending.epoch <= core.next_plan_epoch
        /\ core.active # NoPlan =>
             /\ core.active.epoch > 0 /\ core.active.apply <= core.last
             /\ core.active.epoch = guest.acked
    BY <1>1, <1>2 DEF Ready, Tight, Epochs, Joined, None
  <2>2. CASE sub.ack = 0
    BY <1>1, <1>3, <1>4, <2>1, <2>2, Counts DEF Ready, Epochs, BegunAs
  <2>3. CASE sub.ack # 0
    <3>1. sub.ack = core.pending.epoch /\ core.pending # NoPlan
      BY <1>4, <2>3 DEF AskedAs, NoPlan
    <3>2. /\ core'.active.epoch = sub.ack /\ core'.active.apply = sub.id
          /\ core'.pending = NoPlan /\ core'.ack.period = sub.id /\ core'.last = sub.id
          /\ core'.next_plan_epoch = core.next_plan_epoch
      BY <1>3, <2>3 DEF BegunAs
    <3> QED BY <1>1, <2>1, <2>3, <3>1, <3>2, Counts DEF Ready, Epochs
  <2> QED BY <2>2, <2>3
<1>10. Granted'
  <2>1. core'.stage = core.stage
    BY <1>3 DEF BegunAs
  <2>2. CASE sub.ack = 0
    BY <1>1, <1>3, <1>4, <2>2 DEF Granted, BegunAs, AskedAs, FlaggedAs
  <2>3. CASE sub.ack # 0
    BY <1>1, <1>3, <1>4, <2>3 DEF Granted, BegunAs, AskedAs, FlaggedAs
  <2> QED BY <2>2, <2>3
<1> QED BY <1>5, <1>6, <1>7, <1>8, <1>9, <1>10 DEF Loose, Tight

\* A route changes nothing of this.
LEMMA RouteReady ==
  ASSUME Ready, guest.at \in {"route", "prefix"}, reply = None, reply' = "accepted",
         UNCHANGED <<core, page, planner, guest, sub>>
  PROVE  Loose' /\ Tight'
<1>1. Numbered' /\ Recoveries' /\ Soonest'
  BY DEF Ready, Loose, Numbered, Recoveries, Soonest, Unheard, None
<1>2. Tight'
  BY DEF Ready, Tight, Joined, InStep, Opened, Flagged, FlaggedAs, Shown, Copied, Waits, Fits,
     Epochs, Asked, AskedAs, Granted, FineDue, Published, NextStage
<1> QED BY <1>1, <1>2 DEF Loose

\* A complete profile closes the period.
LEMMA ProfileReady ==
  ASSUME Ready, HostProfile, core.open, core.last = sub.id
  PROVE  Loose' /\ Tight'
<1>1. /\ guest.at = "profile" /\ reply = None /\ reply' = "accepted"
      /\ core' = ProfileEnded(core) /\ page' = Message(core')
      /\ planner'.current => planner.current
      /\ planner'.at = planner.at /\ planner'.apply = planner.apply
      /\ UNCHANGED <<guest, sub>>
  BY DEF HostProfile, Sent, Accept, Ready, IInv, Typed, PlannerType
<1>2. /\ core'.stage = core.stage /\ ~core'.open /\ core'.last = core.last
      /\ core'.active = core.active /\ core'.pending = core.pending
      /\ core'.ack = core.ack /\ core'.next_plan_epoch = core.next_plan_epoch
      /\ core'.apply \in {core.apply, core.last + 1}
  BY <1>1 DEF ProfileEnded, Ready, IInv, Typed, CoreType
<1>3. Numbered' /\ Soonest'
  BY <1>1, <1>2, Counts DEF Ready, Loose, Numbered, Unheard, Soonest
<1>4. Recoveries'
  BY <1>1, <1>2 DEF Ready, Loose, Recoveries, None
<1>5. InStep' /\ Flagged'
  BY <1>1, <1>2 DEF Ready, Tight, Joined, InStep, Opened, Flagged, FlaggedAs, None
<1>6. Shown' /\ Copied' /\ Asked' /\ Granted'
  BY <1>1, <1>2, Written DEF Shown, Copied, Waits, Asked, Granted, Opened, None
<1>7. Epochs'
  BY <1>1, <1>2 DEF Ready, Tight, Joined, Epochs
<1> QED BY <1>3, <1>4, <1>5, <1>6, <1>7 DEF Loose, Tight

\* The stage goes on.
LEMMA CompleteReady ==
  ASSUME Ready, HostComplete, core.stage = guest.stage, ~core.open, core.last = sub.id
  PROVE  Loose' /\ Tight'
<1>1. /\ guest.at = "complete" /\ reply = None /\ reply' = "accepted"
      /\ core' = [core EXCEPT !.stage = NextStage(@)] /\ page' = Message(core')
      /\ UNCHANGED <<planner, guest, sub>>
  BY DEF HostComplete, Sent, Accept
<1>2. /\ core'.stage = NextStage(guest.stage) /\ core'.open = core.open
      /\ core'.last = core.last /\ core'.flags = core.flags
      /\ core'.active = core.active /\ core'.pending = core.pending
      /\ core'.ack = core.ack /\ core'.next_plan_epoch = core.next_plan_epoch
      /\ core'.apply = core.apply
  BY <1>1 DEF Ready, IInv, Typed, CoreType
<1>3. core.stage \in Specialized /\ core'.stage \in {"Match", "Fast"}
  BY <1>1, <1>2 DEF Ready, IInv, Stages, InFlight, NextStage
<1>4. Numbered' /\ Soonest'
  BY <1>1, <1>2, <1>3 DEF Ready, Loose, Numbered, Unheard, Soonest, Specialized
<1>5. Recoveries'
  BY <1>1, <1>2, <1>3 DEF Ready, Loose, Recoveries, None
<1>6. InStep' /\ Flagged'
  BY <1>1, <1>2, <1>3 DEF Ready, Tight, Joined, InStep, Opened, Flagged, FlaggedAs, None
<1>7. Shown' /\ Copied' /\ Asked' /\ Granted'
  BY <1>1, Written DEF Shown, Copied, Waits, Asked, Granted, Opened, None
<1>8. Epochs'
  BY <1>1, <1>2, <1>3 DEF Ready, Tight, Joined, Epochs
<1> QED BY <1>4, <1>5, <1>6, <1>7, <1>8 DEF Loose, Tight

-----------------------------------------------------------------------------
(* The guest returns from a packet.                                        *)

\* What an early route left is completed.
LEMMA CompleteEarlyRouteReady ==
  ASSUME Ready, CompleteEarlyRoute
  PROVE  Loose' /\ Tight'
<1>1. /\ guest.at = "early" /\ guest'.at = "route" /\ guest'.stage = guest.stage
      /\ guest'.next = guest.next /\ guest'.acked = guest.acked
      /\ UNCHANGED <<core, page, planner, sub, reply>>
  BY DEF CompleteEarlyRoute, Refreshed, Ready, IInv, Typed, GuestType
<1>2. reply = None
  BY <1>1 DEF Ready, IInv, Stages, InFlight
<1>3. Numbered' /\ Recoveries' /\ Soonest'
  BY <1>1, <1>2 DEF Ready, Loose, Numbered, Recoveries, Soonest, Unheard, InFlight, None
<1>4. Tight'
  BY <1>1, <1>2 DEF Ready, Tight, Joined, InStep, Opened, Flagged, FlaggedAs, Shown, Copied,
     Waits, Fits, Epochs, Asked, Granted, FineDue, Published, InFlight, None
<1> QED BY <1>3, <1>4 DEF Loose

\* The submission succeeded.
LEMMA AfterSubmitReady ==
  ASSUME Ready, AfterSubmit
  PROVE  Loose' /\ Tight'
<1>1. /\ guest.at = "active" /\ guest'.stage = guest.stage
      /\ guest'.at = IF sub.recovery THEN "recovered" ELSE "profile"
      /\ guest'.next = guest.next /\ guest'.acked = guest.acked
      /\ UNCHANGED <<core, page, planner, sub, reply>>
  BY DEF AfterSubmit, Ready, IInv, Typed, GuestType
<1>2. reply = None
  BY <1>1 DEF Ready, IInv, Stages, InFlight
<1>3. sub.recovery => core.stage = "Recover"
  BY <1>1 DEF Ready, Loose, Recoveries
<1>4. Numbered' /\ Soonest'
  BY <1>1 DEF Ready, Loose, Numbered, Soonest, Unheard, InFlight
<1>5. Recoveries'
  BY <1>1, <1>2, <1>3 DEF Ready, Loose, Recoveries, None
<1>6. Tight'
  BY <1>1, <1>2, <1>3 DEF Ready, Tight, Joined, InStep, Opened, Flagged, FlaggedAs, Shown,
     Copied, Waits, Fits, Epochs, Asked, Granted, FineDue, Published, InFlight, None,
     Specialized
<1> QED BY <1>4, <1>5, <1>6 DEF Loose

\* A return that leaves host and occurrence alone, to a phase in which the
\* occurrence is open as before.
LEMMA ReturnReady ==
  ASSUME Ready, UNCHANGED <<core, page, planner, sub>>, reply = "accepted", reply' = None,
         guest.at \in InFlight, guest'.at \in InFlight \ {"begin", "recovered"},
         guest'.next = guest.next, guest'.stage = guest.stage, ~Unheard,
         Joined => /\ Opened' <=> Opened
                   /\ guest.at # "complete" /\ (sub.recovery => guest'.at = "mismatch"),
         guest'.acked = IF guest.at = "begin" /\ sub.ack # 0 THEN sub.ack ELSE guest.acked,
         guest'.at \in {"prefix", "early", "profile", "complete"} => ~sub.recovery,
         guest'.at \in {"route", "active"} /\ sub.recovery => core.stage = "Recover",
         guest'.at = "mismatch" => sub.recovery
  PROVE  Loose' /\ Tight'
<1>1. Numbered' /\ Soonest'
  BY DEF Ready, Loose, Numbered, Soonest, Unheard, InFlight
<1>2. Recoveries'
  BY DEF Ready, Loose, Recoveries, IInv, Stages, InFlight, Specialized, None
<1>3. InStep' /\ Flagged'
  BY DEF Ready, Tight, Joined, InStep, Flagged, FlaggedAs, InFlight, None
<1>4. Shown' /\ Copied' /\ Asked'
  BY DEF Ready, Tight, Joined, Shown, Copied, Waits, Asked, Fits, FineDue, Published,
     InFlight
<1>5. Granted'
  BY DEF Ready, Tight, Joined, Granted
<1>6. Epochs'
  <2>1. CASE guest.at = "begin" /\ sub.ack # 0
    <3>1. Joined => sub.epoch # 0
      BY <2>1 DEF Ready, Tight, Flagged, FlaggedAs
    <3>2. Joined => sub.epoch = core.active.epoch
      BY <2>1, <3>1 DEF Ready, Tight, Granted, Opened
    <3>3. Joined => core.active # NoPlan
      BY <3>1, <3>2 DEF NoPlan
    <3>4. guest'.acked = sub.ack
      BY <2>1
    <3> QED BY <2>1, <3>3, <3>4, Counts DEF Ready, Tight, Epochs, Joined, None
  <2>2. CASE ~(guest.at = "begin" /\ sub.ack # 0)
    <3>1. guest'.acked = guest.acked
      BY <2>2
    <3> QED BY <2>2, <3>1 DEF Ready, Tight, Epochs, Joined, None
  <2> QED BY <2>1, <2>2
<1> QED BY <1>1, <1>2, <1>3, <1>4, <1>5, <1>6 DEF Loose, Tight

\* After a PERIOD_BEGIN the guest has acknowledged the plan it named.
LEMMA AfterBeginReady ==
  ASSUME Ready, AfterBegin, reply = "accepted", reply' = None,
         UNCHANGED <<core, page, planner>>
  PROVE  Loose' /\ Tight'
<1> DEFINE r == Refreshed(guest)
<1>1. /\ guest \in GuestType /\ page \in PageType /\ guest.at = "begin" /\ sub' = sub
      /\ sub \in SubType
      /\ guest' = [r EXCEPT !.at = IF sub.recovery THEN "mismatch"
                                   ELSE IF sub.early THEN "prefix" ELSE "route",
                            !.acked = IF sub.ack # 0 THEN sub.ack ELSE @]
  BY DEF AfterBegin, Ready, IInv, Typed
<1>2. /\ r \in GuestType /\ r.stage = guest.stage /\ r.acked = guest.acked
      /\ r.next = guest.next
  BY <1>1, RefreshedKeeps
<1> HIDE DEF r
<1>3. /\ guest'.at = IF sub.recovery THEN "mismatch"
                     ELSE IF sub.early THEN "prefix" ELSE "route"
      /\ guest'.acked = IF sub.ack # 0 THEN sub.ack ELSE guest.acked
      /\ guest'.next = guest.next /\ guest'.stage = guest.stage
  BY <1>1, <1>2 DEF GuestType
<1>4. guest.at \in InFlight /\ guest'.at \in InFlight \ {"begin", "recovered"}
  BY <1>1, <1>3 DEF InFlight
<1>5. ~Unheard /\ Opened /\ Opened'
  BY <1>1, <1>3 DEF Unheard, Opened
<1> QED BY <1>1, <1>3, <1>4, <1>5, ReturnReady

\* After a mismatch the host recovers.
LEMMA AfterMismatchReady ==
  ASSUME Ready, AfterMismatch, reply = "accepted", reply' = None,
         UNCHANGED <<core, page, planner>>
  PROVE  Loose' /\ Tight'
<1>1. /\ guest.at = "mismatch" /\ sub' = sub /\ guest'.at = "route"
      /\ guest'.acked = guest.acked
      /\ guest'.next = guest.next /\ guest'.stage = guest.stage
  BY DEF AfterMismatch, Refreshed, Ready, IInv, Typed, GuestType
<1>2. core.stage = "Recover"
  BY <1>1 DEF Ready, Loose, Recoveries
<1>3. guest.at \in InFlight /\ guest'.at \in InFlight \ {"begin", "recovered"} /\ ~Unheard
  BY <1>1 DEF InFlight, Unheard
<1> QED BY <1>1, <1>2, <1>3, ReturnReady DEF Joined, Specialized

\* After a route, all of it or the part that goes ahead is with the host.
LEMMA AfterRouteReady ==
  ASSUME Ready, AfterRoute, reply = "accepted", reply' = None,
         UNCHANGED <<core, page, planner>>
  PROVE  Loose' /\ Tight'
<1>1. /\ guest.at \in {"prefix", "route"} /\ sub' = sub
      /\ guest'.at = IF guest.at = "prefix" THEN "early" ELSE "active"
      /\ guest'.acked = guest.acked
      /\ guest'.next = guest.next /\ guest'.stage = guest.stage
  BY DEF AfterRoute, Ready, IInv, Typed, GuestType
<1>2. /\ guest.at = "prefix" => ~sub.recovery
      /\ guest.at = "route" /\ sub.recovery => core.stage = "Recover"
  BY DEF Ready, Loose, Recoveries
<1>3. guest.at \in InFlight /\ guest'.at \in InFlight \ {"begin", "recovered"} /\ ~Unheard
  BY <1>1 DEF InFlight, Unheard
<1>4. Opened /\ Opened'
  BY <1>1 DEF Opened
<1> QED BY <1>1, <1>2, <1>3, <1>4, ReturnReady DEF Joined, Specialized

\* After a profile the period is closed.
LEMMA AfterProfileReady ==
  ASSUME Ready, AfterProfile, reply = "accepted", reply' = None,
         UNCHANGED <<core, page, planner>>
  PROVE  Loose' /\ Tight'
<1>1. /\ guest.at = "profile" /\ sub' = sub /\ guest'.at = "complete"
      /\ guest'.acked = guest.acked
      /\ guest'.next = guest.next /\ guest'.stage = guest.stage
  BY DEF AfterProfile, Refreshed, Ready, IInv, Typed, GuestType
<1>2. ~sub.recovery
  BY <1>1 DEF Ready, Loose, Recoveries
<1>3. guest.at \in InFlight /\ guest'.at \in InFlight \ {"begin", "recovered"} /\ ~Unheard
  BY <1>1 DEF InFlight, Unheard
<1>4. ~Opened /\ ~Opened'
  BY <1>1 DEF Opened, None
<1> QED BY <1>1, <1>2, <1>3, <1>4, ReturnReady

\* The next stage, in which the guest knows what the page shows.
LEMMA AfterCompleteReady ==
  ASSUME Ready, AfterComplete, reply = "accepted", reply' = None,
         UNCHANGED <<core, page, planner>>
  PROVE  Loose' /\ Tight'
<1> DEFINE r == Refreshed(guest)
<1>1. /\ guest \in GuestType /\ page \in PageType /\ guest.at = "complete" /\ sub' = NoSub
      /\ guest' = [r EXCEPT !.at = "idle", !.stage = NextStage(@),
                            !.template = IF guest.stage = "Learn" THEN sub.shape ELSE @]
  BY DEF AfterComplete, Ready, IInv, Typed
<1>2. /\ r \in GuestType /\ r.plan = page.plan /\ r.stage = guest.stage
      /\ r.acked = guest.acked /\ r.next = guest.next
  BY <1>1, RefreshedKeeps
<1>3. r.fine = page.fine
  BY <1>1 DEF Refreshed, GuestType
<1> HIDE DEF r
<1>4. /\ guest'.at = "idle" /\ guest'.stage = NextStage(guest.stage)
      /\ guest'.acked = guest.acked /\ guest'.next = guest.next
      /\ guest'.plan = page.plan /\ guest'.fine = page.fine
  BY <1>1, <1>2, <1>3 DEF GuestType
<1>5. guest'.stage \in {"Match", "Fast"} /\ ~sub'.recovery /\ ~sub'.early
  BY <1>1, <1>4 DEF NextStage, NoSub
<1>6. core.stage \in Specialized \cup {"Recover"}
  BY <1>1 DEF Ready, IInv, Stages, InFlight, NextStage, Specialized
<1>7. Numbered' /\ Soonest'
  BY <1>1, <1>4 DEF Ready, Loose, Numbered, Soonest, Unheard, InFlight
<1>8. Recoveries'
  BY <1>4, <1>5, <1>6 DEF Recoveries, None, Specialized
<1>9. InStep' /\ Flagged' /\ Asked' /\ Granted'
  BY <1>1, <1>4, <1>5 DEF Ready, Tight, Joined, InStep, Opened, Flagged, Asked, Granted,
     InFlight, None
<1>10. Shown' /\ Copied'
  BY <1>4 DEF Ready, Tight, Joined, Shown, Copied, Fits, FineDue, Published
<1>11. Epochs'
  BY <1>1, <1>4 DEF Ready, Tight, Joined, Epochs
<1> QED BY <1>7, <1>8, <1>9, <1>10, <1>11 DEF Loose, Tight

\* A recovery is over: both sides are in Detect.
LEMMA AfterRecoveredReady ==
  ASSUME Ready, AfterRecovered, reply = "accepted", reply' = None,
         UNCHANGED <<core, page, planner>>
  PROVE  Loose' /\ Tight'
<1>1. /\ guest.at = "recovered" /\ guest' = NewGuest(guest.next) /\ sub' = NoSub
  BY DEF AfterRecovered
<1>2. /\ guest'.at = "idle" /\ guest'.stage = "Detect" /\ guest'.acked = 0
      /\ guest'.next = guest.next /\ ~sub'.recovery /\ ~sub'.early
  BY <1>1 DEF NewGuest, NoSub
<1>3. core.stage = "Detect"
  BY <1>1 DEF Ready, IInv, Stages
<1>4. Numbered' /\ Soonest'
  BY <1>1, <1>2 DEF Ready, Loose, Numbered, Soonest, Unheard, InFlight
<1>5. Recoveries'
  BY <1>2, <1>3 DEF Ready, Loose, Recoveries, None
<1>6. Tight'
  BY <1>3, LeftTight DEF Specialized
<1> QED BY <1>4, <1>5, <1>6 DEF Loose

-----------------------------------------------------------------------------
(* What the guest sends is taken by a host that is where the guest thinks.  *)

\* A PERIOD_BEGIN, whatever the planner installed or published since.
LEMMA BeginTaken ==
  ASSUME Ready, Sent("begin"), core.stage = Believed
  PROVE  AckOK /\ BeginOK(Acknowledged(core))
<1>1. guest.at = "begin" /\ reply = None /\ core.stage = guest.stage
  BY DEF Sent, Believed
<1>2. guest.stage \in Specialized
  BY <1>1 DEF Ready, IInv, Stages, InFlight
<1>3. Joined /\ Waits /\ Unheard /\ guest.at \in InFlight
  BY <1>1, <1>2 DEF Joined, Waits, Unheard, InFlight, None
<1>4. FlaggedAs(sub, guest) /\ AskedAs(sub, guest) /\ Fits(guest)
  BY <1>1, <1>3 DEF Ready, Tight, Flagged, Asked, Copied
<1>5. ~core.open
  BY <1>1, <1>3 DEF Ready, Tight, InStep, Opened, None
<1>6. core.last = sub.id - 1 /\ core.ack.period < sub.id
  <2>1. core.last = guest.next - 2 /\ sub.id = guest.next - 1
    BY <1>1, <1>2, <1>3 DEF Ready, Loose, Numbered, Specialized
  <2>2. core.ack.period <= core.last
    BY <1>3 DEF Ready, Tight, Epochs
  <2> QED BY <2>1, <2>2, Counts DEF Ready
<1>7. AckOK
  BY <1>4, <1>6, Counts DEF AckOK, AskedAs, Ready
<1>8. /\ Acknowledged(core).stage = core.stage /\ Acknowledged(core).open = core.open
      /\ Acknowledged(core).last = core.last /\ Acknowledged(core).active = core.active
      /\ Acknowledged(core).stable = core.stable
  BY DEF Acknowledged, Ready, IInv, Typed, CoreType
<1>9. CASE sub.ack = 0
  <2>1. Acknowledged(core) = core
    BY <1>9 DEF Acknowledged
  <2>2. core.ack # [epoch |-> core.pending.epoch, period |-> sub.id]
    <3>1. core.ack.period # sub.id
      BY <1>6, Counts DEF Ready
    <3> QED BY <3>1
  <2>3. Selected(core, sub.id) => guest.plan # NoPlan
    BY <1>4, <2>2 DEF Selected, Fits
  <2>4. FineDue(core) => SingleFine \subseteq sub.flags
    BY <1>4 DEF Fits, AskedAs
  <2>5. ~Published(core) => FineDue(core)
    BY DEF FineDue
  <2>6. sub.id > core.last
    BY <1>6, Counts DEF Ready
  <2> QED BY <1>1, <1>2, <1>4, <1>5, <1>7, <2>1, <2>3, <2>4, <2>5, <2>6
          DEF BeginOK, AskedAs, SingleFine
<1>10. CASE sub.ack # 0
  <2>1. core.pending # NoPlan /\ sub.flags = {"STABLE"} /\ guest.stage = "Fast"
    BY <1>4, <1>10 DEF AskedAs, FlaggedAs, NoPlan
  <2>2. Published(core)
    BY <2>1 DEF Published
  <2>3. ~guest.fine
    <3>1. "SINGLE" \notin sub.flags
      BY <2>1
    <3> QED BY <1>4, <3>1 DEF AskedAs, SingleFine
  <2>4. ~FineDue(core)
    BY <1>4, <2>3 DEF Fits
  <2>5. Published(Acknowledged(core))
    <3> DEFINE p == [core.pending EXCEPT !.apply = sub.id]
               k == [epoch |-> sub.ack, period |-> sub.id]
    <3>1. core \in CoreType /\ core.pending.epoch = sub.ack /\ core.pending \in PlanType
      BY <1>7, <1>10 DEF AckOK, Ready, IInv, Typed, CoreType
    <3>2. p.epoch # 0
      BY <1>10, <3>1 DEF PlanType
    <3>3. Acknowledged(core) = [core EXCEPT !.ack = k, !.pending = p]
      BY <1>10 DEF Acknowledged
    <3> HIDE DEF p, k
    <3>4. Acknowledged(core).pending = p
      BY <3>1, <3>3 DEF CoreType
    <3> QED BY <3>2, <3>4 DEF Published, NoPlan
  <2>6. ~FineDue(Acknowledged(core))
    BY <1>8, <2>2, <2>4, <2>5 DEF FineDue
  <2>7. sub.id > core.last
    BY <1>6, Counts DEF Ready
  <2> QED BY <1>1, <1>2, <1>5, <1>7, <1>8, <2>1, <2>5, <2>6, <2>7 DEF BeginOK
<1> QED BY <1>9, <1>10

\* A route, by the plan of its period or of the recovery.
LEMMA RouteTaken ==
  ASSUME Ready, Sent("route") \/ Sent("prefix"), core.stage = Believed
  PROVE  RouteOK
<1>1. guest.at \in {"route", "prefix"} /\ reply = None
  BY DEF Sent
<1>2. guest.at \in InFlight /\ ~Unheard /\ guest.stage \in Specialized
  BY <1>1 DEF InFlight, Unheard, Ready, IInv, Stages
<1>3. core.stage \in Specialized \cup {"Recover"}
  BY <1>2 DEF Believed
<1>4. core.last = sub.id
  BY <1>1, <1>2, <1>3 DEF Ready, Loose, Numbered, Specialized
<1>5. CASE sub.recovery
  <2>1. guest.at = "route"
    BY <1>1, <1>5 DEF Ready, Loose, Recoveries
  <2> QED BY <1>4, <1>5, <2>1 DEF RouteOK, Believed
<1>6. CASE ~sub.recovery
  <2>1. core.stage = guest.stage /\ Joined /\ Opened
    BY <1>1, <1>2, <1>6 DEF Believed, Joined, Opened
  <2>2. core.open /\ core.flags = sub.flags /\ FlaggedAs(sub, guest)
    BY <1>2, <2>1 DEF Ready, Tight, InStep, Flagged
  <2>3. CASE sub.epoch = 0
    BY <1>2, <1>4, <1>6, <2>1, <2>2, <2>3 DEF RouteOK, FlaggedAs
  <2>4. CASE sub.epoch # 0
    <3>1. /\ core.stage = "Fast" /\ sub.epoch = core.active.epoch
          /\ sub.shape = core.active.shape /\ sub.chunks = core.active.chunks
      BY <2>1, <2>4 DEF Ready, Tight, Granted
    <3>2. core.active # NoPlan
      BY <2>4, <3>1 DEF NoPlan
    <3>3. core.active.apply <= sub.id
      BY <1>4, <2>1, <3>2 DEF Ready, Tight, Epochs
    <3>4. "SINGLE" \notin core.flags
      BY <2>2, <2>4 DEF FlaggedAs
    <3> QED BY <1>4, <1>6, <2>2, <2>4, <3>1, <3>3, <3>4, Counts DEF RouteOK, Ready
  <2> QED BY <2>3, <2>4
<1> QED BY <1>5, <1>6

\* A profile and the end of the stage.
LEMMA ProfileTaken ==
  ASSUME Ready, Sent("profile"), core.stage = Believed
  PROVE  core.open /\ core.last = sub.id
<1>1. guest.at = "profile" /\ reply = None /\ core.stage = guest.stage
  BY DEF Sent, Believed
<1>2. guest.stage \in Specialized /\ guest.at \in InFlight /\ ~Unheard
  BY <1>1 DEF InFlight, Unheard, Ready, IInv, Stages
<1> QED BY <1>1, <1>2 DEF Ready, Loose, Tight, Numbered, InStep, Joined, Opened, Specialized

\* Nor is the end of a stage refused.
LEMMA CompleteTaken ==
  ASSUME Ready, Sent("complete"), core.stage = Believed
  PROVE  core.stage = guest.stage /\ ~core.open /\ core.last = sub.id
<1>1. guest.at = "complete" /\ reply = None /\ core.stage = guest.stage
  BY DEF Sent, Believed
<1>2. guest.stage \in Specialized /\ guest.at \in InFlight /\ ~Unheard
  BY <1>1 DEF InFlight, Unheard, Ready, IInv, Stages
<1> QED BY <1>1, <1>2 DEF Ready, Loose, Tight, Numbered, InStep, Joined, Opened, Specialized,
                          None

\* Nor is a mismatch.
LEMMA MismatchTaken ==
  ASSUME Ready, Sent("mismatch"), core.stage = Believed
  PROVE  core.stage \in Specialized
BY DEF Sent, Believed, Ready, IInv, Stages, InFlight

\* Nor is the end of a recovery refused by a session in Recover.
LEMMA RecoveredTaken ==
  ASSUME Ready, Sent("recovered"), core.stage = Believed
  PROVE  core.stage = "Recover"
BY DEF Sent, Believed, Ready, Loose, Recoveries

\* A refusal that the guest has not seen yet is of a session that left its stage.
LEMMA RefusedLeft ==
  ASSUME Ready, reply = "refused"
  PROVE  core.stage # Believed
BY DEF Believed, Ready, Loose, Recoveries, IInv, Stages, InFlight, Specialized, None

\* The host refuses a packet only when it has left the stage.
LEMMA HostRefuses ==
  ASSUME Ready, HostStep
  PROVE  \/ reply' = "accepted" /\ Loose' /\ Tight'
         \/ core.stage # Believed /\ Loose' /\ Tight'
<1>1. \A kind \in {"begin", "mismatch", "prefix", "route", "profile", "complete",
                   "recovered"} : kind \in InFlight \ {"early", "active"}
  BY DEF InFlight
<1>2. CASE HostBegin
  <2>1. CASE AckOK /\ BeginOK(Acknowledged(core))
    BY <1>2, <2>1, BeginReady DEF HostBegin, Accept
  <2>2. CASE ~(AckOK /\ BeginOK(Acknowledged(core)))
    BY <1>1, <1>2, <2>2, BeginTaken, RefuseReady DEF HostBegin, Sent
  <2> QED BY <2>1, <2>2
<1>3. CASE HostMismatch
  <2>1. CASE core.stage \in Specialized
    BY <1>3, <2>1, MismatchReady DEF HostMismatch, Accept
  <2>2. CASE ~(core.stage \in Specialized)
    BY <1>1, <1>3, <2>2, MismatchTaken, RefuseReady DEF HostMismatch, Sent
  <2> QED BY <2>1, <2>2
<1>4. CASE HostRoute
  <2>0. guest.at \in {"route", "prefix"} /\ reply = None
    BY <1>4 DEF HostRoute, Sent
  <2>1. CASE RouteOK
    BY <1>4, <2>0, <2>1, RouteReady DEF HostRoute
  <2>2. CASE ~RouteOK
    BY <1>1, <1>4, <2>0, <2>2, RouteTaken, RefuseReady DEF HostRoute
  <2> QED BY <2>1, <2>2
<1>5. CASE HostProfile
  <2>1. CASE core.open /\ core.last = sub.id
    BY <1>5, <2>1, ProfileReady DEF HostProfile, Accept
  <2>2. CASE ~(core.open /\ core.last = sub.id)
    BY <1>1, <1>5, <2>2, ProfileTaken, RefuseReady DEF HostProfile, Sent
  <2> QED BY <2>1, <2>2
<1>6. CASE HostComplete
  <2>1. CASE core.stage = guest.stage /\ ~core.open /\ core.last = sub.id
    BY <1>6, <2>1, CompleteReady DEF HostComplete, Accept
  <2>2. CASE ~(core.stage = guest.stage /\ ~core.open /\ core.last = sub.id)
    BY <1>1, <1>6, <2>2, CompleteTaken, RefuseReady DEF HostComplete, Sent
  <2> QED BY <2>1, <2>2
<1>7. CASE HostRecovered
  <2>1. CASE core.stage = "Recover"
    BY <1>7, <2>1, RecoveredReady DEF HostRecovered, Accept
  <2>2. CASE core.stage # "Recover"
    BY <1>1, <1>7, <2>2, RecoveredTaken, RefuseReady DEF HostRecovered, Sent
  <2> QED BY <2>1, <2>2
<1> QED BY <1>2, <1>3, <1>4, <1>5, <1>6, <1>7 DEF HostStep

\* The planner's steps.
LEMMA PlannerStepReady ==
  ASSUME Ready, PlannerStep
  PROVE  Loose' /\ Tight'
BY PlannerStartReady, PlannerInstallReady, PlannerStopsReady, PlannerPublishReady,
   DeliveryFailedReady DEF PlannerStep

\* The guest's steps.
LEMMA GuestStepReady ==
  ASSUME Ready, GuestStep
  PROVE  Loose' /\ Tight'
<1>1. CASE Returns
  <2>1. reply = "accepted" /\ reply' = None /\ UNCHANGED <<core, page, planner>>
    BY <1>1 DEF Returns
  <2> QED BY <1>1, <2>1, AfterBeginReady, AfterMismatchReady, AfterRouteReady,
             AfterProfileReady, AfterCompleteReady, AfterRecoveredReady DEF Returns
<1>2. CASE FallsBack \/ RefusedFallsBack
  BY <1>2, FallbackReady DEF FallsBack, RefusedFallsBack
<1> QED BY <1>1, <1>2, AnnounceReady, BeforeSubmitReady, EarlyRouteReady,
           CompleteEarlyRouteReady, AfterSubmitReady, GivesUpReady DEF GuestStep

\* At first nothing is planned, and the numbers start at 1.
LEMMA InitReady == Init => Ready
<1> SUFFICES ASSUME Init PROVE Ready
  OBVIOUS
<1>1. /\ core.stage = "Detect" /\ core.last = 0 /\ core.apply = 0 /\ ~core.open
      /\ core.ack.period = 0
      /\ guest.at = "idle" /\ guest.next = 1 /\ guest.acked = 0 /\ guest.stage = "Detect"
      /\ ~sub.recovery /\ ~sub.early /\ reply = None /\ planner.at = "idle"
  BY DEF Init, NewCore, NewGuest, NoSub, NoPlanner
<1>2. Loose
  BY <1>1 DEF Loose, Numbered, Recoveries, Soonest, Unheard, InFlight, None
<1>3. Tight
  BY <1>1 DEF Tight, Joined, InStep, Flagged, Shown, Copied, Epochs, Asked, Granted,
     Specialized
<1> QED BY <1>2, <1>3, InitHolds DEF Ready

\* Every step keeps the two sides in step, and refuses only what a session that
\* has left the stage must refuse.
LEMMA NextReady ==
  ASSUME Ready, [Next]_vars
  PROVE  Ready' /\ (vars' = vars \/ (reply' = "refused" => core.stage # Believed))
<1>1. IInv'
  BY NextKeeps DEF Ready
<1>2. CASE HostStep
  BY <1>1, <1>2, HostRefuses DEF Ready
<1>3. CASE PlannerStep
  <2>1. reply' = reply
    BY <1>3 DEF PlannerStep, PlannerStart, PlannerInstall, PlannerDiscards, PlannerPublish,
       PlannerSkips, DeliveryFailed
  <2> QED BY <1>1, <1>3, <2>1, PlannerStepReady, RefusedLeft DEF Ready
<1>4. CASE GuestStep
  <2>1. reply' \in {reply, None}
    BY <1>4 DEF GuestStep, Announce, BeforeSubmit, EarlyRoute, CompleteEarlyRoute, FallsBack,
       FallbackToLegacy, AfterSubmit, Returns, GivesUp, RefusedFallsBack
  <2> QED BY <1>1, <1>4, <2>1, GuestStepReady, RefusedLeft DEF Ready, None
<1>5. CASE UNCHANGED vars
  <2>1. UNCHANGED <<core, page, planner, guest, sub, reply>>
    BY <1>5 DEF vars
  <2>2. Numbered' /\ Recoveries' /\ Soonest'
    BY <2>1 DEF Ready, Loose, Numbered, Recoveries, Soonest, Unheard
  <2>3. Tight'
    BY <2>1, TightFrame DEF Ready
  <2> QED BY <1>1, <1>5, <2>2, <2>3 DEF Ready, Loose
<1> QED BY <1>2, <1>3, <1>4, <1>5 DEF Next

\* The inductive invariant of the two sides: period, flags, numbers and plans agree while
\* the host is in the stage the guest takes it to be in.
THEOREM ReadyInvariance == Spec => []Ready
<1>1. Init => Ready BY InitReady
<1>2. Ready /\ [Next]_vars => Ready' BY NextReady
<1> QED BY <1>1, <1>2, PTL DEF Spec

\* The host refuses nothing the guest sends unless it left the guest's stage on its own:
\* express_vk_flime_session_period_begin, period_end, progress and
\* flime_validate_route_plan_locked accept what BuildChunksLocked made of an older page.
THEOREM NeverRefused == Spec => NothingRefused
<1>1. Ready /\ [Next]_vars => [reply' = "refused" => core.stage # Believed]_vars
  BY NextReady
<1> QED BY <1>1, ReadyInvariance, PTL DEF Spec, NothingRefused

-----------------------------------------------------------------------------
(* A published plan is taken up.  It applies no later than with the period  *)
(* after the one that was open when it was installed.  From the period it   *)
(* applies to on the guest sees it, and takes it unless a fine profile is   *)
(* due; a fine profile is due once in a cycle.                              *)

\* How long a plan has been pending
Waiting ==
  core.stage = "Fast" /\ core.pending # NoPlan /\ ~sub.recovery =>
    /\ core.pending.apply <= core.last + 1 /\ core.last <= core.pending.apply + 1
    /\ core.last >= core.pending.apply =>
         /\ page.plan = core.pending /\ page.fine = FineDue(core)
         /\ guest.at = "idle" => guest.plan = core.pending
    /\ core.last = core.pending.apply + 1 =>
         IF core.open THEN "STABLE" \in core.flags /\ core.stable = ReplanPeriods - 1
                      ELSE core.stable = 0
    /\ guest.at = "begin" /\ reply = None /\ sub.ack = 0 =>
         /\ core.last <= core.pending.apply
         /\ core.last = core.pending.apply => FineDue(core) /\ "STABLE" \in sub.flags

\* Outside Fast no plan waits.
LEMMA NotFast == core'.stage # "Fast" => Waiting'
BY DEF Waiting

\* Steps of the guest between the phases that matter, and routes
LEMMA WaitingFrame ==
  ASSUME Waiting, UNCHANGED <<core, page, sub>>, guest'.at # "idle",
         ~(guest'.at = "begin" /\ reply' = None)
  PROVE  Waiting'
BY DEF Waiting, FineDue, Published

\* Steps of the planner but the installation
LEMMA PlannerWaits ==
  ASSUME Waiting, PlannerStart \/ PlannerDiscards \/ PlannerSkips \/ PlannerPublish
  PROVE  Waiting'
<1>1. CASE PlannerPublish
  <2>1. UNCHANGED <<core, guest, sub, reply>> /\ page' = Message(core)
    BY <1>1 DEF PlannerPublish
  <2>2. core.pending # NoPlan => page'.plan = core.pending /\ page'.fine = FineDue(core)
    BY <2>1 DEF Message
  <2> QED BY <2>1, <2>2 DEF Waiting, FineDue, Published
<1>2. CASE PlannerStart \/ PlannerDiscards \/ PlannerSkips
  <2>1. UNCHANGED <<core, page, guest, sub, reply>>
    BY <1>2 DEF PlannerStart, PlannerDiscards, PlannerSkips
  <2> QED BY <2>1 DEF Waiting, FineDue, Published
<1> QED BY <1>1, <1>2

\* A plan is installed for the next period.
LEMMA InstallWaits ==
  ASSUME Ready, PlannerInstall
  PROVE  Waiting'
<1>1. PICK chunks \in 1 .. MaxChunks :
        core' = [core EXCEPT !.pending = Installable(chunks), !.due = FALSE,
                             !.next_plan_epoch = @ + 1]
  BY DEF PlannerInstall
<1>2. /\ core \in CoreType /\ planner.at = "planning" /\ planner.current
      /\ UNCHANGED <<page, guest, sub, reply>>
  BY DEF PlannerInstall, StillWanted, Ready, IInv, Typed
<1> DEFINE p == Installable(chunks)
<1>3. p.apply = Larger(planner.apply, core.last + 1)
  BY DEF Installable
<1> HIDE DEF p
<1>4. core'.pending = p /\ core'.last = core.last
  BY <1>1, <1>2 DEF CoreType, p
<1>5. p.apply = core.last + 1
  BY <1>2, <1>3, Counts DEF Ready, Loose, Soonest, Larger
<1> QED BY <1>4, <1>5, Counts DEF Ready, Waiting

\* The guest sees the plan and takes it, or owes a fine profile.
LEMMA BeforeSubmitWaits ==
  ASSUME ReplanPeriods > 1, Ready, Waiting, BeforeSubmit
  PROVE  Waiting'
<1> SUFFICES ASSUME core.stage = "Fast", core.pending # NoPlan, ~sub'.recovery
             PROVE  Waiting'
  BY DEF Waiting, BeforeSubmit
<1> DEFINE r == Refreshed(guest)
<1>1. /\ guest \in GuestType /\ page \in PageType /\ guest.at = "idle"
      /\ guest' = [r EXCEPT !.at = "begin", !.next = @ + 1]
      /\ UNCHANGED <<core, page, planner, reply>> /\ guest.next \in Nat
  BY Counts DEF BeforeSubmit, Ready, IInv, Typed
<1>2. PICK shape \in Shapes, mismatch \in BOOLEAN :
        sub' = BuildChunks(r, shape, mismatch, guest.next)
  BY DEF BeforeSubmit
<1>3. /\ r \in GuestType /\ r.plan = page.plan /\ r.stage = guest.stage
      /\ r.acked = guest.acked /\ r.next = guest.next /\ r.template = guest.template
  BY <1>1, RefreshedKeeps
<1>4. r.fine = page.fine
  BY <1>1 DEF Refreshed, GuestType
<1> HIDE DEF r
<1>5. guest'.at = "begin"
  BY <1>1, <1>3 DEF GuestType
<1>6. /\ guest.stage = "Fast" /\ ~core.open /\ core.last = guest.next - 1
      /\ core.pending.shape = guest.template /\ core.pending.epoch > guest.acked
      /\ ~sub.recovery
  BY <1>1 DEF Ready, IInv, CorePlans, Loose, Tight, Numbered, Recoveries, InStep, Epochs,
     Joined, Unheard, Opened, Specialized
<1> DEFINE b == BuildChunks(r, shape, mismatch, guest.next)
           recovery == mismatch \/ (r.stage # "Learn" /\ shape # r.template)
<1>7. /\ b.recovery = recovery
      /\ Planned(r, shape, guest.next) /\ ~recovery =>
           b.ack = IF PendingApplies(r, shape, guest.next) THEN r.plan.epoch ELSE 0
  <2>1. BuiltAs(b, r, shape, mismatch, guest.next)
    BY BuiltFields, Zenon
  <2> HIDE DEF b
  <2> QED BY <2>1 DEF BuiltAs
<1>8. AskedAs(b, r)
  <2>1. Joined => Fits(r)
    BY <1>3, <1>4 DEF Ready, Tight, Shown, Fits
  <2>2. Joined
    BY DEF Joined, Specialized
  <2> QED BY <1>1, <1>3, <2>1, <2>2, BuiltFits
<1> HIDE DEF b
<1>9. sub' = b
  BY <1>2 DEF b
<1>10. ~recovery /\ shape = guest.template
  BY <1>3, <1>6, <1>7, <1>9
<1> HIDE DEF recovery
<1>11. ASSUME core.last >= core.pending.apply, b.ack = 0
       PROVE  core.last = core.pending.apply /\ FineDue(core) /\ "STABLE" \in b.flags
  <2>1. r.plan = core.pending /\ r.fine = FineDue(core)
    BY <1>3, <1>4, <1>6, <1>11 DEF Waiting
  <2>2. core.pending.apply <= guest.next
    BY <1>6, <1>11, Counts DEF Ready
  <2>3. core.pending.epoch # guest.acked /\ core.pending.epoch # 0
    BY <1>6, Counts DEF Ready
  <2>4. r.fine
    <3> SUFFICES ASSUME ~r.fine PROVE FALSE
      OBVIOUS
    <3>1. PendingApplies(r, shape, guest.next)
      BY <1>3, <1>6, <1>10, <2>1, <2>2, <2>3 DEF PendingApplies, Geometry
    <3>2. b.ack = r.plan.epoch
      BY <1>7, <1>10, <3>1 DEF Planned
    <3> QED BY <1>11, <2>1, <2>3, <3>2
  <2>5. FineDue(core)
    BY <2>1, <2>4
  <2>6. core.stable = ReplanPeriods - 1
    BY <2>5 DEF FineDue, Published
  <2>7. core.stable # 0
    BY <2>6, PlanExchangeAssumption
  <2>8. core.last # core.pending.apply + 1
    BY <1>6, <2>7 DEF Waiting
  <2>9. core.last = core.pending.apply
    BY <1>6, <1>11, <2>8, Counts DEF Waiting, Ready
  <2>10. "STABLE" \in b.flags
    BY <1>3, <1>6, <1>8, <2>1 DEF AskedAs
  <2> QED BY <2>5, <2>9, <2>10
<1>12. b.ack = 0 => core.last <= core.pending.apply
  BY <1>11, Counts DEF Ready
<1>13. FineDue(core') <=> FineDue(core)
  BY <1>1
<1> QED BY <1>1, <1>5, <1>6, <1>9, <1>11, <1>12, <1>13, Counts DEF Waiting, Ready, FineDue,
           Published

\* A guest that routes early has not seen a pending plan.
LEMMA EarlyRouteWaits ==
  ASSUME Ready, Waiting, EarlyRoute
  PROVE  Waiting'
<1>1. /\ guest \in GuestType /\ guest.at = "idle"
      /\ guest' = [guest EXCEPT !.at = "begin", !.next = @ + 1]
      /\ AlreadyActive(guest, guest.template)
      /\ UNCHANGED <<core, page, planner, reply>>
  BY DEF EarlyRoute, Ready, IInv, Typed
<1>2. guest'.at = "begin" /\ ~sub.recovery
  BY <1>1 DEF GuestType, Ready, Loose, Recoveries
<1>3. guest.plan.epoch = guest.acked
  BY <1>1 DEF AlreadyActive
<1>4. core.stage = "Fast" /\ core.pending # NoPlan => core.pending.epoch > guest.acked
  BY DEF Ready, Tight, Epochs, Joined, Specialized
<1>5. core.stage = "Fast" /\ core.pending # NoPlan => ~(core.last >= core.pending.apply)
  BY <1>1, <1>2, <1>3, <1>4, Counts DEF Ready, Waiting
<1>6. core.stage = "Fast" /\ core.pending # NoPlan =>
        core.pending.apply \in Nat /\ core.last \in Nat
  BY Counts DEF Ready
<1>7. core.stage = "Fast" /\ core.pending # NoPlan =>
        /\ core.pending.apply <= core.last + 1 /\ core.last < core.pending.apply
        /\ core.last # core.pending.apply + 1 /\ core.last # core.pending.apply
  BY <1>2, <1>5, <1>6 DEF Waiting
<1> QED BY <1>1, <1>2, <1>6, <1>7 DEF Waiting

\* A period without an acknowledgement is the last one, or the fine one before it.
LEMMA BeginWaits ==
  ASSUME Ready, Waiting, HostBegin, AckOK, BeginOK(Acknowledged(core))
  PROVE  Waiting'
<1>1. /\ guest.at = "begin" /\ reply = None /\ reply' = "accepted"
      /\ page' = Message(core') /\ UNCHANGED <<planner, guest, sub>>
  BY DEF HostBegin, Sent, Accept
<1>2. core.stage \in Specialized
  <2>1. Acknowledged(core).stage = core.stage
    BY DEF Acknowledged, Ready, IInv, Typed, CoreType
  <2> QED BY <2>1 DEF BeginOK
<1>3. BegunAs(core')
  BY <1>2, BeginIs DEF Ready, Tight, Epochs, Joined
<1>4. core.last = sub.id - 1
  BY <1>1, <1>2, Counts DEF Ready, Loose, Numbered, Unheard, InFlight, None, Specialized
<1>5. core'.pending # NoPlan =>
        /\ sub.ack = 0 /\ core'.pending = core.pending
        /\ page'.plan = core'.pending /\ page'.fine = FineDue(core')
  BY <1>1, <1>3 DEF BegunAs, Message
<1>6. /\ core'.stage = core.stage /\ core'.open /\ core'.last = sub.id
      /\ core'.flags = sub.flags /\ core'.stable = core.stable
  BY <1>3 DEF BegunAs
<1>7. core.pending # NoPlan /\ FineDue(core) => core.stable = ReplanPeriods - 1
  BY DEF FineDue, Published
<1> SUFFICES ASSUME core'.stage = "Fast", core'.pending # NoPlan, ~sub'.recovery
             PROVE  Waiting'
  BY DEF Waiting
<1>8. /\ core.stage = "Fast" /\ core.pending # NoPlan /\ ~sub.recovery /\ sub.ack = 0
      /\ core.pending = core'.pending /\ guest'.at # "idle" /\ reply' # None
  BY <1>1, <1>5, <1>6 DEF None
<1>9. /\ core.pending.apply \in Nat /\ core.last \in Nat /\ core'.last = core.last + 1
  BY <1>4, <1>6, Counts DEF Ready
<1>10. /\ core.pending.apply <= core.last + 1 /\ core.last <= core.pending.apply
       /\ core.last = core.pending.apply => FineDue(core) /\ "STABLE" \in sub.flags
  BY <1>1, <1>8 DEF Waiting
<1>11. core'.last = core'.pending.apply + 1 =>
         "STABLE" \in core'.flags /\ core'.stable = ReplanPeriods - 1
  BY <1>6, <1>7, <1>8, <1>9, <1>10
<1>12. /\ core'.pending.apply <= core'.last + 1 /\ core'.last <= core'.pending.apply + 1
  BY <1>8, <1>9, <1>10
<1> QED BY <1>5, <1>6, <1>8, <1>11, <1>12 DEF Waiting

\* A number modulo itself.
LEMMA FullCycle ==
  ASSUME NEW n \in Nat \ {0}
  PROVE  (n - 1 + 1) % n = 0
OBVIOUS

\* A stable profile that ends a cycle starts the next one.
LEMMA ProfileWaits ==
  ASSUME Ready, Waiting, HostProfile, core.open, core.last = sub.id
  PROVE  Waiting'
<1>1. /\ guest.at = "profile" /\ reply' = "accepted" /\ core' = ProfileEnded(core)
      /\ page' = Message(core') /\ UNCHANGED <<guest, sub>> /\ core \in CoreType
  BY DEF HostProfile, Sent, Accept, Ready, IInv, Typed
<1>2. /\ core'.stage = core.stage /\ ~core'.open /\ core'.last = core.last
      /\ core'.pending = core.pending
      /\ core'.stable = IF "STABLE" \in core.flags THEN (core.stable + 1) % ReplanPeriods
                                                   ELSE core.stable
  BY <1>1 DEF ProfileEnded, CoreType
<1>3. core'.pending # NoPlan => page'.plan = core'.pending /\ page'.fine = FineDue(core')
  BY <1>1 DEF Message
<1>4. "STABLE" \in core.flags /\ core.stable = ReplanPeriods - 1 => core'.stable = 0
  BY <1>2, FullCycle, PlanExchangeAssumption
<1> QED BY <1>1, <1>2, <1>3, <1>4 DEF Waiting

\* The next stage is Fast, or was.
LEMMA CompleteWaits ==
  ASSUME Ready, Waiting, HostComplete, core.stage = guest.stage, ~core.open,
         core.last = sub.id
  PROVE  Waiting'
<1>1. /\ guest.at = "complete" /\ reply' = "accepted"
      /\ core' = [core EXCEPT !.stage = NextStage(@)] /\ page' = Message(core')
      /\ UNCHANGED <<planner, guest, sub>> /\ core \in CoreType
  BY DEF HostComplete, Sent, Accept, Ready, IInv, Typed
<1>2. /\ core'.open = core.open /\ core'.last = core.last /\ core'.flags = core.flags
      /\ core'.pending = core.pending /\ core'.stable = core.stable
  BY <1>1 DEF CoreType
<1>3. core'.pending # NoPlan => page'.plan = core'.pending /\ page'.fine = FineDue(core')
  BY <1>1 DEF Message
<1>4. core.pending # NoPlan => core.stage \in {"Fast", "Recover"}
  BY DEF Ready, IInv, CorePlans
<1>5. core.stage \in Specialized
  BY <1>1 DEF Ready, IInv, Stages, InFlight
<1>6. core.pending # NoPlan => core.stage = "Fast"
  BY <1>4, <1>5 DEF Specialized
<1> QED BY <1>1, <1>2, <1>3, <1>6 DEF Waiting

\* The guest is idle again and knows the plan.
LEMMA AfterCompleteWaits ==
  ASSUME Ready, Waiting, AfterComplete, UNCHANGED <<core, page, planner>>
  PROVE  Waiting'
<1> DEFINE r == Refreshed(guest)
<1>1. /\ guest \in GuestType /\ page \in PageType /\ guest.at = "complete" /\ sub' = NoSub
      /\ guest' = [r EXCEPT !.at = "idle", !.stage = NextStage(@),
                            !.template = IF guest.stage = "Learn" THEN sub.shape ELSE @]
  BY DEF AfterComplete, Ready, IInv, Typed
<1>2. r \in GuestType /\ r.plan = page.plan
  BY <1>1, RefreshedKeeps
<1> HIDE DEF r
<1>3. guest'.at = "idle" /\ guest'.plan = page.plan
  BY <1>1, <1>2 DEF GuestType
<1>4. ~sub.recovery
  BY <1>1 DEF Ready, Loose, Recoveries
<1> QED BY <1>3, <1>4 DEF Waiting, FineDue, Published

\* The host answers, and keeps the stage or leaves it.
LEMMA HostWaits ==
  ASSUME Ready, Waiting, HostStep
  PROVE  Waiting'
<1>1. CASE Refuse
  <2>1. core'.stage \in {"Recover", "Legacy"}
    BY <1>1, LeavingKeeps DEF Refuse, Ready, IInv, Typed
  <2> QED BY <2>1, NotFast
<1>2. CASE HostBegin /\ AckOK /\ BeginOK(Acknowledged(core))
  BY <1>2, BeginWaits
<1>3. CASE HostMismatch /\ core.stage \in Specialized
  <2>1. core' = Recovering(core)
    BY <1>3 DEF HostMismatch, Accept
  <2> QED BY <2>1, LeavingKeeps, NotFast DEF Ready, IInv, Typed
<1>4. CASE HostRoute /\ RouteOK
  <2>1. /\ guest.at \in {"route", "prefix"}
        /\ UNCHANGED <<core, page, sub, guest>>
    BY <1>4 DEF HostRoute, Sent
  <2> QED BY <2>1, WaitingFrame
<1>5. CASE HostProfile /\ core.open /\ core.last = sub.id
  BY <1>5, ProfileWaits
<1>6. CASE HostComplete /\ core.stage = guest.stage /\ ~core.open /\ core.last = sub.id
  BY <1>6, CompleteWaits
<1>7. CASE HostRecovered /\ core.stage = "Recover"
  <2>1. core'.stage = "Detect"
    BY <1>7 DEF HostRecovered, Accept, Cleared, NewCore
  <2> QED BY <2>1, NotFast
<1> QED BY <1>1, <1>2, <1>3, <1>4, <1>5, <1>6, <1>7 DEF HostStep, HostBegin, HostMismatch,
           HostRoute, HostProfile, HostComplete, HostRecovered

\* The planner installs, publishes or gives up.
LEMMA PlannerStepWaits ==
  ASSUME Ready, Waiting, PlannerStep
  PROVE  Waiting'
<1>1. CASE DeliveryFailed
  <2>1. core'.stage \notin Specialized
    BY <1>1, LeavingKeeps DEF DeliveryFailed, Specialized, Ready, IInv, Typed
  <2> QED BY <2>1, NotFast DEF Specialized
<1> QED BY <1>1, PlannerWaits, InstallWaits DEF PlannerStep

\* The guest submits, goes on with an answer, or leaves the protocol.
LEMMA GuestWaits ==
  ASSUME ReplanPeriods > 1, Ready, Waiting, GuestStep
  PROVE  Waiting'
<1>1. guest \in GuestType /\ page \in PageType /\ core \in CoreType
  BY DEF Ready, IInv, Typed
<1>2. Refreshed(guest) \in GuestType
  BY <1>1, RefreshedKeeps
<1>3. CASE Announce
  <2>1. core'.stage = "Learn"
    BY <1>1, <1>3 DEF Announce, CoreType
  <2> QED BY <2>1, NotFast
<1>4. CASE CompleteEarlyRoute
  <2>1. guest'.at = "route" /\ UNCHANGED <<core, page, sub>>
    BY <1>2, <1>4 DEF CompleteEarlyRoute, GuestType
  <2> QED BY <2>1, WaitingFrame
<1>5. CASE FallsBack \/ RefusedFallsBack
  <2>1. core'.stage = "Legacy"
    BY <1>1, <1>5, LeavingKeeps DEF FallsBack, RefusedFallsBack, FallbackToLegacy
  <2> QED BY <2>1, NotFast
<1>6. CASE AfterSubmit
  <2>1. guest'.at \in {"recovered", "profile"} /\ UNCHANGED <<core, page, sub>>
    BY <1>1, <1>6 DEF AfterSubmit, GuestType
  <2> QED BY <2>1, WaitingFrame
<1>7. CASE GivesUp
  <2>1. core'.stage \in {"Recover", "Legacy"}
    BY <1>7 DEF GivesUp, Ready, Loose, Recoveries
  <2> QED BY <2>1, NotFast
<1>8. CASE Returns
  <2>1. reply = "accepted" /\ UNCHANGED <<core, page, planner>>
    BY <1>8 DEF Returns
  <2>2. CASE AfterBegin \/ AfterMismatch \/ AfterRoute \/ AfterProfile
    <3>1. guest'.at \notin {"idle", "begin"}
      <4>1. CASE AfterBegin
        BY <1>2, <4>1 DEF AfterBegin, GuestType
      <4>2. CASE AfterMismatch
        BY <1>2, <4>2 DEF AfterMismatch, GuestType
      <4>3. CASE AfterRoute
        BY <1>1, <4>3 DEF AfterRoute, GuestType
      <4>4. CASE AfterProfile
        BY <1>2, <4>4 DEF AfterProfile, GuestType
      <4> QED BY <2>2, <4>1, <4>2, <4>3, <4>4
    <3>2. UNCHANGED sub
      BY <2>2 DEF AfterBegin, AfterMismatch, AfterRoute, AfterProfile
    <3> QED BY <2>1, <3>1, <3>2, WaitingFrame
  <2>3. CASE AfterRecovered
    <3>1. core'.stage = "Detect"
      BY <2>1, <2>3 DEF AfterRecovered, Ready, IInv, Stages
    <3> QED BY <3>1, NotFast
  <2> QED BY <1>8, <2>1, <2>2, <2>3, AfterCompleteWaits DEF Returns
<1> QED BY <1>3, <1>4, <1>5, <1>6, <1>7, <1>8, BeforeSubmitWaits, EarlyRouteWaits
        DEF GuestStep

\* Every step keeps it.
LEMMA NextWaits ==
  ASSUME ReplanPeriods > 1, Ready, Waiting, [Next]_vars
  PROVE  Waiting'
<1>1. CASE UNCHANGED vars
  BY <1>1 DEF vars, Waiting, FineDue, Published
<1> QED BY <1>1, HostWaits, PlannerStepWaits, GuestWaits DEF Next

\* A published plan is taken up soon: the planner and the page hand it to the guest,
\* which acknowledges it with the period it applies to, or the one after, or after the fine
\* profile that one owed.  With replan_periods = 1 every period is a fine one and no plan is
\* ever used; the code negotiates 32 (EXPRESS_VK_FLIME_PAPER_REPLAN_PERIODS).
THEOREM TakenUp == ReplanPeriods > 1 => (Spec => []PlanTakenUpSoon)
<1> SUFFICES ASSUME ReplanPeriods > 1 PROVE Spec => []PlanTakenUpSoon
  OBVIOUS
<1>1. Init => Waiting
  BY DEF Init, NewCore, Waiting
<1>2. Ready /\ Waiting /\ [Next]_vars => Waiting'
  BY NextWaits
<1>3. Waiting => PlanTakenUpSoon
  BY DEF Waiting, PlanTakenUpSoon
<1> QED BY <1>1, <1>2, <1>3, ReadyInvariance, PTL DEF Spec

===============================================================================
