------------------------ MODULE PlannerHandoffProofs ------------------------
(***************************************************************************)
(* The safety properties of PlannerHandoff for any number of messages.     *)
(***************************************************************************)
EXTENDS PlannerHandoff, TLAPS

\* Host work runs in a learned period or in a recovery, so that a recovery
\* deferred to its end is not lost in another stage.
RunningStage == bridge.work = "running" => core.stage \in {"FAST", "RECOVER"}

\* While a packet holds the bridge lock the session is there and no host work
\* runs; a reset has left the learned stages and a teardown the protocol; and
\* the page that a plain packet brought is the session's.
PacketHolds ==
  /\ ~LockFree => ~bridge.removed /\ bridge.work # "running"
  /\ ~LockFree /\ packet.kind # "plain" => core.stage # "FAST"
  /\ packet.at = "schedule" /\ packet.kind = "plain" => bridge.sink
  /\ packet.at = "none" => LockFree

IInv == TypeOK /\ DeferredHasOwner /\ FailClosed /\ RunningStage /\ PacketHolds

\* What the type invariant needs of a step that leaves the worker alone: typed
\* values, and generations that do not go back.
Later(b) ==
  /\ core' \in CoreType /\ core'.gen >= core.gen
  /\ bridge' \in BridgeType /\ bridge'.gen >= b.gen

-----------------------------------------------------------------------------
\* A message sent stays within the bound.
LEMMA Counted ==
  ASSUME sent \in 0 .. MaxPackets, sent < MaxPackets, sent' = sent + 1
  PROVE  sent' \in 0 .. MaxPackets
BY HandoffAssumption DEF HandoffAssumption

\* A core step moves the core's generation by one.
LEMMA MovedCore ==
  ASSUME NEW c \in CoreType
  PROVE  Moved(c) \in CoreType /\ Moved(c).gen = c.gen + 1
BY DEF Moved, CoreType

\* A scheduling step moves the bridge's generation by one.
LEMMA MovedBridge ==
  ASSUME NEW b \in BridgeType
  PROVE  Moved(b) \in BridgeType /\ Moved(b).gen = b.gen + 1
BY DEF Moved, BridgeType

\* Generations are numbers.
LEMMA NatGens ==
  ASSUME NEW c \in CoreType, NEW b \in BridgeType
  PROVE  c.gen \in Nat /\ b.gen \in Nat
BY DEF CoreType, BridgeType

\* Generations that stay or move by one do not go back.
LEMMA LaterBy ==
  ASSUME core.gen \in Nat, bridge.gen \in Nat,
         NEW c \in CoreType, c.gen \in {core.gen, core.gen + 1}, core' = c,
         NEW b \in BridgeType, b.gen \in {bridge.gen, bridge.gen + 1}, bridge' = b
  PROVE  Later(bridge)
BY DEF Later

\* Clearing the plans moves the core's generation.
LEMMA ClearedCore ==
  ASSUME NEW c \in CoreType
  PROVE  Cleared(c) \in CoreType /\ Cleared(c).gen = c.gen + 1
<1>1. /\ [c EXCEPT !.due = FALSE, !.pending = FALSE] \in CoreType
      /\ [c EXCEPT !.due = FALSE, !.pending = FALSE].gen = c.gen
  BY DEF CoreType
<1>2. QED
  BY <1>1, MovedCore DEF Cleared

\* Entering Legacy clears the plans.
LEMMA LegacyCore ==
  ASSUME NEW c \in CoreType
  PROVE  Legacy(c) \in CoreType /\ Legacy(c).gen = c.gen + 1
<1>1. Cleared(c) \in CoreType /\ Cleared(c).gen = c.gen + 1
  BY ClearedCore
<1>2. QED
  BY <1>1 DEF Legacy, CoreType

\* Resetting the bridge session moves its generation.
LEMMA ResetTyped ==
  ASSUME NEW b \in BridgeType
  PROVE  ResetBridge(b) \in BridgeType /\ ResetBridge(b).gen = b.gen + 1
<1> DEFINE d == [b EXCEPT !.bound = FALSE, !.open = FALSE, !.committed = FALSE,
                          !.deferred = FALSE]
<1>1. d \in BridgeType /\ d.gen = b.gen
  BY DEF BridgeType
<1>2. QED
  BY <1>1, MovedBridge DEF ResetBridge

\* Removing the bridge session moves its generation.
LEMMA RemovedTyped ==
  ASSUME NEW b \in BridgeType
  PROVE  Removed(b) \in BridgeType /\ Removed(b).gen = b.gen + 1
<1>1. LET d == [b EXCEPT !.removed = TRUE, !.sink = FALSE]
      IN d \in BridgeType /\ d.gen = b.gen
  BY DEF BridgeType
<1>2. QED
  BY <1>1, MovedBridge DEF Removed

\* A recovery keeps types and moves no generation back.
LEMMA RecoverTyped ==
  ASSUME core \in CoreType, NEW b \in BridgeType, Recover(b)
  PROVE  Later(b)
<1>1. /\ [core EXCEPT !.stage = "RECOVER"] \in CoreType
      /\ [core EXCEPT !.stage = "RECOVER"].gen = core.gen
  BY DEF CoreType
<1>2. /\ [b EXCEPT !.deferred = FALSE] \in BridgeType
      /\ [b EXCEPT !.deferred = FALSE].gen = b.gen
  BY DEF BridgeType
<1>3. /\ Moved([b EXCEPT !.deferred = FALSE]) \in BridgeType
      /\ Moved([b EXCEPT !.deferred = FALSE]).gen = b.gen + 1
  BY <1>2, MovedBridge
<1>4. core.gen \in Nat /\ b.gen \in Nat
  BY NatGens
<1>5. QED
  BY <1>1, <1>3, <1>4 DEF Recover, Later

\* So does a recovery that may be put off.
LEMMA BeginOrDeferTyped ==
  ASSUME core \in CoreType, NEW b \in BridgeType, BeginOrDefer(b)
  PROVE  Later(b)
<1>1. /\ [b EXCEPT !.deferred = FALSE] \in BridgeType
      /\ [b EXCEPT !.deferred = FALSE].gen = b.gen
      /\ [b EXCEPT !.deferred = TRUE] \in BridgeType
      /\ [b EXCEPT !.deferred = TRUE].gen = b.gen
  BY DEF BridgeType
<1>2. CASE Recover(b)
  BY <1>2, RecoverTyped
<1>3. CASE ~Recover(b)
  <2>1. core' = core /\ bridge' \in {b, [b EXCEPT !.deferred = FALSE],
                                     Moved([b EXCEPT !.deferred = TRUE])}
    BY <1>3 DEF BeginOrDefer
  <2>2. /\ Moved([b EXCEPT !.deferred = TRUE]) \in BridgeType
        /\ Moved([b EXCEPT !.deferred = TRUE]).gen = b.gen + 1
    BY <1>1, MovedBridge
  <2>3. core.gen \in Nat /\ b.gen \in Nat
    BY NatGens
  <2>4. bridge' \in BridgeType /\ bridge'.gen >= b.gen
    <3>1. CASE bridge' = b
      BY <2>3, <3>1
    <3>2. CASE bridge' = [b EXCEPT !.deferred = FALSE]
      BY <1>1, <2>3, <3>2
    <3>3. CASE bridge' = Moved([b EXCEPT !.deferred = TRUE])
      BY <2>2, <2>3, <3>3
    <3>4. QED
      BY <2>1, <3>1, <3>2, <3>3
  <2>5. QED
    BY <2>1, <2>3, <2>4 DEF Later
<1>4. QED
  BY <1>2, <1>3

\* So does a failed session.
LEMMA FailTyped ==
  ASSUME core \in CoreType, NEW b \in BridgeType, FailSession(b)
  PROVE  Later(b)
<1>1. /\ [b EXCEPT !.work = "none"] \in BridgeType
      /\ [b EXCEPT !.work = "none"].gen = b.gen
  BY DEF BridgeType
<1>2. CASE b.work = "routed"
  <2>1. Later([b EXCEPT !.work = "none"])
    BY <1>1, <1>2, RecoverTyped DEF FailSession
  <2>2. QED
    BY <1>1, <2>1 DEF Later
<1>3. CASE b.work # "routed"
  BY <1>3, BeginOrDeferTyped DEF FailSession
<1>4. QED
  BY <1>2, <1>3

\* A step that moves no generation back keeps the worker's snapshots behind.
LEMMA WorkerStays ==
  ASSUME TypeOK, worker' = worker, Later(bridge), packet' \in PacketType,
         sent' \in 0 .. MaxPackets
  PROVE  TypeOK'
<1>1. worker'.gen <= bridge'.gen /\ worker'.core <= core'.gen
  <2>1. worker.gen \in Nat /\ worker.core \in Nat
    BY DEF TypeOK, WorkerType
  <2>2. core' \in CoreType /\ bridge' \in BridgeType /\ core \in CoreType
          /\ bridge \in BridgeType
    BY DEF TypeOK, Later
  <2>3. core'.gen \in Nat /\ bridge'.gen \in Nat /\ core.gen \in Nat
          /\ bridge.gen \in Nat
    BY <2>2, NatGens
  <2>4. QED
    BY <2>1, <2>3 DEF TypeOK, Later
<1>2. QED
  BY <1>1 DEF TypeOK, Later

-----------------------------------------------------------------------------
\* Capabilities: a new sink, in Detect or Legacy.
LEMMA NegotiateStep ==
  ASSUME IInv, NEW common \in BOOLEAN, Negotiate(common) PROVE IInv'
<1>1. TypeOK'
  <2>1. core \in CoreType /\ bridge \in BridgeType
    BY DEF IInv, TypeOK
  <2>2. core.gen \in Nat /\ bridge.gen \in Nat
    BY <2>1, NatGens
  <2>3. LET c == [Cleared(core) EXCEPT !.stage = "DETECT", !.ready = TRUE]
        IN c \in CoreType /\ c.gen = Cleared(core).gen
    BY <2>1, ClearedCore DEF CoreType
  <2>4. LET b == bridge
        IN Moved(b) \in BridgeType /\ Moved(b).gen = bridge.gen + 1
    BY <2>1, MovedBridge
  <2>5. Legacy(core) \in CoreType /\ Legacy(core).gen = core.gen + 1
    BY <2>1, LegacyCore
  <2>6. Cleared(core).gen = core.gen + 1
    BY <2>1, ClearedCore
  <2>7. Later(bridge)
    BY <2>1, <2>2, <2>3, <2>4, <2>5, <2>6 DEF Later, Negotiate, Accept
  <2>8. packet' \in PacketType
    BY DEF IInv, TypeOK, PacketType, NoPacket, Negotiate, Accept
  <2>9. sent' \in 0 .. MaxPackets
    BY Counted DEF IInv, TypeOK, MayTalk, Negotiate, Accept
  <2>10. QED
    BY <2>7, <2>8, <2>9, WorkerStays DEF IInv, MayTalk, Negotiate, Accept
<1>2. DeferredHasOwner'
  BY DEF IInv, TypeOK, BridgeType, DeferredHasOwner, RunningStage,
     PacketHolds, LockFree, NoPacket, MayTalk, Negotiate, Cleared, Legacy,
     Accept, Moved
<1>3. FailClosed'
  BY DEF IInv, TypeOK, CoreType, BridgeType, PacketType, DeferredHasOwner,
     FailClosed, PacketHolds, LockFree, NoPacket, MayTalk, Negotiate, Cleared,
     Legacy, Accept, Moved
<1>4. RunningStage'
  BY DEF IInv, TypeOK, CoreType, BridgeType, RunningStage, PacketHolds,
     LockFree, NoPacket, MayTalk, Negotiate, Cleared, Legacy, Accept, Moved
<1>5. PacketHolds'
  BY DEF IInv, TypeOK, CoreType, BridgeType, PacketType, PacketHolds,
     LockFree, NoPacket, MayTalk, Negotiate, Cleared, Legacy, Accept, Moved
<1>6. QED
  BY <1>1, <1>2, <1>3, <1>4, <1>5 DEF IInv

\* Packets that touch neither plans nor host work.
LEMMA OtherPacketStep == ASSUME IInv, OtherPacket PROVE IInv'
<1>1. TypeOK'
  <2>1. core \in CoreType /\ bridge \in BridgeType
    BY DEF IInv, TypeOK
  <2>2. core.gen \in Nat /\ bridge.gen \in Nat
    BY <2>1, NatGens
  <2>3. LET b == bridge
        IN Moved(b) \in BridgeType /\ Moved(b).gen = bridge.gen + 1
    BY <2>1, MovedBridge
  <2>4. Later(bridge)
    BY <2>1, <2>2, <2>3 DEF Later, OtherPacket, Accept
  <2>5. packet' \in PacketType
    BY DEF IInv, TypeOK, PacketType, NoPacket, OtherPacket, Accept
  <2>6. sent' \in 0 .. MaxPackets
    BY Counted DEF IInv, TypeOK, MayTalk, OtherPacket, Accept
  <2>7. QED
    BY <2>4, <2>5, <2>6, WorkerStays DEF IInv, MayTalk, OtherPacket, Accept
<1>2. DeferredHasOwner'
  BY DEF IInv, TypeOK, BridgeType, DeferredHasOwner, RunningStage,
     PacketHolds, LockFree, NoPacket, MayTalk, OtherPacket, Accept, Moved
<1>3. FailClosed'
  BY DEF IInv, TypeOK, CoreType, BridgeType, PacketType, DeferredHasOwner,
     FailClosed, PacketHolds, LockFree, NoPacket, MayTalk, OtherPacket,
     Accept, Moved
<1>4. RunningStage'
  BY DEF IInv, TypeOK, CoreType, BridgeType, RunningStage, PacketHolds,
     LockFree, NoPacket, MayTalk, OtherPacket, Accept, Moved
<1>5. PacketHolds'
  BY DEF IInv, TypeOK, CoreType, BridgeType, PacketType, PacketHolds,
     LockFree, NoPacket, MayTalk, OtherPacket, Accept, Moved
<1>6. QED
  BY <1>1, <1>2, <1>3, <1>4, <1>5 DEF IInv

\* The guest announces a repeated interval.
LEMMA EnterLearnedStep == ASSUME IInv, EnterLearned PROVE IInv'
<1>1. TypeOK'
  <2>1. core \in CoreType /\ bridge \in BridgeType
    BY DEF IInv, TypeOK
  <2>2. core.gen \in Nat /\ bridge.gen \in Nat
    BY <2>1, NatGens
  <2>3. LET c == [core EXCEPT !.stage = "FAST"]
        IN c \in CoreType /\ c.gen = core.gen
    BY <2>1 DEF CoreType
  <2>4. LET b == bridge
        IN Moved(b) \in BridgeType /\ Moved(b).gen = bridge.gen + 1
    BY <2>1, MovedBridge
  <2>5. Later(bridge)
    BY <2>1, <2>2, <2>3, <2>4 DEF Later, EnterLearned, Accept
  <2>6. packet' \in PacketType
    BY DEF IInv, TypeOK, PacketType, NoPacket, EnterLearned, Accept
  <2>7. sent' \in 0 .. MaxPackets
    BY Counted DEF IInv, TypeOK, MayTalk, EnterLearned, Accept
  <2>8. QED
    BY <2>5, <2>6, <2>7, WorkerStays DEF IInv, MayTalk, EnterLearned, Accept
<1>2. DeferredHasOwner'
  BY DEF IInv, TypeOK, BridgeType, DeferredHasOwner, RunningStage,
     PacketHolds, LockFree, NoPacket, MayTalk, EnterLearned, Accept, Moved
<1>3. FailClosed'
  BY DEF IInv, TypeOK, CoreType, BridgeType, PacketType, DeferredHasOwner,
     FailClosed, PacketHolds, LockFree, NoPacket, MayTalk, EnterLearned,
     Accept, Moved
<1>4. RunningStage'
  BY DEF IInv, TypeOK, CoreType, BridgeType, RunningStage, PacketHolds,
     LockFree, NoPacket, MayTalk, EnterLearned, Accept, Moved
<1>5. PacketHolds'
  BY DEF IInv, TypeOK, CoreType, BridgeType, PacketType, PacketHolds,
     LockFree, NoPacket, MayTalk, EnterLearned, Accept, Moved
<1>6. QED
  BY <1>1, <1>2, <1>3, <1>4, <1>5 DEF IInv

\* A period begins and may install the pending plan.
LEMMA PeriodBeginStep ==
  ASSUME IInv, NEW install \in BOOLEAN, PeriodBegin(install) PROVE IInv'
<1>1. TypeOK'
  <2>1. core \in CoreType /\ bridge \in BridgeType
    BY DEF IInv, TypeOK
  <2>2. core.gen \in Nat /\ bridge.gen \in Nat
    BY <2>1, NatGens
  <2>3. LET c == [core EXCEPT !.pending = @ /\ ~install]
        IN c \in CoreType /\ c.gen = core.gen
    BY <2>1 DEF CoreType
  <2>4. LET b == [bridge EXCEPT !.open = TRUE, !.committed = FALSE, !.deferred = FALSE]
        IN b \in BridgeType /\ b.gen = bridge.gen
    BY <2>1 DEF BridgeType
  <2>5. LET b == [bridge EXCEPT !.open = TRUE, !.committed = FALSE, !.deferred = FALSE]
        IN Moved(b) \in BridgeType /\ Moved(b).gen = bridge.gen + 1
    BY <2>4, MovedBridge
  <2>6. Later(bridge)
    BY <2>1, <2>2, <2>3, <2>4, <2>5 DEF Later, PeriodBegin, Accept
  <2>7. packet' \in PacketType
    BY DEF IInv, TypeOK, PacketType, NoPacket, PeriodBegin, Accept
  <2>8. sent' \in 0 .. MaxPackets
    BY Counted DEF IInv, TypeOK, MayTalk, PeriodBegin, Accept
  <2>9. QED
    BY <2>6, <2>7, <2>8, WorkerStays DEF IInv, MayTalk, PeriodBegin, Accept
<1>2. DeferredHasOwner'
  BY DEF IInv, TypeOK, BridgeType, DeferredHasOwner, RunningStage,
     PacketHolds, LockFree, NoPacket, MayTalk, PeriodBegin, Accept, Moved
<1>3. FailClosed'
  BY DEF IInv, TypeOK, CoreType, BridgeType, PacketType, DeferredHasOwner,
     FailClosed, PacketHolds, LockFree, NoPacket, MayTalk, PeriodBegin,
     Accept, Moved
<1>4. RunningStage'
  BY DEF IInv, TypeOK, CoreType, BridgeType, RunningStage, PacketHolds,
     LockFree, NoPacket, MayTalk, PeriodBegin, Accept, Moved
<1>5. PacketHolds'
  BY DEF IInv, TypeOK, CoreType, BridgeType, PacketType, PacketHolds,
     LockFree, NoPacket, MayTalk, PeriodBegin, Accept, Moved
<1>6. QED
  BY <1>1, <1>2, <1>3, <1>4, <1>5 DEF IInv

\* A period ends and may make a plan due.
LEMMA ProfilePeriodStep ==
  ASSUME IInv, NEW replan \in BOOLEAN, ProfilePeriod(replan) PROVE IInv'
<1>1. TypeOK'
  <2>1. core \in CoreType /\ bridge \in BridgeType
    BY DEF IInv, TypeOK
  <2>2. core.gen \in Nat /\ bridge.gen \in Nat
    BY <2>1, NatGens
  <2>3. LET c == [core EXCEPT !.due = @ \/ replan]
        IN c \in CoreType /\ c.gen = core.gen
    BY <2>1 DEF CoreType
  <2>4. LET b == [bridge EXCEPT !.open = FALSE]
        IN b \in BridgeType /\ b.gen = bridge.gen
    BY <2>1 DEF BridgeType
  <2>5. LET b == [bridge EXCEPT !.open = FALSE]
        IN Moved(b) \in BridgeType /\ Moved(b).gen = bridge.gen + 1
    BY <2>4, MovedBridge
  <2>6. LET c == [core EXCEPT !.due = @ \/ replan]
        IN Moved(c) \in CoreType /\ Moved(c).gen = core.gen + 1
    BY <2>3, MovedCore
  <2>7. Later(bridge)
    BY <2>1, <2>2, <2>3, <2>4, <2>5, <2>6 DEF Later, ProfilePeriod, Accept
  <2>8. packet' \in PacketType
    BY DEF IInv, TypeOK, PacketType, NoPacket, ProfilePeriod, Accept
  <2>9. sent' \in 0 .. MaxPackets
    BY Counted DEF IInv, TypeOK, MayTalk, ProfilePeriod, Accept
  <2>10. QED
    BY <2>7, <2>8, <2>9, WorkerStays DEF IInv, MayTalk, ProfilePeriod, Accept
<1>2. DeferredHasOwner'
  BY DEF IInv, TypeOK, BridgeType, DeferredHasOwner, RunningStage,
     PacketHolds, LockFree, NoPacket, MayTalk, ProfilePeriod, Accept, Moved
<1>3. FailClosed'
  BY DEF IInv, TypeOK, CoreType, BridgeType, PacketType, DeferredHasOwner,
     FailClosed, PacketHolds, LockFree, NoPacket, MayTalk, ProfilePeriod,
     Accept, Moved
<1>4. RunningStage'
  BY DEF IInv, TypeOK, CoreType, BridgeType, RunningStage, PacketHolds,
     LockFree, NoPacket, MayTalk, ProfilePeriod, Accept, Moved
<1>5. PacketHolds'
  BY DEF IInv, TypeOK, CoreType, BridgeType, PacketType, PacketHolds,
     LockFree, NoPacket, MayTalk, ProfilePeriod, Accept, Moved
<1>6. QED
  BY <1>1, <1>2, <1>3, <1>4, <1>5 DEF IInv

\* A mismatch takes the session to Recover; no host work runs then.
LEMMA MismatchStep == ASSUME IInv, Mismatch PROVE IInv'
<1>1. TypeOK'
  <2>1. core \in CoreType /\ bridge \in BridgeType
    BY DEF IInv, TypeOK
  <2>2. core.gen \in Nat /\ bridge.gen \in Nat
    BY <2>1, NatGens
  <2>3. LET c == [core EXCEPT !.stage = "RECOVER"]
        IN c \in CoreType /\ c.gen = core.gen
    BY <2>1 DEF CoreType
  <2>4. LET b == [bridge EXCEPT !.work = "none"]
        IN b \in BridgeType /\ b.gen = bridge.gen
    BY <2>1 DEF BridgeType
  <2>5. LET b == [bridge EXCEPT !.work = "none"]
        IN Moved(b) \in BridgeType /\ Moved(b).gen = bridge.gen + 1
    BY <2>4, MovedBridge
  <2>6. Later(bridge)
    BY <2>1, <2>2, <2>3, <2>4, <2>5 DEF Later, Mismatch, Accept
  <2>7. packet' \in PacketType
    BY DEF IInv, TypeOK, PacketType, NoPacket, Mismatch, Accept
  <2>8. sent' \in 0 .. MaxPackets
    BY Counted DEF IInv, TypeOK, MayTalk, Mismatch, Accept
  <2>9. QED
    BY <2>6, <2>7, <2>8, WorkerStays DEF IInv, MayTalk, Mismatch, Accept
<1>2. DeferredHasOwner'
  BY DEF IInv, TypeOK, BridgeType, DeferredHasOwner, RunningStage,
     PacketHolds, LockFree, NoPacket, MayTalk, Mismatch, Accept, Moved
<1>3. FailClosed'
  BY DEF IInv, TypeOK, CoreType, BridgeType, PacketType, DeferredHasOwner,
     FailClosed, PacketHolds, LockFree, NoPacket, MayTalk, Mismatch, Accept,
     Moved
<1>4. RunningStage'
  BY DEF IInv, TypeOK, CoreType, BridgeType, RunningStage, PacketHolds,
     LockFree, NoPacket, MayTalk, Mismatch, Accept, Moved
<1>5. PacketHolds'
  BY DEF IInv, TypeOK, CoreType, BridgeType, PacketType, PacketHolds,
     LockFree, NoPacket, MayTalk, Mismatch, Accept, Moved
<1>6. QED
  BY <1>1, <1>2, <1>3, <1>4, <1>5 DEF IInv

\* A recovery ends in Detect.
LEMMA RecoveryCompleteStep == ASSUME IInv, RecoveryComplete PROVE IInv'
<1>1. TypeOK'
  <2>1. core \in CoreType /\ bridge \in BridgeType
    BY DEF IInv, TypeOK
  <2>2. core.gen \in Nat /\ bridge.gen \in Nat
    BY <2>1, NatGens
  <2>3. LET c == [Cleared(core) EXCEPT !.stage = IF core.ready THEN "DETECT" ELSE "LEGACY"]
        IN c \in CoreType /\ c.gen = Cleared(core).gen
    BY <2>1, ClearedCore DEF CoreType
  <2>4. LET b == [bridge EXCEPT !.open = FALSE, !.committed = FALSE, !.deferred = FALSE]
        IN b \in BridgeType /\ b.gen = bridge.gen
    BY <2>1 DEF BridgeType
  <2>5. LET b == [bridge EXCEPT !.open = FALSE, !.committed = FALSE, !.deferred = FALSE]
        IN Moved(b) \in BridgeType /\ Moved(b).gen = bridge.gen + 1
    BY <2>4, MovedBridge
  <2>6. Cleared(core).gen = core.gen + 1
    BY <2>1, ClearedCore
  <2>7. Later(bridge)
    BY <2>1, <2>2, <2>3, <2>4, <2>5, <2>6 DEF Later, RecoveryComplete, Accept
  <2>8. packet' \in PacketType
    BY DEF IInv, TypeOK, PacketType, NoPacket, RecoveryComplete, Accept
  <2>9. sent' \in 0 .. MaxPackets
    BY Counted DEF IInv, TypeOK, MayTalk, RecoveryComplete, Accept
  <2>10. QED
    BY <2>7, <2>8, <2>9, WorkerStays DEF IInv, MayTalk, RecoveryComplete,
       Accept
<1>2. DeferredHasOwner'
  BY DEF IInv, TypeOK, BridgeType, DeferredHasOwner, RunningStage,
     PacketHolds, LockFree, NoPacket, MayTalk, RecoveryComplete, Cleared,
     Accept, Moved
<1>3. FailClosed'
  BY DEF IInv, TypeOK, CoreType, BridgeType, PacketType, DeferredHasOwner,
     FailClosed, PacketHolds, LockFree, NoPacket, MayTalk, RecoveryComplete,
     Cleared, Accept, Moved
<1>4. RunningStage'
  BY DEF IInv, TypeOK, CoreType, BridgeType, RunningStage, PacketHolds,
     LockFree, NoPacket, MayTalk, RecoveryComplete, Cleared, Accept, Moved
<1>5. PacketHolds'
  BY DEF IInv, TypeOK, CoreType, BridgeType, PacketType, PacketHolds,
     LockFree, NoPacket, MayTalk, RecoveryComplete, Cleared, Accept, Moved
<1>6. QED
  BY <1>1, <1>2, <1>3, <1>4, <1>5 DEF IInv

\* A reset leaves the learned stages.
LEMMA SessionResetStep == ASSUME IInv, SessionReset PROVE IInv'
<1>1. TypeOK'
  <2>1. core \in CoreType /\ bridge \in BridgeType
    BY DEF IInv, TypeOK
  <2>2. core.gen \in Nat /\ bridge.gen \in Nat
    BY <2>1, NatGens
  <2>3. LET c == [Cleared(core) EXCEPT !.stage = "DETECT"]
        IN c \in CoreType /\ c.gen = Cleared(core).gen
    BY <2>1, ClearedCore DEF CoreType
  <2>4. LET b == bridge
        IN Moved(b) \in BridgeType /\ Moved(b).gen = bridge.gen + 1
    BY <2>1, MovedBridge
  <2>5. ResetBridge(bridge) \in BridgeType /\ ResetBridge(bridge).gen = bridge.gen + 1
    BY <2>1, ResetTyped
  <2>6. /\ Moved(ResetBridge(bridge)) \in BridgeType
        /\ Moved(ResetBridge(bridge)).gen = bridge.gen + 2
    BY <2>2, <2>5, MovedBridge
  <2>7. Cleared(core).gen = core.gen + 1
    BY <2>1, ClearedCore
  <2>8. Later(bridge)
    BY <2>1, <2>2, <2>3, <2>4, <2>5, <2>6, <2>7 DEF Later, SessionReset,
       Accept
  <2>9. packet' \in PacketType
    BY DEF IInv, TypeOK, PacketType, NoPacket, SessionReset, Accept
  <2>10. sent' \in 0 .. MaxPackets
    BY Counted DEF IInv, TypeOK, MayTalk, SessionReset, Accept
  <2>11. QED
    BY <2>8, <2>9, <2>10, WorkerStays DEF IInv, MayTalk, SessionReset, Accept
<1>2. DeferredHasOwner'
  BY DEF IInv, TypeOK, BridgeType, DeferredHasOwner, RunningStage,
     PacketHolds, LockFree, NoPacket, MayTalk, SessionReset, Cleared,
     ResetBridge, Accept, Moved
<1>3. FailClosed'
  BY DEF IInv, TypeOK, CoreType, BridgeType, PacketType, DeferredHasOwner,
     FailClosed, PacketHolds, LockFree, NoPacket, MayTalk, SessionReset,
     Cleared, ResetBridge, Accept, Moved
<1>4. RunningStage'
  BY DEF IInv, TypeOK, CoreType, BridgeType, RunningStage, PacketHolds,
     LockFree, NoPacket, MayTalk, SessionReset, Cleared, ResetBridge, Accept,
     Moved
<1>5. PacketHolds'
  BY DEF IInv, TypeOK, CoreType, BridgeType, PacketType, PacketHolds,
     LockFree, NoPacket, MayTalk, SessionReset, Cleared, ResetBridge, Accept,
     Moved
<1>6. QED
  BY <1>1, <1>2, <1>3, <1>4, <1>5 DEF IInv

\* A teardown ends in Legacy.
LEMMA SessionTeardownStep == ASSUME IInv, SessionTeardown PROVE IInv'
<1>1. TypeOK'
  <2>1. core \in CoreType /\ bridge \in BridgeType
    BY DEF IInv, TypeOK
  <2>2. core.gen \in Nat /\ bridge.gen \in Nat
    BY <2>1, NatGens
  <2>3. LET b == [bridge EXCEPT !.work = "none"]
        IN b \in BridgeType /\ b.gen = bridge.gen
    BY <2>1 DEF BridgeType
  <2>4. LET b == [bridge EXCEPT !.work = "none"]
        IN Moved(b) \in BridgeType /\ Moved(b).gen = bridge.gen + 1
    BY <2>3, MovedBridge
  <2>5. Legacy(core) \in CoreType /\ Legacy(core).gen = core.gen + 1
    BY <2>1, LegacyCore
  <2>6. Later(bridge)
    BY <2>1, <2>2, <2>3, <2>4, <2>5 DEF Later, SessionTeardown, Accept
  <2>7. packet' \in PacketType
    BY DEF IInv, TypeOK, PacketType, NoPacket, SessionTeardown, Accept
  <2>8. sent' \in 0 .. MaxPackets
    BY Counted DEF IInv, TypeOK, MayTalk, SessionTeardown, Accept
  <2>9. QED
    BY <2>6, <2>7, <2>8, WorkerStays DEF IInv, MayTalk, SessionTeardown,
       Accept
<1>2. DeferredHasOwner'
  BY DEF IInv, TypeOK, BridgeType, DeferredHasOwner, RunningStage,
     PacketHolds, LockFree, NoPacket, MayTalk, SessionTeardown, Legacy,
     Cleared, Accept, Moved
<1>3. FailClosed'
  BY DEF IInv, TypeOK, CoreType, BridgeType, PacketType, DeferredHasOwner,
     FailClosed, PacketHolds, LockFree, NoPacket, MayTalk, SessionTeardown,
     Legacy, Cleared, Accept, Moved
<1>4. RunningStage'
  BY DEF IInv, TypeOK, CoreType, BridgeType, RunningStage, PacketHolds,
     LockFree, NoPacket, MayTalk, SessionTeardown, Legacy, Cleared, Accept,
     Moved
<1>5. PacketHolds'
  BY DEF IInv, TypeOK, CoreType, BridgeType, PacketType, PacketHolds,
     LockFree, NoPacket, MayTalk, SessionTeardown, Legacy, Cleared, Accept,
     Moved
<1>6. QED
  BY <1>1, <1>2, <1>3, <1>4, <1>5 DEF IInv

\* A packet the core refuses ends in Legacy or Recover.
LEMMA WireErrorStep ==
  ASSUME IInv, NEW owes \in BOOLEAN, WireError(owes) PROVE IInv'
<1>1. TypeOK'
  <2>1. core \in CoreType /\ bridge \in BridgeType
    BY DEF IInv, TypeOK
  <2>2. core.gen \in Nat /\ bridge.gen \in Nat
    BY <2>1, NatGens
  <2>3. LET c == [core EXCEPT !.stage = "RECOVER", !.ready = FALSE]
        IN c \in CoreType /\ c.gen = core.gen
    BY <2>1 DEF CoreType
  <2>4. LET b == [bridge EXCEPT !.work = "none"]
        IN b \in BridgeType /\ b.gen = bridge.gen
    BY <2>1 DEF BridgeType
  <2>5. LET b == [bridge EXCEPT !.work = "none"]
        IN Moved(b) \in BridgeType /\ Moved(b).gen = bridge.gen + 1
    BY <2>4, MovedBridge
  <2>6. Legacy(core) \in CoreType /\ Legacy(core).gen = core.gen + 1
    BY <2>1, LegacyCore
  <2>7. ResetBridge(bridge) \in BridgeType /\ ResetBridge(bridge).gen = bridge.gen + 1
    BY <2>1, ResetTyped
  <2>8. Later(bridge)
    <3>1. CASE owes
      <4>1. /\ core' = [core EXCEPT !.stage = "RECOVER", !.ready = FALSE]
            /\ bridge' = Moved([bridge EXCEPT !.work = "none"])
        BY <3>1 DEF WireError
      <4>2. QED
        BY <2>2, <2>3, <2>5, <4>1, LaterBy
    <3>2. CASE ~owes
      <4>1. LET b == [ResetBridge(bridge) EXCEPT !.work = "none", !.sink = FALSE]
            IN b \in BridgeType /\ b.gen = ResetBridge(bridge).gen
        BY <2>7 DEF BridgeType
      <4>2. /\ core' = Legacy(core)
            /\ bridge' = [ResetBridge(bridge) EXCEPT !.work = "none", !.sink = FALSE]
        BY <3>2 DEF WireError
      <4>3. QED
        BY <2>2, <2>6, <2>7, <4>1, <4>2, LaterBy
    <3>3. QED
      BY <3>1, <3>2
  <2>9. packet' \in PacketType
    BY DEF IInv, TypeOK, PacketType, NoPacket, WireError
  <2>10. sent' \in 0 .. MaxPackets
    BY Counted DEF IInv, TypeOK, MayTalk, WireError
  <2>11. QED
    BY <2>8, <2>9, <2>10, WorkerStays DEF IInv, MayTalk, WireError
<1>2. DeferredHasOwner'
  BY DEF IInv, TypeOK, BridgeType, DeferredHasOwner, RunningStage,
     PacketHolds, LockFree, NoPacket, MayTalk, WireError, Legacy, Cleared,
     ResetBridge, Moved
<1>3. FailClosed'
  BY DEF IInv, TypeOK, CoreType, BridgeType, PacketType, DeferredHasOwner,
     FailClosed, PacketHolds, LockFree, NoPacket, MayTalk, WireError, Legacy,
     Cleared, ResetBridge, Moved
<1>4. RunningStage'
  BY DEF IInv, TypeOK, CoreType, BridgeType, RunningStage, PacketHolds,
     LockFree, NoPacket, MayTalk, WireError, Legacy, Cleared, ResetBridge,
     Moved
<1>5. PacketHolds'
  BY DEF IInv, TypeOK, CoreType, BridgeType, PacketType, PacketHolds,
     LockFree, NoPacket, MayTalk, WireError, Legacy, Cleared, ResetBridge,
     Moved
<1>6. QED
  BY <1>1, <1>2, <1>3, <1>4, <1>5 DEF IInv

\* A profile the bridge refuses takes the session to Recover.
LEMMA ProfileRefusedStep == ASSUME IInv, ProfileRefused PROVE IInv'
<1>1. TypeOK'
  <2>1. core \in CoreType /\ bridge \in BridgeType
    BY DEF IInv, TypeOK
  <2>2. core.gen \in Nat /\ bridge.gen \in Nat
    BY <2>1, NatGens
  <2>3. Later(bridge)
    BY <2>1, <2>2, RecoverTyped DEF Later, ProfileRefused
  <2>4. packet' \in PacketType
    BY DEF IInv, TypeOK, PacketType, NoPacket, ProfileRefused
  <2>5. sent' \in 0 .. MaxPackets
    BY Counted DEF IInv, TypeOK, MayTalk, ProfileRefused
  <2>6. QED
    BY <2>3, <2>4, <2>5, WorkerStays DEF IInv, MayTalk, ProfileRefused
<1>2. DeferredHasOwner'
  BY DEF IInv, TypeOK, BridgeType, DeferredHasOwner, RunningStage,
     PacketHolds, LockFree, NoPacket, MayTalk, ProfileRefused, Recover, Moved
<1>3. FailClosed'
  BY DEF IInv, TypeOK, CoreType, BridgeType, PacketType, DeferredHasOwner,
     FailClosed, PacketHolds, LockFree, NoPacket, MayTalk, ProfileRefused,
     Recover, Moved
<1>4. RunningStage'
  BY DEF IInv, TypeOK, CoreType, BridgeType, RunningStage, PacketHolds,
     LockFree, NoPacket, MayTalk, ProfileRefused, Recover, Moved
<1>5. PacketHolds'
  BY DEF IInv, TypeOK, CoreType, BridgeType, PacketType, PacketHolds,
     LockFree, NoPacket, MayTalk, ProfileRefused, Recover, Moved
<1>6. QED
  BY <1>1, <1>2, <1>3, <1>4, <1>5 DEF IInv

\* A process that is aborted loses its session.
LEMMA AbortProcessStep == ASSUME IInv, AbortProcess PROVE IInv'
<1>1. TypeOK'
  <2>1. core \in CoreType /\ bridge \in BridgeType
    BY DEF IInv, TypeOK
  <2>2. core.gen \in Nat /\ bridge.gen \in Nat
    BY <2>1, NatGens
  <2>3. Later(bridge)
    BY <2>1, <2>2, FailTyped DEF Later, AbortProcess
  <2>4. packet' \in PacketType
    BY DEF IInv, TypeOK, PacketType, NoPacket, AbortProcess
  <2>5. sent' \in 0 .. MaxPackets
    BY Counted DEF IInv, TypeOK, AbortProcess
  <2>6. QED
    BY <2>3, <2>4, <2>5, WorkerStays DEF IInv, AbortProcess
<1>2. DeferredHasOwner'
  <2>1. CASE bridge.work = "running"
    BY <2>1 DEF IInv, TypeOK, BridgeType, AbortProcess, FailSession,
       BeginOrDefer, Recover, Moved, DeferredHasOwner
  <2>2. CASE bridge.work # "running"
    BY <2>2 DEF IInv, TypeOK, BridgeType, AbortProcess, FailSession,
       BeginOrDefer, Recover, Moved, DeferredHasOwner
  <2>3. QED
    BY <2>1, <2>2
<1>3. FailClosed'
  BY DEF IInv, TypeOK, CoreType, BridgeType, PacketType, DeferredHasOwner,
     FailClosed, PacketHolds, LockFree, NoPacket, AbortProcess, FailSession,
     BeginOrDefer, Recover, Moved
<1>4. RunningStage'
  BY DEF IInv, TypeOK, CoreType, BridgeType, RunningStage, PacketHolds,
     LockFree, NoPacket, AbortProcess, FailSession, BeginOrDefer, Recover,
     Moved
<1>5. PacketHolds'
  BY DEF IInv, TypeOK, CoreType, BridgeType, PacketType, PacketHolds,
     LockFree, NoPacket, AbortProcess, FailSession, BeginOrDefer, Recover,
     Moved
<1>6. QED
  BY <1>1, <1>2, <1>3, <1>4, <1>5 DEF IInv

\* The answer is written, or the sink is lost and the session fails closed.
LEMMA ReplyStep ==
  ASSUME IInv, NEW published \in BOOLEAN, Reply(published) PROVE IInv'
<1>1. TypeOK'
  <2>1. core \in CoreType /\ bridge \in BridgeType
    BY DEF IInv, TypeOK
  <2>2. core.gen \in Nat /\ bridge.gen \in Nat
    BY <2>1, NatGens
  <2>3. LET b == [bridge EXCEPT !.sink = FALSE]
        IN b \in BridgeType /\ b.gen = bridge.gen
    BY <2>1 DEF BridgeType
  <2>4. Later(bridge)
    <3>1. CASE published
      <4>1. LET b == [bridge EXCEPT !.seen = TRUE, !.sink = packet.kind = "plain"]
            IN b \in BridgeType /\ b.gen = bridge.gen
        BY <2>1 DEF BridgeType
      <4>2. /\ core' = core
            /\ bridge' = [bridge EXCEPT !.seen = TRUE, !.sink = packet.kind = "plain"]
        BY <3>1 DEF Reply
      <4>3. QED
        BY <2>1, <2>2, <4>1, <4>2, LaterBy
    <3>2. CASE ~published
      <4>1. Later([bridge EXCEPT !.sink = FALSE])
        BY <2>1, <2>3, <3>2, FailTyped DEF Reply, DeliveryFailed
      <4>2. QED
        BY <2>3, <4>1 DEF Later
    <3>3. QED
      BY <3>1, <3>2
  <2>5. packet' \in PacketType
    BY DEF IInv, TypeOK, PacketType, NoPacket, Reply, DeliveryFailed
  <2>6. sent' \in 0 .. MaxPackets
    BY DEF IInv, TypeOK, Reply, DeliveryFailed
  <2>7. QED
    BY <2>4, <2>5, <2>6, WorkerStays DEF IInv, Reply, DeliveryFailed
<1>2. DeferredHasOwner'
  BY DEF IInv, TypeOK, BridgeType, DeferredHasOwner, RunningStage,
     PacketHolds, LockFree, NoPacket, Reply, FailSession, BeginOrDefer,
     Recover, Moved, DeliveryFailed
<1>3. FailClosed'
  BY DEF IInv, TypeOK, CoreType, BridgeType, PacketType, DeferredHasOwner,
     FailClosed, PacketHolds, LockFree, NoPacket, Reply, FailSession,
     BeginOrDefer, Recover, Moved, DeliveryFailed
<1>4. RunningStage'
  BY DEF IInv, TypeOK, CoreType, BridgeType, RunningStage, PacketHolds,
     LockFree, NoPacket, Reply, FailSession, BeginOrDefer, Recover, Moved,
     DeliveryFailed
<1>5. PacketHolds'
  <2>1. CASE published
    <3>1. /\ bridge' = [bridge EXCEPT !.seen = TRUE, !.sink = packet.kind = "plain"]
          /\ packet' = [packet EXCEPT !.at = "schedule"]
          /\ core' = core /\ packet.at = "reply"
      BY <2>1 DEF Reply
    <3>2. /\ bridge'.removed = bridge.removed /\ bridge'.work = bridge.work
          /\ bridge'.sink = (packet.kind = "plain")
      BY <3>1 DEF IInv, TypeOK, BridgeType
    <3>3. packet'.at = "schedule" /\ packet'.kind = packet.kind
      BY <3>1 DEF IInv, TypeOK, PacketType
    <3>4. ~LockFree /\ ~LockFree'
      BY <3>1, <3>3 DEF LockFree, NoPacket
    <3>5. QED
      BY <3>1, <3>2, <3>3, <3>4 DEF IInv, PacketHolds
  <2>2. CASE ~published
    BY <2>2 DEF PacketHolds, LockFree, NoPacket, Reply
  <2>3. QED
    BY <2>1, <2>2
<1>6. QED
  BY <1>1, <1>2, <1>3, <1>4, <1>5 DEF IInv

\* A due plan is queued and the packet lets go of the lock.
LEMMA ScheduleStep == ASSUME IInv, Schedule PROVE IInv'
<1>1. TypeOK'
  <2>1. core \in CoreType /\ bridge \in BridgeType
    BY DEF IInv, TypeOK
  <2>2. core.gen \in Nat /\ bridge.gen \in Nat
    BY <2>1, NatGens
  <2>3. Later(bridge)
    <3>1. LET b == [bridge EXCEPT !.queued = TRUE]
          IN b \in BridgeType /\ b.gen = bridge.gen
      BY <2>1 DEF BridgeType
    <3>2. Scheduled(bridge) \in BridgeType /\ Scheduled(bridge).gen = bridge.gen + 1
      BY <3>1, MovedBridge DEF Scheduled
    <3>3. Removed(bridge) \in BridgeType /\ Removed(bridge).gen = bridge.gen + 1
      BY <2>1, RemovedTyped
    <3>4. QED
      BY <2>1, <2>2, <3>2, <3>3 DEF Later, Schedule
  <2>4. packet' \in PacketType
    BY DEF IInv, TypeOK, PacketType, NoPacket, Schedule, Scheduled, Removed
  <2>5. sent' \in 0 .. MaxPackets
    BY DEF IInv, TypeOK, Schedule, Scheduled, Removed
  <2>6. QED
    BY <2>3, <2>4, <2>5, WorkerStays DEF IInv, Schedule, Scheduled, Removed
<1>2. DeferredHasOwner'
  BY DEF IInv, TypeOK, BridgeType, DeferredHasOwner, RunningStage,
     PacketHolds, LockFree, NoPacket, Schedule, Moved, Scheduled, Removed
<1>3. FailClosed'
  BY DEF IInv, TypeOK, CoreType, BridgeType, PacketType, DeferredHasOwner,
     FailClosed, PacketHolds, LockFree, NoPacket, Schedule, Moved, Scheduled,
     Removed
<1>4. RunningStage'
  BY DEF IInv, TypeOK, CoreType, BridgeType, RunningStage, PacketHolds,
     LockFree, NoPacket, Schedule, Moved, Scheduled, Removed
<1>5. PacketHolds'
  BY DEF IInv, TypeOK, CoreType, BridgeType, PacketType, PacketHolds,
     LockFree, NoPacket, Schedule, Moved, Scheduled, Removed
<1>6. QED
  BY <1>1, <1>2, <1>3, <1>4, <1>5 DEF IInv

\* Host work begins in a period or a recovery.
LEMMA HostWorkBeginStep == ASSUME IInv, HostWorkBegin PROVE IInv'
<1>1. TypeOK'
  <2>1. core \in CoreType /\ bridge \in BridgeType
    BY DEF IInv, TypeOK
  <2>2. core.gen \in Nat /\ bridge.gen \in Nat
    BY <2>1, NatGens
  <2>3. LET b == [bridge EXCEPT !.work = "running", !.bound = TRUE]
        IN b \in BridgeType /\ b.gen = bridge.gen
    BY <2>1 DEF BridgeType
  <2>4. Later(bridge)
    BY <2>1, <2>2, <2>3 DEF Later, HostWorkBegin
  <2>5. packet' \in PacketType
    BY DEF IInv, TypeOK, PacketType, NoPacket, HostWorkBegin
  <2>6. sent' \in 0 .. MaxPackets
    BY Counted DEF IInv, TypeOK, HostWorkBegin
  <2>7. QED
    BY <2>4, <2>5, <2>6, WorkerStays DEF IInv, HostWorkBegin
<1>2. DeferredHasOwner'
  BY DEF IInv, TypeOK, BridgeType, DeferredHasOwner, RunningStage,
     PacketHolds, LockFree, NoPacket, HostWorkBegin
<1>3. FailClosed'
  BY DEF IInv, TypeOK, CoreType, BridgeType, PacketType, DeferredHasOwner,
     FailClosed, PacketHolds, LockFree, NoPacket, HostWorkBegin
<1>4. RunningStage'
  BY DEF IInv, TypeOK, CoreType, BridgeType, RunningStage, PacketHolds,
     LockFree, NoPacket, HostWorkBegin
<1>5. PacketHolds'
  BY DEF IInv, TypeOK, CoreType, BridgeType, PacketType, PacketHolds,
     LockFree, NoPacket, HostWorkBegin
<1>6. QED
  BY <1>1, <1>2, <1>3, <1>4, <1>5 DEF IInv

\* Host work ends and starts the recovery that was put off.
LEMMA HostWorkEndStep ==
  ASSUME IInv, NEW more \in BOOLEAN, HostWorkEnd(more) PROVE IInv'
<1>1. TypeOK'
  <2>1. core \in CoreType /\ bridge \in BridgeType
    BY DEF IInv, TypeOK
  <2>2. core.gen \in Nat /\ bridge.gen \in Nat
    BY <2>1, NatGens
  <2>3. Later(bridge)
    <3> DEFINE b == [bridge EXCEPT !.work = IF more THEN "routed" ELSE "none",
                                   !.committed = @ \/ (~more /\ bridge.open)]
    <3>1. b \in BridgeType /\ b.gen = bridge.gen
      BY <2>1 DEF BridgeType
    <3>2. BeginOrDefer(b) \/ (bridge' = b /\ core' = core)
      BY DEF HostWorkEnd
    <3> HIDE DEF b
    <3>3. CASE BeginOrDefer(b)
      <4>1. Later(b)
        BY <2>1, <3>1, <3>3, BeginOrDeferTyped
      <4>2. QED
        BY <3>1, <4>1 DEF Later
    <3>4. CASE bridge' = b /\ core' = core
      BY <2>1, <2>2, <3>1, <3>4 DEF Later
    <3>5. QED
      BY <3>2, <3>3, <3>4
  <2>4. packet' \in PacketType
    BY DEF IInv, TypeOK, PacketType, NoPacket, HostWorkEnd
  <2>5. sent' \in 0 .. MaxPackets
    BY DEF IInv, TypeOK, HostWorkEnd
  <2>6. QED
    BY <2>3, <2>4, <2>5, WorkerStays DEF IInv, HostWorkEnd
<1>2. DeferredHasOwner'
  BY DEF IInv, TypeOK, BridgeType, DeferredHasOwner, RunningStage,
     PacketHolds, LockFree, NoPacket, HostWorkEnd, BeginOrDefer, Recover,
     Moved
<1>3. FailClosed'
  BY DEF IInv, TypeOK, CoreType, BridgeType, PacketType, DeferredHasOwner,
     FailClosed, PacketHolds, LockFree, NoPacket, HostWorkEnd, BeginOrDefer,
     Recover, Moved
<1>4. RunningStage'
  BY DEF IInv, TypeOK, CoreType, BridgeType, RunningStage, PacketHolds,
     LockFree, NoPacket, HostWorkEnd, BeginOrDefer, Recover, Moved
<1>5. PacketHolds'
  BY DEF IInv, TypeOK, CoreType, BridgeType, PacketType, PacketHolds,
     LockFree, NoPacket, HostWorkEnd, BeginOrDefer, Recover, Moved
<1>6. QED
  BY <1>1, <1>2, <1>3, <1>4, <1>5 DEF IInv

\* Host work fails and starts a recovery.
LEMMA HostWorkFailsStep == ASSUME IInv, HostWorkFails PROVE IInv'
<1>1. TypeOK'
  <2>1. core \in CoreType /\ bridge \in BridgeType
    BY DEF IInv, TypeOK
  <2>2. core.gen \in Nat /\ bridge.gen \in Nat
    BY <2>1, NatGens
  <2>3. LET b == [bridge EXCEPT !.work = "none"]
        IN b \in BridgeType /\ b.gen = bridge.gen
    BY <2>1 DEF BridgeType
  <2>4. Later(bridge)
    <3> DEFINE b == [bridge EXCEPT !.work = "none"]
    <3>1. Recover(b) \/ (bridge' = b /\ core' = core)
      BY DEF HostWorkFails
    <3>2. b \in BridgeType /\ b.gen = bridge.gen
      BY <2>3
    <3> HIDE DEF b
    <3>3. CASE Recover(b)
      <4>1. Later(b)
        BY <2>1, <3>2, <3>3, RecoverTyped
      <4>2. QED
        BY <3>2, <4>1 DEF Later
    <3>4. CASE bridge' = b /\ core' = core
      BY <2>1, <2>2, <3>2, <3>4 DEF Later
    <3>5. QED
      BY <3>1, <3>3, <3>4
  <2>5. packet' \in PacketType
    BY DEF IInv, TypeOK, PacketType, NoPacket, HostWorkFails
  <2>6. sent' \in 0 .. MaxPackets
    BY DEF IInv, TypeOK, HostWorkFails
  <2>7. QED
    BY <2>4, <2>5, <2>6, WorkerStays DEF IInv, HostWorkFails
<1>2. DeferredHasOwner'
  BY DEF IInv, TypeOK, BridgeType, DeferredHasOwner, RunningStage,
     PacketHolds, LockFree, NoPacket, HostWorkFails, Recover, Moved
<1>3. FailClosed'
  BY DEF IInv, TypeOK, CoreType, BridgeType, PacketType, DeferredHasOwner,
     FailClosed, PacketHolds, LockFree, NoPacket, HostWorkFails, Recover,
     Moved
<1>4. RunningStage'
  BY DEF IInv, TypeOK, CoreType, BridgeType, RunningStage, PacketHolds,
     LockFree, NoPacket, HostWorkFails, Recover, Moved
<1>5. PacketHolds'
  BY DEF IInv, TypeOK, CoreType, BridgeType, PacketType, PacketHolds,
     LockFree, NoPacket, HostWorkFails, Recover, Moved
<1>6. QED
  BY <1>1, <1>2, <1>3, <1>4, <1>5 DEF IInv

\* The session is removed with whatever it had deferred.
LEMMA RemoveSessionStep == ASSUME IInv, RemoveSession PROVE IInv'
<1>1. TypeOK'
  <2>1. core \in CoreType /\ bridge \in BridgeType
    BY DEF IInv, TypeOK
  <2>2. core.gen \in Nat /\ bridge.gen \in Nat
    BY <2>1, NatGens
  <2>3. Later(bridge)
    <3>1. Removed(bridge) \in BridgeType /\ Removed(bridge).gen = bridge.gen + 1
      BY <2>1, RemovedTyped
    <3>2. LET b == [Removed(bridge) EXCEPT !.work = IF @ = "routed" THEN "none" ELSE @]
          IN b \in BridgeType /\ b.gen = Removed(bridge).gen
      BY <3>1 DEF BridgeType
    <3>3. QED
      BY <2>1, <2>2, <3>1, <3>2 DEF Later, RemoveSession
  <2>4. packet' \in PacketType
    BY DEF IInv, TypeOK, PacketType, NoPacket, RemoveSession, Removed
  <2>5. sent' \in 0 .. MaxPackets
    BY DEF IInv, TypeOK, RemoveSession, Removed
  <2>6. QED
    BY <2>3, <2>4, <2>5, WorkerStays DEF IInv, RemoveSession, Removed
<1>2. DeferredHasOwner'
  BY DEF IInv, TypeOK, BridgeType, DeferredHasOwner, RunningStage,
     PacketHolds, LockFree, NoPacket, RemoveSession, Moved, Removed
<1>3. FailClosed'
  BY DEF IInv, TypeOK, CoreType, BridgeType, PacketType, DeferredHasOwner,
     FailClosed, PacketHolds, LockFree, NoPacket, RemoveSession, Moved,
     Removed
<1>4. RunningStage'
  BY DEF IInv, TypeOK, CoreType, BridgeType, RunningStage, PacketHolds,
     LockFree, NoPacket, RemoveSession, Moved, Removed
<1>5. PacketHolds'
  BY DEF IInv, TypeOK, CoreType, BridgeType, PacketType, PacketHolds,
     LockFree, NoPacket, RemoveSession, Moved, Removed
<1>6. QED
  BY <1>1, <1>2, <1>3, <1>4, <1>5 DEF IInv

-----------------------------------------------------------------------------
\* The steps of the worker that only touch what it read
LEMMA WorkerOnly ==
  ASSUME TypeOK, core' = core, bridge' = bridge, packet' = packet, sent' = sent,
         worker' \in WorkerType, worker'.gen <= bridge.gen, worker'.core <= core.gen
  PROVE  TypeOK'
BY DEF TypeOK

\* A step that leaves stage, sink, deferral, work and packet alone is safe.
LEMMA SafetyKept ==
  ASSUME IInv, TypeOK', core'.stage = core.stage, bridge'.sink = bridge.sink,
         bridge'.deferred = bridge.deferred, bridge'.work = bridge.work,
         bridge'.removed = bridge.removed, packet' = packet
  PROVE  IInv'
BY DEF IInv, DeferredHasOwner, FailClosed, RunningStage, PacketHolds, LockFree

\* An idle worker holds no generation.
LEMMA IdleTyped ==
  ASSUME TypeOK
  PROVE  /\ Idle \in WorkerType
         /\ Idle.gen <= bridge.gen /\ Idle.core <= core.gen
<1>1. Idle \in WorkerType
  BY DEF Idle, WorkerType
<1>2. core.gen \in Nat /\ bridge.gen \in Nat
  BY NatGens DEF TypeOK
<1>3. Idle.gen = 0 /\ Idle.core = 0
  BY DEF Idle
<1>4. QED
  BY <1>1, <1>2, <1>3

\* The worker reads the bridge's generation.
LEMMA ReadStep == ASSUME IInv, Read PROVE IInv'
<1>1. core.gen \in Nat /\ bridge.gen \in Nat
  BY NatGens DEF IInv, TypeOK
<1>2. LET w == [Idle EXCEPT !.at = "snapshot", !.gen = bridge.gen]
      IN w \in WorkerType /\ w.gen = bridge.gen /\ w.core = 0
  BY <1>1 DEF Idle, WorkerType
<1>3. TypeOK'
  BY <1>1, <1>2, WorkerOnly, IdleTyped DEF IInv, Read
<1>4. QED
  BY <1>3, SafetyKept DEF Read

\* The worker snapshots the core, if a plan is due.
LEMMA SnapshotStep == ASSUME IInv, Snapshot PROVE IInv'
<1>1. worker \in WorkerType /\ worker.gen <= bridge.gen /\ worker.core <= core.gen
  BY DEF IInv, TypeOK
<1>2. core.gen \in Nat
  BY NatGens DEF IInv, TypeOK
<1>3. LET w == [worker EXCEPT !.at = "plan", !.core = core.gen]
      IN w \in WorkerType /\ w.gen = worker.gen /\ w.core = core.gen
  BY <1>1, <1>2 DEF WorkerType
<1>4. LET w == [worker EXCEPT !.at = "finish",
                              !.failure = IF core.ready THEN "none" ELSE "not ready"]
      IN w \in WorkerType /\ w.gen = worker.gen /\ w.core = worker.core
  BY <1>1 DEF WorkerType
<1>5. TypeOK'
  BY <1>1, <1>2, <1>3, <1>4, WorkerOnly DEF IInv, Snapshot
<1>6. QED
  BY <1>5, SafetyKept DEF Snapshot

\* The worker installs its plan, if it is still wanted.
LEMMA PublishStep == ASSUME IInv, Publish PROVE IInv'
<1>1. /\ worker \in WorkerType /\ core \in CoreType /\ bridge \in BridgeType
      /\ packet \in PacketType /\ sent \in 0 .. MaxPackets
      /\ worker.gen <= bridge.gen /\ worker.core <= core.gen
  BY DEF IInv, TypeOK
<1>2. LET w == [worker EXCEPT !.at = "finish", !.published = TRUE]
      IN w \in WorkerType /\ w.gen = worker.gen /\ w.core = worker.core
  BY <1>1 DEF WorkerType
<1>3. LET w == [worker EXCEPT !.at = "finish"]
      IN w \in WorkerType /\ w.gen = worker.gen /\ w.core = worker.core
  BY <1>1 DEF WorkerType
<1>4. LET c == [core EXCEPT !.pending = TRUE, !.due = FALSE]
      IN c \in CoreType /\ c.gen = core.gen /\ c.stage = core.stage
  BY <1>1 DEF CoreType
<1>5. LET b == [bridge EXCEPT !.seen = FALSE]
      IN /\ b \in BridgeType /\ b.gen = bridge.gen /\ b.sink = bridge.sink
         /\ b.deferred = bridge.deferred /\ b.work = bridge.work
         /\ b.removed = bridge.removed
  BY <1>1 DEF BridgeType
<1>6. TypeOK'
  BY <1>1, <1>2, <1>3, <1>4, <1>5 DEF TypeOK, Publish
<1>7. QED
  BY <1>4, <1>5, <1>6, SafetyKept DEF Publish

\* The worker's plan fails.
LEMMA PlanFailsStep == ASSUME IInv, PlanFails PROVE IInv'
<1>1. worker \in WorkerType /\ worker.gen <= bridge.gen /\ worker.core <= core.gen
  BY DEF IInv, TypeOK
<1>2. LET w == [worker EXCEPT !.at = "finish", !.failure = "plan"]
      IN w \in WorkerType /\ w.gen = worker.gen /\ w.core = worker.core
  BY <1>1 DEF WorkerType
<1>3. TypeOK'
  BY <1>1, <1>2, WorkerOnly DEF IInv, PlanFails
<1>4. QED
  BY <1>3, SafetyKept DEF PlanFails

\* The worker delivers, drops a stale result, or fails the session.
LEMMA FinishStep ==
  ASSUME IInv, NEW mapped \in BOOLEAN, Finish(mapped) PROVE IInv'
<1> DEFINE b == [bridge EXCEPT !.queued = FALSE]
           d == [b EXCEPT !.sink = FALSE]
<1>1. core \in CoreType /\ bridge \in BridgeType /\ packet = NoPacket
  BY DEF IInv, TypeOK, Finish, LockFree
<1>2. core.gen \in Nat /\ bridge.gen \in Nat
  BY <1>1, NatGens
<1>3. /\ b \in BridgeType /\ b.gen = bridge.gen /\ b.sink = bridge.sink
      /\ b.deferred = bridge.deferred /\ b.work = bridge.work
      /\ b.removed = bridge.removed
      /\ d \in BridgeType /\ d.gen = bridge.gen
      /\ d.deferred = bridge.deferred /\ d.work = bridge.work
      /\ d.removed = bridge.removed
  BY <1>1 DEF BridgeType
<1>4. CASE DeliveryFailed(b) /\ worker' = Idle /\ UNCHANGED <<packet, sent>>
  <2>1. Later(d)
    BY <1>1, <1>3, <1>4, FailTyped DEF DeliveryFailed
  <2>2. TypeOK'
    <3>1. Idle.gen = 0 /\ Idle.core = 0 /\ Idle \in WorkerType
      BY IdleTyped DEF Idle, IInv
    <3>2. core'.gen \in Nat /\ bridge'.gen \in Nat
      BY <2>1, NatGens DEF Later
    <3>3. QED
      BY <1>4, <2>1, <3>1, <3>2 DEF IInv, TypeOK, Later
  <2>3. /\ DeferredHasOwner' /\ FailClosed' /\ RunningStage'
    <3> HIDE DEF b
    <3>1. FailSession(d)
      BY <1>4 DEF DeliveryFailed
    <3> HIDE DEF d
    <3>2. CASE bridge.work = "running"
      BY <1>1, <1>3, <3>1, <3>2 DEF IInv, DeferredHasOwner, FailClosed,
         RunningStage, FailSession, BeginOrDefer, Recover, Moved, BridgeType, CoreType
    <3>3. CASE bridge.work # "running"
      BY <1>1, <1>3, <3>1, <3>3 DEF IInv, DeferredHasOwner, FailClosed,
         RunningStage, FailSession, BeginOrDefer, Recover, Moved, BridgeType, CoreType
    <3>4. QED
      BY <3>2, <3>3
  <2>4. PacketHolds'
    BY <1>1, <1>4 DEF PacketHolds, LockFree, NoPacket
  <2>5. QED
    BY <2>2, <2>3, <2>4 DEF IInv
<1>5. CASE worker' = [Idle EXCEPT !.at = "read"] /\ UNCHANGED <<core, bridge, packet, sent>>
  <2>1. LET w == [Idle EXCEPT !.at = "read"]
        IN w \in WorkerType /\ w.gen = 0 /\ w.core = 0
    BY DEF Idle, WorkerType
  <2>2. TypeOK'
    BY <1>2, <1>5, <2>1, WorkerOnly DEF IInv
  <2>3. QED
    BY <1>5, <2>2, SafetyKept
<1>6. CASE /\ bridge' \in {b, [b EXCEPT !.seen = @ \/ worker.published]}
           /\ worker' = Idle /\ UNCHANGED <<core, packet, sent>>
  <2>1. /\ bridge' \in BridgeType /\ bridge'.gen = bridge.gen /\ bridge'.sink = bridge.sink
        /\ bridge'.deferred = bridge.deferred /\ bridge'.work = bridge.work
        /\ bridge'.removed = bridge.removed
    BY <1>1, <1>6 DEF BridgeType, IInv, TypeOK, WorkerType
  <2>2. TypeOK'
    BY <1>6, <2>1, IdleTyped DEF IInv, TypeOK
  <2>3. QED
    BY <1>6, <2>1, <2>2, SafetyKept
<1>7. QED
  BY <1>4, <1>5, <1>6 DEF Finish

-----------------------------------------------------------------------------
\* The invariant holds after the first capability exchange.
LEMMA InitInvariant == Init => IInv
<1> SUFFICES ASSUME Init PROVE IInv
  OBVIOUS
<1>1. core \in CoreType /\ bridge \in BridgeType /\ packet \in PacketType
  BY DEF Init, CoreType, BridgeType, PacketType, NoPacket
<1>2. worker \in WorkerType /\ worker.gen <= bridge.gen /\ worker.core <= core.gen
  BY DEF Init, WorkerType, Idle
<1>3. sent \in 0 .. MaxPackets
  BY HandoffAssumption DEF Init, HandoffAssumption
<1>4. QED
  BY <1>1, <1>2, <1>3 DEF Init, IInv, TypeOK, DeferredHasOwner, FailClosed,
     RunningStage, PacketHolds, LockFree, NoPacket

\* Every step keeps the invariant.
LEMMA NextInvariant == IInv /\ [Next]_vars => IInv'
<1> SUFFICES ASSUME IInv, [Next]_vars PROVE IInv'
  OBVIOUS
<1>1. CASE UNCHANGED vars
  <2>1. TypeOK'
    BY <1>1 DEF IInv, TypeOK, vars
  <2>2. QED
    BY <1>1, <2>1, SafetyKept DEF vars
<1>2. CASE GuestPacket
  BY <1>2, NegotiateStep, OtherPacketStep, EnterLearnedStep, PeriodBeginStep,
     ProfilePeriodStep, MismatchStep, RecoveryCompleteStep, SessionResetStep,
     SessionTeardownStep, WireErrorStep, ProfileRefusedStep, AbortProcessStep
  DEF GuestPacket
<1>3. CASE Answer
  BY <1>3, ReplyStep, ScheduleStep DEF Answer
<1>4. CASE HostStep
  BY <1>4, HostWorkBeginStep, HostWorkEndStep, HostWorkFailsStep, RemoveSessionStep
  DEF HostStep
<1>5. CASE Worker
  BY <1>5, ReadStep, SnapshotStep, PublishStep, PlanFailsStep, FinishStep DEF Worker
<1>6. QED
  BY <1>1, <1>2, <1>3, <1>4, <1>5 DEF Next

\* The strengthened invariant holds whatever the guest, the host work and the
\* planner thread do, in any order and any number of times.
THEOREM HandoffInvariance == Spec => []IInv
<1>1. Init => IInv
  BY InitInvariant
<1>2. IInv /\ [Next]_vars => IInv'
  BY NextInvariant
<1>3. QED
  BY <1>1, <1>2, PTL DEF Spec

\* The session and the worker keep their types, and no generation the worker
\* holds is ahead of its counter.
THEOREM HandoffTyped == Spec => []TypeOK
<1>1. IInv => TypeOK
  BY DEF IInv
<1>2. QED
  BY <1>1, HandoffInvariance, PTL

\* A recovery that was put off always has running host work whose end starts it.
THEOREM DeferredOwned == Spec => []DeferredHasOwner
<1>1. IInv => DeferredHasOwner
  BY DEF IInv
<1>2. QED
  BY <1>1, HandoffInvariance, PTL

\* A learned session whose control page was dropped is on its way to Recover.
THEOREM FailsClosed == Spec => []FailClosed
<1>1. IInv => FailClosed
  BY DEF IInv
<1>2. QED
  BY <1>1, HandoffInvariance, PTL
=============================================================================
