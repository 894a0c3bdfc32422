-------------------------- MODULE FlimeBridgeProofs --------------------------
(***************************************************************************)
(* Proofs about FlimeBridge, for any number of streams, queues, periods    *)
(* and sessions.                                                           *)
(***************************************************************************)
EXTENDS FlimeBridge, TLAPS

Holds(x) == IF x THEN 1 ELSE 0

\* The fields of a stream.
Shape(h) ==
  /\ DOMAIN h = {"b", "c", "p"}
  /\ DOMAIN h.b = DOMAIN NewBridge
  /\ DOMAIN h.c = DOMAIN LegacyCore
  /\ DOMAIN h.p = DOMAIN NoPending

\* g differs from h in nothing that is counted.
SameCount(g, h) ==
  /\ Shape(g)
  /\ g.b.live = h.b.live /\ g.b.pending = h.b.pending /\ g.b.inflight = h.b.inflight
  /\ g.p.refs = h.p.refs /\ g.p.listed = h.p.listed
  /\ g.p.releasing = h.p.releasing /\ g.p.submitting = h.p.submitting

\* The references and counters of a stream whose release (rel) or submit
\* (sub) may be under way.
Counted(h, rel, sub) ==
  /\ Shape(h)
  /\ h.p.listed \in BOOLEAN
  /\ h.p.releasing = rel /\ h.p.submitting = sub
  /\ h.p.refs = Holds(h.p.listed) + Holds(rel) + Holds(sub)
  /\ h.b.pending = Holds(h.p.listed)
  /\ h.b.inflight = Holds(rel) + Holds(sub)
  /\ h.p.listed => h.b.live

Released(s)  == work.op \in {"release", "replay"} /\ work.s = s
Submitted(s) == work.op \in {"realize", "submit", "skip"} /\ work.s = s

WorkOK ==
  \/ work = NoWork
  \/ /\ DOMAIN work = {"op", "s", "ids"} /\ work.s \in Streams
     /\ work.op \in {"release", "replay", "realize", "submit", "skip"}

CountInv ==
  /\ WorkOK
  /\ DOMAIN host = Streams
  /\ \A s \in Streams : Counted(host[s], Released(s), Submitted(s))

-----------------------------------------------------------------------------
(* One stream. *)

\* What is counted does not depend on anything else.
LEMMA SameIsCounted ==
  ASSUME NEW g, NEW h, NEW rel \in BOOLEAN, NEW sub \in BOOLEAN,
         Counted(h, rel, sub), SameCount(g, h)
  PROVE  Counted(g, rel, sub)
BY DEF Counted, SameCount

\* Without a listed submission only the work under way counts.
LEMMA UnlistedCounted ==
  ASSUME NEW h, NEW rel \in BOOLEAN, NEW sub \in BOOLEAN,
         Shape(h), h.p.listed = FALSE, h.p.releasing = rel, h.p.submitting = sub,
         h.p.refs = Holds(rel) + Holds(sub), h.b.pending = 0,
         h.b.inflight = Holds(rel) + Holds(sub)
  PROVE  Counted(h, rel, sub)
<1>1. h.p.listed \in BOOLEAN /\ ~h.p.listed
  OBVIOUS
<1>2. h.p.refs = Holds(h.p.listed) + Holds(rel) + Holds(sub)
  BY DEF Holds
<1>3. h.b.pending = Holds(h.p.listed)
  BY DEF Holds
<1>4. h.p.releasing = rel /\ h.p.submitting = sub
  OBVIOUS
<1> QED BY <1>1, <1>2, <1>3, <1>4 DEF Counted

\* A recovery, deferred or not, counts nothing.
LEMMA BeganSame ==
  ASSUME NEW h, Shape(h)
  PROVE  SameCount(BeganRecovery(h), h)
BY DEF BeganRecovery, SameCount, Shape, NewBridge, LegacyCore, NoPending

\* Nor does one that waits for host work.
LEMMA BeginOrDeferSame ==
  ASSUME NEW h, Shape(h)
  PROVE  SameCount(BeginOrDefer(h), h)
BY DEF BeginOrDefer, BeganRecovery, SameCount, Shape, NewBridge, LegacyCore, NoPending

\* Nor does that of a submission.
LEMMA PendingRecoverySame ==
  ASSUME NEW h, Shape(h)
  PROVE  SameCount(PendingRecovery(h), h)
BY DEF PendingRecovery, BeganRecovery, SameCount, Shape, NewBridge, LegacyCore, NoPending

\* Taking a submission off the list leaves its reference for Unref to drop.
LEMMA UnlinkedCounts ==
  ASSUME NEW h, Shape(h), h.p.listed
  PROVE  /\ Shape(Unlinked(h)) /\ ~Unlinked(h).p.listed /\ Unlinked(h).p.listed \in BOOLEAN
         /\ Unlinked(h).b.pending = h.b.pending - 1
         /\ Unlinked(h).b.inflight = h.b.inflight /\ Unlinked(h).b.live = h.b.live
         /\ Unlinked(h).p.refs = h.p.refs /\ Unlinked(h).p.releasing = h.p.releasing
         /\ Unlinked(h).p.submitting = h.p.submitting
BY DEF Unlinked, Shape, NewBridge, LegacyCore, NoPending

\* The last reference frees the submission; any other only goes away.
LEMMA UnrefCounts ==
  ASSUME NEW h, Shape(h)
  PROVE  /\ Shape(Unref(h)) /\ Unref(h).b = h.b /\ Unref(h).c = h.c
         /\ h.p.refs = 1 => Unref(h).p = NoPending
         /\ h.p.refs # 1 =>
              /\ Unref(h).p.refs = h.p.refs - 1 /\ Unref(h).p.listed = h.p.listed
              /\ Unref(h).p.releasing = h.p.releasing
              /\ Unref(h).p.submitting = h.p.submitting
BY DEF Unref, Shape, NewBridge, LegacyCore, NoPending

\* A submission that is given up leaves the list and its reference, and is
\* freed unless a release or a submit still holds it.
LEMMA DroppedCounted ==
  ASSUME NEW h, NEW rel \in BOOLEAN, NEW sub \in BOOLEAN, Counted(h, rel, sub),
         NEW recover \in BOOLEAN
  PROVE  /\ Counted(Dropped(h, recover), rel, sub)
         /\ ~Dropped(h, recover).p.listed
         /\ Dropped(h, recover).b.live = h.b.live
<1>1. CASE ~h.p.listed
  BY <1>1 DEF Dropped
<1>2. CASE h.p.listed
  <2> DEFINE f == [h EXCEPT !.p.failed = TRUE]
             u == Unlinked(f)
             g == IF recover THEN PendingRecovery(u) ELSE u
  <2>1. SameCount(f, h)
    BY DEF Counted, SameCount, Shape, NewBridge, LegacyCore, NoPending
  <2>2. Shape(f) /\ f.p.listed
    BY <1>2, <2>1 DEF SameCount
  <2>3. Dropped(h, recover) = Unref(g)
    BY <1>2 DEF Dropped
  <2> HIDE DEF f
  <2>4. /\ Shape(u) /\ u.p.listed = FALSE
        /\ u.b.pending = h.b.pending - 1 /\ u.b.inflight = h.b.inflight /\ u.b.live = h.b.live
        /\ u.p.refs = h.p.refs /\ u.p.releasing = rel /\ u.p.submitting = sub
    <3>1. /\ Shape(u) /\ u.p.listed = FALSE
          /\ u.b.pending = f.b.pending - 1 /\ u.b.inflight = f.b.inflight
          /\ u.b.live = f.b.live /\ u.p.refs = f.p.refs
          /\ u.p.releasing = f.p.releasing /\ u.p.submitting = f.p.submitting
      BY <2>2, UnlinkedCounts
    <3> QED BY <2>1, <3>1 DEF SameCount, Counted
  <2> HIDE DEF u
  <2>5. SameCount(g, u)
    <3>1. CASE recover
      BY <2>4, <3>1, PendingRecoverySame
    <3>2. CASE ~recover
      BY <2>4, <3>2 DEF SameCount
    <3> QED BY <3>1, <3>2
  <2> HIDE DEF g
  <2>6. /\ Shape(g) /\ g.p.listed = FALSE
        /\ g.b.pending = 0 /\ g.b.inflight = Holds(rel) + Holds(sub) /\ g.b.live = h.b.live
        /\ g.p.refs = 1 + Holds(rel) + Holds(sub)
        /\ g.p.releasing = rel /\ g.p.submitting = sub
    BY <1>2, <2>4, <2>5 DEF SameCount, Counted, Holds
  <2>7. CASE rel \/ sub
    <3>1. g.p.refs # 1
      BY <2>6, <2>7 DEF Holds
    <3>2. /\ Shape(Unref(g)) /\ Unref(g).b = g.b
          /\ Unref(g).p.refs = g.p.refs - 1 /\ Unref(g).p.listed = g.p.listed
          /\ Unref(g).p.releasing = g.p.releasing /\ Unref(g).p.submitting = g.p.submitting
      BY <2>6, <3>1, UnrefCounts
    <3>3. /\ Shape(Unref(g)) /\ Unref(g).p.listed = FALSE
          /\ Unref(g).p.releasing = rel /\ Unref(g).p.submitting = sub
          /\ Unref(g).p.refs = Holds(rel) + Holds(sub)
          /\ Unref(g).b.pending = 0 /\ Unref(g).b.inflight = Holds(rel) + Holds(sub)
          /\ Unref(g).b.live = h.b.live
      BY <2>6, <3>2 DEF Holds
    <3>4. Counted(Unref(g), rel, sub)
      BY <3>3, UnlistedCounted
    <3>5. ~Unref(g).p.listed
      BY <3>3
    <3> QED BY <2>3, <3>3, <3>4, <3>5
  <2>8. CASE ~rel /\ ~sub
    <3>1. Shape(Unref(g)) /\ Unref(g).b = g.b /\ Unref(g).p = NoPending
      BY <2>6, <2>8, UnrefCounts DEF Holds
    <3>2. /\ Unref(g).p.listed = FALSE
          /\ Unref(g).p.releasing = FALSE /\ Unref(g).p.submitting = FALSE
          /\ Unref(g).p.refs = 0
      BY <3>1 DEF NoPending
    <3>3. Unref(g).b.pending = 0 /\ Unref(g).b.inflight = 0 /\ Unref(g).b.live = h.b.live
      BY <2>6, <2>8, <3>1 DEF Holds
    <3>4. Counted(Unref(g), rel, sub)
      <4>1. rel = FALSE /\ sub = FALSE
        BY <2>8
      <4>2. Unref(g).p.releasing = rel /\ Unref(g).p.submitting = sub
        BY <3>2, <4>1, Zenon
      <4>3. Holds(rel) + Holds(sub) = 0
        BY <2>8 DEF Holds
      <4> QED BY <3>1, <3>2, <3>3, <4>2, <4>3, UnlistedCounted
    <3>5. ~Unref(g).p.listed
      BY <3>2
    <3> QED BY <2>3, <3>3, <3>4, <3>5
  <2> QED BY <2>7, <2>8
<1> QED BY <1>1, <1>2 DEF Counted

\* So it is for a stream that gives up and recovers.
LEMMA FailedCounted ==
  ASSUME NEW h, NEW rel \in BOOLEAN, NEW sub \in BOOLEAN, Counted(h, rel, sub)
  PROVE  Counted(Failed(h), rel, sub)
<1>1. Counted(Dropped(h, TRUE), rel, sub)
  BY DroppedCounted
<1>2. SameCount(BeginOrDefer(Dropped(h, TRUE)), Dropped(h, TRUE))
  BY <1>1, BeginOrDeferSame DEF Counted
<1> QED BY <1>1, <1>2, SameIsCounted DEF Failed

\* A batch of host work ends: one fewer is counted, and a recovery that was
\* put off begins.
LEMMA WorkEndedCounts ==
  ASSUME NEW h, Shape(h)
  PROVE  /\ Shape(WorkEnded(h))
         /\ WorkEnded(h).b.live = h.b.live /\ WorkEnded(h).b.pending = h.b.pending
         /\ WorkEnded(h).b.inflight = h.b.inflight - 1
         /\ WorkEnded(h).p.refs = h.p.refs /\ WorkEnded(h).p.listed = h.p.listed
         /\ WorkEnded(h).p.releasing = h.p.releasing
         /\ WorkEnded(h).p.submitting = h.p.submitting
<1> DEFINE g == [h EXCEPT !.b.inflight = @ - 1]
<1>1. /\ Shape(g) /\ g.p = h.p /\ g.b.live = h.b.live
      /\ g.b.pending = h.b.pending /\ g.b.inflight = h.b.inflight - 1
  BY DEF Shape, NewBridge, LegacyCore, NoPending
<1>2. WorkEnded(h) = IF g.b.inflight = 0 /\ g.b.deferred THEN BeginOrDefer(g) ELSE g
  BY DEF WorkEnded
<1> HIDE DEF g
<1>3. SameCount(BeginOrDefer(g), g) /\ SameCount(g, g)
  BY <1>1, BeginOrDeferSame DEF SameCount
<1>4. SameCount(WorkEnded(h), g)
  BY <1>2, <1>3
<1> QED BY <1>1, <1>4 DEF SameCount

-----------------------------------------------------------------------------
(* Steps. *)

\* A step of one stream that leaves the work as it is.
LEMMA StreamStep ==
  ASSUME CountInv, NEW s \in Streams, NEW h, UNCHANGED work, Becomes(s, h),
         Counted(h, Released(s), Submitted(s))
  PROVE  CountInv'
<1>1. /\ host' = [host EXCEPT ![s] = h] /\ DOMAIN host' = Streams
      /\ \A t \in Streams : host'[t] = IF t = s THEN h ELSE host[t]
  BY DEF Becomes, CountInv
<1>2. WorkOK' /\ \A t \in Streams : Released(t)' = Released(t) /\ Submitted(t)' = Submitted(t)
  BY DEF CountInv, WorkOK, NoWork, Released, Submitted
<1>3. \A t \in Streams : Counted(host[t], Released(t), Submitted(t))
  BY DEF CountInv
<1>4. ASSUME NEW t \in Streams PROVE Counted(host'[t], Released(t), Submitted(t))
  BY <1>1, <1>3
<1> QED BY <1>1, <1>2, <1>4 DEF CountInv

\* Any number of streams at once.
LEMMA StreamsStep ==
  ASSUME CountInv, UNCHANGED work, DOMAIN host' = Streams,
         \A t \in Streams : Counted(host'[t], Released(t), Submitted(t))
  PROVE  CountInv'
<1>1. WorkOK' /\ \A t \in Streams : Released(t)' = Released(t) /\ Submitted(t)' = Submitted(t)
  BY DEF CountInv, WorkOK, NoWork, Released, Submitted
<1> QED BY <1>1 DEF CountInv

\* With no work under way nothing is released or submitted.
LEMMA IdleCounted ==
  ASSUME CountInv, work = NoWork, NEW s \in Streams
  PROVE  /\ Released(s) = FALSE /\ Submitted(s) = FALSE
         /\ Counted(host[s], FALSE, FALSE) /\ Shape(host[s])
<1>1. Released(s) = FALSE /\ Submitted(s) = FALSE
  BY DEF Released, Submitted, NoWork
<1>2. Counted(host[s], Released(s), Submitted(s))
  BY DEF CountInv
<1>3. Counted(host[s], FALSE, FALSE)
  BY <1>1, <1>2
<1> QED BY <1>1, <1>3 DEF Counted

\* A step of one stream, with no work under way, that changes nothing counted.
LEMMA PlainStep ==
  ASSUME CountInv, work = NoWork, NEW s \in Streams, NEW h, UNCHANGED work, Becomes(s, h),
         SameCount(h, host[s])
  PROVE  CountInv'
<1>1. Counted(host[s], FALSE, FALSE)
  BY IdleCounted
<1>2. Counted(h, FALSE, FALSE)
  BY <1>1, SameIsCounted
<1> QED BY <1>2, IdleCounted, StreamStep

\* A session without a listed submission can go.
LEMMA RemovedCounted ==
  ASSUME NEW h, NEW rel \in BOOLEAN, NEW sub \in BOOLEAN, Counted(h, rel, sub), ~h.p.listed
  PROVE  Counted([h EXCEPT !.b.live = FALSE], rel, sub)
<1> DEFINE g == [h EXCEPT !.b.live = FALSE]
<1>1. /\ Shape(g) /\ g.p = h.p /\ g.b.pending = h.b.pending /\ g.b.inflight = h.b.inflight
  BY DEF Counted, Shape, NewBridge, LegacyCore, NoPending
<1> HIDE DEF g
<1>2. h.p.listed = FALSE /\ h.b.pending = 0
      /\ h.p.refs = Holds(rel) + Holds(sub)
  BY DEF Counted, Holds
<1>3. Counted(g, rel, sub)
  BY <1>1, <1>2, UnlistedCounted DEF Counted
<1> QED BY <1>3 DEF g

\* A session that is removed gives up its submission first.
LEMMA RemovedOfCounted ==
  ASSUME NEW h, NEW rel \in BOOLEAN, NEW sub \in BOOLEAN, Counted(h, rel, sub)
  PROVE  Counted(RemovedOf(h), rel, sub)
BY DroppedCounted, RemovedCounted DEF RemovedOf

-----------------------------------------------------------------------------
(* Control packets. *)

\* A new session counts nothing.
LEMMA OpenStep ==
  ASSUME CountInv, NEW s \in Streams, Open(s)
  PROVE  CountInv'
<1> DEFINE h == [b |-> NewBridge, c |-> FreshCore, p |-> NoPending]
<1>1. work = NoWork /\ UNCHANGED work /\ Becomes(s, h)
  BY DEF Open
<1>2. Shape(h) /\ h.p.listed = FALSE /\ h.p.releasing = FALSE /\ h.p.submitting = FALSE
      /\ h.p.refs = 0 /\ h.b.pending = 0 /\ h.b.inflight = 0
  BY DEF Shape, NewBridge, FreshCore, LegacyCore, NoPending
<1> HIDE DEF h
<1>3. Counted(h, FALSE, FALSE)
  <2>1. Holds(FALSE) + Holds(FALSE) = 0
    BY DEF Holds
  <2> QED BY <1>2, <2>1, UnlistedCounted
<1> QED BY <1>1, <1>3, IdleCounted, StreamStep

\* Negotiation, signatures, periods and progress count nothing: no submission is
\* pending.
LEMMA StageSteps ==
  ASSUME CountInv, NEW s \in Streams,
         \/ Renegotiate(s) \/ EnterLearn(s) \/ SessionReset(s)
         \/ \E single \in BOOLEAN : PeriodBegin(s, single)
         \/ \E ok \in BOOLEAN : StageComplete(s, ok)
  PROVE  CountInv'
<1> DEFINE h == host[s]
<1>1. work = NoWork /\ UNCHANGED work
  <2>1. \A ok : StageComplete(s, ok) => Quiet(s) /\ UNCHANGED work
    BY DEF StageComplete
  <2>2. \A single : PeriodBegin(s, single) => Quiet(s) /\ UNCHANGED work
    BY DEF PeriodBegin
  <2>3. Renegotiate(s) \/ EnterLearn(s) \/ SessionReset(s) => Quiet(s) /\ UNCHANGED work
    BY DEF Renegotiate, EnterLearn, SessionReset
  <2> QED BY <2>1, <2>2, <2>3 DEF Quiet, Control
<1>2. Shape(h) /\ Counted(h, FALSE, FALSE)
  BY <1>1, IdleCounted
<1>3. ASSUME NEW g, Becomes(s, g), SameCount(g, h) PROVE CountInv'
  BY <1>1, <1>3, PlainStep
<1> HIDE DEF h
<1> USE DEF SameCount, Shape, NewBridge, LegacyCore, NoPending
<1>4. CASE Renegotiate(s)
  <2> DEFINE g == [h EXCEPT !.c = FreshCore]
  <2>1. Becomes(s, g)
    BY <1>4 DEF Renegotiate, h
  <2>2. SameCount(g, h)
    BY <1>2 DEF FreshCore
  <2> QED BY <1>3, <2>1, <2>2
<1>5. CASE EnterLearn(s)
  <2> DEFINE g == [h EXCEPT !.c.stage = "LEARN"]
  <2>1. Becomes(s, g)
    BY <1>5 DEF EnterLearn, h
  <2>2. SameCount(g, h)
    BY <1>2
  <2> QED BY <1>3, <2>1, <2>2
<1>6. CASE SessionReset(s)
  <2> DEFINE g == [h EXCEPT !.c = FreshCore, !.b = ResetBridge(@)]
  <2>1. Becomes(s, g)
    BY <1>6 DEF SessionReset, h
  <2>2. SameCount(g, h)
    <3>1. h.b.live
      BY <1>6 DEF SessionReset, Quiet, Control, h
    <3> QED BY <1>2, <3>1 DEF FreshCore, ResetBridge
  <2> QED BY <1>3, <2>1, <2>2
<1>7. ASSUME NEW single \in BOOLEAN, PeriodBegin(s, single) PROVE CountInv'
  <2> DEFINE c == [h.c EXCEPT !.open = TRUE, !.cur = periods + 1, !.last = periods + 1]
             b == [h.b EXCEPT !.period = periods + 1, !.single = single, !.open = TRUE,
                              !.sub = 0, !.declared = 0, !.chunks = 0, !.units = FALSE,
                              !.executed = FALSE, !.committed = FALSE,
                              !.profiled = FALSE, !.deferred = FALSE]
             g == [h EXCEPT !.c = c, !.b = b]
  <2>1. Becomes(s, g)
    <3>1. [h EXCEPT !.c = c, !.b = b] =
            [h EXCEPT
               !.c = [@ EXCEPT !.open = TRUE, !.cur = periods + 1, !.last = periods + 1],
               !.b = [@ EXCEPT !.period = periods + 1, !.single = single, !.open = TRUE,
                               !.sub = 0, !.declared = 0, !.chunks = 0, !.units = FALSE,
                               !.executed = FALSE, !.committed = FALSE,
                               !.profiled = FALSE, !.deferred = FALSE]]
      BY <1>2
    <3> QED BY <1>7, <3>1, Zenon DEF PeriodBegin, h
  <2>2. /\ DOMAIN c = DOMAIN h.c /\ DOMAIN b = DOMAIN h.b
        /\ b.live = h.b.live /\ b.pending = h.b.pending /\ b.inflight = h.b.inflight
    BY <1>2
  <2> HIDE DEF b, c
  <2>3. SameCount(g, h)
    BY <1>2, <2>2
  <2> HIDE DEF g
  <2> QED BY <1>3, <2>1, <2>3
<1>8. ASSUME NEW ok \in BOOLEAN, StageComplete(s, ok) PROVE CountInv'
  <2> DEFINE f == [h EXCEPT !.b.profiled = FALSE]
  <2>1. SameCount(f, h)
    BY <1>2
  <2>2. Becomes(s, BeganRecovery(f)) \/ Becomes(s, [f EXCEPT !.c.stage = "MATCH"])
        \/ Becomes(s, [f EXCEPT !.c.stage = "FAST"]) \/ Becomes(s, [f EXCEPT !.c.ledger = <<>>])
    <3>1. f.c = h.c
      BY <1>2
    <3> QED BY <1>8, <3>1 DEF StageComplete, Learned, h
  <2> HIDE DEF f
  <2>3. /\ SameCount(BeganRecovery(f), f)
        /\ SameCount([f EXCEPT !.c.stage = "MATCH"], f)
        /\ SameCount([f EXCEPT !.c.stage = "FAST"], f)
        /\ SameCount([f EXCEPT !.c.ledger = <<>>], f)
    BY <2>1, BeganSame
  <2>4. \A g : SameCount(g, f) => SameCount(g, h)
    BY <2>1
  <2> QED BY <1>3, <2>2, <2>3, <2>4
<1> QED BY <1>4, <1>5, <1>6, <1>7, <1>8

\* A profile that does not fit gives the submission up.
LEMMA ProfileStep ==
  ASSUME CountInv, NEW s \in Streams, NEW fits \in BOOLEAN, ProfilePeriod(s, fits)
  PROVE  CountInv'
<1> DEFINE h == host[s]
           closed == [h EXCEPT !.c.open = FALSE]
           good == [closed EXCEPT !.b.open = FALSE, !.b.profiled = TRUE]
<1>1. work = NoWork /\ UNCHANGED work
  BY DEF ProfilePeriod, Quiet, Control
<1>2. Shape(h) /\ Counted(h, FALSE, FALSE)
  BY <1>1, IdleCounted
<1>3. Becomes(s, IF fits THEN good ELSE BeganRecovery(Dropped(closed, TRUE)))
  BY DEF ProfilePeriod
<1>4. SameCount(closed, h) /\ SameCount(good, h)
  BY <1>2 DEF SameCount, Shape, NewBridge, LegacyCore, NoPending
<1> HIDE DEF h, closed, good
<1>5. Counted(closed, FALSE, FALSE) /\ Counted(good, FALSE, FALSE)
  BY <1>2, <1>4, SameIsCounted
<1>6. Counted(BeganRecovery(Dropped(closed, TRUE)), FALSE, FALSE)
  BY <1>5, DroppedCounted, BeganSame, SameIsCounted DEF Counted
<1> QED BY <1>1, <1>3, <1>5, <1>6, IdleCounted, StreamStep

\* A mismatch gives the submission up, and so does a teardown, whether its answer
\* goes out or not.
LEMMA MismatchStep ==
  ASSUME CountInv, NEW s \in Streams,
         Mismatch(s) \/ \E published \in BOOLEAN : SessionTeardown(s, published)
  PROVE  CountInv'
<1> DEFINE d == Dropped(host[s], FALSE)
<1>1. work = NoWork /\ UNCHANGED work
  BY DEF Mismatch, SessionTeardown, Control
<1>2. Counted(host[s], FALSE, FALSE)
  BY <1>1, IdleCounted
<1>3. Counted(d, FALSE, FALSE) /\ ~d.p.listed
  BY <1>2, DroppedCounted
<1>4. ASSUME NEW g, Becomes(s, g), Counted(g, FALSE, FALSE) PROVE CountInv'
  BY <1>1, <1>4, IdleCounted, StreamStep
<1> HIDE DEF d
<1>5. CASE Mismatch(s)
  <2> DEFINE g == [d EXCEPT !.b.profiled = FALSE]
  <2>1. Becomes(s, BeganRecovery(g))
    BY <1>5 DEF Mismatch, d
  <2>2. SameCount(g, d)
    BY <1>3 DEF Counted, SameCount, Shape, NewBridge, LegacyCore, NoPending
  <2> HIDE DEF g
  <2>3. Counted(g, FALSE, FALSE)
    BY <1>3, <2>2, SameIsCounted
  <2>4. Counted(BeganRecovery(g), FALSE, FALSE)
    BY <2>3, BeganSame, SameIsCounted DEF Counted
  <2> QED BY <1>4, <2>1, <2>4
<1>6. ASSUME NEW published \in BOOLEAN, SessionTeardown(s, published) PROVE CountInv'
  <2> DEFINE g == [d EXCEPT !.c = LegacyCore]
  <2>1. Becomes(s, IF published THEN [g EXCEPT !.b.live = FALSE] ELSE Failed(g))
    BY <1>6 DEF SessionTeardown, d
  <2>2. SameCount(g, d)
    BY <1>3 DEF Counted, SameCount, Shape, NewBridge, LegacyCore, NoPending
  <2> HIDE DEF g
  <2>3. Counted(g, FALSE, FALSE) /\ ~g.p.listed
    BY <1>3, <2>2, SameIsCounted DEF SameCount
  <2>4. Counted([g EXCEPT !.b.live = FALSE], FALSE, FALSE) /\ Counted(Failed(g), FALSE, FALSE)
    BY <2>3, RemovedCounted, FailedCounted
  <2> QED BY <1>4, <2>1, <2>4
<1> QED BY <1>5, <1>6

\* A recovery is complete only when nothing is pending.
LEMMA RecoveryCompleteStep ==
  ASSUME CountInv, NEW s \in Streams, RecoveryComplete(s)
  PROVE  CountInv'
<1> DEFINE h == host[s]
           c == [h.c EXCEPT !.stage = IF h.c.fallback THEN "LEGACY" ELSE "DETECT",
                            !.ledger = <<>>, !.open = FALSE]
           b == [NewBridge EXCEPT !.queue = h.b.queue, !.last = h.b.last]
           g == [h EXCEPT !.c = c, !.b = b]
<1>1. /\ work = NoWork /\ UNCHANGED work
      /\ h.b.live /\ h.b.inflight = 0 /\ h.b.pending = 0
  BY DEF RecoveryComplete, Quiet, Control
<1>2. Shape(h) /\ Counted(h, FALSE, FALSE)
  BY <1>1, IdleCounted
<1>3. Becomes(s, g)
  BY DEF RecoveryComplete
<1>4. /\ DOMAIN c = DOMAIN LegacyCore /\ DOMAIN b = DOMAIN NewBridge
      /\ b.pending = 0 /\ b.inflight = 0
  BY <1>2 DEF Shape, NewBridge, LegacyCore
<1> HIDE DEF h, c, b
<1>5. Shape(g) /\ g.p = h.p /\ g.b.pending = 0 /\ g.b.inflight = 0
  BY <1>2, <1>4 DEF Shape
<1>6. /\ h.p.listed = FALSE /\ h.p.releasing = FALSE /\ h.p.submitting = FALSE
      /\ h.p.refs = Holds(FALSE) + Holds(FALSE) /\ Holds(FALSE) + Holds(FALSE) = 0
  BY <1>1, <1>2 DEF Counted, Holds
<1> HIDE DEF g
<1>7. Counted(g, FALSE, FALSE)
  BY <1>5, <1>6, UnlistedCounted
<1> QED BY <1>1, <1>3, <1>7, IdleCounted, StreamStep

\* A packet that is refused gives up the submission, and resets the session or
\* has it recover.
LEMMA RefusedStep ==
  ASSUME CountInv, NEW s \in Streams, Refused(s)
  PROVE  CountInv'
<1> DEFINE h == [host[s] EXCEPT !.c = ForcedLegacy(@)]
<1>1. work = NoWork /\ UNCHANGED work /\ host[s].b.live
  BY DEF Refused, Control
<1>2. Shape(host[s]) /\ Counted(host[s], FALSE, FALSE)
  BY <1>1, IdleCounted
<1>3. \/ Becomes(s, [Dropped(h, FALSE) EXCEPT !.b = ResetBridge(@)])
      \/ Becomes(s, BeganRecovery(Dropped(h, TRUE)))
  BY DEF Refused
<1>4. DOMAIN ForcedLegacy(host[s].c) = DOMAIN LegacyCore
  BY <1>2 DEF ForcedLegacy, Shape, LegacyCore
<1>5. SameCount(h, host[s])
  BY <1>2, <1>4 DEF SameCount, Shape
<1> HIDE DEF h
<1>6. Counted(h, FALSE, FALSE) /\ h.b.live
  BY <1>1, <1>2, <1>5, SameIsCounted DEF SameCount
<1>7. Counted(BeganRecovery(Dropped(h, TRUE)), FALSE, FALSE)
  BY <1>6, DroppedCounted, BeganSame, SameIsCounted DEF Counted
<1> DEFINE d == Dropped(h, FALSE)
           g == [d EXCEPT !.b = ResetBridge(@)]
<1>8. Counted(d, FALSE, FALSE) /\ d.b.live = h.b.live
  BY <1>6, DroppedCounted
<1> HIDE DEF d
<1>9. SameCount(g, d)
  <2>1. Shape(d) /\ d.p.listed \in BOOLEAN
    BY <1>8 DEF Counted
  <2>2. /\ DOMAIN ResetBridge(d.b) = DOMAIN NewBridge /\ ResetBridge(d.b).live = TRUE
        /\ ResetBridge(d.b).pending = d.b.pending /\ ResetBridge(d.b).inflight = d.b.inflight
    BY DEF ResetBridge, NewBridge
  <2>3. Shape(g) /\ g.p = d.p /\ g.b = ResetBridge(d.b)
    BY <2>1, <2>2 DEF Shape
  <2> HIDE DEF g
  <2> QED BY <1>8, <1>6, <2>2, <2>3 DEF SameCount
<1> HIDE DEF g
<1>10. Counted(g, FALSE, FALSE)
  BY <1>8, <1>9, SameIsCounted
<1> QED BY <1>1, <1>3, <1>7, <1>10, IdleCounted, StreamStep DEF g, d

\* A packet without an identity fails every stream.
LEMMA AbortStep ==
  ASSUME CountInv, AbortProcess
  PROVE  CountInv'
<1>1. UNCHANGED work /\ host' = [s \in Streams |-> Failed(host[s])]
  BY DEF AbortProcess
<1>2. \A t \in Streams : Counted(host[t], Released(t), Submitted(t))
  BY DEF CountInv
<1>3. \A t \in Streams : Released(t) \in BOOLEAN /\ Submitted(t) \in BOOLEAN
  BY DEF Released, Submitted
<1>4. \A t \in Streams : Counted(host'[t], Released(t), Submitted(t))
  BY <1>1, <1>2, <1>3, FailedCounted
<1> QED BY <1>1, <1>4, StreamsStep

-----------------------------------------------------------------------------
(* Routed submissions. *)

\* A step of one stream that starts, ends or goes on with the work of it.
LEMMA WorkStep ==
  ASSUME CountInv, NEW s \in Streams, NEW h, Becomes(s, h), WorkOK',
         work = NoWork \/ work.s = s, work' = NoWork \/ work'.s = s,
         Counted(h, Released(s)', Submitted(s)')
  PROVE  CountInv'
<1>1. /\ host' = [host EXCEPT ![s] = h] /\ DOMAIN host' = Streams
      /\ \A t \in Streams : host'[t] = IF t = s THEN h ELSE host[t]
  BY DEF Becomes, CountInv
<1>2. \A t \in Streams : Counted(host[t], Released(t), Submitted(t))
  BY DEF CountInv
<1>3. \A t \in Streams \ {s} : Released(t)' = Released(t) /\ Submitted(t)' = Submitted(t)
  BY DEF Released, Submitted, NoWork
<1>4. ASSUME NEW t \in Streams PROVE Counted(host'[t], Released(t)', Submitted(t)')
  <2>1. CASE t = s
    BY <1>1, <2>1
  <2>2. CASE t # s
    BY <1>1, <1>2, <1>3, <2>2
  <2> QED BY <2>1, <2>2
<1> QED BY <1>1, <1>4 DEF CountInv

\* A release under way is one more reference and one more batch in flight.
LEMMA ReleasingStep ==
  ASSUME CountInv, work = NoWork, NEW s \in Streams, NEW h, Counted(h, FALSE, FALSE),
         NEW kind \in {"release", "replay"}, NEW ids, Releasing(s, h, kind, ids)
  PROVE  CountInv'
<1> DEFINE g == [h EXCEPT !.p.releasing = TRUE, !.p.refs = @ + 1, !.b.inflight = @ + 1]
<1>1. Becomes(s, g) /\ work' = [op |-> kind, s |-> s, ids |-> ids]
  BY DEF Releasing
<1>2. WorkOK'
  BY <1>1 DEF WorkOK
<1>3. Released(s)' = TRUE /\ Submitted(s)' = FALSE
  BY <1>1 DEF Released, Submitted
<1>4. /\ Shape(g) /\ g.p.releasing = TRUE /\ g.p.submitting = h.p.submitting
      /\ g.p.refs = h.p.refs + 1 /\ g.p.listed = h.p.listed
      /\ g.b.inflight = h.b.inflight + 1 /\ g.b.pending = h.b.pending
      /\ g.b.live = h.b.live
  BY DEF Counted, Shape, NewBridge, LegacyCore, NoPending
<1> HIDE DEF g
<1>5. Counted(g, TRUE, FALSE)
  <2>1. g.p.refs = Holds(g.p.listed) + Holds(TRUE) + Holds(FALSE)
    BY <1>4 DEF Counted, Holds
  <2>2. g.b.inflight = Holds(TRUE) + Holds(FALSE)
    BY <1>4 DEF Counted, Holds
  <2>3. g.b.pending = Holds(g.p.listed)
    BY <1>4 DEF Counted
  <2> QED BY <1>4, <2>1, <2>2, <2>3 DEF Counted
<1>6. Counted(g, Released(s)', Submitted(s)')
  BY <1>3, <1>5
<1>7. work'.s = s
  BY <1>1
<1> QED BY <1>1, <1>2, <1>6, <1>7, WorkStep

\* What a BEGIN makes pending has the list's reference.
LEMMA BegunCounted ==
  ASSUME NEW h, NEW r, Counted(h, FALSE, FALSE), ~h.p.listed, h.b.live
  PROVE  Counted(Begun(h, r), FALSE, FALSE)
<1> DEFINE b == [h.b EXCEPT
                   !.sub = r.sub, !.declared = r.n, !.last = r.sub,
                   !.committed = IF h.b.sub = 0 THEN FALSE ELSE @,
                   !.chunks = IF Recovers(r) \/ h.b.single THEN 1 ELSE PlanChunks,
                   !.units = FALSE, !.pending = @ + 1]
           p == [NoPending EXCEPT
                   !.sub = r.sub, !.queue = r.queue, !.n = r.n,
                   !.chunks = b.chunks, !.recovery = Recovers(r),
                   !.listed = TRUE, !.refs = 1]
           g == [h EXCEPT !.b = b, !.p = p]
<1>1. Begun(h, r) = IF Recovers(r)
                    THEN [BeganRecovery(g) EXCEPT !.p.started = RecoveryOK(g.c.ledger)]
                    ELSE g
  BY DEF Begun
<1>2. Shape(h) /\ h.b.pending = 0 /\ h.b.inflight = 0
  BY DEF Counted, Holds
<1>3. /\ DOMAIN b = DOMAIN NewBridge /\ b.pending = h.b.pending + 1
      /\ b.inflight = h.b.inflight /\ b.live = h.b.live
  BY <1>2 DEF Shape, NewBridge
<1>4. /\ DOMAIN p = DOMAIN NoPending /\ p.listed = TRUE /\ p.refs = 1
      /\ p.releasing = FALSE /\ p.submitting = FALSE
  BY DEF NoPending
<1> HIDE DEF b, p
<1>5. Shape(g) /\ g.b = b /\ g.p = p
  BY <1>2, <1>3, <1>4 DEF Shape
<1> HIDE DEF g
<1>6. Counted(g, FALSE, FALSE)
  <2>1. g.p.refs = Holds(g.p.listed) + Holds(FALSE) + Holds(FALSE)
    BY <1>4, <1>5 DEF Holds
  <2>2. g.b.inflight = Holds(FALSE) + Holds(FALSE)
    BY <1>2, <1>3, <1>5 DEF Holds
  <2>3. g.b.pending = Holds(g.p.listed)
    BY <1>2, <1>3, <1>4, <1>5 DEF Holds
  <2>4. g.p.listed \in BOOLEAN /\ g.b.live
    BY <1>3, <1>4, <1>5
  <2>5. g.p.releasing = FALSE /\ g.p.submitting = FALSE
    BY <1>4, <1>5
  <2> QED BY <1>5, <2>1, <2>2, <2>3, <2>4, <2>5 DEF Counted
<1> DEFINE k == BeganRecovery(g)
           l == [k EXCEPT !.p.started = RecoveryOK(g.c.ledger)]
<1>7. SameCount(k, g)
  BY <1>5, BeganSame
<1> HIDE DEF k
<1>8. SameCount(l, g)
  BY <1>7 DEF SameCount, Shape, NewBridge, LegacyCore, NoPending
<1> HIDE DEF l
<1>9. Counted(l, FALSE, FALSE)
  BY <1>6, <1>8, SameIsCounted
<1> QED BY <1>1, <1>6, <1>9 DEF k, l

\* Recording a chunk counts nothing.
LEMMA TakenSame ==
  ASSUME NEW h, NEW r, NEW L, Shape(h)
  PROVE  SameCount(Taken(h, r, L), h)
<1> DEFINE p == [h.p EXCEPT !.ids = @ \o r.ids, !.got = @ + Len(r.ids), !.next = @ + 1,
                            !.complete = Final(h, r)]
           b == [h.b EXCEPT !.units = @ \/ Final(h, r)]
           c == [h.c EXCEPT !.ledger = L]
           g == [h EXCEPT !.c = c, !.p = p, !.b = b]
<1>1. Taken(h, r, L) = g
  BY DEF Taken, Shape, NewBridge, LegacyCore, NoPending
<1>2. /\ DOMAIN p = DOMAIN h.p /\ DOMAIN b = DOMAIN h.b /\ DOMAIN c = DOMAIN h.c
      /\ b.live = h.b.live /\ b.pending = h.b.pending /\ b.inflight = h.b.inflight
      /\ p.refs = h.p.refs /\ p.listed = h.p.listed /\ p.releasing = h.p.releasing
      /\ p.submitting = h.p.submitting
  BY DEF Shape, NewBridge, LegacyCore, NoPending
<1> HIDE DEF p, b, c
<1>3. DOMAIN g = DOMAIN h /\ g.b = b /\ g.c = c /\ g.p = p
  BY DEF Shape
<1> HIDE DEF g
<1> QED BY <1>1, <1>2, <1>3 DEF SameCount, Shape

\* A route that is cancelled gives the submission up, and every stream it
\* recovers stays balanced.
LEMMA CancelledStep ==
  ASSUME CountInv, work = NoWork, UNCHANGED work, NEW s \in Streams, NEW h, NEW r,
         Counted(h, FALSE, FALSE), host' = Cancelled(s, h, r)
  PROVE  CountInv'
<1> DEFINE mine == h.b.live /\ h.b.open /\ h.b.period = r.sub
           pins == mine /\ h.b.sub = 0 /\ Begins(r) /\ ~Recovers(r) /\ r.sub > h.b.last
           e    == [h EXCEPT !.b.sub = r.sub, !.b.declared = r.n,
                             !.b.committed = FALSE, !.b.last = r.sub]
           g    == IF pins THEN e ELSE h
           d    == IF g.p.listed /\ g.p.sub = r.sub THEN Dropped(g, TRUE) ELSE g
<1>1. host' = IF mine /\ g.b.sub = r.sub
              THEN [host EXCEPT ![s] = BeginOrDefer(d)]
              ELSE [t \in Streams |-> BeginOrDefer(IF t = s THEN d ELSE host[t])]
  BY DEF Cancelled
<1>2. SameCount(e, h)
  <2> DEFINE b == [h.b EXCEPT !.sub = r.sub, !.declared = r.n,
                              !.committed = FALSE, !.last = r.sub]
  <2>1. Shape(h)
    BY DEF Counted
  <2>2. e = [h EXCEPT !.b = b]
    BY <2>1 DEF Shape, NewBridge
  <2>3. /\ DOMAIN b = DOMAIN h.b /\ b.live = h.b.live
        /\ b.pending = h.b.pending /\ b.inflight = h.b.inflight
    BY <2>1 DEF Shape, NewBridge
  <2> HIDE DEF b, e
  <2> QED BY <2>1, <2>2, <2>3 DEF SameCount, Shape
<1> HIDE DEF mine, pins, e
<1>3. Counted(g, FALSE, FALSE)
  BY <1>2, SameIsCounted
<1> HIDE DEF g
<1>4. Counted(d, FALSE, FALSE)
  BY <1>3, DroppedCounted
<1> HIDE DEF d
<1>5. \A k : Counted(k, FALSE, FALSE) => Counted(BeginOrDefer(k), FALSE, FALSE)
  BY BeginOrDeferSame, SameIsCounted DEF Counted
<1>6. \A t \in Streams : Counted(host[t], FALSE, FALSE)
  BY IdleCounted
<1>7. DOMAIN host' = Streams /\ \A t \in Streams : Counted(host'[t], FALSE, FALSE)
  <2>1. CASE mine /\ g.b.sub = r.sub
    BY <1>1, <1>4, <1>5, <1>6, <2>1 DEF CountInv
  <2>2. CASE ~(mine /\ g.b.sub = r.sub)
    BY <1>1, <1>4, <1>5, <1>6, <2>2
  <2> QED BY <2>1, <2>2
<1>8. \A t \in Streams : Released(t) = FALSE /\ Submitted(t) = FALSE
  BY IdleCounted
<1> QED BY <1>7, <1>8, StreamsStep

\* A route packet: a BEGIN finds no submission listed, so nothing refers to the
\* one it replaces.
LEMMA RouteStep ==
  ASSUME CountInv, NEW s \in Streams, NEW r, NEW accepted \in BOOLEAN, Route(s, r, accepted)
  PROVE  CountInv'
<1> DEFINE bound == IF Admitted(s, r) THEN [host[s] EXCEPT !.b.queue = r.queue] ELSE host[s]
           h == IF Begins(r) THEN Begun(bound, r) ELSE bound
           first == IF Begins(r) THEN FirstOfSubmission(s, r) ELSE NextOfSubmission(bound, r)
<1>1. /\ work = NoWork /\ Live(s)
      /\ IF Admitted(s, r) /\ first
         THEN IF ~Fits(h, r)
              THEN host' = Cancelled(s, Dropped(h, TRUE), r) /\ UNCHANGED work
              ELSE IF Recovers(r)
              THEN RouteReplay(s, h, r)
              ELSE RouteChunk(s, h, r, accepted)
         ELSE host' = Cancelled(s, bound, r) /\ UNCHANGED work
  BY DEF Route
<1>2. Shape(host[s]) /\ Counted(host[s], FALSE, FALSE)
  BY <1>1, IdleCounted
<1>3. SameCount(bound, host[s])
  BY <1>2 DEF SameCount, Shape, NewBridge, LegacyCore, NoPending
<1> HIDE DEF bound
<1>4. Counted(bound, FALSE, FALSE) /\ bound.b.live
  BY <1>1, <1>2, <1>3, SameIsCounted DEF SameCount, Live
<1>5. CASE ~(Admitted(s, r) /\ first)
  BY <1>1, <1>4, <1>5, CancelledStep
<1>6. CASE Admitted(s, r) /\ first
  <2>1. Counted(h, FALSE, FALSE)
    <3>1. CASE Begins(r)
      <4>1. ~bound.p.listed
        BY <1>3, <1>6, <3>1 DEF FirstOfSubmission, SameCount
      <4> QED BY <1>4, <3>1, <4>1, BegunCounted
    <3>2. CASE ~Begins(r)
      BY <1>4, <3>2
    <3> QED BY <3>1, <3>2
  <2> HIDE DEF h, first
  <2>2. Counted(Dropped(h, TRUE), FALSE, FALSE)
    BY <2>1, DroppedCounted
  <2>3. \A L : Counted(Taken(h, r, L), FALSE, FALSE)
    BY <2>1, TakenSame, SameIsCounted DEF Counted
  <2>4. \A g : Counted(g, FALSE, FALSE) /\ Becomes(s, g) /\ UNCHANGED work => CountInv'
    BY <1>1, IdleCounted, StreamStep
  <2>5. \A g : Counted(g, FALSE, FALSE) /\ host' = Cancelled(s, g, r) /\ UNCHANGED work
                 => CountInv'
    BY <1>1, CancelledStep
  <2>6. \A g, ids : /\ Counted(g, FALSE, FALSE)
                    /\ Releasing(s, g, "release", ids) \/ Releasing(s, g, "replay", ids)
                    => CountInv'
    BY <1>1, ReleasingStep
  <2>7. CASE ~Fits(h, r)
    BY <1>1, <1>6, <2>2, <2>5, <2>7
  <2>8. CASE Fits(h, r) /\ Recovers(r)
    <3>1. RouteReplay(s, h, r)
      BY <1>1, <1>6, <2>8
    <3>2. \/ \E L, ids : Releasing(s, Taken(h, r, L), "replay", ids)
          \/ \E L : Becomes(s, Taken(h, r, L)) /\ UNCHANGED work
          \/ host' = Cancelled(s, Dropped(h, TRUE), r) /\ UNCHANGED work
      BY <3>1, Zenon DEF RouteReplay
    <3> QED BY <2>2, <2>3, <2>4, <2>5, <2>6, <3>2
  <2>9. CASE Fits(h, r) /\ ~Recovers(r)
    <3>1. RouteChunk(s, h, r, accepted)
      BY <1>1, <1>6, <2>9
    <3>2. \/ \E L, ids : Releasing(s, Taken(h, r, L), "release", ids)
          \/ \E L : Becomes(s, Taken(h, r, L)) /\ UNCHANGED work
          \/ \E L : Becomes(s, [Taken(h, r, L) EXCEPT !.p.tail = r.ids]) /\ UNCHANGED work
          \/ host' = Cancelled(s, Dropped(h, TRUE), r) /\ UNCHANGED work
          \/ \E L : /\ host' = Cancelled(s, Dropped([h EXCEPT !.c.ledger = L], TRUE), r)
                    /\ UNCHANGED work
      BY <3>1, Zenon DEF RouteChunk
    <3>3. ASSUME NEW k, Counted(k, FALSE, FALSE)
          PROVE  Counted([k EXCEPT !.p.tail = r.ids], FALSE, FALSE)
      <4>1. SameCount([k EXCEPT !.p.tail = r.ids], k)
        BY <3>3 DEF Counted, SameCount, Shape, NewBridge, LegacyCore, NoPending
      <4> QED BY <3>3, <4>1, SameIsCounted
    <3>4. ASSUME NEW L
          PROVE  Counted(Dropped([h EXCEPT !.c.ledger = L], TRUE), FALSE, FALSE)
      <4>1. SameCount([h EXCEPT !.c.ledger = L], h)
        BY <2>1 DEF Counted, SameCount, Shape, NewBridge, LegacyCore, NoPending
      <4> QED BY <2>1, <4>1, SameIsCounted, DroppedCounted
    <3> QED BY <2>2, <2>3, <2>4, <2>5, <2>6, <3>2, <3>3, <3>4
  <2> QED BY <2>7, <2>8, <2>9
<1> QED BY <1>5, <1>6

\* A packet about another submission, and a fallback flush.
LEMMA RouteStaleStep ==
  ASSUME CountInv, NEW s \in Streams, RouteStale(s) \/ FallbackFlush(s)
  PROVE  CountInv'
<1>1. work = NoWork /\ UNCHANGED work
  BY DEF RouteStale, FallbackFlush, Control
<1>2. Counted(host[s], FALSE, FALSE)
  BY <1>1, IdleCounted
<1>3. CASE RouteStale(s)
  BY <1>1, <1>2, <1>3, CancelledStep DEF RouteStale
<1>4. CASE FallbackFlush(s)
  <2> DEFINE d == Dropped(host[s], FALSE)
  <2>1. Counted(d, FALSE, FALSE) /\ ~d.p.listed
    BY <1>2, DroppedCounted
  <2>2. Becomes(s, [d EXCEPT !.b.live = FALSE])
    BY <1>4 DEF FallbackFlush
  <2> HIDE DEF d
  <2>3. Counted([d EXCEPT !.b.live = FALSE], FALSE, FALSE)
    BY <2>1, RemovedCounted
  <2> QED BY <1>1, <2>2, <2>3, IdleCounted, StreamStep
<1> QED BY <1>3, <1>4

-----------------------------------------------------------------------------
(* The submit gate, and completions. *)

\* A stream whose host work is over and has yet to drop its reference.
Owed(h) ==
  /\ Shape(h)
  /\ h.p.listed \in BOOLEAN
  /\ h.p.releasing = FALSE /\ h.p.submitting = FALSE
  /\ h.p.refs = Holds(h.p.listed) + 1
  /\ h.b.pending = Holds(h.p.listed)
  /\ h.b.inflight = 0
  /\ h.p.listed => h.b.live

\* What is owed does not depend on anything that is not counted.
LEMMA SameIsOwed ==
  ASSUME NEW g, NEW h, Owed(h), SameCount(g, h)
  PROVE  Owed(g)
BY DEF Owed, SameCount

\* Dropping the reference of the work settles the count.
LEMMA UnrefOwed ==
  ASSUME NEW h, Owed(h)
  PROVE  Counted(Unref(h), FALSE, FALSE)
<1>1. Holds(FALSE) + Holds(FALSE) = 0 /\ Holds(TRUE) = 1 /\ Holds(FALSE) = 0
  BY DEF Holds
<1>2. Shape(Unref(h)) /\ Unref(h).b = h.b
  BY UnrefCounts DEF Owed
<1>3. CASE h.p.listed
  <2>1. h.p.refs # 1 /\ h.p.refs = 2 /\ h.p.listed = TRUE
    <3>1. h.p.listed = TRUE
      BY <1>3 DEF Owed
    <3>2. Holds(h.p.listed) = 1
      BY <1>3 DEF Holds
    <3>3. h.p.refs = 2
      BY <3>2 DEF Owed
    <3> QED BY <3>1, <3>3
  <2>2. /\ Unref(h).p.refs = 1 /\ Unref(h).p.listed = TRUE
        /\ Unref(h).p.releasing = FALSE /\ Unref(h).p.submitting = FALSE
    BY <2>1, UnrefCounts DEF Owed
  <2>3. Unref(h).b.pending = 1 /\ Unref(h).b.inflight = 0 /\ Unref(h).b.live
    BY <1>1, <1>2, <1>3, <2>1 DEF Owed
  <2>4. Holds(Unref(h).p.listed) = 1
    BY <2>2 DEF Holds
  <2>5. Unref(h).p.refs = Holds(Unref(h).p.listed) + Holds(FALSE) + Holds(FALSE)
    <3>1. Unref(h).p.refs = 1 /\ Unref(h).p.listed
      BY <2>2
    <3> QED BY <3>1 DEF Holds
  <2>6. Unref(h).b.pending = Holds(Unref(h).p.listed)
    BY <2>4, <2>3
  <2>7. Unref(h).p.listed \in BOOLEAN
    BY <2>2
  <2> QED BY <1>1, <1>2, <2>2, <2>3, <2>5, <2>6, <2>7 DEF Counted
<1>4. CASE ~h.p.listed
  <2>1. h.p.refs = 1 /\ h.b.pending = 0 /\ h.b.inflight = 0
    <3>1. h.p.listed = FALSE
      BY <1>4 DEF Owed
    <3>2. Holds(h.p.listed) = 0
      BY <1>1, <3>1
    <3> QED BY <3>2 DEF Owed
  <2>2. Unref(h).p = NoPending
    BY <2>1, UnrefCounts DEF Owed
  <2>3. /\ Unref(h).p.listed = FALSE /\ Unref(h).p.refs = 0
        /\ Unref(h).p.releasing = FALSE /\ Unref(h).p.submitting = FALSE
    BY <2>2 DEF NoPending
  <2> QED BY <1>1, <1>2, <2>1, <2>3, UnlistedCounted
<1> QED BY <1>3, <1>4

\* A submission taken off the list while the work's reference is owed.
LEMMA UnlinkedOwed ==
  ASSUME NEW h, Owed(h), h.p.listed
  PROVE  Owed(Unref(Unlinked(h)))
<1> DEFINE u == Unlinked(h)
<1>1. Holds(TRUE) = 1 /\ Holds(FALSE) = 0
  BY DEF Holds
<1>2. /\ Shape(u) /\ u.p.listed = FALSE
      /\ u.b.pending = h.b.pending - 1 /\ u.b.inflight = h.b.inflight
      /\ u.p.refs = h.p.refs /\ u.p.releasing = h.p.releasing
      /\ u.p.submitting = h.p.submitting
  BY UnlinkedCounts DEF Owed
<1> HIDE DEF u
<1>3. h.p.listed = TRUE
  BY DEF Owed
<1>4. h.p.refs = 2 /\ h.b.pending = 1 /\ h.b.inflight = 0
  <2>1. Holds(h.p.listed) = 1
    BY DEF Holds
  <2>2. /\ h.p.refs = Holds(h.p.listed) + 1 /\ h.b.pending = Holds(h.p.listed)
        /\ h.b.inflight = 0
    BY Zenon DEF Owed
  <2> QED BY <2>1, <2>2
<1>5. u.p.refs = 2 /\ u.b.pending = 0 /\ u.b.inflight = 0
  BY <1>2, <1>4
<1>6. u.p.releasing = FALSE /\ u.p.submitting = FALSE
  BY <1>2 DEF Owed
<1>7. /\ Shape(Unref(u)) /\ Unref(u).b = u.b /\ Unref(u).p.refs = 1
      /\ Unref(u).p.listed = FALSE
      /\ Unref(u).p.releasing = FALSE /\ Unref(u).p.submitting = FALSE
  BY <1>2, <1>5, <1>6, UnrefCounts
<1>8. Owed(Unref(u))
  <2>1. Holds(Unref(u).p.listed) = 0 /\ Unref(u).p.listed \in BOOLEAN
    BY <1>1, <1>7
  <2>2. ~Unref(u).p.listed
    BY <1>7
  <2>3. /\ Unref(u).p.refs = Holds(Unref(u).p.listed) + 1
        /\ Unref(u).b.pending = Holds(Unref(u).p.listed) /\ Unref(u).b.inflight = 0
    BY <1>5, <1>7, <2>1
  <2> QED BY <1>7, <2>1, <2>2, <2>3 DEF Owed
<1> QED BY <1>8 DEF u

\* Giving the submission up leaves the work's reference owed.
LEMMA DroppedOwed ==
  ASSUME NEW h, Owed(h)
  PROVE  Owed(Dropped(h, FALSE))
<1>1. CASE ~h.p.listed
  BY <1>1 DEF Dropped
<1>2. CASE h.p.listed
  <2> DEFINE f == [h EXCEPT !.p.failed = TRUE]
  <2>1. SameCount(f, h)
    BY DEF Owed, SameCount, Shape, NewBridge, LegacyCore, NoPending
  <2>2. Dropped(h, FALSE) = Unref(Unlinked(f))
    BY <1>2 DEF Dropped
  <2> HIDE DEF f
  <2>3. Owed(f) /\ f.p.listed
    BY <1>2, <2>1, SameIsOwed DEF SameCount
  <2> QED BY <2>2, <2>3, UnlinkedOwed
<1> QED BY <1>1, <1>2

\* The recovery of a given-up submission leaves it owed as well.
LEMMA RecoveredOwed ==
  ASSUME NEW h, Owed(h)
  PROVE  Owed(PendingRecovery(h))
BY PendingRecoverySame, SameIsOwed DEF Owed

\* Realizing updates counts nothing.
LEMMA RealizedSame ==
  ASSUME NEW h, Shape(h)
  PROVE  SameCount(Realized(h), h)
<1> DEFINE L == SetStates(h.c.ledger, work.ids, AllOf(work.ids),
                  IF work.op = "replay" THEN "REPLAY_EMITTED" ELSE "RELEASED")
           g == [h EXCEPT !.c.ledger = L]
<1>1. Realized(h) = g \/ Realized(h) = h
  BY DEF Realized, Shape, LegacyCore
<1> HIDE DEF L
<1>2. SameCount(g, h) /\ SameCount(h, h)
  BY DEF SameCount, Shape, NewBridge, LegacyCore, NoPending
<1> HIDE DEF g
<1> QED BY <1>1, <1>2

\* The gate gives a submission up, or starts a recovery.
LEMMA GateSteps ==
  ASSUME CountInv,
         \/ \E q \in Queues, matches \in BOOLEAN : SubmitUnrouted(q, matches)
         \/ \E s \in Streams, matches \in BOOLEAN : SubmitRefused(s, matches)
  PROVE  CountInv'
<1>1. ASSUME NEW s \in Streams, work = NoWork, UNCHANGED work,
             \/ Becomes(s, BeganRecovery(host[s]))
             \/ \E recover \in BOOLEAN : Becomes(s, Dropped(host[s], recover))
      PROVE  CountInv'
  <2>1. Shape(host[s]) /\ Counted(host[s], FALSE, FALSE)
    BY <1>1, IdleCounted
  <2>2. Counted(BeganRecovery(host[s]), FALSE, FALSE)
    BY <2>1, BeganSame, SameIsCounted
  <2>3. \A recover \in BOOLEAN : Counted(Dropped(host[s], recover), FALSE, FALSE)
    BY <2>1, DroppedCounted
  <2>4. \A g : Becomes(s, g) /\ Counted(g, FALSE, FALSE) => CountInv'
    BY <1>1, IdleCounted, StreamStep
  <2> QED BY <1>1, <2>2, <2>3, <2>4
<1>2. ASSUME NEW q \in Queues, NEW matches \in BOOLEAN, SubmitUnrouted(q, matches)
      PROVE  CountInv'
  BY <1>1, <1>2 DEF SubmitUnrouted
<1>3. ASSUME NEW s \in Streams, NEW matches \in BOOLEAN, SubmitRefused(s, matches)
      PROVE  CountInv'
  BY <1>1, <1>3 DEF SubmitRefused
<1> QED BY <1>2, <1>3

\* A submit under way is one more reference and one more batch in flight.
LEMMA SubmitReadyStep ==
  ASSUME CountInv, NEW s \in Streams, NEW real \in BOOLEAN, SubmitReady(s, real)
  PROVE  CountInv'
<1> DEFINE h == host[s]
           L == SetStates(h.c.ledger, h.p.tail, AllOf(h.p.tail), "RELEASE_IN_FLIGHT")
           c == [h.c EXCEPT !.ledger = L]
           p == [h.p EXCEPT !.submitting = TRUE, !.refs = @ + 1]
           b == [h.b EXCEPT !.inflight = @ + 1]
           g == [h EXCEPT !.c = c, !.p = p, !.b = b]
<1>1. /\ work = NoWork
      /\ work' = [op |-> IF real THEN "realize" ELSE "skip", s |-> s, ids |-> h.p.tail]
  BY DEF SubmitReady
<1>2. Shape(h) /\ Counted(h, FALSE, FALSE)
  BY <1>1, IdleCounted
<1>3. Becomes(s, g)
  <2>1. Becomes(s, [h EXCEPT
          !.c.ledger = SetStates(@, h.p.tail, AllOf(h.p.tail), "RELEASE_IN_FLIGHT"),
          !.p.submitting = TRUE, !.p.refs = @ + 1, !.b.inflight = @ + 1])
    BY DEF SubmitReady
  <2>2. g = [h EXCEPT
          !.c.ledger = SetStates(@, h.p.tail, AllOf(h.p.tail), "RELEASE_IN_FLIGHT"),
          !.p.submitting = TRUE, !.p.refs = @ + 1, !.b.inflight = @ + 1]
    BY <1>2 DEF Shape, NewBridge, LegacyCore, NoPending
  <2> QED BY <2>1, <2>2, Zenon
<1> HIDE DEF h, L
<1>4. /\ DOMAIN c = DOMAIN h.c /\ DOMAIN p = DOMAIN h.p /\ DOMAIN b = DOMAIN h.b
      /\ p.submitting = TRUE /\ p.releasing = h.p.releasing /\ p.listed = h.p.listed
      /\ p.refs = h.p.refs + 1
      /\ b.inflight = h.b.inflight + 1 /\ b.pending = h.b.pending /\ b.live = h.b.live
  BY <1>2 DEF Shape, NewBridge, LegacyCore, NoPending
<1> HIDE DEF c, p, b
<1>5. Shape(g) /\ g.p = p /\ g.b = b
  BY <1>2, <1>4 DEF Shape
<1> HIDE DEF g
<1>6. Counted(g, FALSE, TRUE)
  <2>1. g.p.refs = Holds(g.p.listed) + Holds(FALSE) + Holds(TRUE)
    BY <1>2, <1>4, <1>5 DEF Counted, Holds
  <2>2. g.b.inflight = Holds(FALSE) + Holds(TRUE)
    BY <1>2, <1>4, <1>5 DEF Counted, Holds
  <2>3. g.b.pending = Holds(g.p.listed)
    BY <1>2, <1>4, <1>5 DEF Counted
  <2>4. g.p.releasing = FALSE /\ g.p.submitting = TRUE
    BY <1>2, <1>4, <1>5 DEF Counted
  <2>5. g.p.listed \in BOOLEAN /\ (g.p.listed => g.b.live)
    BY <1>2, <1>4, <1>5 DEF Counted
  <2> QED BY <1>5, <2>1, <2>2, <2>3, <2>4, <2>5 DEF Counted
<1>7. WorkOK' /\ work'.s = s
  BY <1>1 DEF WorkOK
<1>8. Released(s)' = FALSE /\ Submitted(s)' = TRUE
  BY <1>1 DEF Released, Submitted
<1>9. Counted(g, Released(s)', Submitted(s)')
  BY <1>6, <1>8
<1> QED BY <1>1, <1>3, <1>7, <1>9, WorkStep

\* The stream the work is about.
LEMMA WorkCounted ==
  ASSUME CountInv, work # NoWork
  PROVE  /\ work.s \in Streams /\ Shape(host[work.s])
         /\ \/ /\ work.op \in {"release", "replay"}
               /\ Counted(host[work.s], TRUE, FALSE)
            \/ /\ work.op \in {"realize", "submit", "skip"}
               /\ Counted(host[work.s], FALSE, TRUE)
<1>1. work.s \in Streams /\ work.op \in {"release", "replay", "realize", "submit", "skip"}
  BY DEF CountInv, WorkOK
<1>2. Counted(host[work.s], Released(work.s), Submitted(work.s))
  BY <1>1 DEF CountInv
<1>3. CASE work.op \in {"release", "replay"}
  <2>1. Released(work.s) = TRUE /\ Submitted(work.s) = FALSE
    BY <1>3 DEF Released, Submitted
  <2>2. Counted(host[work.s], TRUE, FALSE)
    BY <1>2, <2>1
  <2> QED BY <1>1, <1>3, <2>2 DEF Counted
<1>4. CASE work.op \in {"realize", "submit", "skip"}
  <2>1. Released(work.s) = FALSE /\ Submitted(work.s) = TRUE
    BY <1>4 DEF Released, Submitted
  <2>2. Counted(host[work.s], FALSE, TRUE)
    BY <1>2, <2>1
  <2> QED BY <1>1, <1>4, <2>2 DEF Counted
<1> QED BY <1>1, <1>3, <1>4

\* Work that is over leaves a settled stream.
LEMMA OverStep ==
  ASSUME CountInv, work # NoWork, work' = NoWork, NEW h, Owed(h), Becomes(work.s, Unref(h))
  PROVE  CountInv'
<1>1. PICK s \in Streams : work.s = s
  BY WorkCounted
<1>2. Counted(Unref(h), FALSE, FALSE)
  BY UnrefOwed
<1>3. Released(s)' = FALSE /\ Submitted(s)' = FALSE /\ WorkOK'
  BY DEF Released, Submitted, NoWork, WorkOK
<1>4. Counted(Unref(h), Released(s)', Submitted(s)')
  BY <1>2, <1>3
<1>5. Becomes(s, Unref(h))
  BY <1>1
<1> QED BY <1>1, <1>3, <1>4, <1>5, WorkStep

\* When host work ends its batch is no longer in flight, its reference owed.
LEMMA EndedOwed ==
  ASSUME NEW h, Shape(h), h.p.listed \in BOOLEAN,
         h.p.releasing = FALSE, h.p.submitting = FALSE,
         h.p.refs = Holds(h.p.listed) + 1, h.b.pending = Holds(h.p.listed),
         h.b.inflight = 1, h.p.listed => h.b.live
  PROVE  Owed(WorkEnded(h))
<1> DEFINE g == WorkEnded(h)
<1>1. /\ Shape(g) /\ g.b.live = h.b.live /\ g.b.pending = h.b.pending
      /\ g.b.inflight = h.b.inflight - 1
      /\ g.p.refs = h.p.refs /\ g.p.listed = h.p.listed
      /\ g.p.releasing = h.p.releasing /\ g.p.submitting = h.p.submitting
  BY WorkEndedCounts
<1> HIDE DEF g
<1>2. g.b.inflight = 0
  BY <1>1
<1>3. Owed(g)
  BY <1>1, <1>2 DEF Owed
<1> QED BY <1>3 DEF g

\* A release completes: its reference and its batch go, and a submission that
\* failed goes with them.
LEMMA CompleteReleaseStep ==
  ASSUME CountInv, CompleteRelease
  PROVE  CountInv'
<1> DEFINE h == host[work.s]
           k == Realized(h)
           f == [k EXCEPT !.p.releasing = FALSE, !.p.failed = @ \/ ~RealizedOK(h)]
           g == WorkEnded(f)
           e == IF g.p.failed THEN PendingRecovery(Dropped(g, FALSE)) ELSE g
<1>1. work # NoWork /\ work.op \in {"release", "replay"} /\ work' = NoWork
  BY DEF CompleteRelease, NoWork
<1>2. Becomes(work.s, Unref(e))
  BY DEF CompleteRelease
<1>3. Shape(h) /\ Counted(h, TRUE, FALSE)
  BY <1>1, WorkCounted
<1> HIDE DEF h
<1>4. SameCount(k, h)
  BY <1>3, RealizedSame
<1> HIDE DEF k
<1>5. /\ Shape(f) /\ f.b = k.b /\ f.p.releasing = FALSE /\ f.p.refs = k.p.refs
      /\ f.p.listed = k.p.listed /\ f.p.submitting = k.p.submitting
  BY <1>4 DEF SameCount, Shape, NewBridge, LegacyCore, NoPending
<1> HIDE DEF f
<1>6. /\ f.p.refs = Holds(f.p.listed) + 1 /\ f.b.inflight = 1
      /\ f.b.pending = Holds(f.p.listed)
  BY <1>3, <1>4, <1>5 DEF SameCount, Counted, Holds
<1>7. f.p.listed \in BOOLEAN /\ f.p.submitting = FALSE /\ (f.p.listed => f.b.live)
  BY <1>3, <1>4, <1>5 DEF SameCount, Counted
<1>8. Owed(g)
  BY <1>5, <1>6, <1>7, EndedOwed
<1> HIDE DEF g
<1>9. Owed(e)
  BY <1>8, DroppedOwed, RecoveredOwed
<1> HIDE DEF e
<1> QED BY <1>1, <1>2, <1>9, OverStep

\* Realizing the last chunk leaves the submit under way.
LEMMA UpdatesAppliedStep ==
  ASSUME CountInv, UpdatesApplied
  PROVE  CountInv'
<1>1. work # NoWork /\ work.op = "realize"
  BY DEF UpdatesApplied, NoWork
<1> PICK s \in Streams : work.s = s
  BY <1>1, WorkCounted
<1> DEFINE h == host[s]
           k == Realized(h)
           f == [h EXCEPT !.p.failed = TRUE]
<1>2. /\ \/ Becomes(s, [k EXCEPT !.p.applied = TRUE])
         \/ Becomes(s, PendingRecovery(f))
      /\ work' = [work EXCEPT !.op = "submit"] \/ work' = [work EXCEPT !.op = "skip"]
  BY DEF UpdatesApplied
<1>3. Shape(h) /\ Counted(h, FALSE, TRUE)
  BY <1>1, WorkCounted
<1>4. SameCount(k, h) /\ SameCount(f, h)
  <2>1. SameCount(f, h)
    BY <1>3 DEF SameCount, Shape, NewBridge, LegacyCore, NoPending
  <2>2. SameCount(k, h)
    BY <1>3, RealizedSame
  <2> QED BY <2>1, <2>2
<1>5. /\ WorkOK' /\ work'.s = s /\ Released(s)' = FALSE /\ Submitted(s)' = TRUE
  <2>1. DOMAIN work = {"op", "s", "ids"} /\ work.s \in Streams
    BY <1>1 DEF CountInv, WorkOK
  <2>2. DOMAIN work' = {"op", "s", "ids"} /\ work'.s = s /\ work'.op \in {"submit", "skip"}
    BY <1>2, <2>1
  <2> QED BY <2>1, <2>2 DEF WorkOK, Released, Submitted
<1> HIDE DEF h, k, f
<1>6. SameCount([k EXCEPT !.p.applied = TRUE], k) /\ SameCount(PendingRecovery(f), f)
  <2>1. Shape(k) /\ Shape(f)
    BY <1>4 DEF SameCount
  <2>2. SameCount([k EXCEPT !.p.applied = TRUE], k)
    BY <2>1 DEF SameCount, Shape, NewBridge, LegacyCore, NoPending
  <2> QED BY <2>1, <2>2, PendingRecoverySame
<1>7. /\ Counted([k EXCEPT !.p.applied = TRUE], FALSE, TRUE)
      /\ Counted(PendingRecovery(f), FALSE, TRUE)
  BY <1>3, <1>4, <1>6, SameIsCounted
<1>8. \A g : Counted(g, FALSE, TRUE) => Counted(g, Released(s)', Submitted(s)')
  BY <1>5
<1> QED BY <1>2, <1>5, <1>7, <1>8, WorkStep

\* The submit completes: its reference goes, and the list's if it is still there.
LEMMA CompleteSubmitStep ==
  ASSUME CountInv, NEW success \in BOOLEAN, CompleteSubmit(success)
  PROVE  CountInv'
<1> DEFINE h == host[work.s]
           whole == success /\ CommitOK(h)
           L == SetStates(h.c.ledger, work.ids, AllOf(work.ids), "READY")
           M == SetStates(h.c.ledger, h.p.ids, AllOf(h.p.ids), "COMMITTED")
           back == IF work.op = "skip" /\ RealizedOK(h) THEN [h EXCEPT !.c.ledger = L] ELSE h
           done == IF whole THEN [h EXCEPT !.c.ledger = M] ELSE [back EXCEPT !.p.failed = TRUE]
           f == [done EXCEPT !.p.submitting = FALSE]
           ended == WorkEnded(f)
           safe == IF ended.p.failed THEN PendingRecovery(ended) ELSE ended
           answered == Answered(safe, success, whole)
           last == IF answered.p.listed THEN Unref(Unlinked(answered)) ELSE answered
<1>1. work # NoWork /\ work.op \in {"submit", "skip"} /\ work' = NoWork
  <2>1. work.op = "submit" \/ work.op = "skip"
    BY Zenon DEF CompleteSubmit
  <2>2. work' = NoWork
    BY Zenon DEF CompleteSubmit
  <2> QED BY <2>1, <2>2 DEF NoWork
<1>2. Becomes(work.s, Unref(last))
  BY DEF CompleteSubmit
<1>3. Shape(h) /\ Counted(h, FALSE, TRUE)
  BY <1>1, WorkCounted
<1> HIDE DEF h, L, M, whole
<1>4. SameCount(done, h)
  <2>1. SameCount([h EXCEPT !.c.ledger = M], h) /\ SameCount(back, h)
    BY <1>3 DEF SameCount, Shape, NewBridge, LegacyCore, NoPending
  <2> HIDE DEF back
  <2>2. SameCount([back EXCEPT !.p.failed = TRUE], h)
    BY <2>1 DEF SameCount, Shape, NewBridge, LegacyCore, NoPending
  <2> QED BY <2>1, <2>2
<1> HIDE DEF done
<1>5. /\ Shape(f) /\ f.b = done.b /\ f.p.submitting = FALSE /\ f.p.refs = done.p.refs
      /\ f.p.listed = done.p.listed /\ f.p.releasing = done.p.releasing
  BY <1>4 DEF SameCount, Shape, NewBridge, LegacyCore, NoPending
<1> HIDE DEF f
<1>6. /\ f.p.refs = Holds(f.p.listed) + 1 /\ f.b.inflight = 1
      /\ f.b.pending = Holds(f.p.listed)
  BY <1>3, <1>4, <1>5 DEF SameCount, Counted, Holds
<1>7. f.p.listed \in BOOLEAN /\ f.p.releasing = FALSE /\ (f.p.listed => f.b.live)
  BY <1>3, <1>4, <1>5 DEF SameCount, Counted
<1>8. Owed(ended)
  BY <1>5, <1>6, <1>7, EndedOwed
<1> HIDE DEF ended
<1>9. Owed(safe)
  BY <1>8, RecoveredOwed
<1> HIDE DEF safe
<1>10. Owed(answered)
  <2>1. SameCount(answered, safe)
    <3>1. Shape(safe)
      BY <1>9 DEF Owed
    <3> QED BY <3>1 DEF Answered, SameCount, Shape, NewBridge, LegacyCore, NoPending
  <2> QED BY <1>9, <2>1, SameIsOwed
<1> HIDE DEF answered
<1>11. Owed(last)
  BY <1>10, UnlinkedOwed
<1> HIDE DEF last
<1> QED BY <1>1, <1>2, <1>11, OverStep

-----------------------------------------------------------------------------
(* What takes no transaction lock, and the whole. *)

\* A failed delivery and a shutdown give submissions up while host work holds
\* them, an exit, a reset and a destroyed device while none does.
LEMMA ElsewhereStep ==
  ASSUME CountInv, Elsewhere
  PROVE  CountInv'
<1>1. \A t \in Streams : /\ Counted(host[t], Released(t), Submitted(t))
                         /\ Released(t) \in BOOLEAN /\ Submitted(t) \in BOOLEAN
  BY DEF CountInv, Released, Submitted
<1>2. \A t \in Streams : /\ Counted(Failed(host[t]), Released(t), Submitted(t))
                         /\ Counted(RemovedOf(host[t]), Released(t), Submitted(t))
  BY <1>1, FailedCounted, RemovedOfCounted
<1>3. ASSUME NEW s \in Streams, DeliveryFailed(s) PROVE CountInv'
  BY <1>2, <1>3, StreamStep DEF DeliveryFailed
<1>4. CASE RemoveAll \/ Shutdown
  <2>1. host' = [s \in Streams |-> IF Live(s) THEN RemovedOf(host[s]) ELSE host[s]]
        /\ UNCHANGED work
    BY <1>4 DEF RemoveAll, Shutdown, RemovesAll
  <2> QED BY <1>1, <1>2, <2>1, StreamsStep
<1>5. CASE CleanupDevice
  <2>1. host' = [s \in Streams |-> IF Live(s) /\ host[s].b.queue # NoQueue
                                   THEN RemovedOf(host[s]) ELSE host[s]]
        /\ UNCHANGED work
    BY <1>5 DEF CleanupDevice
  <2> QED BY <1>1, <1>2, <2>1, StreamsStep
<1>6. CASE AbortProcess
  BY <1>6, AbortStep
<1> QED BY <1>3, <1>4, <1>5, <1>6 DEF Elsewhere

\* No stream is open at first.
LEMMA InitCount == Init => CountInv
<1> SUFFICES ASSUME Init PROVE CountInv
  OBVIOUS
<1>1. /\ host = [s \in Streams |-> Gone] /\ work = NoWork
  BY DEF Init
<1>2. /\ Shape(Gone) /\ Gone.p.listed = FALSE /\ Gone.p.releasing = FALSE
      /\ Gone.p.submitting = FALSE /\ Gone.p.refs = 0
      /\ Gone.b.pending = 0 /\ Gone.b.inflight = 0
  BY DEF Gone, Shape, NewBridge, LegacyCore, NoPending
<1>3. Counted(Gone, FALSE, FALSE)
  <2>1. Holds(FALSE) + Holds(FALSE) = 0
    BY DEF Holds
  <2> HIDE DEF Gone
  <2> QED BY <1>2, <2>1, UnlistedCounted
<1>4. \A s \in Streams : Released(s) = FALSE /\ Submitted(s) = FALSE
  BY <1>1 DEF Released, Submitted, NoWork
<1>5. \A s \in Streams : Counted(host[s], Released(s), Submitted(s))
  BY <1>1, <1>3, <1>4
<1> QED BY <1>1, <1>5 DEF CountInv, WorkOK

\* Every step keeps the counts.
LEMMA NextCount == CountInv /\ [Next]_vars => CountInv'
<1> SUFFICES ASSUME CountInv, [Next]_vars PROVE CountInv'
  OBVIOUS
<1>1. ASSUME NEW s \in Streams, ControlPacket(s) PROVE CountInv'
  BY <1>1, OpenStep, StageSteps, ProfileStep, MismatchStep, RecoveryCompleteStep, RefusedStep
     DEF ControlPacket
<1>2. ASSUME NEW s \in Streams, RoutePacket(s) PROVE CountInv'
  BY <1>2, RouteStep, RouteStaleStep DEF RoutePacket
<1>3. CASE Submit
  BY <1>3, GateSteps, SubmitReadyStep DEF Submit
<1>4. CASE HostWork
  BY <1>4, CompleteReleaseStep, UpdatesAppliedStep, CompleteSubmitStep DEF HostWork
<1>5. CASE Elsewhere
  BY <1>5, ElsewhereStep
<1>6. CASE UNCHANGED vars
  BY <1>6 DEF vars, CountInv, WorkOK, Released, Submitted
<1> QED BY <1>1, <1>2, <1>3, <1>4, <1>5, <1>6 DEF Next

\* The counts hold in every reachable state.
THEOREM BridgeInvariance == Spec => []CountInv
BY InitCount, NextCount, PTL DEF Spec

\* A pending submission is freed exactly when the list, a release and a submit
\* have all let go of it, and its session's counters agree, for any number of
\* streams, queues, chunks, periods and sessions.
THEOREM Balanced == Spec => []RefsBalanced
<1>1. CountInv => RefsBalanced
  <2> SUFFICES ASSUME CountInv, NEW s \in Streams
               PROVE  LET h == host[s]
                          holds(x) == IF x THEN 1 ELSE 0
                      IN /\ h.p.refs = holds(h.p.listed) + holds(h.p.releasing)
                                       + holds(h.p.submitting)
                         /\ h.b.pending = holds(h.p.listed)
                         /\ h.b.inflight = holds(h.p.releasing) + holds(h.p.submitting)
                         /\ h.p.listed => Live(s)
                         /\ h.b.inflight # 0 <=> (work # NoWork /\ work.s = s)
    BY DEF RefsBalanced
  <2>1. Counted(host[s], Released(s), Submitted(s))
    BY DEF CountInv
  <2>2. (work # NoWork /\ work.s = s) <=> (Released(s) \/ Submitted(s))
    BY DEF CountInv, WorkOK, NoWork, Released, Submitted
  <2>3. host[s].b.inflight # 0 <=> (Released(s) \/ Submitted(s))
    BY <2>1 DEF Counted, Holds
  <2> QED BY <2>1, <2>2, <2>3 DEF Counted, Holds, Live
<1> QED BY <1>1, BridgeInvariance, PTL
=============================================================================
