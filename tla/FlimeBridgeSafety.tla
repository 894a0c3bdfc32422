-------------------------- MODULE FlimeBridgeSafety --------------------------
(***************************************************************************)
(* The inductive invariant of FlimeBridge that ties the ledger of a stream *)
(* to its pending submission, its open period and the work that holds the  *)
(* transaction lock, and what follows from it, for any number of streams,  *)
(* queues, chunks, periods and sessions.                                   *)
(*                                                                         *)
(* Most of it is about one stream h, the work w of that stream (NoWork if  *)
(* it has none), the number N of periods begun and the set R of the        *)
(* submissions that have run.                                              *)
(***************************************************************************)
EXTENDS FlimeBridgeProofs, SequenceTheorems, FiniteSetTheorems

\* An update is numbered within its submission.
Updates == Nat \X Nat
Entries == [id : Updates, sub : Nat, state : LedgerStates]
Ledgers == Seq(Entries)

\* A batch names an update; work is under way, has a batch in the ledger, or is
\* what a submit does.
Named(ids, u) == \E k \in DOMAIN ids : ids[k] = u
InFlight(e) == e.state \in InFlightStates

Held(w)    == w.op # "none"
Flying(w)  == w.op \in {"release", "replay", "realize", "skip"}
Submits(w) == w.op \in {"realize", "submit", "skip"}
FlightOf(w) == IF w.op = "replay" THEN "REPLAY_IN_FLIGHT" ELSE "RELEASE_IN_FLIGHT"

\* The work of stream s.
WorkOf(s) == IF work # NoWork /\ work.s = s THEN work ELSE NoWork

-----------------------------------------------------------------------------
(* The invariant. *)

\* An update is in the ledger once; what is emitted comes first, then what is
\* in flight; and in flight is exactly what the work is realizing.
LedgerOK(L, w) ==
  /\ \A i, j \in DOMAIN L : L[i].id = L[j].id => i = j
  /\ \A i \in DOMAIN L : L[i].id[1] = L[i].sub /\ L[i].sub # 0
  /\ \A i \in DOMAIN L : Emitted(L[i]) => PrefixEmitted(L, i)
  /\ \A i \in DOMAIN L : InFlight(L[i]) =>
       \A j \in 1 .. i - 1 : Emitted(L[j]) \/ InFlight(L[j])
  /\ \A i \in DOMAIN L : InFlight(L[i]) <=> Flying(w) /\ Named(w.ids, L[i].id)
  /\ Flying(w) => \A k \in DOMAIN w.ids :
       \E i \in DOMAIN L : L[i].id = w.ids[k] /\ L[i].state = FlightOf(w)

\* Only the open occurrence, until it commits, has updates that are not
\* committed.
Settled(L, b) ==
  \A i \in DOMAIN L :
    /\ L[i].sub <= b.last
    /\ L[i].state # "COMMITTED" => b.open /\ L[i].sub = b.sub /\ ~b.committed

\* The occurrence of the session's period: it is executed and committed at
\* once, and only when it has run.
Occurs(b, L, N, R) ==
  /\ b.period \in Nat /\ b.period <= N /\ b.last \in Nat /\ b.last <= N
  /\ b.sub = 0 \/ (b.sub = b.period /\ b.last = b.sub)
  /\ b.sub = 0 => ~b.executed
  /\ b.executed <=> b.committed
  /\ b.committed => b.sub \in R
  /\ b.live /\ ~b.executed => b.period \notin R
  /\ ~b.open /\ L # <<>> => b.committed

\* The core and the bridge have the same period, while it can be routed or
\* is owed; a session outside the protocol owes nothing.
Agrees(b, c) ==
  /\ c.stage \in Learned \cup {"LEGACY", "DETECT", "RECOVER"}
  /\ c.last = c.cur
  /\ b.open /\ (c.stage \in Learned \/ c.ledger # <<>>) => c.cur = b.period
  /\ c.stage \in Learned => (b.open <=> c.open)
  /\ c.stage = "DETECT" => ~b.open /\ ~c.open
  /\ c.stage \in {"LEGACY", "DETECT"} => c.ledger = <<>>

\* A submission that is listed or worked on is the occurrence of the open
\* period and has not run.
Current(b, c, p, R) ==
  /\ b.open /\ p.sub = b.sub /\ p.sub # 0 /\ p.sub \notin R /\ ~b.executed
  /\ p.recovery \/ p.started => c.stage = "RECOVER"

\* How far it has been routed.
Routed(b, p, w) ==
  /\ p.ids \in Seq(Updates) /\ p.got = Len(p.ids) /\ Distinct(p.ids)
  /\ p.tail \in Seq(Updates)
  /\ b.chunks = p.chunks
  /\ p.complete => p.got = p.n /\ b.units
  /\ Submits(w) => p.complete
  /\ ~p.recovery => \A k \in DOMAIN p.ids : p.ids[k] = Upd(p.sub, k)
  /\ \A k \in DOMAIN p.tail : Named(p.ids, p.tail[k])
  /\ p.recovery \/ ~p.complete \/ w.op \in {"release", "replay"} => p.tail = <<>>
  /\ w.op \in {"realize", "skip"} => w.ids = p.tail

\* Its updates are in the ledger: all but the last chunk's realized when no
\* work is under way, and all of them at the end.
Ledgered(L, p, w) ==
  /\ \A k \in DOMAIN p.ids : \E i \in DOMAIN L :
       /\ L[i].id = p.ids[k] /\ L[i].sub = p.sub
       /\ IF Held(w) THEN Emitted(L[i]) \/ InFlight(L[i])
                     ELSE Emitted(L[i]) <=> ~Named(p.tail, p.ids[k])
  /\ ~p.recovery \/ Submits(w) =>
       \A i \in DOMAIN L : L[i].sub = p.sub => Named(p.ids, L[i].id)

\* What is said of a submission holds while it is listed or worked on.
Pends(h, w, R) ==
  h.p.listed \/ Held(w) =>
    /\ Current(h.b, h.c, h.p, R)
    /\ Routed(h.b, h.p, w)
    /\ Ledgered(h.c.ledger, h.p, w)

\* What is said of the session whether or not a submission is under way.
Sound(h, w, N, R) ==
  /\ h.c.ledger \in Ledgers
  /\ LedgerOK(h.c.ledger, w)
  /\ Settled(h.c.ledger, h.b)
  /\ Occurs(h.b, h.c.ledger, N, R)
  /\ Agrees(h.b, h.c)

\* An occurrence that is lost is recovered, or will be when the work ends.
LostOK(h) ==
  h.b.live /\ h.b.open /\ h.b.sub # 0 /\ ~h.b.committed /\ ~h.p.listed =>
    h.b.deferred \/ h.c.stage \notin Learned

\* A recovery is put off only while host work is under way.
Deferral(b, w) == b.live /\ ~Held(w) => ~b.deferred

\* The invariant of a stream.
Good(h, w, N, R) ==
  Sound(h, w, N, R) /\ Pends(h, w, R) /\ LostOK(h) /\ Deferral(h.b, w)

\* Every stream is good, and no two sessions have the same period.
SafeInv ==
  /\ periods \in Nat /\ ran \subseteq 1 .. periods
  /\ \A s \in Streams : Good(host[s], WorkOf(s), periods, ran)
  /\ \A s, t \in Streams :
       s # t /\ host[s].b.period = host[t].b.period => host[s].b.period = 0

-----------------------------------------------------------------------------
(* Ledgers. *)

\* M has the updates of L in their places.
Restates(M, L) ==
  /\ M \in Ledgers /\ DOMAIN M = DOMAIN L /\ Len(M) = Len(L)
  /\ \A i \in DOMAIN L : M[i].id = L[i].id /\ M[i].sub = L[i].sub

\* The states of a ledger are of three kinds.
LEMMA Kinds ==
  ASSUME NEW L \in Ledgers, NEW i \in DOMAIN L
  PROVE  /\ L[i] \in Entries /\ L[i].sub \in Nat
         /\ Emitted(L[i]) => ~InFlight(L[i])
         /\ Emitted(L[i]) \/ InFlight(L[i]) \/ L[i].state \in IdleStates
         /\ L[i].state \in IdleStates => ~Emitted(L[i]) /\ ~InFlight(L[i])
<1>1. L[i] \in Entries
  BY DEF Ledgers
<1> QED BY <1>1 DEF Entries, LedgerStates, EmittedStates, InFlightStates, IdleStates,
                    Emitted, InFlight

\* A function on the places of a ledger is one.
LEMMA Reshaped ==
  ASSUME NEW L \in Ledgers, NEW M, M = [i \in DOMAIN L |-> M[i]],
         \A i \in DOMAIN L : M[i] \in Entries /\ M[i].id = L[i].id /\ M[i].sub = L[i].sub
  PROVE  Restates(M, L)
<1>1. DOMAIN L = 1 .. Len(L) /\ Len(L) \in Nat
  BY DEF Ledgers
<1>2. DOMAIN M = DOMAIN L
  OBVIOUS
<1>3. M \in [1 .. Len(L) -> Entries]
  BY <1>1, Zenon
<1>4. M \in Seq(Entries) /\ Len(M) = Len(L)
  BY <1>1, <1>3
<1> QED BY <1>2, <1>4 DEF Restates, Ledgers

\* An entry in another state.
LEMMA InState ==
  ASSUME NEW e \in Entries, NEW st \in LedgerStates
  PROVE  /\ [e EXCEPT !.state = st] \in Entries
         /\ [e EXCEPT !.state = st].id = e.id /\ [e EXCEPT !.state = st].sub = e.sub
         /\ [e EXCEPT !.state = st].state = st
BY DEF Entries

\* Moving the entries that a batch masks.
LEMMA Masked ==
  ASSUME NEW L \in Ledgers, NEW ids, NEW mask, NEW st \in LedgerStates
  PROVE  /\ Restates(SetStates(L, ids, mask, st), L)
         /\ \A i \in DOMAIN L :
              IF \E k \in DOMAIN ids : mask[k] /\ ids[k] = L[i].id
              THEN SetStates(L, ids, mask, st)[i].state = st
              ELSE SetStates(L, ids, mask, st)[i] = L[i]
<1> DEFINE M == SetStates(L, ids, mask, st)
           Chosen(i) == \E k \in DOMAIN ids : mask[k] /\ ids[k] = L[i].id
<1>1. /\ M = [i \in DOMAIN L |-> M[i]]
      /\ \A i \in DOMAIN L : M[i] = IF Chosen(i) THEN [L[i] EXCEPT !.state = st] ELSE L[i]
  BY DEF SetStates
<1> HIDE DEF M, Chosen
<1>2. ASSUME NEW i \in DOMAIN L
      PROVE  /\ M[i] \in Entries /\ M[i].id = L[i].id /\ M[i].sub = L[i].sub
             /\ IF Chosen(i) THEN M[i].state = st ELSE M[i] = L[i]
  <2> DEFINE e == [L[i] EXCEPT !.state = st]
  <2>1. L[i] \in Entries
    BY Kinds
  <2>2. e \in Entries /\ e.id = L[i].id /\ e.sub = L[i].sub /\ e.state = st
    BY <2>1, InState
  <2>3. M[i] = IF Chosen(i) THEN e ELSE L[i]
    BY <1>1
  <2> HIDE DEF e
  <2> QED BY <2>1, <2>2, <2>3
<1>3. Restates(M, L)
  BY <1>1, <1>2, Reshaped
<1> QED BY <1>2, <1>3 DEF M, Chosen

\* Moving all that a batch names.
LEMMA Marked ==
  ASSUME NEW L \in Ledgers, NEW ids, NEW st \in LedgerStates
  PROVE  /\ Restates(SetStates(L, ids, AllOf(ids), st), L)
         /\ \A i \in DOMAIN L :
              IF Named(ids, L[i].id)
              THEN SetStates(L, ids, AllOf(ids), st)[i].state = st
              ELSE SetStates(L, ids, AllOf(ids), st)[i] = L[i]
<1>1. \A k \in DOMAIN ids : AllOf(ids)[k] = TRUE
  BY DEF AllOf
<1>2. \A u : Named(ids, u) <=> \E k \in DOMAIN ids : AllOf(ids)[k] /\ ids[k] = u
  BY <1>1 DEF Named
<1> QED BY <1>2, Masked

\* Discarding what is not emitted.
LEMMA Discarded ==
  ASSUME NEW L \in Ledgers
  PROVE  /\ Restates(Discard(L), L)
         /\ \A i \in DOMAIN L : IF Emitted(L[i]) THEN Discard(L)[i] = L[i]
                                ELSE Discard(L)[i].state = "DISCARDED"
<1> DEFINE M == Discard(L)
<1>1. /\ M = [i \in DOMAIN L |-> M[i]]
      /\ \A i \in DOMAIN L : M[i] = IF Emitted(L[i]) THEN L[i]
                                    ELSE [L[i] EXCEPT !.state = "DISCARDED"]
  BY DEF Discard
<1>2. "DISCARDED" \in LedgerStates
  BY DEF LedgerStates, IdleStates
<1> HIDE DEF M
<1>3. ASSUME NEW i \in DOMAIN L
      PROVE  /\ M[i] \in Entries /\ M[i].id = L[i].id /\ M[i].sub = L[i].sub
             /\ IF Emitted(L[i]) THEN M[i] = L[i] ELSE M[i].state = "DISCARDED"
  <2> DEFINE e == [L[i] EXCEPT !.state = "DISCARDED"]
  <2>1. L[i] \in Entries
    BY Kinds
  <2>2. e \in Entries /\ e.id = L[i].id /\ e.sub = L[i].sub /\ e.state = "DISCARDED"
    BY <1>2, <2>1, InState
  <2>3. M[i] = IF Emitted(L[i]) THEN L[i] ELSE e
    BY <1>1
  <2> HIDE DEF e
  <2> QED BY <2>1, <2>2, <2>3
<1>4. Restates(M, L)
  BY <1>1, <1>3, Reshaped
<1> QED BY <1>3, <1>4 DEF M

\* The places of a ledger are numbered from 1.
LEMMA Places ==
  ASSUME NEW L \in Ledgers
  PROVE  /\ Len(L) \in Nat /\ DOMAIN L = 1 .. Len(L)
         /\ \A i \in DOMAIN L : i \in Nat /\ \A j \in 1 .. i - 1 : j \in DOMAIN L /\ j < i
BY DEF Ledgers

\* An update is found where it is.
LEMMA Located ==
  ASSUME NEW L, \A i, j \in DOMAIN L : L[i].id = L[j].id => i = j, NEW i \in DOMAIN L
  PROVE  Has(L, L[i].id) /\ At(L, L[i].id) = i
BY DEF Has, At

\* Changed states are in order when what is emitted still comes first and
\* nothing is in flight.
LEMMA StillOK ==
  ASSUME NEW L \in Ledgers, NEW M, NEW w, NEW v, LedgerOK(L, w), Restates(M, L), ~Flying(v),
         \A i \in DOMAIN L : ~InFlight(M[i]),
         \A i \in DOMAIN L : Emitted(M[i]) => \A j \in 1 .. i - 1 : Emitted(M[j])
  PROVE  LedgerOK(M, v)
BY DEF LedgerOK, Restates, PrefixEmitted

\* With no work in the ledger a recovery can begin, and keeps it in order.
LEMMA Recoverable ==
  ASSUME NEW L \in Ledgers, NEW w, LedgerOK(L, w), ~Flying(w)
  PROVE  RecoveryOK(L) /\ LedgerOK(Discard(L), w)
<1>1. \A i \in DOMAIN L : ~InFlight(L[i])
  BY DEF LedgerOK
<1>2. RecoveryOK(L)
  BY <1>1, Kinds DEF LedgerOK, RecoveryOK
<1>3. /\ Restates(Discard(L), L)
      /\ \A i \in DOMAIN L : IF Emitted(L[i]) THEN Discard(L)[i] = L[i]
                             ELSE Discard(L)[i].state = "DISCARDED"
  BY Discarded
<1> DEFINE M == Discard(L)
<1> HIDE DEF M
<1>4. \A i \in DOMAIN L : ~InFlight(M[i]) /\ (Emitted(M[i]) <=> Emitted(L[i]))
  BY <1>1, <1>3 DEF M, InFlight, Emitted, InFlightStates, EmittedStates
<1>5. \A i \in DOMAIN L : Emitted(M[i]) => \A j \in 1 .. i - 1 : Emitted(M[j])
  BY <1>4, Places DEF LedgerOK, PrefixEmitted
<1>6. LedgerOK(M, w)
  BY <1>3, <1>4, <1>5, StillOK DEF M
<1> QED BY <1>2, <1>6 DEF M

\* The ledger accepts the completion of what the work has realized.
LEMMA Accepted ==
  ASSUME NEW L \in Ledgers, NEW w, LedgerOK(L, w), Flying(w)
  PROVE  CompletionOK(L, w.ids, AllOf(w.ids), FlightOf(w))
<1> SUFFICES ASSUME NEW k \in DOMAIN w.ids
             PROVE  /\ Has(L, w.ids[k])
                    /\ IF AllOf(w.ids)[k] THEN L[At(L, w.ids[k])].state = FlightOf(w)
                                          ELSE Emitted(L[At(L, w.ids[k])])
  BY DEF CompletionOK, AllOf
<1>1. PICK i \in DOMAIN L : L[i].id = w.ids[k] /\ L[i].state = FlightOf(w)
  BY DEF LedgerOK
<1>2. Has(L, w.ids[k]) /\ At(L, w.ids[k]) = i
  BY <1>1, Located DEF LedgerOK
<1>3. AllOf(w.ids)[k] = TRUE
  BY DEF AllOf
<1> QED BY <1>1, <1>2, <1>3

\* The work's updates are realized: emitted right behind what was.
LEMMA RealizedOrder ==
  ASSUME NEW L \in Ledgers, NEW w, NEW v, LedgerOK(L, w), Flying(w), ~Flying(v),
         NEW st \in EmittedStates
  PROVE  LET M == SetStates(L, w.ids, AllOf(w.ids), st)
         IN /\ Restates(M, L) /\ LedgerOK(M, v)
            /\ \A i \in DOMAIN L : Emitted(M[i]) <=> Emitted(L[i]) \/ InFlight(L[i])
            /\ \A i \in DOMAIN L : L[i].state = "COMMITTED" => M[i].state = "COMMITTED"
<1> DEFINE M == SetStates(L, w.ids, AllOf(w.ids), st)
<1>1. /\ Restates(M, L)
      /\ \A i \in DOMAIN L : IF Named(w.ids, L[i].id) THEN M[i].state = st ELSE M[i] = L[i]
  BY Marked DEF LedgerStates
<1>2. \A i \in DOMAIN L : InFlight(L[i]) <=> Named(w.ids, L[i].id)
  BY DEF LedgerOK
<1> HIDE DEF M
<1>3. \A i \in DOMAIN L : /\ Emitted(M[i]) <=> Emitted(L[i]) \/ InFlight(L[i])
                          /\ ~InFlight(M[i])
                          /\ L[i].state = "COMMITTED" => M[i].state = "COMMITTED"
  BY <1>1, <1>2 DEF Emitted, InFlight, EmittedStates, InFlightStates
<1>4. ASSUME NEW i \in DOMAIN L, Emitted(M[i]), NEW j \in 1 .. i - 1 PROVE Emitted(M[j])
  <2>1. j \in DOMAIN L
    BY Places
  <2>2. Emitted(L[j]) \/ InFlight(L[j])
    BY <1>3, <1>4 DEF LedgerOK, PrefixEmitted
  <2> QED BY <1>3, <2>1, <2>2
<1>5. \A i \in DOMAIN L : ~InFlight(M[i])
  BY <1>3
<1>6. LedgerOK(M, v)
  BY <1>1, <1>4, <1>5, StillOK
<1> QED BY <1>1, <1>3, <1>6 DEF M

\* The work's updates are given back.
LEMMA ReturnedOrder ==
  ASSUME NEW L \in Ledgers, NEW w, NEW v, LedgerOK(L, w), Flying(w), ~Flying(v)
  PROVE  LET M == SetStates(L, w.ids, AllOf(w.ids), "READY")
         IN /\ Restates(M, L) /\ LedgerOK(M, v)
            /\ \A i \in DOMAIN L : L[i].state = "COMMITTED" => M[i].state = "COMMITTED"
<1> DEFINE M == SetStates(L, w.ids, AllOf(w.ids), "READY")
<1>1. /\ Restates(M, L)
      /\ \A i \in DOMAIN L : IF Named(w.ids, L[i].id) THEN M[i].state = "READY" ELSE M[i] = L[i]
  BY Marked DEF LedgerStates, IdleStates
<1>2. \A i \in DOMAIN L : InFlight(L[i]) <=> Named(w.ids, L[i].id)
  BY DEF LedgerOK
<1> HIDE DEF M
<1>3. \A i \in DOMAIN L : /\ Emitted(M[i]) <=> Emitted(L[i])
                          /\ ~InFlight(M[i])
                          /\ L[i].state = "COMMITTED" => M[i].state = "COMMITTED"
  BY <1>1, <1>2 DEF Emitted, InFlight, EmittedStates, InFlightStates
<1>4. ASSUME NEW i \in DOMAIN L, Emitted(M[i]), NEW j \in 1 .. i - 1 PROVE Emitted(M[j])
  <2>1. j \in DOMAIN L
    BY Places
  <2>2. Emitted(L[j])
    BY <1>3, <1>4 DEF LedgerOK, PrefixEmitted
  <2> QED BY <1>3, <2>1, <2>2
<1>5. \A i \in DOMAIN L : ~InFlight(M[i])
  BY <1>3
<1>6. LedgerOK(M, v)
  BY <1>1, <1>4, <1>5, StillOK
<1> QED BY <1>1, <1>3, <1>6 DEF M

\* Updates that are emitted are committed.
LEMMA CommittedOrder ==
  ASSUME NEW L \in Ledgers, NEW w, NEW v, NEW ids, LedgerOK(L, w), ~Flying(w), ~Flying(v),
         \A i \in DOMAIN L : Named(ids, L[i].id) => Emitted(L[i])
  PROVE  LET M == SetStates(L, ids, AllOf(ids), "COMMITTED")
         IN /\ Restates(M, L) /\ LedgerOK(M, v)
            /\ \A i \in DOMAIN L : M[i].state = "COMMITTED" <=>
                 L[i].state = "COMMITTED" \/ Named(ids, L[i].id)
<1> DEFINE M == SetStates(L, ids, AllOf(ids), "COMMITTED")
<1>1. /\ Restates(M, L)
      /\ \A i \in DOMAIN L : IF Named(ids, L[i].id) THEN M[i].state = "COMMITTED"
                             ELSE M[i] = L[i]
  BY Marked DEF LedgerStates, EmittedStates
<1>2. \A i \in DOMAIN L : ~InFlight(L[i])
  BY DEF LedgerOK
<1> HIDE DEF M
<1>3. \A i \in DOMAIN L :
        /\ Emitted(M[i]) <=> Emitted(L[i])
        /\ ~InFlight(M[i])
        /\ M[i].state = "COMMITTED" <=> L[i].state = "COMMITTED" \/ Named(ids, L[i].id)
  BY <1>1, <1>2 DEF Emitted, InFlight, EmittedStates, InFlightStates
<1>4. ASSUME NEW i \in DOMAIN L, Emitted(M[i]), NEW j \in 1 .. i - 1 PROVE Emitted(M[j])
  <2>1. j \in DOMAIN L
    BY Places
  <2>2. Emitted(L[j])
    BY <1>3, <1>4 DEF LedgerOK, PrefixEmitted
  <2> QED BY <1>3, <2>1, <2>2
<1>5. \A i \in DOMAIN L : ~InFlight(M[i])
  BY <1>3
<1>6. LedgerOK(M, v)
  BY <1>1, <1>4, <1>5, StillOK
<1> QED BY <1>1, <1>3, <1>6 DEF M

\* A batch that overtakes nothing is taken in flight.
LEMMA BatchOrder ==
  ASSUME NEW L \in Ledgers, NEW w, NEW v, NEW ids \in Seq(Updates),
         LedgerOK(L, w), ~Flying(w), Flying(v), v.ids = ids,
         FlightOf(v) = "RELEASE_IN_FLIGHT",
         \A k \in DOMAIN ids : Has(L, ids[k]), NoOvertaking(L, ids),
         \A i \in DOMAIN L : Named(ids, L[i].id) => ~Emitted(L[i])
  PROVE  LET M == SetStates(L, ids, AllOf(ids), "RELEASE_IN_FLIGHT")
         IN /\ Restates(M, L) /\ LedgerOK(M, v)
            /\ \A i \in DOMAIN L : IF Named(ids, L[i].id) THEN InFlight(M[i]) ELSE M[i] = L[i]
<1> DEFINE M == SetStates(L, ids, AllOf(ids), "RELEASE_IN_FLIGHT")
<1>1. /\ Restates(M, L)
      /\ \A i \in DOMAIN L : IF Named(ids, L[i].id) THEN M[i].state = "RELEASE_IN_FLIGHT"
                             ELSE M[i] = L[i]
  BY Marked DEF LedgerStates, InFlightStates
<1>2. \A i \in DOMAIN L : ~InFlight(L[i])
  BY DEF LedgerOK
<1>3. \A i, j \in DOMAIN L : L[i].id = L[j].id => i = j
  BY DEF LedgerOK
<1> HIDE DEF M
<1>4. \A i \in DOMAIN L :
        /\ Emitted(M[i]) <=> Emitted(L[i])
        /\ InFlight(M[i]) <=> Named(ids, L[i].id)
  BY <1>1, <1>2 DEF Emitted, InFlight, EmittedStates, InFlightStates
<1>5. ASSUME NEW i \in DOMAIN L, Emitted(M[i]), NEW j \in 1 .. i - 1 PROVE Emitted(M[j])
  <2>1. j \in DOMAIN L
    BY Places
  <2>2. Emitted(L[j])
    BY <1>4, <1>5 DEF LedgerOK, PrefixEmitted
  <2> QED BY <1>4, <2>1, <2>2
<1>6. ASSUME NEW i \in DOMAIN L, InFlight(M[i]), NEW j \in 1 .. i - 1
      PROVE  Emitted(M[j]) \/ InFlight(M[j])
  <2>1. j \in DOMAIN L
    BY Places
  <2>2. PICK k \in DOMAIN ids : ids[k] = L[i].id
    BY <1>4, <1>6 DEF Named
  <2>3. Has(L, ids[k]) /\ At(L, ids[k]) = i
    BY <1>3, <2>2, Located
  <2>4. Emitted(L[j]) \/ \E m \in 1 .. k - 1 : ids[m] = L[j].id
    BY <2>3 DEF NoOvertaking
  <2>5. \A m \in 1 .. k - 1 : m \in DOMAIN ids
    OBVIOUS
  <2>6. Emitted(L[j]) \/ Named(ids, L[j].id)
    BY <2>4, <2>5 DEF Named
  <2> QED BY <1>4, <2>1, <2>6
<1>7. ASSUME NEW k \in DOMAIN ids
      PROVE  \E i \in DOMAIN M : M[i].id = ids[k] /\ M[i].state = FlightOf(v)
  <2>1. PICK i \in DOMAIN L : L[i].id = ids[k]
    BY DEF Has
  <2>2. Named(ids, L[i].id)
    BY <2>1 DEF Named
  <2> QED BY <1>1, <2>1, <2>2 DEF Restates
<1>8. LedgerOK(M, v)
  <2>1. DOMAIN M = DOMAIN L /\ \A i \in DOMAIN L : M[i].id = L[i].id /\ M[i].sub = L[i].sub
    BY <1>1 DEF Restates
  <2>2. /\ \A i, j \in DOMAIN M : M[i].id = M[j].id => i = j
        /\ \A i \in DOMAIN M : M[i].id[1] = M[i].sub /\ M[i].sub # 0
    BY <2>1 DEF LedgerOK
  <2>3. \A i \in DOMAIN M : Emitted(M[i]) => PrefixEmitted(M, i)
    BY <1>5, <2>1 DEF PrefixEmitted
  <2>4. \A i \in DOMAIN M : InFlight(M[i]) =>
          \A j \in 1 .. i - 1 : Emitted(M[j]) \/ InFlight(M[j])
    BY <1>6, <2>1
  <2>5. \A i \in DOMAIN M : InFlight(M[i]) <=> Flying(v) /\ Named(v.ids, M[i].id)
    BY <1>4, <2>1
  <2> QED BY <1>7, <2>2, <2>3, <2>4, <2>5 DEF LedgerOK
<1>9. \A i \in DOMAIN L : IF Named(ids, L[i].id) THEN InFlight(M[i]) ELSE M[i] = L[i]
  BY <1>1, <1>4
<1> QED BY <1>1, <1>8, <1>9 DEF M

\* M is L with the n entries of f behind it.
Prolongs(M, L, f, n) ==
  /\ M \in Ledgers /\ Len(M) = Len(L) + n
  /\ \A i \in DOMAIN L : i \in DOMAIN M /\ M[i] = L[i]
  /\ \A k \in 1 .. n : Len(L) + k \in DOMAIN M /\ M[Len(L) + k] = f[k]
  /\ \A i \in DOMAIN M : i \in DOMAIN L \/ \E k \in 1 .. n : i = Len(L) + k

\* New updates go behind the others.
LEMMA Extended ==
  ASSUME NEW L \in Ledgers, NEW n \in Nat, NEW f \in [1 .. n -> Entries]
  PROVE  Prolongs(L \o f, L, f, n)
<1>1. f \in Seq(Entries) /\ Len(f) = n
  OBVIOUS
<1>2. /\ L \o f \in Seq(Entries) /\ Len(L \o f) = Len(L) + n
      /\ \A i \in 1 .. Len(L) + n : (L \o f)[i] = IF i <= Len(L) THEN L[i] ELSE f[i - Len(L)]
  BY <1>1, ConcatProperties, Zenon DEF Ledgers
<1> DEFINE M == L \o f
<1> HIDE DEF M
<1>3. Len(L) \in Nat /\ DOMAIN L = 1 .. Len(L) /\ DOMAIN M = 1 .. Len(L) + n
  BY <1>2, Places DEF M
<1>4. \A i \in 1 .. Len(L) + n : M[i] = IF i <= Len(L) THEN L[i] ELSE f[i - Len(L)]
  BY <1>2 DEF M
<1>5. \A i \in DOMAIN L : i \in DOMAIN M /\ M[i] = L[i]
  BY <1>3, <1>4
<1>6. \A k \in 1 .. n : Len(L) + k \in DOMAIN M /\ M[Len(L) + k] = f[k]
  <2> TAKE k \in 1 .. n
  <2>1. Len(L) + k \in 1 .. Len(L) + n /\ ~(Len(L) + k <= Len(L)) /\ (Len(L) + k) - Len(L) = k
    BY <1>3
  <2> QED BY <1>3, <1>4, <2>1
<1>7. \A i \in DOMAIN M : i \in DOMAIN L \/ \E k \in 1 .. n : i = Len(L) + k
  <2> TAKE i \in DOMAIN M
  <2>1. CASE ~(i <= Len(L))
    <3>1. i - Len(L) \in 1 .. n /\ i = Len(L) + (i - Len(L))
      BY <1>3, <2>1
    <3> QED BY <3>1
  <2>2. CASE i <= Len(L)
    BY <1>3, <2>2
  <2> QED BY <2>1, <2>2
<1>8. M \in Ledgers /\ Len(M) = Len(L) + n
  BY <1>2 DEF M, Ledgers
<1>9. Prolongs(M, L, f, n)
  BY <1>5, <1>6, <1>7, <1>8 DEF Prolongs
<1> QED BY <1>9 DEF M

\* M is L with the updates ids of submission n ready behind it.
Appends(M, L, ids, n) ==
  /\ M \in Ledgers /\ LedgerOK(M, NoWork) /\ Len(M) = Len(L) + Len(ids)
  /\ \A i \in DOMAIN L : i \in DOMAIN M /\ M[i] = L[i]
  /\ \A k \in DOMAIN ids : /\ Len(L) + k \in DOMAIN M
                           /\ M[Len(L) + k] = Entry(ids[k], n, "READY")
  /\ \A i \in DOMAIN M : i \in DOMAIN L \/ \E k \in DOMAIN ids : i = Len(L) + k

\* A chunk's updates are admitted.
LEMMA AppendedOrder ==
  ASSUME NEW L \in Ledgers, NEW ids \in Seq(Updates), NEW n \in Nat \ {0},
         LedgerOK(L, NoWork), Distinct(ids),
         \A k \in DOMAIN ids : ids[k][1] = n /\ \A i \in DOMAIN L : L[i].id # ids[k]
  PROVE  Appends(L \o [k \in DOMAIN ids |-> Entry(ids[k], n, "READY")], L, ids, n)
<1> DEFINE f == [k \in DOMAIN ids |-> Entry(ids[k], n, "READY")]
           M == L \o f
<1>1. DOMAIN ids = 1 .. Len(ids) /\ Len(ids) \in Nat /\ Len(L) \in Nat /\ DOMAIN L = 1 .. Len(L)
  BY Places
<1>2. \A k \in DOMAIN ids : Entry(ids[k], n, "READY") \in Entries
  BY DEF Entry, Entries, LedgerStates, IdleStates
<1>3. f \in [1 .. Len(ids) -> Entries] /\ \A k \in DOMAIN ids : f[k] = Entry(ids[k], n, "READY")
  BY <1>1, <1>2
<1> HIDE DEF f
<1>4. /\ M \in Ledgers /\ Len(M) = Len(L) + Len(ids)
      /\ \A i \in DOMAIN L : i \in DOMAIN M /\ M[i] = L[i]
      /\ \A k \in DOMAIN ids : Len(L) + k \in DOMAIN M /\ M[Len(L) + k] = f[k]
      /\ \A i \in DOMAIN M : i \in DOMAIN L \/ \E k \in DOMAIN ids : i = Len(L) + k
  <2>1. Prolongs(L \o f, L, f, Len(ids))
    BY <1>1, <1>3, Extended, Zenon
  <2>2. Prolongs(M, L, f, Len(ids))
    BY <2>1
  <2> HIDE DEF M
  <2> QED BY <1>1, <2>2 DEF Prolongs
<1> HIDE DEF M
<1>5. \A k \in DOMAIN ids :
        /\ M[Len(L) + k].id = ids[k] /\ M[Len(L) + k].sub = n
        /\ ~Emitted(M[Len(L) + k]) /\ ~InFlight(M[Len(L) + k])
  <2> TAKE k \in DOMAIN ids
  <2>1. M[Len(L) + k] = Entry(ids[k], n, "READY")
    BY <1>3, <1>4
  <2> QED BY <2>1 DEF Entry, Emitted, InFlight, EmittedStates, InFlightStates
<1>6. ~Flying(NoWork)
  BY DEF Flying, NoWork
<1>7. \A i \in DOMAIN L : ~InFlight(L[i])
  BY <1>6 DEF LedgerOK
<1>8. \A i \in DOMAIN M : ~InFlight(M[i])
  BY <1>4, <1>5, <1>7
<1>9. ASSUME NEW i \in DOMAIN M, NEW j \in DOMAIN M, M[i].id = M[j].id PROVE i = j
  <2>1. CASE i \in DOMAIN L /\ j \in DOMAIN L
    BY <1>4, <1>9, <2>1 DEF LedgerOK
  <2>2. CASE i \in DOMAIN L /\ j \notin DOMAIN L
    BY <1>4, <1>5, <1>9, <2>2
  <2>3. CASE i \notin DOMAIN L /\ j \in DOMAIN L
    BY <1>4, <1>5, <1>9, <2>3
  <2>4. CASE i \notin DOMAIN L /\ j \notin DOMAIN L
    <3>1. PICK k \in DOMAIN ids : i = Len(L) + k
      BY <1>4, <2>4
    <3>2. PICK m \in DOMAIN ids : j = Len(L) + m
      BY <1>4, <2>4
    <3>3. ids[k] = ids[m]
      BY <1>5, <1>9, <3>1, <3>2
    <3> QED BY <3>1, <3>2, <3>3 DEF Distinct
  <2> QED BY <2>1, <2>2, <2>3, <2>4
<1>10. \A i \in DOMAIN M : M[i].id[1] = M[i].sub /\ M[i].sub # 0
  <2> TAKE i \in DOMAIN M
  <2>1. CASE i \in DOMAIN L
    BY <1>4, <2>1 DEF LedgerOK
  <2>2. CASE i \notin DOMAIN L
    BY <1>4, <1>5, <2>2
  <2> QED BY <2>1, <2>2
<1>11. \A i \in DOMAIN M : Emitted(M[i]) => PrefixEmitted(M, i)
  <2> TAKE i \in DOMAIN M
  <2>1. CASE i \in DOMAIN L
    BY <1>4, <2>1, Places DEF LedgerOK, PrefixEmitted
  <2>2. CASE i \notin DOMAIN L
    BY <1>4, <1>5, <2>2
  <2> QED BY <2>1, <2>2
<1>12. LedgerOK(M, NoWork)
  BY <1>6, <1>8, <1>9, <1>10, <1>11 DEF LedgerOK
<1>13. Appends(M, L, ids, n)
  BY <1>3, <1>4, <1>12 DEF Appends
<1> QED BY <1>13 DEF M, f

\* Distinct updates of submission n that are all in the ledger are as many as
\* its entries if there are no others, and only then.
LEMMA Numbered ==
  ASSUME NEW L \in Ledgers, NEW ids \in Seq(Updates), NEW n, Distinct(ids),
         \A i, j \in DOMAIN L : L[i].id = L[j].id => i = j,
         \A k \in DOMAIN ids : \E i \in DOMAIN L : L[i].id = ids[k] /\ L[i].sub = n
  PROVE  Cardinality(EntriesOf(L, n)) = Len(ids) <=>
           \A i \in DOMAIN L : L[i].sub = n => Named(ids, L[i].id)
<1> DEFINE S == EntriesOf(L, n)
           place(k) == CHOOSE i \in DOMAIN L : L[i].id = ids[k] /\ L[i].sub = n
           f == [k \in 1 .. Len(ids) |-> place(k)]
<1>1. DOMAIN ids = 1 .. Len(ids) /\ Len(ids) \in Nat /\ DOMAIN L = 1 .. Len(L) /\ Len(L) \in Nat
  BY Places
<1>2. IsFiniteSet(S) /\ Cardinality(S) \in Nat
  <2>1. IsFiniteSet(DOMAIN L)
    BY <1>1, FS_Interval
  <2>2. S \in SUBSET DOMAIN L
    BY DEF EntriesOf
  <2> QED BY <2>1, <2>2, FS_Subset, FS_CardinalityType
<1>3. \A k \in 1 .. Len(ids) : place(k) \in S /\ L[place(k)].id = ids[k]
  BY <1>1 DEF EntriesOf
<1> HIDE DEF place
<1>4. f \in [1 .. Len(ids) -> S] /\ \A k \in 1 .. Len(ids) : L[f[k]].id = ids[k]
  BY <1>3
<1> HIDE DEF f, S
<1>5. f \in Injection(1 .. Len(ids), S)
  <2>1. \A j, k \in 1 .. Len(ids) : f[j] = f[k] => j = k
    BY <1>1, <1>4 DEF Distinct
  <2>2. IsInjective(f)
    BY <1>4, <2>1 DEF IsInjective
  <2> QED BY <1>4, <2>2 DEF Injection
<1>6. Cardinality(1 .. Len(ids)) = Len(ids)
  <2>1. \A m \in Nat : Cardinality(1 .. m) = m
    BY FS_Interval
  <2> QED BY <1>1, <2>1
<1>7. Cardinality(S) = Len(ids) <=> f \in Surjection(1 .. Len(ids), S)
  BY <1>2, <1>5, <1>6, FS_Injection
<1>8. ASSUME f \in Surjection(1 .. Len(ids), S), NEW i \in DOMAIN L, L[i].sub = n
      PROVE  Named(ids, L[i].id)
  <2>1. i \in S
    BY <1>8 DEF S, EntriesOf
  <2>2. PICK k \in 1 .. Len(ids) : f[k] = i
    BY <1>8, <2>1 DEF Surjection
  <2> QED BY <1>1, <1>4, <2>2 DEF Named
<1>9. ASSUME \A i \in DOMAIN L : L[i].sub = n => Named(ids, L[i].id)
      PROVE  f \in Surjection(1 .. Len(ids), S)
  <2>1. \A i, j \in DOMAIN L : L[i].id = L[j].id => i = j
    OBVIOUS
  <2>2. ASSUME NEW i \in S PROVE \E k \in 1 .. Len(ids) : f[k] = i
    <3>1. i \in DOMAIN L /\ L[i].sub = n
      BY <2>2 DEF S, EntriesOf
    <3>2. PICK k \in DOMAIN ids : ids[k] = L[i].id
      BY <1>9, <3>1 DEF Named
    <3>3. f[k] \in DOMAIN L /\ L[f[k]].id = L[i].id
      BY <1>1, <1>4, <3>2 DEF S, EntriesOf
    <3> QED BY <1>1, <2>1, <3>1, <3>2, <3>3
  <2> QED BY <1>4, <2>2 DEF Surjection
<1> QED BY <1>7, <1>8, <1>9 DEF S

\* The unknown tail of a replay is admitted as being replayed.
LEMMA MissingProlongs ==
  ASSUME NEW L \in Ledgers, NEW ids \in Seq(Updates), NEW n \in Nat, NEW limit,
         ReplayBatchOK(L, ids, SubsOf(ids), limit), \A k \in DOMAIN ids : ids[k][1] = n
  PROVE  \E m \in 0 .. Len(ids) :
           /\ KnownFirst(L, ids, m)
           /\ Prolongs(WithMissing(L, ids, SubsOf(ids)), L,
                       [k \in 1 .. Len(ids) - m |->
                          Entry(ids[m + k], n, "REPLAY_IN_FLIGHT")], Len(ids) - m)
<1> DEFINE P(m) == KnownFirst(L, ids, m)
           m == CHOOSE k \in 0 .. Len(ids) : P(k)
           f == [k \in 1 .. Len(ids) - m |-> Entry(ids[m + k], n, "REPLAY_IN_FLIGHT")]
           g == [k \in 1 .. Len(ids) - m |->
                   Entry(ids[m + k], SubsOf(ids)[m + k], "REPLAY_IN_FLIGHT")]
<1>1. m \in 0 .. Len(ids) /\ P(m)
  <2>1. \E k \in 0 .. Len(ids) : P(k)
    BY DEF ReplayBatchOK
  <2> HIDE DEF P
  <2> QED BY <2>1
<1>2. Len(ids) \in Nat /\ DOMAIN ids = 1 .. Len(ids)
  OBVIOUS
<1>3. WithMissing(L, ids, SubsOf(ids)) = L \o g
  BY DEF WithMissing
<1> HIDE DEF m, P
<1>4. \A k \in 1 .. Len(ids) - m : m + k \in DOMAIN ids
  BY <1>1, <1>2
<1>5. g = f
  <2>1. \A k \in DOMAIN ids : SubsOf(ids)[k] = n
    BY DEF SubsOf
  <2> QED BY <1>4, <2>1
<1>6. Len(ids) - m \in Nat /\ f \in [1 .. Len(ids) - m -> Entries]
  <2>1. Len(ids) - m \in Nat
    BY <1>1, <1>2
  <2>2. \A k \in 1 .. Len(ids) - m : Entry(ids[m + k], n, "REPLAY_IN_FLIGHT") \in Entries
    <3> TAKE k \in 1 .. Len(ids) - m
    <3>1. ids[m + k] \in Updates
      BY <1>4
    <3> QED BY <3>1 DEF Entries, Entry, LedgerStates, InFlightStates
  <2> QED BY <2>1, <2>2
<1> HIDE DEF f
<1>7. Prolongs(L \o f, L, f, Len(ids) - m)
  BY <1>6, Extended, Zenon
<1>8. Prolongs(WithMissing(L, ids, SubsOf(ids)), L, f, Len(ids) - m)
  BY <1>3, <1>5, <1>7
<1> QED BY <1>1, <1>8 DEF f, P

\* M is L with the submission n replayed from ids, its work being v.
Replays(M, L, ids, n, v) ==
  /\ M \in Ledgers /\ LedgerOK(M, v)
  /\ ToBeEmitted(L, ids) = <<>> => LedgerOK(M, NoWork)
  /\ \A i \in DOMAIN L :
       /\ i \in DOMAIN M /\ M[i].id = L[i].id /\ M[i].sub = L[i].sub
       /\ L[i].state = "COMMITTED" => M[i].state = "COMMITTED"
  /\ \A i \in DOMAIN M : i \in DOMAIN L \/ M[i].sub = n
  /\ \A k \in DOMAIN ids : \E i \in DOMAIN M :
       M[i].id = ids[k] /\ M[i].sub = n /\ (Emitted(M[i]) \/ InFlight(M[i]))

\* What is left of the submission is replayed behind what is emitted.
LEMMA ReplayOrder ==
  ASSUME NEW L \in Ledgers, NEW ids \in Seq(Updates), NEW n \in Nat \ {0}, NEW limit, NEW v,
         LedgerOK(L, NoWork), ReplayBatchOK(L, ids, SubsOf(ids), limit),
         \A k \in DOMAIN ids : ids[k][1] = n,
         v.op = "replay", v.ids = ToBeEmitted(L, ids)
  PROVE  Replays(SetStates(WithMissing(L, ids, SubsOf(ids)), ids, EmitMask(L, ids),
                           "REPLAY_IN_FLIGHT"), L, ids, n, v)
<1> DEFINE W == WithMissing(L, ids, SubsOf(ids))
           M == SetStates(W, ids, EmitMask(L, ids), "REPLAY_IN_FLIGHT")
           Chosen(u) == \E k \in DOMAIN ids : EmitMask(L, ids)[k] /\ ids[k] = u
<1>1. PICK m \in 0 .. Len(ids) :
        /\ KnownFirst(L, ids, m)
        /\ Prolongs(W, L, [k \in 1 .. Len(ids) - m |->
                             Entry(ids[m + k], n, "REPLAY_IN_FLIGHT")], Len(ids) - m)
  BY MissingProlongs
<1> HIDE DEF W
<1>2. /\ Len(ids) \in Nat /\ DOMAIN ids = 1 .. Len(ids)
      /\ Len(L) \in Nat /\ DOMAIN L = 1 .. Len(L)
  BY Places
<1>3. \A k \in 1 .. Len(ids) - m : m + k \in DOMAIN ids /\ ~Has(L, ids[m + k])
  BY <1>1, <1>2 DEF KnownFirst
<1>4. /\ W \in Ledgers
      /\ \A i \in DOMAIN L : i \in DOMAIN W /\ W[i] = L[i]
      /\ \A k \in 1 .. Len(ids) - m :
           /\ Len(L) + k \in DOMAIN W
           /\ W[Len(L) + k].id = ids[m + k] /\ W[Len(L) + k].sub = n
      /\ \A i \in DOMAIN W : i \in DOMAIN L \/ \E k \in 1 .. Len(ids) - m : i = Len(L) + k
  <2> DEFINE f == [k \in 1 .. Len(ids) - m |-> Entry(ids[m + k], n, "REPLAY_IN_FLIGHT")]
  <2>1. \A k \in 1 .. Len(ids) - m : f[k].id = ids[m + k] /\ f[k].sub = n
    BY DEF Entry
  <2>2. Prolongs(W, L, f, Len(ids) - m)
    BY <1>1
  <2> HIDE DEF f
  <2> QED BY <2>1, <2>2 DEF Prolongs
<1>5. /\ Restates(M, W)
      /\ \A i \in DOMAIN W : IF Chosen(W[i].id) THEN M[i].state = "REPLAY_IN_FLIGHT"
                             ELSE M[i] = W[i]
  BY <1>4, Masked DEF LedgerStates, InFlightStates
<1> HIDE DEF M
<1>6. \A i, j \in DOMAIN L : L[i].id = L[j].id => i = j
  BY DEF LedgerOK
<1>7. \A i \in DOMAIN L : Chosen(L[i].id) <=> Named(ids, L[i].id) /\ ~Emitted(L[i])
  <2> TAKE i \in DOMAIN L
  <2>1. Has(L, L[i].id) /\ At(L, L[i].id) = i
    BY <1>6, Located
  <2>2. \A k \in DOMAIN ids : ids[k] = L[i].id => (EmitMask(L, ids)[k] <=> ~Emitted(L[i]))
    BY <2>1 DEF EmitMask
  <2> QED BY <2>2 DEF Named
<1>8. \A k \in 1 .. Len(ids) - m : Chosen(ids[m + k])
  <2> TAKE k \in 1 .. Len(ids) - m
  <2>1. EmitMask(L, ids)[m + k] = TRUE
    BY <1>3 DEF EmitMask
  <2> QED BY <1>3, <2>1
<1>9. \A u : Named(ToBeEmitted(L, ids), u) <=> Chosen(u)
  BY DEF ToBeEmitted, Named
<1> HIDE DEF Chosen
<1>10. \A i \in DOMAIN L : ~InFlight(L[i])
  BY DEF LedgerOK, Flying, NoWork
<1>11. \A i \in DOMAIN M :
         /\ InFlight(M[i]) <=> Chosen(M[i].id)
         /\ Emitted(M[i]) => i \in DOMAIN L /\ Emitted(L[i])
  <2> TAKE i \in DOMAIN M
  <2>1. i \in DOMAIN W /\ M[i].id = W[i].id
    BY <1>5 DEF Restates
  <2>2. CASE Chosen(W[i].id)
    <3>1. M[i].state = "REPLAY_IN_FLIGHT"
      BY <1>5, <2>1, <2>2
    <3> QED BY <2>1, <2>2, <3>1 DEF InFlight, InFlightStates, Emitted, EmittedStates
  <2>3. CASE ~Chosen(W[i].id)
    <3>1. i \in DOMAIN L
      BY <1>4, <1>8, <2>1, <2>3
    <3>2. M[i] = L[i]
      BY <1>4, <1>5, <2>1, <2>3, <3>1
    <3> QED BY <1>10, <2>1, <2>3, <3>1, <3>2
  <2> QED BY <2>2, <2>3
<1>12. \A i \in DOMAIN L :
         /\ i \in DOMAIN M /\ M[i].id = L[i].id /\ M[i].sub = L[i].sub
         /\ Emitted(L[i]) => M[i] = L[i]
  <2> TAKE i \in DOMAIN L
  <2>1. i \in DOMAIN W /\ W[i] = L[i]
    BY <1>4
  <2>2. i \in DOMAIN M /\ M[i].id = L[i].id /\ M[i].sub = L[i].sub
    BY <1>5, <2>1 DEF Restates
  <2>3. Emitted(L[i]) => M[i] = L[i]
    BY <1>5, <1>7, <2>1
  <2> QED BY <2>2, <2>3
<1>13. \A i \in DOMAIN L : L[i].state = "COMMITTED" => M[i].state = "COMMITTED"
  BY <1>12 DEF Emitted, EmittedStates
<1>14. \A k \in 1 .. Len(ids) - m :
         /\ Len(L) + k \in DOMAIN M
         /\ M[Len(L) + k].id = ids[m + k] /\ M[Len(L) + k].sub = n
  BY <1>4, <1>5 DEF Restates
<1>15. \A i \in DOMAIN M : i \in DOMAIN L \/ \E k \in 1 .. Len(ids) - m : i = Len(L) + k
  BY <1>4, <1>5 DEF Restates
<1>16. ASSUME NEW k \in DOMAIN ids
       PROVE  \E i \in DOMAIN M :
                M[i].id = ids[k] /\ M[i].sub = n /\ (Emitted(M[i]) \/ InFlight(M[i]))
  <2>1. CASE Has(L, ids[k])
    <3>1. PICK i \in DOMAIN L : L[i].id = ids[k]
      BY <2>1 DEF Has
    <3>2. At(L, ids[k]) = i
      BY <1>6, <3>1, Located
    <3>3. L[i].sub = SubsOf(ids)[k] /\ SubsOf(ids)[k] = n
      BY <2>1, <3>2 DEF ReplayBatchOK, SubsOf
    <3>4. Emitted(M[i]) \/ InFlight(M[i])
      BY <1>7, <1>11, <1>12, <3>1 DEF Named
    <3> QED BY <1>12, <3>1, <3>3, <3>4
  <2>2. CASE ~Has(L, ids[k])
    <3>1. k - m \in 1 .. Len(ids) - m /\ m + (k - m) = k
      BY <1>1, <1>2, <2>2 DEF KnownFirst
    <3>2. Len(L) + (k - m) \in DOMAIN M /\ M[Len(L) + (k - m)].id = ids[k]
          /\ M[Len(L) + (k - m)].sub = n /\ Chosen(ids[k])
      BY <1>8, <1>14, <3>1
    <3> QED BY <1>11, <3>2
  <2> QED BY <2>1, <2>2
<1>17. ASSUME NEW i \in DOMAIN M, NEW j \in DOMAIN M, M[i].id = M[j].id PROVE i = j
  <2>1. CASE i \in DOMAIN L /\ j \in DOMAIN L
    BY <1>6, <1>12, <1>17, <2>1
  <2> DEFINE Old(a, b) == a \in DOMAIN L /\ b \in DOMAIN M /\ b \notin DOMAIN L
  <2>5. \A a, b : Old(a, b) => M[a].id # M[b].id
    <3> SUFFICES ASSUME NEW a, NEW b, Old(a, b), M[a].id = M[b].id PROVE FALSE
      OBVIOUS
    <3>1. PICK k \in 1 .. Len(ids) - m : b = Len(L) + k
      BY <1>15
    <3>2. L[a].id = ids[m + k]
      BY <1>12, <1>14, <3>1
    <3> QED BY <1>3, <3>1, <3>2 DEF Has
  <2>2. CASE i \in DOMAIN L /\ j \notin DOMAIN L
    BY <1>17, <2>2, <2>5
  <2>3. CASE i \notin DOMAIN L /\ j \in DOMAIN L
    BY <1>17, <2>3, <2>5
  <2>4. CASE i \notin DOMAIN L /\ j \notin DOMAIN L
    <3>1. PICK k \in 1 .. Len(ids) - m : i = Len(L) + k
      BY <1>15, <2>4
    <3>2. PICK q \in 1 .. Len(ids) - m : j = Len(L) + q
      BY <1>15, <2>4
    <3>3. ids[m + k] = ids[m + q] /\ m + k \in DOMAIN ids /\ m + q \in DOMAIN ids
      BY <1>3, <1>14, <1>17, <3>1, <3>2
    <3>4. m + k = m + q
      BY <3>3 DEF ReplayBatchOK, Distinct
    <3> QED BY <1>1, <1>2, <3>1, <3>2, <3>4
  <2> QED BY <2>1, <2>2, <2>3, <2>4
<1>18. \A i \in DOMAIN M : M[i].id[1] = M[i].sub /\ M[i].sub # 0
  <2> TAKE i \in DOMAIN M
  <2>1. CASE i \in DOMAIN L
    BY <1>12, <2>1 DEF LedgerOK
  <2>2. CASE i \notin DOMAIN L
    <3>1. PICK k \in 1 .. Len(ids) - m : i = Len(L) + k
      BY <1>15, <2>2
    <3>2. M[i].id = ids[m + k] /\ M[i].sub = n /\ ids[m + k][1] = n
      BY <1>3, <1>14, <3>1
    <3> QED BY <3>2
  <2> QED BY <2>1, <2>2
<1>19. M \in Ledgers
  BY <1>5 DEF Restates
<1>20. ASSUME NEW i \in DOMAIN M, Emitted(M[i]), NEW j \in 1 .. i - 1 PROVE Emitted(M[j])
  <2>1. i \in DOMAIN L /\ Emitted(L[i]) /\ j \in DOMAIN L
    BY <1>11, <1>20, Places
  <2>2. Emitted(L[j])
    BY <2>1 DEF LedgerOK, PrefixEmitted
  <2> QED BY <1>12, <2>1, <2>2
<1>21. ASSUME NEW i \in DOMAIN M, InFlight(M[i]), NEW j \in 1 .. i - 1
       PROVE  Emitted(M[j]) \/ InFlight(M[j])
  <2>1. j \in DOMAIN M /\ j < i
    BY <1>19, Places
  <2>2. PICK k \in DOMAIN ids : ids[k] = M[i].id
    BY <1>11, <1>21 DEF Chosen
  <2>3. \A q \in 1 .. k - 1 : q \in DOMAIN ids
    BY <1>2
  <2>4. j \in DOMAIN L => Emitted(L[j]) \/ Named(ids, L[j].id)
    <3>1. CASE i \in DOMAIN L
      <4>1. Has(L, ids[k]) /\ At(L, ids[k]) = i
        BY <1>6, <1>12, <2>2, <3>1, Located
      <4> QED BY <2>3, <4>1 DEF ReplayBatchOK, NoOvertaking, Named
    <3>2. CASE i \notin DOMAIN L
      <4>1. ~Has(L, ids[k])
        BY <1>3, <1>14, <1>15, <2>2, <3>2
      <4> QED BY <2>3, <4>1 DEF ReplayBatchOK, UnknownLast, Named
    <3> QED BY <3>1, <3>2
  <2>5. CASE j \in DOMAIN L
    BY <1>7, <1>11, <1>12, <2>4, <2>5
  <2>6. CASE j \notin DOMAIN L
    BY <1>8, <1>11, <1>14, <1>15, <2>1, <2>6
  <2> QED BY <2>5, <2>6
<1>22. ASSUME NEW k \in DOMAIN v.ids
       PROVE  \E i \in DOMAIN M : M[i].id = v.ids[k] /\ M[i].state = FlightOf(v)
  <2>1. k \in DOMAIN ids /\ v.ids[k] = ids[k]
    BY DEF ToBeEmitted
  <2>2. Chosen(ids[k])
    BY <1>9, <1>22, <2>1 DEF Named
  <2>3. PICK i \in DOMAIN M : M[i].id = ids[k]
    BY <1>16, <2>1
  <2>4. M[i].state = "REPLAY_IN_FLIGHT"
    BY <1>5, <2>2, <2>3 DEF Restates
  <2> QED BY <2>1, <2>3, <2>4 DEF FlightOf
<1>23. /\ \A i, j \in DOMAIN M : M[i].id = M[j].id => i = j
       /\ \A i \in DOMAIN M : Emitted(M[i]) => PrefixEmitted(M, i)
  BY <1>17, <1>20 DEF PrefixEmitted
<1>24. LedgerOK(M, v)
  <2>1. Flying(v)
    BY DEF Flying
  <2>2. \A i \in DOMAIN M : InFlight(M[i]) <=> Flying(v) /\ Named(v.ids, M[i].id)
    BY <1>9, <1>11, <2>1
  <2> QED BY <1>18, <1>21, <1>22, <1>23, <2>2 DEF LedgerOK
<1>25. ASSUME ToBeEmitted(L, ids) = <<>> PROVE LedgerOK(M, NoWork)
  <2>1. \A u : ~Named(ToBeEmitted(L, ids), u)
    BY <1>25 DEF Named
  <2>2. \A i \in DOMAIN M : ~InFlight(M[i])
    BY <1>9, <1>11, <2>1
  <2>3. ~Flying(NoWork)
    BY DEF Flying, NoWork
  <2> QED BY <1>18, <1>23, <2>2, <2>3 DEF LedgerOK
<1>26. \A i \in DOMAIN M : i \in DOMAIN L \/ M[i].sub = n
  BY <1>14, <1>15
<1>27. Replays(M, L, ids, n, v)
  BY <1>12, <1>13, <1>16, <1>19, <1>24, <1>25, <1>26 DEF Replays
<1> QED BY <1>27 DEF M, W

-----------------------------------------------------------------------------
(* One stream: what its recovery and the end of its submission change. *)

\* What the invariant reads of a bridge session, its deferral apart, of a
\* core session and of a submission.
SameB(a, b) ==
  /\ a.live = b.live /\ a.open = b.open
  /\ a.period = b.period /\ a.last = b.last /\ a.sub = b.sub
  /\ a.executed = b.executed /\ a.committed = b.committed
  /\ a.chunks = b.chunks /\ a.units = b.units
SameC(a, b) ==
  /\ a.stage = b.stage /\ a.ledger = b.ledger
  /\ a.cur = b.cur /\ a.last = b.last /\ a.open = b.open
SameP(a, b) ==
  /\ a.sub = b.sub /\ a.n = b.n /\ a.got = b.got /\ a.chunks = b.chunks
  /\ a.complete = b.complete /\ a.recovery = b.recovery /\ a.started = b.started
  /\ a.ids = b.ids /\ a.tail = b.tail

\* g is what h becomes when it recovers, at once or later, or not at all.
Kin(g, h) ==
  /\ SameB(g.b, h.b)
  /\ g.c.ledger = <<>> => h.c.ledger = <<>>
  /\ AllCommitted(h.c.ledger) => AllCommitted(g.c.ledger)
  /\ h.c.stage = "RECOVER" => g.c.stage = "RECOVER"

\* A stream that may recover, whatever stage its core is in.
Ripe(h, N, R) ==
  /\ h.c.ledger \in Ledgers
  /\ LedgerOK(h.c.ledger, NoWork)
  /\ Settled(h.c.ledger, h.b)
  /\ Occurs(h.b, h.c.ledger, N, R)
  /\ h.c.last = h.c.cur
  /\ h.b.open /\ h.c.ledger # <<>> => h.c.cur = h.b.period

\* Without work nothing is held, in flight or submitted.
LEMMA Idle == ~Held(NoWork) /\ ~Flying(NoWork) /\ ~Submits(NoWork)
BY DEF Held, Flying, Submits, NoWork

\* The invariant of a stream reads these fields and no other.
LEMMA Framed ==
  ASSUME NEW g, NEW h, NEW w, NEW N, NEW R, Sound(h, w, N, R),
         SameB(g.b, h.b), SameC(g.c, h.c)
  PROVE  Sound(g, w, N, R) /\ Kin(g, h)
BY DEF Sound, Settled, Occurs, Agrees, SameB, SameC, Kin

\* So does what it says of the stream's submission.
LEMMA FramedPends ==
  ASSUME NEW g, NEW h, NEW w, NEW R, Pends(h, w, R), SameB(g.b, h.b),
         g.c.ledger = h.c.ledger, g.c.stage = h.c.stage, SameP(g.p, h.p),
         g.p.listed => h.p.listed
  PROVE  Pends(g, w, R)
BY DEF Pends, Current, Routed, Ledgered, SameB, SameP

\* A sound stream may recover.
LEMMA SoundIsRipe ==
  ASSUME NEW h, NEW N, NEW R, Sound(h, NoWork, N, R)
  PROVE  Ripe(h, N, R)
BY DEF Sound, Ripe, Agrees

\* What a recovery of h does.
LEMMA BeganEffect ==
  ASSUME NEW h, Shape(h), RecoveryOK(h.c.ledger)
  PROVE  /\ BeganRecovery(h).b = h.b /\ BeganRecovery(h).p = h.p
         /\ BeganRecovery(h).c.stage = "RECOVER"
         /\ BeganRecovery(h).c.ledger = Discard(h.c.ledger)
         /\ BeganRecovery(h).c.cur = h.c.cur /\ BeganRecovery(h).c.last = h.c.last
         /\ BeganRecovery(h).c.open = h.c.open /\ BeganRecovery(h).c.fallback = h.c.fallback
BY DEF BeganRecovery, Shape, NewBridge, LegacyCore, NoPending

\* A ledger that is discarded has the same entries emitted and committed.
LEMMA DiscardKeeps ==
  ASSUME NEW L \in Ledgers
  PROVE  /\ Restates(Discard(L), L)
         /\ \A i \in DOMAIN L :
              /\ Emitted(Discard(L)[i]) <=> Emitted(L[i])
              /\ L[i].state = "COMMITTED" => Discard(L)[i].state = "COMMITTED"
         /\ Discard(L) = <<>> => L = <<>>
<1> DEFINE M == Discard(L)
<1>1. /\ Restates(M, L)
      /\ \A i \in DOMAIN L : IF Emitted(L[i]) THEN M[i] = L[i] ELSE M[i].state = "DISCARDED"
  BY Discarded
<1> HIDE DEF M
<1>2. \A i \in DOMAIN L : /\ Emitted(M[i]) <=> Emitted(L[i])
                          /\ L[i].state = "COMMITTED" => M[i].state = "COMMITTED"
  BY <1>1 DEF Emitted, EmittedStates
<1>3. M = <<>> => L = <<>>
  BY <1>1 DEF Restates, Ledgers
<1> QED BY <1>1, <1>2, <1>3 DEF M

\* The entries that are not committed stay those of the open occurrence.
LEMMA SettledAgain ==
  ASSUME NEW L, NEW M, NEW b, Settled(L, b), Restates(M, L),
         \A i \in DOMAIN L : L[i].state = "COMMITTED" => M[i].state = "COMMITTED"
  PROVE  Settled(M, b)
BY DEF Settled, Restates

\* A recovery that may begin does.
LEMMA BeganSound ==
  ASSUME NEW h, NEW N, NEW R, Shape(h), Ripe(h, N, R)
  PROVE  LET g == BeganRecovery(h)
         IN /\ RecoveryOK(h.c.ledger) /\ Sound(g, NoWork, N, R) /\ Kin(g, h)
            /\ g.b = h.b /\ g.p = h.p /\ g.c.stage = "RECOVER"
            /\ Pends(h, NoWork, R) => Pends(g, NoWork, R)
<1> DEFINE g == BeganRecovery(h)
           L == h.c.ledger
           M == Discard(L)
<1>1. L \in Ledgers /\ RecoveryOK(L) /\ LedgerOK(M, NoWork)
  BY Idle, Recoverable DEF Ripe
<1>2. /\ g.b = h.b /\ g.p = h.p /\ g.c.stage = "RECOVER" /\ g.c.ledger = M
      /\ g.c.cur = h.c.cur /\ g.c.last = h.c.last
  BY <1>1, BeganEffect
<1>3. /\ Restates(M, L)
      /\ \A i \in DOMAIN L : /\ Emitted(M[i]) <=> Emitted(L[i])
                             /\ L[i].state = "COMMITTED" => M[i].state = "COMMITTED"
      /\ M = <<>> => L = <<>>
  BY <1>1, DiscardKeeps
<1> HIDE DEF g, M
<1>4. L = <<>> => M = <<>>
  BY <1>3 DEF Restates, Ledgers
<1>5. Settled(M, h.b)
  BY <1>3, SettledAgain DEF Ripe
<1>6. Occurs(h.b, M, N, R)
  BY <1>3, <1>4 DEF Ripe, Occurs
<1>7. Agrees(g.b, g.c)
  BY <1>2, <1>4 DEF Ripe, Agrees, Learned
<1>8. Sound(g, NoWork, N, R)
  BY <1>1, <1>2, <1>3, <1>5, <1>6, <1>7 DEF Sound, Restates
<1>12. AllCommitted(L) => AllCommitted(M)
  BY <1>3 DEF AllCommitted, Restates
<1>9. Kin(g, h)
  BY <1>2, <1>3, <1>12 DEF Kin, SameB
<1>10. ASSUME Pends(h, NoWork, R), g.p.listed
       PROVE  Current(g.b, g.c, g.p, R) /\ Routed(g.b, g.p, NoWork)
              /\ Ledgered(g.c.ledger, g.p, NoWork)
  <2>1. Current(h.b, h.c, h.p, R) /\ Routed(h.b, h.p, NoWork) /\ Ledgered(L, h.p, NoWork)
    BY <1>2, <1>10 DEF Pends
  <2>2. Ledgered(M, h.p, NoWork)
    BY <1>3, <2>1, Idle DEF Ledgered, Restates
  <2> QED BY <1>2, <2>1, <2>2 DEF Current
<1>11. Pends(h, NoWork, R) => Pends(g, NoWork, R)
  BY <1>10, Idle DEF Pends
<1> QED BY <1>1, <1>2, <1>8, <1>9, <1>11 DEF g

\* Kinship of a stream goes from step to step.
LEMMA KinSteps ==
  /\ \A h : Kin(h, h)
  /\ \A f, g, h : Kin(f, g) /\ Kin(g, h) => Kin(f, h)
BY DEF Kin, SameB

\* What a change of the deferral leaves.
LEMMA DeferEffect ==
  ASSUME NEW h, Shape(h), NEW x
  PROVE  LET g == [h EXCEPT !.b.deferred = x]
         IN /\ Shape(g) /\ g.c = h.c /\ g.p = h.p /\ SameB(g.b, h.b) /\ g.b.deferred = x
BY DEF Shape, SameB, NewBridge, LegacyCore, NoPending

\* A stream begins to recover, or will when its host work ends, unless it is
\* outside the protocol and has nothing to recover.
LEMMA BeginOrDeferSound ==
  ASSUME NEW h, NEW w, NEW N, NEW R, Shape(h), Sound(h, w, N, R),
         h.b.inflight # 0 <=> Held(w), Held(w) \/ w = NoWork,
         Deferral(h.b, w) \/ h.b.open
  PROVE  LET g == BeginOrDefer(h)
         IN /\ Sound(g, w, N, R) /\ LostOK(g) /\ Deferral(g.b, w) /\ Kin(g, h) /\ g.p = h.p
            /\ Pends(h, w, R) => Pends(g, w, R)
<1> DEFINE g == BeginOrDefer(h)
           Done == /\ Sound(g, w, N, R) /\ LostOK(g) /\ Deferral(g.b, w)
                   /\ Kin(g, h) /\ g.p = h.p
                   /\ Pends(h, w, R) => Pends(g, w, R)
<1> USE KinSteps
<1>1. ASSUME NEW x, g = [h EXCEPT !.b.deferred = x],
             LostOK(g), Held(w) \/ x = FALSE
      PROVE  Done
  <2>1. g.c = h.c /\ g.p = h.p /\ SameB(g.b, h.b) /\ g.b.deferred = x
    BY <1>1, DeferEffect
  <2> HIDE DEF g
  <2>2. Sound(g, w, N, R) /\ Kin(g, h)
    BY <2>1, Framed DEF SameC
  <2>3. Pends(h, w, R) => Pends(g, w, R)
    BY <2>1, FramedPends DEF SameP
  <2>4. Deferral(g.b, w)
    BY <1>1, <2>1 DEF Deferral
  <2> QED BY <1>1, <2>1, <2>2, <2>3, <2>4
<1>2. CASE ~h.b.live
  <2>1. g = h
    BY <1>2 DEF BeginOrDefer
  <2> QED BY <1>2, <2>1 DEF LostOK, Deferral
<1>3. CASE h.b.live /\ h.c.stage = "RECOVER"
  <2>1. g = [h EXCEPT !.b.deferred = FALSE]
    BY <1>3 DEF BeginOrDefer
  <2>2. LostOK(g)
    BY <1>3, <2>1, DeferEffect DEF LostOK, Learned
  <2> QED BY <1>1, <2>1, <2>2
<1>4. CASE h.b.live /\ h.c.stage # "RECOVER" /\ h.c.stage \notin Learned /\ ~h.b.open
           /\ h.b.pending = 0
  <2>1. g = h
    BY <1>4 DEF BeginOrDefer
  <2> QED BY <1>4, <2>1 DEF LostOK
<1>5. CASE h.b.live /\ h.c.stage # "RECOVER" /\ h.b.inflight # 0
           /\ ~(h.c.stage \notin Learned /\ ~h.b.open /\ h.b.pending = 0)
  <2>1. g = [h EXCEPT !.b.deferred = TRUE]
    BY <1>5 DEF BeginOrDefer
  <2>2. LostOK(g)
    BY <2>1, DeferEffect DEF LostOK
  <2> QED BY <1>1, <1>5, <2>1, <2>2
<1>6. CASE h.b.live /\ h.c.stage # "RECOVER" /\ h.b.inflight = 0
           /\ ~(h.c.stage \notin Learned /\ ~h.b.open /\ h.b.pending = 0)
  <2> DEFINE k == BeganRecovery(h)
  <2>1. w = NoWork /\ Ripe(h, N, R)
    BY <1>6, SoundIsRipe
  <2>2. /\ RecoveryOK(h.c.ledger) /\ Sound(k, NoWork, N, R) /\ Kin(k, h)
        /\ k.b = h.b /\ k.p = h.p /\ k.c.stage = "RECOVER"
        /\ Pends(h, NoWork, R) => Pends(k, NoWork, R)
    BY <2>1, BeganSound
  <2>3. Shape(k)
    BY BeganSame DEF SameCount
  <2>4. g = [k EXCEPT !.b.deferred = ~RecoveryOK(h.c.ledger)]
    BY <1>6 DEF BeginOrDefer
  <2> HIDE DEF k, g
  <2>5. /\ g.c = k.c /\ g.p = k.p /\ SameB(g.b, k.b) /\ g.b.deferred = ~RecoveryOK(h.c.ledger)
    BY <2>3, <2>4, DeferEffect
  <2>6. ~g.b.deferred
    BY <2>2, <2>5
  <2>7. Sound(g, w, N, R) /\ Kin(g, k)
    BY <2>1, <2>2, <2>5, Framed DEF SameC
  <2>8. Pends(h, w, R) => Pends(g, w, R)
    BY <2>1, <2>2, <2>5, FramedPends DEF SameP
  <2>9. LostOK(g)
    BY <2>2, <2>5 DEF LostOK, Learned
  <2> QED BY <2>2, <2>5, <2>6, <2>7, <2>8, <2>9 DEF Deferral, g
<1> QED BY <1>2, <1>3, <1>4, <1>5, <1>6

\* A submission that is marked and taken off the list.
LEMMA GivenUp ==
  ASSUME NEW h, Shape(h), h.p.listed
  PROVE  LET u == Unlinked([h EXCEPT !.p.failed = TRUE])
         IN /\ Shape(u) /\ SameB(u.b, h.b) /\ u.b.deferred = h.b.deferred
            /\ u.c = h.c /\ SameP(u.p, h.p) /\ u.p.listed = FALSE /\ u.p.refs = h.p.refs
            /\ u.p.releasing = h.p.releasing /\ u.p.submitting = h.p.submitting
BY DEF Unlinked, Shape, SameB, SameP, NewBridge, LegacyCore, NoPending

\* Dropping a reference changes nothing else, or leaves no submission.
LEMMA UnrefEffect ==
  ASSUME NEW h, Shape(h)
  PROVE  /\ Shape(Unref(h)) /\ Unref(h).b = h.b /\ Unref(h).c = h.c
         /\ h.p.refs = 1 => Unref(h).p = NoPending
         /\ h.p.refs # 1 => SameP(Unref(h).p, h.p) /\ Unref(h).p.listed = h.p.listed
         /\ ~h.p.listed => ~Unref(h).p.listed
BY DEF Unref, Shape, SameP, NewBridge, LegacyCore, NoPending

\* The recovery of a submission, when nothing of it is under way.
LEMMA PendingRecoveryEffect ==
  ASSUME NEW h, Shape(h)
  PROVE  LET g == PendingRecovery(h)
         IN /\ Shape(g) /\ g.b = h.b /\ g.p.listed = h.p.listed /\ g.p.refs = h.p.refs
            /\ h.p.started \/ h.p.releasing \/ h.p.submitting => g = h
            /\ ~(h.p.started \/ h.p.releasing \/ h.p.submitting) => g.c = BeganRecovery(h).c
<1>1. SameCount(PendingRecovery(h), h)
  BY PendingRecoverySame
<1>2. BeganRecovery(h).b = h.b /\ Shape(BeganRecovery(h))
  BY BeganSame DEF SameCount, BeganRecovery, Shape, NewBridge, LegacyCore, NoPending
<1>3. PendingRecovery(h).b = h.b
  BY <1>2 DEF PendingRecovery, Shape, NewBridge, LegacyCore, NoPending
<1>4. ~(h.p.started \/ h.p.releasing \/ h.p.submitting) =>
        PendingRecovery(h).c = BeganRecovery(h).c
  BY <1>2 DEF PendingRecovery, Shape, NewBridge, LegacyCore, NoPending
<1> QED BY <1>1, <1>3, <1>4 DEF SameCount, PendingRecovery

\* A submission that is given up leaves the session as it was, or recovering.
LEMMA DroppedSound ==
  ASSUME NEW h, NEW w, NEW N, NEW R, NEW rel \in BOOLEAN, NEW sub \in BOOLEAN,
         Counted(h, rel, sub), Held(w) <=> rel \/ sub, Held(w) \/ w = NoWork,
         Sound(h, w, N, R), h.p.listed /\ h.p.started => h.c.stage = "RECOVER",
         NEW recover \in BOOLEAN
  PROVE  LET d == Dropped(h, recover)
         IN /\ Counted(d, rel, sub) /\ ~d.p.listed /\ d.b.deferred = h.b.deferred
            /\ Sound(d, w, N, R) /\ Kin(d, h)
            /\ Pends(h, w, R) => Pends(d, w, R)
            /\ recover /\ h.p.listed /\ ~Held(w) => d.c.stage = "RECOVER"
            /\ ~recover => d.c = h.c
<1> DEFINE d == Dropped(h, recover)
<1>0. Counted(d, rel, sub) /\ ~d.p.listed
  BY DroppedCounted
<1>1. CASE ~h.p.listed
  <2>1. d = h
    BY <1>1 DEF Dropped
  <2> QED BY <1>0, <1>1, <2>1, KinSteps
<1>2. CASE h.p.listed
  <2> DEFINE u == Unlinked([h EXCEPT !.p.failed = TRUE])
             e == IF recover THEN PendingRecovery(u) ELSE u
  <2>1. /\ Shape(u) /\ SameB(u.b, h.b) /\ u.b.deferred = h.b.deferred
        /\ u.c = h.c /\ SameP(u.p, h.p) /\ u.p.listed = FALSE /\ u.p.refs = h.p.refs
        /\ u.p.releasing = rel /\ u.p.submitting = sub
    BY <1>2, GivenUp DEF Counted
  <2>2. d = Unref(e)
    BY <1>2 DEF Dropped
  <2> HIDE DEF u, d
  <2>3. Sound(u, w, N, R) /\ Kin(u, h)
    BY <2>1, Framed DEF SameC
  <2>4. Pends(h, w, R) => Pends(u, w, R)
    BY <2>1, FramedPends
  <2>5. u.p.started => u.c.stage = "RECOVER"
    BY <1>2, <2>1 DEF SameP
  <2>6. /\ Shape(e) /\ e.b = u.b /\ e.p.listed = FALSE /\ e.p.refs = h.p.refs
        /\ Sound(e, w, N, R) /\ Kin(e, u)
        /\ Held(w) => e = u
        /\ recover /\ ~Held(w) => e.c.stage = "RECOVER"
        /\ ~recover => e.c = u.c
    <3>1. CASE recover /\ ~(u.p.started \/ rel \/ sub)
      <4> DEFINE g == BeganRecovery(u)
      <4>1. w = NoWork /\ ~Held(w)
        BY <3>1
      <4>2. Ripe(u, N, R)
        BY <2>3, <4>1, SoundIsRipe
      <4>3. Sound(g, NoWork, N, R) /\ Kin(g, u) /\ g.b = u.b /\ g.c.stage = "RECOVER"
        BY <2>1, <4>2, BeganSound
      <4>4. /\ Shape(e) /\ e.b = u.b /\ e.c = g.c
            /\ e.p.listed = u.p.listed /\ e.p.refs = u.p.refs
        BY <2>1, <3>1, PendingRecoveryEffect
      <4> HIDE DEF g, e
      <4>5. Sound(e, NoWork, N, R) /\ Kin(e, g)
        BY <4>3, <4>4, Framed DEF SameB, SameC
      <4>6. Kin(e, u)
        BY <4>3, <4>5, KinSteps
      <4> QED BY <2>1, <3>1, <4>1, <4>3, <4>4, <4>5, <4>6
    <3>2. CASE recover /\ (u.p.started \/ rel \/ sub)
      <4>1. e = u
        BY <2>1, <3>2, PendingRecoveryEffect
      <4> QED BY <2>1, <2>3, <2>5, <3>2, <4>1, KinSteps
    <3>3. CASE ~recover
      BY <2>1, <2>3, <3>3, KinSteps
    <3> QED BY <3>1, <3>2, <3>3
  <2> HIDE DEF e
  <2>7. /\ d.b = e.b /\ d.c = e.c /\ ~d.p.listed
        /\ e.p.refs # 1 => SameP(d.p, e.p)
    BY <2>2, <2>6, UnrefEffect
  <2>8. Sound(d, w, N, R) /\ Kin(d, e)
    BY <2>6, <2>7, Framed DEF SameB, SameC
  <2>9. Kin(d, h)
    BY <2>3, <2>6, <2>8, KinSteps
  <2>10. ASSUME Pends(h, w, R) PROVE Pends(d, w, R)
    <3>1. CASE Held(w)
      <4>1. h.p.refs # 1
        BY <1>2, <3>1 DEF Counted, Holds
      <4>2. SameP(d.p, u.p) /\ d.b = u.b /\ d.c = u.c
        BY <2>6, <2>7, <3>1, <4>1
      <4> QED BY <2>4, <2>7, <2>10, <4>2, FramedPends DEF SameB
    <3>2. CASE ~Held(w)
      BY <2>7, <3>2 DEF Pends
    <3> QED BY <3>1, <3>2
  <2> QED BY <1>0, <1>2, <2>1, <2>6, <2>7, <2>8, <2>9, <2>10 DEF d
<1> QED BY <1>1, <1>2

\* What may be asked of a stream when it starts a step: the count of its
\* references, and the work that holds them.
Stands(h, w, rel, sub) ==
  /\ Counted(h, rel, sub) /\ rel \in BOOLEAN /\ sub \in BOOLEAN
  /\ Held(w) <=> rel \/ sub
  /\ Held(w) \/ w = NoWork

\* In that state host work is in flight for the session when it is under way.
LEMMA StandsInFlight ==
  ASSUME NEW h, NEW w, NEW rel, NEW sub, Stands(h, w, rel, sub)
  PROVE  Shape(h) /\ (h.b.inflight # 0 <=> Held(w))
BY DEF Stands, Counted, Holds

\* A stream that gives up what it routed recovers, now or later.
LEMMA FailedGood ==
  ASSUME NEW h, NEW w, NEW N, NEW R, NEW rel, NEW sub, Stands(h, w, rel, sub),
         Sound(h, w, N, R), Pends(h, w, R), Deferral(h.b, w) \/ h.b.open
  PROVE  Good(Failed(h), w, N, R) /\ Kin(Failed(h), h)
<1> DEFINE d == Dropped(h, TRUE)
           g == BeginOrDefer(d)
<1>1. h.p.listed /\ h.p.started => h.c.stage = "RECOVER"
  BY DEF Pends, Current
<1>2. /\ Counted(d, rel, sub) /\ d.b.deferred = h.b.deferred
      /\ Sound(d, w, N, R) /\ Kin(d, h) /\ Pends(d, w, R)
  BY <1>1, DroppedSound DEF Stands
<1>3. Failed(h) = g
  BY DEF Failed
<1> HIDE DEF d
<1>4. Stands(d, w, rel, sub)
  BY <1>2 DEF Stands
<1>5. Shape(d) /\ (d.b.inflight # 0 <=> Held(w))
  BY <1>4, StandsInFlight
<1>6. Deferral(d.b, w) \/ d.b.open
  BY <1>2 DEF Deferral, Kin, SameB
<1>7. /\ Sound(g, w, N, R) /\ LostOK(g) /\ Deferral(g.b, w) /\ Kin(g, d)
      /\ Pends(d, w, R) => Pends(g, w, R)
  BY <1>2, <1>4, <1>5, <1>6, BeginOrDeferSound DEF Stands
<1>8. Kin(g, h)
  BY <1>2, <1>7, KinSteps
<1> QED BY <1>2, <1>3, <1>7, <1>8 DEF Good

\* A session that goes has nothing to answer for.
LEMMA GoneGood ==
  ASSUME NEW h, NEW w, NEW N, NEW R, Shape(h), Sound(h, w, N, R), Pends(h, w, R)
  PROVE  LET g == [h EXCEPT !.b.live = FALSE]
         IN Good(g, w, N, R) /\ g.b.period = h.b.period /\ g.c.ledger = h.c.ledger
<1> DEFINE g == [h EXCEPT !.b.live = FALSE]
<1>1. /\ g.c = h.c /\ g.p = h.p /\ ~g.b.live
      /\ g.b.period = h.b.period /\ g.b.last = h.b.last /\ g.b.sub = h.b.sub
      /\ g.b.open = h.b.open /\ g.b.executed = h.b.executed /\ g.b.committed = h.b.committed
      /\ g.b.chunks = h.b.chunks /\ g.b.units = h.b.units
  BY DEF Shape, NewBridge
<1> HIDE DEF g
<1>2. Sound(g, w, N, R)
  BY <1>1 DEF Sound, Settled, Occurs, Agrees
<1>3. Pends(g, w, R)
  BY <1>1 DEF Pends, Current, Routed
<1>4. LostOK(g) /\ Deferral(g.b, w)
  BY <1>1 DEF LostOK, Deferral
<1> QED BY <1>1, <1>2, <1>3, <1>4 DEF Good, g

\* A session that is removed gives up its submission, and is over.
LEMMA RemovedGood ==
  ASSUME NEW h, NEW w, NEW N, NEW R, NEW rel, NEW sub, Stands(h, w, rel, sub),
         Sound(h, w, N, R), Pends(h, w, R), NEW recover \in BOOLEAN
  PROVE  LET g == [Dropped(h, recover) EXCEPT !.b.live = FALSE]
         IN /\ Good(g, w, N, R) /\ g.b.period = h.b.period
            /\ g.c.ledger = <<>> => h.c.ledger = <<>>
<1> DEFINE d == Dropped(h, recover)
<1>1. h.p.listed /\ h.p.started => h.c.stage = "RECOVER"
  BY DEF Pends, Current
<1>2. Counted(d, rel, sub) /\ Sound(d, w, N, R) /\ Kin(d, h) /\ Pends(d, w, R)
  BY <1>1, DroppedSound DEF Stands
<1> HIDE DEF d
<1>3. Shape(d)
  BY <1>2 DEF Counted
<1> QED BY <1>2, <1>3, GoneGood DEF d, Kin, SameB

-----------------------------------------------------------------------------
(* Steps of the whole. *)

\* A ledger that is forgotten has been run, or its session is given up.
Remembered ==
  \A t \in Streams :
    Live(t) /\ host'[t].b.live /\ host'[t].c.ledger = <<>> =>
      AllCommitted(host[t].c.ledger) \/ SessionTeardown(t, FALSE)

\* The same of stream s when it becomes h.
Forgets(s, h) ==
  Live(s) /\ h.c.ledger = <<>> /\ h.b.live =>
    AllCommitted(host[s].c.ledger) \/ SessionTeardown(s, FALSE)

\* Of an empty ledger everything has been run.
LEMMA NothingOwed == \A L : L = <<>> => AllCommitted(L)
BY DEF AllCommitted

\* A stream stands as the counts say.
LEMMA AllStand ==
  ASSUME CountInv, NEW s \in Streams
  PROVE  Stands(host[s], WorkOf(s), Released(s), Submitted(s))
<1>1. Counted(host[s], Released(s), Submitted(s))
  BY DEF CountInv
<1>2. Released(s) \in BOOLEAN /\ Submitted(s) \in BOOLEAN
  BY DEF Released, Submitted
<1>3. /\ Held(WorkOf(s)) <=> Released(s) \/ Submitted(s)
      /\ Held(WorkOf(s)) \/ WorkOf(s) = NoWork
  <2>1. CASE work = NoWork
    BY <2>1 DEF WorkOf, Held, NoWork, Released, Submitted
  <2>2. CASE work # NoWork
    <3>1. work.op \in {"release", "replay", "realize", "submit", "skip"}
      BY <2>2 DEF CountInv, WorkOK
    <3>2. CASE work.s = s
      BY <2>2, <3>1, <3>2 DEF WorkOf, Held, Released, Submitted
    <3>3. CASE work.s # s
      BY <2>2, <3>3, Idle DEF WorkOf, Released, Submitted
    <3> QED BY <3>2, <3>3
  <2> QED BY <2>1, <2>2
<1> QED BY <1>1, <1>2, <1>3 DEF Stands

\* With no work under way.
LEMMA IdleStands ==
  ASSUME CountInv, SafeInv, work = NoWork, NEW s \in Streams
  PROVE  /\ Stands(host[s], NoWork, FALSE, FALSE) /\ Shape(host[s])
         /\ Counted(host[s], FALSE, FALSE) /\ WorkOf(s) = NoWork
         /\ Good(host[s], NoWork, periods, ran) /\ Ripe(host[s], periods, ran)
<1>1. WorkOf(s) = NoWork
  BY DEF WorkOf
<1>2. Counted(host[s], FALSE, FALSE) /\ Shape(host[s])
  BY IdleCounted
<1>3. Stands(host[s], NoWork, FALSE, FALSE)
  BY <1>2, Idle DEF Stands
<1>4. Good(host[s], NoWork, periods, ran)
  BY <1>1 DEF SafeInv
<1>5. Ripe(host[s], periods, ran)
  BY <1>4, SoundIsRipe DEF Good
<1> QED BY <1>1, <1>2, <1>3, <1>4, <1>5

\* The stream that the work is about.
LEMMA WorkStands ==
  ASSUME CountInv, SafeInv, work # NoWork
  PROVE  /\ work.s \in Streams /\ WorkOf(work.s) = work /\ Held(work)
         /\ \A t \in Streams : t # work.s => WorkOf(t) = NoWork
         /\ Stands(host[work.s], work, Released(work.s), Submitted(work.s))
         /\ Shape(host[work.s]) /\ Good(host[work.s], work, periods, ran)
<1>1. work.s \in Streams /\ work.op \in {"release", "replay", "realize", "submit", "skip"}
  BY DEF CountInv, WorkOK
<1>2. WorkOf(work.s) = work /\ \A t \in Streams : t # work.s => WorkOf(t) = NoWork
  BY DEF WorkOf
<1>3. Held(work)
  BY <1>1 DEF Held
<1>4. Stands(host[work.s], work, Released(work.s), Submitted(work.s))
  <2> PICK s \in Streams : work.s = s
    BY <1>1
  <2>1. Stands(host[s], WorkOf(s), Released(s), Submitted(s))
    BY AllStand
  <2> QED BY <1>2, <2>1
<1>5. Good(host[work.s], work, periods, ran)
  BY <1>1, <1>2 DEF SafeInv
<1> QED BY <1>1, <1>2, <1>3, <1>4, <1>5 DEF Stands, Counted

\* Without a change of the work a stream keeps its own.
LEMMA SameWork ==
  ASSUME UNCHANGED work
  PROVE  \A t \in Streams : WorkOf(t)' = WorkOf(t)
BY DEF WorkOf, NoWork

\* Any number of streams change.
LEMMA StreamsSafe ==
  ASSUME SafeInv, UNCHANGED <<ran, periods>>,
         \A t \in Streams :
           /\ Good(host'[t], WorkOf(t)', periods, ran)
           /\ host'[t].b.period \in {0, host[t].b.period}
           /\ host'[t].c.ledger = <<>> => host[t].c.ledger = <<>>
  PROVE  SafeInv' /\ Remembered
<1>1. ASSUME NEW s \in Streams, NEW t \in Streams, s # t,
             host'[s].b.period = host'[t].b.period
      PROVE  host'[s].b.period = 0
  <2>1. host'[s].b.period \in {0, host[s].b.period} /\ host'[t].b.period \in {0, host[t].b.period}
    OBVIOUS
  <2> QED BY <1>1, <2>1 DEF SafeInv
<1>2. Remembered
  BY NothingOwed DEF Remembered
<1> QED BY <1>1, <1>2 DEF SafeInv

\* One stream changes, and has the work w.
LEMMA OneSafe ==
  ASSUME SafeInv, CountInv, UNCHANGED <<ran, periods>>, NEW s \in Streams, NEW h, Becomes(s, h),
         NEW w, WorkOf(s)' = w, \A t \in Streams : t # s => WorkOf(t)' = WorkOf(t),
         Good(h, w, periods, ran), h.b.period \in {0, host[s].b.period}, Forgets(s, h)
  PROVE  SafeInv' /\ Remembered
<1>1. \A t \in Streams : host'[t] = IF t = s THEN h ELSE host[t]
  BY DEF Becomes, CountInv
<1>2. \A t \in Streams : Good(host'[t], WorkOf(t)', periods, ran)
  BY <1>1 DEF SafeInv
<1>3. ASSUME NEW q \in Streams, NEW t \in Streams, q # t,
             host'[q].b.period = host'[t].b.period
      PROVE  host'[q].b.period = 0
  <2>1. host'[q].b.period \in {0, host[q].b.period} /\ host'[t].b.period \in {0, host[t].b.period}
    BY <1>1
  <2> QED BY <1>3, <2>1 DEF SafeInv
<1>4. Remembered
  <2> SUFFICES ASSUME NEW t \in Streams, Live(t), host'[t].b.live, host'[t].c.ledger = <<>>
               PROVE  AllCommitted(host[t].c.ledger) \/ SessionTeardown(t, FALSE)
    BY DEF Remembered
  <2>1. CASE t = s
    BY <1>1, <2>1 DEF Forgets
  <2>2. CASE t # s
    BY <1>1, <2>2, NothingOwed
  <2> QED BY <2>1, <2>2
<1> QED BY <1>2, <1>3, <1>4 DEF SafeInv

\* One stream changes while no work is under way.
LEMMA IdleSafe ==
  ASSUME SafeInv, CountInv, work = NoWork, UNCHANGED <<work, ran, periods>>,
         NEW s \in Streams, NEW h, Becomes(s, h), Good(h, NoWork, periods, ran),
         h.b.period \in {0, host[s].b.period}, Forgets(s, h)
  PROVE  SafeInv' /\ Remembered
<1>1. WorkOf(s)' = NoWork /\ \A t \in Streams : WorkOf(t)' = WorkOf(t)
  <2>1. WorkOf(s) = NoWork
    BY DEF WorkOf
  <2> QED BY <2>1, SameWork
<1> QED BY <1>1, OneSafe

\* A stream only recovers, or not.
LEMMA KinSafe ==
  ASSUME NEW s \in Streams, NEW h, Kin(h, host[s])
  PROVE  h.b.period \in {0, host[s].b.period} /\ Forgets(s, h)
BY NothingOwed DEF Kin, SameB, Forgets

-----------------------------------------------------------------------------
(* Control packets. *)

\* A recovery that begins leaves nothing lost.
LEMMA RecoverGood ==
  ASSUME NEW h, NEW N, NEW R, Shape(h), Ripe(h, N, R), Pends(h, NoWork, R),
         Deferral(h.b, NoWork)
  PROVE  Good(BeganRecovery(h), NoWork, N, R) /\ Kin(BeganRecovery(h), h)
<1>1. /\ Sound(BeganRecovery(h), NoWork, N, R) /\ Kin(BeganRecovery(h), h)
      /\ BeganRecovery(h).b = h.b /\ BeganRecovery(h).c.stage = "RECOVER"
      /\ Pends(BeganRecovery(h), NoWork, R)
  BY BeganSound
<1>2. LostOK(BeganRecovery(h))
  BY <1>1 DEF LostOK, Learned
<1> QED BY <1>1, <1>2 DEF Good

\* A session with no ledger and no period.
LEMMA EmptyGood ==
  ASSUME NEW h, NEW N \in Nat, NEW R, R \subseteq 1 .. N,
         h.c.ledger = <<>>, h.c.stage \in {"LEGACY", "DETECT"}, ~h.c.open, h.c.last = h.c.cur,
         h.b.period = 0, h.b.sub = 0, h.b.last \in Nat, h.b.last <= N,
         ~h.b.open, h.b.executed = FALSE, h.b.committed = FALSE, ~h.b.deferred, ~h.p.listed
  PROVE  Good(h, NoWork, N, R)
<1>1. h.c.ledger \in Ledgers /\ DOMAIN h.c.ledger = {}
  BY DEF Ledgers
<1>2. LedgerOK(h.c.ledger, NoWork)
  BY <1>1, Idle DEF LedgerOK
<1>3. Settled(h.c.ledger, h.b) /\ Occurs(h.b, h.c.ledger, N, R)
  BY <1>1 DEF Settled, Occurs
<1>4. Agrees(h.b, h.c)
  BY DEF Agrees, Learned
<1>5. Pends(h, NoWork, R) /\ LostOK(h) /\ Deferral(h.b, NoWork)
  BY Idle DEF Pends, LostOK, Deferral
<1> QED BY <1>1, <1>2, <1>3, <1>4, <1>5 DEF Good, Sound

\* A Learned session with nothing pending has run all of its ledger.
LEMMA QuietSettled ==
  ASSUME NEW h, NEW N, NEW R, Good(h, NoWork, N, R), h.b.live, ~h.p.listed,
         h.c.stage \in Learned
  PROVE  AllCommitted(h.c.ledger)
<1> SUFFICES ASSUME NEW i \in DOMAIN h.c.ledger, h.c.ledger[i].state # "COMMITTED"
             PROVE  FALSE
  BY DEF AllCommitted
<1>1. h.b.open /\ h.c.ledger[i].sub = h.b.sub /\ ~h.b.committed
  BY DEF Good, Sound, Settled
<1>2. h.b.sub # 0
  BY <1>1 DEF Good, Sound, LedgerOK
<1>3. h.b.deferred
  BY <1>1, <1>2 DEF Good, LostOK
<1> QED BY <1>3, Idle DEF Good, Deferral

\* A packet that needs quiet finds nothing listed.
LEMMA QuietStands ==
  ASSUME CountInv, SafeInv, NEW s \in Streams, Quiet(s)
  PROVE  work = NoWork /\ Live(s) /\ ~host[s].p.listed
<1>1. work = NoWork /\ Live(s) /\ host[s].b.pending = 0
  BY DEF Quiet, Control, Live
<1>2. Counted(host[s], FALSE, FALSE)
  BY <1>1, IdleStands
<1> QED BY <1>1, <1>2 DEF Counted, Holds

\* The first packet of a stream opens a session that owes nothing.
LEMMA OpenSafe ==
  ASSUME CountInv, SafeInv, NEW s \in Streams, Open(s)
  PROVE  SafeInv' /\ Remembered
<1> DEFINE h == [b |-> NewBridge, c |-> FreshCore, p |-> NoPending]
<1>1. work = NoWork /\ Becomes(s, h) /\ UNCHANGED <<work, ran, periods>> /\ ~Live(s)
  BY DEF Open, Live
<1>2. Good(h, NoWork, periods, ran)
  <2>1. /\ h.c.ledger = <<>> /\ h.c.stage = "DETECT" /\ h.c.open = FALSE
        /\ h.c.last = 0 /\ h.c.cur = 0
        /\ h.b.period = 0 /\ h.b.sub = 0 /\ h.b.last = 0 /\ h.b.open = FALSE
        /\ h.b.executed = FALSE /\ h.b.committed = FALSE
        /\ h.b.deferred = FALSE /\ h.p.listed = FALSE
    BY DEF NewBridge, FreshCore, LegacyCore, NoPending
  <2>2. periods \in Nat /\ ran \subseteq 1 .. periods
    BY DEF SafeInv
  <2> HIDE DEF h
  <2>3. /\ h.c.stage \in {"LEGACY", "DETECT"} /\ ~h.c.open /\ h.c.last = h.c.cur
        /\ h.b.last \in Nat /\ h.b.last <= periods /\ ~h.b.open /\ ~h.b.deferred
        /\ ~h.p.listed
    BY <2>1, <2>2
  <2> QED BY <2>1, <2>2, <2>3, EmptyGood, Zenon
<1>3. h.b.period = 0 /\ Forgets(s, h)
  BY <1>1 DEF Forgets, NewBridge
<1> QED BY <1>1, <1>2, <1>3, IdleSafe

\* Capabilities again, and the signature that completes a repetition: nothing
\* is owed.
LEMMA RenegotiateSafe ==
  ASSUME CountInv, SafeInv, NEW s \in Streams, Renegotiate(s)
  PROVE  SafeInv' /\ Remembered
<1> DEFINE h == [host[s] EXCEPT !.c = FreshCore]
<1>1. work = NoWork /\ ~host[s].p.listed
  BY QuietStands DEF Renegotiate
<1>2. /\ Becomes(s, h) /\ UNCHANGED <<work, ran, periods>>
      /\ host[s].c.stage = "LEGACY" /\ ~host[s].b.open
  BY DEF Renegotiate
<1>3. Shape(host[s]) /\ Good(host[s], NoWork, periods, ran)
  BY <1>1, IdleStands
<1>4. /\ h.b = host[s].b /\ h.p = host[s].p /\ h.c.stage = "DETECT" /\ ~h.c.open
      /\ h.c.ledger = <<>> /\ h.c.last = h.c.cur
  BY <1>3 DEF Shape, FreshCore, LegacyCore
<1>5. host[s].c.ledger = <<>>
  BY <1>2, <1>3 DEF Good, Sound, Agrees
<1> HIDE DEF h
<1>6. Agrees(h.b, h.c)
  BY <1>2, <1>4 DEF Agrees, Learned
<1>7. Good(h, NoWork, periods, ran)
  BY <1>1, <1>2, <1>3, <1>4, <1>5, <1>6, Idle DEF Good, Sound, Pends, LostOK
<1>8. Forgets(s, h) /\ h.b.period = host[s].b.period
  BY <1>4, <1>5, NothingOwed DEF Forgets
<1> QED BY <1>1, <1>2, <1>7, <1>8, IdleSafe

\* A session that begins to learn owes nothing yet.
LEMMA EnterLearnSafe ==
  ASSUME CountInv, SafeInv, NEW s \in Streams, EnterLearn(s)
  PROVE  SafeInv' /\ Remembered
<1> DEFINE h == [host[s] EXCEPT !.c.stage = "LEARN"]
<1>1. work = NoWork /\ ~host[s].p.listed
  BY QuietStands DEF EnterLearn
<1>2. Becomes(s, h) /\ UNCHANGED <<work, ran, periods>> /\ host[s].c.stage = "DETECT"
  BY DEF EnterLearn
<1>3. Shape(host[s]) /\ Good(host[s], NoWork, periods, ran)
  BY <1>1, IdleStands
<1>4. /\ h.b = host[s].b /\ h.p = host[s].p /\ h.c.stage = "LEARN"
      /\ h.c.open = host[s].c.open /\ h.c.ledger = host[s].c.ledger
      /\ h.c.last = host[s].c.last /\ h.c.cur = host[s].c.cur
  BY <1>3 DEF Shape, LegacyCore
<1>5. host[s].c.ledger = <<>> /\ ~host[s].b.open /\ ~host[s].c.open
  BY <1>2, <1>3 DEF Good, Sound, Agrees
<1> HIDE DEF h
<1>6. Agrees(h.b, h.c)
  BY <1>3, <1>4, <1>5 DEF Good, Sound, Agrees, Learned
<1>7. Good(h, NoWork, periods, ran)
  BY <1>1, <1>3, <1>4, <1>5, <1>6, Idle DEF Good, Sound, Pends, LostOK
<1>8. Forgets(s, h) /\ h.b.period = host[s].b.period
  BY <1>4, <1>5, NothingOwed DEF Forgets
<1> QED BY <1>1, <1>2, <1>7, <1>8, IdleSafe

\* Reset, a session without a pending submission has no ledger and no period.
LEMMA ResetGood ==
  ASSUME SafeInv, NEW h, NEW b, h.b = ResetBridge(b), h.c \in {FreshCore, LegacyCore},
         ~h.p.listed
  PROVE  Good(h, NoWork, periods, ran) /\ h.b.period = 0
<1>1. /\ h.c.ledger = <<>> /\ h.c.stage \in {"LEGACY", "DETECT"} /\ h.c.open = FALSE
      /\ h.c.last = 0 /\ h.c.cur = 0
  <2>1. CASE h.c = FreshCore
    BY <2>1 DEF FreshCore, LegacyCore
  <2>2. CASE h.c = LegacyCore
    BY <2>2 DEF LegacyCore
  <2> QED BY <2>1, <2>2
<1>2. /\ h.b.period = 0 /\ h.b.sub = 0 /\ h.b.last = 0 /\ h.b.open = FALSE
      /\ h.b.executed = FALSE /\ h.b.committed = FALSE /\ h.b.deferred = FALSE
  BY DEF ResetBridge, NewBridge
<1>3. periods \in Nat /\ ran \subseteq 1 .. periods
  BY DEF SafeInv
<1>4. /\ ~h.c.open /\ h.c.last = h.c.cur
      /\ h.b.last \in Nat /\ h.b.last <= periods /\ ~h.b.open /\ ~h.b.deferred
  BY <1>1, <1>2, <1>3
<1> QED BY <1>1, <1>2, <1>3, <1>4, EmptyGood, Zenon

\* A reset forgets only what has been run.
LEMMA SessionResetSafe ==
  ASSUME CountInv, SafeInv, NEW s \in Streams, SessionReset(s)
  PROVE  SafeInv' /\ Remembered
<1> DEFINE h == [host[s] EXCEPT !.c = FreshCore, !.b = ResetBridge(@)]
<1>1. work = NoWork /\ Live(s) /\ ~host[s].p.listed
  BY QuietStands DEF SessionReset
<1>2. Becomes(s, h) /\ UNCHANGED <<work, ran, periods>> /\ host[s].c.stage # "RECOVER"
  BY DEF SessionReset
<1>3. Shape(host[s]) /\ Good(host[s], NoWork, periods, ran)
  BY <1>1, IdleStands
<1>4. h.b = ResetBridge(host[s].b) /\ h.c = FreshCore /\ h.p = host[s].p
  BY <1>3 DEF Shape
<1> HIDE DEF h
<1>5. Good(h, NoWork, periods, ran) /\ h.b.period = 0
  BY <1>1, <1>4, ResetGood
<1>6. AllCommitted(host[s].c.ledger)
  <2>1. CASE host[s].c.stage \in Learned
    BY <1>1, <1>3, <2>1, QuietSettled DEF Live
  <2>2. CASE host[s].c.stage \notin Learned
    <3>1. host[s].c.stage \in {"LEGACY", "DETECT"}
      BY <1>2, <1>3, <2>2 DEF Good, Sound, Agrees
    <3>2. host[s].c.ledger = <<>>
      BY <1>3, <3>1 DEF Good, Sound, Agrees
    <3> QED BY <3>2, NothingOwed
  <2> QED BY <2>1, <2>2
<1> QED BY <1>1, <1>2, <1>5, <1>6, IdleSafe DEF Forgets

\* A later period is still to run.
LEMMA Grow ==
  ASSUME NEW h, NEW w, NEW N \in Nat, NEW R, Good(h, w, N, R)
  PROVE  Good(h, w, N + 1, R)
<1>1. Occurs(h.b, h.c.ledger, N + 1, R)
  BY DEF Good, Sound, Occurs
<1> QED BY <1>1 DEF Good, Sound

\* A period begins: nothing of an earlier one is still to run.
LEMMA PeriodBeginSafe ==
  ASSUME CountInv, SafeInv, NEW s \in Streams, NEW single, PeriodBegin(s, single)
  PROVE  SafeInv' /\ Remembered
<1> DEFINE N == periods
           g == host[s]
           h == [g EXCEPT
                   !.c = [@ EXCEPT !.open = TRUE, !.cur = periods + 1, !.last = periods + 1],
                   !.b = [@ EXCEPT
                            !.period = periods + 1, !.single = single, !.open = TRUE,
                            !.sub = 0, !.declared = 0, !.chunks = 0, !.units = FALSE,
                            !.executed = FALSE, !.committed = FALSE, !.profiled = FALSE,
                            !.deferred = FALSE]]
<1>1. work = NoWork /\ ~g.p.listed
  BY QuietStands DEF PeriodBegin
<1>2. /\ Becomes(s, h) /\ UNCHANGED <<work, ran>> /\ periods' = N + 1
      /\ g.c.stage \in Learned /\ ~g.b.open
  BY DEF PeriodBegin
<1>3. Shape(g) /\ Good(g, NoWork, N, ran)
  BY <1>1, IdleStands
<1>4. N \in Nat /\ ran \subseteq 1 .. N
  BY DEF SafeInv
<1>5. /\ h.p = g.p /\ h.c.stage = g.c.stage /\ h.c.ledger = g.c.ledger /\ h.c.open = TRUE
      /\ h.c.cur = N + 1 /\ h.c.last = N + 1
      /\ h.b.period = N + 1 /\ h.b.open = TRUE /\ h.b.sub = 0 /\ h.b.last = g.b.last
      /\ h.b.executed = FALSE /\ h.b.committed = FALSE /\ h.b.deferred = FALSE
  BY <1>3 DEF Shape, NewBridge, LegacyCore
<1> HIDE DEF h, g
<1>6. \A i \in DOMAIN g.c.ledger : g.c.ledger[i].state = "COMMITTED"
  BY <1>2, <1>3 DEF Good, Sound, Settled
<1>7. Settled(h.c.ledger, h.b)
  BY <1>3, <1>5, <1>6 DEF Good, Sound, Settled
<1>8. Occurs(h.b, h.c.ledger, N + 1, ran)
  BY <1>3, <1>4, <1>5 DEF Good, Sound, Occurs
<1>9. Agrees(h.b, h.c)
  BY <1>2, <1>5 DEF Agrees, Learned
<1>10. Good(h, NoWork, N + 1, ran)
  BY <1>1, <1>3, <1>5, <1>7, <1>8, <1>9, Idle DEF Good, Sound, Pends, LostOK, Deferral
<1>11. \A t \in Streams : host'[t] = IF t = s THEN h ELSE host[t]
  BY <1>2 DEF Becomes, CountInv
<1>12. \A t \in Streams : WorkOf(t)' = NoWork /\ WorkOf(t) = NoWork
  BY <1>1, <1>2 DEF WorkOf, NoWork
<1>13. ASSUME NEW t \in Streams PROVE Good(host'[t], WorkOf(t)', periods', ran')
  <2>1. CASE t = s
    BY <1>2, <1>10, <1>11, <1>12, <2>1
  <2>2. CASE t # s
    <3>1. Good(host[t], NoWork, N, ran)
      BY <1>1, IdleStands
    <3>2. Good(host[t], NoWork, N + 1, ran)
      BY <1>4, <3>1, Grow
    <3> QED BY <1>2, <1>11, <1>12, <2>2, <3>2
  <2> QED BY <2>1, <2>2
<1>14. \A t \in Streams : host[t].b.period <= N
  BY <1>1, IdleStands DEF Good, Sound, Occurs
<1>15. ASSUME NEW q \in Streams, NEW t \in Streams, q # t,
              host'[q].b.period = host'[t].b.period
       PROVE  host'[q].b.period = 0
  <2>1. host[q].b.period # N + 1 /\ host[t].b.period # N + 1
    <3>1. \A x \in Nat : x <= N => x # N + 1
      BY <1>4
    <3>2. host[q].b.period \in Nat /\ host[t].b.period \in Nat
      BY <1>1, IdleStands DEF Good, Sound, Occurs
    <3> QED BY <1>14, <3>1, <3>2
  <2>2. q # s /\ t # s
    BY <1>5, <1>11, <1>15, <2>1
  <2> QED BY <1>11, <1>15, <2>2 DEF SafeInv
<1>16. Remembered
  <2> SUFFICES ASSUME NEW t \in Streams, host'[t].c.ledger = <<>>
               PROVE  AllCommitted(host[t].c.ledger)
    BY DEF Remembered
  <2>1. host[t].c.ledger = <<>>
    BY <1>5, <1>11 DEF g
  <2> QED BY <2>1, NothingOwed
<1>17. periods' \in Nat /\ ran' \subseteq 1 .. periods'
  BY <1>2, <1>4
<1> QED BY <1>13, <1>15, <1>16, <1>17 DEF SafeInv

\* A profile that does not fit recovers.
LEMMA ProfileSafe ==
  ASSUME CountInv, SafeInv, NEW s \in Streams, NEW fits \in BOOLEAN, ProfilePeriod(s, fits)
  PROVE  SafeInv' /\ Remembered
<1> DEFINE g == host[s]
           closed == [g EXCEPT !.c.open = FALSE]
           h == [closed EXCEPT !.b.open = FALSE, !.b.profiled = TRUE]
           k == BeganRecovery(Dropped(closed, TRUE))
<1>1. work = NoWork /\ ~g.p.listed
  BY QuietStands DEF ProfilePeriod
<1>2. /\ Becomes(s, IF fits THEN h ELSE k) /\ UNCHANGED <<work, ran, periods>>
      /\ g.b.committed
  BY DEF ProfilePeriod
<1>3. Shape(g) /\ Good(g, NoWork, periods, ran)
  BY <1>1, IdleStands
<1>4. /\ closed.b = g.b /\ closed.p = g.p /\ Shape(closed)
      /\ closed.c.stage = g.c.stage /\ closed.c.ledger = g.c.ledger
      /\ closed.c.cur = g.c.cur /\ closed.c.last = g.c.last /\ closed.c.open = FALSE
  BY <1>3 DEF Shape, LegacyCore
<1>5. /\ h.c = closed.c /\ h.p = closed.p /\ h.b.open = FALSE
      /\ h.b.live = g.b.live /\ h.b.sub = g.b.sub /\ h.b.committed = g.b.committed
      /\ h.b.period = g.b.period /\ h.b.last = g.b.last /\ h.b.executed = g.b.executed
      /\ h.b.deferred = g.b.deferred
  BY <1>4 DEF Shape, NewBridge
<1> HIDE DEF h, closed
<1>6. Good(h, NoWork, periods, ran)
  <2>1. Sound(h, NoWork, periods, ran)
    BY <1>2, <1>3, <1>4, <1>5 DEF Good, Sound, Settled, Occurs, Agrees
  <2>2. Pends(h, NoWork, ran) /\ LostOK(h) /\ Deferral(h.b, NoWork)
    BY <1>1, <1>3, <1>4, <1>5, Idle DEF Good, Pends, LostOK, Deferral
  <2> QED BY <2>1, <2>2 DEF Good
<1>7. Forgets(s, h)
  BY <1>4, <1>5, NothingOwed DEF Forgets, g
<1>8. Dropped(closed, TRUE) = closed
  BY <1>1, <1>4 DEF Dropped
<1>9. Good(k, NoWork, periods, ran) /\ Kin(k, closed)
  <2>1. Ripe(closed, periods, ran)
    BY <1>3, <1>4 DEF Good, Sound, Agrees, Ripe
  <2>2. Pends(closed, NoWork, ran) /\ Deferral(closed.b, NoWork)
    BY <1>1, <1>3, <1>4, Idle DEF Good, Pends, Deferral
  <2> QED BY <1>4, <1>8, <2>1, <2>2, RecoverGood
<1> HIDE DEF k
<1>10. k.b.period = g.b.period /\ Forgets(s, k)
  BY <1>4, <1>9, NothingOwed DEF Kin, SameB, Forgets, g
<1>11. CASE fits
  BY <1>1, <1>2, <1>5, <1>6, <1>7, <1>11, IdleSafe DEF g
<1>12. CASE ~fits
  BY <1>1, <1>2, <1>9, <1>10, <1>12, IdleSafe DEF g
<1> QED BY <1>11, <1>12

\* The next stage is reached, or a Fast occurrence forgets what it has run, or
\* an occurrence that did not match is recovered.
LEMMA StageCompleteSafe ==
  ASSUME CountInv, SafeInv, NEW s \in Streams, NEW ok \in BOOLEAN, StageComplete(s, ok)
  PROVE  SafeInv' /\ Remembered
<1> DEFINE g == host[s]
           h == [g EXCEPT !.b.profiled = FALSE]
           m == [h EXCEPT !.c.stage = "MATCH"]
           f == [h EXCEPT !.c.stage = "FAST"]
           e == [h EXCEPT !.c.ledger = <<>>]
           Safe(x) == /\ Good(x, NoWork, periods, ran) /\ x.b.period = g.b.period
                      /\ Forgets(s, x)
<1>1. work = NoWork /\ ~g.p.listed
  BY QuietStands DEF StageComplete
<1>2. /\ UNCHANGED <<work, ran, periods>> /\ g.c.stage \in Learned
      /\ ~g.b.open /\ g.b.committed
  BY DEF StageComplete, Occurrence
<1>3. Shape(g) /\ Good(g, NoWork, periods, ran)
  BY <1>1, IdleStands
<1>4. /\ h.c = g.c /\ h.p = g.p /\ Shape(h) /\ SameB(h.b, g.b) /\ h.b.deferred = g.b.deferred
  BY <1>3 DEF Shape, NewBridge, SameB
<1>5. \/ Becomes(s, BeganRecovery(h))
      \/ Becomes(s, m) \/ Becomes(s, f)
      \/ Becomes(s, e) /\ AllCommitted(g.c.ledger)
  <2>1. Becomes(s, IF ~ok \/ (h.c.stage = "FAST" /\ ~AllCommitted(h.c.ledger))
                   THEN BeganRecovery(h)
                   ELSE CASE h.c.stage = "LEARN" -> m
                          [] h.c.stage = "MATCH" -> f
                          [] h.c.stage = "FAST"  -> e)
    BY DEF StageComplete
  <2> HIDE DEF h, m, f, e
  <2>2. h.c.stage \in {"LEARN", "MATCH", "FAST"}
    BY <1>2, <1>4 DEF Learned
  <2> QED BY <1>4, <2>1, <2>2
<1> HIDE DEF h
<1>6. Good(h, NoWork, periods, ran)
  <2>1. Sound(h, NoWork, periods, ran)
    BY <1>3, <1>4, Framed DEF Good, SameC
  <2> QED BY <1>1, <1>3, <1>4, <2>1, Idle DEF Good, Pends, LostOK, Deferral, SameB
<1>7. Safe(BeganRecovery(h))
  <2>1. Ripe(h, periods, ran)
    BY <1>6, SoundIsRipe DEF Good
  <2>2. Good(BeganRecovery(h), NoWork, periods, ran) /\ Kin(BeganRecovery(h), h)
    BY <1>4, <1>6, <2>1, RecoverGood DEF Good
  <2>3. BeganRecovery(h).c.ledger = <<>> => g.c.ledger = <<>>
    BY <1>4, <2>2 DEF Kin
  <2>4. BeganRecovery(h).b.period = g.b.period
    BY <1>4, <2>2 DEF Kin, SameB
  <2> QED BY <2>2, <2>3, <2>4, NothingOwed DEF Forgets
<1>8. ASSUME NEW x, x.b = h.b, x.p = h.p, x.c.stage \in Learned,
             x.c.open = h.c.open, x.c.cur = h.c.cur, x.c.last = h.c.last,
             x.c.ledger = <<>> \/ x.c.ledger = h.c.ledger
      PROVE  Good(x, NoWork, periods, ran) /\ x.b.period = g.b.period
  <2>1. ~h.b.open /\ h.b.committed
    BY <1>2, <1>4 DEF SameB
  <2>2. x.c.ledger \in Ledgers /\ LedgerOK(x.c.ledger, NoWork) /\ Settled(x.c.ledger, x.b)
    <3>1. CASE x.c.ledger = h.c.ledger
      BY <1>6, <1>8, <3>1 DEF Good, Sound
    <3>2. CASE x.c.ledger = <<>>
      <4>1. x.c.ledger \in Ledgers /\ DOMAIN x.c.ledger = {}
        BY <3>2 DEF Ledgers
      <4> QED BY <4>1, Idle DEF LedgerOK, Settled
    <3> QED BY <1>8, <3>1, <3>2
  <2>3. Occurs(x.b, x.c.ledger, periods, ran)
    BY <1>6, <1>8, <2>1 DEF Good, Sound, Occurs
  <2>4. Agrees(x.b, x.c)
    BY <1>2, <1>4, <1>6, <1>8, <2>1 DEF Good, Sound, Agrees, Learned
  <2>5. Pends(x, NoWork, ran) /\ LostOK(x) /\ Deferral(x.b, NoWork)
    BY <1>1, <1>4, <1>6, <1>8, <2>1, Idle DEF Good, Pends, LostOK
  <2> QED BY <1>4, <1>8, <2>2, <2>3, <2>4, <2>5 DEF Good, Sound, SameB
<1>9. Safe(m) /\ Safe(f)
  <2>1. /\ m.b = h.b /\ m.p = h.p /\ m.c.stage \in Learned /\ m.c.ledger = h.c.ledger
        /\ m.c.open = h.c.open /\ m.c.cur = h.c.cur /\ m.c.last = h.c.last
    BY <1>4 DEF Shape, LegacyCore, Learned
  <2>2. /\ f.b = h.b /\ f.p = h.p /\ f.c.stage \in Learned /\ f.c.ledger = h.c.ledger
        /\ f.c.open = h.c.open /\ f.c.cur = h.c.cur /\ f.c.last = h.c.last
    BY <1>4 DEF Shape, LegacyCore, Learned
  <2> HIDE DEF m, f
  <2>3. \A x : x.c.ledger = h.c.ledger => Forgets(s, x)
    BY <1>4, NothingOwed DEF Forgets
  <2> QED BY <1>8, <2>1, <2>2, <2>3
<1>10. AllCommitted(g.c.ledger) => Safe(e)
  <2>1. /\ e.b = h.b /\ e.p = h.p /\ e.c.stage = h.c.stage /\ e.c.ledger = <<>>
        /\ e.c.open = h.c.open /\ e.c.cur = h.c.cur /\ e.c.last = h.c.last
    BY <1>4 DEF Shape, LegacyCore, Learned
  <2> HIDE DEF e
  <2>2. Good(e, NoWork, periods, ran) /\ e.b.period = g.b.period
    BY <1>2, <1>4, <1>8, <2>1
  <2> QED BY <2>2 DEF Forgets
<1>11. PICK x : Becomes(s, x) /\ Safe(x)
  <2> HIDE DEF m, f, e, Safe
  <2> QED BY <1>5, <1>7, <1>9, <1>10
<1> QED BY <1>1, <1>2, <1>11, IdleSafe

\* What is routed is given up, and the session recovers.
LEMMA GiveUpGood ==
  ASSUME NEW h, NEW N, NEW R, NEW recover \in BOOLEAN, Stands(h, NoWork, FALSE, FALSE),
         Sound(h, NoWork, N, R), Pends(h, NoWork, R), Deferral(h.b, NoWork)
  PROVE  LET d == Dropped(h, recover)
             k == BeganRecovery(d)
         IN /\ Good(k, NoWork, N, R) /\ Kin(k, h)
            /\ Shape(d) /\ Ripe(d, N, R) /\ ~d.p.listed /\ Deferral(d.b, NoWork) /\ Kin(d, h)
<1> DEFINE d == Dropped(h, recover)
<1>1. h.p.listed /\ h.p.started => h.c.stage = "RECOVER"
  BY DEF Pends, Current
<1>2. /\ Counted(d, FALSE, FALSE) /\ ~d.p.listed /\ d.b.deferred = h.b.deferred
      /\ Sound(d, NoWork, N, R) /\ Kin(d, h) /\ Pends(d, NoWork, R)
  BY <1>1, DroppedSound DEF Stands
<1> HIDE DEF d
<1>3. Shape(d) /\ Ripe(d, N, R) /\ Deferral(d.b, NoWork)
  BY <1>2, SoundIsRipe DEF Counted, Deferral, Kin, SameB
<1>4. Good(BeganRecovery(d), NoWork, N, R) /\ Kin(BeganRecovery(d), d)
  BY <1>2, <1>3, RecoverGood
<1>5. Kin(BeganRecovery(d), h)
  BY <1>2, <1>4, KinSteps
<1> QED BY <1>2, <1>3, <1>4, <1>5 DEF d

\* A mismatch may cross a routed submission.
LEMMA MismatchSafe ==
  ASSUME CountInv, SafeInv, NEW s \in Streams, Mismatch(s)
  PROVE  SafeInv' /\ Remembered
<1> DEFINE d == Dropped(host[s], FALSE)
           e == [d EXCEPT !.b.profiled = FALSE]
<1>1. work = NoWork /\ Becomes(s, BeganRecovery(e)) /\ UNCHANGED <<work, ran, periods>>
  BY DEF Mismatch, Control
<1>2. Stands(host[s], NoWork, FALSE, FALSE) /\ Good(host[s], NoWork, periods, ran)
  BY <1>1, IdleStands
<1>3. /\ Shape(d) /\ Ripe(d, periods, ran) /\ ~d.p.listed /\ Deferral(d.b, NoWork)
      /\ Kin(d, host[s])
  BY <1>2, GiveUpGood DEF Good
<1> HIDE DEF d
<1>4. e.c = d.c /\ e.p = d.p /\ Shape(e) /\ SameB(e.b, d.b) /\ e.b.deferred = d.b.deferred
  BY <1>3 DEF Shape, NewBridge, SameB
<1> HIDE DEF e
<1>5. Ripe(e, periods, ran) /\ Kin(e, d)
  BY <1>3, <1>4 DEF Ripe, Settled, Occurs, SameB, Kin
<1>6. Pends(e, NoWork, ran) /\ Deferral(e.b, NoWork)
  BY <1>3, <1>4, Idle DEF Pends, Deferral, SameB
<1>7. Good(BeganRecovery(e), NoWork, periods, ran) /\ Kin(BeganRecovery(e), e)
  BY <1>4, <1>5, <1>6, RecoverGood
<1>8. Kin(BeganRecovery(e), host[s])
  BY <1>3, <1>5, <1>7, KinSteps
<1> QED BY <1>1, <1>7, <1>8, KinSafe, IdleSafe

\* A recovery is complete when all it owed has run.
LEMMA RecoveryCompleteSafe ==
  ASSUME CountInv, SafeInv, NEW s \in Streams, RecoveryComplete(s)
  PROVE  SafeInv' /\ Remembered
<1> DEFINE g == host[s]
           c == [g.c EXCEPT !.stage = IF g.c.fallback THEN "LEGACY" ELSE "DETECT",
                            !.ledger = <<>>, !.open = FALSE]
           b == [NewBridge EXCEPT !.queue = g.b.queue, !.last = g.b.last]
           h == [g EXCEPT !.c = c, !.b = b]
<1>1. work = NoWork /\ ~g.p.listed
  BY QuietStands DEF RecoveryComplete
<1>2. Becomes(s, h) /\ UNCHANGED <<work, ran, periods>> /\ AllCommitted(g.c.ledger)
  BY DEF RecoveryComplete
<1>3. Shape(g) /\ Good(g, NoWork, periods, ran)
  BY <1>1, IdleStands
<1>4. /\ c.stage \in {"LEGACY", "DETECT"} /\ c.ledger = <<>> /\ ~c.open /\ c.last = c.cur
  <2>1. g.c.last = g.c.cur
    BY <1>3 DEF Good, Sound, Agrees
  <2> QED BY <1>3, <2>1 DEF Shape, LegacyCore
<1>5. /\ b.period = 0 /\ b.sub = 0 /\ b.last = g.b.last /\ ~b.open
      /\ b.executed = FALSE /\ b.committed = FALSE /\ ~b.deferred
  BY DEF NewBridge
<1>6. h.b = b /\ h.c = c /\ h.p = g.p
  BY <1>3 DEF Shape
<1>7. g.b.last \in Nat /\ g.b.last <= periods /\ periods \in Nat /\ ran \subseteq 1 .. periods
  BY <1>3 DEF Good, Sound, Occurs, SafeInv
<1> HIDE DEF b, c, h
<1>8. Good(h, NoWork, periods, ran)
  BY <1>1, <1>4, <1>5, <1>6, <1>7, EmptyGood, Zenon
<1>9. Forgets(s, h)
  BY <1>2 DEF Forgets, g
<1> QED BY <1>1, <1>2, <1>5, <1>6, <1>8, <1>9, IdleSafe

\* A teardown gives the session up.
LEMMA TeardownSafe ==
  ASSUME CountInv, SafeInv, NEW s \in Streams, NEW published \in BOOLEAN,
         SessionTeardown(s, published)
  PROVE  SafeInv' /\ Remembered
<1> DEFINE d == Dropped(host[s], FALSE)
           h == [d EXCEPT !.c = LegacyCore]
           g == [h EXCEPT !.b.live = FALSE]
<1>1. /\ work = NoWork /\ UNCHANGED <<work, ran, periods>>
      /\ Becomes(s, IF published THEN g ELSE Failed(h))
  BY DEF SessionTeardown, Control
<1>2. Stands(host[s], NoWork, FALSE, FALSE) /\ Good(host[s], NoWork, periods, ran)
  BY <1>1, IdleStands
<1>3. /\ Counted(d, FALSE, FALSE) /\ ~d.p.listed /\ d.b.deferred = host[s].b.deferred
      /\ Sound(d, NoWork, periods, ran) /\ Kin(d, host[s])
  <2>1. host[s].p.listed /\ host[s].p.started => host[s].c.stage = "RECOVER"
    BY <1>2 DEF Good, Pends, Current
  <2> QED BY <1>2, <2>1, DroppedSound DEF Stands, Good
<1> HIDE DEF d
<1>4. h.b = d.b /\ h.p = d.p /\ h.c = LegacyCore /\ Shape(h)
  BY <1>3 DEF Counted, Shape
<1> HIDE DEF h
<1>5. Counted(h, FALSE, FALSE)
  BY <1>3, <1>4 DEF Counted
<1>6. Stands(h, NoWork, FALSE, FALSE)
  BY <1>5, Idle DEF Stands
<1>7. Sound(h, NoWork, periods, ran)
  <2>1. /\ h.c.ledger = <<>> /\ h.c.stage = "LEGACY" /\ h.c.last = h.c.cur
    BY <1>4 DEF LegacyCore
  <2>2. h.c.ledger \in Ledgers /\ DOMAIN h.c.ledger = {}
    BY <2>1 DEF Ledgers
  <2>3. LedgerOK(h.c.ledger, NoWork) /\ Settled(h.c.ledger, h.b)
    BY <2>2, Idle DEF LedgerOK, Settled
  <2>4. Occurs(h.b, h.c.ledger, periods, ran)
    BY <1>3, <1>4, <2>1 DEF Sound, Occurs
  <2>5. Agrees(h.b, h.c)
    BY <2>1 DEF Agrees, Learned
  <2> QED BY <2>2, <2>3, <2>4, <2>5 DEF Sound
<1>8. Pends(h, NoWork, ran) /\ Deferral(h.b, NoWork) /\ h.b.period = host[s].b.period
  BY <1>2, <1>3, <1>4, Idle DEF Pends, Good, Deferral, Kin, SameB
<1>9. CASE published
  <2>1. Good(g, NoWork, periods, ran) /\ g.b.period = h.b.period
    BY <1>4, <1>7, <1>8, GoneGood
  <2>2. ~g.b.live
    BY <1>4 DEF Shape, NewBridge
  <2> HIDE DEF g
  <2> QED BY <1>1, <1>8, <1>9, <2>1, <2>2, IdleSafe DEF Forgets
<1>10. CASE ~published
  <2>1. Good(Failed(h), NoWork, periods, ran) /\ Kin(Failed(h), h)
    BY <1>6, <1>7, <1>8, FailedGood
  <2>2. Failed(h).b.period = host[s].b.period
    BY <1>8, <2>1 DEF Kin, SameB
  <2>3. SessionTeardown(s, FALSE)
    BY <1>10
  <2> QED BY <1>1, <1>10, <2>1, <2>2, <2>3, IdleSafe DEF Forgets
<1> QED BY <1>9, <1>10

\* A packet that the core refuses leaves what is owed for a replay.
LEMMA RefusedSafe ==
  ASSUME CountInv, SafeInv, NEW s \in Streams, Refused(s)
  PROVE  SafeInv' /\ Remembered
<1> DEFINE g == host[s]
           h == [g EXCEPT !.c = ForcedLegacy(@)]
           e == [Dropped(h, FALSE) EXCEPT !.b = ResetBridge(@)]
           k == BeganRecovery(Dropped(h, TRUE))
           c == [g.c EXCEPT !.stage = "RECOVER", !.fallback = TRUE,
                            !.ledger = IF RecoveryOK(@) THEN Discard(@) ELSE @]
<1>1. work = NoWork /\ UNCHANGED <<work, ran, periods>>
  BY DEF Refused, Control
<1>2. IF h.c.stage = "LEGACY" THEN Becomes(s, e) ELSE Becomes(s, k)
  BY DEF Refused
<1>3. /\ Stands(g, NoWork, FALSE, FALSE) /\ Good(g, NoWork, periods, ran) /\ Shape(g)
      /\ Counted(g, FALSE, FALSE) /\ Ripe(g, periods, ran)
  BY <1>1, IdleStands
<1>4. h.b = g.b /\ h.p = g.p /\ h.c = IF g.c.ledger = <<>> THEN LegacyCore ELSE c
  BY <1>3 DEF Shape, ForcedLegacy
<1>5. /\ DOMAIN c = DOMAIN g.c /\ c.stage = "RECOVER"
      /\ c.ledger = IF RecoveryOK(g.c.ledger) THEN Discard(g.c.ledger) ELSE g.c.ledger
      /\ c.cur = g.c.cur /\ c.last = g.c.last /\ c.open = g.c.open
  BY <1>3 DEF Shape, LegacyCore
<1>6. DOMAIN h = {"b", "c", "p"}
  BY <1>3 DEF Shape
<1> HIDE DEF h, c, g
<1>7. Shape(h)
  BY <1>3, <1>4, <1>5, <1>6 DEF Shape
<1>8. Counted(h, FALSE, FALSE)
  BY <1>3, <1>4, <1>7 DEF Counted
<1>9. CASE g.c.ledger = <<>>
  <2> DEFINE d == Dropped(h, FALSE)
  <2>1. Counted(d, FALSE, FALSE) /\ ~d.p.listed
    BY <1>8, DroppedCounted
  <2>2. d.c = h.c
    <3>1. h.p.listed => /\ Unlinked([h EXCEPT !.p.failed = TRUE]).c = h.c
                        /\ Shape(Unlinked([h EXCEPT !.p.failed = TRUE]))
      BY <1>7, GivenUp
    <3> QED BY <3>1, UnrefEffect DEF Dropped
  <2> HIDE DEF d
  <2>3. e.b = ResetBridge(d.b) /\ e.c = d.c /\ e.p = d.p
    BY <2>1 DEF Counted, Shape, d
  <2> HIDE DEF e
  <2>4. h.c = LegacyCore /\ h.c.stage = "LEGACY"
    BY <1>4, <1>9 DEF LegacyCore
  <2>5. Good(e, NoWork, periods, ran) /\ e.b.period = 0
    BY <2>1, <2>2, <2>3, <2>4, ResetGood
  <2>6. Forgets(s, e)
    BY <1>9, NothingOwed DEF Forgets, g
  <2> QED BY <1>1, <1>2, <2>4, <2>5, <2>6, IdleSafe
<1>10. CASE g.c.ledger # <<>>
  <2> DEFINE r == BeganRecovery(g)
  <2>1. /\ RecoveryOK(g.c.ledger) /\ Sound(r, NoWork, periods, ran) /\ Kin(r, g)
        /\ r.b = g.b /\ r.p = g.p /\ Pends(r, NoWork, ran)
    BY <1>3, BeganSound DEF Good
  <2>2. SameC(h.c, r.c)
    BY <1>3, <1>4, <1>5, <1>10, <2>1, BeganEffect DEF SameC
  <2> HIDE DEF r
  <2>3. Sound(h, NoWork, periods, ran) /\ Kin(h, r)
    BY <1>4, <2>1, <2>2, Framed DEF SameB
  <2>4. Pends(h, NoWork, ran)
    BY <1>4, <2>1, <2>2, FramedPends DEF SameB, SameC, SameP
  <2>5. Deferral(h.b, NoWork)
    BY <1>3, <1>4 DEF Good
  <2>6. Stands(h, NoWork, FALSE, FALSE)
    BY <1>8, Idle DEF Stands
  <2>7. Good(k, NoWork, periods, ran) /\ Kin(k, h)
    BY <2>3, <2>4, <2>5, <2>6, GiveUpGood
  <2>8. Kin(k, g)
    BY <2>1, <2>3, <2>7, KinSteps
  <2>9. h.c.stage # "LEGACY"
    BY <1>4, <1>5, <1>10
  <2> HIDE DEF k
  <2>10. k.b.period \in {0, host[s].b.period} /\ Forgets(s, k)
    BY <2>8, KinSafe DEF g
  <2> QED BY <1>1, <1>2, <2>7, <2>9, <2>10, IdleSafe
<1> QED BY <1>9, <1>10

\* A packet without a sound identity fails every stream.
LEMMA AbortSafe ==
  ASSUME CountInv, SafeInv, AbortProcess
  PROVE  SafeInv' /\ Remembered
<1>1. /\ work = NoWork /\ UNCHANGED <<work, ran, periods>>
      /\ \A t \in Streams : host'[t] = Failed(host[t])
  BY DEF AbortProcess
<1>2. ASSUME NEW t \in Streams
      PROVE  /\ Good(host'[t], WorkOf(t)', periods, ran)
             /\ host'[t].b.period \in {0, host[t].b.period}
             /\ host'[t].c.ledger = <<>> => host[t].c.ledger = <<>>
  <2>1. /\ Stands(host[t], NoWork, FALSE, FALSE) /\ Good(host[t], NoWork, periods, ran)
        /\ WorkOf(t) = NoWork
    BY <1>1, IdleStands
  <2>2. WorkOf(t)' = NoWork
    BY <1>1, <2>1, SameWork
  <2>3. Good(Failed(host[t]), NoWork, periods, ran) /\ Kin(Failed(host[t]), host[t])
    BY <2>1, FailedGood DEF Good
  <2> QED BY <1>1, <2>2, <2>3 DEF Kin, SameB
<1> QED BY <1>1, <1>2, StreamsSafe

-----------------------------------------------------------------------------
(* What takes no transaction lock, the gate, and routes that are cancelled. *)

\* A failed delivery fails its stream, whatever host work it has.
LEMMA DeliverySafe ==
  ASSUME CountInv, SafeInv, NEW s \in Streams, DeliveryFailed(s)
  PROVE  SafeInv' /\ Remembered
<1>1. Becomes(s, Failed(host[s])) /\ UNCHANGED <<work, ran, periods>>
  BY DEF DeliveryFailed
<1>2. /\ Stands(host[s], WorkOf(s), Released(s), Submitted(s))
      /\ Good(host[s], WorkOf(s), periods, ran)
  BY AllStand DEF SafeInv
<1>3. Good(Failed(host[s]), WorkOf(s), periods, ran) /\ Kin(Failed(host[s]), host[s])
  BY <1>2, FailedGood DEF Good
<1>4. \A t \in Streams : WorkOf(t)' = WorkOf(t)
  BY <1>1, SameWork
<1>5. Failed(host[s]).b.period \in {0, host[s].b.period} /\ Forgets(s, Failed(host[s]))
  BY <1>3, KinSafe
<1> QED BY <1>1, <1>3, <1>4, <1>5, OneSafe

\* Sessions are removed, whatever host work they have.
LEMMA RemovalsSafe ==
  ASSUME CountInv, SafeInv, RemoveAll \/ Shutdown \/ CleanupDevice
  PROVE  SafeInv' /\ Remembered
<1>1. /\ UNCHANGED <<work, ran, periods>>
      /\ \A t \in Streams : host'[t] = RemovedOf(host[t]) \/ host'[t] = host[t]
  BY DEF RemoveAll, Shutdown, RemovesAll, CleanupDevice
<1>2. ASSUME NEW t \in Streams
      PROVE  /\ Good(host'[t], WorkOf(t)', periods, ran)
             /\ host'[t].b.period \in {0, host[t].b.period}
             /\ host'[t].c.ledger = <<>> => host[t].c.ledger = <<>>
  <2>1. /\ Stands(host[t], WorkOf(t), Released(t), Submitted(t))
        /\ Good(host[t], WorkOf(t), periods, ran)
    BY AllStand DEF SafeInv
  <2>2. WorkOf(t)' = WorkOf(t)
    BY <1>1, SameWork
  <2>3. /\ Good(RemovedOf(host[t]), WorkOf(t), periods, ran)
        /\ RemovedOf(host[t]).b.period = host[t].b.period
        /\ RemovedOf(host[t]).c.ledger = <<>> => host[t].c.ledger = <<>>
    BY <2>1, RemovedGood DEF Good, RemovedOf
  <2> QED BY <1>1, <2>1, <2>2, <2>3
<1> QED BY <1>1, <1>2, StreamsSafe

\* A fallback flush ends the session.
LEMMA FlushSafe ==
  ASSUME CountInv, SafeInv, NEW s \in Streams, FallbackFlush(s)
  PROVE  SafeInv' /\ Remembered
<1> DEFINE g == [Dropped(host[s], FALSE) EXCEPT !.b.live = FALSE]
<1>1. work = NoWork /\ Becomes(s, g) /\ UNCHANGED <<work, ran, periods>>
  BY DEF FallbackFlush, Control
<1>2. Stands(host[s], NoWork, FALSE, FALSE) /\ Good(host[s], NoWork, periods, ran)
  BY <1>1, IdleStands
<1>3. /\ Good(g, NoWork, periods, ran) /\ g.b.period = host[s].b.period
      /\ g.c.ledger = <<>> => host[s].c.ledger = <<>>
  BY <1>2, RemovedGood DEF Good
<1> HIDE DEF g
<1> QED BY <1>1, <1>3, NothingOwed, IdleSafe DEF Forgets

\* The gate starts a recovery, or gives up what is listed.
LEMMA GateSafe ==
  ASSUME CountInv, SafeInv,
         \/ \E q \in Queues, matches \in BOOLEAN : SubmitUnrouted(q, matches)
         \/ \E s \in Streams, matches \in BOOLEAN : SubmitRefused(s, matches)
  PROVE  SafeInv' /\ Remembered
<1>1. ASSUME NEW q \in Queues, NEW matches \in BOOLEAN, SubmitUnrouted(q, matches)
      PROVE  SafeInv' /\ Remembered
  <2>1. PICK s \in Streams : Becomes(s, BeganRecovery(host[s]))
    BY <1>1 DEF SubmitUnrouted
  <2>2. work = NoWork /\ UNCHANGED <<work, ran, periods>>
    BY <1>1 DEF SubmitUnrouted
  <2>3. /\ Shape(host[s]) /\ Good(host[s], NoWork, periods, ran) /\ Ripe(host[s], periods, ran)
    BY <2>2, IdleStands
  <2>4. Good(BeganRecovery(host[s]), NoWork, periods, ran) /\ Kin(BeganRecovery(host[s]), host[s])
    BY <2>3, RecoverGood DEF Good
  <2> QED BY <2>1, <2>2, <2>4, KinSafe, IdleSafe
<1>2. ASSUME NEW s \in Streams, NEW matches \in BOOLEAN, SubmitRefused(s, matches)
      PROVE  SafeInv' /\ Remembered
  <2> DEFINE h == host[s]
  <2>1. work = NoWork /\ UNCHANGED <<work, ran, periods>> /\ h.p.listed
    BY <1>2 DEF SubmitRefused
  <2>2. PICK recover \in BOOLEAN :
          Becomes(s, Dropped(h, recover)) /\ (recover \/ h.p.recovery)
    BY <1>2 DEF SubmitRefused
  <2>3. Stands(h, NoWork, FALSE, FALSE) /\ Good(h, NoWork, periods, ran)
    BY <2>1, IdleStands
  <2> HIDE DEF h
  <2> DEFINE d == Dropped(h, recover)
  <2>4. /\ h.p.started => h.c.stage = "RECOVER"
        /\ h.p.recovery => h.c.stage = "RECOVER"
    BY <2>1, <2>3 DEF Good, Pends, Current
  <2>5. /\ d.b.deferred = h.b.deferred /\ ~d.p.listed
        /\ Sound(d, NoWork, periods, ran) /\ Kin(d, h)
        /\ recover => d.c.stage = "RECOVER"
        /\ ~recover => d.c = h.c
    BY <2>1, <2>3, <2>4, DroppedSound, Idle DEF Stands, Good
  <2> HIDE DEF d
  <2>6. d.c.stage = "RECOVER"
    BY <2>2, <2>4, <2>5
  <2>7. Good(d, NoWork, periods, ran)
    BY <2>3, <2>5, <2>6, Idle DEF Good, Pends, LostOK, Deferral, Kin, SameB, Learned
  <2> QED BY <2>1, <2>2, <2>5, <2>7, KinSafe, IdleSafe DEF h, d
<1> QED BY <1>1, <1>2

\* A route that is cancelled: what it pins has still to run.
LEMMA CancelledSafe ==
  ASSUME CountInv, SafeInv, work = NoWork, UNCHANGED <<work, ran, periods>>,
         NEW s \in Streams, NEW h, NEW r, Counted(h, FALSE, FALSE),
         Sound(h, NoWork, periods, ran), Pends(h, NoWork, ran), Deferral(h.b, NoWork),
         h.b.period = host[s].b.period, h.c.ledger = <<>> => host[s].c.ledger = <<>>,
         host' = Cancelled(s, h, r)
  PROVE  SafeInv' /\ Remembered
<1> DEFINE mine == h.b.live /\ h.b.open /\ h.b.period = r.sub
           pins == mine /\ h.b.sub = 0 /\ Begins(r) /\ ~Recovers(r) /\ r.sub > h.b.last
           e    == [h EXCEPT !.b.sub = r.sub, !.b.declared = r.n,
                             !.b.committed = FALSE, !.b.last = r.sub]
           g    == IF pins THEN e ELSE h
           d    == IF g.p.listed /\ g.p.sub = r.sub THEN Dropped(g, TRUE) ELSE g
           Fine(k) == /\ Counted(k, FALSE, FALSE) /\ Sound(k, NoWork, periods, ran)
                      /\ Pends(k, NoWork, ran) /\ Deferral(k.b, NoWork)
           Kept(k, t) == /\ Good(k, NoWork, periods, ran)
                         /\ k.b.period = host[t].b.period
                         /\ k.c.ledger = <<>> => host[t].c.ledger = <<>>
<1>1. host' = IF mine /\ g.b.sub = r.sub
              THEN [host EXCEPT ![s] = BeginOrDefer(d)]
              ELSE [t \in Streams |-> BeginOrDefer(IF t = s THEN d ELSE host[t])]
  BY DEF Cancelled
<1>2. Shape(h)
  BY DEF Counted
<1>3. /\ e.c = h.c /\ e.p = h.p /\ Shape(e)
      /\ e.b.sub = r.sub /\ e.b.committed = FALSE /\ e.b.last = r.sub
      /\ e.b.live = h.b.live /\ e.b.open = h.b.open /\ e.b.period = h.b.period
      /\ e.b.executed = h.b.executed /\ e.b.deferred = h.b.deferred
      /\ e.b.pending = h.b.pending /\ e.b.inflight = h.b.inflight
  <2> DEFINE b == [h.b EXCEPT !.sub = r.sub, !.declared = r.n,
                              !.committed = FALSE, !.last = r.sub]
  <2>1. e = [h EXCEPT !.b = b]
    BY <1>2 DEF Shape, NewBridge
  <2>2. /\ DOMAIN b = DOMAIN h.b
        /\ b.sub = r.sub /\ b.committed = FALSE /\ b.last = r.sub
        /\ b.live = h.b.live /\ b.open = h.b.open /\ b.period = h.b.period
        /\ b.executed = h.b.executed /\ b.deferred = h.b.deferred
        /\ b.pending = h.b.pending /\ b.inflight = h.b.inflight
    BY <1>2 DEF Shape, NewBridge
  <2> HIDE DEF b, e
  <2>3. e.c = h.c /\ e.p = h.p /\ e.b = b /\ DOMAIN e = DOMAIN h
    BY <1>2, <2>1 DEF Shape
  <2> QED BY <1>2, <2>2, <2>3 DEF Shape
<1> HIDE DEF e
<1>4. ASSUME pins PROVE Fine(e)
  <2>1. h.b.sub = 0 /\ r.sub = h.b.period /\ r.sub > h.b.last
    BY <1>4
  <2>2. h.b.period \in Nat /\ h.b.last \in Nat /\ r.sub \in Nat /\ r.sub # 0
    BY <2>1 DEF Sound, Occurs
  <2>3. \A i \in DOMAIN h.c.ledger : h.c.ledger[i].state = "COMMITTED"
    BY <2>1 DEF Sound, Settled, LedgerOK
  <2>4. \A i \in DOMAIN h.c.ledger : h.c.ledger[i].sub <= r.sub
    <3> TAKE i \in DOMAIN h.c.ledger
    <3>1. h.c.ledger[i].sub \in Nat /\ h.c.ledger[i].sub <= h.b.last
      BY Kinds DEF Sound, Settled
    <3> QED BY <2>1, <2>2, <3>1
  <2>5. Settled(e.c.ledger, e.b)
    BY <1>3, <2>3, <2>4 DEF Settled
  <2>6. Occurs(e.b, e.c.ledger, periods, ran)
    <3>1. h.b.executed = FALSE \/ ~h.b.executed
      BY <2>1 DEF Sound, Occurs
    <3> QED BY <1>3, <1>4, <2>1, <2>2, <3>1 DEF Sound, Occurs
  <2>7. Agrees(e.b, e.c)
    BY <1>3 DEF Sound, Agrees
  <2>8. ~h.p.listed
    BY <2>1 DEF Pends, Current
  <2> QED BY <1>3, <2>5, <2>6, <2>7, <2>8, Idle DEF Sound, Pends, Deferral, Counted
<1>5. Fine(g) /\ g.b.period = host[s].b.period
      /\ (g.c.ledger = <<>> => host[s].c.ledger = <<>>)
  <2> HIDE DEF pins, Fine
  <2>1. CASE pins
    BY <1>3, <1>4, <2>1
  <2>2. CASE ~pins
    BY <2>2 DEF Fine
  <2> QED BY <2>1, <2>2
<1> HIDE DEF g, mine, pins
<1>6. Fine(d) /\ d.b.period = host[s].b.period
      /\ (d.c.ledger = <<>> => host[s].c.ledger = <<>>)
  <2>1. CASE g.p.listed /\ g.p.sub = r.sub
    <3>1. g.p.listed /\ g.p.started => g.c.stage = "RECOVER"
      BY <1>5 DEF Pends, Current
    <3>2. /\ Counted(d, FALSE, FALSE) /\ d.b.deferred = g.b.deferred
          /\ Sound(d, NoWork, periods, ran) /\ Kin(d, g) /\ Pends(d, NoWork, ran)
      BY <1>5, <2>1, <3>1, DroppedSound, Idle
    <3> HIDE DEF d
    <3> QED BY <1>5, <3>2 DEF Kin, SameB, Deferral
  <2>2. CASE ~(g.p.listed /\ g.p.sub = r.sub)
    BY <1>5, <2>2
  <2> QED BY <2>1, <2>2
<1> HIDE DEF d
<1>7. ASSUME NEW k, NEW t, Fine(k), k.b.period = host[t].b.period,
             k.c.ledger = <<>> => host[t].c.ledger = <<>>
      PROVE  Kept(BeginOrDefer(k), t)
  <2>1. Stands(k, NoWork, FALSE, FALSE)
    BY <1>7, Idle DEF Stands
  <2>2. Shape(k) /\ (k.b.inflight # 0 <=> Held(NoWork))
    BY <2>1, StandsInFlight
  <2>3. /\ Sound(BeginOrDefer(k), NoWork, periods, ran) /\ LostOK(BeginOrDefer(k))
        /\ Deferral(BeginOrDefer(k).b, NoWork) /\ Kin(BeginOrDefer(k), k)
        /\ Pends(BeginOrDefer(k), NoWork, ran)
    BY <1>7, <2>2, BeginOrDeferSound
  <2> QED BY <1>7, <2>3 DEF Good, Kin, SameB
<1>8. \A t \in Streams : /\ Fine(host[t]) /\ Kept(host[t], t) /\ WorkOf(t)' = NoWork
  <2> TAKE t \in Streams
  <2>1. Counted(host[t], FALSE, FALSE) /\ Good(host[t], NoWork, periods, ran)
        /\ WorkOf(t) = NoWork
    BY IdleStands
  <2>2. WorkOf(t)' = NoWork
    BY <2>1, SameWork
  <2> QED BY <2>1, <2>2 DEF Good
<1>9. \A t \in Streams : Kept(BeginOrDefer(host[t]), t)
  BY <1>7, <1>8
<1>10. Kept(BeginOrDefer(d), s)
  BY <1>6, <1>7
<1> HIDE DEF Kept
<1>11. \A t \in Streams : Kept(host'[t], t)
  <2>1. CASE mine /\ g.b.sub = r.sub
    BY <1>1, <1>8, <1>10, <2>1 DEF CountInv
  <2>2. CASE ~(mine /\ g.b.sub = r.sub)
    BY <1>1, <1>9, <1>10, <2>2
  <2> QED BY <2>1, <2>2
<1> QED BY <1>8, <1>11, StreamsSafe DEF Kept

\* A packet about a submission that is not the open one.
LEMMA StaleSafe ==
  ASSUME CountInv, SafeInv, NEW s \in Streams, RouteStale(s)
  PROVE  SafeInv' /\ Remembered
<1> DEFINE r == [kind |-> "chunk", sub |-> MaxPeriods + 1, index |-> 1]
<1>1. work = NoWork /\ UNCHANGED <<work, ran, periods>> /\ host' = Cancelled(s, host[s], r)
  BY DEF RouteStale
<1>2. Counted(host[s], FALSE, FALSE) /\ Good(host[s], NoWork, periods, ran)
  BY <1>1, IdleStands
<1> HIDE DEF r
<1> QED BY <1>1, <1>2, CancelledSafe DEF Good

-----------------------------------------------------------------------------
(* Routed submissions. *)

\* A stream s that has become h and may take the packet r: the submission of r
\* is listed, and its updates are the next ones.
Routable(h, s, r) ==
  /\ Counted(h, FALSE, FALSE) /\ Good(h, NoWork, periods, ran)
  /\ h.p.listed /\ h.b.live /\ h.p.sub = r.sub /\ h.c.cur = r.sub
  /\ h.c.stage \in Learned \cup {"RECOVER"}
  /\ h.b.period = host[s].b.period
  /\ h.c.ledger = <<>> => host[s].c.ledger = <<>>
  /\ Recovers(r) => h.p.ids = <<>> /\ \A k \in DOMAIN r.ids : r.ids[k][1] = r.sub
  /\ ~Recovers(r) => \A k \in DOMAIN r.ids : r.ids[k] = Upd(r.sub, h.p.got + k)
  /\ r.ids \in Seq(Updates)

\* A function on the first numbers is a sequence of updates.
LEMMA UpdateSeq ==
  ASSUME NEW k \in Nat, NEW n \in Nat, NEW f, \A j \in 1 .. k : f[j] \in Nat
  PROVE  LET ids == [j \in 1 .. k |-> Upd(n, f[j])]
         IN /\ ids \in Seq(Updates) /\ DOMAIN ids = 1 .. k
            /\ \A j \in DOMAIN ids : ids[j] = Upd(n, f[j]) /\ ids[j][1] = n
<1> DEFINE ids == [j \in 1 .. k |-> Upd(n, f[j])]
<1>1. \A j \in 1 .. k : Upd(n, f[j]) \in Updates /\ Upd(n, f[j])[1] = n
  BY DEF Upd, Updates
<1>2. ids \in [1 .. k -> Updates]
  BY <1>1
<1>3. ids \in Seq(Updates)
  BY <1>2
<1> QED BY <1>1, <1>3

\* The updates of a packet.
LEMMA PacketIds ==
  ASSUME NEW s \in Streams, NEW r \in Packets(s), host[s].b.period \in Nat,
         Begins(r) \/ host[s].p.got \in Nat
  PROVE  /\ r.sub = host[s].b.period /\ r.ids \in Seq(Updates)
         /\ \A k \in DOMAIN r.ids : r.ids[k][1] = r.sub
         /\ ~Recovers(r) => \A k \in DOMAIN r.ids :
              r.ids[k] = Upd(r.sub, (IF Begins(r) THEN 0 ELSE host[s].p.got) + k)
<1> DEFINE b == host[s].b
           got == host[s].p.got
           Few == UNION {0 .. m : m \in Sizes}
           Chunk == \E q \in Queues, i \in 0 .. PlanChunks - 1, n \in Sizes, k \in Few :
             r = [kind |-> "chunk", queue |-> q, sub |-> b.period, index |-> i, n |-> n,
                  ids |-> [j \in 1 .. k |-> Upd(b.period, (IF i = 0 THEN 0 ELSE got) + j)]]
           Replay == \E q \in Queues, n \in Sizes, other \in BOOLEAN :
             r = [kind |-> "recovery", queue |-> q, sub |-> b.period, index |-> 0, n |-> n,
                  ids |-> [j \in 1 .. n |-> Upd(b.period, IF j = n /\ other THEN 0 ELSE j)]]
<1>0. Chunk \/ Replay
  BY DEF Packets
<1>1. CASE Chunk
  <2>1. PICK i \in 0 .. PlanChunks - 1, k \in Few :
          /\ r.kind = "chunk" /\ r.sub = b.period /\ r.index = i
          /\ r.ids = [j \in 1 .. k |-> Upd(b.period, (IF i = 0 THEN 0 ELSE got) + j)]
    BY <1>1
  <2>2. k \in Nat
    BY BridgeAssumption
  <2> DEFINE f == [j \in 1 .. k |-> (IF i = 0 THEN 0 ELSE got) + j]
  <2>3. \A j \in 1 .. k : f[j] \in Nat
    BY <2>1, <2>2 DEF Begins
  <2>4. r.ids = [j \in 1 .. k |-> Upd(b.period, f[j])]
    BY <2>1
  <2>5. /\ r.ids \in Seq(Updates) /\ DOMAIN r.ids = 1 .. k
        /\ \A j \in DOMAIN r.ids : r.ids[j] = Upd(b.period, f[j]) /\ r.ids[j][1] = b.period
    <3> HIDE DEF f
    <3> QED BY <2>2, <2>3, <2>4, UpdateSeq DEF b
  <2>6. i = 0 <=> Begins(r)
    BY <2>1 DEF Begins
  <2>7. \A j \in DOMAIN r.ids : f[j] = (IF Begins(r) THEN 0 ELSE got) + j
    BY <2>5, <2>6
  <2> QED BY <2>1, <2>5, <2>7 DEF b
<1>2. CASE Replay
  <2>1. PICK n \in Sizes, other \in BOOLEAN :
          /\ r.kind = "recovery" /\ r.sub = b.period
          /\ r.ids = [j \in 1 .. n |-> Upd(b.period, IF j = n /\ other THEN 0 ELSE j)]
    BY <1>2
  <2>2. n \in Nat
    BY BridgeAssumption
  <2> DEFINE f == [j \in 1 .. n |-> IF j = n /\ other THEN 0 ELSE j]
  <2>3. \A j \in 1 .. n : f[j] \in Nat
    OBVIOUS
  <2>4. r.ids = [j \in 1 .. n |-> Upd(b.period, f[j])]
    BY <2>1
  <2> HIDE DEF f, b
  <2>5. /\ r.ids \in Seq(Updates)
        /\ \A j \in DOMAIN r.ids : r.ids[j][1] = b.period
    BY <2>2, <2>3, <2>4, UpdateSeq DEF b
  <2> QED BY <2>1, <2>5 DEF b, Recovers
<1> QED BY <1>0, <1>1, <1>2

\* The fields of a stream after a BEGIN, before a recovery discards.
LEMMA BegunFields ==
  ASSUME NEW h, NEW r, Shape(h)
  PROVE  \E g : /\ Begun(h, r) = IF Recovers(r)
                     THEN [BeganRecovery(g) EXCEPT !.p.started = RecoveryOK(g.c.ledger)]
                     ELSE g
                /\ Shape(g) /\ g.c = h.c
                /\ g.b.live = h.b.live /\ g.b.open = h.b.open /\ g.b.period = h.b.period
                /\ g.b.sub = r.sub /\ g.b.last = r.sub /\ g.b.executed = h.b.executed
                /\ g.b.committed = (IF h.b.sub = 0 THEN FALSE ELSE h.b.committed)
                /\ g.b.deferred = h.b.deferred /\ g.b.chunks = g.p.chunks
                /\ g.p.sub = r.sub /\ g.p.recovery = Recovers(r) /\ g.p.listed = TRUE
                /\ g.p.complete = FALSE /\ g.p.started = FALSE
                /\ g.p.got = 0 /\ g.p.ids = <<>> /\ g.p.tail = <<>>
<1> DEFINE b == [h.b EXCEPT
                   !.sub = r.sub, !.declared = r.n, !.last = r.sub,
                   !.committed = IF h.b.sub = 0 THEN FALSE ELSE @,
                   !.chunks = IF Recovers(r) \/ h.b.single THEN 1 ELSE PlanChunks,
                   !.units = FALSE, !.pending = @ + 1]
           p == [NoPending EXCEPT
                   !.sub = r.sub, !.queue = r.queue, !.n = r.n,
                   !.chunks = b.chunks, !.recovery = Recovers(r),
                   !.listed = TRUE, !.refs = 1]
           g == [h EXCEPT !.b = b, !.p = p]
<1>1. Begun(h, r) = IF Recovers(r)
                    THEN [BeganRecovery(g) EXCEPT !.p.started = RecoveryOK(g.c.ledger)]
                    ELSE g
  BY DEF Begun
<1>2. /\ DOMAIN p = DOMAIN NoPending
      /\ p.sub = r.sub /\ p.recovery = Recovers(r) /\ p.listed = TRUE /\ p.chunks = b.chunks
      /\ p.complete = FALSE /\ p.started = FALSE /\ p.got = 0 /\ p.ids = <<>> /\ p.tail = <<>>
  <2> HIDE DEF b
  <2> QED BY DEF NoPending
<1> HIDE DEF p
<1>3. /\ DOMAIN b = DOMAIN NewBridge
      /\ b.live = h.b.live /\ b.open = h.b.open /\ b.period = h.b.period
      /\ b.sub = r.sub /\ b.last = r.sub /\ b.executed = h.b.executed
      /\ b.committed = (IF h.b.sub = 0 THEN FALSE ELSE h.b.committed)
      /\ b.deferred = h.b.deferred
  BY DEF Shape, NewBridge
<1> HIDE DEF b
<1>4. Shape(g) /\ g.c = h.c /\ g.b = b /\ g.p = p
  BY <1>2, <1>3 DEF Shape
<1> HIDE DEF g
<1> WITNESS g
<1> QED BY <1>1, <1>2, <1>3, <1>4

\* A BEGIN r that a stream h with nothing listed may take, and the stream g
\* that it leaves.
MayBegin(h, r, N, R) ==
  /\ Counted(h, FALSE, FALSE) /\ Good(h, NoWork, N, R)
  /\ ~h.p.listed /\ h.b.live /\ h.b.open /\ r.sub = h.b.period
  /\ h.b.sub = 0 => r.sub > h.b.last
  /\ h.b.sub # 0 => Recovers(r) /\ r.sub = h.b.sub
  /\ Recovers(r) => ~h.b.executed /\ h.c.stage = "RECOVER"
Begot(g, h, r, N, R) ==
  /\ Good(g, NoWork, N, R) /\ g.p.listed /\ g.b.live
  /\ g.p.sub = r.sub /\ g.c.cur = h.c.cur /\ g.c.stage = h.c.stage
  /\ g.b.period = h.b.period /\ g.p.got = 0 /\ g.p.ids = <<>>
  /\ g.c.ledger = <<>> => h.c.ledger = <<>>

\* A BEGIN pins the occurrence of the open period, which has not run, and has
\* nothing of it recorded yet.
LEMMA BegunGood ==
  ASSUME NEW h, NEW r, NEW N \in Nat, NEW R, MayBegin(h, r, N, R)
  PROVE  Begot(Begun(h, r), h, r, N, R)
<1> USE DEF MayBegin
<1> DEFINE L == h.c.ledger
<1>1. /\ Shape(h) /\ L \in Ledgers /\ LedgerOK(L, NoWork) /\ Settled(L, h.b)
      /\ Occurs(h.b, L, N, R) /\ Agrees(h.b, h.c) /\ Deferral(h.b, NoWork)
  BY DEF Good, Sound, Counted
<1>2. PICK g :
        /\ Begun(h, r) = IF Recovers(r)
             THEN [BeganRecovery(g) EXCEPT !.p.started = RecoveryOK(g.c.ledger)]
             ELSE g
        /\ Shape(g) /\ g.c = h.c
        /\ g.b.live = h.b.live /\ g.b.open = h.b.open /\ g.b.period = h.b.period
        /\ g.b.sub = r.sub /\ g.b.last = r.sub /\ g.b.executed = h.b.executed
        /\ g.b.committed = (IF h.b.sub = 0 THEN FALSE ELSE h.b.committed)
        /\ g.b.deferred = h.b.deferred /\ g.b.chunks = g.p.chunks
        /\ g.p.sub = r.sub /\ g.p.recovery = Recovers(r) /\ g.p.listed = TRUE
        /\ g.p.complete = FALSE /\ g.p.started = FALSE
        /\ g.p.got = 0 /\ g.p.ids = <<>> /\ g.p.tail = <<>>
  BY <1>1, BegunFields
<1>3. r.sub \in Nat /\ r.sub # 0 /\ r.sub <= N /\ h.b.last \in Nat /\ ~h.b.executed
  <2>1. h.b.sub # 0 => r.sub # 0 /\ ~h.b.executed
    OBVIOUS
  <2>2. h.b.sub = 0 => r.sub # 0 /\ ~h.b.executed
    BY <1>1 DEF Occurs
  <2> QED BY <1>1, <2>1, <2>2 DEF Occurs
<1>4. r.sub \notin R
  BY <1>1, <1>3 DEF Occurs
<1>5. Settled(L, g.b)
  <2> SUFFICES ASSUME NEW i \in DOMAIN L
               PROVE  /\ L[i].sub <= r.sub
                      /\ L[i].state # "COMMITTED" => /\ g.b.open /\ L[i].sub = r.sub
                                                     /\ ~g.b.committed
    BY <1>2 DEF Settled
  <2>1. /\ L[i].sub <= h.b.last /\ L[i].sub \in Nat /\ L[i].sub # 0
        /\ L[i].state # "COMMITTED" => h.b.open /\ L[i].sub = h.b.sub /\ ~h.b.committed
    BY <1>1, Kinds DEF Settled, LedgerOK
  <2>2. CASE h.b.sub = 0
    BY <1>3, <2>1, <2>2
  <2>3. CASE h.b.sub # 0
    <3>1. r.sub = h.b.sub /\ h.b.last = h.b.sub
      BY <1>1, <2>3 DEF Occurs
    <3> QED BY <1>2, <1>3, <2>1, <2>3, <3>1
  <2> QED BY <2>2, <2>3
<1>6. Occurs(g.b, L, N, R)
  <2>1. g.b.committed = FALSE
    BY <1>1, <1>2, <1>3 DEF Occurs
  <2> QED BY <1>1, <1>2, <1>3, <1>4, <2>1 DEF Occurs
<1>7. Agrees(g.b, g.c)
  BY <1>1, <1>2 DEF Agrees
<1>8. Sound(g, NoWork, N, R)
  BY <1>1, <1>2, <1>5, <1>6, <1>7 DEF Sound
<1>9. Pends(g, NoWork, R)
  <2>1. Current(g.b, g.c, g.p, R)
    BY <1>2, <1>3, <1>4 DEF Current
  <2>2. <<>> \in Seq(Updates) /\ Len(<<>>) = 0 /\ DOMAIN <<>> = {}
    OBVIOUS
  <2>3. Routed(g.b, g.p, NoWork)
    <3>1. g.p.ids \in Seq(Updates) /\ g.p.got = Len(g.p.ids) /\ Distinct(g.p.ids)
      BY <1>2, <2>2 DEF Distinct
    <3> QED BY <1>2, <2>2, <3>1, Idle DEF Routed, NoWork
  <2>4. Ledgered(g.c.ledger, g.p, NoWork)
    <3>1. ASSUME ~Recovers(r), NEW i \in DOMAIN L PROVE L[i].sub # r.sub
      <4>1. r.sub > h.b.last /\ L[i].sub <= h.b.last /\ L[i].sub \in Nat
        BY <1>1, <3>1, Kinds DEF Settled
      <4> QED BY <1>3, <4>1
    <3> QED BY <1>2, <2>2, <3>1, Idle DEF Ledgered
  <2> QED BY <2>1, <2>3, <2>4 DEF Pends
<1>10. Deferral(g.b, NoWork) /\ LostOK(g)
  BY <1>1, <1>2 DEF Deferral, LostOK
<1>11. Good(g, NoWork, N, R)
  BY <1>8, <1>9, <1>10 DEF Good
<1>12. CASE ~Recovers(r)
  BY <1>2, <1>11, <1>12 DEF Begot
<1>13. CASE Recovers(r)
  <2> DEFINE k == BeganRecovery(g)
             l == [k EXCEPT !.p.started = RecoveryOK(g.c.ledger)]
  <2>1. /\ RecoveryOK(g.c.ledger) /\ Sound(k, NoWork, N, R) /\ Kin(k, g)
        /\ k.b = g.b /\ k.p = g.p /\ k.c.stage = "RECOVER" /\ Pends(k, NoWork, R)
    BY <1>2, <1>8, <1>9, SoundIsRipe, BeganSound
  <2>2. Shape(k) /\ k.c.cur = g.c.cur
    BY <1>2, <2>1, BeganSame, BeganEffect DEF SameCount
  <2> HIDE DEF k
  <2>3. /\ l.b = k.b /\ l.c = k.c /\ l.p.started = RecoveryOK(g.c.ledger)
        /\ l.p.sub = k.p.sub /\ l.p.n = k.p.n /\ l.p.got = k.p.got /\ l.p.chunks = k.p.chunks
        /\ l.p.complete = k.p.complete /\ l.p.recovery = k.p.recovery
        /\ l.p.ids = k.p.ids /\ l.p.tail = k.p.tail /\ l.p.listed = k.p.listed
    BY <2>2 DEF Shape, NoPending
  <2> HIDE DEF l
  <2>4. Sound(l, NoWork, N, R) /\ Kin(l, k)
    BY <2>1, <2>3, Framed DEF SameB, SameC
  <2>5. Pends(l, NoWork, R)
    BY <2>1, <2>3 DEF Pends, Current, Routed, Ledgered
  <2>6. Good(l, NoWork, N, R)
    BY <1>10, <2>1, <2>3, <2>4, <2>5 DEF Good, LostOK, Deferral, Learned
  <2>7. l.c.ledger = <<>> => h.c.ledger = <<>>
    BY <1>2, <2>1, <2>3 DEF Kin
  <2>8. Begun(h, r) = l
    BY <1>2, <1>13 DEF l, k
  <2>9. /\ l.p.listed /\ l.b.live /\ l.p.sub = r.sub /\ l.c.cur = h.c.cur
        /\ l.b.period = h.b.period /\ l.p.got = 0 /\ l.p.ids = <<>>
    <3>1. l.b = g.b /\ l.c.cur = g.c.cur
      BY <2>1, <2>2, <2>3
    <3>2. /\ l.p.listed = g.p.listed /\ l.p.sub = g.p.sub
          /\ l.p.got = g.p.got /\ l.p.ids = g.p.ids
      BY <2>1, <2>3
    <3>3. g.p.listed = TRUE /\ g.p.sub = r.sub /\ g.p.got = 0 /\ g.p.ids = <<>>
          /\ g.b.live /\ g.b.period = h.b.period /\ g.c.cur = h.c.cur
      BY <1>2
    <3> QED BY <3>1, <3>2, <3>3
  <2>10. l.c.stage = h.c.stage
    BY <1>13, <2>1, <2>3
  <2> QED BY <2>6, <2>7, <2>8, <2>9, <2>10 DEF Begot
<1> QED BY <1>12, <1>13

\* A packet that is admitted and follows what came before finds its stream
\* ready for it.
LEMMA AdmittedRoutable ==
  ASSUME CountInv, SafeInv, work = NoWork, NEW s \in Streams, NEW r \in Packets(s),
         Admitted(s, r), NEW bound, bound = [host[s] EXCEPT !.b.queue = r.queue],
         IF Begins(r) THEN FirstOfSubmission(s, r) ELSE NextOfSubmission(bound, r),
         NEW h, h = IF Begins(r) THEN Begun(bound, r) ELSE bound
  PROVE  Routable(h, s, r)
<1>1. /\ Shape(host[s]) /\ Counted(host[s], FALSE, FALSE)
      /\ Good(host[s], NoWork, periods, ran)
  BY IdleStands
<1>2. /\ bound.c = host[s].c /\ bound.p = host[s].p /\ bound.b.deferred = host[s].b.deferred
      /\ SameB(bound.b, host[s].b) /\ SameCount(bound, host[s])
  BY <1>1 DEF SameB, SameCount, Shape, NewBridge, LegacyCore, NoPending
<1>3. Counted(bound, FALSE, FALSE)
  BY <1>1, <1>2, SameIsCounted
<1>4. Good(bound, NoWork, periods, ran)
  <2>1. Sound(bound, NoWork, periods, ran) /\ Kin(bound, host[s])
    BY <1>1, <1>2, Framed DEF Good, SameC
  <2>2. Pends(bound, NoWork, ran)
    BY <1>1, <1>2, FramedPends DEF Good, SameP
  <2> QED BY <1>1, <1>2, <2>1, <2>2 DEF Good, LostOK, Deferral, SameB
<1>5. /\ host[s].b.period \in Nat /\ periods \in Nat
      /\ host[s].b.live /\ host[s].b.open /\ host[s].c.cur = r.sub
      /\ host[s].c.stage \in Learned \cup {"RECOVER"}
      /\ Recovers(r) => ~host[s].b.executed /\ host[s].c.stage = "RECOVER"
  BY <1>1 DEF Admitted, Good, Sound, Occurs, SafeInv, Learned
<1>6. Recovers(r) => Begins(r)
  BY DEF Recovers, Begins
<1> DEFINE n == IF Begins(r) THEN 0 ELSE host[s].p.got
<1>7. ~Begins(r) => /\ host[s].p.listed /\ host[s].p.sub = r.sub /\ host[s].p.got \in Nat
  <2> SUFFICES ASSUME ~Begins(r)
               PROVE  /\ host[s].p.listed /\ host[s].p.sub = r.sub /\ host[s].p.got \in Nat
    OBVIOUS
  <2>1. host[s].p.listed /\ host[s].p.sub = r.sub
    BY <1>2 DEF NextOfSubmission
  <2>2. host[s].p.ids \in Seq(Updates) /\ host[s].p.got = Len(host[s].p.ids)
    BY <1>1, <2>1 DEF Good, Pends, Routed
  <2> QED BY <2>1, <2>2
<1>8. /\ r.sub = host[s].b.period /\ r.ids \in Seq(Updates)
      /\ \A k \in DOMAIN r.ids : r.ids[k][1] = r.sub
      /\ ~Recovers(r) => \A k \in DOMAIN r.ids : r.ids[k] = Upd(r.sub, n + k)
  BY <1>5, <1>7, PacketIds
<1>9. CASE Begins(r)
  <2>1. /\ ~bound.p.listed
        /\ bound.b.sub = 0 => r.sub > bound.b.last
        /\ bound.b.sub # 0 => Recovers(r) /\ r.sub = bound.b.sub
    BY <1>2, <1>9 DEF FirstOfSubmission, SameB
  <2>2. /\ bound.b.live /\ bound.b.open /\ r.sub = bound.b.period
        /\ Recovers(r) => ~bound.b.executed /\ bound.c.stage = "RECOVER"
    BY <1>2, <1>5, <1>8 DEF SameB
  <2> DEFINE g == Begun(bound, r)
  <2>3. MayBegin(bound, r, periods, ran)
    BY <1>3, <1>4, <2>1, <2>2 DEF MayBegin
  <2>6. Begot(g, bound, r, periods, ran)
    BY <1>5, <2>3, BegunGood
  <2>4. Counted(g, FALSE, FALSE)
    BY <1>3, <2>1, <2>2, BegunCounted
  <2>5. h = g
    BY <1>9
  <2> HIDE DEF g
  <2> QED BY <1>2, <1>5, <1>8, <1>9, <2>4, <2>5, <2>6 DEF Routable, Begot, SameB
<1>10. CASE ~Begins(r)
  <2>1. h = bound
    BY <1>10
  <2>2. h.p.listed /\ h.p.sub = r.sub /\ h.p.got = host[s].p.got
    BY <1>2, <1>7, <1>10, <2>1
  <2>3. h.b.live /\ h.b.period = host[s].b.period
    BY <1>2, <1>5, <2>1 DEF SameB
  <2> QED BY <1>2, <1>3, <1>4, <1>5, <1>6, <1>8, <1>10, <2>1, <2>2, <2>3 DEF Routable
<1> QED BY <1>9, <1>10

\* What g has of h, and of the packet r, when h has taken r and has the ledger L.
Recorded(g, h, r, L) ==
  /\ g.c.ledger = L
  /\ g.c.stage = h.c.stage /\ g.c.cur = h.c.cur /\ g.c.last = h.c.last
  /\ g.c.open = h.c.open
  /\ g.b.live = h.b.live /\ g.b.open = h.b.open
  /\ g.b.period = h.b.period /\ g.b.last = h.b.last /\ g.b.sub = h.b.sub
  /\ g.b.executed = h.b.executed /\ g.b.committed = h.b.committed
  /\ g.b.chunks = h.b.chunks /\ (Final(h, r) => g.b.units)
  /\ g.b.deferred = h.b.deferred
  /\ g.p.sub = h.p.sub /\ g.p.n = h.p.n /\ g.p.chunks = h.p.chunks
  /\ g.p.recovery = h.p.recovery /\ g.p.started = h.p.started
  /\ g.p.tail = h.p.tail /\ g.p.listed = h.p.listed
  /\ g.p.got = h.p.got + Len(r.ids) /\ (g.p.complete <=> Final(h, r))
  /\ g.p.ids = h.p.ids \o r.ids

\* The fields of a stream that has taken a packet.
LEMMA TakenFields ==
  ASSUME NEW h, NEW r, NEW L, Shape(h)
  PROVE  Shape(Taken(h, r, L)) /\ Recorded(Taken(h, r, L), h, r, L)
<1> DEFINE p == [h.p EXCEPT !.ids = @ \o r.ids, !.got = @ + Len(r.ids), !.next = @ + 1,
                            !.complete = Final(h, r)]
           b == [h.b EXCEPT !.units = @ \/ Final(h, r)]
           c == [h.c EXCEPT !.ledger = L]
           e == [h EXCEPT !.c = c, !.p = p, !.b = b]
<1>1. Taken(h, r, L) = e
  BY DEF Taken, Shape, NewBridge, LegacyCore, NoPending
<1>2. /\ DOMAIN p = DOMAIN h.p
      /\ p.sub = h.p.sub /\ p.n = h.p.n /\ p.chunks = h.p.chunks
      /\ p.recovery = h.p.recovery /\ p.started = h.p.started
      /\ p.tail = h.p.tail /\ p.listed = h.p.listed
      /\ p.got = h.p.got + Len(r.ids) /\ (p.complete <=> Final(h, r))
      /\ p.ids = h.p.ids \o r.ids
  BY DEF Shape, NoPending
<1>3. /\ DOMAIN c = DOMAIN h.c /\ c.ledger = L
      /\ c.stage = h.c.stage /\ c.cur = h.c.cur /\ c.last = h.c.last /\ c.open = h.c.open
  BY DEF Shape, LegacyCore
<1>4. /\ DOMAIN b = DOMAIN h.b
      /\ b.live = h.b.live /\ b.open = h.b.open
      /\ b.period = h.b.period /\ b.last = h.b.last /\ b.sub = h.b.sub
      /\ b.executed = h.b.executed /\ b.committed = h.b.committed
      /\ b.chunks = h.b.chunks /\ (Final(h, r) => b.units)
      /\ b.deferred = h.b.deferred
  BY DEF Shape, NewBridge
<1> HIDE DEF p, b, c
<1>5. DOMAIN e = DOMAIN h /\ e.b = b /\ e.c = c /\ e.p = p
  BY DEF Shape
<1>6. Shape(e) /\ Recorded(e, h, r, L)
  BY <1>2, <1>3, <1>4, <1>5 DEF Shape, Recorded
<1> HIDE DEF e
<1> QED BY <1>1, <1>6

\* c has the updates of a, then those of b.
Follows(c, a, b) ==
  /\ c \in Seq(Updates) /\ Len(c) = Len(a) + Len(b)
  /\ \A k \in DOMAIN a : k \in DOMAIN c /\ c[k] = a[k]
  /\ \A k \in DOMAIN b : Len(a) + k \in DOMAIN c /\ c[Len(a) + k] = b[k]
  /\ \A k \in DOMAIN c : k \in DOMAIN a \/ \E j \in DOMAIN b : k = Len(a) + j
  /\ a = <<>> => c = b

\* Two sequences of updates, one behind the other.
LEMMA Joined ==
  ASSUME NEW a \in Seq(Updates), NEW b \in Seq(Updates)
  PROVE  Follows(a \o b, a, b)
<1> DEFINE c == a \o b
<1>1. /\ a \o b \in Seq(Updates) /\ Len(a \o b) = Len(a) + Len(b)
      /\ \A k \in 1 .. Len(a) + Len(b) :
           (a \o b)[k] = IF k <= Len(a) THEN a[k] ELSE b[k - Len(a)]
  BY ConcatProperties, Zenon
<1>2. /\ c \in Seq(Updates) /\ Len(c) = Len(a) + Len(b)
      /\ \A k \in 1 .. Len(a) + Len(b) : c[k] = IF k <= Len(a) THEN a[k] ELSE b[k - Len(a)]
  BY <1>1, Zenon
<1> HIDE DEF c
<1>3. /\ Len(a) \in Nat /\ Len(b) \in Nat /\ DOMAIN c = 1 .. Len(a) + Len(b)
      /\ DOMAIN a = 1 .. Len(a) /\ DOMAIN b = 1 .. Len(b)
  BY <1>2
<1>4. \A k \in DOMAIN a : k \in DOMAIN c /\ c[k] = a[k]
  BY <1>2, <1>3
<1>5. \A k \in DOMAIN b : Len(a) + k \in DOMAIN c /\ c[Len(a) + k] = b[k]
  <2> TAKE k \in DOMAIN b
  <2>1. Len(a) + k \in 1 .. Len(a) + Len(b) /\ ~(Len(a) + k <= Len(a)) /\ (Len(a) + k) - Len(a) = k
    BY <1>3
  <2> QED BY <1>2, <1>3, <2>1
<1>6. \A k \in DOMAIN c : k \in DOMAIN a \/ \E j \in DOMAIN b : k = Len(a) + j
  <2> TAKE k \in DOMAIN c
  <2>1. CASE k <= Len(a)
    BY <1>3, <2>1
  <2>2. CASE ~(k <= Len(a))
    <3>1. k - Len(a) \in DOMAIN b /\ k = Len(a) + (k - Len(a))
      BY <1>3, <2>2
    <3> QED BY <3>1
  <2> QED BY <2>1, <2>2
<1>7. a = <<>> => c = b
  <2> SUFFICES ASSUME a = <<>> PROVE c = b
    OBVIOUS
  <2>1. Len(a) = 0 /\ DOMAIN a = {}
    OBVIOUS
  <2>2. Len(c) = Len(b) /\ \A k \in 1 .. Len(b) : c[k] = b[k]
    BY <1>2, <1>3, <1>5, <2>1
  <2> QED BY <1>2, <2>2
<1>8. Follows(c, a, b)
  BY <1>2, <1>4, <1>5, <1>6, <1>7 DEF Follows
<1> QED BY <1>8 DEF c

\* What a stream that may take a packet has of its submission.
LEMMA RoutableFacts ==
  ASSUME SafeInv, NEW s \in Streams, NEW h, NEW r, Routable(h, s, r)
  PROVE  /\ Shape(h) /\ Sound(h, NoWork, periods, ran) /\ Pends(h, NoWork, ran)
         /\ Current(h.b, h.c, h.p, ran) /\ Routed(h.b, h.p, NoWork)
         /\ Ledgered(h.c.ledger, h.p, NoWork) /\ ~h.b.deferred /\ ~h.b.committed
         /\ r.sub \in Nat \ {0} /\ h.b.sub = r.sub /\ h.b.last = r.sub /\ h.b.period = r.sub
<1>1. /\ Counted(h, FALSE, FALSE) /\ Good(h, NoWork, periods, ran)
      /\ h.p.listed /\ h.b.live /\ h.p.sub = r.sub
  BY DEF Routable
<1>2. /\ Current(h.b, h.c, h.p, ran) /\ Routed(h.b, h.p, NoWork)
      /\ Ledgered(h.c.ledger, h.p, NoWork) /\ Occurs(h.b, h.c.ledger, periods, ran)
  BY <1>1 DEF Good, Pends, Sound
<1>3. h.b.sub = r.sub /\ r.sub # 0
  BY <1>1, <1>2 DEF Current
<1>4. h.b.last = r.sub /\ h.b.period = r.sub /\ r.sub \in Nat /\ ~h.b.committed
  BY <1>2, <1>3 DEF Occurs, Current
<1>5. ~h.b.deferred
  BY <1>1, Idle DEF Good, Deferral
<1> QED BY <1>1, <1>2, <1>3, <1>4, <1>5 DEF Good, Counted

\* A packet that is not taken drops its submission.
LEMMA DropSafe ==
  ASSUME CountInv, SafeInv, work = NoWork, UNCHANGED <<work, ran, periods>>,
         NEW s \in Streams, NEW h, NEW r, Counted(h, FALSE, FALSE),
         Sound(h, NoWork, periods, ran), h.p.started => h.c.stage = "RECOVER", ~h.b.deferred,
         h.b.period = host[s].b.period, h.c.ledger = <<>> => host[s].c.ledger = <<>>,
         host' = Cancelled(s, Dropped(h, TRUE), r)
  PROVE  SafeInv' /\ Remembered
<1> DEFINE d == Dropped(h, TRUE)
<1>1. /\ Counted(d, FALSE, FALSE) /\ ~d.p.listed /\ d.b.deferred = h.b.deferred
      /\ Sound(d, NoWork, periods, ran) /\ Kin(d, h)
  BY Idle, DroppedSound
<1>2. host' = Cancelled(s, d, r)
  OBVIOUS
<1> HIDE DEF d
<1>3. Pends(d, NoWork, ran) /\ Deferral(d.b, NoWork)
  BY <1>1, Idle DEF Pends, Deferral
<1>4. d.b.period = host[s].b.period /\ (d.c.ledger = <<>> => host[s].c.ledger = <<>>)
  BY <1>1 DEF Kin, SameB
<1> QED BY <1>1, <1>2, <1>3, <1>4, CancelledSafe

\* A packet that is taken: M is the ledger with its updates, ids the updates
\* taken so far, tail those that wait for the submit.
Takes(g, h, r, M, ids, tail) ==
  LET t == Taken(h, r, M)
  IN /\ g.b = t.b /\ g.c = t.c /\ ids = h.p.ids \o r.ids
     /\ g.p.sub = h.p.sub /\ g.p.n = h.p.n /\ g.p.chunks = h.p.chunks
     /\ g.p.recovery = h.p.recovery /\ g.p.started = h.p.started
     /\ g.p.listed = h.p.listed /\ g.p.got = h.p.got + Len(r.ids)
     /\ (g.p.complete <=> Final(h, r)) /\ g.p.ids = ids /\ g.p.tail = tail

\* The ledger M, its work w, the updates and the tail that h may have once it
\* has taken r.
MayTake(h, r, M, w, ids, tail) ==
  /\ M \in Ledgers /\ LedgerOK(M, w) /\ ~Submits(w) /\ (w = NoWork \/ Held(w))
  /\ Distinct(ids)
  /\ ~h.p.recovery => \A k \in DOMAIN ids : ids[k] = Upd(h.p.sub, k)
  /\ tail \in Seq(Updates) /\ \A k \in DOMAIN tail : Named(ids, tail[k])
  /\ tail = <<>> \/ (w = NoWork /\ Final(h, r) /\ ~Recovers(r))
  /\ \A i \in DOMAIN h.c.ledger :
       /\ i \in DOMAIN M /\ M[i].sub = h.c.ledger[i].sub
       /\ h.c.ledger[i].state = "COMMITTED" => M[i].state = "COMMITTED"
  /\ \A i \in DOMAIN M : i \in DOMAIN h.c.ledger \/ M[i].sub = r.sub

\* The submission goes on, whether its updates are realized now (w) or not.
LEMMA TakenGood ==
  ASSUME SafeInv, NEW s \in Streams, NEW h, NEW r, Routable(h, s, r), Fits(h, r),
         NEW M, NEW w, NEW ids, NEW tail, MayTake(h, r, M, w, ids, tail),
         NEW g, Takes(g, h, r, M, ids, tail), Ledgered(M, g.p, w)
  PROVE  Good(g, w, periods, ran) /\ g.b.period = host[s].b.period
         /\ (g.c.ledger = <<>> => host[s].c.ledger = <<>>)
<1> USE DEF MayTake
<1> DEFINE L == h.c.ledger
<1>1. /\ Shape(h) /\ Sound(h, NoWork, periods, ran)
      /\ Current(h.b, h.c, h.p, ran) /\ Routed(h.b, h.p, NoWork)
      /\ ~h.b.deferred /\ ~h.b.committed
      /\ r.sub \in Nat \ {0} /\ h.b.sub = r.sub /\ h.b.last = r.sub /\ h.b.period = r.sub
  BY RoutableFacts
<1>2. /\ h.p.listed /\ h.c.cur = r.sub /\ h.c.stage \in Learned \cup {"RECOVER"}
      /\ r.ids \in Seq(Updates) /\ h.b.period = host[s].b.period
      /\ L = <<>> => host[s].c.ledger = <<>>
  BY DEF Routable
<1>3. /\ g.c.ledger = M
      /\ g.c.stage = h.c.stage /\ g.c.cur = h.c.cur /\ g.c.last = h.c.last
      /\ g.c.open = h.c.open
      /\ g.b.live = h.b.live /\ g.b.open = h.b.open
      /\ g.b.period = h.b.period /\ g.b.last = h.b.last /\ g.b.sub = h.b.sub
      /\ g.b.executed = h.b.executed /\ g.b.committed = h.b.committed
      /\ g.b.chunks = h.b.chunks /\ (Final(h, r) => g.b.units)
      /\ g.b.deferred = h.b.deferred
  <2> DEFINE t == Taken(h, r, M)
  <2>1. g.b = t.b /\ g.c = t.c
    BY DEF Takes
  <2>2. Recorded(t, h, r, M)
    BY <1>1, TakenFields
  <2> HIDE DEF t
  <2> QED BY <2>1, <2>2 DEF Recorded
<1>4. Settled(M, g.b)
  <2> SUFFICES ASSUME NEW i \in DOMAIN M
               PROVE  /\ M[i].sub <= g.b.last
                      /\ M[i].state # "COMMITTED" =>
                           g.b.open /\ M[i].sub = g.b.sub /\ ~g.b.committed
    BY DEF Settled
  <2>1. CASE i \in DOMAIN L
    BY <1>1, <1>3, <2>1 DEF Sound, Settled
  <2>2. CASE M[i].sub = r.sub
    BY <1>1, <1>3, <2>2 DEF Current
  <2> QED BY <2>1, <2>2
<1>5. Occurs(g.b, M, periods, ran)
  BY <1>1, <1>3 DEF Sound, Occurs, Current
<1>6. Agrees(g.b, g.c)
  <2>1. h.c.stage \notin {"LEGACY", "DETECT"}
    BY <1>2 DEF Learned
  <2> QED BY <1>1, <1>2, <1>3, <2>1 DEF Sound, Agrees
<1>7. Sound(g, w, periods, ran)
  BY <1>3, <1>4, <1>5, <1>6 DEF Sound
<1>8. Current(g.b, g.c, g.p, ran)
  BY <1>1, <1>3 DEF Current, Takes
<1>9. ids \in Seq(Updates) /\ Len(ids) = Len(h.p.ids) + Len(r.ids)
  <2>1. h.p.ids \in Seq(Updates) /\ r.ids \in Seq(Updates) /\ ids = h.p.ids \o r.ids
    BY <1>1, <1>2 DEF Takes, Routed
  <2>2. Follows(ids, h.p.ids, r.ids)
    BY <2>1, Joined
  <2> QED BY <2>2 DEF Follows
<1>10. Routed(g.b, g.p, w)
  <2>1. g.p.ids \in Seq(Updates) /\ g.p.got = Len(g.p.ids) /\ Distinct(g.p.ids)
    BY <1>1, <1>9 DEF Takes, Routed
  <2>2. g.b.chunks = g.p.chunks /\ (g.p.complete => g.p.got = g.p.n /\ g.b.units)
    BY <1>1, <1>3 DEF Takes, Routed, Fits
  <2>3. w.op \notin {"realize", "skip"}
    BY DEF Submits
  <2>4. g.p.recovery \/ ~g.p.complete \/ w.op \in {"release", "replay"} => g.p.tail = <<>>
    BY DEF Takes, Fits, NoWork
  <2> QED BY <2>1, <2>2, <2>3, <2>4 DEF Routed, Takes
<1>11. Pends(g, w, ran)
  BY <1>3, <1>8, <1>10 DEF Pends
<1>12. LostOK(g) /\ Deferral(g.b, w)
  BY <1>1, <1>2, <1>3 DEF LostOK, Deferral, Takes
<1>13. g.c.ledger = <<>> => host[s].c.ledger = <<>>
  <2>1. \A i \in DOMAIN L : i \in DOMAIN M
    OBVIOUS
  <2>2. L \in Seq(Entries)
    BY <1>1 DEF Sound, Ledgers
  <2>3. M = <<>> => L = <<>>
    <3> SUFFICES ASSUME M = <<>> PROVE L = <<>>
      OBVIOUS
    <3>1. DOMAIN M = {}
      OBVIOUS
    <3>2. DOMAIN L = {}
      BY <2>1, <3>1
    <3> HIDE DEF L
    <3> QED BY <2>2, <3>2
  <2> QED BY <1>2, <1>3, <2>3
<1> QED BY <1>2, <1>3, <1>7, <1>11, <1>12, <1>13 DEF Good

\* A batch that the host starts to realize.
LEMMA ReleasingSafe ==
  ASSUME CountInv, SafeInv, work = NoWork, UNCHANGED <<ran, periods>>, NEW s \in Streams,
         NEW g, Shape(g), NEW kind, NEW ids, NEW v, v = [op |-> kind, s |-> s, ids |-> ids],
         Good(g, v, periods, ran), g.b.period = host[s].b.period,
         g.c.ledger = <<>> => host[s].c.ledger = <<>>, Releasing(s, g, kind, ids)
  PROVE  SafeInv' /\ Remembered
<1> DEFINE k == [g EXCEPT !.p.releasing = TRUE, !.p.refs = @ + 1, !.b.inflight = @ + 1]
<1>1. Becomes(s, k) /\ work' = v
  BY DEF Releasing
<1>2. /\ SameB(k.b, g.b) /\ k.b.deferred = g.b.deferred /\ k.c = g.c
      /\ SameP(k.p, g.p) /\ k.p.listed = g.p.listed
  BY DEF Shape, SameB, SameP, NewBridge, LegacyCore, NoPending
<1> HIDE DEF k
<1>3. Sound(k, v, periods, ran)
  BY <1>2, Framed DEF Good, SameC
<1>4. Pends(k, v, ran)
  BY <1>2, FramedPends DEF Good
<1>5. Good(k, v, periods, ran)
  BY <1>2, <1>3, <1>4 DEF Good, LostOK, Deferral, SameB
<1>6. v # NoWork /\ v.s = s
  BY DEF NoWork
<1>7. WorkOf(s)' = v
  BY <1>1, <1>6 DEF WorkOf
<1>8. \A t \in Streams : t # s => WorkOf(t)' = WorkOf(t)
  BY <1>1, <1>6 DEF WorkOf
<1>9. k.b.period \in {0, host[s].b.period} /\ Forgets(s, k)
  BY <1>2, NothingOwed DEF Forgets, SameB
<1> QED BY <1>1, <1>5, <1>7, <1>8, <1>9, OneSafe

\* The submission is replayed, or dropped.
LEMMA ReplaySafe ==
  ASSUME CountInv, SafeInv, work = NoWork, UNCHANGED <<ran, periods>>, NEW s \in Streams,
         NEW h, NEW r, Routable(h, s, r), Fits(h, r), Recovers(r), RouteReplay(s, h, r)
  PROVE  SafeInv' /\ Remembered
<1> DEFINE L == h.c.ledger
           M == IF r.ids = <<>> THEN L
                ELSE SetStates(WithMissing(L, r.ids, SubsOf(r.ids)), r.ids,
                               EmitMask(L, r.ids), "REPLAY_IN_FLIGHT")
           due == ToBeEmitted(L, r.ids)
           ok == /\ h.p.started
                 /\ ReplayBatchOK(L, r.ids, SubsOf(r.ids), Len(L) + Len(r.ids))
           v == [op |-> "replay", s |-> s, ids |-> due]
           w == IF due # <<>> THEN v ELSE NoWork
           T == Taken(h, r, M)
<1>1. IF ok
      THEN IF due # <<>> THEN Releasing(s, T, "replay", due)
           ELSE Becomes(s, T) /\ UNCHANGED work
      ELSE host' = Cancelled(s, Dropped(h, TRUE), r) /\ UNCHANGED work
  BY DEF RouteReplay
<1>2. /\ Shape(h) /\ L \in Ledgers /\ LedgerOK(L, NoWork)
      /\ Sound(h, NoWork, periods, ran)
      /\ Current(h.b, h.c, h.p, ran) /\ Routed(h.b, h.p, NoWork)
      /\ ~h.b.deferred /\ r.sub \in Nat \ {0}
  BY RoutableFacts DEF Sound
<1>3. /\ h.p.ids = <<>> /\ \A k \in DOMAIN r.ids : r.ids[k][1] = r.sub
      /\ r.ids \in Seq(Updates) /\ h.p.sub = r.sub /\ Counted(h, FALSE, FALSE)
      /\ h.b.period = host[s].b.period /\ (L = <<>> => host[s].c.ledger = <<>>)
  BY DEF Routable
<1>4. CASE ~ok
  <2>1. host' = Cancelled(s, Dropped(h, TRUE), r) /\ UNCHANGED work
    BY <1>1, <1>4
  <2>2. h.p.started => h.c.stage = "RECOVER"
    BY <1>2 DEF Current
  <2> QED BY <1>2, <1>3, <2>1, <2>2, DropSafe
<1>5. CASE ok
  <2>0. v.op = "replay" /\ v.ids = due
    OBVIOUS
  <2>1. Distinct(r.ids)
    BY <1>5 DEF ReplayBatchOK
  <2>2. /\ M \in Ledgers /\ LedgerOK(M, w)
        /\ \A i \in DOMAIN L :
             /\ i \in DOMAIN M /\ M[i].sub = L[i].sub
             /\ L[i].state = "COMMITTED" => M[i].state = "COMMITTED"
        /\ \A i \in DOMAIN M : i \in DOMAIN L \/ M[i].sub = r.sub
        /\ \A k \in DOMAIN r.ids : \E i \in DOMAIN M :
             M[i].id = r.ids[k] /\ M[i].sub = r.sub /\ (Emitted(M[i]) \/ InFlight(M[i]))
    <3>1. CASE r.ids = <<>>
      <4>1. DOMAIN r.ids = {} /\ M = L
        BY <3>1
      <4>2. due = <<>>
        BY <4>1 DEF ToBeEmitted
      <4> HIDE DEF M, due, v
      <4> QED BY <1>2, <4>1, <4>2
    <3>2. CASE r.ids # <<>>
      <4> DEFINE S == SetStates(WithMissing(L, r.ids, SubsOf(r.ids)), r.ids,
                                EmitMask(L, r.ids), "REPLAY_IN_FLIGHT")
      <4>1. M = S
        BY <3>2
      <4>2. ReplayBatchOK(L, r.ids, SubsOf(r.ids), Len(L) + Len(r.ids))
        BY <1>5
      <4> HIDE DEF v, M
      <4>3. Replays(S, L, r.ids, r.sub, v)
        BY <1>2, <1>3, <2>0, <4>2, ReplayOrder
      <4> HIDE DEF S
      <4> QED BY <4>1, <4>3 DEF Replays
    <3> QED BY <3>1, <3>2
  <2> HIDE DEF M
  <2>3. Shape(T) /\ Recorded(T, h, r, M)
    BY <1>2, TakenFields
  <2>4. h.p.ids \o r.ids = r.ids
    <3>1. h.p.ids \in Seq(Updates)
      BY <1>2 DEF Routed
    <3> QED BY <1>3, <3>1, Joined DEF Follows
  <2>5. Takes(T, h, r, M, r.ids, <<>>)
    <3>1. h.p.tail = <<>>
      BY <1>2 DEF Routed, Fits
    <3> HIDE DEF T
    <3> QED BY <2>3, <2>4, <3>1 DEF Takes, Recorded, T
  <2> HIDE DEF T
  <2>6. w \in {v, NoWork} /\ ~Submits(w) /\ (w = NoWork \/ Held(w))
    BY DEF Submits, Held, NoWork
  <2>7. w = NoWork => \A i \in DOMAIN M : ~InFlight(M[i])
    BY <2>2, Idle DEF LedgerOK
  <2> HIDE DEF w
  <2>8. Ledgered(M, T.p, w)
    <3>1. T.p.ids = r.ids /\ T.p.tail = <<>> /\ T.p.recovery /\ T.p.sub = r.sub
      BY <1>3, <2>5 DEF Takes, Fits
    <3>2. \A u : ~Named(<<>>, u)
      BY DEF Named
    <3>3. \A k \in DOMAIN r.ids : \E i \in DOMAIN M :
            /\ M[i].id = r.ids[k] /\ M[i].sub = r.sub
            /\ IF Held(w) THEN Emitted(M[i]) \/ InFlight(M[i])
                          ELSE Emitted(M[i]) <=> ~Named(<<>>, r.ids[k])
      BY <2>2, <2>6, <2>7, <3>2
    <3> QED BY <2>6, <3>1, <3>3 DEF Ledgered
  <2>9. h.p.recovery /\ \A k \in DOMAIN <<>> : FALSE
    BY DEF Fits
  <2>10. /\ Good(T, w, periods, ran) /\ T.b.period = host[s].b.period
         /\ T.c.ledger = <<>> => host[s].c.ledger = <<>>
    <3>1. MayTake(h, r, M, w, r.ids, <<>>)
      BY <2>1, <2>2, <2>6, <2>9 DEF MayTake
    <3> QED BY <2>5, <2>8, <3>1, TakenGood
  <2>11. CASE due # <<>>
    <3>1. Releasing(s, T, "replay", due)
      BY <1>1, <1>5, <2>11 DEF T, M
    <3>2. w = v
      BY <2>11 DEF w
    <3> QED BY <2>3, <2>10, <3>1, <3>2, ReleasingSafe
  <2>12. CASE due = <<>>
    <3>1. Becomes(s, T) /\ UNCHANGED work
      BY <1>1, <1>5, <2>12 DEF T, M
    <3>2. w = NoWork
      BY <2>12 DEF w
    <3>3. T.b.period \in {0, host[s].b.period} /\ Forgets(s, T)
      BY <2>10, NothingOwed DEF Forgets
    <3> QED BY <2>10, <3>1, <3>2, <3>3, IdleSafe
  <2> QED BY <2>11, <2>12
<1> QED BY <1>4, <1>5

\* The updates of the packet r follow those that h has taken, ids being both,
\* and are new to the ledger.
NextIds(h, r, ids) ==
  /\ \A k \in DOMAIN ids : ids[k] = Upd(h.p.sub, k)
  /\ Distinct(ids) /\ Distinct(r.ids)
  /\ \A k \in DOMAIN r.ids :
       /\ r.ids[k][1] = r.sub
       /\ \A i \in DOMAIN h.c.ledger : h.c.ledger[i].id # r.ids[k]
       /\ \A j \in DOMAIN h.p.ids : h.p.ids[j] # r.ids[k]

\* The updates of a chunk are the next ones of its submission, and new.
LEMMA ChunkIds ==
  ASSUME SafeInv, NEW s \in Streams, NEW h, NEW r, Routable(h, s, r), ~h.p.recovery,
         ~Recovers(r), NEW ids, ids = h.p.ids \o r.ids
  PROVE  NextIds(h, r, ids)
<1> DEFINE L == h.c.ledger
<1>1. /\ h.p.ids \in Seq(Updates) /\ h.p.got = Len(h.p.ids)
      /\ \A k \in DOMAIN h.p.ids : h.p.ids[k] = Upd(h.p.sub, k)
      /\ LedgerOK(L, NoWork)
      /\ \A i \in DOMAIN L : L[i].sub = h.p.sub => Named(h.p.ids, L[i].id)
  <2>1. /\ Sound(h, NoWork, periods, ran) /\ Routed(h.b, h.p, NoWork)
        /\ Ledgered(h.c.ledger, h.p, NoWork)
    BY RoutableFacts
  <2>2. LedgerOK(L, NoWork)
    BY <2>1 DEF Sound
  <2>3. \A i \in DOMAIN L : L[i].sub = h.p.sub => Named(h.p.ids, L[i].id)
    BY <2>1 DEF Ledgered
  <2> QED BY <2>1, <2>2, <2>3 DEF Routed
<1>2. /\ r.ids \in Seq(Updates) /\ h.p.sub = r.sub
      /\ \A k \in DOMAIN r.ids : r.ids[k] = Upd(r.sub, h.p.got + k)
  BY DEF Routable
<1>3. /\ ids \in Seq(Updates) /\ Len(ids) = Len(h.p.ids) + Len(r.ids)
      /\ \A k \in DOMAIN h.p.ids : k \in DOMAIN ids /\ ids[k] = h.p.ids[k]
      /\ \A k \in DOMAIN r.ids : Len(h.p.ids) + k \in DOMAIN ids
                                 /\ ids[Len(h.p.ids) + k] = r.ids[k]
      /\ \A k \in DOMAIN ids : k \in DOMAIN h.p.ids
                               \/ \E j \in DOMAIN r.ids : k = Len(h.p.ids) + j
  <2>1. h.p.ids \in Seq(Updates) /\ r.ids \in Seq(Updates) /\ ids = h.p.ids \o r.ids
    BY <1>1, <1>2
  <2>2. Follows(ids, h.p.ids, r.ids)
    BY <2>1, Joined
  <2> QED BY <2>2 DEF Follows
<1>4. \A k \in DOMAIN ids : ids[k] = Upd(h.p.sub, k)
  <2> TAKE k \in DOMAIN ids
  <2>1. CASE k \in DOMAIN h.p.ids
    BY <1>1, <1>3, <2>1
  <2>2. CASE k \notin DOMAIN h.p.ids
    <3>1. PICK j \in DOMAIN r.ids : k = Len(h.p.ids) + j
      BY <1>3, <2>2
    <3> QED BY <1>1, <1>2, <1>3, <3>1
  <2> QED BY <2>1, <2>2
<1>5. \A j, k : Upd(h.p.sub, j) = Upd(h.p.sub, k) => j = k
  <2>1. \A k : Upd(h.p.sub, k)[2] = k
    BY DEF Upd
  <2> QED BY <2>1
<1>6. Distinct(ids)
  <2> SUFFICES ASSUME NEW j \in DOMAIN ids, NEW k \in DOMAIN ids, ids[j] = ids[k]
               PROVE  j = k
    BY DEF Distinct
  <2>1. Upd(h.p.sub, j) = Upd(h.p.sub, k)
    BY <1>4
  <2> QED BY <1>5, <2>1
<1>7. /\ Len(h.p.ids) \in Nat /\ DOMAIN h.p.ids = 1 .. Len(h.p.ids)
      /\ Len(r.ids) \in Nat /\ DOMAIN r.ids = 1 .. Len(r.ids)
  BY <1>1, <1>2
<1>8. Distinct(r.ids)
  <2> SUFFICES ASSUME NEW j \in DOMAIN r.ids, NEW k \in DOMAIN r.ids, r.ids[j] = r.ids[k]
               PROVE  j = k
    BY DEF Distinct
  <2>1. h.p.got + j = h.p.got + k
    BY <1>2, <1>5
  <2> QED BY <1>1, <1>7, <2>1
<1>9. ASSUME NEW k \in DOMAIN r.ids, NEW j \in DOMAIN h.p.ids PROVE h.p.ids[j] # r.ids[k]
  <2>1. h.p.ids[j] = r.ids[k] => j = h.p.got + k
    BY <1>1, <1>2, <1>5
  <2> QED BY <1>1, <1>7, <2>1
<1>10. ASSUME NEW k \in DOMAIN r.ids
       PROVE  r.ids[k][1] = r.sub /\ \A i \in DOMAIN L : L[i].id # r.ids[k]
  <2>1. r.ids[k][1] = r.sub
    BY <1>2 DEF Upd
  <2>2. ASSUME NEW i \in DOMAIN L, L[i].id = r.ids[k] PROVE FALSE
    <3>1. L[i].sub = h.p.sub
      BY <1>1, <1>2, <2>1, <2>2 DEF LedgerOK
    <3>2. PICK j \in DOMAIN h.p.ids : h.p.ids[j] = r.ids[k]
      BY <1>1, <2>2, <3>1 DEF Named
    <3> QED BY <1>9, <3>2
  <2> QED BY <2>1, <2>2
<1> QED BY <1>4, <1>6, <1>8, <1>9, <1>10 DEF NextIds

\* The ledger M has the updates ids of submission n; of those, and in it, what
\* the last chunk news brought is not emitted.
Holding(M, L, ids, news, n) ==
  /\ \A k \in DOMAIN ids : \E i \in DOMAIN M :
       /\ M[i].id = ids[k] /\ M[i].sub = n
       /\ \/ Emitted(M[i]) /\ ~Named(news, ids[k])
          \/ ~Emitted(M[i]) /\ Named(news, ids[k])
  /\ \A i \in DOMAIN M : M[i].sub = n => Named(ids, M[i].id)
  /\ \A i \in DOMAIN M : Named(news, M[i].id) => ~Emitted(M[i])
  /\ \A i \in DOMAIN M : i \in DOMAIN L \/ M[i].sub = n
  /\ \A i \in DOMAIN L : i \in DOMAIN M /\ M[i] = L[i]

\* What a ledger that has taken the chunk r keeps and has new.
LEMMA ChunkEntries ==
  ASSUME SafeInv, NEW s \in Streams, NEW h, NEW r, Routable(h, s, r), Fits(h, r),
         ~Recovers(r), NEW ids, ids = h.p.ids \o r.ids,
         NEW M, Appends(M, h.c.ledger, r.ids, r.sub)
  PROVE  Holding(M, h.c.ledger, ids, r.ids, r.sub)
<1> DEFINE L == h.c.ledger
<1>1. /\ h.p.ids \in Seq(Updates) /\ h.p.tail = <<>>
      /\ \A k \in DOMAIN h.p.ids : \E i \in DOMAIN L :
           L[i].id = h.p.ids[k] /\ L[i].sub = h.p.sub /\ Emitted(L[i])
      /\ \A i \in DOMAIN L : L[i].sub = h.p.sub => Named(h.p.ids, L[i].id)
  <2>1. Routed(h.b, h.p, NoWork) /\ Ledgered(h.c.ledger, h.p, NoWork)
    BY RoutableFacts
  <2>2. h.p.tail = <<>>
    BY <2>1 DEF Routed, Fits
  <2>3. \A u : ~Named(h.p.tail, u)
    BY <2>2 DEF Named
  <2>4. \A k \in DOMAIN h.p.ids : \E i \in DOMAIN L :
          L[i].id = h.p.ids[k] /\ L[i].sub = h.p.sub /\ Emitted(L[i])
    BY <2>1, <2>3, Idle DEF Ledgered
  <2>5. \A i \in DOMAIN L : L[i].sub = h.p.sub => Named(h.p.ids, L[i].id)
    BY <2>1 DEF Ledgered, Fits
  <2> QED BY <2>1, <2>2, <2>4, <2>5 DEF Routed
<1>2. r.ids \in Seq(Updates) /\ h.p.sub = r.sub
  BY DEF Routable
<1>3. /\ \A k \in DOMAIN h.p.ids : k \in DOMAIN ids /\ ids[k] = h.p.ids[k]
      /\ \A k \in DOMAIN r.ids : Len(h.p.ids) + k \in DOMAIN ids
                                 /\ ids[Len(h.p.ids) + k] = r.ids[k]
      /\ \A k \in DOMAIN ids : k \in DOMAIN h.p.ids
                               \/ \E j \in DOMAIN r.ids : k = Len(h.p.ids) + j
  <2>1. Follows(ids, h.p.ids, r.ids)
    BY <1>1, <1>2, Joined
  <2> QED BY <2>1 DEF Follows
<1>4. \A k \in DOMAIN r.ids :
        /\ \A i \in DOMAIN L : L[i].id # r.ids[k]
        /\ \A j \in DOMAIN h.p.ids : h.p.ids[j] # r.ids[k]
  <2>1. ~h.p.recovery
    BY DEF Fits
  <2>2. NextIds(h, r, ids)
    BY <2>1, ChunkIds
  <2> QED BY <2>2 DEF NextIds
<1>5. /\ \A i \in DOMAIN L : i \in DOMAIN M /\ M[i] = L[i]
      /\ \A i \in DOMAIN M : i \in DOMAIN L \/ \E k \in DOMAIN r.ids : i = Len(L) + k
  BY DEF Appends
<1>6. \A k \in DOMAIN r.ids :
        /\ Len(L) + k \in DOMAIN M /\ M[Len(L) + k].id = r.ids[k]
        /\ M[Len(L) + k].sub = r.sub /\ ~Emitted(M[Len(L) + k])
  <2> TAKE k \in DOMAIN r.ids
  <2>1. Len(L) + k \in DOMAIN M /\ M[Len(L) + k] = Entry(r.ids[k], r.sub, "READY")
    BY DEF Appends
  <2> HIDE DEF L
  <2> QED BY <2>1 DEF Entry, Emitted, EmittedStates
<1>7. ASSUME NEW k \in DOMAIN ids
      PROVE  \E i \in DOMAIN M :
               /\ M[i].id = ids[k] /\ M[i].sub = r.sub
               /\ \/ Emitted(M[i]) /\ ~Named(r.ids, ids[k])
                  \/ ~Emitted(M[i]) /\ Named(r.ids, ids[k])
  <2>1. CASE k \in DOMAIN h.p.ids
    <3>1. PICK i \in DOMAIN L : L[i].id = h.p.ids[k] /\ L[i].sub = h.p.sub /\ Emitted(L[i])
      BY <1>1, <2>1
    <3>2. ~Named(r.ids, ids[k])
      BY <1>3, <1>4, <2>1 DEF Named
    <3> QED BY <1>2, <1>3, <1>5, <2>1, <3>1, <3>2
  <2>2. CASE k \notin DOMAIN h.p.ids
    <3>1. PICK j \in DOMAIN r.ids : k = Len(h.p.ids) + j
      BY <1>3, <2>2
    <3>2. ids[k] = r.ids[j] /\ Named(r.ids, ids[k])
      BY <1>3, <3>1 DEF Named
    <3> QED BY <1>6, <3>2
  <2> QED BY <2>1, <2>2
<1>8. ASSUME NEW i \in DOMAIN M, M[i].sub = r.sub PROVE Named(ids, M[i].id)
  <2>1. CASE i \in DOMAIN L
    <3>1. PICK k \in DOMAIN h.p.ids : h.p.ids[k] = M[i].id
      BY <1>1, <1>2, <1>5, <1>8, <2>1 DEF Named
    <3> QED BY <1>3, <3>1 DEF Named
  <2>2. CASE i \notin DOMAIN L
    <3>1. PICK k \in DOMAIN r.ids : i = Len(L) + k
      BY <1>5, <2>2
    <3>2. M[i].id = r.ids[k]
      BY <1>6, <3>1
    <3>3. Len(h.p.ids) + k \in DOMAIN ids /\ ids[Len(h.p.ids) + k] = M[i].id
      BY <1>3, <3>2
    <3> QED BY <3>3 DEF Named
  <2> QED BY <2>1, <2>2
<1>9. ASSUME NEW i \in DOMAIN M, Named(r.ids, M[i].id) PROVE ~Emitted(M[i])
  <2>1. i \notin DOMAIN L
    BY <1>4, <1>5, <1>9 DEF Named
  <2> QED BY <1>5, <1>6, <2>1
<1>10. \A i \in DOMAIN M : i \in DOMAIN L \/ M[i].sub = r.sub
  BY <1>5, <1>6
<1> QED BY <1>5, <1>7, <1>8, <1>9, <1>10 DEF Holding

\* The ledger that has taken a chunk.
LEMMA ChunkTaken ==
  ASSUME SafeInv, NEW s \in Streams, NEW h, NEW r, Routable(h, s, r), Fits(h, r),
         ~Recovers(r), NEW ids, ids = h.p.ids \o r.ids,
         NEW M, M = h.c.ledger \o [k \in DOMAIN r.ids |-> Entry(r.ids[k], r.sub, "READY")]
  PROVE  /\ Appends(M, h.c.ledger, r.ids, r.sub) /\ NextIds(h, r, ids)
         /\ Holding(M, h.c.ledger, ids, r.ids, r.sub)
<1>1. h.c.ledger \in Ledgers /\ LedgerOK(h.c.ledger, NoWork) /\ r.sub \in Nat \ {0}
  BY RoutableFacts DEF Sound
<1>2. ~h.p.recovery
  BY DEF Fits
<1>3. NextIds(h, r, ids)
  BY <1>2, ChunkIds
<1>4. r.ids \in Seq(Updates)
  BY DEF Routable
<1>5. /\ Distinct(r.ids)
      /\ \A k \in DOMAIN r.ids :
           r.ids[k][1] = r.sub /\ \A i \in DOMAIN h.c.ledger : h.c.ledger[i].id # r.ids[k]
  BY <1>3 DEF NextIds
<1>6. Appends(h.c.ledger \o [k \in DOMAIN r.ids |-> Entry(r.ids[k], r.sub, "READY")],
              h.c.ledger, r.ids, r.sub)
  BY <1>1, <1>4, <1>5, AppendedOrder
<1>7. Appends(M, h.c.ledger, r.ids, r.sub)
  BY <1>6
<1>8. Holding(M, h.c.ledger, ids, r.ids, r.sub)
  BY <1>7, ChunkEntries
<1> QED BY <1>3, <1>7, <1>8

\* M and ids are the ledger and the updates of h with those of r.
Grown(M, ids, h, r) ==
  /\ ids = h.p.ids \o r.ids /\ NextIds(h, r, ids)
  /\ Appends(M, h.c.ledger, r.ids, r.sub)
  /\ Holding(M, h.c.ledger, ids, r.ids, r.sub)

\* A stream s may become g, with the work w.
GoesOn(g, s, w) ==
  /\ Good(g, w, periods, ran) /\ g.b.period = host[s].b.period
  /\ g.c.ledger = <<>> => host[s].c.ledger = <<>>

\* A chunk that waits: it is the last one, or it has no updates.
LEMMA ChunkKept ==
  ASSUME SafeInv, NEW s \in Streams, NEW h, NEW r, Routable(h, s, r), Fits(h, r),
         ~Recovers(r), Final(h, r) \/ r.ids = <<>>, NEW ids, NEW M, Grown(M, ids, h, r),
         NEW g, Takes(g, h, r, M, ids, r.ids)
  PROVE  GoesOn(g, s, NoWork)
<1> USE DEF Grown
<1>1. M \in Ledgers /\ LedgerOK(M, NoWork)
  BY DEF Appends
<1>2. ~h.p.recovery => \A k \in DOMAIN ids : ids[k] = Upd(h.p.sub, k)
  BY DEF NextIds
<1>3. Distinct(ids)
  BY DEF NextIds
<1>4. \A k \in DOMAIN r.ids : Named(ids, r.ids[k])
  <2>1. h.p.ids \in Seq(Updates) /\ r.ids \in Seq(Updates)
    BY RoutableFacts DEF Routed, Routable
  <2>2. Follows(ids, h.p.ids, r.ids)
    BY <2>1, Joined
  <2> QED BY <2>2 DEF Follows, Named
<1>5. \A i \in DOMAIN h.c.ledger :
        /\ i \in DOMAIN M /\ M[i].sub = h.c.ledger[i].sub
        /\ h.c.ledger[i].state = "COMMITTED" => M[i].state = "COMMITTED"
  BY DEF Holding
<1>6. \A i \in DOMAIN M : i \in DOMAIN h.c.ledger \/ M[i].sub = r.sub
  BY DEF Holding
<1>7. Ledgered(M, g.p, NoWork)
  <2>1. g.p.ids = ids /\ g.p.tail = r.ids /\ g.p.sub = r.sub
    BY DEF Takes, Routable
  <2>2. \A k \in DOMAIN ids : \E i \in DOMAIN M :
          M[i].id = ids[k] /\ M[i].sub = r.sub /\ (Emitted(M[i]) <=> ~Named(r.ids, ids[k]))
    BY DEF Holding
  <2>3. \A i \in DOMAIN M : M[i].sub = r.sub => Named(ids, M[i].id)
    BY DEF Holding
  <2> QED BY <2>1, <2>2, <2>3, Idle DEF Ledgered
<1>9. r.ids \in Seq(Updates)
  BY DEF Routable
<1>8. MayTake(h, r, M, NoWork, ids, r.ids)
  BY <1>1, <1>2, <1>3, <1>4, <1>5, <1>6, <1>9, Idle DEF MayTake
<1> QED BY <1>7, <1>8, TakenGood DEF GoesOn

\* A chunk that is realized now.
LEMMA ChunkReleased ==
  ASSUME SafeInv, NEW s \in Streams, NEW h, NEW r, Routable(h, s, r), Fits(h, r),
         ~Recovers(r), NEW ids, NEW M, Grown(M, ids, h, r), ReleaseBatchOK(M, r.ids),
         NEW v, v = [op |-> "release", s |-> s, ids |-> r.ids],
         NEW B, B = SetStates(M, r.ids, AllOf(r.ids), "RELEASE_IN_FLIGHT"),
         NEW g, Takes(g, h, r, B, ids, <<>>)
  PROVE  GoesOn(g, s, v)
<1> USE DEF Grown
<1>1. M \in Ledgers /\ LedgerOK(M, NoWork) /\ r.ids \in Seq(Updates)
  BY DEF Appends, Routable
<1>2. v.ids = r.ids /\ v.op = "release"
  OBVIOUS
<1>3. Flying(v) /\ Held(v) /\ ~Submits(v) /\ FlightOf(v) = "RELEASE_IN_FLIGHT"
  BY <1>2 DEF Flying, Held, Submits, FlightOf
<1>4. (\A k \in DOMAIN r.ids : Has(M, r.ids[k])) /\ NoOvertaking(M, r.ids)
  BY DEF ReleaseBatchOK
<1>5. \A i \in DOMAIN M : Named(r.ids, M[i].id) => ~Emitted(M[i])
  BY DEF Holding
<1>6. /\ Restates(B, M) /\ LedgerOK(B, v)
      /\ \A i \in DOMAIN M : IF Named(r.ids, M[i].id) THEN InFlight(B[i]) ELSE B[i] = M[i]
  BY <1>1, <1>2, <1>3, <1>4, <1>5, Idle, BatchOrder
<1>7. /\ B \in Ledgers /\ DOMAIN B = DOMAIN M
      /\ \A i \in DOMAIN M : B[i].id = M[i].id /\ B[i].sub = M[i].sub
  BY <1>6 DEF Restates
<1>8. ~h.p.recovery => \A k \in DOMAIN ids : ids[k] = Upd(h.p.sub, k)
  BY DEF NextIds
<1>9. Distinct(ids)
  BY DEF NextIds
<1>10. \A k \in DOMAIN <<>> : Named(ids, <<>>[k])
  OBVIOUS
<1>11. \A i \in DOMAIN h.c.ledger :
         /\ i \in DOMAIN B /\ B[i].sub = h.c.ledger[i].sub
         /\ h.c.ledger[i].state = "COMMITTED" => B[i].state = "COMMITTED"
  <2> TAKE i \in DOMAIN h.c.ledger
  <2>1. i \in DOMAIN M /\ M[i] = h.c.ledger[i]
    BY DEF Holding
  <2>2. M[i].state = "COMMITTED" => ~Named(r.ids, M[i].id)
    BY <1>5, <2>1 DEF Emitted, EmittedStates
  <2> QED BY <1>6, <1>7, <2>1, <2>2
<1>12. \A i \in DOMAIN B : i \in DOMAIN h.c.ledger \/ B[i].sub = r.sub
  BY <1>7 DEF Holding
<1>13. Ledgered(B, g.p, v)
  <2>1. g.p.ids = ids /\ g.p.sub = r.sub
    BY DEF Takes, Routable
  <2>2. ASSUME NEW k \in DOMAIN ids
        PROVE  \E i \in DOMAIN B :
                 B[i].id = ids[k] /\ B[i].sub = r.sub /\ (Emitted(B[i]) \/ InFlight(B[i]))
    <3>1. PICK i \in DOMAIN M : M[i].id = ids[k] /\ M[i].sub = r.sub
                                /\ (Emitted(M[i]) \/ Named(r.ids, M[i].id))
      BY DEF Holding
    <3>2. Emitted(B[i]) \/ InFlight(B[i])
      BY <1>6, <3>1
    <3> QED BY <1>7, <3>1, <3>2
  <2>3. \A i \in DOMAIN B : B[i].sub = r.sub => Named(ids, B[i].id)
    BY <1>7 DEF Holding
  <2>4. Held(v)
    BY <1>3
  <2>5. ASSUME NEW k \in DOMAIN g.p.ids
        PROVE  \E i \in DOMAIN B :
                 B[i].id = g.p.ids[k] /\ B[i].sub = g.p.sub /\ (Emitted(B[i]) \/ InFlight(B[i]))
    <3>1. k \in DOMAIN ids /\ g.p.ids[k] = ids[k]
      BY <2>1
    <3>2. PICK i \in DOMAIN B :
            B[i].id = ids[k] /\ B[i].sub = r.sub /\ (Emitted(B[i]) \/ InFlight(B[i]))
      BY <2>2, <3>1
    <3> QED BY <2>1, <3>1, <3>2
  <2>6. \A i \in DOMAIN B : B[i].sub = g.p.sub => Named(g.p.ids, B[i].id)
    BY <2>1, <2>3
  <2> QED BY <2>4, <2>5, <2>6 DEF Ledgered
<1>15. <<>> \in Seq(Updates)
  OBVIOUS
<1>14. MayTake(h, r, B, v, ids, <<>>)
  BY <1>15, <1>3, <1>6, <1>7, <1>8, <1>9, <1>10, <1>11, <1>12 DEF MayTake
<1> QED BY <1>13, <1>14, TakenGood DEF GoesOn

\* Of the stream h, k has all but the ledger, which is M.
Relisted(k, h, M) ==
  /\ Shape(k) /\ SameCount(k, h) /\ k.b = h.b /\ k.p = h.p /\ k.c.ledger = M
  /\ k.c.stage = h.c.stage /\ k.c.cur = h.c.cur /\ k.c.last = h.c.last
  /\ k.c.open = h.c.open

\* The fields of a stream whose ledger alone is another.
LEMMA LedgerFields ==
  ASSUME NEW h, NEW M, Shape(h)
  PROVE  Relisted([h EXCEPT !.c.ledger = M], h, M)
BY DEF Relisted, Shape, SameCount, NewBridge, LegacyCore, NoPending

\* A chunk that the ledger has taken and does not release.
LEMMA ChunkDropped ==
  ASSUME CountInv, SafeInv, work = NoWork, UNCHANGED <<work, ran, periods>>,
         NEW s \in Streams, NEW h, NEW r, Routable(h, s, r), Fits(h, r),
         ~Recovers(r), NEW ids, NEW M, Grown(M, ids, h, r),
         host' = Cancelled(s, Dropped([h EXCEPT !.c.ledger = M], TRUE), r)
  PROVE  SafeInv' /\ Remembered
<1> USE DEF Grown
<1> DEFINE k == [h EXCEPT !.c.ledger = M]
           L == h.c.ledger
<1>1. /\ Shape(h) /\ Sound(h, NoWork, periods, ran) /\ Current(h.b, h.c, h.p, ran)
      /\ ~h.b.deferred /\ ~h.b.committed
      /\ r.sub \in Nat \ {0} /\ h.b.sub = r.sub /\ h.b.last = r.sub /\ h.b.period = r.sub
  BY RoutableFacts
<1>0. Relisted(k, h, M)
  BY <1>1, LedgerFields
<1>3. host' = Cancelled(s, Dropped(k, TRUE), r)
  OBVIOUS
<1> HIDE DEF k
<1>2. /\ SameCount(k, h) /\ k.b = h.b /\ k.p = h.p /\ k.c.ledger = M
      /\ k.c.stage = h.c.stage /\ k.c.cur = h.c.cur /\ k.c.last = h.c.last
      /\ k.c.open = h.c.open
  BY <1>0 DEF Relisted
<1>4. /\ Counted(h, FALSE, FALSE) /\ h.c.cur = r.sub /\ h.c.stage \in Learned \cup {"RECOVER"}
      /\ h.b.period = host[s].b.period /\ (L = <<>> => host[s].c.ledger = <<>>)
  BY DEF Routable
<1>5. Counted(k, FALSE, FALSE)
  BY <1>2, <1>4, SameIsCounted
<1>6. M \in Ledgers /\ LedgerOK(M, NoWork)
  BY DEF Appends
<1>7. /\ \A i \in DOMAIN L : i \in DOMAIN M /\ M[i] = L[i]
      /\ \A i \in DOMAIN M : i \in DOMAIN L \/ M[i].sub = r.sub
  BY DEF Holding
<1>8. Settled(M, h.b)
  <2> SUFFICES ASSUME NEW i \in DOMAIN M
               PROVE  /\ M[i].sub <= h.b.last
                      /\ M[i].state # "COMMITTED" =>
                           h.b.open /\ M[i].sub = h.b.sub /\ ~h.b.committed
    BY DEF Settled
  <2>1. CASE i \in DOMAIN L
    BY <1>1, <1>7, <2>1 DEF Sound, Settled
  <2>2. CASE M[i].sub = r.sub
    BY <1>1, <2>2 DEF Current
  <2> QED BY <1>7, <2>1, <2>2
<1>9. Occurs(h.b, M, periods, ran)
  BY <1>1 DEF Sound, Occurs, Current
<1>10. Agrees(k.b, k.c)
  <2>1. h.c.stage \notin {"LEGACY", "DETECT"}
    BY <1>4 DEF Learned
  <2> QED BY <1>1, <1>2, <1>4, <2>1 DEF Sound, Agrees
<1>11. Sound(k, NoWork, periods, ran)
  BY <1>2, <1>6, <1>8, <1>9, <1>10 DEF Sound
<1>12. k.c.ledger = <<>> => host[s].c.ledger = <<>>
  <2>1. L \in Seq(Entries)
    BY <1>1 DEF Sound, Ledgers
  <2>2. M = <<>> => L = <<>>
    <3> SUFFICES ASSUME M = <<>> PROVE L = <<>>
      OBVIOUS
    <3>1. DOMAIN M = {}
      OBVIOUS
    <3>2. DOMAIN L = {}
      BY <1>7, <3>1
    <3> HIDE DEF L
    <3> QED BY <2>1, <3>2
  <2> QED BY <1>2, <1>4, <2>2
<1>13. k.p.started => k.c.stage = "RECOVER"
  BY <1>1, <1>2 DEF Current
<1>14. ~k.b.deferred /\ k.b.period = host[s].b.period
  BY <1>1, <1>2, <1>4
<1> QED BY <1>3, <1>5, <1>11, <1>12, <1>13, <1>14, DropSafe

\* A chunk is taken, realized or kept, or its submission is dropped.
LEMMA ChunkSafe ==
  ASSUME CountInv, SafeInv, work = NoWork, UNCHANGED <<ran, periods>>, NEW s \in Streams,
         NEW h, NEW r, NEW accepted, Routable(h, s, r), Fits(h, r), ~Recovers(r),
         RouteChunk(s, h, r, accepted)
  PROVE  SafeInv' /\ Remembered
<1> DEFINE M == h.c.ledger \o [k \in DOMAIN r.ids |-> Entry(r.ids[k], r.sub, "READY")]
           B == SetStates(M, r.ids, AllOf(r.ids), "RELEASE_IN_FLIGHT")
           T(L) == Taken(h, r, L)
           E == [T(M) EXCEPT !.p.tail = r.ids]
           ids == h.p.ids \o r.ids
           v == [op |-> "release", s |-> s, ids |-> r.ids]
           Drops(k) == host' = Cancelled(s, Dropped(k, TRUE), r) /\ UNCHANGED work
<1>1. \/ Drops(h)
      \/ Final(h, r) /\ Becomes(s, E) /\ UNCHANGED work
      \/ ~Final(h, r) /\ r.ids = <<>> /\ Becomes(s, T(M)) /\ UNCHANGED work
      \/ ReleaseBatchOK(M, r.ids) /\ Releasing(s, T(B), "release", r.ids)
      \/ Drops([h EXCEPT !.c.ledger = M])
  BY DEF RouteChunk
<1>2. /\ Shape(h) /\ Sound(h, NoWork, periods, ran) /\ Current(h.b, h.c, h.p, ran)
      /\ Routed(h.b, h.p, NoWork) /\ ~h.b.deferred
  BY RoutableFacts
<1>3. /\ Counted(h, FALSE, FALSE)
      /\ h.b.period = host[s].b.period /\ (h.c.ledger = <<>> => host[s].c.ledger = <<>>)
  BY DEF Routable
<1>4. h.p.tail = <<>>
  BY <1>2 DEF Routed, Fits
<1>5. Grown(M, ids, h, r)
  BY ChunkTaken DEF Grown
<1>6. \A L : Shape(T(L)) /\ Recorded(T(L), h, r, L)
  BY <1>2, TakenFields
<1>7. CASE Drops(h)
  <2>1. h.p.started => h.c.stage = "RECOVER"
    BY <1>2 DEF Current
  <2> QED BY <1>2, <1>3, <1>7, <2>1, DropSafe
<1>8. CASE Drops([h EXCEPT !.c.ledger = M])
  <2> HIDE DEF M, ids
  <2>1. host' = Cancelled(s, Dropped([h EXCEPT !.c.ledger = M], TRUE), r) /\ UNCHANGED work
    BY <1>8
  <2> QED BY <1>5, <2>1, ChunkDropped
<1>9. CASE Final(h, r) /\ Becomes(s, E) /\ UNCHANGED work
  <2> HIDE DEF M, T
  <2>1. Takes(E, h, r, M, ids, r.ids)
    <3> DEFINE t == T(M)
    <3>1. Shape(t) /\ Recorded(t, h, r, M) /\ t = Taken(h, r, M)
      BY <1>6 DEF T
    <3>2. E = [t EXCEPT !.p.tail = r.ids]
      OBVIOUS
    <3> HIDE DEF t, E
    <3>3. /\ E.b = t.b /\ E.c = t.c /\ E.p.tail = r.ids
          /\ E.p.sub = t.p.sub /\ E.p.n = t.p.n /\ E.p.chunks = t.p.chunks
          /\ E.p.recovery = t.p.recovery /\ E.p.started = t.p.started
          /\ E.p.listed = t.p.listed /\ E.p.got = t.p.got /\ E.p.complete = t.p.complete
          /\ E.p.ids = t.p.ids
      BY <3>1, <3>2 DEF Shape, NoPending
    <3> HIDE DEF ids
    <3>4. ids = h.p.ids \o r.ids
      BY DEF ids
    <3> QED BY <3>1, <3>3, <3>4 DEF Takes, Recorded
  <2> HIDE DEF E, ids
  <2>2. Final(h, r)
    BY <1>9
  <2>3. GoesOn(E, s, NoWork)
    BY <1>5, <2>1, <2>2, ChunkKept
  <2>4. /\ Good(E, NoWork, periods, ran) /\ E.b.period = host[s].b.period
        /\ (E.c.ledger = <<>> => host[s].c.ledger = <<>>)
    BY <2>3 DEF GoesOn
  <2> QED BY <1>9, <2>4, NothingOwed, IdleSafe DEF Forgets
<1>10. CASE ~Final(h, r) /\ r.ids = <<>> /\ Becomes(s, T(M)) /\ UNCHANGED work
  <2> DEFINE t == T(M)
  <2> HIDE DEF M, ids
  <2>1. t = Taken(h, r, M) /\ Recorded(t, h, r, M) /\ ids = h.p.ids \o r.ids
    BY <1>6 DEF ids
  <2> HIDE DEF t
  <2>2. Takes(t, h, r, M, ids, r.ids)
    BY <1>4, <1>10, <2>1 DEF Takes, Recorded
  <2>0. GoesOn(t, s, NoWork)
    BY <1>5, <1>10, <2>2, ChunkKept
  <2>3. /\ Good(t, NoWork, periods, ran) /\ t.b.period = host[s].b.period
        /\ (t.c.ledger = <<>> => host[s].c.ledger = <<>>)
    BY <2>0 DEF GoesOn
  <2>4. Becomes(s, t)
    BY <1>10 DEF t
  <2> QED BY <1>10, <2>3, <2>4, NothingOwed, IdleSafe DEF Forgets
<1>11. CASE ReleaseBatchOK(M, r.ids) /\ Releasing(s, T(B), "release", r.ids)
  <2> DEFINE t == T(B)
  <2>0. B = SetStates(M, r.ids, AllOf(r.ids), "RELEASE_IN_FLIGHT")
    OBVIOUS
  <2> HIDE DEF M, B, ids
  <2>1. t = Taken(h, r, B) /\ Shape(t) /\ Recorded(t, h, r, B) /\ ids = h.p.ids \o r.ids
    BY <1>6 DEF ids
  <2> HIDE DEF t
  <2>2. Takes(t, h, r, B, ids, <<>>)
    BY <1>4, <2>1 DEF Takes, Recorded
  <2>3. v = [op |-> "release", s |-> s, ids |-> r.ids]
    OBVIOUS
  <2> HIDE DEF v
  <2>6. ReleaseBatchOK(M, r.ids)
    BY <1>11
  <2>7. GoesOn(t, s, v)
    BY <1>5, <2>0, <2>2, <2>3, <2>6, ChunkReleased
  <2>4. /\ Good(t, v, periods, ran) /\ t.b.period = host[s].b.period
        /\ (t.c.ledger = <<>> => host[s].c.ledger = <<>>)
    BY <2>7 DEF GoesOn
  <2>5. Releasing(s, t, "release", r.ids)
    BY <1>11 DEF t
  <2> QED BY <2>1, <2>3, <2>4, <2>5, ReleasingSafe
<1> HIDE DEF Drops, M, B, T, E
<1> QED BY <1>1, <1>7, <1>8, <1>9, <1>10, <1>11

\* A route packet: it is refused, or its submission is dropped, or it is taken.
LEMMA RouteSafe ==
  ASSUME CountInv, SafeInv, NEW s \in Streams, NEW r \in Packets(s),
         NEW accepted \in BOOLEAN, Route(s, r, accepted)
  PROVE  SafeInv' /\ Remembered
<1> DEFINE bound == IF Admitted(s, r) THEN [host[s] EXCEPT !.b.queue = r.queue] ELSE host[s]
           h == IF Begins(r) THEN Begun(bound, r) ELSE bound
           first == IF Begins(r) THEN FirstOfSubmission(s, r) ELSE NextOfSubmission(bound, r)
<1>1. /\ work = NoWork /\ Live(s) /\ UNCHANGED <<ran, periods>>
      /\ IF Admitted(s, r) /\ first
         THEN IF ~Fits(h, r)
              THEN host' = Cancelled(s, Dropped(h, TRUE), r) /\ UNCHANGED work
              ELSE IF Recovers(r)
              THEN RouteReplay(s, h, r)
              ELSE RouteChunk(s, h, r, accepted)
         ELSE host' = Cancelled(s, bound, r) /\ UNCHANGED work
  BY DEF Route
<1>2. /\ Shape(host[s]) /\ Counted(host[s], FALSE, FALSE)
      /\ Good(host[s], NoWork, periods, ran)
  BY <1>1, IdleStands
<1>3. /\ bound.c = host[s].c /\ bound.p = host[s].p /\ bound.b.deferred = host[s].b.deferred
      /\ SameB(bound.b, host[s].b) /\ SameCount(bound, host[s])
  BY <1>2 DEF SameB, SameCount, Shape, NewBridge, LegacyCore, NoPending
<1>4. CASE ~(Admitted(s, r) /\ first)
  <2>1. host' = Cancelled(s, bound, r) /\ UNCHANGED work
    BY <1>1, <1>4
  <2> HIDE DEF bound
  <2>2. Counted(bound, FALSE, FALSE)
    BY <1>2, <1>3, SameIsCounted
  <2>3. Sound(bound, NoWork, periods, ran)
    BY <1>2, <1>3, Framed DEF Good, SameC
  <2>4. Pends(bound, NoWork, ran)
    BY <1>2, <1>3, FramedPends DEF Good, SameP
  <2>5. /\ Deferral(bound.b, NoWork) /\ bound.b.period = host[s].b.period
        /\ (bound.c.ledger = <<>> => host[s].c.ledger = <<>>)
    BY <1>2, <1>3 DEF Good, Deferral, SameB
  <2> QED BY <1>1, <2>1, <2>2, <2>3, <2>4, <2>5, CancelledSafe
<1>5. CASE Admitted(s, r) /\ first
  <2>1. bound = [host[s] EXCEPT !.b.queue = r.queue]
    BY <1>5
  <2>2. IF Begins(r) THEN FirstOfSubmission(s, r) ELSE NextOfSubmission(bound, r)
    BY <1>5
  <2> HIDE DEF bound
  <2>3. h = IF Begins(r) THEN Begun(bound, r) ELSE bound
    OBVIOUS
  <2> HIDE DEF h, first
  <2>4. Routable(h, s, r)
    BY <1>1, <1>5, <2>1, <2>2, <2>3, AdmittedRoutable
  <2>5. CASE ~Fits(h, r)
    <3>1. host' = Cancelled(s, Dropped(h, TRUE), r) /\ UNCHANGED work
      BY <1>1, <1>5, <2>5
    <3>2. /\ Sound(h, NoWork, periods, ran) /\ Current(h.b, h.c, h.p, ran) /\ ~h.b.deferred
      BY <2>4, RoutableFacts
    <3>3. h.p.started => h.c.stage = "RECOVER"
      BY <3>2 DEF Current
    <3>4. /\ Counted(h, FALSE, FALSE) /\ h.b.period = host[s].b.period
          /\ (h.c.ledger = <<>> => host[s].c.ledger = <<>>)
      BY <2>4 DEF Routable
    <3> QED BY <1>1, <3>1, <3>2, <3>3, <3>4, DropSafe
  <2>6. CASE Fits(h, r) /\ Recovers(r)
    <3>1. RouteReplay(s, h, r)
      BY <1>1, <1>5, <2>6
    <3> QED BY <1>1, <2>4, <2>6, <3>1, ReplaySafe
  <2>7. CASE Fits(h, r) /\ ~Recovers(r)
    <3>1. RouteChunk(s, h, r, accepted)
      BY <1>1, <1>5, <2>7
    <3> QED BY <1>1, <2>4, <2>7, <3>1, ChunkSafe
  <2> QED BY <2>5, <2>6, <2>7
<1> QED BY <1>4, <1>5

-----------------------------------------------------------------------------
(* The submit gate and the end of host work. *)

\* The fields of a stream whose submit is ready: the ledger is L.
LEMMA ReadyFields ==
  ASSUME NEW h, NEW L, Shape(h)
  PROVE  LET g == [h EXCEPT !.c.ledger = L, !.p.submitting = TRUE,
                            !.p.refs = @ + 1, !.b.inflight = @ + 1]
         IN /\ SameB(g.b, h.b) /\ g.b.deferred = h.b.deferred
            /\ g.c.ledger = L /\ g.c.stage = h.c.stage /\ g.c.cur = h.c.cur
            /\ g.c.last = h.c.last /\ g.c.open = h.c.open
            /\ SameP(g.p, h.p) /\ g.p.listed = h.p.listed
<1> DEFINE c == [h.c EXCEPT !.ledger = L]
           p == [h.p EXCEPT !.submitting = TRUE, !.refs = @ + 1]
           b == [h.b EXCEPT !.inflight = @ + 1]
           e == [h EXCEPT !.c = c, !.p = p, !.b = b]
           g == [h EXCEPT !.c.ledger = L, !.p.submitting = TRUE,
                          !.p.refs = @ + 1, !.b.inflight = @ + 1]
<1>1. g = e
  BY DEF Shape, NewBridge, LegacyCore, NoPending
<1> HIDE DEF g
<1>2. c.ledger = L /\ c.stage = h.c.stage /\ c.cur = h.c.cur /\ c.last = h.c.last
      /\ c.open = h.c.open
  BY DEF Shape, LegacyCore
<1>3. SameP(p, h.p) /\ p.listed = h.p.listed
  BY DEF Shape, SameP, NoPending
<1>4. SameB(b, h.b) /\ b.deferred = h.b.deferred
  BY DEF Shape, SameB, NewBridge
<1> HIDE DEF c, p, b
<1>5. e.b = b /\ e.c = c /\ e.p = p
  BY DEF Shape
<1> HIDE DEF e
<1> QED BY <1>1, <1>2, <1>3, <1>4, <1>5 DEF g

\* In the ledger of a submission that waits for its submit, the tail is not
\* emitted, and the rest of its updates is.
LEMMA TailWaits ==
  ASSUME NEW L, NEW p, LedgerOK(L, NoWork), Ledgered(L, p, NoWork),
         \A k \in DOMAIN p.tail : Named(p.ids, p.tail[k])
  PROVE  \A i \in DOMAIN L : Named(p.tail, L[i].id) => ~Emitted(L[i])
<1> SUFFICES ASSUME NEW i \in DOMAIN L, Named(p.tail, L[i].id)
             PROVE  ~Emitted(L[i])
  OBVIOUS
<1>1. PICK k \in DOMAIN p.tail : p.tail[k] = L[i].id
  BY DEF Named
<1>2. PICK m \in DOMAIN p.ids : p.ids[m] = L[i].id
  BY <1>1 DEF Named
<1>3. PICK j \in DOMAIN L : L[j].id = p.ids[m] /\ (Emitted(L[j]) <=> ~Named(p.tail, p.ids[m]))
  BY Idle DEF Ledgered
<1>4. j = i
  BY <1>2, <1>3 DEF LedgerOK
<1> QED BY <1>2, <1>3, <1>4

\* A submit that is ready: what it waits for is in flight, and the submission
\* is all in the ledger.
LEMMA ReadyLedger ==
  ASSUME NEW h, NEW R, h.p.listed, Pends(h, NoWork, R), Shape(h),
         h.c.ledger \in Ledgers, LedgerOK(h.c.ledger, NoWork),
         h.p.complete, h.p.recovery => ReplayWhole(h), ReleaseBatchOK(h.c.ledger, h.p.tail),
         NEW v, v.op \in {"realize", "skip"}, v.ids = h.p.tail,
         NEW M, M = SetStates(h.c.ledger, h.p.tail, AllOf(h.p.tail), "RELEASE_IN_FLIGHT")
  PROVE  /\ Restates(M, h.c.ledger) /\ LedgerOK(M, v) /\ Ledgered(M, h.p, v)
         /\ \A i \in DOMAIN M : h.c.ledger[i].state = "COMMITTED" => M[i].state = "COMMITTED"
<1> DEFINE L == h.c.ledger
           p == h.p
<1>1. Routed(h.b, p, NoWork) /\ Ledgered(L, p, NoWork)
  BY DEF Pends
<1>2. /\ p.ids \in Seq(Updates) /\ p.tail \in Seq(Updates) /\ Distinct(p.ids)
      /\ p.n = Len(p.ids) /\ \A k \in DOMAIN p.tail : Named(p.ids, p.tail[k])
  BY <1>1 DEF Routed
<1>3. Flying(v) /\ Held(v) /\ Submits(v) /\ FlightOf(v) = "RELEASE_IN_FLIGHT"
  BY DEF Flying, Held, Submits, FlightOf
<1>4. (\A k \in DOMAIN p.tail : Has(L, p.tail[k])) /\ NoOvertaking(L, p.tail)
  BY DEF ReleaseBatchOK
<1>5. \A i \in DOMAIN L : Named(p.tail, L[i].id) => ~Emitted(L[i])
  BY <1>1, <1>2, TailWaits
<1>6. /\ Restates(M, L) /\ LedgerOK(M, v)
      /\ \A i \in DOMAIN L : IF Named(p.tail, L[i].id) THEN InFlight(M[i]) ELSE M[i] = L[i]
  BY <1>2, <1>3, <1>4, <1>5, Idle, BatchOrder
<1>7. /\ DOMAIN M = DOMAIN L /\ \A i \in DOMAIN L : M[i].id = L[i].id /\ M[i].sub = L[i].sub
  BY <1>6 DEF Restates
<1>8. ASSUME NEW k \in DOMAIN p.ids
      PROVE  \E i \in DOMAIN M : /\ M[i].id = p.ids[k] /\ M[i].sub = p.sub
                                 /\ Emitted(M[i]) \/ InFlight(M[i])
  <2>1. PICK i \in DOMAIN L : /\ L[i].id = p.ids[k] /\ L[i].sub = p.sub
                              /\ Emitted(L[i]) <=> ~Named(p.tail, p.ids[k])
    BY <1>1, Idle DEF Ledgered
  <2>2. Emitted(M[i]) \/ InFlight(M[i])
    BY <1>6, <2>1
  <2> QED BY <1>7, <2>1, <2>2
<1>9. \A i \in DOMAIN L : L[i].sub = p.sub => Named(p.ids, L[i].id)
  <2>1. CASE ~p.recovery
    BY <1>1, <2>1 DEF Ledgered
  <2>2. CASE p.recovery
    <3>1. Cardinality(EntriesOf(L, p.sub)) = Len(p.ids)
      BY <1>2, <2>2 DEF ReplayWhole
    <3>2. \A k \in DOMAIN p.ids : \E i \in DOMAIN L : L[i].id = p.ids[k] /\ L[i].sub = p.sub
      BY <1>1 DEF Ledgered
    <3>3. \A i, j \in DOMAIN L : L[i].id = L[j].id => i = j
      BY DEF LedgerOK
    <3> HIDE DEF L, p
    <3> QED BY <1>2, <3>1, <3>2, <3>3, Numbered DEF L
  <2> QED BY <2>1, <2>2
<1>10. \A i \in DOMAIN M : M[i].sub = p.sub => Named(p.ids, M[i].id)
  BY <1>7, <1>9
<1>11. Ledgered(M, p, v)
  BY <1>3, <1>8, <1>10 DEF Ledgered
<1>12. \A i \in DOMAIN M : L[i].state = "COMMITTED" => M[i].state = "COMMITTED"
  BY <1>5, <1>6, <1>7 DEF Emitted, EmittedStates
<1> QED BY <1>6, <1>11, <1>12

\* The submit gate lets a routed submission through: its last chunk is realized.
LEMMA SubmitReadySafe ==
  ASSUME CountInv, SafeInv, NEW s \in Streams, NEW real \in BOOLEAN, SubmitReady(s, real)
  PROVE  SafeInv' /\ Remembered
<1> DEFINE h == host[s]
           L == h.c.ledger
           M == SetStates(L, h.p.tail, AllOf(h.p.tail), "RELEASE_IN_FLIGHT")
           g == [h EXCEPT !.c.ledger = M, !.p.submitting = TRUE,
                          !.p.refs = @ + 1, !.b.inflight = @ + 1]
           v == [op |-> IF real THEN "realize" ELSE "skip", s |-> s, ids |-> h.p.tail]
<1>1. /\ work = NoWork /\ work' = v /\ h.p.listed /\ UNCHANGED <<ran, periods>>
      /\ h.p.complete /\ (h.p.recovery => ReplayWhole(h)) /\ ReleaseBatchOK(L, h.p.tail)
  BY DEF SubmitReady
<1>2. Shape(h) /\ Good(h, NoWork, periods, ran)
  BY <1>1, IdleStands
<1>3. Becomes(s, g)
  <2>1. Becomes(s, [h EXCEPT
          !.c.ledger = SetStates(@, h.p.tail, AllOf(h.p.tail), "RELEASE_IN_FLIGHT"),
          !.p.submitting = TRUE, !.p.refs = @ + 1, !.b.inflight = @ + 1])
    BY DEF SubmitReady
  <2>2. g = [h EXCEPT
          !.c.ledger = SetStates(@, h.p.tail, AllOf(h.p.tail), "RELEASE_IN_FLIGHT"),
          !.p.submitting = TRUE, !.p.refs = @ + 1, !.b.inflight = @ + 1]
    BY <1>2 DEF Shape, NewBridge, LegacyCore, NoPending
  <2> QED BY <2>1, <2>2, Zenon
<1>4. v.op \in {"realize", "skip"} /\ v.ids = h.p.tail /\ v.s = s /\ v # NoWork
  BY DEF NoWork
<1>5. M = SetStates(L, h.p.tail, AllOf(h.p.tail), "RELEASE_IN_FLIGHT")
  OBVIOUS
<1> HIDE DEF h, M, v
<1>6. /\ SameB(g.b, h.b) /\ g.b.deferred = h.b.deferred
      /\ g.c.ledger = M /\ g.c.stage = h.c.stage /\ g.c.cur = h.c.cur
      /\ g.c.last = h.c.last /\ g.c.open = h.c.open
      /\ SameP(g.p, h.p) /\ g.p.listed = h.p.listed
  BY <1>2, ReadyFields
<1> HIDE DEF g
<1>7. Sound(h, NoWork, periods, ran) /\ Pends(h, NoWork, ran) /\ L \in Ledgers
      /\ LedgerOK(L, NoWork)
  BY <1>2 DEF Good, Sound
<1>8. /\ Restates(M, L) /\ LedgerOK(M, v) /\ Ledgered(M, h.p, v)
      /\ \A i \in DOMAIN M : L[i].state = "COMMITTED" => M[i].state = "COMMITTED"
  BY <1>1, <1>2, <1>4, <1>5, <1>7, ReadyLedger
<1>9. M \in Ledgers /\ DOMAIN M = DOMAIN L
  BY <1>8 DEF Restates
<1>10. M = <<>> <=> L = <<>>
  BY <1>7, <1>9 DEF Ledgers
<1>11. Settled(M, h.b)
  BY <1>7, <1>8, <1>9, SettledAgain DEF Sound
<1>12. Sound(g, v, periods, ran)
  <2>1. Settled(M, g.b) /\ Occurs(g.b, M, periods, ran)
    BY <1>6, <1>7, <1>10, <1>11 DEF Sound, Occurs, Settled, SameB
  <2>2. Agrees(g.b, g.c)
    BY <1>6, <1>7, <1>10 DEF Sound, Agrees, SameB
  <2> QED BY <1>6, <1>8, <1>9, <2>1, <2>2 DEF Sound
<1>13. Pends(g, v, ran)
  <2>1. Current(h.b, h.c, h.p, ran) /\ Routed(h.b, h.p, NoWork)
    BY <1>1, <1>7 DEF Pends
  <2>2. Current(g.b, g.c, g.p, ran)
    BY <1>6, <2>1 DEF Current, SameB, SameP
  <2>3. Routed(h.b, h.p, v)
    BY <1>1, <1>4, <2>1 DEF Routed, Submits, NoWork
  <2>4. Routed(g.b, g.p, v)
    BY <1>6, <2>3 DEF Routed, SameB, SameP
  <2>5. Ledgered(g.c.ledger, g.p, v)
    BY <1>6, <1>8 DEF Ledgered, SameP
  <2> QED BY <2>2, <2>4, <2>5 DEF Pends
<1>14. Good(g, v, periods, ran)
  <2>1. Held(v)
    BY <1>4 DEF Held
  <2>2. LostOK(g)
    BY <1>1, <1>6 DEF LostOK
  <2> QED BY <1>12, <1>13, <2>1, <2>2 DEF Good, Deferral
<1>15. WorkOf(s)' = v /\ \A t \in Streams : t # s => WorkOf(t)' = WorkOf(t)
  BY <1>1, <1>4 DEF WorkOf
<1>16. g.b.period = host[s].b.period /\ Forgets(s, g)
  BY <1>6, <1>10, NothingOwed DEF Forgets, SameB, h
<1> QED BY <1>1, <1>3, <1>14, <1>15, <1>16, OneSafe

\* The work's updates are realized.
LEMMA RealizedEffect ==
  ASSUME NEW h, Shape(h), NEW N, NEW R, Sound(h, work, N, R), Flying(work),
         NEW v, ~Flying(v), v = NoWork \/ Held(v)
  PROVE  /\ RealizedOK(h)
         /\ Realized(h).b = h.b /\ Realized(h).p = h.p /\ Shape(Realized(h))
         /\ Sound(Realized(h), v, N, R) /\ Kin(Realized(h), h)
         /\ Restates(Realized(h).c.ledger, h.c.ledger)
         /\ \A i \in DOMAIN h.c.ledger :
              Emitted(Realized(h).c.ledger[i]) <=>
                Emitted(h.c.ledger[i]) \/ InFlight(h.c.ledger[i])
         /\ Realized(h).c.stage = h.c.stage
<1> DEFINE L == h.c.ledger
           st == IF work.op = "replay" THEN "REPLAY_EMITTED" ELSE "RELEASED"
           M == SetStates(L, work.ids, AllOf(work.ids), st)
           g == [h EXCEPT !.c.ledger = M]
<1>1. L \in Ledgers /\ LedgerOK(L, work)
  BY DEF Sound
<1>2. RealizedOK(h)
  BY <1>1, Accepted DEF RealizedOK, FlightOf
<1>3. st \in EmittedStates
  BY DEF EmittedStates
<1>4. /\ Restates(M, L) /\ LedgerOK(M, v)
      /\ \A i \in DOMAIN L : Emitted(M[i]) <=> Emitted(L[i]) \/ InFlight(L[i])
      /\ \A i \in DOMAIN L : L[i].state = "COMMITTED" => M[i].state = "COMMITTED"
  <2> HIDE DEF st
  <2> QED BY <1>1, <1>3, RealizedOrder
<1>5. Realized(h) = g
  <2>1. Realized(h) = [h EXCEPT !.c.ledger =
          SetStates(@, work.ids, AllOf(work.ids),
                    IF work.op = "replay" THEN "REPLAY_EMITTED" ELSE "RELEASED")]
    BY <1>2 DEF Realized
  <2>2. g = [h EXCEPT !.c.ledger =
          SetStates(@, work.ids, AllOf(work.ids),
                    IF work.op = "replay" THEN "REPLAY_EMITTED" ELSE "RELEASED")]
    BY DEF Shape, LegacyCore
  <2> QED BY <2>1, <2>2, Zenon
<1> HIDE DEF M
<1>6. Relisted(g, h, M)
  BY LedgerFields
<1> HIDE DEF g
<1>7. Shape(g) /\ g.b = h.b /\ g.p = h.p /\ g.c.ledger = M /\ g.c.stage = h.c.stage
      /\ g.c.cur = h.c.cur /\ g.c.last = h.c.last /\ g.c.open = h.c.open
  BY <1>6 DEF Relisted
<1>8. M \in Ledgers /\ (M = <<>> <=> L = <<>>)
  BY <1>1, <1>4 DEF Restates, Ledgers
<1>9. Settled(M, h.b)
  <2>1. Settled(L, h.b)
    BY DEF Sound
  <2> HIDE DEF L
  <2> QED BY <1>4, <2>1, SettledAgain
<1>10. Sound(g, v, N, R)
  <2>1. Occurs(h.b, M, N, R)
    BY <1>8 DEF Sound, Occurs
  <2>2. Agrees(g.b, g.c)
    BY <1>7, <1>8 DEF Sound, Agrees
  <2> QED BY <1>4, <1>7, <1>8, <1>9, <2>1, <2>2 DEF Sound
<1>12. AllCommitted(L) => AllCommitted(M)
  BY <1>4 DEF AllCommitted, Restates
<1>11. Kin(g, h)
  BY <1>7, <1>8, <1>12 DEF Kin, SameB
<1> QED BY <1>2, <1>4, <1>5, <1>7, <1>10, <1>11

\* The updates of a submission that were in flight are emitted, whatever other
\* work, or none, it is left with.
LEMMA LedgeredOn ==
  ASSUME NEW L, NEW M, NEW p, NEW w, NEW v, Ledgered(L, p, w), Held(w), Held(v),
         Restates(M, L), Submits(v) => Submits(w),
         \A i \in DOMAIN L : Emitted(M[i]) <=> Emitted(L[i]) \/ InFlight(L[i])
  PROVE  Ledgered(M, p, v)
<1>1. /\ DOMAIN M = DOMAIN L /\ \A i \in DOMAIN L : M[i].id = L[i].id /\ M[i].sub = L[i].sub
  BY DEF Restates
<1>2. ASSUME NEW k \in DOMAIN p.ids
      PROVE  \E i \in DOMAIN M : /\ M[i].id = p.ids[k] /\ M[i].sub = p.sub
                                 /\ Emitted(M[i]) \/ InFlight(M[i])
  <2>1. PICK i \in DOMAIN L : /\ L[i].id = p.ids[k] /\ L[i].sub = p.sub
                              /\ Emitted(L[i]) \/ InFlight(L[i])
    BY DEF Ledgered
  <2> QED BY <1>1, <2>1
<1>3. ~p.recovery \/ Submits(v) => \A i \in DOMAIN M : M[i].sub = p.sub => Named(p.ids, M[i].id)
  BY <1>1 DEF Ledgered
<1> QED BY <1>2, <1>3 DEF Ledgered

\* The last chunk is realized; the submit itself is still to come.
LEMMA UpdatesAppliedSafe ==
  ASSUME CountInv, SafeInv, UpdatesApplied
  PROVE  SafeInv' /\ Remembered
<1>1. work # NoWork /\ work.op = "realize" /\ UNCHANGED <<ran, periods>>
  BY DEF UpdatesApplied, NoWork
<1> PICK s \in Streams : work.s = s
  BY <1>1, WorkStands
<1> DEFINE h == host[s]
           k == Realized(h)
           g == [k EXCEPT !.p.applied = TRUE]
           v == [work EXCEPT !.op = "submit"]
<1>2. /\ Shape(h) /\ Good(h, work, periods, ran) /\ Held(work)
      /\ \A t \in Streams : t # s => WorkOf(t) = NoWork
  BY <1>1, WorkStands
<1>3. v.op = "submit" /\ v.s = s
  BY <1>1 DEF CountInv, WorkOK
<1>4. IF RealizedOK(h) THEN Becomes(s, g) /\ work' = v
      ELSE Becomes(s, PendingRecovery([h EXCEPT !.p.failed = TRUE]))
           /\ work' = [work EXCEPT !.op = "skip"]
  BY DEF UpdatesApplied
<1> HIDE DEF v
<1>5. ~Flying(v) /\ Held(v) /\ Submits(v) /\ Flying(work) /\ Submits(work)
  BY <1>1, <1>3 DEF Flying, Held, Submits
<1> HIDE DEF h
<1>6. Sound(h, work, periods, ran) /\ Pends(h, work, ran) /\ LostOK(h)
  BY <1>2 DEF Good
<1>7. /\ RealizedOK(h)
      /\ k.b = h.b /\ k.p = h.p /\ Shape(k) /\ Sound(k, v, periods, ran)
      /\ Kin(k, h) /\ Restates(k.c.ledger, h.c.ledger)
      /\ \A i \in DOMAIN h.c.ledger :
           Emitted(k.c.ledger[i]) <=> Emitted(h.c.ledger[i]) \/ InFlight(h.c.ledger[i])
      /\ k.c.stage = h.c.stage
  BY <1>2, <1>5, <1>6, RealizedEffect
<1>8. Becomes(s, g) /\ work' = v
  BY <1>4, <1>7
<1> HIDE DEF k
<1>9. g.b = k.b /\ g.c = k.c /\ SameP(g.p, k.p) /\ g.p.listed = k.p.listed
  BY <1>7 DEF Shape, SameP, NoPending
<1> HIDE DEF g
<1>10. SameB(g.b, k.b) /\ SameC(g.c, k.c)
  BY <1>9 DEF SameB, SameC
<1>11. Sound(g, v, periods, ran) /\ Kin(g, h)
  BY <1>7, <1>10, Framed, KinSteps
<1>12. Pends(k, v, ran)
  <2>1. Current(h.b, h.c, h.p, ran) /\ Routed(h.b, h.p, work) /\ Ledgered(h.c.ledger, h.p, work)
    BY <1>2, <1>6 DEF Pends
  <2>2. Current(k.b, k.c, k.p, ran)
    BY <1>7, <2>1 DEF Current
  <2>3. Routed(k.b, k.p, v)
    BY <1>1, <1>3, <1>5, <1>7, <2>1 DEF Routed
  <2>4. Ledgered(k.c.ledger, h.p, v)
    BY <1>2, <1>5, <1>7, <2>1, LedgeredOn
  <2> QED BY <1>7, <2>2, <2>3, <2>4 DEF Pends
<1>13. Pends(g, v, ran)
  BY <1>9, <1>10, <1>12, FramedPends
<1>14. LostOK(g) /\ Deferral(g.b, v)
  BY <1>5, <1>6, <1>7, <1>9 DEF LostOK, Deferral
<1>15. Good(g, v, periods, ran)
  BY <1>11, <1>13, <1>14 DEF Good
<1>16. v # NoWork
  BY <1>3 DEF NoWork
<1>17. WorkOf(s)' = v /\ \A t \in Streams : t # s => WorkOf(t)' = WorkOf(t)
  BY <1>2, <1>3, <1>8, <1>16 DEF WorkOf
<1>18. g.b.period \in {0, host[s].b.period} /\ Forgets(s, g)
  BY <1>11, KinSafe DEF h
<1> QED BY <1>1, <1>8, <1>15, <1>17, <1>18, OneSafe

\* The host work of a stream ends, and a recovery that was put off begins.
LEMMA EndedSound ==
  ASSUME NEW f, NEW N, NEW R, Shape(f), f.b.inflight = 1, f.b.open, Sound(f, NoWork, N, R),
         LostOK(f)
  PROVE  LET g == WorkEnded(f)
         IN /\ Shape(g) /\ Sound(g, NoWork, N, R) /\ LostOK(g) /\ Deferral(g.b, NoWork)
            /\ Kin(g, f) /\ g.p = f.p
            /\ Pends(f, NoWork, R) => Pends(g, NoWork, R)
<1> DEFINE k == [f EXCEPT !.b.inflight = @ - 1]
           g == WorkEnded(f)
<1>1. /\ Shape(k) /\ k.p = f.p /\ k.c = f.c /\ SameB(k.b, f.b)
      /\ k.b.deferred = f.b.deferred /\ k.b.inflight = 0
  <2> DEFINE b == [f.b EXCEPT !.inflight = @ - 1]
  <2>1. k = [f EXCEPT !.b = b]
    BY DEF Shape
  <2>2. DOMAIN b = DOMAIN f.b /\ SameB(b, f.b) /\ b.deferred = f.b.deferred
    BY DEF Shape, SameB, NewBridge
  <2>3. b.inflight = f.b.inflight - 1
    BY DEF Shape, NewBridge
  <2>4. b.inflight = 0
    BY <2>3
  <2> HIDE DEF b, k
  <2> QED BY <2>1, <2>2, <2>4 DEF Shape
<1>2. g = IF k.b.inflight = 0 /\ k.b.deferred THEN BeginOrDefer(k) ELSE k
  BY DEF WorkEnded
<1>3. Shape(g)
  BY WorkEndedCounts
<1> HIDE DEF k, g
<1>4. Sound(k, NoWork, N, R) /\ Kin(k, f)
  BY <1>1, Framed DEF SameC
<1>5. Pends(f, NoWork, R) => Pends(k, NoWork, R)
  BY <1>1, FramedPends DEF SameP
<1>6. CASE k.b.deferred
  <2>1. g = BeginOrDefer(k)
    BY <1>1, <1>2, <1>6
  <2>2. k.b.open /\ (k.b.inflight # 0 <=> Held(NoWork))
    BY <1>1, Idle DEF SameB
  <2>3. /\ Sound(g, NoWork, N, R) /\ LostOK(g) /\ Deferral(g.b, NoWork) /\ Kin(g, k)
        /\ g.p = k.p
        /\ Pends(k, NoWork, R) => Pends(g, NoWork, R)
    BY <1>1, <1>4, <2>1, <2>2, BeginOrDeferSound
  <2> QED BY <1>1, <1>3, <1>4, <1>5, <2>3, KinSteps DEF g
<1>7. CASE ~k.b.deferred
  <2>1. g = k
    BY <1>2, <1>7
  <2>2. LostOK(k) /\ Deferral(k.b, NoWork)
    BY <1>1, <1>7 DEF LostOK, Deferral, SameB
  <2> QED BY <1>1, <1>3, <1>4, <1>5, <2>1, <2>2 DEF g
<1> QED BY <1>6, <1>7

\* A submission that is given up while the work's reference is owed.
LEMMA DroppedKeeps ==
  ASSUME NEW g, Owed(g)
  PROVE  LET d == Dropped(g, FALSE)
         IN /\ Owed(d) /\ d.c = g.c /\ SameB(d.b, g.b) /\ d.b.deferred = g.b.deferred
            /\ ~d.p.listed /\ SameP(d.p, g.p)
<1> DEFINE d == Dropped(g, FALSE)
<1>0. Owed(d)
  BY DroppedOwed
<1>1. CASE ~g.p.listed
  <2>1. d = g
    BY <1>1 DEF Dropped
  <2> QED BY <1>0, <1>1, <2>1 DEF SameB, SameP
<1>2. CASE g.p.listed
  <2> DEFINE u == Unlinked([g EXCEPT !.p.failed = TRUE])
  <2>1. /\ Shape(u) /\ SameB(u.b, g.b) /\ u.b.deferred = g.b.deferred
        /\ u.c = g.c /\ SameP(u.p, g.p) /\ u.p.listed = FALSE /\ u.p.refs = g.p.refs
    BY <1>2, GivenUp DEF Owed
  <2>2. d = Unref(u)
    BY <1>2 DEF Dropped
  <2> HIDE DEF u, d
  <2>3. g.p.refs # 1
    BY <1>2 DEF Owed, Holds
  <2>4. /\ d.b = u.b /\ d.c = u.c /\ SameP(d.p, u.p) /\ ~d.p.listed
    BY <2>1, <2>2, <2>3, UnrefEffect
  <2>5. SameP(d.p, g.p)
    BY <2>1, <2>4 DEF SameP
  <2> QED BY <1>0, <2>1, <2>4, <2>5 DEF d
<1> QED BY <1>1, <1>2

\* The recovery of a submission whose work is over begins, if it has not yet.
LEMMA RecoveredSound ==
  ASSUME NEW d, NEW N, NEW R, Owed(d), Sound(d, NoWork, N, R),
         d.p.started => d.c.stage = "RECOVER"
  PROVE  LET r == PendingRecovery(d)
         IN /\ Owed(r) /\ Sound(r, NoWork, N, R) /\ Kin(r, d) /\ r.b = d.b
            /\ r.c.stage = "RECOVER" /\ r.p.listed = d.p.listed
<1> DEFINE r == PendingRecovery(d)
           e == BeganRecovery(d)
<1>1. Owed(r) /\ Shape(d) /\ ~d.p.releasing /\ ~d.p.submitting
  BY RecoveredOwed DEF Owed
<1>2. /\ r.b = d.b /\ r.p.listed = d.p.listed
      /\ d.p.started => r = d
      /\ ~d.p.started => r.c = e.c
  BY <1>1, PendingRecoveryEffect
<1>3. Sound(e, NoWork, N, R) /\ Kin(e, d) /\ e.b = d.b /\ e.c.stage = "RECOVER"
  BY <1>1, SoundIsRipe, BeganSound
<1> HIDE DEF r, e
<1>4. CASE d.p.started
  BY <1>1, <1>2, <1>4, KinSteps DEF r
<1>5. CASE ~d.p.started
  <2>1. Sound(r, NoWork, N, R) /\ Kin(r, e)
    BY <1>2, <1>3, <1>5, Framed DEF SameB, SameC
  <2>2. Kin(r, d)
    BY <1>3, <2>1, KinSteps
  <2> QED BY <1>1, <1>2, <1>3, <1>5, <2>1, <2>2 DEF r
<1> QED BY <1>4, <1>5

\* Dropping the reference of the work.
LEMMA UnrefGood ==
  ASSUME NEW g, NEW N, NEW R, Owed(g), Good(g, NoWork, N, R)
  PROVE  Good(Unref(g), NoWork, N, R) /\ Kin(Unref(g), g)
<1> DEFINE u == Unref(g)
<1>1. g.p.listed => g.p.refs # 1
  BY DEF Owed, Holds
<1>2. /\ u.b = g.b /\ u.c = g.c
      /\ g.p.refs = 1 => u.p = NoPending
      /\ g.p.refs # 1 => SameP(u.p, g.p) /\ u.p.listed = g.p.listed
      /\ ~g.p.listed => ~u.p.listed
  BY UnrefEffect DEF Owed
<1> HIDE DEF u
<1>3. Sound(u, NoWork, N, R) /\ Kin(u, g)
  BY <1>2, Framed DEF Good, SameB, SameC
<1>4. Pends(u, NoWork, R)
  <2>1. CASE g.p.listed
    BY <1>1, <1>2, <2>1, FramedPends DEF Good, SameB
  <2>2. CASE ~g.p.listed
    BY <1>2, <2>2, Idle DEF Pends
  <2> QED BY <2>1, <2>2
<1>5. LostOK(u) /\ Deferral(u.b, NoWork)
  BY <1>1, <1>2 DEF Good, LostOK, Deferral
<1> QED BY <1>3, <1>4, <1>5 DEF Good, u

\* The work ends, and its stream only recovers, or not.
LEMMA OverSafe ==
  ASSUME CountInv, SafeInv, UNCHANGED <<ran, periods>>, work # NoWork, work' = NoWork,
         NEW h, Becomes(work.s, h), Good(h, NoWork, periods, ran), Kin(h, host[work.s])
  PROVE  SafeInv' /\ Remembered
<1>1. PICK s \in Streams : work.s = s
  BY WorkStands
<1>2. WorkOf(s)' = NoWork /\ \A t \in Streams : t # s => WorkOf(t)' = WorkOf(t)
  BY <1>1, WorkStands DEF WorkOf
<1>3. h.b.period \in {0, host[s].b.period} /\ Forgets(s, h)
  BY <1>1, KinSafe
<1> QED BY <1>1, <1>2, <1>3, OneSafe

\* A release completes: its updates are emitted, and a submission that was
\* cancelled meanwhile recovers.
LEMMA CompleteReleaseSafe ==
  ASSUME CountInv, SafeInv, CompleteRelease
  PROVE  SafeInv' /\ Remembered
<1> DEFINE h == host[work.s]
           k == Realized(h)
           f == [k EXCEPT !.p.releasing = FALSE, !.p.failed = @ \/ ~RealizedOK(h)]
           g == WorkEnded(f)
           d == Dropped(g, FALSE)
           e == IF g.p.failed THEN PendingRecovery(d) ELSE g
<1>1. /\ work # NoWork /\ work.op \in {"release", "replay"} /\ work' = NoWork
      /\ UNCHANGED <<ran, periods>>
  BY DEF CompleteRelease, NoWork
<1>2. Becomes(work.s, Unref(e))
  BY DEF CompleteRelease
<1>3. /\ Shape(h) /\ Counted(h, TRUE, FALSE) /\ Held(work) /\ Good(h, work, periods, ran)
  BY <1>1, WorkCounted, WorkStands
<1>4. Flying(work)
  BY <1>1 DEF Flying
<1> HIDE DEF h
<1>5. Sound(h, work, periods, ran) /\ LostOK(h) /\ Current(h.b, h.c, h.p, ran)
      /\ Routed(h.b, h.p, work) /\ Ledgered(h.c.ledger, h.p, work)
  BY <1>3 DEF Good, Pends
<1>6. /\ RealizedOK(h)
      /\ k.b = h.b /\ k.p = h.p /\ Shape(k) /\ Sound(k, NoWork, periods, ran)
      /\ Kin(k, h) /\ Restates(k.c.ledger, h.c.ledger)
      /\ \A i \in DOMAIN h.c.ledger :
           Emitted(k.c.ledger[i]) <=> Emitted(h.c.ledger[i]) \/ InFlight(h.c.ledger[i])
      /\ k.c.stage = h.c.stage
  BY <1>3, <1>4, <1>5, Idle, RealizedEffect
<1> HIDE DEF k
<1>7. /\ Shape(f) /\ f.b = k.b /\ f.c = k.c /\ SameP(f.p, k.p) /\ f.p.listed = k.p.listed
      /\ f.p.releasing = FALSE /\ f.p.refs = k.p.refs /\ f.p.submitting = k.p.submitting
  BY <1>6 DEF Shape, SameP, NewBridge, LegacyCore, NoPending
<1> HIDE DEF f
<1>8. /\ f.p.refs = Holds(f.p.listed) + 1 /\ f.b.inflight = 1
      /\ f.b.pending = Holds(f.p.listed)
  BY <1>3, <1>6, <1>7 DEF Counted, Holds
<1>9. f.p.listed \in BOOLEAN /\ f.p.submitting = FALSE /\ (f.p.listed => f.b.live)
  BY <1>3, <1>6, <1>7 DEF Counted
<1>10. Owed(g)
  BY <1>7, <1>8, <1>9, EndedOwed
<1>11. Pends(f, NoWork, ran)
  <2>1. Current(k.b, k.c, k.p, ran)
    BY <1>5, <1>6 DEF Current
  <2>2. Routed(k.b, k.p, NoWork)
    BY <1>1, <1>5, <1>6 DEF Routed, Submits, NoWork
  <2>3. h.p.tail = <<>>
    BY <1>1, <1>5 DEF Routed
  <2>4. Ledgered(k.c.ledger, k.p, NoWork)
    <3>1. ASSUME NEW n \in DOMAIN h.p.ids
          PROVE  \E i \in DOMAIN k.c.ledger :
                   /\ k.c.ledger[i].id = h.p.ids[n] /\ k.c.ledger[i].sub = h.p.sub
                   /\ Emitted(k.c.ledger[i])
      <4>1. PICK i \in DOMAIN h.c.ledger :
              /\ h.c.ledger[i].id = h.p.ids[n] /\ h.c.ledger[i].sub = h.p.sub
              /\ Emitted(h.c.ledger[i]) \/ InFlight(h.c.ledger[i])
        BY <1>3, <1>5 DEF Ledgered
      <4> QED BY <1>6, <4>1 DEF Restates
    <3>2. ~h.p.recovery =>
            \A i \in DOMAIN k.c.ledger :
              k.c.ledger[i].sub = h.p.sub => Named(h.p.ids, k.c.ledger[i].id)
      BY <1>5, <1>6 DEF Ledgered, Restates
    <3>3. \A u : ~Named(h.p.tail, u)
      BY <2>3 DEF Named
    <3> QED BY <1>6, <3>1, <3>2, <3>3, Idle DEF Ledgered
  <2>5. Pends(k, NoWork, ran)
    BY <2>1, <2>2, <2>4 DEF Pends
  <2> QED BY <1>7, <2>5, FramedPends DEF SameB
<1>12. Sound(f, NoWork, periods, ran) /\ Kin(f, k) /\ LostOK(f) /\ f.b.open
  <2>1. Sound(f, NoWork, periods, ran) /\ Kin(f, k)
    BY <1>6, <1>7, Framed DEF SameB, SameC
  <2>2. LostOK(f) /\ f.b.open
    BY <1>5, <1>6, <1>7 DEF LostOK, Current
  <2> QED BY <2>1, <2>2
<1>13. /\ Shape(g) /\ Sound(g, NoWork, periods, ran) /\ LostOK(g) /\ Deferral(g.b, NoWork)
       /\ Kin(g, f) /\ g.p = f.p /\ Pends(g, NoWork, ran)
  BY <1>7, <1>8, <1>11, <1>12, EndedSound
<1> HIDE DEF g
<1>14. Kin(g, h)
  BY <1>6, <1>12, <1>13, KinSteps
<1>15. g.p.started => g.c.stage = "RECOVER"
  <2>1. h.p.started => h.c.stage = "RECOVER"
    BY <1>5 DEF Current
  <2> QED BY <1>6, <1>7, <1>13, <1>14, <2>1 DEF SameP, Kin
<1>16. Owed(e) /\ Good(e, NoWork, periods, ran) /\ Kin(e, h)
  <2>1. CASE ~g.p.failed
    BY <1>10, <1>13, <1>14, <2>1 DEF Good
  <2>2. CASE g.p.failed
    <3>1. /\ Owed(d) /\ d.c = g.c /\ SameB(d.b, g.b) /\ d.b.deferred = g.b.deferred
          /\ ~d.p.listed /\ SameP(d.p, g.p)
      BY <1>10, DroppedKeeps
    <3>2. e = PendingRecovery(d)
      BY <2>2
    <3> HIDE DEF d, e
    <3>3. Sound(d, NoWork, periods, ran) /\ Kin(d, g)
      BY <1>13, <3>1, Framed DEF SameC
    <3>4. d.p.started => d.c.stage = "RECOVER"
      BY <1>15, <3>1 DEF SameP
    <3>5. /\ Owed(e) /\ Sound(e, NoWork, periods, ran) /\ Kin(e, d) /\ e.b = d.b
          /\ e.c.stage = "RECOVER" /\ e.p.listed = d.p.listed
      BY <3>1, <3>2, <3>3, <3>4, RecoveredSound
    <3>6. Pends(e, NoWork, ran)
      BY <3>1, <3>5, Idle DEF Pends
    <3>7. LostOK(e) /\ Deferral(e.b, NoWork)
      BY <1>13, <3>1, <3>5 DEF LostOK, Deferral, Learned, SameB
    <3>8. Kin(e, h)
      BY <1>14, <3>3, <3>5, KinSteps
    <3> QED BY <3>5, <3>6, <3>7, <3>8 DEF Good
  <2> QED BY <2>1, <2>2
<1> HIDE DEF e
<1>17. Good(Unref(e), NoWork, periods, ran) /\ Kin(Unref(e), h)
  BY <1>16, UnrefGood, KinSteps
<1>18. Kin(Unref(e), host[work.s])
  BY <1>17 DEF h
<1> QED BY <1>1, <1>2, <1>17, <1>18, OverSafe

\* The ledger of a stream is restated in order, when no work is left.
LEMMA RestatedSound ==
  ASSUME NEW h, NEW w, NEW N, NEW R, Shape(h), Sound(h, w, N, R),
         NEW M, Restates(M, h.c.ledger), LedgerOK(M, NoWork),
         \A i \in DOMAIN h.c.ledger :
           h.c.ledger[i].state = "COMMITTED" => M[i].state = "COMMITTED"
  PROVE  LET g == [h EXCEPT !.c.ledger = M]
         IN Relisted(g, h, M) /\ Sound(g, NoWork, N, R) /\ Kin(g, h)
<1> DEFINE L == h.c.ledger
           g == [h EXCEPT !.c.ledger = M]
<1>1. Relisted(g, h, M)
  BY LedgerFields
<1> HIDE DEF g
<1>2. g.b = h.b /\ g.c.ledger = M /\ g.c.stage = h.c.stage
      /\ g.c.cur = h.c.cur /\ g.c.last = h.c.last /\ g.c.open = h.c.open
  BY <1>1 DEF Relisted
<1>3. M \in Ledgers /\ DOMAIN M = DOMAIN L /\ L \in Ledgers
  BY DEF Restates, Sound
<1>4. M = <<>> <=> L = <<>>
  BY <1>3 DEF Ledgers
<1>5. Settled(M, h.b)
  BY SettledAgain DEF Sound
<1>6. Occurs(h.b, M, N, R)
  BY <1>4 DEF Sound, Occurs
<1>7. Agrees(g.b, g.c)
  BY <1>2, <1>4 DEF Sound, Agrees
<1>8. Sound(g, NoWork, N, R)
  BY <1>2, <1>3, <1>5, <1>6, <1>7 DEF Sound
<1>9. AllCommitted(L) => AllCommitted(M)
  BY <1>3 DEF AllCommitted
<1>10. Kin(g, h)
  BY <1>2, <1>4, <1>9 DEF Kin, SameB
<1> QED BY <1>1, <1>8, <1>10 DEF g

\* The updates of a submission that runs are all emitted, in order.
LEMMA CommitReady ==
  ASSUME NEW L, NEW p, NEW w, LedgerOK(L, w), ~Flying(w), Held(w), Ledgered(L, p, w)
  PROVE  /\ \A k \in DOMAIN p.ids :
              /\ Has(L, p.ids[k]) /\ PrefixEmitted(L, At(L, p.ids[k]))
              /\ L[At(L, p.ids[k])].state \in EmittedStates
         /\ \A i \in DOMAIN L : Named(p.ids, L[i].id) => Emitted(L[i])
<1>1. \A i \in DOMAIN L : ~InFlight(L[i])
  BY DEF LedgerOK
<1>2. \A i, j \in DOMAIN L : L[i].id = L[j].id => i = j
  BY DEF LedgerOK
<1>3. ASSUME NEW k \in DOMAIN p.ids
      PROVE  \E i \in DOMAIN L : L[i].id = p.ids[k] /\ Emitted(L[i])
  <2>1. PICK i \in DOMAIN L : L[i].id = p.ids[k] /\ (Emitted(L[i]) \/ InFlight(L[i]))
    BY DEF Ledgered
  <2> QED BY <1>1, <2>1
<1>4. ASSUME NEW k \in DOMAIN p.ids
      PROVE  /\ Has(L, p.ids[k]) /\ PrefixEmitted(L, At(L, p.ids[k]))
             /\ L[At(L, p.ids[k])].state \in EmittedStates
  <2>1. PICK i \in DOMAIN L : L[i].id = p.ids[k] /\ Emitted(L[i])
    BY <1>3
  <2>2. Has(L, p.ids[k]) /\ At(L, p.ids[k]) = i
    BY <1>2, <2>1, Located
  <2>3. PrefixEmitted(L, i)
    BY <2>1 DEF LedgerOK
  <2> QED BY <2>1, <2>2, <2>3 DEF Emitted
<1>5. ASSUME NEW i \in DOMAIN L, Named(p.ids, L[i].id) PROVE Emitted(L[i])
  <2>1. PICK k \in DOMAIN p.ids : p.ids[k] = L[i].id
    BY <1>5 DEF Named
  <2>2. PICK j \in DOMAIN L : L[j].id = p.ids[k] /\ Emitted(L[j])
    BY <1>3
  <2> QED BY <1>2, <2>1, <2>2
<1> QED BY <1>4, <1>5

\* What has run is all that the session owes.
LEMMA AllRun ==
  ASSUME NEW h, NEW w, NEW N, NEW R, Sound(h, w, N, R), h.p.sub = h.b.sub, Submits(w),
         Ledgered(h.c.ledger, h.p, w), NEW M, Restates(M, h.c.ledger),
         \A i \in DOMAIN h.c.ledger : M[i].state = "COMMITTED" <=>
           h.c.ledger[i].state = "COMMITTED" \/ Named(h.p.ids, h.c.ledger[i].id)
  PROVE  AllCommitted(M)
<1> SUFFICES ASSUME NEW i \in DOMAIN h.c.ledger PROVE M[i].state = "COMMITTED"
  BY DEF AllCommitted, Restates
<1>1. CASE h.c.ledger[i].state = "COMMITTED"
  BY <1>1
<1>2. CASE h.c.ledger[i].state # "COMMITTED"
  <2>1. h.c.ledger[i].sub = h.p.sub
    BY <1>2 DEF Sound, Settled
  <2>2. Named(h.p.ids, h.c.ledger[i].id)
    BY <2>1 DEF Ledgered
  <2> QED BY <2>2
<1> QED BY <1>1, <1>2

\* A recovery keeps the number of the submission.
LEMMA PendingRecoveryKeeps ==
  ASSUME NEW h, Shape(h)
  PROVE  PendingRecovery(h).p.sub = h.p.sub /\ PendingRecovery(h).p.chunks = h.p.chunks
<1> DEFINE g == BeganRecovery(h)
<1>1. g.p = h.p /\ Shape(g)
  BY BeganSame DEF BeganRecovery, SameCount, Shape, NewBridge, LegacyCore, NoPending
<1>2. PendingRecovery(h) = h
      \/ PendingRecovery(h) = [g EXCEPT !.p.started = RecoveryOK(h.c.ledger)]
  BY DEF PendingRecovery
<1> HIDE DEF g
<1> QED BY <1>1, <1>2 DEF Shape, NoPending

\* The work's reference and the place in the list are given up.
LEMMA LetGo ==
  ASSUME NEW x, Owed(x)
  PROVE  LET y == Unref(IF x.p.listed THEN Unref(Unlinked(x)) ELSE x)
         IN SameB(y.b, x.b) /\ y.b.deferred = x.b.deferred /\ y.c = x.c /\ ~y.p.listed
<1> DEFINE u == IF x.p.listed THEN Unref(Unlinked(x)) ELSE x
<1>1. /\ Shape(u) /\ SameB(u.b, x.b) /\ u.b.deferred = x.b.deferred /\ u.c = x.c
      /\ ~u.p.listed
  <2>1. CASE x.p.listed
    <3> DEFINE l == Unlinked(x)
    <3>1. /\ Shape(l) /\ SameB(l.b, x.b) /\ l.b.deferred = x.b.deferred /\ l.c = x.c
          /\ ~l.p.listed
      BY <2>1 DEF Owed, Unlinked, Shape, SameB, NewBridge, LegacyCore, NoPending
    <3>2. u = Unref(l)
      BY <2>1
    <3> HIDE DEF l, u
    <3> QED BY <3>1, <3>2, UnrefEffect
  <2>2. CASE ~x.p.listed
    BY <2>2 DEF Owed, SameB
  <2> QED BY <2>1, <2>2
<1> HIDE DEF u
<1>2. Unref(u).b = u.b /\ Unref(u).c = u.c /\ ~Unref(u).p.listed
  BY <1>1, UnrefEffect
<1> QED BY <1>1, <1>2 DEF u

\* What a submission that has run, or not, leaves of its session: all of it
\* is committed if it ran.
LEMMA AnsweredGood ==
  ASSUME NEW g, NEW N, NEW R, NEW success \in BOOLEAN, NEW whole \in BOOLEAN,
         whole <=> success, Shape(g), Sound(g, NoWork, N, R), Deferral(g.b, NoWork),
         g.b.open, g.p.sub = g.b.sub, g.b.sub # 0, ~g.b.executed,
         g.b.chunks = g.p.chunks, g.b.units,
         whole => AllCommitted(g.c.ledger), ~whole => g.c.stage = "RECOVER",
         NEW y, SameB(y.b, Answered(g, success, whole).b), y.c = g.c, ~y.p.listed,
         y.b.deferred = Answered(g, success, whole).b.deferred
  PROVE  Good(y, NoWork, N, IF success THEN R \cup {g.p.sub} ELSE R)
<1> DEFINE x == Answered(g, success, whole)
           Q == IF success THEN R \cup {g.p.sub} ELSE R
           L == g.c.ledger
<1>1. Occurs(g.b, L, N, R) /\ Settled(L, g.b) /\ L \in Ledgers /\ LedgerOK(L, NoWork)
      /\ Agrees(g.b, g.c)
  BY DEF Sound
<1>2. g.b.period = g.p.sub /\ g.b.last = g.b.sub /\ ~g.b.committed
  BY <1>1 DEF Occurs
<1>3. /\ x.b.live = g.b.live /\ x.b.open = g.b.open /\ x.b.period = g.b.period
      /\ x.b.last = g.b.last /\ x.b.sub = g.b.sub /\ x.b.deferred = g.b.deferred
      /\ (x.b.executed <=> success /\ g.b.live) /\ (x.b.committed <=> whole /\ g.b.live)
  BY <1>2 DEF Answered, Shape, NewBridge
<1> HIDE DEF x
<1>4. /\ y.b.live = g.b.live /\ y.b.open = g.b.open /\ y.b.period = g.b.period
      /\ y.b.last = g.b.last /\ y.b.sub = g.b.sub /\ y.b.deferred = g.b.deferred
      /\ (y.b.executed <=> success /\ g.b.live) /\ (y.b.committed <=> success /\ g.b.live)
  BY <1>3 DEF SameB, x
<1>5. Settled(L, y.b)
  <2>1. CASE success
    BY <1>1, <1>4, <2>1 DEF Settled, AllCommitted
  <2>2. CASE ~success
    BY <1>1, <1>2, <1>4, <2>2 DEF Settled
  <2> QED BY <2>1, <2>2
<1>6. Occurs(y.b, L, N, Q)
  <2>1. CASE success
    BY <1>1, <1>2, <1>4, <2>1 DEF Occurs
  <2>2. CASE ~success
    BY <1>1, <1>2, <1>4, <2>2 DEF Occurs
  <2> QED BY <2>1, <2>2
<1>7. Agrees(y.b, y.c)
  BY <1>1, <1>4 DEF Agrees
<1>8. Sound(y, NoWork, N, Q)
  BY <1>1, <1>5, <1>6, <1>7 DEF Sound
<1>9. Pends(y, NoWork, Q)
  BY Idle DEF Pends
<1>10. LostOK(y)
  BY <1>4 DEF LostOK, Learned
<1>11. Deferral(y.b, NoWork)
  BY <1>4 DEF Deferral
<1> QED BY <1>8, <1>9, <1>10, <1>11 DEF Good

\* A submission of the stream s has run, or not: the others do not notice, as
\* no two sessions have the same period.
LEMMA RanSafe ==
  ASSUME CountInv, SafeInv, UNCHANGED periods, work # NoWork, work' = NoWork,
         NEW s \in Streams, work.s = s, NEW y, Becomes(s, y), y.b.period = host[s].b.period,
         y.c.ledger = <<>> => host[s].c.ledger = <<>>,
         NEW n, n = host[s].b.period, n # 0, ran' = ran \/ ran' = ran \cup {n},
         Good(y, NoWork, periods, ran')
  PROVE  SafeInv' /\ Remembered
<1>1. \A t \in Streams : host'[t] = IF t = s THEN y ELSE host[t]
  BY DEF Becomes, CountInv
<1>2. \A t \in Streams : t # s => WorkOf(t) = NoWork
  BY WorkStands
<1>3. \A t \in Streams : WorkOf(t)' = NoWork
  BY DEF WorkOf
<1>4. ran' \subseteq 1 .. periods
  <2>1. n \in Nat /\ n <= periods /\ periods \in Nat /\ ran \subseteq 1 .. periods
    BY DEF SafeInv, Good, Sound, Occurs
  <2>2. n \in 1 .. periods
    BY <2>1
  <2>3. ran \cup {n} \subseteq 1 .. periods
    BY <2>1, <2>2, Zenon
  <2> QED BY <2>1, <2>3, Zenon
<1>5. ASSUME NEW t \in Streams, t # s
      PROVE  Good(host[t], NoWork, periods, ran')
  <2> DEFINE h == host[t]
  <2>1. Good(h, NoWork, periods, ran)
    BY <1>2, <1>5 DEF SafeInv
  <2>2. h.b.period # n
    BY <1>5 DEF SafeInv
  <2>3. \A m : m # n => (m \in ran' <=> m \in ran)
    OBVIOUS
  <2>4. \A m : m \in ran => m \in ran'
    OBVIOUS
  <2> HIDE DEF h
  <2>5. Occurs(h.b, h.c.ledger, periods, ran')
    <3>1. Occurs(h.b, h.c.ledger, periods, ran)
      BY <2>1 DEF Good, Sound
    <3>2. h.b.live /\ ~h.b.executed => h.b.period \notin ran'
      BY <2>2, <2>3, <3>1 DEF Occurs
    <3>3. h.b.committed => h.b.sub \in ran'
      BY <2>4, <3>1 DEF Occurs
    <3> QED BY <3>1, <3>2, <3>3 DEF Occurs
  <2>6. Pends(h, NoWork, ran')
    <3>1. h.p.listed => Current(h.b, h.c, h.p, ran')
      <4> SUFFICES ASSUME h.p.listed PROVE Current(h.b, h.c, h.p, ran')
        OBVIOUS
      <4>1. Current(h.b, h.c, h.p, ran)
        BY <2>1 DEF Good, Pends
      <4>2. h.p.sub # n
        BY <2>1, <2>2, <4>1 DEF Good, Sound, Occurs, Current
      <4> QED BY <2>3, <4>1, <4>2 DEF Current
    <3>2. h.p.listed => Routed(h.b, h.p, NoWork) /\ Ledgered(h.c.ledger, h.p, NoWork)
      BY <2>1 DEF Good, Pends
    <3> QED BY <3>1, <3>2, Idle DEF Pends
  <2>7. Sound(h, NoWork, periods, ran') /\ LostOK(h) /\ Deferral(h.b, NoWork)
    BY <2>1, <2>5 DEF Good, Sound
  <2> QED BY <2>6, <2>7 DEF Good, h
<1>6. \A t \in Streams : Good(host'[t], WorkOf(t)', periods, ran')
  <2> TAKE t \in Streams
  <2>1. WorkOf(t)' = NoWork
    BY <1>3
  <2>2. CASE t = s
    BY <1>1, <2>1, <2>2
  <2>3. CASE t # s
    <3>1. host'[t] = host[t] /\ Good(host[t], NoWork, periods, ran')
      BY <1>1, <1>5, <2>3
    <3> QED BY <2>1, <3>1
  <2> QED BY <2>2, <2>3
<1>7. \A t \in Streams : host'[t].b.period = host[t].b.period
  BY <1>1
<1>8. Remembered
  <2> SUFFICES ASSUME NEW t \in Streams, host'[t].c.ledger = <<>>
               PROVE  AllCommitted(host[t].c.ledger)
    BY DEF Remembered
  <2>1. host[t].c.ledger = <<>>
    BY <1>1
  <2> QED BY <2>1, NothingOwed
<1>9. \A q, t \in Streams : q # t /\ host'[q].b.period = host'[t].b.period
                              => host'[q].b.period = 0
  BY <1>7 DEF SafeInv
<1>10. periods' \in Nat
  BY DEF SafeInv
<1> QED BY <1>4, <1>6, <1>8, <1>9, <1>10 DEF SafeInv

\* A submit completes: what ran is committed, and what failed or was cancelled
\* meanwhile recovers.
LEMMA CompleteSubmitSafe ==
  ASSUME CountInv, SafeInv, NEW success \in BOOLEAN, CompleteSubmit(success)
  PROVE  SafeInv' /\ Remembered
<1>1. /\ work # NoWork /\ (work.op = "submit" \/ (work.op = "skip" /\ ~success))
      /\ work' = NoWork /\ UNCHANGED periods
  <2>1. work.op = "submit" \/ (work.op = "skip" /\ ~success)
    BY Zenon DEF CompleteSubmit
  <2>2. work' = NoWork /\ UNCHANGED periods
    BY Zenon DEF CompleteSubmit
  <2> QED BY <2>1, <2>2 DEF NoWork
<1> PICK s \in Streams : work.s = s
  BY <1>1, WorkStands
<1> DEFINE h == host[s]
           whole == success /\ CommitOK(h)
           L == h.c.ledger
           B == SetStates(L, work.ids, AllOf(work.ids), "READY")
           M == SetStates(L, h.p.ids, AllOf(h.p.ids), "COMMITTED")
           back == IF work.op = "skip" /\ RealizedOK(h) THEN [h EXCEPT !.c.ledger = B] ELSE h
           done == IF whole THEN [h EXCEPT !.c.ledger = M] ELSE [back EXCEPT !.p.failed = TRUE]
           f == [done EXCEPT !.p.submitting = FALSE]
           g == WorkEnded(f)
           e == IF g.p.failed THEN PendingRecovery(g) ELSE g
           x == Answered(e, success, whole)
           y == Unref(IF x.p.listed THEN Unref(Unlinked(x)) ELSE x)
<1>2. Becomes(s, y) /\ ran' = (IF success THEN ran \cup {h.p.sub} ELSE ran)
  BY DEF CompleteSubmit
<1>3. /\ Shape(h) /\ Counted(h, FALSE, TRUE) /\ Held(work) /\ Good(h, work, periods, ran)
  <2>1. work.op \notin {"release", "replay"}
    BY <1>1
  <2> QED BY <1>1, <2>1, WorkCounted, WorkStands
<1>4. Submits(work)
  BY <1>1 DEF Submits
<1> HIDE DEF h
<1>5. Sound(h, work, periods, ran) /\ LostOK(h) /\ Current(h.b, h.c, h.p, ran)
      /\ Routed(h.b, h.p, work) /\ Ledgered(h.c.ledger, h.p, work)
  BY <1>3 DEF Good, Pends
<1>6. L \in Ledgers /\ LedgerOK(L, work)
  BY <1>5 DEF Sound
<1>7. h.p.sub = h.b.sub /\ h.p.sub # 0 /\ h.b.open /\ ~h.b.executed
      /\ h.p.complete /\ h.b.chunks = h.p.chunks /\ h.b.units
  BY <1>4, <1>5 DEF Current, Routed
<1>8. h.b.period = h.p.sub
  BY <1>5, <1>7 DEF Sound, Occurs
<1>9. whole <=> success
  <2>1. CASE success
    <3>1. work.op = "submit"
      BY <1>1, <2>1
    <3>2. ~Flying(work)
      BY <3>1 DEF Flying
    <3>3. CommitOK(h)
      <4>1. \A k \in DOMAIN h.p.ids :
              /\ Has(L, h.p.ids[k]) /\ PrefixEmitted(L, At(L, h.p.ids[k]))
              /\ L[At(L, h.p.ids[k])].state \in EmittedStates
        BY <1>3, <1>5, <1>6, <3>2, CommitReady
      <4> QED BY <4>1 DEF CommitOK
    <3> QED BY <2>1, <3>3
  <2>2. CASE ~success
    BY <2>2
  <2> QED BY <2>1, <2>2
<1>10. /\ Shape(done) /\ done.b = h.b /\ SameP(done.p, h.p) /\ done.p.listed = h.p.listed
       /\ done.p.refs = h.p.refs /\ done.p.releasing = FALSE
       /\ Sound(done, NoWork, periods, ran) /\ Kin(done, h) /\ done.c.stage = h.c.stage
       /\ whole => AllCommitted(done.c.ledger)
       /\ ~whole => done.p.failed = TRUE
  <2>1. CASE whole
    <3>1. ~Flying(work)
      BY <1>1, <1>9, <2>1 DEF Flying
    <3>2. \A i \in DOMAIN L : Named(h.p.ids, L[i].id) => Emitted(L[i])
      BY <1>3, <1>5, <1>6, <3>1, CommitReady
    <3>3. M = SetStates(L, h.p.ids, AllOf(h.p.ids), "COMMITTED")
      OBVIOUS
    <3>4. /\ Restates(M, L) /\ LedgerOK(M, NoWork)
          /\ \A i \in DOMAIN L : M[i].state = "COMMITTED" <=>
               L[i].state = "COMMITTED" \/ Named(h.p.ids, L[i].id)
      BY <1>6, <3>1, <3>2, Idle, CommittedOrder
    <3> DEFINE k == [h EXCEPT !.c.ledger = M]
    <3> HIDE DEF M, whole
    <3>5. AllCommitted(M)
      BY <1>4, <1>5, <1>7, <3>4, AllRun
    <3>6. Relisted(k, h, M) /\ Sound(k, NoWork, periods, ran) /\ Kin(k, h)
      BY <1>3, <1>5, <3>4, RestatedSound
    <3>7. done = k
      BY <2>1
    <3> HIDE DEF k, done
    <3> QED BY <1>3, <2>1, <3>5, <3>6, <3>7 DEF Relisted, SameP, Counted
  <2>2. CASE ~whole
    <3>1. /\ Shape(back) /\ back.b = h.b /\ back.p = h.p /\ back.c.stage = h.c.stage
          /\ Sound(back, NoWork, periods, ran) /\ Kin(back, h)
      <4>1. CASE work.op = "skip"
        <5>1. Flying(work) /\ FlightOf(work) = "RELEASE_IN_FLIGHT"
          BY <4>1 DEF Flying, FlightOf
        <5>2. RealizedOK(h)
          BY <1>6, <4>1, <5>1, Accepted DEF RealizedOK
        <5>3. /\ Restates(B, L) /\ LedgerOK(B, NoWork)
              /\ \A i \in DOMAIN L : L[i].state = "COMMITTED" => B[i].state = "COMMITTED"
          BY <1>6, <5>1, Idle, ReturnedOrder
        <5> DEFINE k == [h EXCEPT !.c.ledger = B]
        <5> HIDE DEF B
        <5>4. Relisted(k, h, B) /\ Sound(k, NoWork, periods, ran) /\ Kin(k, h)
          BY <1>3, <1>5, <5>3, RestatedSound
        <5>5. back = k
          BY <4>1, <5>2
        <5> HIDE DEF k, back
        <5> QED BY <5>4, <5>5 DEF Relisted
      <4>2. CASE work.op = "submit"
        <5>1. ~Flying(work)
          BY <4>2 DEF Flying
        <5>2. back = h
          BY <4>2
        <5> HIDE DEF back
        <5>3. LedgerOK(L, NoWork)
          BY <1>6, <5>1, Idle DEF LedgerOK
        <5>4. Sound(h, NoWork, periods, ran)
          BY <1>5, <5>3 DEF Sound
        <5> QED BY <1>3, <5>2, <5>4, KinSteps
      <4> QED BY <1>1, <4>1, <4>2
    <3> DEFINE k == [back EXCEPT !.p.failed = TRUE]
    <3>2. done = k
      BY <2>2
    <3> HIDE DEF back
    <3>3. /\ Shape(k) /\ k.b = back.b /\ k.c = back.c /\ SameP(k.p, back.p)
          /\ k.p.listed = back.p.listed /\ k.p.refs = back.p.refs
          /\ k.p.releasing = back.p.releasing /\ k.p.failed = TRUE
      BY <3>1 DEF Shape, SameP, NoPending
    <3> HIDE DEF k, done
    <3>4. Sound(k, NoWork, periods, ran) /\ Kin(k, back)
      BY <3>1, <3>3, Framed DEF SameB, SameC
    <3>5. Kin(k, h)
      BY <3>1, <3>4, KinSteps
    <3> HIDE DEF whole
    <3> QED BY <1>3, <2>2, <3>1, <3>2, <3>3, <3>4, <3>5 DEF Counted
  <2> QED BY <2>1, <2>2
<1> HIDE DEF done, whole
<1>11. /\ Shape(f) /\ f.b = done.b /\ f.c = done.c /\ SameP(f.p, done.p)
       /\ f.p.listed = done.p.listed /\ f.p.refs = done.p.refs /\ f.p.submitting = FALSE
       /\ f.p.releasing = done.p.releasing /\ f.p.failed = done.p.failed
  BY <1>10 DEF Shape, SameP, NoPending
<1> HIDE DEF f
<1>12. /\ f.p.refs = Holds(f.p.listed) + 1 /\ f.b.inflight = 1
       /\ f.b.pending = Holds(f.p.listed)
  BY <1>3, <1>10, <1>11 DEF Counted, Holds
<1>13. f.p.listed \in BOOLEAN /\ f.p.releasing = FALSE /\ (f.p.listed => f.b.live)
  BY <1>3, <1>10, <1>11 DEF Counted
<1>14. Owed(g)
  BY <1>11, <1>12, <1>13, EndedOwed
<1>15. Sound(f, NoWork, periods, ran) /\ Kin(f, done) /\ LostOK(f) /\ f.b.open
  <2>1. Sound(f, NoWork, periods, ran) /\ Kin(f, done)
    BY <1>10, <1>11, Framed DEF SameB, SameC
  <2>2. LostOK(f) /\ f.b.open
    BY <1>5, <1>7, <1>10, <1>11 DEF LostOK
  <2> QED BY <2>1, <2>2
<1>16. /\ Sound(g, NoWork, periods, ran) /\ LostOK(g) /\ Deferral(g.b, NoWork)
       /\ Kin(g, f) /\ g.p = f.p
  BY <1>11, <1>12, <1>15, EndedSound
<1> HIDE DEF g
<1>17. Kin(g, h)
  BY <1>10, <1>15, <1>16, KinSteps
<1>18. g.p.started => g.c.stage = "RECOVER"
  <2>1. h.p.started => h.c.stage = "RECOVER"
    BY <1>5 DEF Current
  <2> QED BY <1>10, <1>11, <1>16, <1>17, <2>1 DEF SameP, Kin
<1>19. /\ Owed(e) /\ Sound(e, NoWork, periods, ran) /\ Kin(e, g) /\ e.b = g.b
       /\ e.p.sub = g.p.sub /\ e.p.chunks = g.p.chunks
       /\ g.p.failed => e.c.stage = "RECOVER"
  <2>1. CASE g.p.failed
    <3>1. e = PendingRecovery(g)
      BY <2>1
    <3>2. Shape(g)
      BY <1>14 DEF Owed
    <3> QED BY <1>14, <1>16, <1>18, <3>1, <3>2, RecoveredSound, PendingRecoveryKeeps
  <2>2. CASE ~g.p.failed
    BY <1>14, <1>16, <2>2, KinSteps
  <2> QED BY <2>1, <2>2
<1> HIDE DEF e
<1>20. Kin(e, h) /\ Kin(e, done)
  BY <1>15, <1>16, <1>17, <1>19, KinSteps
<1>21. Owed(x)
  <2>1. Shape(e)
    BY <1>19 DEF Owed
  <2>2. SameCount(x, e)
    BY <2>1 DEF Answered, SameCount, Shape, NewBridge, LegacyCore, NoPending
  <2> QED BY <1>19, <2>2, SameIsOwed
<1>22. x.c = e.c
  <2>1. Shape(e)
    BY <1>19 DEF Owed
  <2> QED BY <2>1 DEF Answered, Shape
<1>23. SameB(y.b, x.b) /\ y.b.deferred = x.b.deferred /\ y.c = e.c /\ ~y.p.listed
  <2> HIDE DEF x
  <2> QED BY <1>21, <1>22, LetGo
<1> HIDE DEF y
<1>24. Good(y, NoWork, periods, IF success THEN ran \cup {e.p.sub} ELSE ran)
  <2>1. /\ Shape(e) /\ Deferral(e.b, NoWork)
    BY <1>16, <1>19 DEF Owed
  <2>2. e.b.open /\ e.p.sub = e.b.sub /\ e.b.sub # 0 /\ ~e.b.executed
        /\ e.b.chunks = e.p.chunks /\ e.b.units
    BY <1>7, <1>10, <1>11, <1>16, <1>19, <1>20 DEF Kin, SameB, SameP
  <2>3. whole => AllCommitted(e.c.ledger)
    BY <1>10, <1>20 DEF Kin
  <2>4. ~whole => e.c.stage = "RECOVER"
    BY <1>10, <1>11, <1>16, <1>19
  <2>5. whole \in BOOLEAN
    BY DEF whole
  <2>6. SameB(y.b, Answered(e, success, whole).b)
        /\ y.b.deferred = Answered(e, success, whole).b.deferred
    BY <1>23
  <2> HIDE DEF x
  <2> QED BY <1>9, <1>19, <1>23, <2>1, <2>2, <2>3, <2>4, <2>5, <2>6, AnsweredGood
<1>25. y.b.period = h.b.period /\ (y.c.ledger = <<>> => h.c.ledger = <<>>)
  <2>1. x.b.period = e.b.period
    <3>1. Shape(e)
      BY <1>19 DEF Owed
    <3> QED BY <3>1 DEF Answered, Shape, NewBridge
  <2> HIDE DEF x
  <2> QED BY <1>20, <1>23, <2>1 DEF Kin, SameB
<1>26. e.p.sub = h.p.sub
  BY <1>10, <1>11, <1>16, <1>19 DEF SameP
<1>27. Good(y, NoWork, periods, ran')
  BY <1>2, <1>24, <1>26
<1>28. ran' = ran \/ ran' = ran \cup {h.b.period}
  BY <1>2, <1>8
<1> QED BY <1>1, <1>2, <1>7, <1>8, <1>25, <1>27, <1>28, RanSafe DEF h

-----------------------------------------------------------------------------
(* The whole. *)

\* No stream is open at first, and nothing has run.
LEMMA InitSafe == Init => SafeInv
<1> SUFFICES ASSUME Init PROVE SafeInv
  OBVIOUS
<1>1. host = [s \in Streams |-> Gone] /\ work = NoWork /\ ran = {} /\ periods = 0
  BY DEF Init
<1>2. /\ Gone.c.ledger = <<>> /\ Gone.c.stage = "LEGACY" /\ ~Gone.c.open
      /\ Gone.c.last = Gone.c.cur
      /\ Gone.b.period = 0 /\ Gone.b.last = 0 /\ Gone.b.sub = 0 /\ ~Gone.b.open
      /\ Gone.b.executed = FALSE /\ Gone.b.committed = FALSE
      /\ ~Gone.b.deferred /\ ~Gone.b.live /\ ~Gone.p.listed
  BY DEF Gone, NewBridge, LegacyCore, NoPending
<1> HIDE DEF Gone
<1>3. Good(Gone, NoWork, 0, {})
  <2>1. 0 \in Nat /\ {} \subseteq 1 .. 0 /\ Gone.b.last \in Nat /\ Gone.b.last <= 0
    BY <1>2
  <2> QED BY <1>2, <2>1, EmptyGood
<1>4. \A s \in Streams : host[s] = Gone /\ WorkOf(s) = NoWork
  BY <1>1 DEF WorkOf
<1> QED BY <1>1, <1>2, <1>3, <1>4 DEF SafeInv

\* Every step keeps the invariant, and forgets no update that has not run.
LEMMA NextSafe ==
  CountInv /\ SafeInv /\ [Next]_vars => SafeInv' /\ Remembered
<1> SUFFICES ASSUME CountInv, SafeInv, [Next]_vars PROVE SafeInv' /\ Remembered
  OBVIOUS
<1> DEFINE Done == SafeInv' /\ Remembered
<1> HIDE DEF Done
<1>1. ASSUME NEW s \in Streams, ControlPacket(s) PROVE Done
  <2>1. CASE Open(s) \/ Renegotiate(s) \/ EnterLearn(s)
    BY <2>1, OpenSafe, RenegotiateSafe, EnterLearnSafe DEF Done
  <2>2. ASSUME NEW single \in BOOLEAN, PeriodBegin(s, single) PROVE Done
    BY <2>2, PeriodBeginSafe DEF Done
  <2>3. ASSUME NEW fits \in BOOLEAN, ProfilePeriod(s, fits) PROVE Done
    BY <2>3, ProfileSafe DEF Done
  <2>4. ASSUME NEW ok \in BOOLEAN, StageComplete(s, ok) PROVE Done
    BY <2>4, StageCompleteSafe DEF Done
  <2>5. CASE Mismatch(s) \/ RecoveryComplete(s) \/ SessionReset(s)
    BY <2>5, MismatchSafe, RecoveryCompleteSafe, SessionResetSafe DEF Done
  <2>6. ASSUME NEW published \in BOOLEAN, SessionTeardown(s, published) PROVE Done
    BY <2>6, TeardownSafe DEF Done
  <2>7. CASE Refused(s)
    BY <2>7, RefusedSafe DEF Done
  <2> QED BY <1>1, <2>1, <2>2, <2>3, <2>4, <2>5, <2>6, <2>7 DEF ControlPacket
<1>2. ASSUME NEW s \in Streams, RoutePacket(s) PROVE Done
  <2>1. ASSUME NEW r \in Packets(s), NEW accepted \in BOOLEAN, Route(s, r, accepted)
        PROVE  Done
    BY <2>1, RouteSafe DEF Done
  <2>2. CASE RouteStale(s) \/ FallbackFlush(s)
    BY <2>2, StaleSafe, FlushSafe DEF Done
  <2> QED BY <1>2, <2>1, <2>2 DEF RoutePacket
<1>3. ASSUME Submit PROVE Done
  <2>1. CASE \/ \E q \in Queues, matches \in BOOLEAN : SubmitUnrouted(q, matches)
             \/ \E s \in Streams, matches \in BOOLEAN : SubmitRefused(s, matches)
    BY <2>1, GateSafe DEF Done
  <2>2. ASSUME NEW s \in Streams, NEW real \in BOOLEAN, SubmitReady(s, real) PROVE Done
    BY <2>2, SubmitReadySafe DEF Done
  <2> QED BY <1>3, <2>1, <2>2 DEF Submit
<1>4. ASSUME HostWork PROVE Done
  <2>1. CASE CompleteRelease
    BY <2>1, CompleteReleaseSafe DEF Done
  <2>2. CASE UpdatesApplied
    BY <2>2, UpdatesAppliedSafe DEF Done
  <2>3. ASSUME NEW success \in BOOLEAN, CompleteSubmit(success) PROVE Done
    BY <2>3, CompleteSubmitSafe DEF Done
  <2> QED BY <1>4, <2>1, <2>2, <2>3 DEF HostWork
<1>5. ASSUME Elsewhere PROVE Done
  <2>1. ASSUME NEW s \in Streams, DeliveryFailed(s) PROVE Done
    BY <2>1, DeliverySafe DEF Done
  <2>2. CASE RemoveAll \/ Shutdown \/ CleanupDevice
    BY <2>2, RemovalsSafe DEF Done
  <2>3. CASE AbortProcess
    BY <2>3, AbortSafe DEF Done
  <2> QED BY <1>5, <2>1, <2>2, <2>3 DEF Elsewhere
<1>6. ASSUME UNCHANGED vars PROVE Done
  <2>1. UNCHANGED <<host, work, ran, periods>>
    BY <1>6 DEF vars
  <2>2. SafeInv'
    BY <2>1 DEF SafeInv, WorkOf, NoWork
  <2>3. Remembered
    BY <2>1, NothingOwed DEF Remembered
  <2> QED BY <2>2, <2>3 DEF Done
<1>7. Done
  BY <1>1, <1>2, <1>3, <1>4, <1>5, <1>6 DEF Next
<1> QED BY <1>7 DEF Done

\* The ledgers, the submissions, the periods and the work agree in every
\* reachable state.
THEOREM SafeInvariance == Spec => []SafeInv
BY InitSafe, NextSafe, BridgeInvariance, PTL DEF Spec

\* What the host has realized is still in flight in the ledger when its
\* completion asks for it, and all of a submission that is submitted can be
\* committed, whatever was cancelled, recovered or removed meanwhile.
THEOREM CompletionsAccepted == Spec => []CompletionAccepted
<1>1. CountInv /\ SafeInv => CompletionAccepted
  <2> SUFFICES ASSUME CountInv, SafeInv PROVE CompletionAccepted
    OBVIOUS
  <2> DEFINE h == host[work.s]
             L == h.c.ledger
  <2>1. ASSUME work.op \in {"release", "replay", "realize", "skip"}
        PROVE  RealizedOK(h)
    <3>1. work # NoWork /\ Flying(work)
      BY <2>1 DEF Flying, NoWork
    <3>2. L \in Ledgers /\ LedgerOK(L, work)
      BY <3>1, WorkStands DEF Good, Sound
    <3> QED BY <3>1, <3>2, Accepted DEF RealizedOK, FlightOf
  <2>2. ASSUME work.op = "submit" PROVE CommitOK(h)
    <3>1. work # NoWork /\ ~Flying(work)
      BY <2>2 DEF Flying, NoWork
    <3>2. /\ Held(work) /\ LedgerOK(L, work) /\ Ledgered(L, h.p, work)
      BY <3>1, WorkStands DEF Good, Sound, Pends
    <3>3. \A k \in DOMAIN h.p.ids :
            /\ Has(L, h.p.ids[k]) /\ PrefixEmitted(L, At(L, h.p.ids[k]))
            /\ L[At(L, h.p.ids[k])].state \in EmittedStates
      BY <3>1, <3>2, CommitReady
    <3> QED BY <3>3 DEF CommitOK
  <2> QED BY <2>1, <2>2 DEF CompletionAccepted
<1> QED BY <1>1, BridgeInvariance, SafeInvariance, PTL

\* A submission goes to the GPU only if it has not run yet, and with all the
\* updates it declared applied, also when it was cancelled after the gate.
THEOREM WholeAndOnce == Spec => []RunsWholeAndOnce
<1>1. CountInv /\ SafeInv => RunsWholeAndOnce
  <2> SUFFICES ASSUME CountInv, SafeInv, work.op = "submit"
               PROVE  LET h == host[work.s]
                      IN /\ h.p.sub \notin ran
                         /\ \A i \in EntriesOf(h.c.ledger, h.p.sub) : Emitted(h.c.ledger[i])
                         /\ Cardinality(EntriesOf(h.c.ledger, h.p.sub)) = h.p.n
    BY DEF RunsWholeAndOnce
  <2> DEFINE h == host[work.s]
             L == h.c.ledger
  <2>1. work # NoWork /\ ~Flying(work) /\ Submits(work)
    BY DEF Flying, Submits, NoWork
  <2>2. /\ Held(work) /\ L \in Ledgers /\ LedgerOK(L, work)
        /\ Current(h.b, h.c, h.p, ran) /\ Routed(h.b, h.p, work) /\ Ledgered(L, h.p, work)
    BY <2>1, WorkStands DEF Good, Sound, Pends
  <2> HIDE DEF h
  <2>3. /\ h.p.ids \in Seq(Updates) /\ Distinct(h.p.ids) /\ h.p.n = Len(h.p.ids)
    BY <2>1, <2>2 DEF Routed
  <2>4. \A i \in DOMAIN L : Named(h.p.ids, L[i].id) => Emitted(L[i])
    BY <2>1, <2>2, CommitReady
  <2>5. \A i \in DOMAIN L : L[i].sub = h.p.sub => Named(h.p.ids, L[i].id)
    BY <2>1, <2>2 DEF Ledgered
  <2>6. \A k \in DOMAIN h.p.ids : \E i \in DOMAIN L : L[i].id = h.p.ids[k] /\ L[i].sub = h.p.sub
    BY <2>2 DEF Ledgered
  <2>7. \A i, j \in DOMAIN L : L[i].id = L[j].id => i = j
    BY <2>2 DEF LedgerOK
  <2>8. Cardinality(EntriesOf(L, h.p.sub)) = Len(h.p.ids)
    BY <2>2, <2>3, <2>5, <2>6, <2>7, Numbered
  <2>9. \A i \in EntriesOf(L, h.p.sub) : Emitted(L[i])
    BY <2>4, <2>5 DEF EntriesOf
  <2>10. h.p.sub \notin ran
    BY <2>2 DEF Current
  <2> QED BY <2>3, <2>8, <2>9, <2>10 DEF h
<1> QED BY <1>1, BridgeInvariance, SafeInvariance, PTL

\* A session believes its occurrence committed only if it ran and nothing of
\* it is left to replay.
THEOREM Committed == Spec => []CommittedMeansRun
<1>1. SafeInv => CommittedMeansRun
  <2> SUFFICES ASSUME SafeInv, NEW s \in Streams, Live(s), host[s].b.committed
               PROVE  /\ host[s].b.sub \in ran /\ host[s].b.executed
                      /\ \A i \in EntriesOf(host[s].c.ledger, host[s].b.sub) :
                           host[s].c.ledger[i].state = "COMMITTED"
    BY DEF CommittedMeansRun
  <2>1. Sound(host[s], WorkOf(s), periods, ran)
    BY DEF SafeInv, Good
  <2> QED BY <2>1 DEF Sound, Occurs, Settled, EntriesOf
<1> QED BY <1>1, SafeInvariance, PTL

\* A routed occurrence that was lost on the way leaves its session in
\* recovery, or with a recovery that begins when the host work ends.
THEOREM LostRecovers == Spec => []LostIsRecovered
<1>1. CountInv /\ SafeInv => LostIsRecovered
  <2> SUFFICES ASSUME CountInv, SafeInv, NEW s \in Streams,
                      Live(s), host[s].b.open, host[s].b.sub # 0,
                      ~host[s].b.committed, host[s].b.pending = 0
               PROVE  host[s].b.deferred \/ host[s].c.stage \notin Learned
    BY DEF LostIsRecovered
  <2>1. Counted(host[s], Released(s), Submitted(s)) /\ LostOK(host[s])
    BY DEF CountInv, SafeInv, Good
  <2>2. ~host[s].p.listed
    BY <2>1 DEF Counted, Holds
  <2> QED BY <2>1, <2>2 DEF LostOK, Live
<1> QED BY <1>1, BridgeInvariance, SafeInvariance, PTL

\* The bridge and the core agree on the open period while it can be routed.
THEOREM PeriodsAgreeAlways == Spec => []PeriodsAgree
<1>1. SafeInv => PeriodsAgree
  BY DEF SafeInv, Good, Sound, Agrees, PeriodsAgree
<1> QED BY <1>1, SafeInvariance, PTL

\* What a session owes belongs to the period it has open.
LEMMA ClosedOwesNothing ==
  ASSUME SafeInv, NEW s \in Streams,
         ~host[s].b.open \/ host[s].b.committed \/ host[s].b.sub = 0
  PROVE  AllCommitted(host[s].c.ledger)
<1>1. Sound(host[s], WorkOf(s), periods, ran)
  BY DEF SafeInv, Good
<1> SUFFICES ASSUME NEW i \in DOMAIN host[s].c.ledger,
                    host[s].c.ledger[i].state # "COMMITTED"
             PROVE  FALSE
  BY DEF AllCommitted
<1>2. /\ host[s].b.open /\ host[s].c.ledger[i].sub = host[s].b.sub /\ ~host[s].b.committed
  BY <1>1 DEF Sound, Settled
<1>3. host[s].c.ledger[i].sub # 0
  BY <1>1 DEF Sound, LedgerOK
<1> QED BY <1>2, <1>3

\* No submit passes unseen while a stream that owns its queue has updates of a
\* submission that has not run.
THEOREM NothingBypasses == Spec => []NoBypass
<1>1. SafeInv => NoBypass
  <2> SUFFICES ASSUME SafeInv, NEW q \in Queues, LetThrough(q), NEW s \in BoundTo(q)
               PROVE  AllCommitted(host[s].c.ledger)
    BY DEF NoBypass
  <2> DEFINE bound == {t \in BoundTo(q) : StreamGate(host[t]) # "LEGACY"}
  <2>1. s \in Streams /\ \A g \in Gates(q) : g.gate = "LEGACY"
    BY DEF BoundTo, LetThrough
  <2>2. StreamGate(host[s]) = "LEGACY"
    <3> SUFFICES ASSUME StreamGate(host[s]) # "LEGACY" PROVE FALSE
      OBVIOUS
    <3>1. s \in bound
      OBVIOUS
    <3>2. Gates(q) = {[gate |-> StreamGate(host[t]), s |-> t] : t \in bound}
      BY <3>1 DEF Gates
    <3> HIDE DEF bound
    <3>3. [gate |-> StreamGate(host[s]), s |-> s] \in Gates(q)
      BY <3>1, <3>2
    <3> QED BY <2>1, <3>3
  <2>3. \/ host[s].c.stage \in {"LEGACY", "DETECT"}
        \/ ~host[s].b.open
    BY <2>2 DEF StreamGate
  <2>4. Agrees(host[s].b, host[s].c)
    BY <2>1 DEF SafeInv, Good, Sound
  <2>5. CASE host[s].c.stage \in {"LEGACY", "DETECT"}
    BY <2>4, <2>5, NothingOwed DEF Agrees
  <2>6. CASE ~host[s].b.open
    BY <2>1, <2>6, ClosedOwesNothing
  <2> QED BY <2>3, <2>5, <2>6
<1> QED BY <1>1, SafeInvariance, PTL

\* A session in recovery that owes a replay can replay its occurrence, report
\* it complete or flush.
THEOREM RecoveryEnds == Spec => []RecoverHasExit
<1>1. SafeInv => RecoverHasExit
  <2> SUFFICES ASSUME SafeInv, NEW s \in Streams, host[s].c.stage = "RECOVER",
                      host[s].c.ledger # <<>>
               PROVE  LET h == host[s]
                      IN \/ ~h.c.fallback
                         \/ h.b.open /\ ~h.b.executed /\ h.c.cur = h.b.period
                              /\ h.c.last = h.b.period
                         \/ h.b.executed /\ h.b.committed /\ h.b.sub # 0
                              /\ AllCommitted(h.c.ledger)
    BY DEF RecoverHasExit
  <2>1. /\ Occurs(host[s].b, host[s].c.ledger, periods, ran)
        /\ Agrees(host[s].b, host[s].c)
    BY DEF SafeInv, Good, Sound
  <2>2. CASE host[s].b.committed
    <3>1. AllCommitted(host[s].c.ledger)
      BY <2>2, ClosedOwesNothing
    <3> QED BY <2>1, <2>2, <3>1 DEF Occurs
  <2>3. CASE ~host[s].b.committed
    BY <2>1, <2>3 DEF Occurs, Agrees
  <2> QED BY <2>2, <2>3
<1> QED BY <1>1, SafeInvariance, PTL

\* A ledger is only forgotten, by a recovery that is complete, a Fast
\* occurrence or a reset, when the GPU has run all of it, or the session is
\* given up.
THEOREM NothingIsForgotten == Spec => NothingForgotten
<1>1. CountInv /\ SafeInv /\ [Next]_vars =>
        [\A s \in Streams :
           Live(s) /\ host'[s].b.live /\ host'[s].c.ledger = <<>> =>
             AllCommitted(host[s].c.ledger) \/ SessionTeardown(s, FALSE)]_vars
  BY NextSafe DEF Remembered
<1> QED BY <1>1, BridgeInvariance, SafeInvariance, PTL DEF Spec, NothingForgotten
=============================================================================
