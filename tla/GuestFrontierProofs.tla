------------------------- MODULE GuestFrontierProofs -------------------------
(***************************************************************************)
(* What the GPU runs sees every update the application may count on, no    *)
(* update is lost on the way, and the guest fails only when a call went    *)
(* wrong or at one of the things the application did that are noted        *)
(* (Because): for any number of threads, slots, sets and buffers, and any  *)
(* calls and recordings that Vulkan allows.                                *)
(*                                                                         *)
(* The invariant (IInv) is of the guest, the host, the application and the *)
(* calls under way:                                                        *)
(*                                                                         *)
(*   Orderly   the records are one for a slot, under ids of their own, and *)
(*             the frontier of a submission under way is released;         *)
(*   Holds     what the application may count on is at the host, or in a   *)
(*             record that was not released;                               *)
(*   Agreed    the shadow has it too, unless an update that Detect took    *)
(*             is on its way; handles are held where they are referred to; *)
(*             each call has made sure of what its next part relies on;    *)
(*             and while nothing went wrong the device works and sends     *)
(*             handles that live;                                          *)
(*   Settled   a released record belongs to an early route, to the         *)
(*             submission under way, or to a device that failed.           *)
(*                                                                         *)
(* They are operators of a guest, a host, an application and the calls,    *)
(* because a step goes through several guests and hosts on its way: a      *)
(* submission rebuilds the records, sends some, falls back, and takes the  *)
(* gate.  Most of these are moves (Move), which tell the application       *)
(* nothing; moves compose, and keep every call under way as it is.  What   *)
(* is left is how each call begins, goes on and returns.                   *)
(***************************************************************************)
EXTENDS GuestFrontier, TLAPS, FiniteSetTheorems, FunctionTheorems, WellFoundedInduction

-----------------------------------------------------------------------------
(* The inductive invariant, of a guest g, a host h, what the application    *)
(* may count on a, and the calls p under way.                              *)

Values == Buffers \cup {None}
StageSet == {"Detect", "Learn", "Match", "Fast", "Legacy"}
RecordType == [id : Nat, slot : Slots, val : Values, released : BOOLEAN]
RoutedKinds == {"Learn", "Match", "Fast", "Recovery"}
ActiveType ==
  [kind : {"none", "drained"} \cup RoutedKinds, frontier : SUBSET Nat, consumed : SUBSET Sets]
EarlyType == [cmd : Cmds \cup {None}, frontier : SUBSET Nat, consumed : SUBSET Sets]
GuestType ==
  [stage : StageSet, failed : BOOLEAN, nextId : Nat, sets : SUBSET Sets,
   value : [Slots -> Values], link : [Slots -> Nat], records : SUBSET RecordType,
   active : ActiveType, early : EarlyType,
   learned : Cmds \cup {None}, executable : SUBSET Cmds, binds : [Cmds -> SUBSET Sets],
   units : [Cmds -> Nat]]
HostType ==
  [content : [Slots -> Values], sets : SUBSET Sets, buffers : SUBSET Buffers, faults : Nat]
Causes == {"opaque", "legal"}
AppType ==
  [content : [Slots -> Values], known : [Slots -> Values], sets : SUBSET Sets,
   buffers : SUBSET Buffers, ready : SUBSET Cmds, causes : SUBSET Causes]
UpdateType == [op : {"update"}, at : {"hook", "rpc"}, call : Calls, sets : SUBSET Sets,
               bufs : SUBSET Values]
FreeType == [op : {"free"}, at : {"prepare", "rpc", "hook"}, set : Sets, sets : SUBSET Sets,
             bufs : SUBSET Values]
AllocateType == [op : {"allocate"}, at : {"rpc", "hook"}, set : Sets, sets : SUBSET Sets,
                 bufs : SUBSET Values]
DestroyType == [op : {"destroy"}, at : {"prepare", "payload", "rpc"}, buf : Buffers,
                sets : SUBSET Sets, bufs : SUBSET Values]
SubmitType == [op : {"submit"}, at : {"rpc"}, cmd : Cmds, gate : {"plain", "drained", "routed"},
               sets : SUBSET Sets, bufs : SUBSET Values]
CallType == {Idle} \cup UpdateType \cup FreeType \cup AllocateType \cup DestroyType \cup SubmitType

\* One record for a slot, under an id of its own; one that was not released is
\* linked, and has the slot's value.
Tidy(g) ==
  /\ IsFiniteSet(g.records) /\ Cardinality(g.records) <= MaxRecords
  /\ g.stage \in {"Detect", "Legacy"} => g.records = {}
  /\ \A r \in g.records :
       /\ r.id < g.nextId
       /\ g.value[r.slot] # None => g.value[r.slot] = r.val
       /\ ~r.released => /\ g.link[r.slot] = r.id /\ g.value[r.slot] = r.val
                         /\ SetOf[r.slot] \in g.sets
  /\ \A r, q \in g.records : r.slot = q.slot \/ r.id = q.id => r = q

\* The frontier of a routed submission is released, and of its sets.
Routes(g) ==
  /\ g.early # NoEarly => g.stage = "Fast" /\ g.active.kind = "none"
  /\ g.active.kind = "drained" => g.stage = "Legacy"
  /\ g.active.kind \in RoutedKinds =>
       /\ Specialized(g) /\ g.early = NoEarly /\ g.active.frontier \subseteq Ids(g.records)
       /\ \A r \in g.records : r.id \in g.active.frontier =>
            r.released /\ SetOf[r.slot] \in g.active.consumed

Orderly(g) == g \in GuestType /\ Tidy(g) /\ Routes(g)

Owed(g, k) == \E r \in g.records : r.slot = k /\ ~r.released

\* What the application may count on is at the host or owed to it.
Holds(g, h, a) == \A k \in Slots :
  a.known[k] # None => h.content[k] = a.known[k] \/ Owed(g, k)

\* The shadow has it too, unless an update that Detect shadowed is on its way.
Rewritten(p, k) ==
  \E t \in Threads : p[t].op = "update" /\ p[t].at = "rpc" /\ k \in Written(p[t].call)
Shadows(g, a, p) ==
  g.stage # "Legacy" =>
    \A k \in Slots : a.known[k] # None /\ ~Rewritten(p, k) => g.value[k] = a.known[k]

\* The application refers to handles that it holds.
Legal(a) == \A k \in Slots :
  /\ a.known[k] # None => a.content[k] = a.known[k]
  /\ a.content[k] # None => a.content[k] \in a.buffers /\ SetOf[k] \in a.sets
Handles(g, h, a) ==
  /\ a.sets \subseteq h.sets /\ a.sets \subseteq g.sets /\ a.buffers \subseteq h.buffers
  /\ a.ready \subseteq g.executable
  /\ \A c \in a.ready : g.binds[c] \subseteq a.sets
Current(g, a) == g.stage # "Legacy" /\ ~g.failed => a.known = a.content

\* What a call under way has made sure of.
UpdateOK(g, a, q) ==
  /\ q.sets = SetsOfSlots(Written(q.call) \cup Copied(q.call)) /\ q.sets \subseteq a.sets
  /\ q.bufs \subseteq a.buffers
  /\ \A k \in Written(q.call) : Overlay(a.content, q.call)[k] \in q.bufs
  /\ q.at = "rpc" =>
       /\ g.stage \in {"Detect", "Legacy"}
       /\ g.stage = "Detect" => \A k \in Written(q.call) :
            Overlay(a.known, q.call)[k] # None => g.value[k] = Overlay(a.known, q.call)[k]
FreeOK(g, a, q) ==
  /\ q.sets = {q.set} /\ q.set \notin a.sets /\ q.bufs = {}
  /\ q.at # "prepare" => \A r \in g.records : SetOf[r.slot] # q.set
AllocateOK(h, a, q) ==
  /\ q.sets = {q.set} /\ q.set \notin a.sets /\ q.bufs = {}
  /\ q.at = "hook" => q.set \in h.sets
DestroyOK(g, a, q) ==
  /\ q.sets = {} /\ q.bufs = {q.buf} /\ q.buf \notin a.buffers
  /\ q.at # "prepare" => \A r \in g.records : r.val # q.buf
  /\ q.at = "rpc" => \A k \in Slots : g.value[k] # q.buf
GateOK(g, gate) ==
  /\ gate = "plain" => g.active.kind = "none"
  /\ gate = "drained" => g.active.kind = "drained"
  /\ gate = "routed" => g.active.kind \in RoutedKinds
SubmitOK(g, h, a, q) ==
  /\ q.cmd \in g.executable /\ q.sets = g.binds[q.cmd] /\ q.bufs \subseteq a.buffers \cup {None}
  /\ GateOK(g, q.gate)
  /\ \A k \in Slots : SetOf[k] \in q.sets /\ a.known[k] # None => h.content[k] = a.known[k]
CallOK(g, h, a, q) ==
  /\ q.op = "update" => UpdateOK(g, a, q)
  /\ q.op = "free" => FreeOK(g, a, q)
  /\ q.op = "allocate" => AllocateOK(h, a, q)
  /\ q.op = "destroy" => DestroyOK(g, a, q)
  /\ q.op = "submit" => SubmitOK(g, h, a, q)

\* Calls are apart from each other, and from a submission that holds the gate.
Apart(p) == \A t, u \in Threads : t # u =>
  /\ p[t].sets \cap p[u].sets = {}
  /\ p[t].op = "destroy" => p[t].buf \notin p[u].bufs
  /\ ~(p[t].op = "submit" /\ p[u].op = "submit")
Gated(g, p) == g.active.kind # "none" =>
  /\ \A t \in Threads : p[t].op \notin Lifecycle
  /\ \E t \in Threads : p[t].op = "submit"

\* While nothing went wrong the device works, and sends handles that live.
Clean(h, a) == h.faults = 0 /\ a.causes = {}
Freeing(p, s) == \E t \in Threads : p[t].op = "free" /\ p[t].at = "hook" /\ p[t].set = s
Living(g, h, p) ==
  /\ ~g.failed /\ Mapped(h, g.records)
  /\ \A k \in Slots : g.value[k] # None =>
       g.value[k] \in h.buffers /\ (SetOf[k] \in h.sets \/ Freeing(p, SetOf[k]))

Typed(h, a, p) == h \in HostType /\ a \in AppType /\ p \in [Threads -> CallType]
Agreed(g, h, a, p) ==
  /\ Typed(h, a, p) /\ Shadows(g, a, p)
  /\ Legal(a) /\ Handles(g, h, a) /\ Current(g, a)
  /\ \A t \in Threads : CallOK(g, h, a, p[t])
  /\ Apart(p) /\ Gated(g, p)
  /\ Clean(h, a) => Living(g, h, p)

Good(g, h, a, p) == Orderly(g) /\ Holds(g, h, a) /\ Agreed(g, h, a, p)

\* Released records are of an early route, of the submission under way or of a
\* device that failed.
Settled(g) == (\E r \in g.records : r.released) =>
  g.failed \/ g.early # NoEarly \/ g.active.kind # "none"

IInv == Good(guest, host, app, pc) /\ Settled(guest)
-----------------------------------------------------------------------------
(* The values a call leaves behind *)

\* A set of naturals that is not empty has a least element.
LEMMA NatMin ==
  ASSUME NEW T \in SUBSET Nat, T # {}
  PROVE  \E x \in T : \A y \in T : x <= y
<1> DEFINE R == OpToRel(<, Nat)
<1>1. IsWellFoundedOn(R, Nat)
  BY NatLessThanWellFounded
<1>2. \A x, y \in Nat : x < y => <<x, y>> \in R
  BY DEF OpToRel
<1> HIDE DEF R
<1>3. \E x \in T : \A y \in T : ~(<<y, x>> \in R)
  BY <1>1, WFMin
<1>4. PICK x \in T : \A y \in T : ~(<<y, x>> \in R)
  BY <1>3
<1>5. \A y \in T : ~(y < x)
  BY <1>2, <1>4
<1>6. \A y \in T : x <= y
  BY <1>5
<1> QED BY <1>6

\* A set of naturals that is closed under one more up to n reaches n.
LEMMA Climbs ==
  ASSUME NEW n \in Nat, NEW T, 0 \in T, \A i \in 1 .. n : i - 1 \in T => i \in T
  PROVE  \A i \in 0 .. n : i \in T
<1> DEFINE U == {i \in 0 .. n : i \notin T}
<1> SUFFICES ASSUME U # {} PROVE FALSE
  OBVIOUS
<1>1. PICK x \in U : \A y \in U : x <= y
  <2>1. U \in SUBSET Nat OBVIOUS
  <2> HIDE DEF U
  <2> QED BY <2>1, NatMin
<1>2. x # 0 /\ x \in 1 .. n /\ x \notin T
  BY <1>1
<1>3. x - 1 \in T
  BY <1>1, <1>2
<1> QED BY <1>2, <1>3

IsStaged(v, call, n, f) ==
  f = [i \in 0 .. n |-> IF i = 0 THEN v ELSE Changed(f[i-1], call[i])]

\* The stages of a call exist.
LEMMA StagesExist ==
  ASSUME NEW v, NEW call, NEW n \in Nat
  PROVE  \E f : IsStaged(v, call, n, f)
<1> DEFINE T == {i \in Nat : \E f : IsStaged(v, call, i, f)}
<1>1. 0 \in T
  <2>1. IsStaged(v, call, 0, [i \in 0 .. 0 |-> v])
    BY DEF IsStaged
  <2> QED BY <2>1
<1>2. ASSUME NEW x \in 1 .. n, x - 1 \in T PROVE x \in T
  <2>1. PICK f : IsStaged(v, call, x - 1, f)
    BY <1>2
  <2> DEFINE h == [i \in 0 .. x |-> IF i = x THEN Changed(f[x - 1], call[x]) ELSE f[i]]
  <2>2. \A i \in 0 .. x : h[i] = IF i = 0 THEN v ELSE Changed(h[i-1], call[i])
    BY <2>1 DEF IsStaged
  <2>3. h = [i \in 0 .. x |-> IF i = 0 THEN v ELSE Changed(h[i-1], call[i])]
    BY <2>2
  <2>4. IsStaged(v, call, x, h)
    BY <2>3 DEF IsStaged
  <2> QED BY <2>4
<1> HIDE DEF T
<1>3. n \in T
  BY <1>1, <1>2, Climbs
<1> QED BY <1>3 DEF T

\* So Staged is the function its recursion describes.
LEMMA StagedIs ==
  ASSUME NEW v, NEW call, Len(call) \in Nat
  PROVE  /\ Staged(v, call)[0] = v
         /\ \A i \in 1 .. Len(call) :
              Staged(v, call)[i] = Changed(Staged(v, call)[i-1], call[i])
<1>1. \E f : IsStaged(v, call, Len(call), f)
  BY StagesExist
<1>2. Staged(v, call) = CHOOSE f : IsStaged(v, call, Len(call), f)
  BY DEF Staged, IsStaged
<1>3. IsStaged(v, call, Len(call), Staged(v, call))
  BY <1>1, <1>2
<1> QED BY <1>3 DEF IsStaged

\* What a call of the application looks like.
LEMMA CallFacts ==
  ASSUME NEW call \in Calls
  PROVE  /\ Len(call) \in Nat /\ DOMAIN call = 1 .. Len(call)
         /\ \A i \in 1 .. Len(call) : call[i].dst \in Slots /\ call[i].src \in Slots \cup Buffers
         /\ \A i \in 1 .. Len(call) : call[i].src \in Slots => call[i].src \in Copied(call)
         /\ \A i \in 1 .. Len(call) : call[i].dst \in Written(call)
         /\ Written(call) \subseteq Slots /\ Copied(call) \subseteq Slots
<1> DEFINE E == [dst : Slots, src : Slots \cup Buffers]
<1>1. call \in Seq(E)
  BY GuestAssumption DEF GuestAssumption
<1>2. /\ Len(call) \in Nat /\ DOMAIN call = 1 .. Len(call)
      /\ \A i \in 1 .. Len(call) : call[i] \in E
  <2> HIDE DEF E
  <2> QED BY <1>1
<1>3. \A i \in 1 .. Len(call) : call[i].dst \in Slots /\ call[i].src \in Slots \cup Buffers
  BY <1>2
<1>4. Written(call) = {call[i].dst : i \in 1 .. Len(call)}
  BY <1>2 DEF Written
<1>5. Copied(call) = {call[i].src : i \in 1 .. Len(call)} \cap Slots
  BY <1>2 DEF Copied
<1> QED BY <1>2, <1>3, <1>4, <1>5

\* The stages of a call are shadows of the descriptors.
LEMMA StagedType ==
  ASSUME NEW call \in Calls, NEW v \in [Slots -> Values]
  PROVE  \A i \in 0 .. Len(call) : Staged(v, call)[i] \in [Slots -> Values]
<1> DEFINE T == {i \in 0 .. Len(call) : Staged(v, call)[i] \in [Slots -> Values]}
<1>1. 0 \in T
  BY StagedIs, CallFacts
<1>2. ASSUME NEW i \in 1 .. Len(call), i - 1 \in T PROVE i \in T
  <2>1. Staged(v, call)[i] = Changed(Staged(v, call)[i-1], call[i])
    BY StagedIs, CallFacts
  <2>2. call[i].dst \in Slots /\ call[i].src \in Slots \cup Buffers
    BY CallFacts
  <2> DEFINE u == Staged(v, call)[i-1]
  <2>3. u \in [Slots -> Values]
    BY <1>2
  <2> HIDE DEF u
  <2>4. Changed(u, call[i]) \in [Slots -> Values]
    BY <2>2, <2>3, GuestAssumption DEF Changed, Values, GuestAssumption
  <2> QED BY <2>1, <2>4, CallFacts DEF u
<1>3. Len(call) \in Nat
  BY CallFacts
<1> HIDE DEF T
<1>4. \A i \in 0 .. Len(call) : i \in T
  BY <1>1, <1>2, <1>3, Climbs
<1> QED BY <1>4 DEF T

\* A slot the call does not write keeps its value.
LEMMA OverlayIs ==
  ASSUME NEW call \in Calls, NEW v \in [Slots -> Values]
  PROVE  /\ Overlay(v, call) \in [Slots -> Values]
         /\ \A k \in Slots : k \notin Written(call) => Overlay(v, call)[k] = v[k]
<1>0. Len(call) \in Nat /\ Len(call) \in 0 .. Len(call)
  BY CallFacts
<1>1. Overlay(v, call) \in [Slots -> Values]
  BY <1>0, StagedType DEF Overlay
<1>2. ASSUME NEW k \in Slots, k \notin Written(call) PROVE Overlay(v, call)[k] = v[k]
  <2> DEFINE T == {i \in 0 .. Len(call) : Staged(v, call)[i][k] = v[k]}
  <2>1. 0 \in T
    BY <1>0, StagedIs
  <2>2. ASSUME NEW i \in 1 .. Len(call), i - 1 \in T PROVE i \in T
    <3>1. Staged(v, call)[i] = Changed(Staged(v, call)[i-1], call[i])
      BY <1>0, StagedIs
    <3>2. call[i].dst \in Slots /\ call[i].dst # k
      BY <1>2, CallFacts
    <3>3. Staged(v, call)[i-1] \in [Slots -> Values]
      BY <1>0, StagedType
    <3>4. Changed(Staged(v, call)[i-1], call[i])[k] = Staged(v, call)[i-1][k]
      BY <3>2, <3>3 DEF Changed
    <3> QED BY <2>2, <3>1, <3>4
  <2> HIDE DEF T
  <2>3. \A i \in 0 .. Len(call) : i \in T
    BY <1>0, <2>1, <2>2, Climbs
  <2> QED BY <1>0, <2>3 DEF T, Overlay
<1> QED BY <1>1, <1>2

\* Values that are related slot by slot before a call are so after it.
LEMMA OverlayRelated ==
  ASSUME NEW call \in Calls, NEW u \in [Slots -> Values], NEW v \in [Slots -> Values],
         NEW D \in SUBSET Slots, Written(call) \cup Copied(call) \subseteq D,
         NEW E, \A b \in Buffers : <<b, b>> \in E,
         \A k \in D : <<u[k], v[k]>> \in E
  PROVE  \A k \in D : <<Overlay(u, call)[k], Overlay(v, call)[k]>> \in E
<1>0. Len(call) \in Nat /\ Len(call) \in 0 .. Len(call)
  BY CallFacts
<1> DEFINE T == {i \in 0 .. Len(call) :
                   \A k \in D : <<Staged(u, call)[i][k], Staged(v, call)[i][k]>> \in E}
<1>1. 0 \in T
  BY <1>0, StagedIs
<1>2. ASSUME NEW i \in 1 .. Len(call), i - 1 \in T PROVE i \in T
  <2> DEFINE x == Staged(u, call)[i-1]
             y == Staged(v, call)[i-1]
             m == call[i]
  <2>1. x \in [Slots -> Values] /\ y \in [Slots -> Values]
    BY <1>0, StagedType
  <2>2. \A k \in D : <<x[k], y[k]>> \in E
    BY <1>2
  <2>3. m.dst \in Slots /\ (m.src \in Slots => m.src \in D) /\ (m.src \notin Slots => m.src \in Buffers)
    BY CallFacts
  <2>4. Staged(u, call)[i] = Changed(x, m) /\ Staged(v, call)[i] = Changed(y, m)
    BY <1>0, StagedIs
  <2> HIDE DEF x, y, m
  <2>5. ASSUME NEW k \in D PROVE <<Changed(x, m)[k], Changed(y, m)[k]>> \in E
    <3>1. CASE k # m.dst
      BY <2>1, <2>2, <2>3, <3>1 DEF Changed
    <3>2. CASE k = m.dst
      BY <2>1, <2>2, <2>3, <3>2 DEF Changed
    <3> QED BY <3>1, <3>2
  <2> QED BY <2>4, <2>5
<1> HIDE DEF T
<1>3. \A i \in 0 .. Len(call) : i \in T
  BY <1>0, <1>1, <1>2, Climbs
<1> QED BY <1>0, <1>3 DEF T, Overlay

\* Where one shadow has the values of another, it has them after the call.
LEMMA OverlayAgrees ==
  ASSUME NEW call \in Calls, NEW u \in [Slots -> Values], NEW v \in [Slots -> Values],
         NEW D \in SUBSET Slots, Written(call) \cup Copied(call) \subseteq D,
         \A k \in D : u[k] # None => v[k] = u[k]
  PROVE  \A k \in D : Overlay(u, call)[k] # None => Overlay(v, call)[k] = Overlay(u, call)[k]
<1> DEFINE E == {e \in Values \X Values : e[1] # None => e[2] = e[1]}
<1>1. \A b \in Buffers : <<b, b>> \in E
  BY DEF Values
<1>2. \A k \in D : <<u[k], v[k]>> \in E
  OBVIOUS
<1>3. \A k \in D : <<Overlay(u, call)[k], Overlay(v, call)[k]>> \in E
  <2> HIDE DEF E
  <2> QED BY <1>1, <1>2, OverlayRelated
<1> QED BY <1>3

\* Forgetting a buffer disturbs a slot only where that buffer was.
LEMMA OverlayForgets ==
  ASSUME NEW call \in Calls, NEW u \in [Slots -> Values], NEW v \in [Slots -> Values],
         NEW b, \A k \in Slots : u[k] # b => v[k] = u[k]
  PROVE  \A k \in Slots : Overlay(u, call)[k] # b => Overlay(v, call)[k] = Overlay(u, call)[k]
<1> DEFINE E == {e \in Values \X Values : e[1] # b => e[2] = e[1]}
<1>1. \A c \in Buffers : <<c, c>> \in E
  BY DEF Values
<1>2. \A k \in Slots : <<u[k], v[k]>> \in E
  OBVIOUS
<1>3. Written(call) \cup Copied(call) \subseteq Slots
  BY CallFacts
<1>4. \A k \in Slots : <<Overlay(u, call)[k], Overlay(v, call)[k]>> \in E
  <2> HIDE DEF E
  <2> QED BY <1>1, <1>2, <1>3, OverlayRelated
<1> QED BY <1>4

\* The last entry of a call that writes a slot is one of them, and no other slot's.
LEMMA LastWriteIs ==
  ASSUME NEW call \in Calls, NEW k \in Written(call)
  PROVE  LastWrite(call, k) \in 1 .. Len(call) /\ call[LastWrite(call, k)].dst = k
<1>1. Len(call) \in Nat /\ DOMAIN call = 1 .. Len(call)
  BY CallFacts
<1> DEFINE W == {i \in 1 .. Len(call) : call[i].dst = k}
           T == {m \in Nat : \A j \in W : j <= m}
<1>2. T # {}
  <2>1. Len(call) \in T
    BY <1>1
  <2> QED BY <2>1
<1>3. PICK m \in T : \A n \in T : m <= n
  <2>1. T \in SUBSET Nat OBVIOUS
  <2> HIDE DEF T
  <2> QED BY <1>2, <2>1, NatMin
<1>4. m \in W
  <2> SUFFICES ASSUME m \notin W PROVE FALSE
    OBVIOUS
  <2>1. W # {}
    BY <1>1 DEF Written
  <2>2. m # 0
    BY <1>1, <1>3, <2>1
  <2>3. m - 1 \in T
    BY <1>1, <1>3, <2>2
  <2> QED BY <1>3, <2>3
<1>5. \E i \in DOMAIN call : call[i].dst = k /\ \A j \in DOMAIN call : call[j].dst = k => j <= i
  BY <1>1, <1>3, <1>4
<1> QED BY <1>1, <1>5 DEF LastWrite
-----------------------------------------------------------------------------
(* What a step of the device may do to what the host has *)

\* The host y after a step keeps what h has of the application's updates.
Kept(h, y, a) ==
  /\ y \in HostType /\ y.sets = h.sets /\ y.buffers = h.buffers /\ y.faults >= h.faults
  /\ \A k \in Slots : a.known[k] # None /\ h.content[k] = a.known[k] => y.content[k] = a.known[k]

\* The host has the updates that the records R carry.
Reached(h, R, a) == \A r \in R : a.known[r.slot] # None => h.content[r.slot] = a.known[r.slot]

\* The records carry what the application may count on.
Carry(R, a) == \A r \in R : a.known[r.slot] # None => r.val = a.known[r.slot]

\* The image of a finite set has no more elements.
LEMMA FiniteImage ==
  ASSUME NEW S, IsFiniteSet(S), NEW f, DOMAIN f = S, f = [x \in S |-> f[x]]
  PROVE  IsFiniteSet({f[x] : x \in S}) /\ Cardinality({f[x] : x \in S}) <= Cardinality(S)
<1> DEFINE T == {f[x] : x \in S}
<1>1. f \in Surjection(S, T)
  BY DEF Surjection
<1> HIDE DEF T
<1>2. IsFiniteSet(T) /\ Cardinality(T) <= Cardinality(S)
  BY <1>1, FS_Surjection
<1> QED BY <1>2 DEF T

\* Keeping is transitive.
LEMMA KeptTwice ==
  ASSUME NEW h \in HostType, NEW y, NEW z, NEW a, Kept(h, y, a), Kept(y, z, a)
  PROVE  Kept(h, z, a)
<1>1. h.faults \in Nat /\ y.faults \in Nat /\ z.faults \in Nat
  BY DEF Kept, HostType
<1>2. z.faults >= h.faults
  BY <1>1 DEF Kept
<1> QED BY <1>2 DEF Kept

\* A host keeps what it has.
LEMMA KeptSame ==
  ASSUME NEW h \in HostType, NEW a
  PROVE  Kept(h, h, a)
<1>1. h.faults \in Nat
  BY DEF HostType
<1> QED BY <1>1 DEF Kept

\* What went wrong before the step has gone wrong after it.
LEMMA KeptClean ==
  ASSUME NEW h \in HostType, NEW y, NEW a, Kept(h, y, a), Clean(y, a)
  PROVE  Clean(h, a)
<1>1. h.faults \in Nat /\ y.faults >= h.faults
  BY DEF HostType, Kept
<1> QED BY <1>1 DEF Clean

\* Realizing records, at most one for a slot, brings each slot its record's value.
LEMMA RealizeIs ==
  ASSUME NEW h \in HostType, NEW R \in SUBSET RecordType,
         \A r, q \in R : r.slot = q.slot => r = q
  PROVE  LET y == Realize(h, R)
         IN  /\ y \in HostType /\ y.sets = h.sets /\ y.buffers = h.buffers /\ y.faults = h.faults
             /\ \A r \in R : y.content[r.slot] = r.val
             /\ \A k \in Slots : (\A r \in R : r.slot # k) => y.content[k] = h.content[k]
<1> DEFINE new == [k \in Slots |-> IF \E r \in R : r.slot = k THEN Newest(R, k).val
                                                             ELSE h.content[k]]
           y == Realize(h, R)
<1>1. y = [h EXCEPT !.content = new]
  BY DEF Realize
<1>2. ASSUME NEW r \in R PROVE Newest(R, r.slot) = r
  <2>1. \A q \in R : q.slot = r.slot => q.id <= r.id
    BY DEF RecordType
  <2>2. \E q \in R : q.slot = r.slot /\ \A s \in R : s.slot = r.slot => s.id <= q.id
    BY <2>1
  <2>3. Newest(R, r.slot) \in R /\ Newest(R, r.slot).slot = r.slot
    BY <2>2 DEF Newest
  <2> QED BY <2>3
<1>3. \A r \in R : r.slot \in Slots /\ r.val \in Values
  BY DEF RecordType
<1>4. h.content \in [Slots -> Values]
  BY DEF HostType
<1>5. \A r \in R : new[r.slot] = r.val
  BY <1>2, <1>3
<1>6. \A k \in Slots : (\A r \in R : r.slot # k) => new[k] = h.content[k]
  OBVIOUS
<1>7. new \in [Slots -> Values]
  <2>1. \A k \in Slots : new[k] \in Values
    BY <1>3, <1>4, <1>5, <1>6
  <2> QED BY <2>1
<1> HIDE DEF new, y
<1>8. y \in HostType /\ y.content = new /\ y.sets = h.sets /\ y.buffers = h.buffers
      /\ y.faults = h.faults
  BY <1>1, <1>7 DEF HostType
<1>9. /\ \A r \in R : y.content[r.slot] = r.val
      /\ \A k \in Slots : (\A r \in R : r.slot # k) => y.content[k] = h.content[k]
  BY <1>5, <1>6, <1>8
<1> QED BY <1>8, <1>9 DEF y

\* So it keeps what the host has, if the records carry what they should.
LEMMA RealizeKeeps ==
  ASSUME NEW h \in HostType, NEW a \in AppType, NEW R \in SUBSET RecordType,
         \A r, q \in R : r.slot = q.slot => r = q, Carry(R, a)
  PROVE  /\ Kept(h, Realize(h, R), a) /\ Reached(Realize(h, R), R, a)
         /\ Realize(h, R).faults = h.faults
<1> DEFINE y == Realize(h, R)
<1>1. /\ y \in HostType /\ y.sets = h.sets /\ y.buffers = h.buffers /\ y.faults = h.faults
      /\ \A r \in R : y.content[r.slot] = r.val
      /\ \A k \in Slots : (\A r \in R : r.slot # k) => y.content[k] = h.content[k]
  BY RealizeIs
<1>2. h.faults \in Nat
  BY DEF HostType
<1> HIDE DEF y
<1>3. Kept(h, y, a)
  BY <1>1, <1>2 DEF Kept, Carry
<1>4. Reached(y, R, a)
  BY <1>1 DEF Reached, Carry
<1> QED BY <1>1, <1>3, <1>4 DEF y

\* A call that goes wrong leaves one of the outcomes behind, and is counted.
LEMMA FaultyIs ==
  ASSUME NEW H \in SUBSET HostType, NEW x \in Faulty(H)
  PROVE  \E y \in H : /\ x \in HostType /\ x.faults = y.faults + 1 /\ x.content = y.content
                      /\ x.sets = y.sets /\ x.buffers = y.buffers
<1>1. PICK y \in H : x = [y EXCEPT !.faults = @ + 1]
  BY DEF Faulty
<1>2. y \in HostType
  OBVIOUS
<1>3. x \in HostType /\ x.faults = y.faults + 1 /\ x.content = y.content
      /\ x.sets = y.sets /\ x.buffers = y.buffers
  BY <1>1, <1>2 DEF HostType
<1> QED BY <1>3

\* So it keeps what those outcomes keep, and tells that something went wrong.
LEMMA FaultyKeeps ==
  ASSUME NEW h \in HostType, NEW a, NEW H \in SUBSET HostType, \A y \in H : Kept(h, y, a),
         NEW x \in Faulty(H)
  PROVE  Kept(h, x, a) /\ x.faults > 0 /\ ~Clean(x, a)
<1>1. PICK y \in H : /\ x \in HostType /\ x.faults = y.faults + 1 /\ x.content = y.content
                     /\ x.sets = y.sets /\ x.buffers = y.buffers
  BY FaultyIs
<1>2. h.faults \in Nat /\ y.faults \in Nat
  BY DEF HostType
<1>3. Kept(h, y, a)
  OBVIOUS
<1>4. x.faults >= h.faults /\ x.faults > 0
  BY <1>1, <1>2, <1>3 DEF Kept
<1> QED BY <1>1, <1>3, <1>4 DEF Kept, Clean

\* What comes of sending records to the host.
LEMMA RouteIs ==
  ASSUME NEW h \in HostType, NEW a \in AppType, NEW R \in SUBSET RecordType,
         \A r, q \in R : r.slot = q.slot => r = q, Carry(R, a),
         NEW o \in Route(h, R)
  PROVE  /\ o.reply \in {"refused", "accepted", "invalid"}
         /\ Kept(h, o.h, a)
         /\ o.reply = "accepted" => Reached(o.h, R, a)
         /\ o.reply = "invalid" => ~Clean(o.h, a)
<1> DEFINE kept == IF Mapped(h, R) THEN {Realize(h, R)} ELSE {}
<1>1. /\ kept \subseteq HostType
      /\ \A y \in kept : Kept(h, y, a) /\ Reached(y, R, a)
  BY RealizeKeeps DEF Kept
<1>2. Kept(h, h, a)
  BY KeptSame
<1>3. \/ o = [reply |-> "refused", h |-> h]
      \/ \E x \in kept : o = [reply |-> "accepted", h |-> x]
      \/ \E x \in Faulty({h} \cup kept) : o = [reply |-> "invalid", h |-> x]
  BY DEF Route
<1> HIDE DEF kept
<1>4. ASSUME NEW x \in Faulty({h} \cup kept) PROVE Kept(h, x, a) /\ ~Clean(x, a)
  <2>1. {h} \cup kept \in SUBSET HostType /\ \A y \in {h} \cup kept : Kept(h, y, a)
    BY <1>1, <1>2
  <2> HIDE DEF Kept
  <2> QED BY <2>1, FaultyKeeps
<1>5. CASE o = [reply |-> "refused", h |-> h]
  BY <1>2, <1>5
<1>6. CASE \E x \in kept : o = [reply |-> "accepted", h |-> x]
  BY <1>1, <1>6
<1>7. CASE \E x \in Faulty({h} \cup kept) : o = [reply |-> "invalid", h |-> x]
  BY <1>4, <1>7
<1> QED BY <1>3, <1>5, <1>6, <1>7
-----------------------------------------------------------------------------
(* Moves: what the device does within a call that tells the application    *)
(* nothing.                                                                 *)

\* The guest x after a move refers to the same handles and to no more values; it
\* leaves for Legacy or stays where it is, and does not recover there.
Held(g, x) ==
  /\ x \in GuestType /\ x.sets = g.sets /\ x.binds = g.binds /\ x.executable = g.executable
  /\ x.active.kind = g.active.kind
  /\ x.stage \in {g.stage, "Legacy"}
  /\ x.stage # "Legacy" => x.value = g.value /\ (g.failed => x.failed)
  /\ \A k \in Slots : x.value[k] \in {None, g.value[k]}
  /\ \A r \in x.records : \E q \in g.records : q.slot = r.slot /\ q.val = r.val

\* What holds of the device whichever calls are under way.
Steady(g, h, a) ==
  /\ Orderly(g) /\ h \in HostType /\ a \in AppType
  /\ Holds(g, h, a) /\ Carry(g.records, a)
  /\ Clean(h, a) => ~g.failed /\ Mapped(h, g.records)

Move(g, h, x, y, a) == Held(g, x) /\ Kept(h, y, a) /\ Steady(x, y, a)

\* A guest may stay as it is ...
LEMMA HeldSame ==
  ASSUME NEW g \in GuestType
  PROVE  Held(g, g)
BY DEF Held

\* ... and move twice.
LEMMA HeldTwice ==
  ASSUME NEW g, NEW x, NEW z, Held(g, x), Held(x, z)
  PROVE  Held(g, z)
<1>1. \A r \in z.records : \E q \in g.records : q.slot = r.slot /\ q.val = r.val
  BY DEF Held
<1>2. \A k \in Slots : z.value[k] \in {None, g.value[k]}
  BY DEF Held
<1>3. z.stage # "Legacy" => z.value = g.value /\ (g.failed => z.failed)
  BY DEF Held
<1> QED BY <1>1, <1>2, <1>3 DEF Held

\* It is enough that a move keeps the records in order and what is owed.
LEMMA Moves ==
  ASSUME NEW g, NEW h, NEW a, NEW x, NEW y, Steady(g, h, a), Held(g, x), Kept(h, y, a),
         Tidy(x), Routes(x), Holds(x, y, a), Clean(y, a) => ~x.failed
  PROVE  Move(g, h, x, y, a)
<1>1. Carry(x.records, a)
  BY DEF Carry, Held, Steady
<1>2. Clean(y, a) => Clean(h, a)
  BY KeptClean DEF Steady
<1>3. Clean(y, a) => Mapped(y, x.records)
  BY <1>2 DEF Mapped, Held, Steady, Kept
<1>4. Orderly(x)
  BY DEF Orderly, Held
<1>5. y \in HostType /\ a \in AppType
  BY DEF Kept, Steady
<1> QED BY <1>1, <1>3, <1>4, <1>5 DEF Move, Steady

\* So may a device.
LEMMA MoveSame ==
  ASSUME NEW g, NEW h, NEW a, Steady(g, h, a)
  PROVE  Move(g, h, g, h, a)
<1>1. g \in GuestType /\ h \in HostType
  BY DEF Steady, Orderly
<1> QED BY <1>1, HeldSame, KeptSame DEF Move

\* Two moves are a move.
LEMMA MoveTwice ==
  ASSUME NEW g, NEW h, NEW a, NEW x, NEW y, NEW v, NEW w,
         h \in HostType, Move(g, h, x, y, a), Move(x, y, v, w, a)
  PROVE  Move(g, h, v, w, a)
BY HeldTwice, KeptTwice DEF Move

\* In the stages that keep records no update is on its way to the host.
LEMMA NoneRewritten ==
  ASSUME NEW g, NEW h, NEW a, NEW p, Agreed(g, h, a, p), g.stage \notin {"Detect", "Legacy"},
         NEW k
  PROVE  ~Rewritten(p, k)
BY DEF Rewritten, Agreed, CallOK, UpdateOK

\* A device that agrees with the application and the calls is steady.
LEMMA GoodSteady ==
  ASSUME NEW g, NEW h, NEW a, NEW p, Good(g, h, a, p)
  PROVE  Steady(g, h, a)
<1>1. Orderly(g) /\ Holds(g, h, a) /\ Agreed(g, h, a, p)
  BY DEF Good
<1>2. h \in HostType /\ a \in AppType
  BY <1>1 DEF Agreed, Typed
<1>3. ASSUME NEW r \in g.records, a.known[r.slot] # None PROVE r.val = a.known[r.slot]
  <2>1. g.stage \notin {"Detect", "Legacy"} /\ r.slot \in Slots
    BY <1>1 DEF Orderly, Tidy, GuestType, RecordType
  <2>2. ~Rewritten(p, r.slot)
    BY <1>1, <2>1, NoneRewritten
  <2>3. g.value[r.slot] = a.known[r.slot]
    BY <1>1, <1>3, <2>1, <2>2 DEF Agreed, Shadows
  <2> QED BY <1>1, <1>3, <2>3 DEF Orderly, Tidy
<1>4. Clean(h, a) => ~g.failed /\ Mapped(h, g.records)
  BY <1>1 DEF Agreed, Living
<1>5. Carry(g.records, a)
  BY <1>3 DEF Carry
<1> QED BY <1>1, <1>2, <1>4, <1>5 DEF Steady

\* A move disturbs no call under way.
LEMMA CallsHeld ==
  ASSUME NEW g, NEW h, NEW a \in AppType, NEW x, NEW y, NEW q \in CallType,
         Held(g, x), Kept(h, y, a), CallOK(g, h, a, q)
  PROVE  CallOK(x, y, a, q)
<1>1. CASE q.op = "update"
  <2>1. UpdateOK(g, a, q)
    BY <1>1 DEF CallOK
  <2>2. q.at = "rpc" =>
          /\ x.stage \in {"Detect", "Legacy"}
          /\ x.stage = "Detect" => \A k \in Written(q.call) :
               Overlay(a.known, q.call)[k] # None => x.value[k] = Overlay(a.known, q.call)[k]
    BY <2>1 DEF UpdateOK, Held
  <2>3. UpdateOK(x, a, q)
    BY <2>1, <2>2 DEF UpdateOK
  <2> QED BY <1>1, <2>3 DEF CallOK
<1>2. CASE q.op = "free"
  BY <1>2 DEF CallOK, FreeOK, Held
<1>3. CASE q.op = "allocate"
  BY <1>3 DEF CallOK, AllocateOK, Kept
<1>4. CASE q.op = "destroy"
  <2>1. q.buf # None
    BY <1>4, GuestAssumption DEF CallType, Idle, UpdateType, FreeType, AllocateType,
         DestroyType, SubmitType, GuestAssumption
  <2>2. DestroyOK(g, a, q)
    BY <1>4 DEF CallOK
  <2>3. DestroyOK(x, a, q)
    BY <2>1, <2>2 DEF DestroyOK, Held
  <2> QED BY <1>4, <2>3 DEF CallOK
<1>5. CASE q.op = "submit"
  <2>1. SubmitOK(g, h, a, q)
    BY <1>5 DEF CallOK
  <2>2. GateOK(x, q.gate)
    BY <2>1 DEF SubmitOK, GateOK, Held
  <2>3. SubmitOK(x, y, a, q)
    BY <2>1, <2>2 DEF SubmitOK, Held, Kept
  <2> QED BY <1>5, <2>3 DEF CallOK
<1>6. CASE q.op \notin {"update", "free", "allocate", "destroy", "submit"}
  BY <1>6 DEF CallOK
<1> QED BY <1>1, <1>2, <1>3, <1>4, <1>5, <1>6

\* So a move keeps the device in agreement.
LEMMA GoodMoves ==
  ASSUME NEW g, NEW h, NEW a, NEW p, NEW x, NEW y, Good(g, h, a, p), Move(g, h, x, y, a)
  PROVE  Good(x, y, a, p)
<1>1. Orderly(g) /\ Agreed(g, h, a, p) /\ Held(g, x) /\ Kept(h, y, a) /\ Steady(x, y, a)
  BY DEF Good, Move
<1>2. h \in HostType /\ a \in AppType /\ p \in [Threads -> CallType]
  BY <1>1 DEF Agreed, Typed
<1>3. Typed(y, a, p)
  BY <1>1, <1>2 DEF Typed, Kept
<1>4. Shadows(x, a, p)
  BY <1>1 DEF Agreed, Shadows, Held
<1>5. Handles(x, y, a)
  BY <1>1 DEF Agreed, Handles, Held, Kept
<1>6. Current(x, a)
  BY <1>1 DEF Agreed, Current, Held
<1>7. ASSUME NEW t \in Threads PROVE CallOK(x, y, a, p[t])
  <2>1. p[t] \in CallType /\ CallOK(g, h, a, p[t])
    BY <1>1, <1>2 DEF Agreed
  <2> QED BY <1>1, <1>2, <2>1, CallsHeld
<1>8. Gated(x, p)
  BY <1>1 DEF Agreed, Gated, Held
<1>9. ASSUME Clean(y, a) PROVE Living(x, y, p)
  <2>1. Living(g, h, p)
    BY <1>1, <1>2, <1>9, KeptClean DEF Agreed
  <2>2. \A k \in Slots : x.value[k] # None =>
          x.value[k] \in y.buffers /\ (SetOf[k] \in y.sets \/ Freeing(p, SetOf[k]))
    BY <1>1, <2>1 DEF Living, Held, Kept
  <2>3. ~x.failed /\ Mapped(y, x.records)
    BY <1>1, <1>9 DEF Steady
  <2> QED BY <2>2, <2>3 DEF Living
<1>10. Legal(a) /\ Apart(p)
  BY <1>1 DEF Agreed
<1>11. Agreed(x, y, a, p)
  BY <1>3, <1>4, <1>5, <1>6, <1>7, <1>8, <1>9, <1>10 DEF Agreed
<1>12. Orderly(x) /\ Holds(x, y, a)
  BY <1>1 DEF Steady
<1> QED BY <1>11, <1>12 DEF Good
-----------------------------------------------------------------------------
(* The device's own steps are moves *)

\* The guests differ in their records and links only.
Alike(g, x) ==
  /\ x \in GuestType /\ x.stage = g.stage /\ x.failed = g.failed /\ x.nextId = g.nextId
  /\ x.sets = g.sets /\ x.value = g.value /\ x.active = g.active /\ x.early = g.early
  /\ x.learned = g.learned /\ x.executable = g.executable /\ x.binds = g.binds

\* Such a change is a move of the guest if no record is new.
LEMMA AlikeHeld ==
  ASSUME NEW g, NEW x, Alike(g, x),
         \A r \in x.records : \E q \in g.records : q.slot = r.slot /\ q.val = r.val
  PROVE  Held(g, x)
BY DEF Alike, Held

\* What a release changes: the records R, and the links to them.
LEMMA ReleaseIs ==
  ASSUME NEW g \in GuestType, NEW R \in SUBSET g.records
  PROVE  LET x == Release(g, R)
         IN  /\ Alike(g, x)
             /\ x.records = (g.records \ R) \cup {[r EXCEPT !.released = TRUE] : r \in R}
             /\ x.link = [k \in Slots |-> IF g.link[k] \in Ids(R) THEN 0 ELSE g.link[k]]
             /\ \A r \in R : LET q == [r EXCEPT !.released = TRUE] IN
                  /\ q \in RecordType /\ q.released
                  /\ q.id = r.id /\ q.slot = r.slot /\ q.val = r.val
<1> DEFINE S == (g.records \ R) \cup {[r EXCEPT !.released = TRUE] : r \in R}
           l == [k \in Slots |-> IF g.link[k] \in Ids(R) THEN 0 ELSE g.link[k]]
<1>1. \A r \in R : /\ r \in RecordType /\ [r EXCEPT !.released = TRUE] \in RecordType
                   /\ [r EXCEPT !.released = TRUE].released
                   /\ [r EXCEPT !.released = TRUE].id = r.id
                   /\ [r EXCEPT !.released = TRUE].slot = r.slot
                   /\ [r EXCEPT !.released = TRUE].val = r.val
  BY DEF GuestType, RecordType
<1>2. S \in SUBSET RecordType
  BY <1>1 DEF GuestType
<1>3. l \in [Slots -> Nat]
  BY DEF GuestType
<1>4. Release(g, R) = [g EXCEPT !.records = S, !.link = l]
  BY DEF Release
<1> HIDE DEF S, l
<1>5. Alike(g, Release(g, R)) /\ Release(g, R).records = S /\ Release(g, R).link = l
  BY <1>2, <1>3, <1>4 DEF Alike, GuestType
<1> QED BY <1>1, <1>5 DEF S, l

\* Each record is after the release as it was, or released.
LEMMA ReleaseRecords ==
  ASSUME NEW g \in GuestType, NEW R \in SUBSET g.records
  PROVE  /\ \A r \in Release(g, R).records : \E q \in g.records :
              /\ q.id = r.id /\ q.slot = r.slot /\ q.val = r.val
              /\ (q \notin R /\ r = q) \/ (q \in R /\ r = [q EXCEPT !.released = TRUE] /\ r.released)
         /\ \A q \in g.records : \E r \in Release(g, R).records :
              r.id = q.id /\ r.slot = q.slot /\ (r.released \/ r = q)
<1> DEFINE N == Release(g, R).records
           rel(r) == [r EXCEPT !.released = TRUE]
<1>1. /\ N = (g.records \ R) \cup {rel(r) : r \in R}
      /\ \A r \in R : /\ rel(r).released /\ rel(r).id = r.id
                      /\ rel(r).slot = r.slot /\ rel(r).val = r.val
  BY ReleaseIs
<1> HIDE DEF N
<1>2. ASSUME NEW r \in N
      PROVE  \E q \in g.records :
               /\ q.id = r.id /\ q.slot = r.slot /\ q.val = r.val
               /\ (q \notin R /\ r = q) \/ (q \in R /\ r = rel(q) /\ r.released)
  <2> HIDE DEF rel
  <2> QED BY <1>1
<1>3. ASSUME NEW q \in g.records
      PROVE  \E r \in N : r.id = q.id /\ r.slot = q.slot /\ (r.released \/ r = q)
  <2> HIDE DEF rel
  <2> QED BY <1>1
<1> QED BY <1>2, <1>3 DEF N

\* Records that reached the host may be released.
LEMMA ReleaseMoves ==
  ASSUME NEW g, NEW h, NEW a, NEW R \in SUBSET g.records, NEW y,
         Steady(g, h, a), Kept(h, y, a), Reached(y, R, a)
  PROVE  Move(g, h, Release(g, R), y, a)
<1> DEFINE x == Release(g, R)
<1>0. g \in GuestType /\ Tidy(g) /\ Routes(g) /\ h \in HostType
  BY DEF Steady, Orderly
<1>1. /\ Alike(g, x)
      /\ x.link = [k \in Slots |-> IF g.link[k] \in Ids(R) THEN 0 ELSE g.link[k]]
      /\ x.records = (g.records \ R) \cup {[r EXCEPT !.released = TRUE] : r \in R}
  BY <1>0, ReleaseIs
<1>2. /\ \A r \in x.records : \E q \in g.records :
           /\ q.id = r.id /\ q.slot = r.slot /\ q.val = r.val
           /\ (q \notin R /\ r = q) \/ (q \in R /\ r = [q EXCEPT !.released = TRUE] /\ r.released)
      /\ \A q \in g.records : \E r \in x.records :
           r.id = q.id /\ r.slot = q.slot /\ (r.released \/ r = q)
  BY <1>0, ReleaseRecords
<1> HIDE DEF x
<1>3. Held(g, x)
  BY <1>1, <1>2, AlikeHeld
<1>4. Tidy(x)
  <2>1. IsFiniteSet(x.records) /\ Cardinality(x.records) <= MaxRecords
    <3> DEFINE f == [r \in g.records |-> IF r \in R THEN [r EXCEPT !.released = TRUE] ELSE r]
    <3>1. x.records = {f[r] : r \in g.records}
      BY <1>1
    <3>2. IsFiniteSet(g.records) /\ Cardinality(g.records) <= MaxRecords
      BY <1>0 DEF Tidy
    <3> HIDE DEF f
    <3>3. DOMAIN f = g.records /\ f = [r \in g.records |-> f[r]]
      BY DEF f
    <3>4. IsFiniteSet(x.records) /\ Cardinality(x.records) <= Cardinality(g.records)
      BY <3>1, <3>2, <3>3, FiniteImage
    <3> QED BY <3>2, <3>4, FS_CardinalityType, GuestAssumption DEF GuestAssumption
  <2>2. x.stage \in {"Detect", "Legacy"} => x.records = {}
    BY <1>0, <1>1, <1>2 DEF Tidy, Alike
  <2>3. ASSUME NEW r \in x.records
        PROVE  /\ r.id < x.nextId
               /\ x.value[r.slot] # None => x.value[r.slot] = r.val
               /\ ~r.released => /\ x.link[r.slot] = r.id /\ x.value[r.slot] = r.val
                                 /\ SetOf[r.slot] \in x.sets
    <3>1. PICK q \in g.records :
           /\ q.id = r.id /\ q.slot = r.slot /\ q.val = r.val
           /\ (q \notin R /\ r = q) \/ (q \in R /\ r = [q EXCEPT !.released = TRUE] /\ r.released)
      BY <1>2
    <3>2. r.id < x.nextId /\ (x.value[r.slot] # None => x.value[r.slot] = r.val)
      BY <1>0, <1>1, <3>1 DEF Tidy, Alike
    <3>3. ASSUME ~r.released
          PROVE  x.link[r.slot] = r.id /\ x.value[r.slot] = r.val /\ SetOf[r.slot] \in x.sets
      <4>1. q \notin R /\ r = q
        BY <3>1, <3>3
      <4>2. g.link[r.slot] = r.id /\ r.slot \in Slots /\ g.value[r.slot] = r.val
            /\ SetOf[r.slot] \in g.sets
        BY <1>0, <3>3, <4>1 DEF Tidy, GuestType, RecordType
      <4>3. r.id \notin Ids(R)
        BY <1>0, <4>1 DEF Tidy, Ids
      <4> QED BY <1>1, <4>2, <4>3 DEF Alike
    <3> QED BY <3>2, <3>3
  <2>4. ASSUME NEW r \in x.records, NEW q \in x.records, r.slot = q.slot \/ r.id = q.id
        PROVE  r = q
    <3>1. PICK r0 \in g.records :
           /\ r0.id = r.id /\ r0.slot = r.slot /\ r0.val = r.val
           /\ (r0 \notin R /\ r = r0) \/ (r0 \in R /\ r = [r0 EXCEPT !.released = TRUE] /\ r.released)
      BY <1>2
    <3>2. PICK q0 \in g.records :
           /\ q0.id = q.id /\ q0.slot = q.slot /\ q0.val = q.val
           /\ (q0 \notin R /\ q = q0) \/ (q0 \in R /\ q = [q0 EXCEPT !.released = TRUE] /\ q.released)
      BY <1>2
    <3>3. r0 = q0
      BY <1>0, <2>4, <3>1, <3>2 DEF Tidy
    <3> QED BY <3>1, <3>2, <3>3
  <2> QED BY <2>1, <2>2, <2>3, <2>4 DEF Tidy
<1>5. Routes(x)
  <2>1. Ids(x.records) = Ids(g.records)
    BY <1>2 DEF Ids
  <2>2. ASSUME x.active.kind \in RoutedKinds, NEW r \in x.records, r.id \in x.active.frontier
        PROVE  r.released /\ SetOf[r.slot] \in x.active.consumed
    <3>1. PICK q \in g.records :
           /\ q.id = r.id /\ q.slot = r.slot /\ q.val = r.val
           /\ (q \notin R /\ r = q) \/ (q \in R /\ r = [q EXCEPT !.released = TRUE] /\ r.released)
      BY <1>2
    <3>2. q.released /\ SetOf[q.slot] \in g.active.consumed
      BY <1>0, <1>1, <2>2, <3>1 DEF Routes, Alike
    <3> QED BY <1>1, <3>1, <3>2 DEF Alike
  <2> QED BY <1>0, <1>1, <2>1, <2>2 DEF Routes, Alike, Specialized
<1>6. Holds(x, y, a)
  <2>1. ASSUME NEW k \in Slots, a.known[k] # None, y.content[k] # a.known[k]
        PROVE  Owed(x, k)
    <3>1. h.content[k] # a.known[k]
      BY <2>1 DEF Kept
    <3>2. PICK q \in g.records : q.slot = k /\ ~q.released
      BY <2>1, <3>1 DEF Steady, Holds, Owed
    <3>3. q \notin R
      BY <2>1, <3>2 DEF Reached
    <3>4. q \in x.records
      BY <1>1, <3>3
    <3> QED BY <3>2, <3>4 DEF Owed
  <2> QED BY <2>1 DEF Holds
<1>7. Clean(y, a) => ~x.failed
  BY <1>0, <1>1, KeptClean DEF Steady, Alike
<1>8. Move(g, h, x, y, a)
  BY <1>3, <1>4, <1>5, <1>6, <1>7, Moves
<1> QED BY <1>8 DEF x


\* What is owed stays owed, and what the host has it keeps.
LEMMA HoldsKept ==
  ASSUME NEW g, NEW h, NEW a, NEW x, NEW y, Holds(g, h, a), Kept(h, y, a), x.records = g.records
  PROVE  Holds(x, y, a)
BY DEF Holds, Kept, Owed

\* A device may fail when something went wrong.
LEMMA FailedMoves ==
  ASSUME NEW g, NEW h, NEW a, NEW y, Steady(g, h, a), Kept(h, y, a), ~Clean(y, a)
  PROVE  Move(g, h, Failed(g), y, a) /\ Failed(g).failed
<1> DEFINE x == Failed(g)
<1>0. g \in GuestType /\ Tidy(g) /\ Routes(g)
  BY DEF Steady, Orderly
<1>1. /\ x \in GuestType /\ x.stage = g.stage /\ x.nextId = g.nextId /\ x.failed = TRUE
      /\ x.sets = g.sets /\ x.value = g.value /\ x.active = g.active /\ x.early = g.early
      /\ x.executable = g.executable /\ x.binds = g.binds
      /\ x.records = g.records /\ x.link = g.link
  BY <1>0 DEF Failed, GuestType
<1> HIDE DEF x
<1>2. Held(g, x)
  BY <1>1 DEF Held
<1>3. Tidy(x) /\ Routes(x)
  BY <1>0, <1>1 DEF Tidy, Routes, Specialized
<1>4. Holds(x, y, a)
  BY <1>1, HoldsKept DEF Steady
<1>5. Move(g, h, x, y, a)
  BY <1>2, <1>3, <1>4, Moves
<1> QED BY <1>1, <1>5 DEF x

\* What EnterLegacy leaves behind, of a device that failed or not.
LEMMA EnterLegacyIs ==
  ASSUME NEW g \in GuestType, NEW x,
         x = EnterLegacy(g) \/ x = [EnterLegacy(g) EXCEPT !.failed = FALSE]
  PROVE  /\ x \in GuestType /\ x.stage = "Legacy" /\ x.records = {} /\ x.link = Unlinked
         /\ x.active = NoSubmit /\ x.early = NoEarly /\ x.learned = None /\ x.nextId = 1
         /\ x.value = [k \in Slots |-> None]
         /\ x.sets = g.sets /\ x.executable = g.executable /\ x.binds = g.binds
         /\ x.failed = g.failed \/ x.failed = FALSE
         /\ x = EnterLegacy(g) => x.failed = g.failed
<1>1. NoSubmit \in ActiveType /\ NoEarly \in EarlyType
  BY DEF NoSubmit, NoEarly, ActiveType, EarlyType
<1>2. Unlinked \in [Slots -> Nat] /\ [k \in Slots |-> None] \in [Slots -> Values]
  BY DEF Unlinked, Values
<1> DEFINE y == EnterLegacy(g)
<1>3. y = [g EXCEPT !.records = {}, !.link = Unlinked, !.active = NoSubmit, !.stage = "Legacy",
                    !.early = NoEarly, !.learned = None, !.value = [k \in Slots |-> None],
                    !.nextId = 1]
  BY DEF EnterLegacy, ClearActive, ClearOccurrence, GuestType
<1>4. /\ y \in GuestType /\ y.stage = "Legacy" /\ y.records = {} /\ y.link = Unlinked
      /\ y.active = NoSubmit /\ y.early = NoEarly /\ y.learned = None /\ y.nextId = 1
      /\ y.value = [k \in Slots |-> None]
      /\ y.sets = g.sets /\ y.executable = g.executable /\ y.binds = g.binds
      /\ y.failed = g.failed
  <2>1. None \in Cmds \cup {None} /\ "Legacy" \in StageSet /\ 1 \in Nat
    BY DEF StageSet
  <2> HIDE DEF y
  <2> QED BY <1>1, <1>2, <1>3, <2>1 DEF GuestType
<1> HIDE DEF y
<1>5. CASE x = y
  BY <1>4, <1>5
<1>6. CASE x = [y EXCEPT !.failed = FALSE]
  <2>1. y \in GuestType
    BY <1>4
  <2>2. /\ x \in GuestType /\ x.stage = y.stage /\ x.records = y.records /\ x.link = y.link
        /\ x.active = y.active /\ x.early = y.early /\ x.learned = y.learned
        /\ x.nextId = y.nextId /\ x.value = y.value
        /\ x.sets = y.sets /\ x.executable = y.executable /\ x.binds = y.binds
        /\ x.failed = FALSE
    BY <1>6, <2>1 DEF GuestType
  <2>3. x.failed = g.failed \/ x.failed = FALSE
    BY <2>2
  <2>4. x = y => x.failed = g.failed
    BY <1>4
  <2> QED BY <1>4, <2>2, <2>3, <2>4 DEF y
<1> QED BY <1>5, <1>6 DEF y

\* A guest in Legacy is in order.
LEMMA LegacyOrderly ==
  ASSUME NEW x \in GuestType, x.stage = "Legacy", x.records = {}, x.active.kind = "none",
         x.early = NoEarly
  PROVE  Tidy(x) /\ Routes(x)
<1>1. Cardinality({}) <= MaxRecords
  BY FS_EmptySet, GuestAssumption DEF GuestAssumption
<1>2. Tidy(x)
  BY <1>1, FS_EmptySet DEF Tidy
<1> QED BY <1>2 DEF Routes, RoutedKinds

\* The device may leave for Legacy when the host has what the application counts on.
LEMMA LegacyMoves ==
  ASSUME NEW g, NEW h, NEW a, NEW y, NEW x, Steady(g, h, a), Kept(h, y, a),
         g.active.kind = "none",
         \A k \in Slots : a.known[k] # None => y.content[k] = a.known[k],
         x = EnterLegacy(g) \/ x = [EnterLegacy(g) EXCEPT !.failed = FALSE]
  PROVE  Move(g, h, x, y, a)
<1>0. g \in GuestType /\ h \in HostType
  BY DEF Steady, Orderly
<1>1. /\ x \in GuestType /\ x.stage = "Legacy" /\ x.records = {}
      /\ x.active = NoSubmit /\ x.early = NoEarly
      /\ x.value = [k \in Slots |-> None]
      /\ x.sets = g.sets /\ x.executable = g.executable /\ x.binds = g.binds
      /\ x.failed = g.failed \/ x.failed = FALSE
  BY <1>0, EnterLegacyIs
<1>2. x.active.kind = "none"
  BY <1>1 DEF NoSubmit
<1>3. Held(g, x)
  BY <1>1, <1>2 DEF Held
<1>4. Tidy(x) /\ Routes(x)
  BY <1>1, <1>2, LegacyOrderly
<1>5. Holds(x, y, a)
  BY DEF Holds
<1>6. Clean(y, a) => ~x.failed
  BY <1>0, <1>1, KeptClean DEF Steady
<1> QED BY <1>3, <1>4, <1>5, <1>6, Moves

\* The records of a device that is steady may be sent.
LEMMA RecordsSendable ==
  ASSUME NEW g, NEW h, NEW a, Steady(g, h, a), NEW R \in SUBSET g.records
  PROVE  /\ h \in HostType /\ a \in AppType /\ R \in SUBSET RecordType
         /\ \A r, q \in R : r.slot = q.slot => r = q
         /\ Carry(R, a)
BY DEF Steady, Orderly, Tidy, GuestType, Carry

\* The flush of all records brings the host what the application counts on.
LEMMA FlushReaches ==
  ASSUME NEW g, NEW h, NEW a, Steady(g, h, a)
  PROVE  LET y == Realize(h, g.records)
         IN  /\ Kept(h, y, a) /\ y.faults = h.faults
             /\ \A k \in Slots : a.known[k] # None => y.content[k] = a.known[k]
<1>1. /\ h \in HostType /\ a \in AppType /\ g.records \in SUBSET RecordType
      /\ \A r, q \in g.records : r.slot = q.slot => r = q
      /\ Carry(g.records, a)
  BY RecordsSendable
<1> DEFINE y == Realize(h, g.records)
<1>2. Kept(h, y, a) /\ Reached(y, g.records, a) /\ y.faults = h.faults
  BY <1>1, RealizeKeeps
<1> HIDE DEF y
<1>3. ASSUME NEW k \in Slots, a.known[k] # None PROVE y.content[k] = a.known[k]
  <2>1. CASE h.content[k] = a.known[k]
    BY <1>2, <1>3, <2>1 DEF Kept
  <2>2. CASE h.content[k] # a.known[k]
    <3>1. PICK r \in g.records : r.slot = k
      BY <1>3, <2>2 DEF Steady, Holds, Owed
    <3> QED BY <1>2, <1>3, <3>1 DEF Reached
  <2> QED BY <2>1, <2>2
<1> QED BY <1>2, <1>3 DEF y

\* The fallback flushes and leaves for Legacy, or the device fails because
\* something went wrong.
LEMMA FallbackMoves ==
  ASSUME NEW g, NEW h, NEW a, Steady(g, h, a), Specialized(g),
         g.active.kind = "none" \/ a.causes # {},
         NEW o \in FallbackToLegacy(g, h)
  PROVE  /\ o.ok \in BOOLEAN /\ Move(g, h, o.g, o.h, a)
         /\ o.ok => /\ o.g.stage = "Legacy" /\ o.g.records = {} /\ o.g.early = NoEarly
                    /\ o.g.active.kind = "none" /\ g.active.kind = "none"
                    /\ o.g.failed = FALSE
         /\ ~o.ok => o.g = Failed(g) /\ o.g.failed /\ ~Clean(o.h, a)
<1> DEFINE flushed == Realize(h, g.records)
           can == /\ Specialized(g) /\ g.active.kind = "none"
                  /\ Cardinality(g.records) <= MaxRecords
                  /\ Mapped(h, g.records)
           L == [EnterLegacy(g) EXCEPT !.failed = FALSE]
<1>0. g \in GuestType /\ h \in HostType /\ Tidy(g)
  BY DEF Steady, Orderly
<1>1. /\ Kept(h, flushed, a) /\ flushed \in HostType
      /\ \A k \in Slots : a.known[k] # None => flushed.content[k] = a.known[k]
  BY FlushReaches DEF Kept
<1>2. \/ can /\ o = [ok |-> TRUE, g |-> L, h |-> flushed]
      \/ can /\ \E x \in Faulty({h, flushed}) : o = [ok |-> FALSE, g |-> Failed(g), h |-> x]
      \/ ~can /\ o = [ok |-> FALSE, g |-> Failed(g), h |-> h]
  BY DEF FallbackToLegacy
<1> HIDE DEF flushed, L
<1>3. CASE can /\ o = [ok |-> TRUE, g |-> L, h |-> flushed]
  <2>1. Move(g, h, L, flushed, a)
    BY <1>1, <1>3, LegacyMoves DEF L
  <2>2. L.stage = "Legacy" /\ L.records = {} /\ L.active = NoSubmit /\ L.early = NoEarly
        /\ L.failed = FALSE
    <3>1. EnterLegacy(g) \in GuestType
      BY <1>0, EnterLegacyIs
    <3>2. L.failed = FALSE
      BY <3>1 DEF L, GuestType
    <3> QED BY <1>0, <3>2, EnterLegacyIs DEF L
  <2>3. L.active.kind = "none"
    BY <2>2 DEF NoSubmit
  <2> QED BY <1>3, <2>1, <2>2, <2>3
<1>4. ASSUME NEW x \in Faulty({h, flushed}), o = [ok |-> FALSE, g |-> Failed(g), h |-> x]
      PROVE  o.ok = FALSE /\ Move(g, h, o.g, o.h, a) /\ o.g = Failed(g) /\ o.g.failed
             /\ ~Clean(o.h, a)
  <2>1. {h, flushed} \in SUBSET HostType /\ \A y \in {h, flushed} : Kept(h, y, a)
    BY <1>0, <1>1, KeptSame
  <2>2. Kept(h, x, a) /\ ~Clean(x, a)
    BY <1>0, <2>1, FaultyKeeps
  <2> QED BY <1>4, <2>2, FailedMoves
<1>5. CASE ~can /\ o = [ok |-> FALSE, g |-> Failed(g), h |-> h]
  <2>1. ~Clean(h, a)
    BY <1>0, <1>5 DEF Steady, Tidy, Clean
  <2>2. Kept(h, h, a)
    BY <1>0, KeptSame
  <2> QED BY <1>5, <2>1, <2>2, FailedMoves
<1> QED BY <1>2, <1>3, <1>4, <1>5

\* An early route is drained, or the device fails because something went wrong.
LEMMA DrainMoves ==
  ASSUME NEW g, NEW h, NEW a, Steady(g, h, a), NEW o \in DrainEarlyRoute(g, h)
  PROVE  /\ o.ok \in BOOLEAN /\ Move(g, h, o.g, o.h, a)
         /\ o.ok => o.g.early = NoEarly
         /\ ~o.ok => o.g.failed /\ ~Clean(o.h, a)
         /\ Settled(g) => Settled(o.g)
<1>1. CASE g.early = NoEarly
  <2>1. o = [ok |-> TRUE, g |-> g, h |-> h]
    BY <1>1 DEF DrainEarlyRoute
  <2> QED BY <1>1, <2>1, MoveSame
<1>2. CASE g.early # NoEarly
  <2>1. o \in FallbackToLegacy(g, h)
    BY <1>2 DEF DrainEarlyRoute
  <2>2. Specialized(g) /\ g.active.kind = "none"
    BY <1>2 DEF Steady, Orderly, Routes, Specialized
  <2> QED BY <2>1, <2>2, FallbackMoves DEF Settled
<1> QED BY <1>1, <1>2


\* The host may take a step of its own that keeps what it has.
LEMMA HostMoves ==
  ASSUME NEW g, NEW h, NEW a, NEW y, Steady(g, h, a), Kept(h, y, a)
  PROVE  Move(g, h, g, y, a)
<1>1. g \in GuestType /\ Tidy(g) /\ Routes(g) /\ h \in HostType
  BY DEF Steady, Orderly
<1>2. Held(g, g)
  BY <1>1, HeldSame
<1>3. Holds(g, y, a)
  BY HoldsKept DEF Steady
<1>4. Clean(y, a) => ~g.failed
  BY <1>1, KeptClean DEF Steady
<1> QED BY <1>1, <1>2, <1>3, <1>4, Moves

\* A retirement is prepared when there are no records left, or the device fails
\* because something went wrong.
LEMMA PrepareMoves ==
  ASSUME NEW g, NEW h, NEW a, Steady(g, h, a), g.active.kind = "none",
         NEW o \in PrepareRetirement(g, h)
  PROVE  /\ o.ok \in BOOLEAN /\ Move(g, h, o.g, o.h, a)
         /\ o.ok => o.g.records = {}
         /\ ~o.ok => ~Clean(o.h, a)
         /\ Settled(g) => Settled(o.g)
<1>1. CASE ~Specialized(g) \/ (g.early = NoEarly /\ g.records = {})
  <2>1. o = [ok |-> TRUE, g |-> g, h |-> h]
    BY <1>1 DEF PrepareRetirement
  <2>2. g.records = {}
    BY <1>1 DEF Specialized, Steady, Orderly, Tidy, GuestType, StageSet
  <2> QED BY <2>1, <2>2, MoveSame
<1>2. CASE Specialized(g) /\ ~(g.early = NoEarly /\ g.records = {}) /\ g.failed
  <2>1. o = [ok |-> FALSE, g |-> g, h |-> h]
    BY <1>2 DEF PrepareRetirement
  <2>2. ~Clean(h, a)
    BY <1>2 DEF Steady
  <2> QED BY <2>1, <2>2, MoveSame
<1>3. CASE Specialized(g) /\ ~(g.early = NoEarly /\ g.records = {}) /\ ~g.failed
  <2>1. o \in FallbackToLegacy(g, h)
    BY <1>3 DEF PrepareRetirement
  <2> QED BY <1>3, <2>1, FallbackMoves DEF Settled
<1> QED BY <1>1, <1>2, <1>3

\* Records go to the host in chunks, and are released as far as it has them.
LEMMA RouteChunksMoves ==
  ASSUME NEW g, NEW h, NEW a, Steady(g, h, a), NEW R \in SUBSET g.records,
         NEW o \in RouteChunks(g, h, R)
  PROVE  /\ o.reply \in {"refused", "accepted", "invalid"}
         /\ Move(g, h, o.g, o.h, a) /\ Alike(g, o.g)
         /\ o.reply = "accepted" => /\ o.g = Release(g, R) /\ Reached(o.h, R, a)
                                    /\ Kept(h, o.h, a)
         /\ o.reply = "invalid" => ~Clean(o.h, a)
<1>0. g \in GuestType /\ Alike(g, g)
  BY DEF Steady, Orderly, Alike
<1>1. /\ h \in HostType /\ a \in AppType /\ R \in SUBSET RecordType
      /\ \A r, q \in R : r.slot = q.slot => r = q
      /\ Carry(R, a)
  BY RecordsSendable
<1>2. \/ \E b \in Route(h, R) :
           o = [reply |-> b.reply, h |-> b.h,
                g |-> IF b.reply = "accepted" THEN Release(g, R) ELSE g]
      \/ \E P \in Prefixes(R) : o = [reply |-> "refused", g |-> Release(g, P), h |-> Realize(h, P)]
  BY DEF RouteChunks
<1>3. ASSUME NEW b \in Route(h, R),
             o = [reply |-> b.reply, h |-> b.h,
                  g |-> IF b.reply = "accepted" THEN Release(g, R) ELSE g]
      PROVE  /\ o.reply \in {"refused", "accepted", "invalid"}
             /\ Move(g, h, o.g, o.h, a) /\ Alike(g, o.g)
             /\ o.reply = "accepted" => /\ o.g = Release(g, R) /\ Reached(o.h, R, a)
                                        /\ Kept(h, o.h, a)
             /\ o.reply = "invalid" => ~Clean(o.h, a)
  <2>1. /\ b.reply \in {"refused", "accepted", "invalid"} /\ Kept(h, b.h, a)
        /\ b.reply = "accepted" => Reached(b.h, R, a)
        /\ b.reply = "invalid" => ~Clean(b.h, a)
    BY <1>1, RouteIs
  <2>2. /\ o.reply = b.reply /\ o.h = b.h
        /\ o.g = IF b.reply = "accepted" THEN Release(g, R) ELSE g
    BY <1>3
  <2>3. CASE b.reply = "accepted"
    <3>1. Move(g, h, Release(g, R), b.h, a)
      BY <2>1, <2>3, ReleaseMoves
    <3>2. Alike(g, Release(g, R))
      BY <1>0, ReleaseIs
    <3> QED BY <2>1, <2>2, <2>3, <3>1, <3>2
  <2>4. CASE b.reply # "accepted"
    <3>1. Move(g, h, g, b.h, a)
      BY <2>1, HostMoves
    <3> QED BY <1>0, <2>1, <2>2, <2>4, <3>1
  <2> QED BY <2>3, <2>4
<1>4. ASSUME NEW P \in Prefixes(R), o = [reply |-> "refused", g |-> Release(g, P), h |-> Realize(h, P)]
      PROVE  Move(g, h, o.g, o.h, a) /\ Alike(g, o.g) /\ o.reply = "refused"
  <2>1. P \in SUBSET R /\ P \in SUBSET g.records
    BY DEF Prefixes
  <2>2. /\ P \in SUBSET RecordType /\ Carry(P, a)
        /\ \A r, q \in P : r.slot = q.slot => r = q
    BY <2>1, RecordsSendable
  <2>3. Kept(h, Realize(h, P), a) /\ Reached(Realize(h, P), P, a)
    BY <1>1, <2>2, RealizeKeeps
  <2>4. Move(g, h, Release(g, P), Realize(h, P), a)
    BY <2>1, <2>3, ReleaseMoves
  <2>5. Alike(g, Release(g, P))
    BY <1>0, <2>1, ReleaseIs
  <2> QED BY <1>4, <2>4, <2>5
<1> QED BY <1>2, <1>3, <1>4

\* An early route may be opened in Fast while no submission holds the gate.
LEMMA OpenMoves ==
  ASSUME NEW g, NEW h, NEW a, Steady(g, h, a), g.stage = "Fast", g.active.kind = "none",
         NEW e \in EarlyType
  PROVE  Move(g, h, [g EXCEPT !.early = e], h, a)
<1> DEFINE x == [g EXCEPT !.early = e]
<1>0. g \in GuestType /\ Tidy(g) /\ Routes(g) /\ h \in HostType
  BY DEF Steady, Orderly
<1>1. /\ x \in GuestType /\ x.stage = g.stage /\ x.nextId = g.nextId /\ x.failed = g.failed
      /\ x.sets = g.sets /\ x.value = g.value /\ x.active = g.active /\ x.early = e
      /\ x.executable = g.executable /\ x.binds = g.binds
      /\ x.records = g.records /\ x.link = g.link
  BY <1>0 DEF GuestType
<1> HIDE DEF x
<1>2. Held(g, x)
  BY <1>1 DEF Held
<1>3. Tidy(x) /\ Routes(x)
  BY <1>0, <1>1 DEF Tidy, Routes, Specialized, RoutedKinds
<1>4. Holds(x, h, a)
  BY <1>0, <1>1, KeptSame, HoldsKept DEF Steady
<1>5. Clean(h, a) => ~x.failed
  BY <1>1 DEF Steady
<1>6. Move(g, h, x, h, a)
  BY <1>0, <1>2, <1>3, <1>4, <1>5, KeptSame, Moves
<1> QED BY <1>6 DEF x

\* The frontier of a command buffer.
LEMMA FrontierIs ==
  ASSUME NEW g \in GuestType, NEW c \in Cmds
  PROVE  /\ Frontier(g, g.binds[c]) \in SUBSET g.records
         /\ Ids(Frontier(g, g.binds[c])) \in SUBSET Nat
         /\ g.binds[c] \in SUBSET Sets
BY DEF Frontier, Ids, GuestType, RecordType

\* The early route: all chunks but the last, if it is open for this command
\* buffer and nothing is in its way.
LEMMA MaybeAdvanceMoves ==
  ASSUME NEW g, NEW h, NEW a, Steady(g, h, a), NEW c, NEW o \in MaybeAdvance(g, h, c)
  PROVE  /\ o.ok \in BOOLEAN /\ Move(g, h, o.g, o.h, a)
         /\ ~o.ok => ~Clean(o.h, a)
         /\ Settled(g) => Settled(o.g)
<1> DEFINE F == Frontier(g, g.binds[c])
           e == [cmd |-> c, frontier |-> Ids(F), consumed |-> g.binds[c]]
           stay == [ok |-> TRUE, g |-> g, h |-> h]
           shut == \/ g.stage # "Fast" \/ g.active.kind # "none"
                   \/ g.learned # c \/ c \notin g.executable \/ Oversized(g, c)
<1>0. g \in GuestType /\ h \in HostType /\ Routes(g)
  BY DEF Steady, Orderly
<1>1. CASE g.failed
  <2>1. o = [stay EXCEPT !.ok = FALSE]
    BY <1>1 DEF MaybeAdvance
  <2>2. o.ok = FALSE /\ o.g = g /\ o.h = h
    BY <2>1
  <2>3. ~Clean(h, a)
    BY <1>1 DEF Steady
  <2> QED BY <2>2, <2>3, MoveSame
<1>2. CASE o = stay
  BY <1>2, MoveSame
<1>3. CASE ~g.failed /\ g.early # NoEarly /\ o # stay
  <2>1. o \in FallbackToLegacy(g, h)
    BY <1>3 DEF MaybeAdvance
  <2>2. Specialized(g) /\ g.active.kind = "none"
    BY <1>0, <1>3 DEF Routes, Specialized
  <2> QED BY <2>1, <2>2, FallbackMoves DEF Settled
<1>4. CASE ~g.failed /\ g.early = NoEarly /\ o # stay
  <2>1. ~shut
    BY <1>4 DEF MaybeAdvance
  <2>2. c \in Cmds
    BY <1>0, <2>1 DEF GuestType
  <2>3. PICK P \in Prefixes(F) \cup {F} : \E b \in RouteChunks(g, h, P) :
          \/ b.reply = "accepted" /\ o = [ok |-> TRUE, g |-> [b.g EXCEPT !.early = e], h |-> b.h]
          \/ b.reply # "accepted" /\ o \in FallbackToLegacy(b.g, b.h)
    BY <1>4, <2>1 DEF MaybeAdvance
  <2>11. PICK b \in RouteChunks(g, h, P) :
          \/ b.reply = "accepted" /\ o = [ok |-> TRUE, g |-> [b.g EXCEPT !.early = e], h |-> b.h]
          \/ b.reply # "accepted" /\ o \in FallbackToLegacy(b.g, b.h)
    BY <2>3
  <2>4. F \in SUBSET g.records /\ Ids(F) \in SUBSET Nat /\ g.binds[c] \in SUBSET Sets
    BY <1>0, <2>2, FrontierIs
  <2>5. e \in EarlyType /\ e # NoEarly
    BY <2>2, <2>4, GuestAssumption DEF EarlyType, NoEarly, GuestAssumption
  <2> HIDE DEF e, F
  <2>6. P \in SUBSET g.records
    BY <2>4 DEF Prefixes
  <2>7. Move(g, h, b.g, b.h, a) /\ Alike(g, b.g)
    BY <2>6, RouteChunksMoves
  <2>8. Steady(b.g, b.h, a) /\ b.g.stage = "Fast" /\ b.g.active.kind = "none"
    BY <2>1, <2>7 DEF Move, Alike
  <2>9. CASE b.reply = "accepted" /\ o = [ok |-> TRUE, g |-> [b.g EXCEPT !.early = e], h |-> b.h]
    <3>1. Move(b.g, b.h, [b.g EXCEPT !.early = e], b.h, a)
      BY <2>5, <2>8, OpenMoves
    <3> DEFINE z == [b.g EXCEPT !.early = e]
    <3>2. o.ok = TRUE /\ o.g = z /\ o.h = b.h
      BY <2>9
    <3> HIDE DEF z
    <3>3. Move(b.g, b.h, z, b.h, a)
      BY <3>1 DEF z
    <3>4. Move(g, h, z, b.h, a)
      BY <1>0, <2>7, <3>3, MoveTwice
    <3>5. b.g \in GuestType
      BY <2>7 DEF Alike
    <3>6. z.early # NoEarly
      BY <2>5, <3>5 DEF z, GuestType
    <3> QED BY <3>2, <3>4, <3>6 DEF Settled
  <2>10. CASE b.reply # "accepted" /\ o \in FallbackToLegacy(b.g, b.h)
    <3>1. /\ o.ok \in BOOLEAN /\ Move(b.g, b.h, o.g, o.h, a)
          /\ ~o.ok => ~Clean(o.h, a)
          /\ Settled(o.g)
      BY <2>8, <2>10, FallbackMoves DEF Specialized, Settled
    <3>2. Move(g, h, o.g, o.h, a)
      BY <1>0, <2>7, <3>1, MoveTwice
    <3> QED BY <3>1, <3>2
  <2> QED BY <2>11, <2>9, <2>10
<1> QED BY <1>1, <1>2, <1>3, <1>4
-----------------------------------------------------------------------------
(* Calls begin, go on and return *)

\* The operation of a call tells what it carries.
LEMMA CallTypes ==
  ASSUME NEW q \in CallType
  PROVE  /\ q.op = "update" => q \in UpdateType
         /\ q.op = "free" => q \in FreeType
         /\ q.op = "allocate" => q \in AllocateType
         /\ q.op = "destroy" => q \in DestroyType
         /\ q.op = "submit" => q \in SubmitType
         /\ q.op = "idle" => q = Idle
         /\ q.op \in Lifecycle \cup {"submit", "idle"}
         /\ q.sets \in SUBSET Sets /\ q.bufs \in SUBSET Values
BY DEF CallType, Idle, UpdateType, FreeType, AllocateType, DestroyType, SubmitType, Lifecycle

\* The calls of the other threads leave room for the call q of t.
Room(p, t, q) == \A u \in Threads : u # t =>
  /\ p[u].sets \cap q.sets = {}
  /\ p[u].op = "destroy" => p[u].buf \notin q.bufs
  /\ q.op = "destroy" => q.buf \notin p[u].bufs
  /\ ~(q.op = "submit" /\ p[u].op = "submit")

\* So the calls stay apart when t makes the call q.
LEMMA ApartReplaced ==
  ASSUME NEW p \in [Threads -> CallType], Apart(p), NEW t \in Threads, NEW q, Room(p, t, q)
  PROVE  Apart([p EXCEPT ![t] = q])
<1> DEFINE z == [p EXCEPT ![t] = q]
<1>1. z[t] = q /\ \A u \in Threads : u # t => z[u] = p[u]
  OBVIOUS
<1> HIDE DEF z
<1>2. ASSUME NEW v \in Threads, NEW u \in Threads, v # u
      PROVE  /\ z[v].sets \cap z[u].sets = {}
             /\ z[v].op = "destroy" => z[v].buf \notin z[u].bufs
             /\ ~(z[v].op = "submit" /\ z[u].op = "submit")
  <2>1. CASE v = t
    BY <1>1, <1>2, <2>1 DEF Room
  <2>2. CASE u = t
    BY <1>1, <1>2, <2>2 DEF Room
  <2>3. CASE v # t /\ u # t
    BY <1>1, <1>2, <2>3 DEF Apart
  <2> QED BY <2>1, <2>2, <2>3
<1>3. Apart(z)
  BY <1>2 DEF Apart
<1> QED BY <1>3 DEF z

\* A thread may go on to another call or part of one that leaves the others alone.
LEMMA Replaced ==
  ASSUME NEW g, NEW h, NEW a, NEW p, Good(g, h, a, p), NEW t \in Threads, NEW q \in CallType,
         CallOK(g, h, a, q), Room(p, t, q), Gated(g, [p EXCEPT ![t] = q]),
         ~(p[t].op = "update" /\ p[t].at = "rpc"),
         p[t].op = "free" /\ p[t].at = "hook" =>
           \A k \in Slots : SetOf[k] = p[t].set => g.value[k] = None
  PROVE  Good(g, h, a, [p EXCEPT ![t] = q])
<1> DEFINE z == [p EXCEPT ![t] = q]
<1>0. Agreed(g, h, a, p) /\ p \in [Threads -> CallType]
  BY DEF Good, Agreed, Typed
<1>1. z \in [Threads -> CallType] /\ z[t] = q /\ \A u \in Threads : u # t => z[u] = p[u]
  BY <1>0
<1>2. Apart(z)
  BY <1>0, ApartReplaced DEF Agreed
<1>3. Gated(g, z)
  OBVIOUS
<1> HIDE DEF z
<1>4. Typed(h, a, z)
  BY <1>0, <1>1 DEF Agreed, Typed
<1>5. \A k : Rewritten(p, k) => Rewritten(z, k)
  BY <1>1 DEF Rewritten
<1>6. Shadows(g, a, z)
  BY <1>0, <1>5 DEF Agreed, Shadows
<1>7. \A u \in Threads : CallOK(g, h, a, z[u])
  BY <1>0, <1>1 DEF Agreed
<1>8. ASSUME Clean(h, a) PROVE Living(g, h, z)
  <2>1. Living(g, h, p)
    BY <1>0, <1>8 DEF Agreed
  <2>2. ASSUME NEW k \in Slots, g.value[k] # None, SetOf[k] \notin h.sets
        PROVE  Freeing(z, SetOf[k])
    <3>1. PICK u \in Threads : p[u].op = "free" /\ p[u].at = "hook" /\ p[u].set = SetOf[k]
      BY <2>1, <2>2 DEF Living, Freeing
    <3>2. u # t
      BY <2>2, <3>1
    <3> QED BY <1>1, <3>1, <3>2 DEF Freeing
  <2> QED BY <2>1, <2>2 DEF Living
<1>9. Agreed(g, h, a, z)
  BY <1>0, <1>2, <1>3, <1>4, <1>6, <1>7, <1>8 DEF Agreed
<1>10. Good(g, h, a, z)
  BY <1>9 DEF Good
<1> QED BY <1>10 DEF z

\* A call that holds nothing back may return while no submission holds the gate.
LEMMA Returns ==
  ASSUME NEW g, NEW h, NEW a, NEW p, Good(g, h, a, p), NEW t \in Threads,
         g.active.kind = "none",
         ~(p[t].op = "update" /\ p[t].at = "rpc"),
         p[t].op = "free" /\ p[t].at = "hook" =>
           \A k \in Slots : SetOf[k] = p[t].set => g.value[k] = None
  PROVE  Good(g, h, a, [p EXCEPT ![t] = Idle])
<1>1. Idle \in CallType /\ CallOK(g, h, a, Idle) /\ Room(p, t, Idle)
  BY DEF CallType, Idle, CallOK, Room
<1>2. Gated(g, [p EXCEPT ![t] = Idle])
  BY DEF Gated
<1> QED BY <1>1, <1>2, Replaced

\* A lifecycle call is under way only while no submission holds the gate.
LEMMA LifecycleUngated ==
  ASSUME NEW g, NEW h, NEW a, NEW p, Good(g, h, a, p), NEW t \in Threads,
         p[t].op \in Lifecycle
  PROVE  g.active.kind = "none"
BY DEF Good, Agreed, Gated

\* Equal values before a call are equal after it.
LEMMA OverlaySame ==
  ASSUME NEW call \in Calls, NEW u \in [Slots -> Values], NEW v \in [Slots -> Values],
         NEW D \in SUBSET Slots, Written(call) \cup Copied(call) \subseteq D,
         \A k \in D : u[k] = v[k]
  PROVE  \A k \in D : Overlay(u, call)[k] = Overlay(v, call)[k]
<1> DEFINE E == {e \in Values \X Values : e[1] = e[2]}
<1>1. \A b \in Buffers : <<b, b>> \in E
  BY DEF Values
<1>2. \A k \in D : <<u[k], v[k]>> \in E
  OBVIOUS
<1>3. \A k \in D : <<Overlay(u, call)[k], Overlay(v, call)[k]>> \in E
  <2> HIDE DEF E
  <2> QED BY <1>1, <1>2, OverlayRelated
<1> QED BY <1>3

\* What an update under way may change of what the application counts on ...
Elsewhere(a, b, call) ==
  /\ b \in AppType /\ b.sets = a.sets /\ b.buffers = a.buffers /\ b.ready = a.ready
  /\ b.causes = a.causes
  /\ \A k \in Slots : k \notin Written(call) =>
       b.content[k] = a.content[k] /\ b.known[k] = a.known[k]
\* ... of the guest, when the call may refer to the buffers B ...
Shadowed(g, x, call, B) ==
  /\ x.stage = g.stage /\ x.failed = g.failed /\ x.sets = g.sets /\ x.binds = g.binds
  /\ x.executable = g.executable /\ x.active.kind = g.active.kind
  /\ \A k \in Slots : k \notin Written(call) => x.value[k] = g.value[k]
  /\ \A k \in Slots : x.value[k] = g.value[k] \/ x.value[k] \in B
  /\ \A r \in x.records : \/ \E q \in g.records : q.slot = r.slot /\ q.val = r.val
                          \/ r.slot \in Written(call) /\ r.val \in B
\* ... and of the host.
Reworked(h, y, call) ==
  /\ y \in HostType /\ y.sets = h.sets /\ y.buffers = h.buffers /\ y.faults >= h.faults
  /\ \A k \in Slots : k \notin Written(call) => y.content[k] = h.content[k]

\* The call of another thread is not disturbed by an update.
LEMMA UpdateApart ==
  ASSUME NEW g, NEW h, NEW a, NEW p, Good(g, h, a, p), NEW t \in Threads, p[t].op = "update",
         NEW x, NEW b, NEW y, x \in GuestType,
         Elsewhere(a, b, p[t].call), Shadowed(g, x, p[t].call, p[t].bufs), Reworked(h, y, p[t].call),
         NEW u \in Threads, u # t
  PROVE  CallOK(x, y, b, p[u])
<1> DEFINE q == p[u]
           W == Written(p[t].call)
           D == {k \in Slots : SetOf[k] \in q.sets}
<1>0. /\ a \in AppType /\ g \in GuestType /\ q \in CallType /\ CallOK(g, h, a, q)
      /\ p[t].call \in Calls /\ UpdateOK(g, a, p[t]) /\ b \in AppType
      /\ p[t].sets \cap q.sets = {} /\ (q.op = "destroy" => q.buf \notin p[t].bufs)
  BY CallTypes DEF Good, Agreed, Typed, Orderly, CallOK, UpdateType, Apart, Elsewhere
<1>1. \A k \in D : k \notin W
  BY <1>0 DEF UpdateOK, SetsOfSlots
<1> HIDE DEF W
<1>2. CASE q.op = "update"
  <2>1. UpdateOK(g, a, q) /\ q.call \in Calls
    BY <1>0, <1>2, CallTypes DEF CallOK, UpdateType
  <2>2. D \in SUBSET Slots /\ Written(q.call) \cup Copied(q.call) \subseteq D
    <3>1. Written(q.call) \subseteq Slots /\ Copied(q.call) \subseteq Slots
      BY <2>1, CallFacts
    <3>2. q.sets = SetsOfSlots(Written(q.call) \cup Copied(q.call))
      BY <2>1 DEF UpdateOK
    <3> QED BY <3>1, <3>2 DEF SetsOfSlots
  <2>3. \A k \in D : /\ a.content[k] = b.content[k] /\ a.known[k] = b.known[k]
                     /\ x.value[k] = g.value[k]
    BY <1>1 DEF Elsewhere, Shadowed, W
  <2> HIDE DEF D
  <2>4. /\ \A k \in D : Overlay(a.content, q.call)[k] = Overlay(b.content, q.call)[k]
        /\ \A k \in D : Overlay(a.known, q.call)[k] = Overlay(b.known, q.call)[k]
    <3>1. /\ a.content \in [Slots -> Values] /\ b.content \in [Slots -> Values]
          /\ a.known \in [Slots -> Values] /\ b.known \in [Slots -> Values]
      BY <1>0 DEF AppType
    <3>2. \A k \in D : Overlay(a.content, q.call)[k] = Overlay(b.content, q.call)[k]
      BY <2>1, <2>2, <2>3, <3>1, OverlaySame
    <3>3. \A k \in D : Overlay(a.known, q.call)[k] = Overlay(b.known, q.call)[k]
      BY <2>1, <2>2, <2>3, <3>1, OverlaySame
    <3> QED BY <3>2, <3>3
  <2>5. q.sets \subseteq b.sets /\ q.bufs \subseteq b.buffers
    BY <2>1 DEF UpdateOK, Elsewhere
  <2>6. \A k \in Written(q.call) : Overlay(b.content, q.call)[k] \in q.bufs
    BY <2>1, <2>2, <2>4 DEF UpdateOK
  <2>7. q.at = "rpc" =>
          /\ x.stage \in {"Detect", "Legacy"}
          /\ x.stage = "Detect" => \A k \in Written(q.call) :
               Overlay(b.known, q.call)[k] # None => x.value[k] = Overlay(b.known, q.call)[k]
    BY <2>1, <2>2, <2>3, <2>4 DEF UpdateOK, Shadowed
  <2>8. UpdateOK(x, b, q)
    BY <2>1, <2>5, <2>6, <2>7 DEF UpdateOK
  <2> QED BY <1>2, <2>8 DEF CallOK
<1>3. CASE q.op = "free"
  <2>1. FreeOK(g, a, q)
    BY <1>0, <1>3 DEF CallOK
  <2>2. ASSUME q.at # "prepare", NEW r \in x.records PROVE SetOf[r.slot] # q.set
    <3>1. r.slot \in Slots
      BY DEF GuestType, RecordType
    <3>2. CASE r.slot \in W
      BY <1>1, <2>1, <3>1, <3>2 DEF FreeOK
    <3>3. CASE r.slot \notin W
      BY <2>1, <2>2, <3>3 DEF FreeOK, Shadowed, W
    <3> QED BY <3>2, <3>3
  <2>3. FreeOK(x, b, q)
    BY <2>1, <2>2 DEF FreeOK, Elsewhere
  <2> QED BY <1>3, <2>3 DEF CallOK
<1>4. CASE q.op = "allocate"
  BY <1>0, <1>4 DEF CallOK, AllocateOK, Elsewhere, Reworked
<1>5. CASE q.op = "destroy"
  <2>1. DestroyOK(g, a, q) /\ q.buf \notin p[t].bufs
    BY <1>0, <1>5 DEF CallOK
  <2>2. DestroyOK(x, b, q)
    BY <2>1 DEF DestroyOK, Elsewhere, Shadowed
  <2> QED BY <1>5, <2>2 DEF CallOK
<1>6. CASE q.op = "submit"
  <2>1. SubmitOK(g, h, a, q)
    BY <1>0, <1>6 DEF CallOK
  <2>2. GateOK(x, q.gate)
    BY <2>1 DEF SubmitOK, GateOK, Shadowed
  <2>3. \A k \in Slots : SetOf[k] \in q.sets /\ b.known[k] # None => y.content[k] = b.known[k]
    BY <1>1, <2>1 DEF SubmitOK, Elsewhere, Reworked, W
  <2>4. SubmitOK(x, y, b, q)
    BY <2>1, <2>2, <2>3 DEF SubmitOK, Elsewhere, Shadowed
  <2> QED BY <1>6, <2>4 DEF CallOK
<1>7. CASE q.op = "idle"
  BY <1>7 DEF CallOK
<1>8. q.op \in {"update", "free", "allocate", "destroy", "submit", "idle"}
  BY <1>0, CallTypes DEF Lifecycle
<1> QED BY <1>2, <1>3, <1>4, <1>5, <1>6, <1>7, <1>8


\* The update takes effect for the application; the host must have all of it or
\* not all.
Updated(a, b, call) ==
  /\ Elsewhere(a, b, call) /\ b.content = Overlay(a.content, call)
  /\ \A k \in Written(call) : b.known[k] # None => b.known[k] = b.content[k]

\* An update returns when the host or the records have it.
LEMMA UpdateReturns ==
  ASSUME NEW g, NEW h, NEW a, NEW p, Good(g, h, a, p), NEW t \in Threads, p[t].op = "update",
         NEW x, NEW b, NEW y, Orderly(x), Holds(x, y, b),
         Updated(a, b, p[t].call), Shadowed(g, x, p[t].call, p[t].bufs), Reworked(h, y, p[t].call),
         \A k \in Written(p[t].call) :
           x.stage # "Legacy" /\ b.known[k] # None => x.value[k] = b.known[k],
         Current(x, b), Clean(y, b) => ~x.failed
  PROVE  Good(x, y, b, [p EXCEPT ![t] = Idle])
<1> DEFINE q == p[t]
           W == Written(q.call)
           z == [p EXCEPT ![t] = Idle]
<1>0. /\ a \in AppType /\ b \in AppType /\ h \in HostType /\ y \in HostType
      /\ g \in GuestType /\ x \in GuestType /\ p \in [Threads -> CallType]
      /\ q.call \in Calls /\ UpdateOK(g, a, q) /\ Agreed(g, h, a, p)
  BY CallTypes DEF Good, Agreed, Typed, Orderly, CallOK, UpdateType, Updated, Elsewhere, Reworked
<1>1. /\ z \in [Threads -> CallType] /\ z[t] = Idle /\ \A u \in Threads : u # t => z[u] = p[u]
      /\ Idle \in CallType /\ Room(p, t, Idle) /\ Idle.op = "idle"
  BY <1>0 DEF CallType, Idle, Room
<1>2. g.active.kind = "none"
  BY LifecycleUngated DEF Lifecycle
<1>3. Apart(z)
  BY <1>0, <1>1, ApartReplaced DEF Agreed
<1>4. /\ W \subseteq Slots
      /\ \A k \in W : SetOf[k] \in q.sets /\ SetOf[k] \in a.sets
      /\ \A k \in W : Overlay(a.content, q.call)[k] \in q.bufs
      /\ q.bufs \subseteq a.buffers
      /\ \A k \in Slots : k \notin W => Overlay(a.content, q.call)[k] = a.content[k]
  BY <1>0, CallFacts, OverlayIs DEF UpdateOK, SetsOfSlots, AppType
<1> HIDE DEF z
<1>5. Legal(b)
  <2>1. Legal(a)
    BY <1>0 DEF Agreed
  <2>2. ASSUME NEW k \in Slots
        PROVE  /\ b.known[k] # None => b.content[k] = b.known[k]
               /\ b.content[k] # None => b.content[k] \in b.buffers /\ SetOf[k] \in b.sets
    <3>1. CASE k \in W
      BY <1>4, <3>1 DEF Updated, Elsewhere
    <3>2. CASE k \notin W
      BY <1>4, <2>1, <3>2 DEF Updated, Elsewhere, Legal
    <3> QED BY <3>1, <3>2
  <2> QED BY <2>2 DEF Legal
<1>6. Handles(x, y, b)
  BY <1>0 DEF Agreed, Handles, Updated, Elsewhere, Shadowed, Reworked
<1>7. Shadows(x, b, z)
  <2>1. ASSUME x.stage # "Legacy", NEW k \in Slots, b.known[k] # None, ~Rewritten(z, k)
        PROVE  x.value[k] = b.known[k]
    <3>1. CASE k \in W
      BY <2>1, <3>1
    <3>2. CASE k \notin W
      <4>1. ~Rewritten(p, k)
        BY <1>1, <2>1, <3>2 DEF Rewritten
      <4>2. g.value[k] = a.known[k]
        BY <1>0, <2>1, <3>2, <4>1 DEF Agreed, Shadows, Shadowed, Updated, Elsewhere
      <4> QED BY <3>2, <4>2 DEF Shadowed, Updated, Elsewhere
    <3> QED BY <3>1, <3>2
  <2> QED BY <2>1 DEF Shadows
<1>8. ASSUME NEW u \in Threads PROVE CallOK(x, y, b, z[u])
  <2>1. CASE u = t
    BY <1>1, <2>1 DEF CallOK
  <2>2. CASE u # t
    <3>1. Elsewhere(a, b, p[t].call)
      BY DEF Updated
    <3> QED BY <1>0, <1>1, <2>2, <3>1, UpdateApart
  <2> QED BY <2>1, <2>2
<1>9. Gated(x, z)
  BY <1>2 DEF Gated, Shadowed
<1>10. ASSUME Clean(y, b) PROVE Living(x, y, z)
  <2>1. Clean(h, a)
    <3>1. h.faults \in Nat /\ y.faults >= h.faults
      BY <1>0 DEF HostType, Reworked
    <3> QED BY <1>10, <3>1 DEF Clean, Updated, Elsewhere
  <2>2. Living(g, h, p)
    BY <1>0, <2>1 DEF Agreed
  <2>3. q.bufs \subseteq h.buffers /\ \A k \in W : SetOf[k] \in h.sets
    BY <1>0, <1>4 DEF Agreed, Handles
  <2>4. \A s : Freeing(p, s) => Freeing(z, s)
    BY <1>1 DEF Freeing
  <2>5. Mapped(y, x.records)
    BY <2>2, <2>3 DEF Living, Mapped, Shadowed, Reworked
  <2>6. ASSUME NEW k \in Slots, x.value[k] # None
        PROVE  x.value[k] \in y.buffers /\ (SetOf[k] \in y.sets \/ Freeing(z, SetOf[k]))
    <3>1. CASE k \in W
      <4>1. SetOf[k] \in y.sets
        BY <2>3, <3>1 DEF Reworked
      <4>2. x.value[k] \in y.buffers
        BY <2>2, <2>3, <2>6 DEF Living, Shadowed, Reworked
      <4> QED BY <4>1, <4>2
    <3>2. CASE k \notin W
      BY <2>2, <2>4, <2>6, <3>2 DEF Living, Shadowed, Reworked
    <3> QED BY <3>1, <3>2
  <2> QED BY <1>10, <2>5, <2>6 DEF Living
<1>11. Typed(y, b, z)
  BY <1>0, <1>1 DEF Typed
<1>12. Agreed(x, y, b, z)
  BY <1>3, <1>5, <1>6, <1>7, <1>8, <1>9, <1>10, <1>11 DEF Agreed
<1>13. Good(x, y, b, z)
  BY <1>12 DEF Good
<1> QED BY <1>13 DEF z
-----------------------------------------------------------------------------
(* Updates that the shadow takes *)

\* The slots a call writes are no more than its entries.
LEMMA WrittenBounded ==
  ASSUME NEW call \in Calls
  PROVE  IsFiniteSet(Written(call)) /\ Cardinality(Written(call)) <= Len(call)
<1>1. Len(call) \in Nat /\ DOMAIN call = 1 .. Len(call)
  BY CallFacts
<1> DEFINE S == 1 .. Len(call)
           f == [i \in S |-> call[i].dst]
<1>2. Written(call) = {f[i] : i \in S}
  BY <1>1 DEF Written
<1>3. DOMAIN f = S /\ f = [i \in S |-> f[i]]
  OBVIOUS
<1>4. IsFiniteSet(S) /\ Cardinality(S) = Len(call)
  <2>1. \A n \in Nat : IsFiniteSet(1 .. n) /\ Cardinality(1 .. n) = n
    BY FS_Interval
  <2> QED BY <1>1, <2>1
<1> HIDE DEF f, S
<1>5. IsFiniteSet({f[i] : i \in S}) /\ Cardinality({f[i] : i \in S}) <= Cardinality(S)
  BY <1>3, <1>4, FiniteImage
<1> QED BY <1>2, <1>4, <1>5

\* The record a committed call leaves for slot k.
NewRecord(g, call, k) ==
  [id |-> g.nextId + LastWrite(call, k) - 1, slot |-> k, val |-> Overlay(g.value, call)[k],
   released |-> FALSE]

\* Those records are under new ids, one for each slot.
LEMMA NewRecords ==
  ASSUME NEW g \in GuestType, NEW call \in Calls
  PROVE  /\ \A k \in Written(call) :
              /\ NewRecord(g, call, k) \in RecordType
              /\ NewRecord(g, call, k).id >= g.nextId
              /\ NewRecord(g, call, k).id < g.nextId + Len(call)
         /\ \A j, k \in Written(call) :
              NewRecord(g, call, j).id = NewRecord(g, call, k).id => j = k
         /\ LET N == {NewRecord(g, call, k) : k \in Written(call)}
            IN  IsFiniteSet(N) /\ Cardinality(N) <= Len(call)
<1>0. /\ g.nextId \in Nat /\ Len(call) \in Nat /\ Written(call) \subseteq Slots
      /\ Overlay(g.value, call) \in [Slots -> Values]
  BY CallFacts, OverlayIs DEF GuestType
<1>1. ASSUME NEW k \in Written(call)
      PROVE  /\ LastWrite(call, k) \in 1 .. Len(call) /\ call[LastWrite(call, k)].dst = k
             /\ NewRecord(g, call, k).id = g.nextId + LastWrite(call, k) - 1
             /\ NewRecord(g, call, k) \in RecordType
             /\ NewRecord(g, call, k).id >= g.nextId
             /\ NewRecord(g, call, k).id < g.nextId + Len(call)
  <2>1. LastWrite(call, k) \in 1 .. Len(call) /\ call[LastWrite(call, k)].dst = k
    BY LastWriteIs
  <2> DEFINE n == LastWrite(call, k)
             v == Overlay(g.value, call)[k]
  <2>2. n \in 1 .. Len(call) /\ v \in Values /\ k \in Slots
    BY <1>0, <2>1
  <2>3. NewRecord(g, call, k) =
          [id |-> g.nextId + n - 1, slot |-> k, val |-> v, released |-> FALSE]
    BY DEF NewRecord
  <2> HIDE DEF n, v
  <2>4. g.nextId + n - 1 \in Nat /\ g.nextId + n - 1 >= g.nextId
        /\ g.nextId + n - 1 < g.nextId + Len(call)
    BY <1>0, <2>2
  <2>5. NewRecord(g, call, k) \in RecordType
    BY <2>2, <2>3, <2>4 DEF RecordType
  <2>6. NewRecord(g, call, k).id = g.nextId + n - 1
    BY <2>3
  <2> QED BY <2>1, <2>4, <2>5, <2>6 DEF n
<1>2. ASSUME NEW j \in Written(call), NEW k \in Written(call),
             NewRecord(g, call, j).id = NewRecord(g, call, k).id
      PROVE  j = k
  <2>1. LastWrite(call, j) = LastWrite(call, k)
    BY <1>0, <1>1, <1>2
  <2> QED BY <1>1, <2>1
<1>3. LET N == {NewRecord(g, call, k) : k \in Written(call)}
      IN  IsFiniteSet(N) /\ Cardinality(N) <= Len(call)
  <2> DEFINE N == {NewRecord(g, call, k) : k \in Written(call)}
             f == [k \in Written(call) |-> NewRecord(g, call, k)]
  <2>1. N = {f[k] : k \in Written(call)}
    OBVIOUS
  <2>2. DOMAIN f = Written(call) /\ f = [k \in Written(call) |-> f[k]]
    OBVIOUS
  <2> HIDE DEF f, N
  <2>3. IsFiniteSet(N) /\ Cardinality(N) <= Cardinality(Written(call))
    BY <2>1, <2>2, WrittenBounded, FiniteImage
  <2>4. Cardinality(N) <= Len(call)
    BY <1>0, <2>3, WrittenBounded, FS_CardinalityType
  <2> QED BY <2>3, <2>4 DEF N
<1> QED BY <1>1, <1>2, <1>3

\* What a commit makes of the guest.
LEMMA CommitIs ==
  ASSUME NEW g \in GuestType, NEW call \in Calls
  PROVE  LET x == Commit(g, call)
             W == Written(call)
         IN  /\ x \in GuestType /\ x.value = Overlay(g.value, call)
             /\ x.stage = g.stage /\ x.failed = g.failed /\ x.sets = g.sets /\ x.binds = g.binds
             /\ x.executable = g.executable /\ x.active = g.active /\ x.early = g.early
             /\ x.learned = g.learned
             /\ Specialized(g) =>
                  /\ x.records = (g.records \ Pending(g, W)) \cup {NewRecord(g, call, k) : k \in W}
                  /\ x.nextId = g.nextId + Len(call)
                  /\ x.link = [k \in Slots |-> IF k \in W THEN NewRecord(g, call, k).id
                                                        ELSE g.link[k]]
             /\ ~Specialized(g) => /\ x.records = g.records \ Pending(g, W)
                                   /\ x.nextId = g.nextId
<1> DEFINE W == Written(call)
           v == Overlay(g.value, call)
           old == g.records \ Pending(g, W)
           N == {NewRecord(g, call, k) : k \in W}
           l == [k \in Slots |-> IF k \in W THEN NewRecord(g, call, k).id ELSE g.link[k]]
           l0 == [k \in Slots |-> IF k \in W THEN 0 ELSE g.link[k]]
           x == Commit(g, call)
           n == Len(call)
<1>1. /\ v \in [Slots -> Values] /\ old \in SUBSET RecordType /\ n \in Nat
      /\ N \in SUBSET RecordType /\ g.nextId \in Nat
  <2>1. g.nextId \in Nat /\ g.value \in [Slots -> Values] /\ g.records \in SUBSET RecordType
    BY DEF GuestType
  <2>2. v \in [Slots -> Values] /\ n \in Nat
    BY <2>1, CallFacts, OverlayIs
  <2>3. N \in SUBSET RecordType
    BY NewRecords
  <2> QED BY <2>1, <2>2, <2>3
<1>2. l \in [Slots -> Nat] /\ l0 \in [Slots -> Nat]
  <2>1. \A k \in W : NewRecord(g, call, k).id \in Nat
    BY NewRecords DEF RecordType
  <2> QED BY <2>1 DEF GuestType
<1>3. CASE Specialized(g)
  <2>1. N = {[id |-> g.nextId + LastWrite(call, k) - 1, slot |-> k,
              val |-> v[k], released |-> FALSE] : k \in W}
    BY DEF NewRecord
  <2>2. l = [k \in Slots |-> IF k \in W THEN g.nextId + LastWrite(call, k) - 1 ELSE g.link[k]]
    BY DEF NewRecord
  <2>3. x = [g EXCEPT !.value = v, !.records = old \cup N, !.nextId = g.nextId + n, !.link = l]
    BY <1>3, <2>1, <2>2, Zenon DEF Commit
  <2>4. old \cup N \in SUBSET RecordType /\ g.nextId + n \in Nat
    BY <1>1
  <2> HIDE DEF x, v, old, N, l, l0, n
  <2>5. /\ x \in GuestType /\ x.value = v
        /\ x.stage = g.stage /\ x.failed = g.failed /\ x.sets = g.sets /\ x.binds = g.binds
        /\ x.executable = g.executable /\ x.active = g.active /\ x.early = g.early
        /\ x.learned = g.learned
        /\ x.records = old \cup N /\ x.nextId = g.nextId + n /\ x.link = l
    BY <1>1, <1>2, <2>3, <2>4 DEF GuestType
  <2> QED BY <1>3, <2>5 DEF x, v, old, N, l, n
<1>4. CASE ~Specialized(g)
  <2>1. x = [g EXCEPT !.value = v, !.records = old, !.link = l0]
    BY <1>4, Zenon DEF Commit
  <2> HIDE DEF x, v, old, N, l, l0, n
  <2>2. /\ x \in GuestType /\ x.value = v
        /\ x.stage = g.stage /\ x.failed = g.failed /\ x.sets = g.sets /\ x.binds = g.binds
        /\ x.executable = g.executable /\ x.active = g.active /\ x.early = g.early
        /\ x.learned = g.learned
        /\ x.records = old /\ x.nextId = g.nextId
    BY <1>1, <1>2, <2>1 DEF GuestType
  <2> QED BY <1>4, <2>2 DEF x, v, old
<1> QED BY <1>3, <1>4


\* A device that records new updates: it works, and nothing else is under way.
Recording(g) ==
  /\ Orderly(g) /\ Settled(g) /\ Specialized(g)
  /\ ~g.failed /\ g.early = NoEarly /\ g.active.kind = "none"

\* There every record is pending, and a call replaces those of the slots it writes.
LEMMA RecordsPending ==
  ASSUME NEW g, Recording(g), NEW call \in Calls
  PROVE  /\ \A r \in g.records : ~r.released
         /\ \A r \in g.records \ Pending(g, Written(call)) : r.slot \notin Written(call)
         /\ \A r \in g.records : r.slot \notin Written(call) =>
              r \in g.records \ Pending(g, Written(call))
BY DEF Recording, Settled, Orderly, Tidy, Pending

\* A committed call leaves the records in order, and none of them released.
LEMMA CommitOrderly ==
  ASSUME NEW g, Recording(g), NEW call \in Calls, Plannable(g, call),
         \A k \in Written(call) : Overlay(g.value, call)[k] # None
  PROVE  Orderly(Commit(g, call)) /\ Settled(Commit(g, call))
<1> DEFINE x == Commit(g, call)
           W == Written(call)
           old == g.records \ Pending(g, W)
           N == {NewRecord(g, call, k) : k \in W}
<1>0. /\ g \in GuestType /\ Tidy(g) /\ Routes(g) /\ Settled(g) /\ Specialized(g)
      /\ Len(call) \in Nat /\ g.nextId \in Nat /\ W \subseteq Slots
  BY CallFacts DEF Recording, Orderly, GuestType
<1>1. /\ x \in GuestType /\ x.value = Overlay(g.value, call)
      /\ x.stage = g.stage /\ x.failed = g.failed /\ x.sets = g.sets
      /\ x.active = g.active /\ x.early = g.early
      /\ x.records = old \cup N
      /\ x.nextId = g.nextId + Len(call)
      /\ x.link = [k \in Slots |-> IF k \in W THEN NewRecord(g, call, k).id ELSE g.link[k]]
  BY <1>0, CommitIs
<1>2. /\ \A k \in W : /\ NewRecord(g, call, k) \in RecordType
                      /\ NewRecord(g, call, k).id >= g.nextId
                      /\ NewRecord(g, call, k).id < g.nextId + Len(call)
      /\ \A j, k \in W : NewRecord(g, call, j).id = NewRecord(g, call, k).id => j = k
      /\ IsFiniteSet(N) /\ Cardinality(N) <= Len(call)
  BY <1>0, NewRecords
<1>3. \A k \in W : /\ NewRecord(g, call, k).slot = k /\ NewRecord(g, call, k).released = FALSE
                   /\ NewRecord(g, call, k).val = Overlay(g.value, call)[k]
  BY DEF NewRecord
<1>4. \A r \in g.records : ~r.released
  BY RecordsPending
<1>5. /\ old \subseteq g.records
      /\ \A r \in old : r.slot \notin W
  BY RecordsPending
<1>6. \A k \in Slots : k \notin W => x.value[k] = g.value[k] /\ x.link[k] = g.link[k]
  <2>1. g.value \in [Slots -> Values]
    BY <1>0 DEF GuestType
  <2> HIDE DEF x
  <2> QED BY <1>1, <2>1, OverlayIs
<1>7. \A k \in W : SetOf[k] \in g.sets
  <2>1. \A i \in DOMAIN call : SetOf[call[i].dst] \in g.sets
    BY DEF Plannable
  <2> QED BY <2>1 DEF Written
<1>8. IsFiniteSet(x.records) /\ Cardinality(x.records) <= MaxRecords
  <2>1. Cardinality(g.records) + Len(call) <= MaxRecords /\ IsFiniteSet(g.records)
    BY <1>0 DEF Plannable, Tidy
  <2>2. IsFiniteSet(old) /\ Cardinality(old) <= Cardinality(g.records)
    BY <1>5, <2>1, FS_Subset
  <2> HIDE DEF old, N, x
  <2>3. /\ IsFiniteSet(old \cup N)
        /\ Cardinality(old \cup N) = Cardinality(old) + Cardinality(N) - Cardinality(old \cap N)
    BY <1>2, <2>2, FS_Union
  <2>4. /\ Cardinality(old) \in Nat /\ Cardinality(N) \in Nat /\ Cardinality(g.records) \in Nat
        /\ Cardinality(old \cap N) \in Nat /\ MaxRecords \in Nat
    BY <1>2, <2>1, <2>2, FS_CardinalityType, FS_Intersection, GuestAssumption
    DEF GuestAssumption
  <2> QED BY <1>0, <1>1, <1>2, <2>1, <2>2, <2>3, <2>4
<1> HIDE DEF x, old, N
<1>9. ASSUME NEW r \in x.records
      PROVE  \/ r \in old /\ r \in g.records /\ r.slot \notin W /\ r.slot \in Slots
             \/ \E k \in W : r = NewRecord(g, call, k)
  BY <1>0, <1>1, <1>5 DEF N, GuestType, RecordType
<1>10. ASSUME NEW r \in x.records
       PROVE  /\ r.id < x.nextId
              /\ x.value[r.slot] # None => x.value[r.slot] = r.val
              /\ ~r.released => /\ x.link[r.slot] = r.id /\ x.value[r.slot] = r.val
                                /\ SetOf[r.slot] \in x.sets
              /\ ~r.released
  <2>1. CASE r \in old /\ r \in g.records /\ r.slot \notin W /\ r.slot \in Slots
    <3>1. r.id < g.nextId /\ r.id \in Nat
      BY <1>0, <2>1 DEF Tidy, GuestType, RecordType
    <3>2. r.id < x.nextId
      BY <1>0, <1>1, <3>1
    <3> QED BY <1>0, <1>1, <1>4, <1>6, <2>1, <3>2 DEF Tidy
  <2>2. CASE \E k \in W : r = NewRecord(g, call, k)
    <3>1. PICK k \in W : r = NewRecord(g, call, k)
      BY <2>2
    <3>2. x.link[k] = r.id /\ k \in Slots
      BY <1>0, <1>1, <3>1
    <3> QED BY <1>1, <1>2, <1>3, <1>7, <3>1, <3>2
  <2> QED BY <1>9, <2>1, <2>2
<1>11. ASSUME NEW r \in x.records, NEW q \in x.records, r.slot = q.slot \/ r.id = q.id
       PROVE  r = q
  <2>1. CASE r \in old /\ q \in old
    BY <1>0, <1>5, <1>11, <2>1 DEF Tidy
  <2>2. CASE r \notin old /\ q \notin old
    <3>1. PICK j \in W : r = NewRecord(g, call, j)
      BY <1>9, <2>2
    <3>2. PICK k \in W : q = NewRecord(g, call, k)
      BY <1>9, <2>2
    <3> QED BY <1>2, <1>3, <1>11, <3>1, <3>2
  <2>3. ASSUME NEW u \in x.records, NEW w \in x.records, u \in old, w \notin old
        PROVE  u.slot # w.slot /\ u.id # w.id
    <3>1. PICK k \in W : w = NewRecord(g, call, k)
      BY <1>9, <2>3
    <3>2. w.slot = k /\ w.id >= g.nextId /\ w.id \in Nat
      BY <1>2, <1>3, <3>1 DEF RecordType
    <3>3. u.slot \notin W /\ u.id < g.nextId /\ u.id \in Nat
      BY <1>0, <1>5, <2>3 DEF Tidy, GuestType, RecordType
    <3> QED BY <1>0, <3>2, <3>3
  <2> QED BY <1>11, <2>1, <2>2, <2>3
<1>12. Tidy(x)
  BY <1>0, <1>1, <1>8, <1>10, <1>11 DEF Tidy, Specialized
<1>13. Routes(x)
  BY <1>0, <1>1 DEF Routes, Specialized, Recording, RoutedKinds
<1>14. Settled(x)
  BY <1>10 DEF Settled
<1> QED BY <1>1, <1>12, <1>13, <1>14 DEF Orderly, x

\* In a call under way the shadow is at least what the application counts on, so
\* it gives the values the application wants.
LEMMA ShadowGives ==
  ASSUME NEW g, NEW h, NEW a, NEW p, Good(g, h, a, p), NEW t \in Threads,
         p[t].op = "update", p[t].at = "hook", g.stage # "Legacy"
  PROVE  \A k \in Written(p[t].call) :
           Overlay(a.known, p[t].call)[k] # None =>
             Overlay(g.value, p[t].call)[k] = Overlay(a.known, p[t].call)[k]
<1> DEFINE q == p[t]
           D == {k \in Slots : SetOf[k] \in q.sets}
<1>0. /\ a \in AppType /\ g \in GuestType /\ q \in CallType /\ Agreed(g, h, a, p)
      /\ q.call \in Calls /\ UpdateOK(g, a, q) /\ p \in [Threads -> CallType]
  BY CallTypes DEF Good, Agreed, Typed, Orderly, CallOK, UpdateType
<1>1. D \in SUBSET Slots /\ Written(q.call) \cup Copied(q.call) \subseteq D
  BY <1>0, CallFacts DEF UpdateOK, SetsOfSlots
<1>2. ASSUME NEW k \in D PROVE ~Rewritten(p, k)
  <2>1. ASSUME NEW u \in Threads, p[u].op = "update", p[u].at = "rpc", k \in Written(p[u].call)
        PROVE  FALSE
    <3>1. UpdateOK(g, a, p[u]) /\ u # t
      BY <1>0, <2>1 DEF Agreed, CallOK
    <3>2. SetOf[k] \in p[u].sets
      BY <2>1, <3>1 DEF UpdateOK, SetsOfSlots
    <3> QED BY <1>0, <1>2, <3>1, <3>2 DEF Agreed, Apart
  <2> QED BY <2>1 DEF Rewritten
<1>3. \A k \in D : a.known[k] # None => g.value[k] = a.known[k]
  BY <1>0, <1>2 DEF Agreed, Shadows
<1>4. a.known \in [Slots -> Values] /\ g.value \in [Slots -> Values]
  BY <1>0 DEF AppType, GuestType
<1> HIDE DEF D
<1>5. \A k \in D : Overlay(a.known, q.call)[k] # None =>
        Overlay(g.value, q.call)[k] = Overlay(a.known, q.call)[k]
  BY <1>0, <1>1, <1>3, <1>4, OverlayAgrees
<1> QED BY <1>1, <1>5

\* What is on record of a call under way.
LEMMA UpdateFacts ==
  ASSUME NEW g, NEW h, NEW a, NEW p, Good(g, h, a, p), NEW t \in Threads, p[t].op = "update"
  PROVE  /\ p[t].call \in Calls /\ UpdateOK(g, a, p[t]) /\ g.active.kind = "none"
         /\ p[t].bufs \subseteq a.buffers /\ a.buffers \subseteq Buffers
         /\ a \in AppType /\ h \in HostType /\ g \in GuestType
         /\ Agreed(g, h, a, p) /\ Orderly(g) /\ Holds(g, h, a)
         /\ a.known \in [Slots -> Values] /\ a.content \in [Slots -> Values]
<1>1. /\ Agreed(g, h, a, p) /\ Orderly(g) /\ Holds(g, h, a)
      /\ p[t] \in CallType /\ a \in AppType /\ h \in HostType /\ g \in GuestType
  BY DEF Good, Agreed, Typed, Orderly
<1>2. p[t].call \in Calls /\ UpdateOK(g, a, p[t])
  BY <1>1, CallTypes DEF Agreed, CallOK, UpdateType
<1>3. g.active.kind = "none"
  BY LifecycleUngated DEF Lifecycle
<1> QED BY <1>1, <1>2, <1>3 DEF UpdateOK, AppType

\* An update the device suppresses is recorded for every slot it writes.
LEMMA Suppressed ==
  ASSUME NEW g, NEW h, NEW a, NEW p, Good(g, h, a, p), NEW t \in Threads,
         p[t].op = "update", p[t].at = "hook", Recording(g), Plannable(g, p[t].call),
         NEW b, Updated(a, b, p[t].call), b.known = Overlay(a.known, p[t].call)
  PROVE  /\ Good(Commit(g, p[t].call), h, b, [p EXCEPT ![t] = Idle])
         /\ Settled(Commit(g, p[t].call))
<1> DEFINE q == p[t]
           W == Written(q.call)
           x == Commit(g, q.call)
<1>0. /\ q.call \in Calls /\ UpdateOK(g, a, q)
      /\ q.bufs \subseteq a.buffers /\ a.buffers \subseteq Buffers
      /\ a \in AppType /\ h \in HostType /\ g \in GuestType
      /\ Agreed(g, h, a, p) /\ Holds(g, h, a)
  BY UpdateFacts
<1>1. g.stage # "Legacy" /\ ~g.failed /\ Specialized(g)
  BY DEF Recording, Specialized
<1>2. a.known = a.content
  BY <1>0, <1>1 DEF Agreed, Current
<1>3. \A k \in W : /\ Overlay(a.content, q.call)[k] \in q.bufs
                   /\ Overlay(a.content, q.call)[k] # None
  <2>1. None \notin Buffers
    BY GuestAssumption DEF GuestAssumption
  <2> QED BY <1>0, <2>1 DEF UpdateOK
<1>4. \A k \in W : Overlay(g.value, q.call)[k] = Overlay(a.content, q.call)[k]
  BY <1>0, <1>1, <1>2, <1>3, ShadowGives
<1>5. \A k \in W : Overlay(g.value, q.call)[k] # None
  BY <1>3, <1>4
<1>6. Orderly(x) /\ Settled(x)
  BY <1>0, <1>5, CommitOrderly
<1>7. /\ x.value = Overlay(g.value, q.call)
      /\ x.stage = g.stage /\ x.failed = g.failed /\ x.sets = g.sets /\ x.binds = g.binds
      /\ x.executable = g.executable /\ x.active = g.active
      /\ x.records = (g.records \ Pending(g, W)) \cup {NewRecord(g, q.call, k) : k \in W}
  BY <1>0, <1>1, CommitIs
<1>8. \A k \in Slots : k \notin W => x.value[k] = g.value[k]
  BY <1>0, <1>7, OverlayIs DEF GuestType
<1> HIDE DEF x
<1>9. \A k \in W : /\ NewRecord(g, q.call, k).slot = k
                   /\ NewRecord(g, q.call, k).val = Overlay(g.value, q.call)[k]
                   /\ NewRecord(g, q.call, k).released = FALSE
  BY DEF NewRecord
<1>10. Shadowed(g, x, q.call, q.bufs)
  <2>1. \A k \in Slots : x.value[k] = g.value[k] \/ x.value[k] \in q.bufs
    BY <1>3, <1>4, <1>7, <1>8
  <2>2. \A r \in x.records : \/ \E s \in g.records : s.slot = r.slot /\ s.val = r.val
                             \/ r.slot \in W /\ r.val \in q.bufs
    BY <1>3, <1>4, <1>7, <1>9
  <2> QED BY <1>7, <1>8, <2>1, <2>2 DEF Shadowed
<1>11. Holds(x, h, b)
  <2>1. ASSUME NEW k \in Slots, b.known[k] # None, h.content[k] # b.known[k]
        PROVE  Owed(x, k)
    <3>1. CASE k \in W
      BY <1>7, <1>9, <3>1 DEF Owed
    <3>2. CASE k \notin W
      <4>1. b.known[k] = a.known[k]
        BY <3>2 DEF Updated, Elsewhere
      <4>2. PICK r \in g.records : r.slot = k /\ ~r.released
        BY <1>0, <2>1, <4>1 DEF Holds, Owed
      <4>3. r \in x.records
        BY <1>0, <1>7, <3>2, <4>2, RecordsPending
      <4> QED BY <4>2, <4>3 DEF Owed
    <3> QED BY <3>1, <3>2
  <2> QED BY <2>1 DEF Holds
<1>12. Reworked(h, h, q.call)
  <2>1. h.faults \in Nat
    BY <1>0 DEF HostType
  <2> QED BY <1>0, <2>1 DEF Reworked
<1>13. \A k \in W : b.known[k] # None => x.value[k] = b.known[k]
  BY <1>2, <1>4, <1>7
<1>14. Current(x, b)
  BY <1>2 DEF Current, Updated
<1>15. Clean(h, b) => ~x.failed
  BY <1>1, <1>7
<1>16. Good(x, h, b, [p EXCEPT ![t] = Idle])
  BY <1>6, <1>10, <1>11, <1>12, <1>13, <1>14, <1>15, UpdateReturns
<1> QED BY <1>6, <1>16 DEF x


\* What the application counts on when an update returned, by whether it went well.
AfterUpdate(a, call, ok) ==
  [a EXCEPT !.content = Overlay(@, call),
            !.known = IF ok THEN Overlay(@, call)
                      ELSE [k \in Slots |-> IF k \in Written(call) THEN None ELSE @[k]]]

\* Whether it went well or not, it is an update.
LEMMA AfterUpdateIs ==
  ASSUME NEW a \in AppType, Legal(a), NEW call \in Calls, NEW ok \in BOOLEAN
  PROVE  LET b == AfterUpdate(a, call, ok)
         IN  /\ Updated(a, b, call)
             /\ ok => b.known = Overlay(a.known, call)
             /\ ~ok => \A k \in Written(call) : b.known[k] = None
<1> DEFINE new == Overlay(a.content, call)
           got == IF ok THEN Overlay(a.known, call)
                  ELSE [k \in Slots |-> IF k \in Written(call) THEN None ELSE a.known[k]]
           b == AfterUpdate(a, call, ok)
<1>0. a.content \in [Slots -> Values] /\ a.known \in [Slots -> Values] /\ Written(call) \subseteq Slots
      /\ Written(call) \cup Copied(call) \subseteq Slots
  BY CallFacts DEF AppType
<1>1. /\ new \in [Slots -> Values] /\ Overlay(a.known, call) \in [Slots -> Values]
      /\ \A k \in Slots : k \notin Written(call) => new[k] = a.content[k]
      /\ \A k \in Slots : k \notin Written(call) => Overlay(a.known, call)[k] = a.known[k]
  BY <1>0, OverlayIs
<1>2. /\ got \in [Slots -> Values]
      /\ \A k \in Slots : k \notin Written(call) => got[k] = a.known[k]
  BY <1>0, <1>1 DEF Values
<1>3. \A k \in Slots : a.known[k] # None => a.content[k] = a.known[k]
  BY DEF Legal
<1>4. \A k \in Slots : Overlay(a.known, call)[k] # None => new[k] = Overlay(a.known, call)[k]
  BY <1>0, <1>3, OverlayAgrees
<1>5. \A k \in Written(call) : got[k] # None => got[k] = new[k]
  BY <1>0, <1>4
<1>6. b = [a EXCEPT !.content = new, !.known = got]
  BY Zenon DEF AfterUpdate
<1>7. ok => got = Overlay(a.known, call)
  OBVIOUS
<1>8. ~ok => \A k \in Written(call) : got[k] = None
  BY <1>0
<1> HIDE DEF new, got, b
<1>9. /\ b \in AppType /\ b.content = new /\ b.known = got /\ b.sets = a.sets
      /\ b.buffers = a.buffers /\ b.ready = a.ready /\ b.causes = a.causes
  BY <1>1, <1>2, <1>6 DEF AppType
<1>10. Updated(a, b, call)
  <2>1. Elsewhere(a, b, call)
    BY <1>1, <1>2, <1>9 DEF Elsewhere
  <2>2. b.content = Overlay(a.content, call)
    BY <1>9 DEF new
  <2> QED BY <1>5, <1>9, <2>1, <2>2 DEF Updated
<1> QED BY <1>7, <1>8, <1>9, <1>10 DEF b

\* The handles that a call refers to bound what the application counts on.
LEMMA GoodLegal ==
  ASSUME NEW g, NEW h, NEW a, NEW p, Good(g, h, a, p)
  PROVE  /\ a \in AppType /\ Legal(a) /\ h \in HostType /\ g \in GuestType
         /\ p \in [Threads -> CallType] /\ (g.failed => ~Clean(h, a))
BY DEF Good, Agreed, Typed, Orderly, Living

\* An update that was refused or went wrong returns; the device failed or is in Legacy.
LEMMA Refused ==
  ASSUME NEW g, NEW h, NEW a, NEW p, Good(g, h, a, p), NEW t \in Threads,
         p[t].op = "update", g.failed \/ g.stage = "Legacy",
         NEW b, Updated(a, b, p[t].call), \A k \in Written(p[t].call) : b.known[k] = None,
         NEW y, Reworked(h, y, p[t].call)
  PROVE  Good(g, y, b, [p EXCEPT ![t] = Idle])
<1> DEFINE q == p[t]
<1>0. /\ q.call \in Calls /\ a \in AppType /\ h \in HostType /\ g \in GuestType
      /\ Orderly(g) /\ Holds(g, h, a)
  BY UpdateFacts
<1>1. Shadowed(g, g, q.call, q.bufs)
  BY DEF Shadowed
<1>2. Holds(g, y, b)
  BY <1>0 DEF Holds, Updated, Elsewhere, Reworked, Owed
<1>3. Current(g, b)
  BY DEF Current
<1>4. Clean(y, b) => ~g.failed
  <2>1. Clean(y, b) => Clean(h, a)
    <3>1. h.faults \in Nat /\ y.faults >= h.faults
      BY <1>0 DEF HostType, Reworked
    <3> QED BY <3>1 DEF Clean, Updated, Elsewhere
  <2> QED BY <2>1, GoodLegal
<1> QED BY <1>0, <1>1, <1>2, <1>3, <1>4, UpdateReturns

\* An update that the host took returns.
LEMMA Delivered ==
  ASSUME NEW g, NEW h, NEW a, NEW p, Good(g, h, a, p), NEW t \in Threads,
         p[t].op = "update", p[t].at = "rpc",
         NEW b, Updated(a, b, p[t].call), b.known = Overlay(a.known, p[t].call),
         NEW y, Reworked(h, y, p[t].call), y.content = Overlay(h.content, p[t].call)
  PROVE  Good(g, y, b, [p EXCEPT ![t] = Idle])
<1> DEFINE q == p[t]
           W == Written(q.call)
<1>0. /\ q.call \in Calls /\ UpdateOK(g, a, q)
      /\ a \in AppType /\ h \in HostType /\ g \in GuestType
      /\ Agreed(g, h, a, p) /\ Orderly(g) /\ Holds(g, h, a)
      /\ a.known \in [Slots -> Values] /\ h.content \in [Slots -> Values]
      /\ W \cup Copied(q.call) \subseteq Slots /\ W \subseteq Slots
  BY UpdateFacts, CallFacts DEF HostType
<1>1. g.stage \in {"Detect", "Legacy"} /\ g.records = {}
  BY <1>0 DEF UpdateOK, Orderly, Tidy
<1>2. \A k \in Slots : a.known[k] # None => h.content[k] = a.known[k]
  BY <1>0, <1>1 DEF Holds, Owed
<1>3. \A k \in Slots : b.known[k] # None => y.content[k] = b.known[k]
  BY <1>0, <1>2, OverlayAgrees
<1>4. Holds(g, y, b)
  BY <1>3 DEF Holds
<1>5. Shadowed(g, g, q.call, q.bufs)
  BY DEF Shadowed
<1>6. \A k \in W : g.stage # "Legacy" /\ b.known[k] # None => g.value[k] = b.known[k]
  BY <1>0, <1>1 DEF UpdateOK
<1>7. Current(g, b)
  BY <1>0 DEF Agreed, Current, Updated
<1>8. Clean(y, b) => ~g.failed
  <2>1. Clean(y, b) => Clean(h, a)
    <3>1. h.faults \in Nat /\ y.faults >= h.faults
      BY <1>0 DEF HostType, Reworked
    <3> QED BY <3>1 DEF Clean, Updated, Elsewhere
  <2> QED BY <2>1, GoodLegal
<1> QED BY <1>0, <1>4, <1>5, <1>6, <1>7, <1>8, UpdateReturns

\* In Detect the shadow is ahead of the host until the raw call is back.
LEMMA ShadowsAhead ==
  ASSUME NEW g, NEW h, NEW a, NEW p, Good(g, h, a, p), NEW t \in Threads,
         p[t].op = "update", p[t].at = "hook", g.stage = "Detect", ~g.failed
  PROVE  /\ Good(Commit(g, p[t].call), h, a, [p EXCEPT ![t].at = "rpc"])
         /\ Settled(Commit(g, p[t].call))
<1> DEFINE q == p[t]
           W == Written(q.call)
           x == Commit(g, q.call)
           n == [q EXCEPT !.at = "rpc"]
           z == [p EXCEPT ![t] = n]
<1>0. /\ q.call \in Calls /\ UpdateOK(g, a, q) /\ g.active.kind = "none"
      /\ q.bufs \subseteq a.buffers /\ a.buffers \subseteq Buffers
      /\ a \in AppType /\ h \in HostType /\ g \in GuestType /\ p \in [Threads -> CallType]
      /\ Agreed(g, h, a, p) /\ Orderly(g) /\ Holds(g, h, a)
      /\ W \subseteq Slots
  BY UpdateFacts, CallFacts, GoodLegal
<1>1. ~Specialized(g) /\ g.records = {}
  BY <1>0 DEF Specialized, Orderly, Tidy
<1>2. a.known = a.content
  BY <1>0 DEF Agreed, Current
<1>3. \A k \in W : Overlay(a.content, q.call)[k] \in q.bufs
  BY <1>0 DEF UpdateOK
<1>4. \A k \in W : Overlay(a.known, q.call)[k] # None =>
        Overlay(g.value, q.call)[k] = Overlay(a.known, q.call)[k]
  BY ShadowGives
<1>5. \A k \in W : Overlay(g.value, q.call)[k] = Overlay(a.content, q.call)[k]
  BY <1>0, <1>2, <1>3, <1>4, GuestAssumption DEF GuestAssumption
<1>6. /\ x \in GuestType /\ x.value = Overlay(g.value, q.call)
      /\ x.stage = g.stage /\ x.failed = g.failed /\ x.sets = g.sets /\ x.binds = g.binds
      /\ x.executable = g.executable /\ x.active = g.active /\ x.early = g.early
      /\ x.records = {}
  BY <1>0, <1>1, CommitIs
<1>7. \A k \in Slots : k \notin W => x.value[k] = g.value[k]
  BY <1>0, <1>6, OverlayIs DEF GuestType
<1>8. /\ q \in UpdateType /\ n \in CallType /\ n.op = "update" /\ n.at = "rpc"
      /\ n.call = q.call /\ n.sets = q.sets /\ n.bufs = q.bufs
  <2>1. q \in UpdateType
    BY <1>0, CallTypes
  <2>2. n \in UpdateType /\ n.op = "update" /\ n.at = "rpc"
        /\ n.call = q.call /\ n.sets = q.sets /\ n.bufs = q.bufs
    BY <2>1 DEF UpdateType
  <2> QED BY <2>1, <2>2 DEF CallType
<1>9. /\ z \in [Threads -> CallType] /\ z[t] = n /\ \A u \in Threads : u # t => z[u] = p[u]
  BY <1>0, <1>8
<1>21. z = [p EXCEPT ![t].at = "rpc"]
  BY <1>0
<1> HIDE DEF x, n
<1>13. Apart(z)
  <2>1. Room(p, t, n)
    BY <1>0, <1>8 DEF Agreed, Apart, Room
  <2> QED BY <1>0, <2>1, ApartReplaced DEF Agreed
<1> HIDE DEF z
<1>10. Shadowed(g, x, q.call, q.bufs)
  <2>1. \A k \in Slots : x.value[k] = g.value[k] \/ x.value[k] \in q.bufs
    BY <1>3, <1>5, <1>6, <1>7
  <2> QED BY <1>6, <1>7, <2>1 DEF Shadowed
<1>11. Elsewhere(a, a, q.call) /\ Reworked(h, h, q.call)
  <2>1. h.faults \in Nat
    BY <1>0 DEF HostType
  <2> QED BY <1>0, <2>1 DEF Elsewhere, Reworked
<1>12. ASSUME NEW u \in Threads PROVE CallOK(x, h, a, z[u])
  <2>1. CASE u = t
    <3>1. UpdateOK(x, a, n)
      BY <1>0, <1>4, <1>6, <1>8 DEF UpdateOK
    <3> QED BY <1>8, <1>9, <2>1, <3>1 DEF CallOK
  <2>2. CASE u # t
    <3>1. CallOK(x, h, a, p[u])
      BY <1>6, <1>10, <1>11, <2>2, UpdateApart
    <3> QED BY <1>9, <2>2, <3>1
  <2> QED BY <2>1, <2>2
<1>14. Shadows(x, a, z)
  <2>1. ASSUME NEW k \in Slots, a.known[k] # None, ~Rewritten(z, k) PROVE x.value[k] = a.known[k]
    <3>1. k \notin W
      BY <1>8, <1>9, <2>1 DEF Rewritten
    <3>2. ~Rewritten(p, k)
      BY <1>8, <1>9, <2>1 DEF Rewritten
    <3> QED BY <1>0, <1>7, <2>1, <3>1, <3>2 DEF Agreed, Shadows
  <2> QED BY <2>1 DEF Shadows
<1>15. Handles(x, h, a) /\ Current(x, a) /\ Gated(x, z) /\ Legal(a)
  BY <1>0, <1>2, <1>6 DEF Agreed, Handles, Current, Gated
<1>16. ASSUME Clean(h, a) PROVE Living(x, h, z)
  <2>1. Living(g, h, p)
    BY <1>0, <1>16 DEF Agreed
  <2>2. \A s : Freeing(p, s) => Freeing(z, s)
    BY <1>9 DEF Freeing
  <2>3. q.bufs \subseteq h.buffers /\ \A k \in W : SetOf[k] \in h.sets
    <3>1. a.buffers \subseteq h.buffers /\ a.sets \subseteq h.sets
      BY <1>0 DEF Agreed, Handles
    <3>2. \A k \in W : SetOf[k] \in a.sets
      BY <1>0 DEF UpdateOK, SetsOfSlots
    <3> QED BY <1>0, <3>1, <3>2
  <2>4. ASSUME NEW k \in Slots, x.value[k] # None
        PROVE  x.value[k] \in h.buffers /\ (SetOf[k] \in h.sets \/ Freeing(z, SetOf[k]))
    <3>1. CASE k \in W
      BY <1>3, <1>5, <1>6, <2>3, <3>1
    <3>2. CASE k \notin W
      BY <1>7, <2>1, <2>2, <2>4, <3>2 DEF Living
    <3> QED BY <3>1, <3>2
  <2>5. ~x.failed /\ Mapped(h, x.records)
    BY <1>6 DEF Mapped
  <2> QED BY <2>4, <2>5 DEF Living
<1>17. Agreed(x, h, a, z)
  BY <1>0, <1>9, <1>12, <1>13, <1>14, <1>15, <1>16 DEF Agreed, Typed
<1>18. Orderly(x) /\ Settled(x)
  <2>1. Tidy(x)
    BY <1>0, <1>6 DEF Orderly, Tidy
  <2>2. Routes(x)
    BY <1>0, <1>6 DEF Orderly, Routes, Specialized, RoutedKinds
  <2> QED BY <1>6, <2>1, <2>2 DEF Orderly, Settled
<1>19. Holds(x, h, a)
  BY <1>0, <1>1, <1>6 DEF Holds, Owed
<1>20. Good(x, h, a, z)
  BY <1>17, <1>18, <1>19 DEF Good
<1> QED BY <1>21, <1>18, <1>20 DEF x
-----------------------------------------------------------------------------
(* The actions of an update *)

\* The drain of an early route keeps the device in agreement.
LEMMA DrainGood ==
  ASSUME NEW g, NEW h, NEW a, NEW p, Good(g, h, a, p), Settled(g),
         NEW o \in DrainEarlyRoute(g, h)
  PROVE  /\ Good(o.g, o.h, a, p) /\ Settled(o.g) /\ o.ok \in BOOLEAN
         /\ Move(g, h, o.g, o.h, a)
         /\ o.ok => o.g.early = NoEarly
         /\ ~o.ok => o.g.failed /\ ~Clean(o.h, a)
BY GoodSteady, DrainMoves, GoodMoves

\* A lifecycle call is reserved, and an early route drained, while no submission
\* holds the gate.
LEMMA Reserves ==
  ASSUME NEW g, NEW h, NEW a, NEW p, Good(g, h, a, p), Settled(g),
         NEW t \in Threads, p[t] = Idle, g.active.kind = "none",
         NEW q \in CallType, CallOK(g, h, a, q), Room(p, t, q),
         NEW o \in DrainEarlyRoute(g, h)
  PROVE  Good(o.g, o.h, a, [p EXCEPT ![t] = q]) /\ Settled(o.g)
<1>1. ~(p[t].op = "update" /\ p[t].at = "rpc") /\ ~(p[t].op = "free" /\ p[t].at = "hook")
  BY DEF Idle
<1>2. Gated(g, [p EXCEPT ![t] = q])
  BY DEF Gated
<1> DEFINE z == [p EXCEPT ![t] = q]
<1>3. Good(g, h, a, z)
  BY <1>1, <1>2, Replaced
<1> HIDE DEF z
<1>4. Good(o.g, o.h, a, z) /\ Settled(o.g)
  BY <1>3, DrainGood
<1> QED BY <1>4 DEF z

\* What the application may write: Sensible, of a.
Prudent(a, call) ==
  \A i \in DOMAIN call :
    /\ SetOf[call[i].dst] \in a.sets
    /\ IF call[i].src \in Slots
       THEN /\ SetOf[call[i].src] \in a.sets
            /\ Staged(a.content, call)[i - 1][call[i].src] # None
       ELSE call[i].src \in a.buffers

\* It leaves buffers behind that the application holds.
LEMMA PrudentOverlay ==
  ASSUME NEW a \in AppType, Legal(a), NEW call \in Calls, Prudent(a, call)
  PROVE  \A k \in Written(call) : Overlay(a.content, call)[k] \in a.buffers
<1> DEFINE v == a.content
           B == a.buffers
           S(i) == Staged(v, call)[i]
           T == {i \in 0 .. Len(call) :
                   \A k \in Slots : /\ S(i)[k] # None => S(i)[k] \in B
                                    /\ (\E j \in 1 .. i : call[j].dst = k) => S(i)[k] # None}
<1>0. /\ Len(call) \in Nat /\ DOMAIN call = 1 .. Len(call) /\ v \in [Slots -> Values]
      /\ B \subseteq Buffers /\ Len(call) \in 0 .. Len(call)
  BY CallFacts DEF AppType
<1>1. 0 \in T
  BY <1>0, StagedIs DEF Legal
<1>2. ASSUME NEW i \in 1 .. Len(call), i - 1 \in T PROVE i \in T
  <2> DEFINE u == S(i - 1)
             m == call[i]
  <2>1. u \in [Slots -> Values]
    BY <1>0, StagedType
  <2>2. /\ \A k \in Slots : u[k] # None => u[k] \in B
        /\ \A k \in Slots : (\E j \in 1 .. i - 1 : call[j].dst = k) => u[k] # None
    BY <1>2
  <2>3. S(i) = Changed(u, m)
    BY <1>0, StagedIs
  <2>4. m.dst \in Slots /\ (m.src \in Slots => u[m.src] # None) /\ (m.src \notin Slots => m.src \in B)
    BY <1>0, CallFacts DEF Prudent
  <2>5. i \in 0 .. Len(call) /\ i \in Nat
    BY <1>0
  <2> HIDE DEF u
  <2>6. ASSUME NEW k \in Slots
        PROVE  /\ Changed(u, m)[k] # None => Changed(u, m)[k] \in B
               /\ (\E j \in 1 .. i : call[j].dst = k) => Changed(u, m)[k] # None
    <3>1. CASE k = m.dst
      <4>1. Changed(u, m)[k] = IF m.src \in Slots THEN u[m.src] ELSE m.src
        BY <2>1, <2>4, <3>1 DEF Changed
      <4> QED BY <1>0, <2>2, <2>4, <4>1, GuestAssumption DEF GuestAssumption
    <3>2. CASE k # m.dst
      <4>1. Changed(u, m)[k] = u[k]
        BY <2>1, <2>4, <3>2 DEF Changed
      <4>2. ASSUME NEW j \in 1 .. i, call[j].dst = k PROVE j \in 1 .. i - 1
        BY <2>5, <3>2, <4>2
      <4> QED BY <2>2, <4>1, <4>2
    <3> QED BY <3>1, <3>2
  <2> HIDE DEF m
  <2> QED BY <2>3, <2>5, <2>6
<1> HIDE DEF T
<1>3. Len(call) \in T
  BY <1>0, <1>1, <1>2, Climbs
<1>4. \A k \in Slots : /\ S(Len(call))[k] # None => S(Len(call))[k] \in B
                       /\ (\E j \in 1 .. Len(call) : call[j].dst = k) => S(Len(call))[k] # None
  BY <1>3 DEF T
<1>5. \A k \in Written(call) : k \in Slots /\ \E j \in 1 .. Len(call) : call[j].dst = k
  BY <1>0, CallFacts DEF Written
<1> QED BY <1>4, <1>5 DEF Overlay

\* An update begins.
LEMMA StartUpdateStep ==
  ASSUME IInv, NEW t \in Threads, NEW call \in Calls, StartUpdate(t, call)
  PROVE  IInv'
<1> DEFINE S == SetsOfSlots(Written(call) \cup Copied(call))
           B == {Overlay(app.content, call)[k] : k \in Written(call)}
           q == [op |-> "update", at |-> "hook", call |-> call, sets |-> S, bufs |-> B]
<1>0. /\ Good(guest, host, app, pc) /\ Settled(guest)
      /\ app \in AppType /\ Legal(app) /\ pc \in [Threads -> CallType]
      /\ Agreed(guest, host, app, pc)
  BY GoodLegal DEF IInv, Good
<1>1. Prudent(app, call)
  BY DEF StartUpdate, Sensible, Prudent
<1>2. B \subseteq app.buffers /\ app.buffers \subseteq Buffers
  BY <1>0, <1>1, PrudentOverlay DEF AppType
<1>3. S \subseteq app.sets /\ app.sets \subseteq Sets
  BY <1>0, <1>1 DEF Prudent, SetsOfSlots, Written, Copied, AppType
<1>4. \A k \in Written(call) : Overlay(app.content, call)[k] \in B
  OBVIOUS
<1> HIDE DEF B
<1>5. q \in UpdateType /\ q.op = "update" /\ q.at = "hook" /\ q.call = call
      /\ q.sets = S /\ q.bufs = B
  <2> HIDE DEF S
  <2> QED BY <1>2, <1>3 DEF UpdateType, Values
<1>6. pc[t] = Idle /\ guest.active.kind = "none"
      /\ \A u \in Threads : pc[u].sets \cap S = {}
  BY DEF StartUpdate, Reserve, NotUsed
<1>7. PICK o \in DrainEarlyRoute(guest, host) : guest' = o.g /\ host' = o.h
  BY DEF StartUpdate, Reserve
<1>8. pc' = [pc EXCEPT ![t] = q] /\ app' = app
  BY DEF StartUpdate, Reserve, B
<1> HIDE DEF q
<1>9. CallOK(guest, host, app, q)
  <2>1. UpdateOK(guest, app, q)
    BY <1>2, <1>3, <1>4, <1>5 DEF UpdateOK
  <2> QED BY <1>5, <2>1 DEF CallOK
<1> HIDE DEF S
<1>10. Room(pc, t, q)
  <2>1. ASSUME NEW u \in Threads, pc[u].op = "destroy" PROVE pc[u].buf \notin q.bufs
    BY <1>0, <1>2, <1>5, <2>1 DEF Agreed, CallOK, DestroyOK
  <2> QED BY <1>5, <1>6, <2>1 DEF Room
<1>11. q \in CallType
  BY <1>5 DEF CallType
<1>12. Good(o.g, o.h, app, [pc EXCEPT ![t] = q]) /\ Settled(o.g)
  BY <1>0, <1>6, <1>9, <1>10, <1>11, Reserves
<1> QED BY <1>7, <1>8, <1>12 DEF IInv


\* A device that failed, or is in Legacy, may come to owe less to the application.
LEMMA Forgets ==
  ASSUME NEW g, NEW h, NEW a, NEW p, Good(g, h, a, p), g.failed \/ g.stage = "Legacy",
         NEW b \in AppType, b.sets = a.sets, b.buffers = a.buffers, b.ready = a.ready,
         b.causes = a.causes, b.content = a.content,
         \A k \in Slots : b.known[k] = None \/ b.known[k] = a.known[k]
  PROVE  Good(g, h, b, p)
<1>0. /\ Orderly(g) /\ Holds(g, h, a) /\ Agreed(g, h, a, p)
      /\ a \in AppType /\ p \in [Threads -> CallType] /\ h \in HostType
  BY GoodLegal DEF Good
<1>1. Holds(g, h, b)
  BY <1>0 DEF Holds
<1>2. Shadows(g, b, p) /\ Legal(b) /\ Handles(g, h, b) /\ Current(g, b)
  BY <1>0 DEF Agreed, Shadows, Legal, Handles, Current
<1>3. ASSUME NEW t \in Threads PROVE CallOK(g, h, b, p[t])
  <2> DEFINE q == p[t]
  <2>0. q \in CallType /\ CallOK(g, h, a, q)
    BY <1>0 DEF Agreed
  <2> HIDE DEF q
  <2>1. CASE q.op = "update"
    <3>1. UpdateOK(g, a, q) /\ q.call \in Calls
      BY <2>0, <2>1, CallTypes DEF CallOK, UpdateType
    <3>2. \A k \in Slots : Overlay(b.known, q.call)[k] # None =>
            Overlay(a.known, q.call)[k] = Overlay(b.known, q.call)[k]
      <4>1. /\ a.known \in [Slots -> Values] /\ b.known \in [Slots -> Values]
            /\ Written(q.call) \cup Copied(q.call) \subseteq Slots
        BY <1>0, <3>1, CallFacts DEF AppType
      <4>2. \A k \in Slots : b.known[k] # None => a.known[k] = b.known[k]
        OBVIOUS
      <4> QED BY <3>1, <4>1, <4>2, OverlayAgrees
    <3>3. Written(q.call) \subseteq Slots
      BY <3>1, CallFacts
    <3>4. UpdateOK(g, b, q)
      BY <3>1, <3>2, <3>3 DEF UpdateOK
    <3> QED BY <2>1, <3>4 DEF CallOK, q
  <2>2. CASE q.op # "update"
    BY <2>0, <2>2 DEF CallOK, FreeOK, AllocateOK, DestroyOK, SubmitOK, q
  <2> QED BY <2>1, <2>2 DEF q
<1>4. Clean(h, b) => Living(g, h, p)
  BY <1>0 DEF Agreed, Clean
<1>5. Agreed(g, h, b, p)
  BY <1>0, <1>2, <1>3, <1>4 DEF Agreed, Typed
<1> QED BY <1>0, <1>1, <1>5 DEF Good

\* In Legacy an update goes on to its raw call.
LEMMA GoesRaw ==
  ASSUME NEW g, NEW h, NEW a, NEW p, Good(g, h, a, p), NEW t \in Threads,
         p[t].op = "update", p[t].at = "hook", g.stage = "Legacy"
  PROVE  Good(g, h, a, [p EXCEPT ![t].at = "rpc"])
<1> DEFINE q == p[t]
           n == [q EXCEPT !.at = "rpc"]
<1>0. /\ q \in CallType /\ UpdateOK(g, a, q) /\ g.active.kind = "none"
      /\ Agreed(g, h, a, p) /\ p \in [Threads -> CallType]
  BY UpdateFacts, GoodLegal
<1>1. /\ n \in CallType /\ n.op = "update" /\ n.at = "rpc"
      /\ n.call = q.call /\ n.sets = q.sets /\ n.bufs = q.bufs
  <2>1. q \in UpdateType
    BY <1>0, CallTypes
  <2>2. n \in UpdateType /\ n.op = "update" /\ n.at = "rpc"
        /\ n.call = q.call /\ n.sets = q.sets /\ n.bufs = q.bufs
    BY <2>1 DEF UpdateType
  <2> QED BY <2>2 DEF CallType
<1> DEFINE z == [p EXCEPT ![t] = n]
<1>2. z = [p EXCEPT ![t].at = "rpc"]
  BY <1>0
<1> HIDE DEF n
<1>3. UpdateOK(g, a, n)
  BY <1>0, <1>1 DEF UpdateOK
<1>4. CallOK(g, h, a, n)
  BY <1>1, <1>3 DEF CallOK
<1>5. Room(p, t, n)
  BY <1>0, <1>1 DEF Agreed, Apart, Room
<1>6. Gated(g, z)
  BY <1>0 DEF Gated
<1>7. Good(g, h, a, z)
  BY <1>1, <1>4, <1>5, <1>6, Replaced
<1> QED BY <1>2, <1>7

\* How the hook of an update leaves the device, by what it tells its caller.
HookEnds(g, h, a, p, t, call, o) ==
  /\ o.action \in {"legacy", "suppress", "fatal"} /\ Settled(o.g)
  /\ o.action = "legacy" => Good(o.g, o.h, a, [p EXCEPT ![t].at = "rpc"])
  /\ o.action = "suppress" => Good(o.g, o.h, AfterUpdate(a, call, TRUE), [p EXCEPT ![t] = Idle])
  /\ o.action = "fatal" => Good(o.g, o.h, AfterUpdate(a, call, FALSE), [p EXCEPT ![t] = Idle])

\* A host that stays as it is has been reworked by any call.
LEMMA SameHost ==
  ASSUME NEW h \in HostType, NEW call
  PROVE  Reworked(h, h, call)
<1>1. h.faults \in Nat
  BY DEF HostType
<1> QED BY <1>1 DEF Reworked

\* The fallback that a hook makes, and a device that failed before.
LEMMA HookFalls ==
  ASSUME NEW g, NEW h, NEW a, NEW p, Good(g, h, a, p), NEW t \in Threads,
         p[t].op = "update", p[t].at = "hook", Specialized(g),
         NEW r \in FallbackToLegacy(g, h),
         NEW o, o = [action |-> IF r.ok THEN "legacy" ELSE "fatal", g |-> r.g, h |-> r.h]
  PROVE  HookEnds(g, h, a, p, t, p[t].call, o)
<1>0. /\ p[t].call \in Calls /\ g.active.kind = "none" /\ a \in AppType /\ Legal(a)
  BY UpdateFacts, GoodLegal
<1>1. /\ r.ok \in BOOLEAN /\ Move(g, h, r.g, r.h, a)
      /\ r.ok => r.g.stage = "Legacy" /\ r.g.records = {}
      /\ ~r.ok => r.g.failed
  BY <1>0, GoodSteady, FallbackMoves
<1>2. Good(r.g, r.h, a, p)
  BY <1>1, GoodMoves
<1>3. o.action = (IF r.ok THEN "legacy" ELSE "fatal") /\ o.g = r.g /\ o.h = r.h
  OBVIOUS
<1>4. CASE r.ok
  <2>1. Good(r.g, r.h, a, [p EXCEPT ![t].at = "rpc"])
    BY <1>1, <1>2, <1>4, GoesRaw
  <2>2. Settled(r.g)
    BY <1>1, <1>4 DEF Settled
  <2> QED BY <1>3, <1>4, <2>1, <2>2 DEF HookEnds
<1>5. CASE ~r.ok
  <2> DEFINE b == AfterUpdate(a, p[t].call, FALSE)
  <2>1. Updated(a, b, p[t].call) /\ \A k \in Written(p[t].call) : b.known[k] = None
    BY <1>0, AfterUpdateIs
  <2>2. Reworked(r.h, r.h, p[t].call)
    BY <1>2, GoodLegal, SameHost
  <2> HIDE DEF b
  <2>3. Good(r.g, r.h, b, [p EXCEPT ![t] = Idle])
    BY <1>1, <1>2, <1>5, <2>1, <2>2, Refused
  <2>4. Settled(r.g)
    BY <1>1, <1>5 DEF Settled
  <2> QED BY <1>3, <1>5, <2>3, <2>4 DEF HookEnds, b
<1> QED BY <1>4, <1>5

\* The early route that an update suppressed in Fast may start.
LEMMA HookAdvances ==
  ASSUME NEW g, NEW h, NEW a, NEW p, Good(g, h, a, p), NEW t \in Threads,
         p[t].op = "update", p[t].at = "hook", Recording(g), Plannable(g, p[t].call),
         NEW r \in MaybeAdvance(Commit(g, p[t].call), h, g.learned),
         NEW o, o = [action |-> IF r.ok THEN "suppress" ELSE "fatal",
                     g |-> IF r.ok THEN r.g ELSE Failed(r.g), h |-> r.h]
  PROVE  HookEnds(g, h, a, p, t, p[t].call, o)
<1> DEFINE call == p[t].call
           x == Commit(g, call)
           b == AfterUpdate(a, call, TRUE)
           d == AfterUpdate(a, call, FALSE)
           z == [p EXCEPT ![t] = Idle]
<1>0. /\ call \in Calls /\ a \in AppType /\ Legal(a)
  BY UpdateFacts, GoodLegal
<1>1. /\ Updated(a, b, call) /\ b.known = Overlay(a.known, call)
      /\ Updated(a, d, call) /\ \A k \in Written(call) : d.known[k] = None
  BY <1>0, AfterUpdateIs
<1> HIDE DEF b, d
<1>2. Good(x, h, b, z) /\ Settled(x)
  BY <1>1, Suppressed
<1> HIDE DEF x, z
<1>3. /\ r.ok \in BOOLEAN /\ Move(x, h, r.g, r.h, b) /\ Settled(r.g)
      /\ ~r.ok => ~Clean(r.h, b)
  BY <1>2, GoodSteady, MaybeAdvanceMoves DEF x
<1>4. Good(r.g, r.h, b, z)
  BY <1>2, <1>3, GoodMoves
<1>5. /\ o.action = (IF r.ok THEN "suppress" ELSE "fatal") /\ o.h = r.h
      /\ o.g = IF r.ok THEN r.g ELSE Failed(r.g)
  OBVIOUS
<1>6. CASE r.ok
  BY <1>3, <1>4, <1>5, <1>6 DEF HookEnds, b, z
<1>7. CASE ~r.ok
  <2>1. Steady(r.g, r.h, b) /\ r.h \in HostType
    BY <1>4, GoodSteady DEF Steady
  <2>2. Move(r.g, r.h, Failed(r.g), r.h, b) /\ Failed(r.g).failed
    BY <1>3, <1>7, <2>1, KeptSame, FailedMoves
  <2>3. Good(Failed(r.g), r.h, b, z)
    BY <1>4, <2>2, GoodMoves
  <2>4. /\ d \in AppType /\ d.sets = b.sets /\ d.buffers = b.buffers /\ d.ready = b.ready
        /\ d.causes = b.causes /\ d.content = b.content
        /\ \A k \in Slots : d.known[k] = None \/ d.known[k] = b.known[k]
    BY <1>1 DEF Updated, Elsewhere
  <2>5. Good(Failed(r.g), r.h, d, z)
    BY <2>2, <2>3, <2>4, Forgets
  <2>6. Settled(Failed(r.g))
    BY <2>2 DEF Settled
  <2> QED BY <1>5, <1>7, <2>5, <2>6 DEF HookEnds, d, z
<1> QED BY <1>6, <1>7


\* Each way the hook of an update may end.
LEMMA HookGood ==
  ASSUME NEW g, NEW h, NEW a, NEW p, Good(g, h, a, p), Settled(g), NEW t \in Threads,
         p[t].op = "update", p[t].at = "hook", NEW o \in UpdateHook(g, h, p[t].call)
  PROVE  HookEnds(g, h, a, p, t, p[t].call, o)
<1> DEFINE call == p[t].call
           x == Commit(g, call)
           fallen(r) == [action |-> IF r.ok THEN "legacy" ELSE "fatal", g |-> r.g, h |-> r.h]
<1>0. /\ call \in Calls /\ UpdateOK(g, a, p[t]) /\ g.active.kind = "none"
      /\ a \in AppType /\ Legal(a) /\ h \in HostType /\ g \in GuestType
      /\ Orderly(g) /\ Holds(g, h, a) /\ Agreed(g, h, a, p)
      /\ Steady(g, h, a)
  BY UpdateFacts, GoodLegal, GoodSteady
<1>1. CASE g.failed /\ o = [action |-> "fatal", g |-> g, h |-> h]
  <2> DEFINE b == AfterUpdate(a, call, FALSE)
  <2>1. Updated(a, b, call) /\ \A k \in Written(call) : b.known[k] = None
    BY <1>0, AfterUpdateIs
  <2> HIDE DEF b
  <2>2. Good(g, h, b, [p EXCEPT ![t] = Idle])
    BY <1>0, <1>1, <2>1, SameHost, Refused
  <2>3. o.action = "fatal" /\ o.g = g /\ o.h = h
    BY <1>1
  <2> QED BY <2>2, <2>3 DEF HookEnds, b
<1>2. CASE Specialized(g) /\ \E r \in FallbackToLegacy(g, h) : o = fallen(r)
  BY <1>2, HookFalls
<1>3. CASE g.stage = "Legacy" /\ o = [action |-> "legacy", g |-> g, h |-> h]
  <2>1. Good(g, h, a, [p EXCEPT ![t].at = "rpc"])
    BY <1>3, GoesRaw
  <2>2. o.action = "legacy" /\ o.g = g /\ o.h = h
    BY <1>3
  <2> QED BY <2>1, <2>2 DEF HookEnds
<1>4. CASE g.stage = "Detect" /\ o = [action |-> "legacy", g |-> EnterLegacy(g), h |-> h]
  <2>1. \A k \in Slots : a.known[k] # None => h.content[k] = a.known[k]
    BY <1>0, <1>4 DEF Holds, Owed, Orderly, Tidy
  <2> DEFINE y == EnterLegacy(g)
  <2>2. Move(g, h, y, h, a) /\ y.stage = "Legacy" /\ y.records = {}
    BY <1>0, <2>1, KeptSame, LegacyMoves, EnterLegacyIs
  <2>3. o.action = "legacy" /\ o.g = y /\ o.h = h
    BY <1>4
  <2> HIDE DEF y
  <2>4. Good(y, h, a, p)
    BY <2>2, GoodMoves
  <2>5. Good(y, h, a, [p EXCEPT ![t].at = "rpc"])
    BY <2>2, <2>4, GoesRaw
  <2> QED BY <2>2, <2>3, <2>5 DEF HookEnds, Settled
<1>5. CASE g.stage = "Detect" /\ ~g.failed /\ o = [action |-> "legacy", g |-> x, h |-> h]
  <2>1. Good(x, h, a, [p EXCEPT ![t].at = "rpc"]) /\ Settled(x)
    BY <1>5, ShadowsAhead
  <2>2. o.action = "legacy" /\ o.g = x /\ o.h = h
    BY <1>5
  <2> QED BY <2>1, <2>2 DEF HookEnds
<1>6. CASE /\ Recording(g) /\ Plannable(g, call)
           /\ \E r \in MaybeAdvance(x, h, g.learned) :
                o = [action |-> IF r.ok THEN "suppress" ELSE "fatal",
                     g |-> IF r.ok THEN r.g ELSE Failed(r.g), h |-> r.h]
  BY <1>6, HookAdvances
<1>7. CASE Recording(g) /\ Plannable(g, call) /\ o = [action |-> "suppress", g |-> x, h |-> h]
  <2> DEFINE b == AfterUpdate(a, call, TRUE)
  <2>1. Updated(a, b, call) /\ b.known = Overlay(a.known, call)
    BY <1>0, AfterUpdateIs
  <2> HIDE DEF b
  <2>2. Good(x, h, b, [p EXCEPT ![t] = Idle]) /\ Settled(x)
    BY <1>7, <2>1, Suppressed
  <2>3. o.action = "suppress" /\ o.g = x /\ o.h = h
    BY <1>7
  <2> QED BY <2>2, <2>3 DEF HookEnds, b
<1>8. g.stage \in {"Detect", "Learn", "Match", "Fast", "Legacy"}
  BY <1>0 DEF GuestType, StageSet
<1>9. g.early # NoEarly => Specialized(g)
  BY <1>0 DEF Orderly, Routes, Specialized
<1>10. ~g.failed /\ g.early = NoEarly /\ Specialized(g) => Recording(g)
  BY <1>0 DEF Recording
<1> HIDE DEF x
<1>11. CASE g.failed
  <2>1. o = [action |-> "fatal", g |-> g, h |-> h]
    BY <1>11 DEF UpdateHook
  <2> QED BY <1>1, <1>11, <2>1
<1>12. CASE ~g.failed /\ g.early # NoEarly
  <2>1. \E r \in FallbackToLegacy(g, h) : o = fallen(r)
    BY <1>12 DEF UpdateHook
  <2> QED BY <1>2, <1>9, <1>12, <2>1
<1>13. CASE ~g.failed /\ g.early = NoEarly /\ g.stage = "Legacy"
  <2>1. o = [action |-> "legacy", g |-> g, h |-> h]
    BY <1>13 DEF UpdateHook
  <2> QED BY <1>3, <1>13, <2>1
<1>14. CASE ~g.failed /\ g.early = NoEarly /\ g.stage # "Legacy"
  <2>1. \/ o \in UpdateFailure(g, h)
        \/ Plannable(g, call) /\ g.stage = "Detect" /\ o = [action |-> "legacy", g |-> x, h |-> h]
        \/ /\ Plannable(g, call) /\ g.stage = "Fast"
           /\ \E r \in MaybeAdvance(x, h, g.learned) :
                o = [action |-> IF r.ok THEN "suppress" ELSE "fatal",
                     g |-> IF r.ok THEN r.g ELSE Failed(r.g), h |-> r.h]
        \/ /\ Plannable(g, call) /\ g.stage \notin {"Detect", "Fast"}
           /\ o = [action |-> "suppress", g |-> x, h |-> h]
    BY <1>14 DEF UpdateHook, x
  <2>2. CASE o \in UpdateFailure(g, h)
    <3>1. CASE Specialized(g)
      <4>1. \E r \in FallbackToLegacy(g, h) : o = fallen(r)
        BY <2>2, <3>1 DEF UpdateFailure
      <4> QED BY <1>2, <3>1, <4>1
    <3>2. CASE ~Specialized(g)
      <4>1. g.stage = "Detect" /\ o = [action |-> "legacy", g |-> EnterLegacy(g), h |-> h]
        BY <1>8, <1>14, <2>2, <3>2 DEF UpdateFailure, Specialized
      <4> QED BY <1>4, <4>1
    <3> QED BY <3>1, <3>2
  <2>3. CASE Plannable(g, call) /\ g.stage = "Detect" /\ o = [action |-> "legacy", g |-> x, h |-> h]
    BY <1>5, <1>14, <2>3
  <2>4. CASE /\ Plannable(g, call) /\ g.stage = "Fast"
             /\ \E r \in MaybeAdvance(x, h, g.learned) :
                  o = [action |-> IF r.ok THEN "suppress" ELSE "fatal",
                       g |-> IF r.ok THEN r.g ELSE Failed(r.g), h |-> r.h]
    <3>1. Recording(g)
      BY <1>10, <1>14, <2>4 DEF Specialized
    <3> QED BY <1>6, <2>4, <3>1
  <2>5. CASE /\ Plannable(g, call) /\ g.stage \notin {"Detect", "Fast"}
             /\ o = [action |-> "suppress", g |-> x, h |-> h]
    <3>1. Recording(g)
      BY <1>8, <1>10, <1>14, <2>5 DEF Specialized
    <3> QED BY <1>7, <2>5, <3>1
  <2> QED BY <2>1, <2>2, <2>3, <2>4, <2>5
<1> QED BY <1>11, <1>12, <1>13, <1>14

\* The action's assignment is that update of what the application counts on.
LEMMA ReturnedIs ==
  ASSUME NEW call, NEW ok \in BOOLEAN, Returned(call, ok)
  PROVE  app' = AfterUpdate(app, call, ok)
BY Zenon DEF Returned, AfterUpdate

\* The hook of an update.
LEMMA UpdateDescriptorSetsStep ==
  ASSUME IInv, NEW t \in Threads, UpdateDescriptorSets(t)
  PROVE  IInv'
<1>0. Good(guest, host, app, pc) /\ Settled(guest) /\ pc[t].op = "update" /\ pc[t].at = "hook"
  BY DEF IInv, UpdateDescriptorSets, At
<1>1. PICK o \in UpdateHook(guest, host, pc[t].call) :
        /\ guest' = o.g /\ host' = o.h
        /\ IF o.action = "legacy" THEN Goto(t, "rpc") /\ UNCHANGED app
           ELSE Return(t) /\ Returned(pc[t].call, o.action = "suppress")
  BY DEF UpdateDescriptorSets
<1>2. HookEnds(guest, host, app, pc, t, pc[t].call, o)
  BY <1>0, HookGood
<1>3. CASE o.action = "legacy"
  <2>1. pc' = [pc EXCEPT ![t].at = "rpc"] /\ app' = app
    BY <1>1, <1>3 DEF Goto
  <2>2. Good(o.g, o.h, app, [pc EXCEPT ![t].at = "rpc"]) /\ Settled(o.g)
    BY <1>2, <1>3 DEF HookEnds
  <2> QED BY <1>1, <2>1, <2>2 DEF IInv
<1>4. CASE o.action = "suppress"
  <2>1. pc' = [pc EXCEPT ![t] = Idle] /\ Returned(pc[t].call, TRUE)
    BY <1>1, <1>4 DEF Return
  <2>2. app' = AfterUpdate(app, pc[t].call, TRUE)
    BY <2>1, ReturnedIs
  <2>3. Good(o.g, o.h, AfterUpdate(app, pc[t].call, TRUE), [pc EXCEPT ![t] = Idle]) /\ Settled(o.g)
    BY <1>2, <1>4 DEF HookEnds
  <2> QED BY <1>1, <2>1, <2>2, <2>3 DEF IInv
<1>5. CASE o.action = "fatal"
  <2>1. pc' = [pc EXCEPT ![t] = Idle] /\ Returned(pc[t].call, FALSE)
    BY <1>1, <1>5 DEF Return
  <2>2. app' = AfterUpdate(app, pc[t].call, FALSE)
    BY <2>1, ReturnedIs
  <2>3. Good(o.g, o.h, AfterUpdate(app, pc[t].call, FALSE), [pc EXCEPT ![t] = Idle]) /\ Settled(o.g)
    BY <1>2, <1>5 DEF HookEnds
  <2> QED BY <1>1, <2>1, <2>2, <2>3 DEF IInv
<1> QED BY <1>2, <1>3, <1>4, <1>5 DEF HookEnds
-----------------------------------------------------------------------------
(* Raw calls *)

\* What a raw call does at the host.
LEMMA DoneIs ==
  ASSUME NEW h \in HostType, NEW q \in CallType, q.op \in Lifecycle
  PROVE  LET y == Done(h, q)
         IN  /\ y \in HostType /\ y.faults = h.faults
             /\ q.op = "update" =>
                  /\ y.content = Overlay(h.content, q.call) /\ y.sets = h.sets
                  /\ y.buffers = h.buffers
             /\ q.op = "free" =>
                  y.content = h.content /\ y.sets = h.sets \ {q.set} /\ y.buffers = h.buffers
             /\ q.op = "allocate" =>
                  /\ y.content = [k \in Slots |-> IF SetOf[k] = q.set THEN None ELSE h.content[k]]
                  /\ y.sets = h.sets \cup {q.set} /\ y.buffers = h.buffers
             /\ q.op = "destroy" =>
                  y.content = h.content /\ y.sets = h.sets /\ y.buffers = h.buffers \ {q.buf}
<1> DEFINE y == Done(h, q)
<1>1. CASE q.op = "update"
  <2> DEFINE c == Overlay(h.content, q.call)
  <2>1. c \in [Slots -> Values]
    BY <1>1, CallTypes, OverlayIs DEF UpdateType, HostType
  <2>2. y = [h EXCEPT !.content = c]
    BY <1>1 DEF Done
  <2> HIDE DEF c, y
  <2>4. /\ y \in HostType /\ y.faults = h.faults /\ y.content = c /\ y.sets = h.sets
        /\ y.buffers = h.buffers
    BY <2>1, <2>2 DEF HostType
  <2> QED BY <1>1, <2>4 DEF c, y
<1>2. CASE q.op = "free"
  <2>1. y = [h EXCEPT !.sets = h.sets \ {q.set}]
    BY <1>2 DEF Done
  <2> HIDE DEF y
  <2>3. /\ y \in HostType /\ y.faults = h.faults /\ y.content = h.content
        /\ y.sets = h.sets \ {q.set} /\ y.buffers = h.buffers
    BY <2>1 DEF HostType
  <2> QED BY <1>2, <2>3 DEF y
<1>3. CASE q.op = "allocate"
  <2> DEFINE c == [k \in Slots |-> IF SetOf[k] = q.set THEN None ELSE h.content[k]]
             s == h.sets \cup {q.set}
  <2>1. c \in [Slots -> Values] /\ s \in SUBSET Sets
    BY <1>3, CallTypes DEF AllocateType, HostType, Values
  <2>2. y = [h EXCEPT !.sets = s, !.content = c]
    BY <1>3 DEF Done
  <2> HIDE DEF c, s, y
  <2>4. /\ y \in HostType /\ y.faults = h.faults /\ y.content = c /\ y.sets = s
        /\ y.buffers = h.buffers
    BY <2>1, <2>2 DEF HostType
  <2> QED BY <1>3, <2>4 DEF c, s, y
<1>4. CASE q.op = "destroy"
  <2>1. y = [h EXCEPT !.buffers = h.buffers \ {q.buf}]
    BY <1>4 DEF Done
  <2> HIDE DEF y
  <2>3. /\ y \in HostType /\ y.faults = h.faults /\ y.content = h.content
        /\ y.sets = h.sets /\ y.buffers = h.buffers \ {q.buf}
    BY <2>1 DEF HostType
  <2> QED BY <1>4, <2>3 DEF y
<1> QED BY <1>1, <1>2, <1>3, <1>4 DEF Lifecycle

\* A host is what its parts are.
LEMMA HostSame ==
  ASSUME NEW x \in HostType, NEW y \in HostType, x.content = y.content, x.sets = y.sets,
         x.buffers = y.buffers, x.faults = y.faults
  PROVE  x = y
BY DEF HostType

\* The effect of a raw call does not depend on what went wrong before.
LEMMA DoneSame ==
  ASSUME NEW x \in HostType, NEW y \in HostType, x.content = y.content, x.sets = y.sets,
         x.buffers = y.buffers, NEW q, q.op \in Lifecycle
  PROVE  /\ Done(x, q).content = Done(y, q).content /\ Done(x, q).sets = Done(y, q).sets
         /\ Done(x, q).buffers = Done(y, q).buffers
<1>1. CASE q.op = "update"
  BY <1>1 DEF Done, HostType
<1>2. CASE q.op = "free"
  BY <1>2 DEF Done, HostType
<1>3. CASE q.op = "allocate"
  BY <1>3 DEF Done, HostType
<1>4. CASE q.op = "destroy"
  BY <1>4 DEF Done, HostType
<1> QED BY <1>1, <1>2, <1>3, <1>4 DEF Lifecycle

\* A way a drain may end: ok, the guest and the host.
Outcome(o) == o.ok \in BOOLEAN /\ o = [ok |-> o.ok, g |-> o.g, h |-> o.h]

\* The ways a drain may end are of this shape.
LEMMA DrainShape ==
  ASSUME NEW g, NEW h, NEW o \in DrainEarlyRoute(g, h)
  PROVE  Outcome(o)
<1>1. PICK x, y : o = [ok |-> TRUE, g |-> x, h |-> y] \/ o = [ok |-> FALSE, g |-> x, h |-> y]
  BY DEF DrainEarlyRoute, FallbackToLegacy
<1>2. ASSUME NEW b \in BOOLEAN, o = [ok |-> b, g |-> x, h |-> y] PROVE Outcome(o)
  <2>1. o.ok = b /\ o.g = x /\ o.h = y
    BY <1>2
  <2> QED BY <1>2, <2>1 DEF Outcome
<1> QED BY <1>1, <1>2

\* A raw call after the drain E: it took effect, it failed, or it went wrong.
RawOut(r, q, o) ==
  \/ ~r.ok /\ o.ok = FALSE /\ o.g = Failed(r.g) /\ o.h = r.h
  \/ r.ok /\ o.ok = TRUE /\ o.g = r.g /\ o.h = Done(r.h, q)
  \/ r.ok /\ o.ok = FALSE /\ o.g = Failed(r.g) /\ o.h \in Faulty({r.h, Done(r.h, q)})

\* A raw call after the drains E ends in one of these ways.
LEMMA RawWriteIs ==
  ASSUME NEW E, \A r \in E : Outcome(r),
         NEW q, NEW o \in RawWrite(q, E)
  PROVE  \E r \in E : RawOut(r, q, o)
<1> DEFINE outs(r) ==
       IF ~r.ok THEN {[r EXCEPT !.g = Failed(r.g)]}
       ELSE {[r EXCEPT !.h = Done(r.h, q)]} \cup
            {[ok |-> FALSE, g |-> Failed(r.g), h |-> x] : x \in Faulty({r.h, Done(r.h, q)})}
<1>1. PICK r \in E : o \in outs(r)
  BY DEF RawWrite
<1>2. r.ok \in BOOLEAN /\ r = [ok |-> r.ok, g |-> r.g, h |-> r.h]
  BY DEF Outcome
<1>3. CASE ~r.ok
  <2>1. o = [r EXCEPT !.g = Failed(r.g)]
    BY <1>1, <1>3
  <2>2. o = [ok |-> r.ok, g |-> Failed(r.g), h |-> r.h]
    BY <1>2, <2>1
  <2>3. o.ok = FALSE /\ o.g = Failed(r.g) /\ o.h = r.h
    BY <1>2, <1>3, <2>2
  <2> QED BY <1>3, <2>3 DEF RawOut
<1>4. CASE r.ok
  <2>1. \/ o = [r EXCEPT !.h = Done(r.h, q)]
        \/ \E x \in Faulty({r.h, Done(r.h, q)}) : o = [ok |-> FALSE, g |-> Failed(r.g), h |-> x]
    BY <1>1, <1>4
  <2>2. CASE o = [r EXCEPT !.h = Done(r.h, q)]
    <3>1. o = [ok |-> r.ok, g |-> r.g, h |-> Done(r.h, q)]
      BY <1>2, <2>2
    <3>2. o.ok = TRUE /\ o.g = r.g /\ o.h = Done(r.h, q)
      BY <1>2, <1>4, <3>1
    <3> QED BY <1>4, <3>2 DEF RawOut
  <2>3. ASSUME NEW x \in Faulty({r.h, Done(r.h, q)}), o = [ok |-> FALSE, g |-> Failed(r.g), h |-> x]
        PROVE  o.ok = FALSE /\ o.g = Failed(r.g) /\ o.h \in Faulty({r.h, Done(r.h, q)})
    BY <2>3
  <2> QED BY <1>4, <2>1, <2>2, <2>3 DEF RawOut
<1> QED BY <1>2, <1>3, <1>4

\* A device fails with the host it has when something went wrong there.
LEMMA Wronged ==
  ASSUME NEW g, NEW h, NEW a, NEW p, Good(g, h, a, p), NEW y, Kept(h, y, a), ~Clean(y, a)
  PROVE  Good(Failed(g), y, a, p) /\ Settled(Failed(g)) /\ Failed(g).failed
<1>1. Move(g, h, Failed(g), y, a) /\ Failed(g).failed
  BY GoodSteady, FailedMoves
<1> DEFINE x == Failed(g)
<1>2. Move(g, h, x, y, a) /\ x.failed
  BY <1>1
<1> HIDE DEF x
<1>3. Good(x, y, a, p)
  BY <1>2, GoodMoves
<1>4. Settled(x)
  BY <1>2 DEF Settled
<1> QED BY <1>2, <1>3, <1>4 DEF x

\* So a raw call ends with the call's effect on a host y that the device was good
\* with, or the device failed, and the effect may be there or not.
RawEnds(a, p, q, o) == \E y :
  /\ Good(o.g, y, a, p) /\ Settled(o.g) /\ o.ok \in BOOLEAN
  /\ o.ok => o.h = Done(y, q)
  /\ ~o.ok => o.g.failed /\ o.h \in {y, Done(y, q)}

\* It does, if each of the drains E kept the device in agreement.
LEMMA RawWriteGood ==
  ASSUME NEW a, NEW p, NEW q \in CallType, q.op \in Lifecycle, NEW E,
         \A r \in E : /\ Outcome(r)
                      /\ Good(r.g, r.h, a, p) /\ Settled(r.g)
                      /\ ~r.ok => ~Clean(r.h, a),
         NEW o \in RawWrite(q, E)
  PROVE  RawEnds(a, p, q, o)
<1>1. PICK r \in E : RawOut(r, q, o)
  <2>1. \A r \in E : Outcome(r)
    OBVIOUS
  <2> QED BY <2>1, RawWriteIs
<1>2. Good(r.g, r.h, a, p) /\ Settled(r.g) /\ (~r.ok => ~Clean(r.h, a))
  OBVIOUS
<1>3. r.h \in HostType /\ r.h.faults \in Nat
  BY <1>2, GoodLegal DEF HostType
<1>4. CASE ~r.ok /\ o.ok = FALSE /\ o.g = Failed(r.g) /\ o.h = r.h
  <2>1. Good(o.g, r.h, a, p) /\ Settled(o.g) /\ o.g.failed
    BY <1>2, <1>3, <1>4, KeptSame, Wronged
  <2> QED BY <1>4, <2>1 DEF RawEnds
<1>5. CASE r.ok /\ o.ok = TRUE /\ o.g = r.g /\ o.h = Done(r.h, q)
  BY <1>2, <1>5 DEF RawEnds
<1>6. CASE r.ok /\ o.ok = FALSE /\ o.g = Failed(r.g) /\ o.h \in Faulty({r.h, Done(r.h, q)})
  <2> DEFINE n == r.h.faults + 1
             y == [r.h EXCEPT !.faults = n]
  <2>0. n \in Nat /\ n > r.h.faults /\ n > 0
    BY <1>3
  <2> HIDE DEF n
  <2>1. y \in HostType /\ y.faults = n /\ y.content = r.h.content /\ y.sets = r.h.sets
        /\ y.buffers = r.h.buffers
    BY <1>3, <2>0 DEF HostType
  <2> HIDE DEF y
  <2>2. [Done(r.h, q) EXCEPT !.faults = n] = Done(y, q)
    <3> DEFINE w == Done(r.h, q)
               v == Done(y, q)
               z == [w EXCEPT !.faults = n]
    <3>1. w \in HostType /\ v \in HostType /\ v.faults = n
      BY <1>3, <2>1, DoneIs
    <3>2. v.content = w.content /\ v.sets = w.sets /\ v.buffers = w.buffers
      BY <1>3, <2>1, DoneSame
    <3> HIDE DEF w, v
    <3>3. z \in HostType /\ z.content = w.content /\ z.sets = w.sets /\ z.buffers = w.buffers
          /\ z.faults = n
      BY <2>0, <3>1 DEF HostType
    <3> HIDE DEF z
    <3>4. z = v
      BY <3>1, <3>2, <3>3, HostSame
    <3> QED BY <3>4 DEF z, w, v
  <2>3. o.h = y \/ o.h = Done(y, q)
    <3>1. PICK z \in {r.h, Done(r.h, q)} : o.h = [z EXCEPT !.faults = @ + 1]
      BY <1>6 DEF Faulty
    <3>2. CASE z = r.h
      BY <3>1, <3>2 DEF n, y
    <3>3. CASE z = Done(r.h, q)
      <4>1. Done(r.h, q).faults = r.h.faults
        BY <1>3, DoneIs
      <4>2. o.h = [Done(r.h, q) EXCEPT !.faults = Done(r.h, q).faults + 1]
        BY <3>1, <3>3
      <4>3. o.h = [Done(r.h, q) EXCEPT !.faults = n]
        BY <4>1, <4>2 DEF n
      <4> QED BY <2>2, <4>3
    <3> QED BY <3>1, <3>2, <3>3
  <2>4. Kept(r.h, y, a) /\ ~Clean(y, a)
    BY <1>3, <2>0, <2>1 DEF Kept, Clean
  <2>5. Good(o.g, y, a, p) /\ Settled(o.g) /\ o.g.failed
    BY <1>2, <1>6, <2>4, Wronged
  <2> QED BY <1>6, <2>3, <2>5 DEF RawEnds
<1> QED BY <1>1, <1>4, <1>5, <1>6 DEF RawOut

\* Through the drain of the early route, or without one.
LEMMA DrainedRaw ==
  ASSUME NEW g, NEW h, NEW a, NEW p, Good(g, h, a, p), Settled(g), NEW t \in Threads,
         p[t].op \in Lifecycle,
         NEW o, \/ o \in RawWrite(p[t], DrainEarlyRoute(g, h))
                \/ o \in RawWrite(p[t], {[ok |-> TRUE, g |-> g, h |-> h]})
  PROVE  RawEnds(a, p, p[t], o)
<1>1. p[t] \in CallType
  BY GoodLegal
<1>2. ASSUME NEW r \in DrainEarlyRoute(g, h)
      PROVE  /\ Outcome(r)
             /\ Good(r.g, r.h, a, p) /\ Settled(r.g)
             /\ ~r.ok => ~Clean(r.h, a)
  BY DrainShape, DrainGood
<1>3. CASE o \in RawWrite(p[t], DrainEarlyRoute(g, h))
  <2> DEFINE E == DrainEarlyRoute(g, h)
  <2>1. \A r \in E : /\ Outcome(r)
                     /\ Good(r.g, r.h, a, p) /\ Settled(r.g)
                     /\ ~r.ok => ~Clean(r.h, a)
    BY <1>2
  <2> HIDE DEF E
  <2> QED BY <1>1, <1>3, <2>1, RawWriteGood DEF E
<1>4. CASE o \in RawWrite(p[t], {[ok |-> TRUE, g |-> g, h |-> h]})
  <2> DEFINE E == {[ok |-> TRUE, g |-> g, h |-> h]}
  <2>1. \A r \in E : /\ Outcome(r)
                     /\ Good(r.g, r.h, a, p) /\ Settled(r.g)
                     /\ ~r.ok => ~Clean(r.h, a)
    <3>1. ASSUME NEW r \in E PROVE Outcome(r) /\ r.ok = TRUE /\ r.g = g /\ r.h = h
      <4>1. r = [ok |-> TRUE, g |-> g, h |-> h]
        OBVIOUS
      <4> QED BY <4>1 DEF Outcome
    <3> HIDE DEF E
    <3> QED BY <3>1
  <2> HIDE DEF E
  <2> QED BY <1>1, <1>4, <2>1, RawWriteGood DEF E
<1> QED BY <1>3, <1>4

\* The raw call of an update.
LEMMA UpdateRpcStep ==
  ASSUME IInv, NEW t \in Threads, UpdateRpc(t)
  PROVE  IInv'
<1>0. Good(guest, host, app, pc) /\ Settled(guest) /\ pc[t].op = "update" /\ pc[t].at = "rpc"
      /\ pc' = [pc EXCEPT ![t] = Idle]
  BY DEF IInv, UpdateRpc, At, Return
<1>1. PICK o \in RawWrite(pc[t], DrainEarlyRoute(guest, host)) :
        guest' = o.g /\ host' = o.h /\ Returned(pc[t].call, o.ok)
  BY DEF UpdateRpc
<1>2. RawEnds(app, pc, pc[t], o)
  BY <1>0, <1>1, DrainedRaw DEF Lifecycle
<1>3. PICK y : /\ Good(o.g, y, app, pc) /\ Settled(o.g) /\ o.ok \in BOOLEAN
               /\ o.ok => o.h = Done(y, pc[t])
               /\ ~o.ok => o.g.failed /\ o.h \in {y, Done(y, pc[t])}
  BY <1>2 DEF RawEnds
<1> DEFINE q == pc[t]
           b == AfterUpdate(app, q.call, o.ok)
<1>4. app' = b
  BY <1>1, <1>3, ReturnedIs
<1>5. /\ q \in CallType /\ q.call \in Calls /\ y \in HostType /\ app \in AppType /\ Legal(app)
  BY <1>0, <1>3, UpdateFacts, GoodLegal
<1>6. /\ Updated(app, b, q.call)
      /\ o.ok => b.known = Overlay(app.known, q.call)
      /\ ~o.ok => \A k \in Written(q.call) : b.known[k] = None
  BY <1>3, <1>5, AfterUpdateIs
<1> HIDE DEF b
<1> DEFINE z == Done(y, q)
<1>7. z \in HostType /\ z.faults = y.faults /\ z.content = Overlay(y.content, q.call)
      /\ z.sets = y.sets /\ z.buffers = y.buffers
  BY <1>0, <1>5, DoneIs DEF Lifecycle
<1>8. o.ok => o.h = z
  BY <1>3
<1>9. ~o.ok => o.g.failed /\ o.h \in {y, z}
  BY <1>3
<1> HIDE DEF z
<1>10. Reworked(y, z, q.call) /\ Reworked(y, y, q.call)
  <2>1. y.faults \in Nat /\ y.content \in [Slots -> Values]
    BY <1>5 DEF HostType
  <2>2. \A k \in Slots : k \notin Written(q.call) => z.content[k] = y.content[k]
    BY <1>5, <1>7, <2>1, OverlayIs
  <2> QED BY <1>5, <1>7, <2>1, <2>2 DEF Reworked
<1>11. Good(o.g, o.h, b, [pc EXCEPT ![t] = Idle])
  <2>1. CASE o.ok
    BY <1>0, <1>3, <1>6, <1>7, <1>8, <1>10, <2>1, Delivered
  <2>2. CASE ~o.ok
    BY <1>0, <1>3, <1>6, <1>9, <1>10, <2>2, Refused
  <2> QED BY <2>1, <2>2
<1> QED BY <1>0, <1>1, <1>3, <1>4, <1>11 DEF IInv
-----------------------------------------------------------------------------
(* The actions of the other lifecycle calls *)

\* The application may give up what no call under way refers to.
LEMMA GivesUp ==
  ASSUME NEW g, NEW h, NEW a, NEW p, Good(g, h, a, p),
         NEW b \in AppType, b.sets \subseteq a.sets, b.buffers \subseteq a.buffers,
         b.ready \subseteq a.ready, b.causes = a.causes, Legal(b),
         \A k \in Slots : b.known[k] = None \/ b.known[k] = a.known[k],
         a.known = a.content => b.known = b.content,
         \A c \in b.ready : g.binds[c] \subseteq b.sets,
         \A u \in Threads : p[u].op = "update" =>
           /\ p[u].sets \subseteq b.sets /\ p[u].bufs \subseteq b.buffers
           /\ \A k \in Written(p[u].call) : Overlay(b.content, p[u].call)[k] \in p[u].bufs,
         \A u \in Threads : p[u].op = "submit" => p[u].bufs \subseteq b.buffers \cup {None}
  PROVE  Good(g, h, b, p)
<1>0. /\ Orderly(g) /\ Holds(g, h, a) /\ Agreed(g, h, a, p)
      /\ a \in AppType /\ p \in [Threads -> CallType] /\ h \in HostType
  BY GoodLegal DEF Good
<1>1. Holds(g, h, b)
  BY <1>0 DEF Holds
<1>2. Shadows(g, b, p) /\ Handles(g, h, b) /\ Current(g, b)
  BY <1>0 DEF Agreed, Shadows, Handles, Current
<1>3. ASSUME NEW u \in Threads PROVE CallOK(g, h, b, p[u])
  <2> DEFINE q == p[u]
  <2>0. q \in CallType /\ CallOK(g, h, a, q)
    BY <1>0 DEF Agreed
  <2>1. CASE q.op = "update"
    <3>1. UpdateOK(g, a, q) /\ q.call \in Calls
      BY <2>0, <2>1, CallTypes DEF CallOK, UpdateType
    <3>2. \A k \in Slots : Overlay(b.known, q.call)[k] # None =>
            Overlay(a.known, q.call)[k] = Overlay(b.known, q.call)[k]
      <4>1. /\ a.known \in [Slots -> Values] /\ b.known \in [Slots -> Values]
            /\ Written(q.call) \cup Copied(q.call) \subseteq Slots
        BY <1>0, <3>1, CallFacts DEF AppType
      <4>2. \A k \in Slots : b.known[k] # None => a.known[k] = b.known[k]
        OBVIOUS
      <4> QED BY <3>1, <4>1, <4>2, OverlayAgrees
    <3>3. Written(q.call) \subseteq Slots
      BY <3>1, CallFacts
    <3>4. /\ q.sets \subseteq b.sets /\ q.bufs \subseteq b.buffers
          /\ \A k \in Written(q.call) : Overlay(b.content, q.call)[k] \in q.bufs
      BY <2>1
    <3>5. UpdateOK(g, b, q)
      BY <3>1, <3>2, <3>3, <3>4 DEF UpdateOK
    <3> QED BY <2>1, <3>5 DEF CallOK
  <2>2. CASE q.op = "free"
    BY <2>0, <2>2 DEF CallOK, FreeOK
  <2>3. CASE q.op = "allocate"
    BY <2>0, <2>3 DEF CallOK, AllocateOK
  <2>4. CASE q.op = "destroy"
    BY <2>0, <2>4 DEF CallOK, DestroyOK
  <2>5. CASE q.op = "submit"
    BY <2>0, <2>5 DEF CallOK, SubmitOK
  <2>6. CASE q.op \notin {"update", "free", "allocate", "destroy", "submit"}
    BY <2>6 DEF CallOK
  <2> QED BY <2>1, <2>2, <2>3, <2>4, <2>5, <2>6
<1>4. Clean(h, b) => Living(g, h, p)
  BY <1>0 DEF Agreed, Clean
<1>5. Agreed(g, h, b, p)
  BY <1>0, <1>2, <1>3, <1>4 DEF Agreed, Typed
<1> QED BY <1>0, <1>1, <1>5 DEF Good

\* What a call under way has in the invariant.
LEMMA CallGood ==
  ASSUME NEW g, NEW h, NEW a, NEW p, Good(g, h, a, p), NEW t \in Threads
  PROVE  /\ p[t] \in CallType /\ CallOK(g, h, a, p[t]) /\ Apart(p)
         /\ Agreed(g, h, a, p) /\ Orderly(g) /\ Holds(g, h, a)
BY DEF Good, Agreed, Typed

\* The application gives up a set ...
LEMMA StartFreeStep ==
  ASSUME IInv, NEW t \in Threads, NEW s \in Sets, StartFree(t, s)
  PROVE  IInv'
<1> DEFINE q == [op |-> "free", at |-> "prepare", set |-> s, sets |-> {s}, bufs |-> {}]
           D == {k \in Slots : SetOf[k] # s}
           new == Without(app.content, {s})
           got == Without(app.known, {s})
           R == {c \in app.ready : s \notin guest.binds[c]}
           b == [app EXCEPT !.sets = app.sets \ {s}, !.content = new, !.known = got, !.ready = R]
<1>0. /\ Good(guest, host, app, pc) /\ Settled(guest) /\ Agreed(guest, host, app, pc)
      /\ app \in AppType /\ Legal(app) /\ pc \in [Threads -> CallType]
  BY GoodLegal DEF IInv, Good
<1>1. /\ pc[t] = Idle /\ guest.active.kind = "none" /\ s \in app.sets
      /\ \A u \in Threads : pc[u].sets \cap {s} = {}
  BY DEF StartFree, Reserve, NotUsed
<1>2. PICK o \in DrainEarlyRoute(guest, host) : guest' = o.g /\ host' = o.h
  BY DEF StartFree, Reserve
<1>3. pc' = [pc EXCEPT ![t] = q] /\ app' = b
  BY Zenon DEF StartFree, Reserve
<1>4. /\ new \in [Slots -> Values] /\ got \in [Slots -> Values]
      /\ \A k \in D : new[k] = app.content[k] /\ got[k] = app.known[k]
      /\ \A k \in Slots \ D : new[k] = None /\ got[k] = None
  BY <1>0 DEF Without, AppType, Values
<1>5. app.known = app.content => got = new
  BY DEF Without
<1> HIDE DEF new, got, q, R
<1>6. R \subseteq app.ready /\ \A c \in R : s \notin guest.binds[c]
  BY DEF R
<1>7. /\ b \in AppType /\ b.sets = app.sets \ {s} /\ b.buffers = app.buffers
      /\ b.content = new /\ b.known = got /\ b.ready = R /\ b.causes = app.causes
  BY <1>0, <1>4, <1>6 DEF AppType
<1> HIDE DEF b
<1>8. Legal(b)
  BY <1>0, <1>4, <1>7 DEF Legal
<1>9. \A c \in b.ready : guest.binds[c] \subseteq b.sets
  BY <1>0, <1>6, <1>7 DEF Agreed, Handles
<1>10. ASSUME NEW u \in Threads, pc[u].op = "update"
       PROVE  /\ pc[u].sets \subseteq b.sets /\ pc[u].bufs \subseteq b.buffers
              /\ \A k \in Written(pc[u].call) : Overlay(b.content, pc[u].call)[k] \in pc[u].bufs
  <2> DEFINE call == pc[u].call
  <2>1. call \in Calls /\ UpdateOK(guest, app, pc[u])
    BY <1>0, <1>10, UpdateFacts
  <2>2. Written(call) \cup Copied(call) \subseteq D /\ D \in SUBSET Slots
    BY <1>1, <2>1, CallFacts DEF UpdateOK, SetsOfSlots
  <2>3. app.content \in [Slots -> Values]
    BY <1>0 DEF AppType
  <2> HIDE DEF D
  <2>4. \A k \in D : Overlay(app.content, call)[k] = Overlay(new, call)[k]
    BY <1>4, <2>1, <2>2, <2>3, OverlaySame
  <2> QED BY <1>1, <1>7, <2>1, <2>2, <2>4 DEF UpdateOK
<1>11. ASSUME NEW u \in Threads, pc[u].op = "submit" PROVE pc[u].bufs \subseteq b.buffers \cup {None}
  BY <1>0, <1>7, <1>11 DEF Agreed, CallOK, SubmitOK
<1>12. \A k \in Slots : b.known[k] = None \/ b.known[k] = app.known[k]
  BY <1>4, <1>7
<1>13. app.known = app.content => b.known = b.content
  BY <1>5, <1>7
<1>14. b.sets \subseteq app.sets /\ b.buffers \subseteq app.buffers /\ b.ready \subseteq app.ready
  BY <1>6, <1>7
<1>15. Good(guest, host, b, pc)
  BY <1>0, <1>7, <1>8, <1>9, <1>10, <1>11, <1>12, <1>13, <1>14, GivesUp
<1>16. /\ q \in CallType /\ q.op = "free" /\ q.at = "prepare" /\ q.set = s
       /\ q.sets = {s} /\ q.bufs = {}
  BY DEF q, CallType, FreeType
<1>17. CallOK(guest, host, b, q)
  BY <1>7, <1>16 DEF CallOK, FreeOK
<1>18. Room(pc, t, q)
  BY <1>1, <1>16 DEF Room
<1>19. Good(o.g, o.h, b, [pc EXCEPT ![t] = q]) /\ Settled(o.g)
  BY <1>0, <1>1, <1>15, <1>16, <1>17, <1>18, Reserves
<1> QED BY <1>2, <1>3, <1>19 DEF IInv

\* ... asks for one ...
LEMMA StartAllocateStep ==
  ASSUME IInv, NEW t \in Threads, NEW s \in Sets, StartAllocate(t, s)
  PROVE  IInv'
<1> DEFINE q == [op |-> "allocate", at |-> "rpc", set |-> s, sets |-> {s}, bufs |-> {}]
<1>0. Good(guest, host, app, pc) /\ Settled(guest)
  BY DEF IInv
<1>1. /\ pc[t] = Idle /\ guest.active.kind = "none" /\ s \notin app.sets
      /\ \A u \in Threads : pc[u].sets \cap {s} = {}
  BY DEF StartAllocate, Reserve, NotUsed
<1>2. PICK o \in DrainEarlyRoute(guest, host) : guest' = o.g /\ host' = o.h
  BY DEF StartAllocate, Reserve
<1>3. pc' = [pc EXCEPT ![t] = q] /\ app' = app
  BY DEF StartAllocate, Reserve
<1>4. /\ q \in CallType /\ q.op = "allocate" /\ q.at = "rpc" /\ q.set = s
      /\ q.sets = {s} /\ q.bufs = {}
  BY DEF CallType, AllocateType
<1> HIDE DEF q
<1>5. CallOK(guest, host, app, q)
  BY <1>1, <1>4 DEF CallOK, AllocateOK
<1>6. Room(pc, t, q)
  BY <1>1, <1>4 DEF Room
<1>7. Good(o.g, o.h, app, [pc EXCEPT ![t] = q]) /\ Settled(o.g)
  BY <1>0, <1>1, <1>4, <1>5, <1>6, Reserves
<1> QED BY <1>2, <1>3, <1>7 DEF IInv

\* ... or gives up a buffer.
LEMMA StartDestroyStep ==
  ASSUME IInv, NEW t \in Threads, NEW f \in Buffers, StartDestroy(t, f)
  PROVE  IInv'
<1> DEFINE q == [op |-> "destroy", at |-> "prepare", buf |-> f, sets |-> {}, bufs |-> {f}]
           forget(v) == [k \in Slots |-> IF v[k] = f THEN None ELSE v[k]]
           new == forget(app.content)
           got == forget(app.known)
           b == [app EXCEPT !.buffers = app.buffers \ {f}, !.content = new, !.known = got]
<1>0. /\ Good(guest, host, app, pc) /\ Settled(guest) /\ Agreed(guest, host, app, pc)
      /\ app \in AppType /\ Legal(app) /\ pc \in [Threads -> CallType]
  BY GoodLegal DEF IInv, Good
<1>1. /\ pc[t] = Idle /\ guest.active.kind = "none" /\ f \in app.buffers
      /\ \A u \in Threads : f \notin pc[u].bufs
  BY DEF StartDestroy, Reserve
<1>2. PICK o \in DrainEarlyRoute(guest, host) : guest' = o.g /\ host' = o.h
  BY DEF StartDestroy, Reserve
<1>3. pc' = [pc EXCEPT ![t] = q] /\ app' = b
  BY Zenon DEF StartDestroy, Reserve
<1>4. /\ new \in [Slots -> Values] /\ got \in [Slots -> Values]
      /\ \A k \in Slots : new[k] = IF app.content[k] = f THEN None ELSE app.content[k]
      /\ \A k \in Slots : got[k] = IF app.known[k] = f THEN None ELSE app.known[k]
  BY <1>0 DEF AppType, Values
<1>5. app.known = app.content => got = new
  OBVIOUS
<1> HIDE DEF new, got, q
<1>6. /\ b \in AppType /\ b.sets = app.sets /\ b.buffers = app.buffers \ {f}
      /\ b.content = new /\ b.known = got /\ b.ready = app.ready /\ b.causes = app.causes
  BY <1>0, <1>4 DEF AppType
<1> HIDE DEF b
<1>7. Legal(b)
  BY <1>0, <1>4, <1>6 DEF Legal
<1>8. \A c \in b.ready : guest.binds[c] \subseteq b.sets
  BY <1>0, <1>6 DEF Agreed, Handles
<1>9. ASSUME NEW u \in Threads, pc[u].op = "update"
       PROVE  /\ pc[u].sets \subseteq b.sets /\ pc[u].bufs \subseteq b.buffers
              /\ \A k \in Written(pc[u].call) : Overlay(b.content, pc[u].call)[k] \in pc[u].bufs
  <2> DEFINE call == pc[u].call
  <2>1. call \in Calls /\ UpdateOK(guest, app, pc[u]) /\ Written(call) \subseteq Slots
    BY <1>0, <1>9, UpdateFacts, CallFacts
  <2>2. app.content \in [Slots -> Values] /\ \A k \in Slots : app.content[k] # f => new[k] = app.content[k]
    BY <1>0, <1>4 DEF AppType
  <2>3. \A k \in Slots : Overlay(app.content, call)[k] # f =>
          Overlay(new, call)[k] = Overlay(app.content, call)[k]
    <3>1. new \in [Slots -> Values] /\ call \in Calls
      BY <1>4, <2>1
    <3> DEFINE old == app.content
    <3>2. old \in [Slots -> Values] /\ \A k \in Slots : old[k] # f => new[k] = old[k]
      BY <2>2
    <3> HIDE DEF call, old
    <3>3. \A k \in Slots : Overlay(old, call)[k] # f => Overlay(new, call)[k] = Overlay(old, call)[k]
      BY <3>1, <3>2, OverlayForgets
    <3> QED BY <3>3 DEF old
  <2> QED BY <1>1, <1>6, <2>1, <2>3 DEF UpdateOK
<1>10. ASSUME NEW u \in Threads, pc[u].op = "submit" PROVE pc[u].bufs \subseteq b.buffers \cup {None}
  BY <1>0, <1>1, <1>6, <1>10 DEF Agreed, CallOK, SubmitOK
<1>11. \A k \in Slots : b.known[k] = None \/ b.known[k] = app.known[k]
  BY <1>4, <1>6
<1>12. app.known = app.content => b.known = b.content
  BY <1>5, <1>6
<1>13. b.sets \subseteq app.sets /\ b.buffers \subseteq app.buffers /\ b.ready \subseteq app.ready
  BY <1>6
<1>14. Good(guest, host, b, pc)
  BY <1>0, <1>6, <1>7, <1>8, <1>9, <1>10, <1>11, <1>12, <1>13, GivesUp
<1>15. /\ q \in CallType /\ q.op = "destroy" /\ q.at = "prepare" /\ q.buf = f
       /\ q.sets = {} /\ q.bufs = {f}
  <2>1. q \in DestroyType
    BY DEF q, DestroyType, Values
  <2> QED BY <2>1 DEF q, CallType
<1>16. CallOK(guest, host, b, q)
  BY <1>6, <1>15 DEF CallOK, DestroyOK
<1>17. Room(pc, t, q)
  <2>1. ASSUME NEW u \in Threads, pc[u].op = "destroy" PROVE pc[u].buf # f
    BY <1>0, <1>1, <2>1 DEF Agreed, CallOK, DestroyOK
  <2> QED BY <1>1, <1>15, <2>1 DEF Room
<1>18. Good(o.g, o.h, b, [pc EXCEPT ![t] = q]) /\ Settled(o.g)
  BY <1>0, <1>1, <1>14, <1>15, <1>16, <1>17, Reserves
<1> QED BY <1>2, <1>3, <1>18 DEF IInv


\* The host may give up and take handles that the application does not hold.
LEMMA HostChanges ==
  ASSUME NEW g, NEW h, NEW a, NEW p, Good(g, h, a, p),
         NEW y \in HostType, y.faults = h.faults,
         a.sets \subseteq y.sets, a.buffers \subseteq y.buffers,
         \A k \in Slots : SetOf[k] \in a.sets => y.content[k] = h.content[k],
         \A u \in Threads : p[u].op = "allocate" /\ p[u].at = "hook" => p[u].set \in y.sets,
         Clean(h, a) => Living(g, y, p)
  PROVE  Good(g, y, a, p)
<1>0. /\ Orderly(g) /\ Holds(g, h, a) /\ Agreed(g, h, a, p) /\ Legal(a)
      /\ a \in AppType /\ p \in [Threads -> CallType] /\ h \in HostType
  BY GoodLegal DEF Good
<1>1. \A k \in Slots : a.known[k] # None => y.content[k] = h.content[k]
  BY <1>0 DEF Legal
<1>2. Holds(g, y, a)
  BY <1>0, <1>1 DEF Holds
<1>3. Handles(g, y, a)
  BY <1>0 DEF Agreed, Handles
<1>4. ASSUME NEW u \in Threads PROVE CallOK(g, y, a, p[u])
  <2>1. CallOK(g, h, a, p[u])
    BY <1>0 DEF Agreed
  <2>2. p[u].op = "allocate" => AllocateOK(y, a, p[u])
    BY <2>1 DEF CallOK, AllocateOK
  <2>3. p[u].op = "submit" => SubmitOK(g, y, a, p[u])
    BY <1>1, <2>1 DEF CallOK, SubmitOK
  <2> QED BY <2>1, <2>2, <2>3 DEF CallOK
<1>5. Clean(y, a) => Living(g, y, p)
  BY DEF Clean
<1>6. Agreed(g, y, a, p)
  BY <1>0, <1>3, <1>4, <1>5 DEF Agreed, Typed
<1> QED BY <1>0, <1>2, <1>6 DEF Good

\* The guest x knows the sets S only, and the slots K no more.
Dropped(g, K, S, x) == x = [Discard(g, K) EXCEPT !.sets = S]

\* The shadow may forget the slots K, which no record and no update under way is for.
LEMMA Discards ==
  ASSUME NEW g, NEW h, NEW a, NEW p, Good(g, h, a, p), Settled(g),
         NEW K \in SUBSET Slots, \A r \in g.records : r.slot \notin K,
         \A k \in K : SetOf[k] \notin a.sets \/ g.value[k] \notin a.buffers,
         NEW S \in SUBSET g.sets, a.sets \subseteq S,
         \A r \in g.records : ~r.released => SetOf[r.slot] \in S,
         NEW x, Dropped(g, K, S, x)
  PROVE  /\ Good(x, h, a, p) /\ Settled(x)
         /\ x.records = g.records /\ x.active = g.active
         /\ x.value = [k \in Slots |-> IF k \in K THEN None ELSE g.value[k]]
<1> DEFINE v == [k \in Slots |-> IF k \in K THEN None ELSE g.value[k]]
           l == [k \in Slots |-> IF k \in K THEN 0 ELSE g.link[k]]
<1>0. /\ Orderly(g) /\ Holds(g, h, a) /\ Agreed(g, h, a, p) /\ Legal(a) /\ g \in GuestType
      /\ a \in AppType /\ p \in [Threads -> CallType] /\ h \in HostType
  BY GoodLegal DEF Good
<1>1. Pending(g, K) = {}
  BY DEF Pending
<1>2. v \in [Slots -> Values] /\ l \in [Slots -> Nat]
  BY <1>0 DEF GuestType, Values
<1>3. x = [g EXCEPT !.records = g.records, !.link = l, !.value = v, !.sets = S]
  BY <1>0, <1>1 DEF Dropped, Discard, GuestType
<1>4. S \in SUBSET Sets
  BY <1>0 DEF GuestType
<1>5. /\ \A k \in K : v[k] = None
      /\ \A k \in Slots : k \notin K => v[k] = g.value[k] /\ l[k] = g.link[k]
  OBVIOUS
<1> HIDE DEF v, l
<1>6. /\ x \in GuestType /\ x.records = g.records /\ x.link = l /\ x.value = v /\ x.sets = S
      /\ x.stage = g.stage /\ x.failed = g.failed /\ x.nextId = g.nextId
      /\ x.active = g.active /\ x.early = g.early /\ x.learned = g.learned
      /\ x.executable = g.executable /\ x.binds = g.binds
  BY <1>0, <1>2, <1>3, <1>4 DEF GuestType
<1>7. Tidy(x)
  <2>1. \A r \in g.records : r.slot \in Slots /\ v[r.slot] = g.value[r.slot] /\ l[r.slot] = g.link[r.slot]
    BY <1>0, <1>5 DEF GuestType, RecordType
  <2> QED BY <1>0, <1>6, <2>1 DEF Orderly, Tidy
<1>8. Routes(x)
  BY <1>0, <1>6 DEF Orderly, Routes, Specialized
<1>9. Holds(x, h, a)
  BY <1>0, <1>6 DEF Holds, Owed
<1>10. \A k \in Slots : a.known[k] # None =>
         a.content[k] = a.known[k] /\ a.known[k] \in a.buffers /\ SetOf[k] \in a.sets
  BY <1>0 DEF Legal
<1>11. Shadows(x, a, p)
  <2>1. ASSUME x.stage # "Legacy", NEW k \in Slots, a.known[k] # None, ~Rewritten(p, k)
        PROVE  x.value[k] = a.known[k]
    <3>1. g.value[k] = a.known[k]
      BY <1>0, <1>6, <2>1 DEF Agreed, Shadows
    <3>2. k \notin K
      BY <1>10, <2>1, <3>1
    <3> QED BY <1>5, <1>6, <3>1, <3>2
  <2> QED BY <2>1 DEF Shadows
<1>12. Handles(x, h, a) /\ Current(x, a) /\ Gated(x, p)
  BY <1>0, <1>6 DEF Agreed, Handles, Current, Gated
<1>13. ASSUME NEW u \in Threads PROVE CallOK(x, h, a, p[u])
  <2> DEFINE q == p[u]
  <2>0. q \in CallType /\ CallOK(g, h, a, q)
    BY <1>0 DEF Agreed
  <2>1. CASE q.op = "update"
    <3>1. UpdateOK(g, a, q) /\ q.call \in Calls
      BY <2>0, <2>1, CallTypes DEF CallOK, UpdateType
    <3>2. ASSUME g.stage = "Detect", q.at = "rpc", NEW k \in Written(q.call),
                 Overlay(a.known, q.call)[k] # None
          PROVE  x.value[k] = Overlay(a.known, q.call)[k]
      <4>1. /\ a.known \in [Slots -> Values] /\ a.content \in [Slots -> Values]
            /\ Written(q.call) \cup Copied(q.call) \subseteq Slots /\ k \in Slots
        BY <1>0, <3>1, CallFacts DEF AppType
      <4>2. \A j \in Slots : a.known[j] # None => a.content[j] = a.known[j]
        BY <1>10
      <4>3. Overlay(a.content, q.call)[k] = Overlay(a.known, q.call)[k]
        BY <3>1, <3>2, <4>1, <4>2, OverlayAgrees
      <4>4. g.value[k] = Overlay(a.known, q.call)[k] /\ g.value[k] \in a.buffers
            /\ SetOf[k] \in a.sets
        BY <3>1, <3>2, <4>3 DEF UpdateOK, SetsOfSlots
      <4>5. k \notin K
        BY <4>4
      <4> QED BY <1>5, <1>6, <4>1, <4>4, <4>5
    <3>3. UpdateOK(x, a, q)
      BY <1>6, <3>1, <3>2 DEF UpdateOK
    <3> QED BY <2>1, <3>3 DEF CallOK
  <2>2. CASE q.op = "free"
    BY <1>6, <2>0, <2>2 DEF CallOK, FreeOK
  <2>3. CASE q.op = "allocate"
    BY <2>0, <2>3 DEF CallOK, AllocateOK
  <2>4. CASE q.op = "destroy"
    <3>1. DestroyOK(g, a, q) /\ q.buf \in Buffers
      BY <2>0, <2>4, CallTypes DEF CallOK, DestroyType
    <3>2. \A k \in Slots : g.value[k] # q.buf => v[k] # q.buf
      BY <1>5, <3>1, GuestAssumption DEF GuestAssumption
    <3>3. DestroyOK(x, a, q)
      BY <1>6, <3>1, <3>2 DEF DestroyOK
    <3> QED BY <2>4, <3>3 DEF CallOK
  <2>5. CASE q.op = "submit"
    BY <1>6, <2>0, <2>5 DEF CallOK, SubmitOK, GateOK
  <2>6. CASE q.op \notin {"update", "free", "allocate", "destroy", "submit"}
    BY <2>6 DEF CallOK
  <2> QED BY <2>1, <2>2, <2>3, <2>4, <2>5, <2>6
<1>14. Clean(h, a) => Living(x, h, p)
  <2>1. Clean(h, a) => Living(g, h, p)
    BY <1>0 DEF Agreed
  <2>2. Living(g, h, p) => Living(x, h, p)
    <3>1. \A k \in Slots : v[k] # None => v[k] = g.value[k]
      BY <1>5
    <3> QED BY <1>6, <3>1 DEF Living
  <2> QED BY <2>1, <2>2
<1>15. Agreed(x, h, a, p)
  BY <1>0, <1>11, <1>12, <1>13, <1>14 DEF Agreed
<1>16. Good(x, h, a, p)
  BY <1>6, <1>7, <1>8, <1>9, <1>15 DEF Good, Orderly
<1>17. Settled(x)
  BY <1>6 DEF Settled
<1> QED BY <1>6, <1>16, <1>17 DEF v

\* A call that keeps its place among the others goes on to its next part.
LEMMA GoesOn ==
  ASSUME NEW g, NEW h, NEW a, NEW p, Good(g, h, a, p), NEW t \in Threads,
         p[t].op \in {"free", "allocate", "destroy"},
         p[t].op = "free" => p[t].at # "hook",
         NEW n, CallOK(g, h, a, [p[t] EXCEPT !.at = n]), [p[t] EXCEPT !.at = n] \in CallType
  PROVE  Good(g, h, a, [p EXCEPT ![t].at = n])
<1> DEFINE q == p[t]
           c == [q EXCEPT !.at = n]
<1>0. q \in CallType /\ Agreed(g, h, a, p) /\ p \in [Threads -> CallType]
  BY CallGood, GoodLegal
<1>1. c.op = q.op /\ c.sets = q.sets /\ c.bufs = q.bufs /\ (q.op = "destroy" => c.buf = q.buf)
  <2>1. q.op = "free" => q \in FreeType
    BY <1>0, CallTypes
  <2>2. q.op = "allocate" => q \in AllocateType
    BY <1>0, CallTypes
  <2>3. q.op = "destroy" => q \in DestroyType
    BY <1>0, CallTypes
  <2> QED BY <2>1, <2>2, <2>3 DEF FreeType, AllocateType, DestroyType
<1>2. Room(p, t, c)
  BY <1>0, <1>1 DEF Agreed, Apart, Room
<1> DEFINE z == [p EXCEPT ![t] = c]
<1>3. z = [p EXCEPT ![t].at = n]
  BY <1>0
<1>4. Gated(g, z)
  <2>1. g.active.kind = "none"
    BY LifecycleUngated DEF Lifecycle
  <2> QED BY <2>1 DEF Gated
<1>5. c \in CallType /\ CallOK(g, h, a, c)
  OBVIOUS
<1> HIDE DEF c
<1>6. Good(g, h, a, z)
  BY <1>2, <1>4, <1>5, Replaced
<1> QED BY <1>3, <1>6

\* Retirement is prepared.
LEMMA PrepareStep ==
  ASSUME IInv, NEW t \in Threads, Prepare(t)
  PROVE  IInv'
<1> DEFINE q == pc[t]
<1>0. /\ Good(guest, host, app, pc) /\ Settled(guest) /\ q.at = "prepare"
      /\ q \in CallType /\ CallOK(guest, host, app, q) /\ app' = app
  BY CallGood DEF IInv, Prepare
<1>1. q \in FreeType \/ q \in DestroyType
  BY <1>0 DEF CallType, Idle, UpdateType, AllocateType, SubmitType, FreeType, DestroyType
<1>2. q.op = "free" \/ q.op = "destroy"
  BY <1>1 DEF FreeType, DestroyType
<1>3. guest.active.kind = "none"
  BY <1>0, <1>2, LifecycleUngated DEF Lifecycle
<1>4. PICK r \in PrepareRetirement(guest, host) :
        /\ guest' = (IF r.ok THEN r.g ELSE Failed(r.g)) /\ host' = r.h
        /\ IF r.ok THEN Goto(t, IF q.op = "free" THEN "rpc" ELSE "payload") ELSE Return(t)
  BY DEF Prepare
<1>5. /\ r.ok \in BOOLEAN /\ Good(r.g, r.h, app, pc) /\ Settled(r.g)
      /\ r.ok => r.g.records = {}
      /\ ~r.ok => ~Clean(r.h, app)
  BY <1>0, <1>3, GoodSteady, PrepareMoves, GoodMoves
<1>6. CASE r.ok
  <2> DEFINE n == IF q.op = "free" THEN "rpc" ELSE "payload"
             c == [q EXCEPT !.at = n]
  <2>1. guest' = r.g /\ host' = r.h /\ pc' = [pc EXCEPT ![t].at = n]
    BY <1>4, <1>6 DEF Goto
  <2>2. CallOK(r.g, r.h, app, q)
    BY <1>5, CallGood
  <2>3. ASSUME q.op = "free" PROVE CallOK(r.g, r.h, app, c) /\ c \in CallType
    <3>1. q \in FreeType /\ FreeOK(r.g, app, q)
      BY <1>1, <2>2, <2>3 DEF CallOK, DestroyType
    <3>2. /\ c \in FreeType /\ c.op = "free" /\ c.set = q.set /\ c.sets = q.sets /\ c.bufs = q.bufs
          /\ c.at = "rpc"
      BY <2>3, <3>1 DEF FreeType
    <3> HIDE DEF c
    <3>3. FreeOK(r.g, app, c)
      BY <1>5, <1>6, <3>1, <3>2 DEF FreeOK
    <3> QED BY <3>2, <3>3 DEF CallOK, CallType
  <2>4. ASSUME q.op = "destroy" PROVE CallOK(r.g, r.h, app, c) /\ c \in CallType
    <3>1. q \in DestroyType /\ DestroyOK(r.g, app, q)
      BY <1>1, <2>2, <2>4 DEF CallOK, FreeType
    <3>2. /\ c \in DestroyType /\ c.op = "destroy" /\ c.buf = q.buf /\ c.sets = q.sets
          /\ c.bufs = q.bufs /\ c.at = "payload"
      BY <2>4, <3>1 DEF DestroyType
    <3> HIDE DEF c
    <3>3. DestroyOK(r.g, app, c)
      BY <1>5, <1>6, <3>1, <3>2 DEF DestroyOK
    <3> QED BY <3>2, <3>3 DEF CallOK, CallType
  <2>5. CallOK(r.g, r.h, app, c) /\ c \in CallType
    BY <1>2, <2>3, <2>4
  <2> HIDE DEF n
  <2>6. Good(r.g, r.h, app, [pc EXCEPT ![t].at = n])
    BY <1>0, <1>2, <1>5, <2>5, GoesOn
  <2> QED BY <1>0, <1>5, <2>1, <2>6 DEF IInv
<1>7. CASE ~r.ok
  <2> DEFINE x == Failed(r.g)
  <2>1. guest' = x /\ host' = r.h /\ pc' = [pc EXCEPT ![t] = Idle]
    BY <1>4, <1>7 DEF Return
  <2>2. Good(x, r.h, app, pc) /\ Settled(x)
    BY <1>5, <1>7, GoodLegal, KeptSame, Wronged
  <2> HIDE DEF x
  <2>3. x.active.kind = "none"
    BY <1>2, <2>2, LifecycleUngated DEF Lifecycle
  <2>4. Good(x, r.h, app, [pc EXCEPT ![t] = Idle])
    BY <1>0, <1>2, <2>2, <2>3, Returns
  <2> QED BY <1>0, <2>1, <2>2, <2>4 DEF IInv
<1> QED BY <1>5, <1>6, <1>7


\* The raw call of a free.
LEMMA FreeRpcStep ==
  ASSUME IInv, NEW t \in Threads, FreeRpc(t)
  PROVE  IInv'
<1> DEFINE q == pc[t]
<1>0. /\ Good(guest, host, app, pc) /\ Settled(guest) /\ q.op = "free" /\ q.at = "rpc"
      /\ q \in CallType /\ q \in FreeType /\ app' = app
  BY CallGood, CallTypes DEF IInv, FreeRpc, At
<1>1. PICK o \in RawWrite(q, NoDrain) :
        guest' = o.g /\ host' = o.h /\ IF o.ok THEN Goto(t, "hook") ELSE Return(t)
  BY DEF FreeRpc
<1>2. PICK y : /\ Good(o.g, y, app, pc) /\ Settled(o.g) /\ o.ok \in BOOLEAN
               /\ o.ok => o.h = Done(y, q)
               /\ ~o.ok => o.g.failed /\ o.h \in {y, Done(y, q)}
  BY <1>0, <1>1, DrainedRaw DEF RawEnds, Lifecycle, NoDrain
<1>3. /\ y \in HostType /\ CallOK(o.g, y, app, q) /\ Apart(pc) /\ Agreed(o.g, y, app, pc)
      /\ Handles(o.g, y, app)
  BY <1>2, GoodLegal, CallGood DEF Agreed
<1>4. FreeOK(o.g, app, q)
  BY <1>0, <1>3 DEF CallOK
<1> DEFINE z == Done(y, q)
<1>5. /\ z \in HostType /\ z.faults = y.faults /\ z.content = y.content
      /\ z.sets = y.sets \ {q.set} /\ z.buffers = y.buffers
  BY <1>0, <1>3, DoneIs DEF Lifecycle
<1> HIDE DEF z
<1>6. app.sets \subseteq z.sets /\ app.buffers \subseteq z.buffers
  BY <1>3, <1>4, <1>5 DEF Handles, FreeOK
<1>7. \A u \in Threads : pc[u].op = "allocate" /\ pc[u].at = "hook" => pc[u].set \in z.sets
  <2>1. ASSUME NEW u \in Threads, pc[u].op = "allocate", pc[u].at = "hook"
        PROVE  pc[u].set \in z.sets
    <3>1. AllocateOK(y, app, pc[u]) /\ u # t
      BY <1>0, <1>3, <2>1 DEF Agreed, CallOK
    <3>2. pc[u].set # q.set
      BY <1>3, <1>4, <3>1 DEF Apart, AllocateOK, FreeOK
    <3> QED BY <1>5, <2>1, <3>1, <3>2 DEF AllocateOK
  <2> QED BY <2>1
<1>8. CASE o.ok
  <2> DEFINE c == [q EXCEPT !.at = "hook"]
             p == [pc EXCEPT ![t].at = "hook"]
  <2>1. /\ c \in FreeType /\ c.op = "free" /\ c.set = q.set /\ c.sets = q.sets /\ c.bufs = q.bufs
        /\ c.at = "hook"
    BY <1>0 DEF FreeType
  <2>2. p[t] = c /\ \A u \in Threads : u # t => p[u] = pc[u]
    BY <1>2, GoodLegal
  <2>3. CallOK(o.g, y, app, c) /\ c \in CallType
    <3> HIDE DEF c
    <3>1. FreeOK(o.g, app, c)
      BY <1>0, <1>4, <2>1 DEF FreeOK
    <3> QED BY <2>1, <3>1 DEF CallOK, CallType
  <2>4. Good(o.g, y, app, p)
    BY <1>0, <1>2, <2>3, GoesOn
  <2> HIDE DEF c, p
  <2>5. \A u \in Threads : p[u].op = "allocate" /\ p[u].at = "hook" => p[u].set \in z.sets
    BY <1>7, <2>1, <2>2
  <2>6. Clean(y, app) => Living(o.g, z, p)
    <3>1. Clean(y, app) => Living(o.g, y, p)
      BY <2>4 DEF Good, Agreed
    <3>2. \A r \in o.g.records : SetOf[r.slot] # q.set
      BY <1>0, <1>4 DEF FreeOK
    <3>3. Freeing(p, q.set)
      BY <2>1, <2>2 DEF Freeing
    <3>4. ASSUME Living(o.g, y, p) PROVE Living(o.g, z, p)
      <4>1. Mapped(z, o.g.records)
        BY <1>5, <3>2, <3>4 DEF Living, Mapped
      <4>2. ASSUME NEW k \in Slots, o.g.value[k] # None
            PROVE  o.g.value[k] \in z.buffers /\ (SetOf[k] \in z.sets \/ Freeing(p, SetOf[k]))
        BY <1>5, <3>3, <3>4, <4>2 DEF Living
      <4> QED BY <3>4, <4>1, <4>2 DEF Living
    <3> QED BY <3>1, <3>4
  <2>7. Good(o.g, z, app, p)
    BY <1>5, <1>6, <2>4, <2>5, <2>6, HostChanges
  <2>8. guest' = o.g /\ host' = z /\ pc' = p
    BY <1>1, <1>2, <1>8 DEF Goto, z, p
  <2> QED BY <1>0, <1>2, <2>7, <2>8 DEF IInv
<1>9. CASE ~o.ok
  <2>1. o.g.failed /\ (o.h = y \/ o.h = z)
    BY <1>2, <1>9 DEF z
  <2>2. ~Clean(y, app)
    BY <1>2, <2>1, GoodLegal
  <2>3. Good(o.g, z, app, pc)
    BY <1>2, <1>5, <1>6, <1>7, <2>2, HostChanges
  <2>4. Good(o.g, o.h, app, pc)
    BY <1>2, <2>1, <2>3
  <2>5. o.g.active.kind = "none"
    BY <1>0, <2>4, LifecycleUngated DEF Lifecycle
  <2>6. Good(o.g, o.h, app, [pc EXCEPT ![t] = Idle])
    BY <1>0, <2>4, <2>5, Returns
  <2>7. guest' = o.g /\ host' = o.h /\ pc' = [pc EXCEPT ![t] = Idle]
    BY <1>1, <1>9 DEF Return
  <2> QED BY <1>0, <1>2, <2>6, <2>7 DEF IInv
<1> QED BY <1>2, <1>8, <1>9

\* The sets of a free call are forgotten.
LEMMA FreeDescriptorSetsStep ==
  ASSUME IInv, NEW t \in Threads, FreeDescriptorSets(t)
  PROVE  IInv'
<1> DEFINE q == pc[t]
<1>0. /\ Good(guest, host, app, pc) /\ Settled(guest) /\ q.op = "free" /\ q.at = "hook"
      /\ app' = app /\ pc' = [pc EXCEPT ![t] = Idle]
  BY DEF IInv, FreeDescriptorSets, At, Return
<1>1. PICK r \in DrainEarlyRoute(guest, host) : guest' = FreeSets(r.g, q.set) /\ host' = r.h
  BY DEF FreeDescriptorSets
<1>2. Good(r.g, r.h, app, pc) /\ Settled(r.g)
  BY <1>0, DrainGood
<1>3. FreeOK(r.g, app, q) /\ Handles(r.g, r.h, app) /\ r.g \in GuestType
  BY <1>0, <1>2, CallGood, GoodLegal DEF CallOK, Agreed
<1> DEFINE K == {k \in Slots : SetOf[k] = q.set}
           S == r.g.sets \ {q.set}
           x == FreeSets(r.g, q.set)
<1>4. Dropped(r.g, K, S, x)
  BY <1>3 DEF Dropped, FreeSets, Discard, GuestType
<1>5. /\ K \in SUBSET Slots /\ S \in SUBSET r.g.sets /\ app.sets \subseteq S
      /\ \A k \in K : SetOf[k] \notin app.sets
      /\ \A u \in r.g.records : u.slot \notin K
      /\ \A u \in r.g.records : ~u.released => SetOf[u.slot] \in S
  <2>1. \A u \in r.g.records : SetOf[u.slot] # q.set
    BY <1>0, <1>3 DEF FreeOK
  <2>2. \A u \in r.g.records : ~u.released => SetOf[u.slot] \in r.g.sets
    BY <1>2, CallGood DEF Good, Orderly, Tidy
  <2> QED BY <1>3, <2>1, <2>2 DEF FreeOK, Handles
<1>6. \A k \in Slots : SetOf[k] = q.set => k \in K
  OBVIOUS
<1> HIDE DEF K, S, x
<1>7. /\ Good(x, r.h, app, pc) /\ Settled(x)
      /\ x.value = [k \in Slots |-> IF k \in K THEN None ELSE r.g.value[k]]
  <2>1. \A k \in K : SetOf[k] \notin app.sets \/ r.g.value[k] \notin app.buffers
    BY <1>5
  <2> QED BY <1>2, <1>4, <1>5, <2>1, Discards
<1>8. x.active.kind = "none"
  BY <1>0, <1>7, LifecycleUngated DEF Lifecycle
<1>9. \A k \in Slots : SetOf[k] = q.set => x.value[k] = None
  BY <1>6, <1>7
<1>10. Good(x, r.h, app, [pc EXCEPT ![t] = Idle])
  BY <1>0, <1>7, <1>8, <1>9, Returns
<1> QED BY <1>0, <1>1, <1>7, <1>10 DEF IInv, x

\* The raw call of an allocation.
LEMMA AllocateRpcStep ==
  ASSUME IInv, NEW t \in Threads, AllocateRpc(t)
  PROVE  IInv'
<1> DEFINE q == pc[t]
<1>0. /\ Good(guest, host, app, pc) /\ Settled(guest) /\ q.op = "allocate" /\ q.at = "rpc"
      /\ q \in CallType /\ q \in AllocateType /\ app' = app
  BY CallGood, CallTypes DEF IInv, AllocateRpc, At
<1>1. PICK o \in RawWrite(q, DrainEarlyRoute(guest, host)) :
        guest' = o.g /\ host' = o.h /\ IF o.ok THEN Goto(t, "hook") ELSE Return(t)
  BY DEF AllocateRpc
<1>2. PICK y : /\ Good(o.g, y, app, pc) /\ Settled(o.g) /\ o.ok \in BOOLEAN
               /\ o.ok => o.h = Done(y, q)
               /\ ~o.ok => o.g.failed /\ o.h \in {y, Done(y, q)}
  BY <1>0, <1>1, DrainedRaw DEF RawEnds, Lifecycle
<1>3. /\ y \in HostType /\ CallOK(o.g, y, app, q) /\ Agreed(o.g, y, app, pc)
      /\ Handles(o.g, y, app)
  BY <1>2, GoodLegal, CallGood DEF Agreed
<1>4. AllocateOK(y, app, q)
  BY <1>0, <1>3 DEF CallOK
<1> DEFINE z == Done(y, q)
<1>5. /\ z \in HostType /\ z.faults = y.faults
      /\ z.content = [k \in Slots |-> IF SetOf[k] = q.set THEN None ELSE y.content[k]]
      /\ z.sets = y.sets \cup {q.set} /\ z.buffers = y.buffers
  BY <1>0, <1>3, DoneIs DEF Lifecycle
<1> HIDE DEF z
<1>6. /\ app.sets \subseteq z.sets /\ app.buffers \subseteq z.buffers
      /\ \A k \in Slots : SetOf[k] \in app.sets => z.content[k] = y.content[k]
  BY <1>3, <1>4, <1>5 DEF Handles, AllocateOK
<1>7. \A u \in Threads : pc[u].op = "allocate" /\ pc[u].at = "hook" => pc[u].set \in z.sets
  BY <1>3, <1>5 DEF Agreed, CallOK, AllocateOK
<1>8. Clean(y, app) => Living(o.g, z, pc)
  BY <1>3, <1>5 DEF Agreed, Living, Mapped
<1>9. Good(o.g, z, app, pc)
  BY <1>2, <1>5, <1>6, <1>7, <1>8, HostChanges
<1>10. CASE o.ok
  <2> DEFINE c == [q EXCEPT !.at = "hook"]
             p == [pc EXCEPT ![t].at = "hook"]
  <2>1. /\ c \in AllocateType /\ c.op = "allocate" /\ c.set = q.set /\ c.sets = q.sets
        /\ c.bufs = q.bufs /\ c.at = "hook"
    BY <1>0 DEF AllocateType
  <2>2. CallOK(o.g, z, app, c) /\ c \in CallType
    <3> HIDE DEF c
    <3>1. AllocateOK(z, app, c)
      BY <1>4, <1>5, <2>1 DEF AllocateOK
    <3> QED BY <2>1, <3>1 DEF CallOK, CallType
  <2>3. Good(o.g, z, app, p)
    BY <1>0, <1>9, <2>2, GoesOn
  <2> HIDE DEF c, p
  <2>4. guest' = o.g /\ host' = z /\ pc' = p
    BY <1>1, <1>2, <1>10 DEF Goto, z, p
  <2> QED BY <1>0, <1>2, <2>3, <2>4 DEF IInv
<1>11. CASE ~o.ok
  <2>1. Good(o.g, o.h, app, pc)
    BY <1>2, <1>9, <1>11 DEF z
  <2>2. o.g.active.kind = "none"
    BY <1>0, <2>1, LifecycleUngated DEF Lifecycle
  <2>3. Good(o.g, o.h, app, [pc EXCEPT ![t] = Idle])
    BY <1>0, <2>1, <2>2, Returns
  <2>4. guest' = o.g /\ host' = o.h /\ pc' = [pc EXCEPT ![t] = Idle]
    BY <1>1, <1>11 DEF Return
  <2> QED BY <1>0, <1>2, <2>3, <2>4 DEF IInv
<1> QED BY <1>2, <1>10, <1>11

\* The hook and the return of an allocation.
LEMMA AllocateDescriptorSetsStep ==
  ASSUME IInv, NEW t \in Threads, AllocateDescriptorSets(t)
  PROVE  IInv'
<1> DEFINE q == pc[t]
           s == q.set
           p == [pc EXCEPT ![t] = Idle]
           x == [guest EXCEPT !.sets = @ \cup {s}]
           b == [app EXCEPT !.sets = @ \cup {s}]
<1>0. /\ Good(guest, host, app, pc) /\ Settled(guest) /\ q.op = "allocate" /\ q.at = "hook"
      /\ q \in CallType /\ q \in AllocateType /\ AllocateOK(host, app, q) /\ Apart(pc)
      /\ host' = host /\ guest' = x /\ app' = b /\ pc' = p
  BY CallGood, CallTypes DEF IInv, AllocateDescriptorSets, At, Return, CallOK
<1>1. guest.active.kind = "none"
  BY <1>0, LifecycleUngated DEF Lifecycle
<1>2. Good(guest, host, app, p)
  BY <1>0, <1>1, Returns
<1>3. s \in Sets /\ s \in host.sets /\ s \notin app.sets /\ \A u \in Threads : s \notin p[u].sets
  <2>1. s \in Sets /\ s \in host.sets /\ s \notin app.sets /\ q.sets = {s}
    BY <1>0 DEF AllocateOK, AllocateType
  <2>2. p[t] = Idle /\ \A u \in Threads : u # t => p[u] = pc[u]
    BY <1>0, GoodLegal
  <2>3. Idle.sets = {}
    BY DEF Idle
  <2> HIDE DEF p
  <2> QED BY <1>0, <2>1, <2>2, <2>3 DEF Apart
<1> HIDE DEF q, p, s
<1>4. /\ Orderly(guest) /\ Holds(guest, host, app) /\ Agreed(guest, host, app, p) /\ Legal(app)
      /\ app \in AppType /\ p \in [Threads -> CallType] /\ host \in HostType /\ guest \in GuestType
  BY <1>2, GoodLegal DEF Good
<1>5. /\ x \in GuestType /\ x.sets = guest.sets \cup {s} /\ x.records = guest.records
      /\ x.link = guest.link /\ x.value = guest.value
      /\ x.stage = guest.stage /\ x.failed = guest.failed /\ x.nextId = guest.nextId
      /\ x.active = guest.active /\ x.early = guest.early /\ x.learned = guest.learned
      /\ x.executable = guest.executable /\ x.binds = guest.binds
  BY <1>3, <1>4 DEF GuestType
<1>6. /\ b \in AppType /\ b.sets = app.sets \cup {s} /\ b.buffers = app.buffers
      /\ b.content = app.content /\ b.known = app.known /\ b.ready = app.ready
      /\ b.causes = app.causes
  BY <1>3, <1>4 DEF AppType
<1> HIDE DEF x, b
<1>7. Orderly(x)
  BY <1>4, <1>5 DEF Orderly, Tidy, Routes, Specialized
<1>8. Holds(x, host, b)
  BY <1>4, <1>5, <1>6 DEF Holds, Owed
<1>9. Shadows(x, b, p) /\ Legal(b) /\ Handles(x, host, b) /\ Current(x, b) /\ Gated(x, p)
  BY <1>3, <1>4, <1>5, <1>6 DEF Agreed, Shadows, Legal, Handles, Current, Gated
<1>10. ASSUME NEW u \in Threads PROVE CallOK(x, host, b, p[u])
  <2> DEFINE c == p[u]
  <2>0. c \in CallType /\ CallOK(guest, host, app, c) /\ s \notin c.sets
    BY <1>3, <1>4 DEF Agreed
  <2>1. CASE c.op = "update"
    BY <1>5, <1>6, <2>0, <2>1 DEF CallOK, UpdateOK
  <2>2. CASE c.op = "free"
    BY <1>5, <1>6, <2>0, <2>2 DEF CallOK, FreeOK
  <2>3. CASE c.op = "allocate"
    BY <1>5, <1>6, <2>0, <2>3 DEF CallOK, AllocateOK
  <2>4. CASE c.op = "destroy"
    BY <1>5, <1>6, <2>0, <2>4 DEF CallOK, DestroyOK
  <2>5. CASE c.op = "submit"
    BY <1>5, <1>6, <2>0, <2>5 DEF CallOK, SubmitOK, GateOK
  <2>6. CASE c.op \notin {"update", "free", "allocate", "destroy", "submit"}
    BY <2>6 DEF CallOK
  <2> QED BY <2>1, <2>2, <2>3, <2>4, <2>5, <2>6
<1>11. Clean(host, b) => Living(x, host, p)
  BY <1>4, <1>5, <1>6 DEF Agreed, Clean, Living
<1>12. Agreed(x, host, b, p)
  BY <1>4, <1>6, <1>9, <1>10, <1>11 DEF Agreed, Typed
<1>13. Settled(x)
  BY <1>0, <1>5 DEF Settled
<1> QED BY <1>0, <1>7, <1>8, <1>12, <1>13 DEF IInv, Good

\* The values of a buffer that goes are forgotten.
LEMMA DestroyDescriptorPayloadStep ==
  ASSUME IInv, NEW t \in Threads, DestroyDescriptorPayload(t)
  PROVE  IInv'
<1> DEFINE q == pc[t]
           f == q.buf
           K == {k \in Slots : guest.value[k] = f}
           x == InvalidatePayload(guest, f)
           c == [q EXCEPT !.at = "rpc"]
<1>0. /\ Good(guest, host, app, pc) /\ Settled(guest) /\ q.op = "destroy" /\ q.at = "payload"
      /\ q \in DestroyType /\ DestroyOK(guest, app, q) /\ Handles(guest, host, app)
      /\ guest \in GuestType /\ Tidy(guest)
      /\ guest' = x /\ host' = host /\ app' = app /\ pc' = [pc EXCEPT ![t].at = "rpc"]
  BY CallGood, CallTypes, GoodLegal
  DEF IInv, DestroyDescriptorPayload, At, Goto, CallOK, Agreed, Orderly
<1>1. f \in Buffers /\ f # None /\ f \notin app.buffers
  BY <1>0, GuestAssumption DEF DestroyType, DestroyOK, GuestAssumption
<1>2. Dropped(guest, K, guest.sets, x)
  BY <1>0 DEF Dropped, InvalidatePayload, Discard, GuestType
<1>3. /\ K \in SUBSET Slots
      /\ \A k \in K : guest.value[k] \notin app.buffers
      /\ \A r \in guest.records : r.slot \notin K
      /\ \A r \in guest.records : ~r.released => SetOf[r.slot] \in guest.sets
      /\ app.sets \subseteq guest.sets
  BY <1>0, <1>1 DEF Tidy, Handles, DestroyOK
<1>4. \A k \in Slots : (IF k \in K THEN None ELSE guest.value[k]) # f
  BY <1>1
<1>5. /\ c \in DestroyType /\ c.op = "destroy" /\ c.buf = f /\ c.sets = q.sets
      /\ c.bufs = q.bufs /\ c.at = "rpc"
  BY <1>0 DEF DestroyType
<1> HIDE DEF K, x, c
<1>6. /\ Good(x, host, app, pc) /\ Settled(x) /\ x.records = guest.records
      /\ x.value = [k \in Slots |-> IF k \in K THEN None ELSE guest.value[k]]
  <2>1. \A k \in K : SetOf[k] \notin app.sets \/ guest.value[k] \notin app.buffers
    BY <1>3
  <2> QED BY <1>0, <1>2, <1>3, <2>1, Discards
<1>7. CallOK(x, host, app, c) /\ c \in CallType
  <2>1. \A k \in Slots : x.value[k] # f
    BY <1>4, <1>6
  <2>2. DestroyOK(x, app, c)
    BY <1>0, <1>5, <1>6, <2>1 DEF DestroyOK
  <2> QED BY <1>5, <2>2 DEF CallOK, CallType
<1>8. Good(x, host, app, [pc EXCEPT ![t].at = "rpc"])
  BY <1>0, <1>6, <1>7, GoesOn DEF c
<1> QED BY <1>0, <1>6, <1>8 DEF IInv

\* The raw call of a destruction.
LEMMA DestroyRpcStep ==
  ASSUME IInv, NEW t \in Threads, DestroyRpc(t)
  PROVE  IInv'
<1> DEFINE q == pc[t]
<1>0. /\ Good(guest, host, app, pc) /\ Settled(guest) /\ q.op = "destroy" /\ q.at = "rpc"
      /\ q \in CallType /\ app' = app /\ pc' = [pc EXCEPT ![t] = Idle]
  BY CallGood DEF IInv, DestroyRpc, At, Return
<1>1. PICK o \in RawWrite(q, DrainEarlyRoute(guest, host)) : guest' = o.g /\ host' = o.h
  BY DEF DestroyRpc
<1>2. PICK y : /\ Good(o.g, y, app, pc) /\ Settled(o.g) /\ o.ok \in BOOLEAN
               /\ o.ok => o.h = Done(y, q)
               /\ ~o.ok => o.g.failed /\ o.h \in {y, Done(y, q)}
  BY <1>0, <1>1, DrainedRaw DEF RawEnds, Lifecycle
<1>3. /\ y \in HostType /\ CallOK(o.g, y, app, q) /\ Agreed(o.g, y, app, pc)
      /\ Handles(o.g, y, app)
  BY <1>2, GoodLegal, CallGood DEF Agreed
<1>4. DestroyOK(o.g, app, q)
  BY <1>0, <1>3 DEF CallOK
<1> DEFINE z == Done(y, q)
<1>5. /\ z \in HostType /\ z.faults = y.faults /\ z.content = y.content
      /\ z.sets = y.sets /\ z.buffers = y.buffers \ {q.buf}
  BY <1>0, <1>3, DoneIs DEF Lifecycle
<1> HIDE DEF z
<1>6. app.sets \subseteq z.sets /\ app.buffers \subseteq z.buffers
  BY <1>3, <1>4, <1>5 DEF Handles, DestroyOK
<1>7. \A u \in Threads : pc[u].op = "allocate" /\ pc[u].at = "hook" => pc[u].set \in z.sets
  BY <1>3, <1>5 DEF Agreed, CallOK, AllocateOK
<1>8. Clean(y, app) => Living(o.g, z, pc)
  <2>1. \A r \in o.g.records : r.val # q.buf
    BY <1>0, <1>4 DEF DestroyOK
  <2>2. \A k \in Slots : o.g.value[k] # q.buf
    BY <1>0, <1>4 DEF DestroyOK
  <2>3. Clean(y, app) => Living(o.g, y, pc)
    BY <1>3 DEF Agreed
  <2> QED BY <1>5, <2>1, <2>2, <2>3 DEF Living, Mapped
<1>9. Good(o.g, z, app, pc)
  BY <1>2, <1>5, <1>6, <1>7, <1>8, HostChanges
<1>10. Good(o.g, o.h, app, pc)
  BY <1>2, <1>9 DEF z
<1>11. o.g.active.kind = "none"
  BY <1>0, <1>10, LifecycleUngated DEF Lifecycle
<1>12. Good(o.g, o.h, app, [pc EXCEPT ![t] = Idle])
  BY <1>0, <1>10, <1>11, Returns
<1> QED BY <1>0, <1>1, <1>2, <1>12 DEF IInv
-----------------------------------------------------------------------------
(* Command buffers *)

\* The command buffers X can be submitted, and c consumes the sets S in n units.
Anew(g, x, X, c, S, n) == x = [g EXCEPT !.executable = X, !.binds[c] = S, !.units[c] = n]
\* The application holds those of R to be so.
Readied(a, b, R) == b = [a EXCEPT !.ready = R]

\* A command buffer that is not being submitted may be recorded anew.
LEMMA Rerecorded ==
  ASSUME NEW g, NEW h, NEW a, NEW p, Good(g, h, a, p), NEW c \in Cmds,
         \A u \in Threads : p[u].op = "submit" => p[u].cmd # c,
         NEW X \in SUBSET Cmds, NEW S \in SUBSET Sets, NEW n \in Nat, NEW R \in SUBSET X,
         \A d \in Cmds \ {c} : /\ d \in g.executable => d \in X
                               /\ d \in R => d \in a.ready,
         c \in R => S \subseteq a.sets,
         NEW x, Anew(g, x, X, c, S, n), NEW b, Readied(a, b, R)
  PROVE  Good(x, h, b, p) /\ (Settled(g) => Settled(x))
<1>0. /\ Orderly(g) /\ Holds(g, h, a) /\ Agreed(g, h, a, p) /\ Legal(a)
      /\ a \in AppType /\ p \in [Threads -> CallType] /\ h \in HostType /\ g \in GuestType
  BY GoodLegal DEF Good
<1> DEFINE N == [g.binds EXCEPT ![c] = S]
           U == [g.units EXCEPT ![c] = n]
<1>1. /\ N \in [Cmds -> SUBSET Sets] /\ N[c] = S /\ U \in [Cmds -> Nat]
      /\ \A d \in Cmds : d # c => N[d] = g.binds[d]
  BY <1>0 DEF GuestType
<1>2. x = [g EXCEPT !.executable = X, !.binds = N, !.units = U]
  BY <1>0 DEF GuestType, Anew
<1> HIDE DEF N, U
<1>3. /\ x \in GuestType /\ x.records = g.records /\ x.link = g.link /\ x.value = g.value
      /\ x.sets = g.sets /\ x.stage = g.stage /\ x.failed = g.failed /\ x.nextId = g.nextId
      /\ x.active = g.active /\ x.early = g.early /\ x.learned = g.learned
      /\ x.executable = X /\ x.binds = N
  BY <1>0, <1>1, <1>2 DEF GuestType
<1>4. /\ b \in AppType /\ b.sets = a.sets /\ b.buffers = a.buffers /\ b.content = a.content
      /\ b.known = a.known /\ b.ready = R /\ b.causes = a.causes
  BY <1>0 DEF AppType, Readied
<1>5. Orderly(x)
  BY <1>0, <1>3 DEF Orderly, Tidy, Routes, Specialized
<1>6. Holds(x, h, b)
  BY <1>0, <1>3, <1>4 DEF Holds, Owed
<1>7. Handles(x, h, b)
  <2>1. \A d \in R : N[d] \subseteq a.sets
    BY <1>0, <1>1 DEF Agreed, Handles
  <2> QED BY <1>0, <1>3, <1>4, <2>1 DEF Agreed, Handles
<1>8. Shadows(x, b, p) /\ Legal(b) /\ Current(x, b) /\ Gated(x, p)
  BY <1>0, <1>3, <1>4 DEF Agreed, Shadows, Legal, Current, Gated
<1>9. ASSUME NEW u \in Threads PROVE CallOK(x, h, b, p[u])
  <2> DEFINE q == p[u]
  <2>0. q \in CallType /\ CallOK(g, h, a, q)
    BY <1>0 DEF Agreed
  <2>1. CASE q.op = "update"
    BY <1>3, <1>4, <2>0, <2>1 DEF CallOK, UpdateOK
  <2>2. CASE q.op = "free"
    BY <1>3, <1>4, <2>0, <2>2 DEF CallOK, FreeOK
  <2>3. CASE q.op = "allocate"
    BY <1>3, <1>4, <2>0, <2>3 DEF CallOK, AllocateOK
  <2>4. CASE q.op = "destroy"
    BY <1>3, <1>4, <2>0, <2>4 DEF CallOK, DestroyOK
  <2>5. CASE q.op = "submit"
    <3>1. q.cmd \in Cmds /\ q.cmd # c /\ SubmitOK(g, h, a, q)
      BY <2>0, <2>5, CallTypes DEF SubmitType, CallOK
    <3>2. q.cmd \in X /\ N[q.cmd] = g.binds[q.cmd]
      BY <1>1, <3>1 DEF SubmitOK
    <3> QED BY <1>3, <1>4, <2>5, <3>1, <3>2 DEF CallOK, SubmitOK, GateOK
  <2>6. CASE q.op \notin {"update", "free", "allocate", "destroy", "submit"}
    BY <2>6 DEF CallOK
  <2> QED BY <2>1, <2>2, <2>3, <2>4, <2>5, <2>6
<1>10. Clean(h, b) => Living(x, h, p)
  BY <1>0, <1>3, <1>4 DEF Agreed, Clean, Living
<1>11. Agreed(x, h, b, p)
  BY <1>0, <1>4, <1>7, <1>8, <1>9, <1>10 DEF Agreed, Typed
<1> QED BY <1>3, <1>5, <1>6, <1>11 DEF Good, Settled

\* A recording begins ...
LEMMA BeginCommandBufferStep ==
  ASSUME IInv, NEW t \in Threads, NEW c \in Cmds, BeginCommandBuffer(t, c)
  PROVE  IInv'
<1>0. /\ Good(guest, host, app, pc) /\ Settled(guest) /\ app \in AppType /\ pc' = pc
      /\ \A u \in Threads : pc[u].op = "submit" => pc[u].cmd # c
  BY GoodLegal DEF IInv, BeginCommandBuffer, Submitting
<1>1. PICK r \in DrainEarlyRoute(guest, host) :
        /\ host' = r.h
        /\ guest' = IF r.ok THEN [r.g EXCEPT !.executable = @ \ {c}, !.binds[c] = {}, !.units[c] = 0]
                           ELSE r.g
        /\ app' = [app EXCEPT !.ready = IF r.ok THEN @ \ {c} ELSE @]
  BY DEF BeginCommandBuffer
<1>2. Good(r.g, r.h, app, pc) /\ Settled(r.g) /\ r.ok \in BOOLEAN /\ r.g \in GuestType
  BY <1>0, DrainGood, GoodLegal
<1>3. CASE r.ok
  <2> DEFINE X == r.g.executable \ {c}
             R == app.ready \ {c}
             x == [r.g EXCEPT !.executable = X, !.binds[c] = {}, !.units[c] = 0]
             b == [app EXCEPT !.ready = R]
  <2>1. guest' = x /\ host' = r.h /\ app' = b
    BY <1>1, <1>3, Zenon
  <2>2. X \in SUBSET Cmds /\ R \in SUBSET X /\ {} \in SUBSET Sets
    BY <1>2, CallGood DEF Good, Agreed, Handles, GuestType
  <2>3. /\ \A d \in Cmds \ {c} : (d \in r.g.executable => d \in X) /\ (d \in R => d \in app.ready)
        /\ c \in R => {} \subseteq app.sets
    OBVIOUS
  <2>4. Anew(r.g, x, X, c, {}, 0) /\ Readied(app, b, R)
    BY DEF Anew, Readied
  <2> HIDE DEF X, R, x, b
  <2>5. Good(x, r.h, b, pc) /\ Settled(x)
    BY <1>0, <1>2, <2>2, <2>3, <2>4, Rerecorded
  <2> QED BY <1>0, <2>1, <2>5 DEF IInv
<1>4. CASE ~r.ok
  <2>1. guest' = r.g /\ host' = r.h /\ app' = [app EXCEPT !.ready = app.ready]
    BY <1>1, <1>4
  <2>2. app' = app
    BY <1>0, <2>1 DEF AppType
  <2> QED BY <1>0, <1>2, <2>1, <2>2 DEF IInv
<1> QED BY <1>2, <1>3, <1>4

\* The ways an early route may end are of one shape.
LEMMA AdvanceShape ==
  ASSUME NEW g, NEW h, NEW c, NEW o \in MaybeAdvance(g, h, c)
  PROVE  Outcome(o)
<1>1. ASSUME NEW x, NEW y, NEW r \in FallbackToLegacy(x, y) PROVE Outcome(r)
  <2>1. \E z, w : \E b \in BOOLEAN : r = [ok |-> b, g |-> z, h |-> w]
    BY DEF FallbackToLegacy
  <2> QED BY <2>1 DEF Outcome
<1>2. ASSUME NEW x, NEW y, NEW b \in BOOLEAN, o = [ok |-> b, g |-> x, h |-> y] PROVE Outcome(o)
  BY <1>2 DEF Outcome
<1>3. \/ o \in FallbackToLegacy(g, h) \/ (\E x, y : o \in FallbackToLegacy(x, y))
      \/ \E x, y : \E b \in BOOLEAN : o = [ok |-> b, g |-> x, h |-> y]
  BY DEF MaybeAdvance
<1> QED BY <1>1, <1>2, <1>3

\* ... and ends, where an early route may start.
LEMMA EndCommandBufferStep ==
  ASSUME IInv, NEW t \in Threads, NEW c \in Cmds, NEW shape \in Shapes[c],
         EndCommandBuffer(t, c, shape)
  PROVE  IInv'
<1> DEFINE advance(g, h) ==
             {IF a.ok THEN a ELSE [a EXCEPT !.g = Failed(a.g)] : a \in MaybeAdvance(g, h, c)}
           S == shape.sets
           n == shape.units
           recorded(g) == [g EXCEPT !.executable = @ \cup {c}, !.binds[c] = S, !.units[c] = n]
<1>0. /\ Good(guest, host, app, pc) /\ Settled(guest) /\ app \in AppType /\ pc' = pc
      /\ c \notin guest.executable /\ S \subseteq app.sets
  BY GoodLegal DEF IInv, EndCommandBuffer
<1>1. PICK r \in DrainEarlyRoute(guest, host) :
        IF ~r.ok THEN guest' = r.g /\ host' = r.h /\ UNCHANGED app
        ELSE /\ \E a \in advance(recorded(r.g), r.h) : guest' = a.g /\ host' = a.h
             /\ app' = [app EXCEPT !.ready = @ \cup {c}]
  BY DEF EndCommandBuffer
<1>2. /\ Good(r.g, r.h, app, pc) /\ Settled(r.g) /\ r.ok \in BOOLEAN /\ r.g \in GuestType
      /\ r.g.executable = guest.executable
  BY <1>0, DrainGood, GoodLegal DEF Move, Held
<1>3. CASE ~r.ok
  BY <1>0, <1>1, <1>2, <1>3 DEF IInv
<1>4. CASE r.ok
  <2> DEFINE X == r.g.executable \cup {c}
             R == app.ready \cup {c}
             x == [r.g EXCEPT !.executable = X, !.binds[c] = S, !.units[c] = n]
             b == [app EXCEPT !.ready = R]
  <2>1. app' = b
    BY <1>1, <1>4, Zenon
  <2>2. \E a \in advance(x, r.h) : guest' = a.g /\ host' = a.h
    BY <1>1, <1>4
  <2>3. PICK v \in MaybeAdvance(x, r.h, c) :
          /\ v.ok => guest' = v.g /\ host' = v.h
          /\ ~v.ok => \E a : a = [v EXCEPT !.g = Failed(v.g)] /\ guest' = a.g /\ host' = a.h
    BY <2>2
  <2>4. X \in SUBSET Cmds /\ R \in SUBSET X /\ S \in SUBSET Sets /\ n \in Nat
    <3>1. S \in SUBSET Sets /\ n \in Nat
      BY GuestAssumption DEF GuestAssumption
    <3> QED BY <1>2, <3>1, CallGood DEF Good, Agreed, Handles, GuestType
  <2>5. /\ \A d \in Cmds \ {c} : (d \in r.g.executable => d \in X) /\ (d \in R => d \in app.ready)
        /\ c \in R => S \subseteq app.sets
    BY <1>0
  <2>6. Anew(r.g, x, X, c, S, n) /\ Readied(app, b, R)
    BY DEF Anew, Readied
  <2>7. \A u \in Threads : pc[u].op = "submit" => pc[u].cmd # c
    BY <1>0, CallGood DEF CallOK, SubmitOK
  <2> HIDE DEF X, R, x, b, S, n
  <2>8. Good(x, r.h, b, pc) /\ Settled(x)
    BY <1>2, <2>4, <2>5, <2>6, <2>7, Rerecorded
  <2>9. /\ v.ok \in BOOLEAN /\ Good(v.g, v.h, b, pc) /\ Settled(v.g)
        /\ ~v.ok => ~Clean(v.h, b)
    BY <2>8, GoodSteady, MaybeAdvanceMoves, GoodMoves
  <2>10. CASE v.ok
    BY <1>0, <2>1, <2>3, <2>9, <2>10 DEF IInv
  <2>11. CASE ~v.ok
    <3> DEFINE w == Failed(v.g)
    <3>1. PICK a : a = [v EXCEPT !.g = w] /\ guest' = a.g /\ host' = a.h
      BY <2>3, <2>11
    <3>2. Good(w, v.h, b, pc) /\ Settled(w)
      BY <2>9, <2>11, GoodLegal, KeptSame, Wronged
    <3> HIDE DEF w
    <3>3. guest' = w /\ host' = v.h
      <4>1. Outcome(v)
        BY AdvanceShape
      <4> QED BY <3>1, <4>1 DEF Outcome
    <3> QED BY <1>0, <2>1, <3>2, <3>3 DEF IInv
  <2> QED BY <2>9, <2>10, <2>11
<1> QED BY <1>2, <1>3, <1>4

\* What the application did to fail the device disturbs no call.
LEMMA Caused ==
  ASSUME NEW g, NEW h, NEW a, NEW p, Good(g, h, a, p), NEW n \in SUBSET Causes, a.causes \subseteq n,
         NEW b, b = [a EXCEPT !.causes = n]
  PROVE  /\ Good(g, h, b, p) /\ b.causes = n
         /\ b.ready = a.ready /\ b.content = a.content
<1>0. /\ Orderly(g) /\ Holds(g, h, a) /\ Agreed(g, h, a, p) /\ Legal(a)
      /\ a \in AppType /\ p \in [Threads -> CallType] /\ h \in HostType
  BY GoodLegal DEF Good
<1>1. /\ b \in AppType /\ b.sets = a.sets /\ b.buffers = a.buffers /\ b.content = a.content
      /\ b.known = a.known /\ b.ready = a.ready /\ b.causes = n
  BY <1>0 DEF AppType
<1>2. Holds(g, h, b)
  BY <1>0, <1>1 DEF Holds
<1>3. Shadows(g, b, p) /\ Legal(b) /\ Handles(g, h, b) /\ Current(g, b)
  BY <1>0, <1>1 DEF Agreed, Shadows, Legal, Handles, Current
<1>4. ASSUME NEW u \in Threads PROVE CallOK(g, h, b, p[u])
  <2>1. CallOK(g, h, a, p[u])
    BY <1>0 DEF Agreed
  <2>2. p[u].op = "update" => UpdateOK(g, b, p[u])
    BY <1>1, <2>1 DEF CallOK, UpdateOK
  <2>3. p[u].op = "submit" => SubmitOK(g, h, b, p[u])
    BY <1>1, <2>1 DEF CallOK, SubmitOK
  <2>4. p[u].op = "free" => FreeOK(g, b, p[u])
    BY <1>1, <2>1 DEF CallOK, FreeOK
  <2>5. p[u].op = "allocate" => AllocateOK(h, b, p[u])
    BY <1>1, <2>1 DEF CallOK, AllocateOK
  <2>6. p[u].op = "destroy" => DestroyOK(g, b, p[u])
    BY <1>1, <2>1 DEF CallOK, DestroyOK
  <2> QED BY <2>2, <2>3, <2>4, <2>5, <2>6 DEF CallOK
<1>5. Clean(h, b) => Living(g, h, p)
  BY <1>0, <1>1 DEF Agreed, Clean
<1>6. Agreed(g, h, b, p)
  BY <1>0, <1>1, <1>3, <1>4, <1>5 DEF Agreed, Typed
<1> QED BY <1>0, <1>1, <1>2, <1>6 DEF Good

\* It is kept when the device fails and no call went wrong.
LEMMA BecauseIs ==
  ASSUME NEW p, Good(guest, host, app, p), NEW cause \in Causes, NEW r,
         NEW b, b = Because(cause, r)
  PROVE  /\ Good(guest, host, b, p) /\ b.ready = app.ready /\ b.content = app.content
         /\ r.g.failed /\ r.h = host => b.causes # {}
<1> DEFINE n == IF r.g.failed /\ r.h = host /\ app.causes = {} THEN {cause} ELSE app.causes
<1>1. b = [app EXCEPT !.causes = n]
  BY DEF Because
<1>2. n \in SUBSET Causes /\ app.causes \subseteq n
  BY GoodLegal DEF AppType
<1>3. r.g.failed /\ r.h = host => n # {}
  OBVIOUS
<1> HIDE DEF n
<1>4. Good(guest, host, b, p) /\ b.causes = n /\ b.ready = app.ready /\ b.content = app.content
  BY <1>1, <1>2, Caused
<1> QED BY <1>3, <1>4

\* The fallback of a specialized guest before a command it does not keep.
LEMMA GivesWay ==
  ASSUME NEW b, Good(guest, host, b, pc), Specialized(guest),
         NEW r \in FallbackToLegacy(guest, host), r.g.failed /\ r.h = host => b.causes # {}
  PROVE  Good(r.g, r.h, b, pc) /\ Settled(r.g)
<1>1. guest.active.kind # "none" => b.causes # {}
  <2> SUFFICES ASSUME guest.active.kind # "none" PROVE b.causes # {}
    OBVIOUS
  <2>1. r = [ok |-> FALSE, g |-> Failed(guest), h |-> host]
    BY DEF FallbackToLegacy
  <2>2. r.g = Failed(guest) /\ r.h = host
    BY <2>1
  <2>3. guest \in GuestType
    BY GoodLegal
  <2> QED BY <2>2, <2>3 DEF Failed, GuestType
<1>2. /\ Move(guest, host, r.g, r.h, b) /\ r.ok \in BOOLEAN
      /\ r.ok => r.g.records = {}
      /\ ~r.ok => r.g.failed
  BY <1>1, GoodSteady, FallbackMoves
<1> QED BY <1>2, GoodMoves DEF Settled

\* The fallback before an opaque command.
LEMMA OpaqueCommandStep ==
  ASSUME IInv, NEW t \in Threads, OpaqueCommand(t)
  PROVE  IInv'
<1>0. Good(guest, host, app, pc) /\ pc' = pc /\ Specialized(guest)
  BY DEF IInv, OpaqueCommand
<1>1. PICK r \in FallbackToLegacy(guest, host) :
        guest' = r.g /\ host' = r.h /\ app' = Because("opaque", r)
  BY DEF OpaqueCommand
<1> DEFINE b == Because("opaque", r)
<1>2. "opaque" \in Causes
  BY DEF Causes
<1>3. Good(guest, host, b, pc) /\ (r.g.failed /\ r.h = host => b.causes # {})
  BY <1>0, <1>2, BecauseIs
<1> HIDE DEF b
<1>4. Good(r.g, r.h, b, pc) /\ Settled(r.g)
  BY <1>0, <1>3, GivesWay
<1> QED BY <1>0, <1>1, <1>4 DEF IInv, b

\* A null handle is given back.
LEMMA FreeNullHandleStep ==
  ASSUME IInv, NEW t \in Threads, FreeNullHandle(t)
  PROVE  IInv'
<1>0. Good(guest, host, app, pc) /\ Settled(guest) /\ pc' = pc
  BY DEF IInv, FreeNullHandle
<1>1. PICK d \in DrainEarlyRoute(guest, host) :
        LET r == [d EXCEPT !.g = IF Specialized(d.g) THEN Failed(d.g) ELSE d.g]
        IN guest' = r.g /\ host' = r.h /\ app' = Because("legal", r)
  BY DEF FreeNullHandle
<1>2. /\ d = [ok |-> d.ok, g |-> d.g, h |-> d.h]
      /\ d.ok /\ Specialized(d.g) => d.h = host
  <2>1. CASE d = [ok |-> TRUE, g |-> guest, h |-> host]
    BY <2>1
  <2>2. CASE d \in FallbackToLegacy(guest, host)
    <3>1. CASE d.ok
      <4>1. /\ d = [ok |-> TRUE, g |-> [EnterLegacy(guest) EXCEPT !.failed = FALSE],
                    h |-> Realize(host, guest.records)]
        BY <2>2, <3>1 DEF FallbackToLegacy
      <4>2. d.g.stage = "Legacy"
        BY <1>0, <4>1, GoodLegal, EnterLegacyIs
      <4> QED BY <4>1, <4>2 DEF Specialized
    <3>2. CASE ~d.ok
      <4>1. d = [ok |-> d.ok, g |-> d.g, h |-> d.h]
        BY <2>2 DEF FallbackToLegacy
      <4> QED BY <3>2, <4>1
    <3> QED BY <3>1, <3>2
  <2> QED BY <2>1, <2>2 DEF DrainEarlyRoute
<1> DEFINE x == IF Specialized(d.g) THEN Failed(d.g) ELSE d.g
           r == [d EXCEPT !.g = x]
           b == Because("legal", r)
<1>3. r.g = x /\ r.h = d.h /\ guest' = x /\ host' = d.h /\ app' = b
  BY <1>1, <1>2
<1>4. "legal" \in Causes
  BY DEF Causes
<1> HIDE DEF r
<1>5. Good(guest, host, b, pc) /\ (r.g.failed /\ r.h = host => b.causes # {})
  BY <1>0, <1>4, BecauseIs
<1> HIDE DEF b
<1>6. /\ Good(d.g, d.h, b, pc) /\ Settled(d.g) /\ d.ok \in BOOLEAN
      /\ ~d.ok => ~Clean(d.h, b)
  BY <1>0, <1>1, <1>5, DrainGood
<1>7. CASE ~Specialized(d.g)
  <2>1. x = d.g
    BY <1>7
  <2> QED BY <1>0, <1>3, <1>6, <2>1 DEF IInv
<1>8. CASE Specialized(d.g)
  <2>1. x = Failed(d.g) /\ d.g \in GuestType /\ d.h \in HostType
    BY <1>6, <1>8, GoodLegal
  <2>2. Failed(d.g).failed
    BY <2>1 DEF Failed, GuestType
  <2>3. d.ok => b.causes # {}
    BY <1>2, <1>3, <1>5, <1>8, <2>1, <2>2
  <2>4. ~Clean(d.h, b) /\ Kept(d.h, d.h, b)
    BY <1>6, <2>1, <2>3, KeptSame DEF Clean
  <2>5. Good(x, d.h, b, pc) /\ Settled(x)
    BY <1>6, <2>1, <2>4, Wronged
  <2> QED BY <1>0, <1>3, <2>5 DEF IInv
<1> QED BY <1>7, <1>8

\* A recording takes no more commands.
LEMMA RecordTooManyStep ==
  ASSUME IInv, NEW t \in Threads, NEW c \in Cmds, RecordTooMany(t, c)
  PROVE  IInv'
<1>0. /\ Good(guest, host, app, pc) /\ Settled(guest) /\ pc' = pc /\ guest.stage # "Legacy"
      /\ guest \in GuestType /\ host \in HostType
  BY GoodLegal DEF IInv, RecordTooMany
<1>1. PICK r \in NamedCommandTooMany(guest, host) \cup OtherCommandTooMany(guest, host) :
        guest' = r.g /\ host' = r.h /\ app' = Because("legal", r)
  BY DEF RecordTooMany
<1> DEFINE b == Because("legal", r)
<1>2. "legal" \in Causes
  BY DEF Causes
<1>3. Good(guest, host, b, pc) /\ (r.g.failed /\ r.h = host => b.causes # {})
  BY <1>0, <1>2, BecauseIs
<1>4. guest' = r.g /\ host' = r.h /\ app' = b
  BY <1>1
<1> HIDE DEF b
<1>5. CASE r = [ok |-> FALSE, g |-> Failed(guest), h |-> host]
  <2>1. r.g = Failed(guest) /\ r.h = host
    BY <1>5
  <2>2. Failed(guest).failed
    BY <1>0 DEF Failed, GuestType
  <2>3. Kept(host, host, b) /\ ~Clean(host, b)
    BY <1>0, <1>3, <2>1, <2>2, KeptSame DEF Clean
  <2>4. Good(Failed(guest), host, b, pc) /\ Settled(Failed(guest))
    BY <1>3, <2>3, Wronged
  <2> QED BY <1>0, <1>4, <2>1, <2>4 DEF IInv
<1>6. CASE r \in DrainEarlyRoute(guest, host)
  <2>1. Good(r.g, r.h, b, pc) /\ Settled(r.g)
    BY <1>0, <1>3, <1>6, DrainGood
  <2> QED BY <1>0, <1>4, <2>1 DEF IInv
<1>7. CASE guest.stage = "Detect" /\ r = [ok |-> TRUE, g |-> EnterLegacy(guest), h |-> host]
  <2>1. r.g = EnterLegacy(guest) /\ r.h = host
    BY <1>7
  <2> DEFINE e == EnterLegacy(guest)
  <2>2. guest.records = {} /\ Holds(guest, host, b) /\ Steady(guest, host, b)
    BY <1>3, <1>7, GoodSteady DEF Good, Orderly, Tidy
  <2>3. \A k \in Slots : b.known[k] # None => host.content[k] = b.known[k]
    BY <2>2 DEF Holds, Owed
  <2>4. Routes(guest) /\ Gated(guest, pc)
    BY <1>3 DEF Good, Orderly, Agreed
  <2>5. guest.active.kind = "none"
    BY <1>0, <1>7, <2>4 DEF Routes, RoutedKinds, Specialized, GuestType, ActiveType
  <2>6. Move(guest, host, e, host, b)
    BY <1>0, <2>2, <2>3, <2>5, KeptSame, LegacyMoves
  <2>7. e.records = {}
    BY <1>0, EnterLegacyIs
  <2> HIDE DEF e
  <2>8. Good(e, host, b, pc) /\ Settled(e)
    BY <1>3, <2>6, <2>7, GoodMoves DEF Settled
  <2> QED BY <1>0, <1>4, <2>1, <2>8 DEF IInv, e
<1>8. CASE Specialized(guest) /\ r \in FallbackToLegacy(guest, host)
  <2>1. Good(r.g, r.h, b, pc) /\ Settled(r.g)
    BY <1>3, <1>8, GivesWay
  <2> QED BY <1>0, <1>4, <2>1 DEF IInv
<1>9. guest.stage = "Detect" \/ Specialized(guest)
  BY <1>0 DEF GuestType, StageSet, Specialized
<1>10. \/ r = [ok |-> FALSE, g |-> Failed(guest), h |-> host]
       \/ r \in DrainEarlyRoute(guest, host)
       \/ guest.stage = "Detect" /\ r = [ok |-> TRUE, g |-> EnterLegacy(guest), h |-> host]
       \/ guest.stage # "Detect" /\ r \in FallbackToLegacy(guest, host)
  BY DEF NamedCommandTooMany, OtherCommandTooMany
<1> QED BY <1>5, <1>6, <1>7, <1>8, <1>9, <1>10
-----------------------------------------------------------------------------
(* Submissions *)

\* No call is under way.
Quiet(p) == \A u \in Threads : p[u] = Idle

\* Then the device may do what it likes with its records, so long as it keeps them
\* in order and owes the application no less.
LEMMA QuietGood ==
  ASSUME NEW g, NEW h, NEW a, NEW p, Good(g, h, a, p), Quiet(p), NEW x,
         Orderly(x), Holds(x, h, a), x.value = g.value, x.sets = g.sets, x.binds = g.binds,
         x.executable = g.executable, x.failed = g.failed, x.active.kind = "none",
         x.stage # "Legacy", g.stage # "Legacy", Clean(h, a) => Mapped(h, x.records)
  PROVE  Good(x, h, a, p)
<1>0. /\ Agreed(g, h, a, p) /\ Legal(a)
      /\ a \in AppType /\ p \in [Threads -> CallType] /\ h \in HostType
  BY GoodLegal DEF Good
<1>1. Shadows(x, a, p) /\ Handles(x, h, a) /\ Current(x, a)
  BY <1>0 DEF Agreed, Shadows, Handles, Current
<1>2. \A u \in Threads : CallOK(x, h, a, p[u])
  BY DEF Quiet, Idle, CallOK
<1>3. Apart(p) /\ Gated(x, p)
  BY <1>0 DEF Agreed, Gated
<1>4. Clean(h, a) => Living(x, h, p)
  BY <1>0 DEF Agreed, Living
<1>5. Agreed(x, h, a, p)
  BY <1>0, <1>1, <1>2, <1>3, <1>4 DEF Agreed, Typed
<1> QED BY <1>5 DEF Good

\* The call of a submission that went through the gate.
SubmitCall(c, gate, S, a) ==
  [op |-> "submit", at |-> "rpc", cmd |-> c, gate |-> gate, sets |-> S,
   bufs |-> {a.content[k] : k \in {j \in Slots : SetOf[j] \in S}}]

\* The guest x differs from g in the submission and the early route only.
Taken(g, x) ==
  /\ x \in GuestType /\ x.stage = g.stage /\ x.failed = g.failed /\ x.sets = g.sets
  /\ x.value = g.value /\ x.records = g.records /\ x.executable = g.executable
  /\ x.binds = g.binds

\* A submission goes to its RPC when the host has what it is to read.
LEMMA Submitted ==
  ASSUME NEW g, NEW h, NEW a, NEW p, Good(g, h, a, p), Quiet(p), NEW t \in Threads,
         NEW c \in a.ready, NEW gate \in {"plain", "drained", "routed"},
         NEW x, Orderly(x), Taken(g, x), GateOK(x, gate),
         \A k \in Slots : SetOf[k] \in g.binds[c] /\ a.known[k] # None =>
           h.content[k] = a.known[k]
  PROVE  Good(x, h, a, [p EXCEPT ![t] = SubmitCall(c, gate, g.binds[c], a)])
<1> DEFINE S == g.binds[c]
           B == {a.content[k] : k \in {j \in Slots : SetOf[j] \in S}}
           q == SubmitCall(c, gate, S, a)
           n == [p EXCEPT ![t] = q]
<1>0. /\ Holds(g, h, a) /\ Agreed(g, h, a, p) /\ Legal(a) /\ g \in GuestType
      /\ a \in AppType /\ p \in [Threads -> CallType] /\ h \in HostType
  BY GoodLegal DEF Good
<1>1. c \in Cmds /\ c \in g.executable /\ S \in SUBSET Sets
  BY <1>0 DEF Agreed, Handles, GuestType
<1>2. B \in SUBSET Values /\ B \subseteq a.buffers \cup {None}
  BY <1>0 DEF AppType, Legal
<1>3. /\ q \in CallType /\ q.op = "submit" /\ q.at = "rpc" /\ q.cmd = c /\ q.gate = gate
      /\ q.sets = S /\ q.bufs = B
  BY <1>1, <1>2 DEF CallType, SubmitType, SubmitCall
<1> HIDE DEF q, B
<1>4. /\ n \in [Threads -> CallType] /\ n[t] = q
      /\ \A u \in Threads : u # t => n[u] = Idle
  BY <1>0, <1>3 DEF Quiet
<1> HIDE DEF n
<1>5. \A u \in Threads : n[u].op = "submit" \/ n[u].op = "idle"
  BY <1>3, <1>4 DEF Idle
<1>6. SubmitOK(x, h, a, q)
  BY <1>1, <1>2, <1>3 DEF SubmitOK, Taken
<1>7. \A u \in Threads : CallOK(x, h, a, n[u])
  BY <1>3, <1>4, <1>5, <1>6 DEF CallOK, Idle
<1>8. Apart(n)
  BY <1>3, <1>4, <1>5 DEF Apart, Idle
<1>9. Gated(x, n)
  BY <1>3, <1>4, <1>5 DEF Gated, Lifecycle
<1>10. Shadows(x, a, n)
  <2>1. \A k : ~Rewritten(p, k) /\ ~Rewritten(n, k)
    BY <1>5 DEF Rewritten, Quiet, Idle
  <2> QED BY <1>0, <2>1 DEF Agreed, Shadows, Taken
<1>11. Handles(x, h, a) /\ Current(x, a)
  BY <1>0 DEF Agreed, Handles, Current, Taken
<1>12. Clean(h, a) => Living(x, h, n)
  <2>1. \A s : ~Freeing(p, s)
    BY DEF Freeing, Quiet, Idle
  <2> QED BY <1>0, <2>1 DEF Agreed, Living, Taken
<1>13. Holds(x, h, a)
  BY <1>0 DEF Holds, Owed, Taken
<1>14. Agreed(x, h, a, n)
  BY <1>0, <1>4, <1>7, <1>8, <1>9, <1>10, <1>11, <1>12 DEF Agreed, Typed
<1> QED BY <1>13, <1>14 DEF Good, n, q

\* A submission that held the gate is over, and no other call is under way.
LEMMA Finished ==
  ASSUME NEW g, NEW h, NEW a, NEW p, Good(g, h, a, p), NEW t \in Threads,
         p[t].op = "submit", g.active.kind # "none"
  PROVE  LET x == ClearActive(g)
             n == [p EXCEPT ![t] = Idle]
         IN  /\ Good(x, h, a, n) /\ Quiet(n)
             /\ x.active = NoSubmit /\ x.early = NoEarly /\ Taken(g, x) /\ x.link = g.link
<1> DEFINE x == ClearActive(g)
           n == [p EXCEPT ![t] = Idle]
<1>0. /\ Orderly(g) /\ Holds(g, h, a) /\ Agreed(g, h, a, p) /\ Legal(a) /\ g \in GuestType
      /\ a \in AppType /\ p \in [Threads -> CallType] /\ h \in HostType
  BY GoodLegal DEF Good
<1>1. Idle \in CallType
  BY DEF CallType
<1>2. n \in [Threads -> CallType] /\ Quiet(n)
  <2>1. ASSUME NEW u \in Threads, u # t PROVE p[u] = Idle
    <3>1. p[u].op \notin Lifecycle /\ p[u].op # "submit"
      BY <1>0, <2>1 DEF Agreed, Gated, Apart
    <3> QED BY <1>0, <3>1, CallTypes
  <2> QED BY <1>0, <1>1, <2>1 DEF Quiet
<1> HIDE DEF n
<1>3. NoSubmit \in ActiveType
  BY DEF NoSubmit, ActiveType
<1>4. /\ Taken(g, x) /\ x.active = NoSubmit /\ x.link = g.link /\ x.nextId = g.nextId
      /\ x.early = g.early /\ x.learned = g.learned
  BY <1>0, <1>3 DEF ClearActive, GuestType, Taken
<1> HIDE DEF x
<1>5. g.early = NoEarly
  BY <1>0 DEF Orderly, Routes
<1>6. Orderly(x)
  BY <1>0, <1>4, <1>5 DEF Orderly, Tidy, Routes, Specialized, Taken, NoSubmit, RoutedKinds
<1>7. Holds(x, h, a)
  BY <1>0, <1>4 DEF Holds, Owed, Taken
<1>8. \A u \in Threads : CallOK(x, h, a, n[u])
  BY <1>2 DEF Quiet, Idle, CallOK
<1>9. Apart(n) /\ Gated(x, n)
  BY <1>2, <1>4 DEF Apart, Gated, NoSubmit, Quiet, Idle
<1>10. Shadows(x, a, n)
  <2>1. \A k : ~Rewritten(p, k)
    BY <1>0 DEF Agreed, Gated, Rewritten, Lifecycle
  <2> QED BY <1>0, <1>4, <2>1 DEF Agreed, Shadows, Taken
<1>11. Handles(x, h, a) /\ Current(x, a)
  BY <1>0, <1>4 DEF Agreed, Handles, Current, Taken
<1>12. Clean(h, a) => Living(x, h, n)
  <2>1. \A s : ~Freeing(p, s)
    BY <1>0 DEF Agreed, Gated, Freeing, Lifecycle
  <2> QED BY <1>0, <1>4, <2>1 DEF Agreed, Living, Taken
<1>13. Agreed(x, h, a, n)
  BY <1>0, <1>2, <1>8, <1>9, <1>10, <1>11, <1>12 DEF Agreed, Typed
<1>14. Good(x, h, a, n)
  BY <1>6, <1>7, <1>13 DEF Good
<1> QED BY <1>2, <1>4, <1>5, <1>14 DEF x, n

\* How a submission of c, which consumes the sets S, leaves the gate.
SubmitEnds(o, a, p, t, c, S) ==
  /\ o.gate \in {"plain", "drained", "routed", "blocked"} /\ Settled(o.g)
  /\ o.gate = "blocked" => Good(o.g, o.h, a, p)
  /\ o.gate # "blocked" => Good(o.g, o.h, a, [p EXCEPT ![t] = SubmitCall(c, o.gate, S, a)])

\* It goes out after the fallback, or not.
LEMMA DrainedGood ==
  ASSUME NEW g, NEW h, NEW a, NEW p, Good(g, h, a, p), Quiet(p), NEW t \in Threads,
         NEW c \in a.ready, Specialized(g), g.active.kind = "none",
         NEW o \in DrainedSubmit(g, h)
  PROVE  SubmitEnds(o, a, p, t, c, g.binds[c])
<1>1. PICK r \in FallbackToLegacy(g, h) :
        o = [gate |-> IF r.ok THEN "drained" ELSE "blocked", h |-> r.h,
             g |-> IF r.ok THEN [r.g EXCEPT !.active.kind = "drained"] ELSE r.g]
  BY DEF DrainedSubmit
<1>2. /\ Move(g, h, r.g, r.h, a) /\ r.ok \in BOOLEAN
      /\ r.ok => /\ r.g.stage = "Legacy" /\ r.g.records = {} /\ r.g.early = NoEarly
                 /\ r.g.active.kind = "none" /\ r.g.failed = FALSE
      /\ ~r.ok => r.g.failed
  BY GoodSteady, FallbackMoves
<1>3. Good(r.g, r.h, a, p) /\ r.g \in GuestType /\ r.g.binds = g.binds
  BY <1>2, GoodMoves, GoodLegal DEF Move, Held
<1>4. CASE r.ok
  <2> DEFINE x == [r.g EXCEPT !.active.kind = "drained"]
  <2>1. o.gate = "drained" /\ o.h = r.h /\ o.g = x
    BY <1>1, <1>4
  <2>2. /\ Taken(r.g, x) /\ x.active.kind = "drained" /\ x.early = r.g.early
        /\ x.nextId = r.g.nextId
    BY <1>3 DEF GuestType, ActiveType, Taken
  <2> HIDE DEF x
  <2>3. Orderly(x)
    <3>1. Tidy(x)
      BY <1>2, <1>3, <1>4, <2>2 DEF Good, Orderly, Tidy, Taken
    <3>2. Routes(x)
      BY <1>2, <1>4, <2>2 DEF Routes, Taken, RoutedKinds
    <3> QED BY <2>2, <3>1, <3>2 DEF Orderly, Taken
  <2>4. GateOK(x, "drained")
    BY <2>2 DEF GateOK
  <2>5. \A k \in Slots : SetOf[k] \in r.g.binds[c] /\ a.known[k] # None =>
          r.h.content[k] = a.known[k]
    BY <1>2, <1>3, <1>4 DEF Good, Holds, Owed
  <2>6. Good(x, r.h, a, [p EXCEPT ![t] = SubmitCall(c, "drained", r.g.binds[c], a)])
    BY <1>3, <2>2, <2>3, <2>4, <2>5, Submitted
  <2>7. Settled(x)
    BY <1>2, <1>4, <2>2 DEF Settled, Taken
  <2> QED BY <1>3, <2>1, <2>6, <2>7 DEF SubmitEnds
<1>5. CASE ~r.ok
  <2>1. o.gate = "blocked" /\ o.h = r.h /\ o.g = r.g
    BY <1>1, <1>5
  <2> QED BY <1>2, <1>3, <1>5, <2>1 DEF SubmitEnds, Settled
<1> QED BY <1>2, <1>4, <1>5

\* It does not go out because something went wrong.
LEMMA BlockedGood ==
  ASSUME NEW g, NEW h, NEW a, NEW p, Good(g, h, a, p), NEW t, NEW c, NEW S,
         NEW H, \A y \in H : Kept(h, y, a) /\ ~Clean(y, a),
         NEW o \in Blocked(g, H)
  PROVE  SubmitEnds(o, a, p, t, c, S)
<1>1. PICK y \in H : o = [gate |-> "blocked", g |-> Failed(g), h |-> y]
  BY DEF Blocked
<1>2. Good(Failed(g), y, a, p) /\ Settled(Failed(g))
  BY Wronged
<1>3. o.gate = "blocked" /\ o.g = Failed(g) /\ o.h = y
  BY <1>1
<1> QED BY <1>2, <1>3 DEF SubmitEnds

\* The guest x has the submission under way.
Routed(g, x, kind, I, S) ==
  /\ Taken(g, x) /\ x.early = NoEarly /\ x.nextId = g.nextId /\ x.link = g.link
  /\ x.active = [kind |-> kind, frontier |-> I, consumed |-> S]

\* The gate makes it so.
LEMMA RoutedIs ==
  ASSUME NEW g \in GuestType, NEW kind \in RoutedKinds, NEW F \in SUBSET RecordType,
         NEW S \in SUBSET Sets,
         NEW x, x = Active([g EXCEPT !.early = NoEarly], kind, F, S)
                \/ (g.early = NoEarly /\ x = Active(g, kind, F, S))
  PROVE  Routed(g, x, kind, Ids(F), S)
<1>1. NoEarly \in EarlyType
  BY DEF NoEarly, EarlyType
<1> DEFINE e == [g EXCEPT !.early = NoEarly]
<1>2. /\ e \in GuestType /\ Taken(g, e) /\ e.early = NoEarly /\ e.nextId = g.nextId
      /\ e.link = g.link
  BY <1>1 DEF GuestType, Taken
<1>3. g.early = NoEarly => e = g
  BY <1>1 DEF GuestType
<1>4. x = Active(e, kind, F, S)
  BY <1>3
<1> HIDE DEF e
<1> DEFINE I == Ids(F)
           n == [kind |-> kind, frontier |-> I, consumed |-> S]
<1>5. I \in SUBSET Nat
  BY DEF Ids, RecordType
<1> HIDE DEF I
<1>6. n \in ActiveType
  BY <1>5 DEF ActiveType
<1>7. x = [e EXCEPT !.active = n]
  BY <1>4 DEF Active, I
<1> HIDE DEF n
<1>8. /\ x \in GuestType /\ x.active = n /\ x.stage = e.stage /\ x.failed = e.failed
      /\ x.sets = e.sets /\ x.value = e.value /\ x.records = e.records
      /\ x.executable = e.executable /\ x.binds = e.binds /\ x.early = e.early
      /\ x.nextId = e.nextId /\ x.link = e.link
  BY <1>2, <1>6, <1>7 DEF GuestType
<1> QED BY <1>2, <1>8 DEF Routed, Taken, n, I

\* Its frontier is at the host: every record of the sets it consumes is released.
LEMMA RoutedGood ==
  ASSUME NEW g, NEW h, NEW a, NEW p, Good(g, h, a, p), Quiet(p), NEW t \in Threads,
         NEW c \in a.ready, Specialized(g), NEW S \in SUBSET Sets, g.binds[c] \subseteq S,
         \A r \in g.records : SetOf[r.slot] \in S => r.released,
         NEW I \in SUBSET Ids(g.records),
         \A r \in g.records : r.id \in I => r.released /\ SetOf[r.slot] \in S,
         NEW kind \in RoutedKinds,
         NEW o, o.gate = "routed", o.h = h, Routed(g, o.g, kind, I, S)
  PROVE  SubmitEnds(o, a, p, t, c, g.binds[c])
<1> DEFINE x == o.g
<1>0. Orderly(g) /\ Holds(g, h, a)
  BY DEF Good
<1>1. /\ Taken(g, x) /\ x.early = NoEarly /\ x.nextId = g.nextId /\ x.link = g.link
      /\ x.active.kind = kind /\ x.active.frontier = I /\ x.active.consumed = S
  BY DEF Routed
<1> HIDE DEF x
<1>2. Orderly(x)
  <2>1. Tidy(x)
    BY <1>0, <1>1 DEF Orderly, Tidy, Taken
  <2>2. Routes(x)
    BY <1>1 DEF Routes, Taken, Specialized, RoutedKinds
  <2> QED BY <1>1, <2>1, <2>2 DEF Orderly, Taken
<1>3. GateOK(x, "routed")
  BY <1>1 DEF GateOK
<1>4. \A k \in Slots : SetOf[k] \in g.binds[c] /\ a.known[k] # None => h.content[k] = a.known[k]
  BY <1>0 DEF Holds, Owed
<1>5. Good(x, h, a, [p EXCEPT ![t] = SubmitCall(c, "routed", g.binds[c], a)])
  BY <1>1, <1>2, <1>3, <1>4, Submitted
<1>6. Settled(x)
  BY <1>1 DEF Settled, RoutedKinds
<1> QED BY <1>5, <1>6 DEF SubmitEnds, x

\* When the rest of a frontier went out, all of it is released.
LEMMA FrontierReleased ==
  ASSUME NEW g \in GuestType, Tidy(g), NEW S, NEW R \in SUBSET Frontier(g, S),
         \A r \in Frontier(g, S) \ R : r.released
  PROVE  LET x == Release(g, R)
         IN  /\ \A r \in x.records : SetOf[r.slot] \in S => r.released
             /\ Ids(Frontier(g, S)) \in SUBSET Ids(x.records)
             /\ \A r \in x.records : r.id \in Ids(Frontier(g, S)) =>
                  r.released /\ SetOf[r.slot] \in S
<1> DEFINE x == Release(g, R)
           F == Frontier(g, S)
<1>1. F \subseteq g.records /\ R \in SUBSET g.records
      /\ \A r \in g.records : r \in F <=> SetOf[r.slot] \in S
  BY DEF Frontier
<1>2. /\ \A r \in x.records : \E q \in g.records :
           /\ q.id = r.id /\ q.slot = r.slot /\ q.val = r.val
           /\ (q \notin R /\ r = q) \/ (q \in R /\ r = [q EXCEPT !.released = TRUE] /\ r.released)
      /\ \A q \in g.records : \E r \in x.records :
           r.id = q.id /\ r.slot = q.slot /\ (r.released \/ r = q)
  BY <1>1, ReleaseRecords
<1> HIDE DEF x
<1>3. ASSUME NEW r \in x.records, SetOf[r.slot] \in S PROVE r.released
  BY <1>1, <1>2, <1>3
<1>4. Ids(F) \subseteq Ids(x.records)
  BY <1>1, <1>2 DEF Ids
<1>5. ASSUME NEW r \in x.records, r.id \in Ids(F) PROVE SetOf[r.slot] \in S
  <2>1. PICK f \in F : f.id = r.id
    BY <1>5 DEF Ids
  <2>2. PICK q \in g.records : q.id = r.id /\ q.slot = r.slot
    BY <1>2
  <2>3. f = q
    BY <1>1, <2>1, <2>2 DEF Tidy
  <2> QED BY <1>1, <2>2, <2>3
<1> QED BY <1>3, <1>4, <1>5 DEF x

\* So a submission may go when what was missing of its frontier reached the host.
LEMMA RouteGood ==
  ASSUME NEW g, NEW h, NEW a, NEW p, Good(g, h, a, p), Quiet(p), NEW t \in Threads,
         NEW c \in a.ready, Specialized(g), NEW S \in SUBSET Sets, g.binds[c] \subseteq S,
         NEW R \in SUBSET Frontier(g, S), \A r \in Frontier(g, S) \ R : r.released,
         NEW y, Kept(h, y, a), Reached(y, R, a), NEW kind \in RoutedKinds,
         NEW o, o.gate = "routed", o.h = y,
         Routed(Release(g, R), o.g, kind, Ids(Frontier(g, S)), S)
  PROVE  SubmitEnds(o, a, p, t, c, g.binds[c])
<1> DEFINE x == Release(g, R)
           I == Ids(Frontier(g, S))
<1>1. g \in GuestType /\ Tidy(g) /\ R \in SUBSET g.records /\ Steady(g, h, a)
  BY GoodSteady DEF Good, Orderly, Frontier
<1>2. Move(g, h, x, y, a) /\ Alike(g, x)
  BY <1>1, ReleaseMoves, ReleaseIs
<1>3. Good(x, y, a, p)
  BY <1>2, GoodMoves
<1>4. /\ \A r \in x.records : SetOf[r.slot] \in S => r.released
      /\ I \in SUBSET Ids(x.records)
      /\ \A r \in x.records : r.id \in I => r.released /\ SetOf[r.slot] \in S
  BY <1>1, FrontierReleased
<1>5. Specialized(x) /\ x.binds = g.binds
  BY <1>2 DEF Alike, Specialized
<1>6. Routed(x, o.g, kind, I, S)
  OBVIOUS
<1> HIDE DEF x, I
<1>7. SubmitEnds(o, a, p, t, c, x.binds[c])
  BY <1>3, <1>4, <1>5, <1>6, RoutedGood
<1> QED BY <1>5, <1>7

\* A chunk that did not go out leaves a device that may fall back, or fail.
LEMMA ChunksDrained ==
  ASSUME NEW g, NEW h, NEW a, NEW p, Good(g, h, a, p), Quiet(p), NEW t \in Threads,
         NEW c \in a.ready, Specialized(g), g.active.kind = "none",
         NEW R \in SUBSET g.records, NEW b \in RouteChunks(g, h, R),
         NEW o, o \in DrainedSubmit(b.g, b.h) \/ (b.reply = "invalid" /\ o \in Blocked(b.g, {b.h}))
  PROVE  SubmitEnds(o, a, p, t, c, g.binds[c])
<1>1. Move(g, h, b.g, b.h, a) /\ Alike(g, b.g) /\ (b.reply = "invalid" => ~Clean(b.h, a))
  BY GoodSteady, RouteChunksMoves
<1>2. /\ Good(b.g, b.h, a, p) /\ Specialized(b.g) /\ b.g.active.kind = "none"
      /\ b.g.binds = g.binds /\ b.h \in HostType
  BY <1>1, GoodMoves, GoodLegal DEF Alike, Specialized
<1>3. CASE o \in DrainedSubmit(b.g, b.h)
  <2>1. SubmitEnds(o, a, p, t, c, b.g.binds[c])
    BY <1>2, <1>3, DrainedGood
  <2> QED BY <1>2, <2>1
<1>4. CASE b.reply = "invalid" /\ o \in Blocked(b.g, {b.h})
  <2>1. \A y \in {b.h} : Kept(b.h, y, a) /\ ~Clean(y, a)
    BY <1>1, <1>2, <1>4, KeptSame
  <2> QED BY <1>2, <1>4, <2>1, BlockedGood
<1> QED BY <1>3, <1>4

\* What a submission needs of the command buffer it is for.
LEMMA ReadyIs ==
  ASSUME NEW g, NEW h, NEW a, NEW p, Good(g, h, a, p), NEW c \in a.ready
  PROVE  /\ c \in Cmds /\ g.binds[c] \in SUBSET Sets /\ g.binds[c] \subseteq g.sets
         /\ g \in GuestType /\ Tidy(g) /\ Routes(g) /\ Steady(g, h, a)
         /\ Frontier(g, g.binds[c]) \in SUBSET g.records /\ g.records \in SUBSET RecordType
BY GoodLegal, GoodSteady DEF Good, Agreed, Handles, GuestType, Orderly, Frontier

\* The application owns to it when a submission has failed the device.
Owned(g, h, a, o) == o.g.failed /\ o.h = h => a.causes # {}

\* A submission of too many units.
LEMMA OversizedGood ==
  ASSUME NEW g, NEW h, NEW a, NEW p, Good(g, h, a, p), NEW t, NEW c, NEW S,
         NEW o \in Blocked(g, {h}), Owned(g, h, a, o)
  PROVE  SubmitEnds(o, a, p, t, c, S)
<1>0. g \in GuestType /\ h \in HostType
  BY GoodLegal
<1>1. o.g = Failed(g) /\ o.h = h
  BY DEF Blocked
<1>2. o.g.failed
  BY <1>0, <1>1 DEF Failed, GuestType
<1>3. \A y \in {h} : Kept(h, y, a) /\ ~Clean(y, a)
  BY <1>0, <1>1, <1>2, KeptSame DEF Owned, Clean
<1> QED BY <1>3, BlockedGood

\* The normal route of a submission.
LEMMA NormalGood ==
  ASSUME NEW g, NEW h, NEW a, NEW p, Good(g, h, a, p), Quiet(p), NEW t \in Threads,
         NEW c \in a.ready, Specialized(g), g.active.kind = "none", g.early = NoEarly,
         NEW o \in NormalRoute(g, h, c), Oversized(g, c) => Owned(g, h, a, o)
  PROVE  SubmitEnds(o, a, p, t, c, g.binds[c])
<1>1. CASE Oversized(g, c)
  <2>1. o \in Blocked(g, {h})
    BY <1>1 DEF NormalRoute
  <2> QED BY <1>1, <2>1, OversizedGood
<1>2. CASE ~Oversized(g, c)
  <2> DEFINE S == g.binds[c]
             F == Frontier(g, S)
  <2>1. PICK b \in RouteChunks(g, h, F) :
          o \in (CASE b.reply = "accepted" ->
                        {[gate |-> "routed", g |-> Active(b.g, g.stage, F, S), h |-> b.h]}
                   [] b.reply = "refused" -> DrainedSubmit(b.g, b.h)
                   [] b.reply = "invalid" -> Blocked(b.g, {b.h}))
    BY <1>2 DEF NormalRoute
  <2>2. /\ S \in SUBSET Sets /\ F \in SUBSET g.records /\ Steady(g, h, a) /\ F \in SUBSET RecordType
    BY ReadyIs
  <2>3. /\ b.reply \in {"refused", "accepted", "invalid"} /\ Alike(g, b.g)
        /\ b.reply = "accepted" => /\ b.g = Release(g, F) /\ Reached(b.h, F, a)
                                   /\ Kept(h, b.h, a)
    BY <2>2, RouteChunksMoves
  <2>4. CASE b.reply = "accepted"
    <3>1. o = [gate |-> "routed", g |-> Active(b.g, g.stage, F, S), h |-> b.h]
      BY <2>1, <2>4
    <3>2. o.gate = "routed" /\ o.g = Active(b.g, g.stage, F, S) /\ o.h = b.h
      BY <3>1
    <3>3. b.g \in GuestType /\ b.g.early = NoEarly /\ g.stage \in RoutedKinds
      BY <2>3 DEF Alike, Specialized, RoutedKinds
    <3>4. Routed(b.g, o.g, g.stage, Ids(F), S)
      BY <2>2, <3>2, <3>3, RoutedIs
    <3>5. F \in SUBSET Frontier(g, S) /\ \A r \in Frontier(g, S) \ F : r.released
      OBVIOUS
    <3> HIDE DEF S
    <3>6. S = g.binds[c]
      BY DEF S
    <3>7. Routed(Release(g, F), o.g, g.stage, Ids(Frontier(g, S)), S)
      BY <2>3, <2>4, <3>4
    <3> QED BY <2>2, <2>3, <2>4, <3>2, <3>3, <3>5, <3>6, <3>7, RouteGood
  <2>5. CASE b.reply # "accepted"
    <3>1. o \in DrainedSubmit(b.g, b.h) \/ (b.reply = "invalid" /\ o \in Blocked(b.g, {b.h}))
      BY <2>1, <2>3, <2>5
    <3> QED BY <2>2, <3>1, ChunksDrained
  <2> QED BY <2>4, <2>5
<1> QED BY <1>1, <1>2

\* What an early route left goes out with its submission.
LEMMA EarlyGood ==
  ASSUME NEW g, NEW h, NEW a, NEW p, Good(g, h, a, p), Quiet(p), NEW t \in Threads,
         NEW c \in a.ready, Specialized(g), g.active.kind = "none",
         NEW o \in CompleteEarlyRoute(g, h, c)
  PROVE  SubmitEnds(o, a, p, t, c, g.binds[c])
<1> DEFINE S == g.binds[c]
           F == Frontier(g, S)
           R == {r \in F : ~r.released}
<1>1. CASE o \in DrainedSubmit(g, h)
  BY <1>1, DrainedGood
<1>2. ASSUME NEW b \in RouteChunks(g, h, R),
             o \in (IF b.reply = "accepted"
                    THEN {[gate |-> "routed", h |-> b.h,
                           g |-> Active([b.g EXCEPT !.early = NoEarly], "Fast", F, S)]}
                    ELSE DrainedSubmit(b.g, b.h))
      PROVE  SubmitEnds(o, a, p, t, c, S)
  <2>1. /\ S \in SUBSET Sets /\ F \in SUBSET g.records /\ Steady(g, h, a)
        /\ F \in SUBSET RecordType /\ R \in SUBSET g.records
    BY ReadyIs
  <2>2. /\ Alike(g, b.g)
        /\ b.reply = "accepted" => /\ b.g = Release(g, R) /\ Reached(b.h, R, a)
                                   /\ Kept(h, b.h, a)
    BY <2>1, RouteChunksMoves
  <2>3. CASE b.reply = "accepted"
    <3>1. /\ o.gate = "routed" /\ o.g = Active([b.g EXCEPT !.early = NoEarly], "Fast", F, S)
          /\ o.h = b.h
      BY <1>2, <2>3
    <3>2. b.g \in GuestType /\ "Fast" \in RoutedKinds
      BY <2>2 DEF Alike, RoutedKinds
    <3>3. Routed(b.g, o.g, "Fast", Ids(F), S)
      BY <2>1, <3>1, <3>2, RoutedIs
    <3>4. R \in SUBSET Frontier(g, S) /\ \A r \in Frontier(g, S) \ R : r.released
      OBVIOUS
    <3> HIDE DEF S, R
    <3>5. S = g.binds[c]
      BY DEF S
    <3>6. Routed(Release(g, R), o.g, "Fast", Ids(Frontier(g, S)), S)
      BY <2>2, <2>3, <3>3
    <3> QED BY <2>1, <2>2, <2>3, <3>1, <3>2, <3>4, <3>5, <3>6, RouteGood
  <2>4. CASE b.reply # "accepted"
    <3>1. o \in DrainedSubmit(b.g, b.h)
      BY <1>2, <2>4
    <3> QED BY <2>1, <3>1, ChunksDrained
  <2> QED BY <2>3, <2>4
<1>3. \/ o \in DrainedSubmit(g, h)
      \/ \E b \in RouteChunks(g, h, R) :
           o \in (IF b.reply = "accepted"
                  THEN {[gate |-> "routed", h |-> b.h,
                         g |-> Active([b.g EXCEPT !.early = NoEarly], "Fast", F, S)]}
                  ELSE DrainedSubmit(b.g, b.h))
  BY DEF CompleteEarlyRoute
<1> QED BY <1>1, <1>2, <1>3

\* An id of its own for each slot of a finite set.
Numbering(K, n) ==
  {f \in [K -> n .. n + Cardinality(K) - 1] : \A j, k \in K : j # k => f[j] # f[k]}

\* A finite set has a numbering from any number on.
LEMMA NumberingExists ==
  ASSUME NEW K, IsFiniteSet(K), NEW n \in Nat
  PROVE  Numbering(K, n) # {}
<1> DEFINE m == Cardinality(K)
<1>1. m \in Nat /\ ExistsBijection(1 .. m, K)
  BY FS_CardinalityType
<1> HIDE DEF m
<1>2. PICK e \in Bijection(1 .. m, K) : TRUE
  BY <1>1 DEF ExistsBijection
<1>3. /\ e \in [1 .. m -> K] /\ \A k \in K : \E i \in 1 .. m : e[i] = k
  BY DEF Bijection, Injection, Surjection
<1> DEFINE f == [k \in K |-> n + (CHOOSE i \in 1 .. m : e[i] = k) - 1]
<1>4. \A k \in K : \E i \in 1 .. m : e[i] = k /\ f[k] = n + i - 1
  BY <1>3
<1>5. f \in [K -> n .. n + m - 1]
  <2>1. ASSUME NEW k \in K PROVE f[k] \in n .. n + m - 1
    <3>1. PICK i \in 1 .. m : f[k] = n + i - 1
      BY <1>4
    <3> QED BY <1>1, <3>1
  <2>2. f = [k \in K |-> f[k]]
    OBVIOUS
  <2> HIDE DEF f
  <2> QED BY <2>1, <2>2
<1>6. ASSUME NEW j \in K, NEW k \in K, j # k PROVE f[j] # f[k]
  <2>1. PICK i \in 1 .. m : e[i] = j /\ f[j] = n + i - 1
    BY <1>4
  <2>2. PICK l \in 1 .. m : e[l] = k /\ f[k] = n + l - 1
    BY <1>4
  <2> HIDE DEF f
  <2>3. i # l
    BY <1>6, <2>1, <2>2
  <2> QED BY <1>1, <2>1, <2>2, <2>3
<1> HIDE DEF f
<1>7. f \in Numbering(K, n)
  BY <1>5, <1>6 DEF Numbering, m
<1> QED BY <1>7

\* The records that recovery makes are pending, one for each valid slot of S.
Renewed(g, S, id, k) == [id |-> id[k], slot |-> k, val |-> g.value[k], released |-> FALSE]

\* What recovery makes of the guest.
LEMMA RebuiltIs ==
  ASSUME NEW g \in GuestType, NEW S
  PROVE  LET x == Rebuilt(g, S)
             K == Valid(g, S)
         IN  \E id \in Numbering(K, g.nextId) :
               /\ Alike([g EXCEPT !.nextId = x.nextId], x)
               /\ x.nextId = g.nextId + Cardinality(K) /\ x.nextId \in Nat
               /\ x.records = {Renewed(g, S, id, k) : k \in K}
               /\ x.link = [k \in Slots |-> IF k \in K THEN id[k] ELSE 0]
               /\ IsFiniteSet(K) /\ Cardinality(K) \in Nat /\ K \subseteq Slots
<1> DEFINE K == Valid(g, S)
           x == Rebuilt(g, S)
           id == CHOOSE f \in [K -> g.nextId .. g.nextId + Cardinality(K) - 1] :
                   \A j, k \in K : j # k => f[j] # f[k]
           R == {[id |-> id[k], slot |-> k, val |-> g.value[k], released |-> FALSE] : k \in K}
           l == [k \in Slots |-> IF k \in K THEN id[k] ELSE 0]
<1>1. K \subseteq Slots /\ IsFiniteSet(K) /\ Cardinality(K) \in Nat /\ g.nextId \in Nat
  <2>1. K \subseteq Slots /\ IsFiniteSet(Slots) /\ g.nextId \in Nat
    BY GuestAssumption DEF Valid, GuestAssumption, GuestType
  <2> HIDE DEF K
  <2> QED BY <2>1, FS_Subset, FS_CardinalityType
<1>2. id \in Numbering(K, g.nextId)
  <2>1. Numbering(K, g.nextId) # {}
    BY <1>1, NumberingExists
  <2> HIDE DEF K
  <2> QED BY <2>1 DEF Numbering
<1>3. x = [g EXCEPT !.records = R, !.link = l, !.nextId = g.nextId + Cardinality(K)]
  BY Zenon DEF Rebuilt
<1>4. \A k \in K : id[k] \in Nat
  BY <1>1, <1>2 DEF Numbering
<1>5. \A k \in K : g.value[k] \in Values
  BY <1>1 DEF GuestType
<1>6. R \in SUBSET RecordType /\ l \in [Slots -> Nat] /\ g.nextId + Cardinality(K) \in Nat
  <2> HIDE DEF id, K
  <2>1. R \in SUBSET RecordType
    <3>1. ASSUME NEW k \in K
          PROVE  [id |-> id[k], slot |-> k, val |-> g.value[k], released |-> FALSE] \in RecordType
      BY <1>1, <1>4, <1>5 DEF RecordType
    <3> QED BY <3>1
  <2>2. l \in [Slots -> Nat]
    BY <1>4
  <2> QED BY <1>1, <2>1, <2>2
<1>7. R = {Renewed(g, S, id, k) : k \in K}
  BY DEF Renewed
<1> HIDE DEF id, K, R, l, x
<1> DEFINE y == [g EXCEPT !.nextId = x.nextId]
<1>8. /\ x \in GuestType /\ x.nextId = g.nextId + Cardinality(K) /\ x.records = R /\ x.link = l
      /\ x.stage = g.stage /\ x.failed = g.failed
      /\ x.sets = g.sets /\ x.value = g.value /\ x.active = g.active /\ x.early = g.early
      /\ x.learned = g.learned /\ x.executable = g.executable /\ x.binds = g.binds
  BY <1>3, <1>6 DEF GuestType
<1>9. /\ y.nextId = x.nextId /\ y.stage = g.stage /\ y.failed = g.failed
      /\ y.sets = g.sets /\ y.value = g.value /\ y.active = g.active /\ y.early = g.early
      /\ y.learned = g.learned /\ y.executable = g.executable /\ y.binds = g.binds
  BY DEF GuestType
<1>10. Alike(y, x)
  BY <1>8, <1>9 DEF Alike
<1>11. x.link = [k \in Slots |-> IF k \in K THEN id[k] ELSE 0]
  BY <1>8 DEF l
<1> QED BY <1>1, <1>2, <1>7, <1>8, <1>10, <1>11, <1>6 DEF x, K

\* Recovery owes the application what the records before it did.
LEMMA RebuiltGood ==
  ASSUME NEW g, NEW h, NEW a, NEW p, Good(g, h, a, p), Quiet(p), Specialized(g), ~g.failed,
         g.active.kind = "none", g.early = NoEarly,
         NEW S \in SUBSET Sets, CanRebuild(g, S), \A r \in g.records : SetOf[r.slot] \in S
  PROVE  LET x == Rebuilt(g, S)
         IN  /\ Good(x, h, a, p) /\ Specialized(x) /\ x.active.kind = "none"
             /\ x.early = NoEarly /\ x.binds = g.binds
             /\ x.records = Frontier(x, S)
<1> DEFINE K == Valid(g, S)
           x == Rebuilt(g, S)
<1>0. /\ Orderly(g) /\ Holds(g, h, a) /\ Agreed(g, h, a, p) /\ Legal(a) /\ g \in GuestType
      /\ a \in AppType /\ p \in [Threads -> CallType] /\ h \in HostType /\ Tidy(g)
  BY GoodLegal DEF Good, Orderly
<1>1. PICK id \in Numbering(K, g.nextId) :
        /\ Alike([g EXCEPT !.nextId = x.nextId], x)
        /\ x.nextId = g.nextId + Cardinality(K) /\ x.nextId \in Nat
        /\ x.records = {Renewed(g, S, id, k) : k \in K}
        /\ x.link = [k \in Slots |-> IF k \in K THEN id[k] ELSE 0]
        /\ IsFiniteSet(K) /\ Cardinality(K) \in Nat /\ K \subseteq Slots
  BY <1>0, RebuiltIs
<1>2. /\ x \in GuestType /\ x.stage = g.stage /\ x.failed = g.failed
      /\ x.sets = g.sets /\ x.value = g.value /\ x.active = g.active /\ x.early = g.early
      /\ x.learned = g.learned /\ x.executable = g.executable /\ x.binds = g.binds
  <2> DEFINE y == [g EXCEPT !.nextId = x.nextId]
  <2>1. /\ y.stage = g.stage /\ y.failed = g.failed
        /\ y.sets = g.sets /\ y.value = g.value /\ y.active = g.active /\ y.early = g.early
        /\ y.learned = g.learned /\ y.executable = g.executable /\ y.binds = g.binds
    BY <1>0 DEF GuestType
  <2> HIDE DEF x
  <2>2. Alike(y, x)
    BY <1>1
  <2> HIDE DEF y
  <2> QED BY <2>1, <2>2 DEF Alike
<1>3. /\ \A k \in Slots : k \in K <=> SetOf[k] \in S /\ g.value[k] # None
      /\ Cardinality(K) <= MaxRecords /\ S \subseteq g.sets /\ g.nextId \in Nat
  BY <1>0 DEF Valid, CanRebuild, GuestType
<1>4. /\ \A k \in K : id[k] \in Nat /\ id[k] < x.nextId
      /\ \A j, k \in K : j # k => id[j] # id[k]
  BY <1>1, <1>3 DEF Numbering
<1>5. \A r \in x.records : /\ r.slot \in K /\ r.id = id[r.slot] /\ r.val = g.value[r.slot]
                           /\ ~r.released /\ r = Renewed(g, S, id, r.slot)
  BY <1>1 DEF Renewed
<1>6. ASSUME NEW k \in K PROVE \E r \in x.records : r.slot = k /\ ~r.released
  <2> DEFINE r == Renewed(g, S, id, k)
  <2>1. r \in x.records
    BY <1>1
  <2>2. r.slot = k /\ ~r.released
    BY DEF Renewed
  <2> QED BY <2>1, <2>2
<1>7. IsFiniteSet(x.records) /\ Cardinality(x.records) <= Cardinality(K)
  <2> DEFINE f == [k \in K |-> Renewed(g, S, id, k)]
  <2>1. x.records = {f[k] : k \in K} /\ DOMAIN f = K /\ f = [k \in K |-> f[k]]
    BY <1>1
  <2> HIDE DEF f, K, x
  <2>2. IsFiniteSet(K) /\ DOMAIN f = K /\ f = [k \in K |-> f[k]]
    BY <1>1, <2>1
  <2>3. IsFiniteSet({f[k] : k \in K}) /\ Cardinality({f[k] : k \in K}) <= Cardinality(K)
    BY <2>2, FiniteImage
  <2> QED BY <2>1, <2>3
<1> HIDE DEF x, K
<1>8. Tidy(x)
  <2>1. Cardinality(x.records) <= MaxRecords
    BY <1>1, <1>3, <1>7, FS_CardinalityType, GuestAssumption DEF GuestAssumption
  <2>2. \A r \in x.records : /\ r.id < x.nextId /\ x.value[r.slot] = r.val
                             /\ x.link[r.slot] = r.id /\ SetOf[r.slot] \in x.sets
    BY <1>1, <1>2, <1>3, <1>4, <1>5
  <2>3. \A r, q \in x.records : r.slot = q.slot \/ r.id = q.id => r = q
    BY <1>4, <1>5
  <2> QED BY <1>2, <1>7, <2>1, <2>2, <2>3 DEF Tidy, Specialized
<1>9. Orderly(x)
  BY <1>2, <1>8 DEF Orderly, Routes, RoutedKinds
<1>10. Holds(x, h, a)
  <2>1. ASSUME NEW k \in Slots, a.known[k] # None, h.content[k] # a.known[k]
        PROVE  Owed(x, k)
    <3>1. Owed(g, k)
      BY <1>0, <2>1 DEF Holds
    <3>2. SetOf[k] \in S
      BY <3>1 DEF Owed
    <3>3. g.value[k] # None
      BY <1>0, <2>1 DEF Agreed, Shadows, Specialized, Rewritten, Quiet, Idle
    <3> QED BY <1>3, <1>6, <3>2, <3>3 DEF Owed
  <2> QED BY <2>1 DEF Holds
<1>11. Clean(h, a) => Mapped(h, x.records)
  <2>1. \A s : ~Freeing(p, s)
    BY DEF Freeing, Quiet, Idle
  <2> QED BY <1>0, <1>1, <1>3, <1>5, <2>1 DEF Agreed, Living, Mapped
<1>12. x.stage # "Legacy" /\ g.stage # "Legacy" /\ x.active.kind = "none"
  BY <1>2 DEF Specialized
<1>13. Good(x, h, a, p)
  BY <1>2, <1>9, <1>10, <1>11, <1>12, QuietGood
<1>14. x.records = Frontier(x, S)
  BY <1>1, <1>3, <1>5 DEF Frontier
<1> QED BY <1>2, <1>13, <1>14 DEF Specialized, x

\* Recovery routes every valid slot of the sets it concerns, or falls back.
LEMMA RecoveryGood ==
  ASSUME NEW g, NEW h, NEW a, NEW p, Good(g, h, a, p), Quiet(p), NEW t \in Threads,
         NEW c \in a.ready, Specialized(g), ~g.failed, g.active.kind = "none",
         g.early = NoEarly, NEW o \in RecoveryRoute(g, h, c),
         Oversized(g, c) => Owned(g, h, a, o)
  PROVE  SubmitEnds(o, a, p, t, c, g.binds[c])
<1> DEFINE S == Replayed(g, c)
           n == Rebuilt(g, S)
<1>0. /\ c \in Cmds /\ g.binds[c] \in SUBSET Sets /\ g \in GuestType /\ Steady(g, h, a)
      /\ h \in HostType /\ a \in AppType
  BY ReadyIs, GoodLegal
<1>1. /\ S \in SUBSET Sets /\ g.binds[c] \subseteq S
      /\ \A r \in g.records : SetOf[r.slot] \in S
  BY <1>0, GuestAssumption DEF Replayed, GuestType, RecordType, GuestAssumption
<1>2. CASE ~CanRebuild(g, S)
  <2>1. o \in DrainedSubmit(g, h)
    BY <1>2 DEF RecoveryRoute
  <2> QED BY <2>1, DrainedGood
<1>3. CASE CanRebuild(g, S)
  <2>1. \/ Oversized(g, c) /\ o \in Blocked(n, {h})
        \/ o \in Blocked(n, Faulty({h}))
        \/ \E b \in Route(h, n.records) :
             o \in (IF b.reply = "accepted"
                    THEN {[gate |-> "routed", h |-> b.h,
                           g |-> Active(Release(n, n.records), "Recovery", n.records, S)]}
                    ELSE DrainedSubmit(n, b.h))
    BY <1>3 DEF RecoveryRoute
  <2> HIDE DEF S
  <2>2. /\ Good(n, h, a, p) /\ Specialized(n) /\ n.active.kind = "none"
        /\ n.early = NoEarly /\ n.binds = g.binds /\ n.records = Frontier(n, S)
    BY <1>1, <1>3, RebuiltGood
  <2> HIDE DEF n
  <2>3. CASE Oversized(g, c) /\ o \in Blocked(n, {h})
    <3>1. Owned(n, h, a, o)
      BY <2>3 DEF Owned
    <3> QED BY <2>2, <2>3, <3>1, OversizedGood
  <2>4. CASE o \in Blocked(n, Faulty({h}))
    <3>1. \A y \in {h} : Kept(h, y, a)
      BY <1>0, KeptSame
    <3>2. \A y \in Faulty({h}) : Kept(h, y, a) /\ ~Clean(y, a)
      BY <1>0, <3>1, FaultyKeeps
    <3> QED BY <2>2, <2>4, <3>2, BlockedGood
  <2>5. ASSUME NEW b \in Route(h, n.records),
               o \in (IF b.reply = "accepted"
                      THEN {[gate |-> "routed", h |-> b.h,
                             g |-> Active(Release(n, n.records), "Recovery", n.records, S)]}
                      ELSE DrainedSubmit(n, b.h))
        PROVE  SubmitEnds(o, a, p, t, c, n.binds[c])
    <3>1. Steady(n, h, a) /\ n \in GuestType
      BY <2>2, GoodSteady, GoodLegal
    <3> DEFINE R == n.records
    <3>2. /\ R \in SUBSET RecordType /\ (\A r, q \in R : r.slot = q.slot => r = q)
          /\ Carry(R, a)
      BY <3>1, RecordsSendable
    <3>3. Kept(h, b.h, a) /\ (b.reply = "accepted" => Reached(b.h, R, a))
      <4> HIDE DEF R
      <4> QED BY <1>0, <2>5, <3>2, RouteIs DEF R
    <3>4. CASE b.reply = "accepted"
      <4>1. /\ o.gate = "routed" /\ o.h = b.h
            /\ o.g = Active(Release(n, R), "Recovery", R, S)
        BY <2>5, <3>4
      <4> DEFINE x == Release(n, R)
      <4>2. x \in GuestType /\ x.early = NoEarly /\ "Recovery" \in RoutedKinds
        BY <2>2, <3>1, ReleaseIs DEF Alike, RoutedKinds
      <4> HIDE DEF x
      <4>3. Routed(x, o.g, "Recovery", Ids(R), S)
        BY <1>1, <3>2, <4>1, <4>2, RoutedIs DEF x
      <4>4. /\ R \in SUBSET Frontier(n, S) /\ \A r \in Frontier(n, S) \ R : r.released
            /\ Ids(R) = Ids(Frontier(n, S))
        BY <2>2
      <4>5. Routed(Release(n, R), o.g, "Recovery", Ids(Frontier(n, S)), S)
        BY <4>3, <4>4 DEF x
      <4>6. n.binds[c] \subseteq S
        BY <1>1, <2>2
      <4> HIDE DEF R
      <4> QED BY <1>1, <2>2, <3>3, <3>4, <4>1, <4>2, <4>4, <4>5, <4>6, RouteGood
    <3>5. CASE b.reply # "accepted"
      <4>1. o \in DrainedSubmit(n, b.h)
        BY <2>5, <3>5
      <4>2. Good(n, b.h, a, p)
        BY <2>2, <3>1, <3>3, HostMoves, GoodMoves
      <4> QED BY <2>2, <4>1, <4>2, DrainedGood
    <3> QED BY <3>4, <3>5
  <2> QED BY <2>1, <2>2, <2>3, <2>4, <2>5
<1> QED BY <1>2, <1>3

\* A submission in Detect goes out as it is, and the occurrence with it.
LEMMA DetectGood ==
  ASSUME NEW g, NEW h, NEW a, NEW p, Good(g, h, a, p), Quiet(p), NEW t \in Threads,
         NEW c \in a.ready, g.stage = "Detect", ~g.failed, g.active.kind = "none",
         NEW o \in DetectSubmit(g, h)
  PROVE  SubmitEnds(o, a, p, t, c, g.binds[c])
<1> DEFINE x == ClearOccurrence(g)
           l == [x EXCEPT !.stage = "Learn"]
           e == EnterLegacy(g)
<1>0. /\ Orderly(g) /\ Holds(g, h, a) /\ Agreed(g, h, a, p) /\ g \in GuestType /\ Steady(g, h, a)
      /\ a \in AppType /\ h \in HostType /\ Tidy(g) /\ Routes(g) /\ g.records = {}
  BY GoodLegal, GoodSteady DEF Good, Orderly, Tidy
<1>1. \A k \in Slots : a.known[k] # None => h.content[k] = a.known[k]
  BY <1>0 DEF Holds, Owed
<1>2. /\ x \in GuestType /\ x.records = {} /\ x.link = Unlinked /\ x.stage = g.stage
      /\ x.failed = g.failed /\ x.nextId = g.nextId /\ x.sets = g.sets /\ x.value = g.value
      /\ x.active = g.active /\ x.early = g.early /\ x.learned = g.learned
      /\ x.executable = g.executable /\ x.binds = g.binds
  BY <1>0 DEF ClearOccurrence, GuestType, Unlinked
<1> HIDE DEF x
<1>3. /\ l \in GuestType /\ l.records = {} /\ l.link = Unlinked /\ l.stage = "Learn"
      /\ l.failed = g.failed /\ l.nextId = g.nextId /\ l.sets = g.sets /\ l.value = g.value
      /\ l.active = g.active /\ l.early = g.early /\ l.learned = g.learned
      /\ l.executable = g.executable /\ l.binds = g.binds
  BY <1>2 DEF GuestType, StageSet
<1> HIDE DEF l
<1>4. IsFiniteSet({}) /\ Cardinality({}) = 0 /\ 0 <= MaxRecords
  BY FS_EmptySet, GuestAssumption DEF GuestAssumption
<1>5. ASSUME NEW y \in {x, l} PROVE Good(y, h, a, p) /\ y.active.kind = "none" /\ y.records = {}
                                   /\ y.binds = g.binds
  <2>0. /\ y \in GuestType /\ y.records = {} /\ y.stage \in {"Detect", "Learn"}
        /\ y.failed = g.failed /\ y.sets = g.sets /\ y.value = g.value
        /\ y.active = g.active /\ y.early = g.early /\ y.binds = g.binds
        /\ y.executable = g.executable
    BY <1>2, <1>3
  <2>1. Tidy(y) /\ Routes(y)
    BY <1>0, <1>4, <2>0 DEF Tidy, Routes, RoutedKinds
  <2>2. Orderly(y)
    BY <2>0, <2>1 DEF Orderly
  <2>3. Holds(y, h, a)
    BY <1>1 DEF Holds
  <2>4. Mapped(h, y.records)
    BY <2>0 DEF Mapped
  <2>5. y.stage # "Legacy" /\ g.stage # "Legacy" /\ y.active.kind = "none"
    BY <2>0
  <2>6. Good(y, h, a, p)
    BY <2>0, <2>2, <2>3, <2>4, <2>5, QuietGood
  <2> QED BY <2>0, <2>5, <2>6
<1>6. /\ Good(e, h, a, p) /\ e.active.kind = "none" /\ e.records = {} /\ e.binds = g.binds
  <2>1. Move(g, h, e, h, a)
    BY <1>0, <1>1, KeptSame, LegacyMoves
  <2>2. /\ e.active = NoSubmit /\ e.records = {} /\ e.binds = g.binds
    BY <1>0, EnterLegacyIs
  <2> HIDE DEF e
  <2> QED BY <2>1, <2>2, GoodMoves DEF NoSubmit
<1> HIDE DEF e
<1>7. ASSUME NEW y \in {x, l, e}, o = [gate |-> "plain", g |-> y, h |-> h]
      PROVE  SubmitEnds(o, a, p, t, c, g.binds[c])
  <2>1. /\ Good(y, h, a, p) /\ y.active.kind = "none" /\ y.records = {} /\ y.binds = g.binds
    BY <1>5, <1>6
  <2>2. Orderly(y) /\ Taken(y, y) /\ GateOK(y, "plain") /\ Settled(y)
    BY <2>1, GoodLegal DEF Good, Taken, GateOK, Settled
  <2>3. \A k \in Slots : SetOf[k] \in y.binds[c] /\ a.known[k] # None => h.content[k] = a.known[k]
    BY <1>1
  <2>4. Good(y, h, a, [p EXCEPT ![t] = SubmitCall(c, "plain", y.binds[c], a)])
    BY <2>1, <2>2, <2>3, Submitted
  <2>5. o.gate = "plain" /\ o.g = y /\ o.h = h
    BY <1>7
  <2> QED BY <2>1, <2>2, <2>4, <2>5 DEF SubmitEnds
<1>8. CASE o \in Blocked(x, Faulty({h}))
  <2>1. \A y \in {h} : Kept(h, y, a)
    BY <1>0, KeptSame
  <2>2. \A y \in Faulty({h}) : Kept(h, y, a) /\ ~Clean(y, a)
    BY <1>0, <2>1, FaultyKeeps
  <2> QED BY <1>5, <1>8, <2>2, BlockedGood
<1>9. \/ \E y \in {x, l, e} : o = [gate |-> "plain", g |-> y, h |-> h]
      \/ o \in Blocked(x, Faulty({h}))
  BY DEF DetectSubmit, x, l, e
<1> QED BY <1>7, <1>8, <1>9

\* Each way a submission may leave the gate.
LEMMA BeforeGood ==
  ASSUME NEW g, NEW h, NEW a, NEW p, Good(g, h, a, p), Settled(g), Quiet(p), NEW t \in Threads,
         NEW c \in a.ready, g.active.kind = "none", NEW o \in BeforeSubmit(g, h, c),
         Specialized(g) /\ Oversized(g, c) => Owned(g, h, a, o)
  PROVE  SubmitEnds(o, a, p, t, c, g.binds[c])
<1>0. /\ Orderly(g) /\ Holds(g, h, a) /\ g \in GuestType /\ h \in HostType /\ g.failed \in BOOLEAN
      /\ g.stage \in StageSet /\ (g.failed => ~Clean(h, a))
  BY GoodLegal DEF Good, GuestType
<1>1. CASE g.stage = "Legacy"
  <2>1. o = [gate |-> "plain", g |-> g, h |-> h]
    BY <1>1 DEF BeforeSubmit, Specialized
  <2>2. Taken(g, g) /\ GateOK(g, "plain")
    BY <1>0 DEF Taken, GateOK
  <2>3. \A k \in Slots : SetOf[k] \in g.binds[c] /\ a.known[k] # None => h.content[k] = a.known[k]
    BY <1>0, <1>1 DEF Orderly, Tidy, Holds, Owed
  <2>4. Good(g, h, a, [p EXCEPT ![t] = SubmitCall(c, "plain", g.binds[c], a)])
    BY <1>0, <2>2, <2>3, Submitted
  <2>5. o.gate = "plain" /\ o.g = g /\ o.h = h
    BY <2>1
  <2> QED BY <2>4, <2>5 DEF SubmitEnds
<1>2. CASE g.stage # "Legacy" /\ g.failed
  <2>1. o \in Blocked(g, {h})
    BY <1>2 DEF BeforeSubmit
  <2>2. \A y \in {h} : Kept(h, y, a) /\ ~Clean(y, a)
    BY <1>0, <1>2, KeptSame
  <2> QED BY <2>1, <2>2, BlockedGood
<1>3. CASE o \in Blocked(g, Faulty({h}))
  <2>1. \A y \in {h} : Kept(h, y, a)
    BY <1>0, KeptSame
  <2>2. \A y \in Faulty({h}) : Kept(h, y, a) /\ ~Clean(y, a)
    BY <1>0, <2>1, FaultyKeeps
  <2> QED BY <1>3, <2>2, BlockedGood
<1>4. CASE g.stage = "Detect" /\ ~g.failed /\ o \notin Blocked(g, Faulty({h}))
  <2>1. o \in DetectSubmit(g, h)
    BY <1>4 DEF BeforeSubmit, Specialized
  <2> QED BY <1>4, <2>1, DetectGood
<1>5. CASE Specialized(g) /\ ~g.failed /\ o \notin Blocked(g, Faulty({h}))
  <2>1. \/ o \in DrainedSubmit(g, h)
        \/ g.early # NoEarly /\ o \in CompleteEarlyRoute(g, h, c)
        \/ g.early = NoEarly /\ o \in NormalRoute(g, h, c) \cup RecoveryRoute(g, h, c)
    BY <1>5 DEF BeforeSubmit, Specialized
  <2>2. CASE o \in DrainedSubmit(g, h)
    BY <1>5, <2>2, DrainedGood
  <2>3. CASE g.early # NoEarly /\ o \in CompleteEarlyRoute(g, h, c)
    BY <1>5, <2>3, EarlyGood
  <2>4. CASE g.early = NoEarly /\ o \in NormalRoute(g, h, c)
    BY <1>5, <2>4, NormalGood
  <2>5. CASE g.early = NoEarly /\ o \in RecoveryRoute(g, h, c)
    BY <1>5, <2>5, RecoveryGood
  <2> QED BY <2>1, <2>2, <2>3, <2>4, <2>5
<1> QED BY <1>0, <1>1, <1>2, <1>3, <1>4, <1>5 DEF StageSet, Specialized

\* The gate of a submission.
LEMMA SubmitStep ==
  ASSUME IInv, NEW t \in Threads, NEW c \in Cmds, Submit(t, c)
  PROVE  IInv'
<1>0. /\ Good(guest, host, app, pc) /\ Settled(guest) /\ pc \in [Threads -> CallType]
      /\ c \in app.ready /\ guest.active.kind = "none"
  BY GoodLegal DEF IInv, Submit
<1>1. Quiet(pc)
  <2>1. \A u \in Threads : pc[u].op \notin Lifecycle /\ pc[u].op # "submit"
    BY DEF Submit, Reserved
  <2> QED BY <1>0, <2>1, CallTypes DEF Quiet
<1>2. PICK r \in BeforeSubmit(guest, host, c) :
        /\ guest' = r.g /\ host' = r.h
        /\ app' = IF Specialized(guest) /\ Oversized(guest, c) THEN Because("legal", r) ELSE app
        /\ pc' = IF r.gate = "blocked" THEN pc
                 ELSE [pc EXCEPT ![t] = SubmitCall(c, r.gate, guest.binds[c], app)]
  BY Zenon DEF Submit, SubmitCall
<1>3. /\ Good(guest, host, app', pc) /\ app'.ready = app.ready /\ app'.content = app.content
      /\ Specialized(guest) /\ Oversized(guest, c) => Owned(guest, host, app', r)
  <2>1. CASE Specialized(guest) /\ Oversized(guest, c)
    <3>1. "legal" \in Causes
      BY DEF Causes
    <3>2. app' = Because("legal", r)
      BY <1>2, <2>1
    <3> QED BY <1>0, <3>1, <3>2, BecauseIs DEF Owned
  <2>2. CASE ~(Specialized(guest) /\ Oversized(guest, c))
    BY <1>0, <1>2, <2>2
  <2> QED BY <2>1, <2>2
<1>4. SubmitEnds(r, app', pc, t, c, guest.binds[c])
  BY <1>0, <1>1, <1>3, BeforeGood
<1>5. SubmitCall(c, r.gate, guest.binds[c], app') = SubmitCall(c, r.gate, guest.binds[c], app)
  BY <1>3 DEF SubmitCall
<1>6. CASE r.gate = "blocked"
  BY <1>0, <1>2, <1>4, <1>6 DEF IInv, SubmitEnds
<1>7. CASE r.gate # "blocked"
  BY <1>0, <1>2, <1>4, <1>5, <1>7 DEF IInv, SubmitEnds
<1> QED BY <1>6, <1>7
-----------------------------------------------------------------------------
(* Submissions return *)

\* How the return of a submission leaves the device.
Ends(o, a, n) == Good(o.g, o.h, a, n) /\ Settled(o.g)

\* The frontier of a submission is done, and what is left is pending.
LEMMA RetireGood ==
  ASSUME NEW g, NEW h, NEW a, NEW p, Good(g, h, a, p), NEW t \in Threads,
         p[t].op = "submit", g.active.kind \in RoutedKinds
  PROVE  LET x == ClearActive(Retire(g))
             n == [p EXCEPT ![t] = Idle]
         IN  /\ Good(x, h, a, n) /\ Quiet(n) /\ Settled(x) /\ Specialized(x)
             /\ x.active = NoSubmit /\ x.early = NoEarly /\ x.records = Retained(g)
<1> DEFINE x == ClearActive(Retire(g))
           y == ClearActive(g)
           n == [p EXCEPT ![t] = Idle]
           M == Retained(g)
           l == [k \in Slots |-> IF \E r \in M : r.slot = k THEN g.link[k] ELSE 0]
<1>0. /\ Orderly(g) /\ Holds(g, h, a) /\ Tidy(g) /\ Routes(g) /\ g \in GuestType /\ Agreed(g, h, a, p)
      /\ g.active.kind # "none"
  BY GoodLegal DEF Good, Orderly, RoutedKinds
<1>1. /\ Good(y, h, a, n) /\ Quiet(n)
      /\ y.active = NoSubmit /\ y.early = NoEarly /\ Taken(g, y) /\ y.link = g.link
  BY <1>0, Finished
<1>2. /\ M \subseteq g.records /\ M \in SUBSET RecordType /\ l \in [Slots -> Nat]
      /\ NoSubmit \in ActiveType
  BY <1>0 DEF Retained, GuestType, NoSubmit, ActiveType
<1>3. /\ \A r \in M : ~r.released /\ r.slot \in Slots
      /\ \A r \in g.records : ~r.released => r \in M
  BY <1>0 DEF Retained, Routes, GuestType, RecordType
<1>4. x = [g EXCEPT !.records = M, !.link = l, !.active = NoSubmit]
  BY <1>0 DEF ClearActive, Retire, GuestType
<1>5. \A r \in M : l[r.slot] = g.link[r.slot]
  BY <1>3
<1> HIDE DEF n, M, l, x
<1>6. /\ x \in GuestType /\ x.records = M /\ x.link = l /\ x.active = NoSubmit
      /\ x.stage = g.stage /\ x.failed = g.failed /\ x.nextId = g.nextId /\ x.sets = g.sets
      /\ x.value = g.value /\ x.early = g.early /\ x.executable = g.executable
      /\ x.binds = g.binds
  BY <1>0, <1>2, <1>4 DEF GuestType
<1>7. /\ y.value = g.value /\ y.sets = g.sets /\ y.binds = g.binds /\ y.stage = g.stage
      /\ y.executable = g.executable /\ y.failed = g.failed /\ y.records = g.records
  BY <1>1 DEF Taken
<1> HIDE DEF y
<1>8. g.early = NoEarly /\ Specialized(g)
  BY <1>0 DEF Routes
<1>9. Tidy(x)
  <2>1. IsFiniteSet(M) /\ Cardinality(M) <= MaxRecords
    <3>1. IsFiniteSet(g.records) /\ Cardinality(g.records) <= MaxRecords
      BY <1>0 DEF Tidy
    <3> QED BY <1>2, <3>1, FS_Subset, FS_CardinalityType, GuestAssumption DEF GuestAssumption
  <2>2. \A r \in M : /\ r.id < x.nextId
                     /\ x.value[r.slot] # None => x.value[r.slot] = r.val
                     /\ x.link[r.slot] = r.id /\ x.value[r.slot] = r.val
                     /\ SetOf[r.slot] \in x.sets
    BY <1>0, <1>2, <1>3, <1>5, <1>6 DEF Tidy
  <2>3. \A r, q \in M : r.slot = q.slot \/ r.id = q.id => r = q
    BY <1>0, <1>2 DEF Tidy
  <2> QED BY <1>6, <1>8, <2>1, <2>2, <2>3 DEF Tidy, Specialized
<1>10. Orderly(x)
  BY <1>6, <1>8, <1>9 DEF Orderly, Routes, NoSubmit, RoutedKinds
<1>11. Holds(x, h, a)
  BY <1>0, <1>3, <1>6 DEF Holds, Owed
<1>12. Clean(h, a) => Mapped(h, x.records)
  BY <1>1, <1>2, <1>6, <1>7 DEF Good, Agreed, Living, Mapped
<1>13. x.stage # "Legacy" /\ y.stage # "Legacy" /\ x.active.kind = "none"
  BY <1>6, <1>7, <1>8 DEF Specialized, NoSubmit
<1>14. Good(x, h, a, n)
  BY <1>1, <1>6, <1>7, <1>10, <1>11, <1>12, <1>13, QuietGood
<1>15. Settled(x)
  BY <1>3, <1>6 DEF Settled
<1> QED BY <1>1, <1>6, <1>8, <1>14, <1>15 DEF Specialized, x, n, M

\* A submission that was routed can always be retired.
LEMMA RetirementAccounts ==
  ASSUME NEW g, Orderly(g), g.active.kind \in RoutedKinds
  PROVE  CanRetire(g)
<1> DEFINE done == {r \in g.records : r.id \in g.active.frontier}
<1>1. Tidy(g) /\ Routes(g) /\ g \in GuestType
  BY DEF Orderly
<1>2. Ids(done) = g.active.frontier
  BY <1>1 DEF Routes, Ids
<1>3. \A r \in done : r.released /\ SetOf[r.slot] \in g.active.consumed
  BY <1>1 DEF Routes
<1>4. \A r \in Retained(g) : MatchesSlot(g, r)
  BY <1>1 DEF Retained, Tidy, MatchesSlot
<1> QED BY <1>2, <1>3, <1>4 DEF CanRetire

\* The device may go on to another stage.
LEMMA Restaged ==
  ASSUME NEW g, NEW h, NEW a, NEW p, Good(g, h, a, p), Quiet(p), Settled(g), Specialized(g),
         g.active.kind = "none", g.early = NoEarly,
         NEW s \in {"Detect", "Match", "Fast"}, s = "Detect" => g.records = {},
         NEW l \in Cmds \cup {None},
         NEW x, \/ x = [g EXCEPT !.stage = s, !.learned = l]
                \/ x = [g EXCEPT !.stage = s, !.learned = l, !.early = NoEarly]
  PROVE  Good(x, h, a, p) /\ Settled(x)
<1>0. /\ Orderly(g) /\ Holds(g, h, a) /\ g \in GuestType /\ Agreed(g, h, a, p)
  BY GoodLegal DEF Good
<1>1. /\ x \in GuestType /\ x.stage = s /\ x.failed = g.failed /\ x.nextId = g.nextId
      /\ x.sets = g.sets /\ x.value = g.value /\ x.link = g.link /\ x.records = g.records
      /\ x.active = g.active /\ x.early = g.early /\ x.executable = g.executable
      /\ x.binds = g.binds
  BY <1>0 DEF GuestType, StageSet
<1>2. Tidy(x)
  BY <1>0, <1>1 DEF Orderly, Tidy
<1>3. Orderly(x)
  BY <1>1, <1>2 DEF Orderly, Routes, RoutedKinds
<1>4. Holds(x, h, a)
  BY <1>0, <1>1 DEF Holds, Owed
<1>5. Clean(h, a) => Mapped(h, x.records)
  BY <1>0, <1>1 DEF Agreed, Living
<1>6. x.stage # "Legacy" /\ g.stage # "Legacy" /\ x.active.kind = "none"
  BY <1>1 DEF Specialized
<1>7. Good(x, h, a, p)
  BY <1>1, <1>3, <1>4, <1>5, <1>6, QuietGood
<1>8. Settled(x)
  BY <1>1 DEF Settled
<1> QED BY <1>7, <1>8

\* Or it falls back.
LEMMA LeavesGood ==
  ASSUME NEW g, NEW h, NEW a, NEW p, Good(g, h, a, p), Specialized(g), g.active = NoSubmit,
         NEW r \in FallbackToLegacy(g, h),
         NEW o, o.g = IF r.ok THEN r.g ELSE ClearActive(r.g), o.h = r.h
  PROVE  Ends(o, a, p)
<1>0. g.active.kind = "none" /\ Steady(g, h, a)
  BY GoodSteady DEF NoSubmit
<1>1. /\ Move(g, h, r.g, r.h, a) /\ r.ok \in BOOLEAN
      /\ r.ok => r.g.records = {}
      /\ ~r.ok => r.g = Failed(g) /\ r.g.failed
  BY <1>0, FallbackMoves
<1>2. Good(r.g, r.h, a, p) /\ Settled(r.g) /\ r.g \in GuestType
  BY <1>1, GoodMoves, GoodLegal DEF Settled
<1>3. ~r.ok => ClearActive(r.g) = r.g
  <2>1. g \in GuestType
    BY GoodLegal
  <2>2. Failed(g).active = NoSubmit
    BY <2>1 DEF Failed, GuestType
  <2>3. \A x \in GuestType : x.active = NoSubmit => ClearActive(x) = x
    BY DEF ClearActive, GuestType
  <2> QED BY <1>1, <1>2, <2>2, <2>3
<1>4. o.g = r.g
  BY <1>3
<1> QED BY <1>2, <1>4 DEF Ends

\* A recovery that returns starts over in Detect, or falls back.
LEMMA AfterRecoveryGood ==
  ASSUME NEW g, NEW h, NEW a, NEW p, Good(g, h, a, p), NEW t \in Threads,
         p[t].op = "submit", g.active.kind \in RoutedKinds,
         NEW o \in AfterRecovery(g, h)
  PROVE  Ends(o, a, [p EXCEPT ![t] = Idle])
<1> DEFINE n == [p EXCEPT ![t] = Idle]
           y == ClearActive(g)
           x == ClearActive(Retire(g))
           d == [x EXCEPT !.stage = "Detect", !.learned = None, !.early = NoEarly]
<1>0. h \in HostType /\ g.active.kind # "none" /\ Specialized(g)
  BY GoodLegal DEF Good, Orderly, Routes, RoutedKinds
<1>1. /\ Good(y, h, a, n) /\ y.active = NoSubmit /\ Specialized(y)
  BY <1>0, Finished DEF Taken, Specialized
<1>2. /\ Good(x, h, a, n) /\ Quiet(n) /\ Settled(x) /\ Specialized(x)
      /\ x.active = NoSubmit /\ x.early = NoEarly /\ x.records = Retained(g)
  BY RetireGood
<1>3. \/ \E r \in FallbackToLegacy(y, h) :
           o = [g |-> IF r.ok THEN r.g ELSE ClearActive(r.g), h |-> r.h]
      \/ \E z \in Faulty({h}) : \E r \in FallbackToLegacy(x, z) :
           o = [g |-> IF r.ok THEN r.g ELSE ClearActive(r.g), h |-> r.h]
      \/ Retained(g) = {} /\ o = [g |-> d, h |-> h]
  BY DEF AfterRecovery
<1> HIDE DEF n, x, y
<1>4. ASSUME NEW r \in FallbackToLegacy(y, h),
             o = [g |-> IF r.ok THEN r.g ELSE ClearActive(r.g), h |-> r.h]
      PROVE  Ends(o, a, n)
  <2>1. o.g = (IF r.ok THEN r.g ELSE ClearActive(r.g)) /\ o.h = r.h
    BY <1>4
  <2> QED BY <1>1, <2>1, LeavesGood
<1>5. ASSUME NEW z \in Faulty({h}), NEW r \in FallbackToLegacy(x, z),
             o = [g |-> IF r.ok THEN r.g ELSE ClearActive(r.g), h |-> r.h]
      PROVE  Ends(o, a, n)
  <2>1. \A w \in {h} : Kept(h, w, a)
    BY <1>0, KeptSame
  <2>2. Kept(h, z, a)
    BY <1>0, <2>1, FaultyKeeps
  <2>3. Good(x, z, a, n)
    BY <1>2, <2>2, GoodSteady, HostMoves, GoodMoves
  <2>4. o.g = (IF r.ok THEN r.g ELSE ClearActive(r.g)) /\ o.h = r.h
    BY <1>5
  <2> QED BY <1>2, <2>3, <2>4, LeavesGood
<1>6. CASE Retained(g) = {} /\ o = [g |-> d, h |-> h]
  <2>1. o.g = d /\ o.h = h /\ x.records = {} /\ x.active.kind = "none"
    BY <1>2, <1>6 DEF NoSubmit
  <2>2. "Detect" \in {"Detect", "Match", "Fast"} /\ None \in Cmds \cup {None}
    OBVIOUS
  <2>3. d = [x EXCEPT !.stage = "Detect", !.learned = None, !.early = NoEarly]
    OBVIOUS
  <2> HIDE DEF d
  <2>4. Good(d, h, a, n) /\ Settled(d)
    BY <1>2, <2>1, <2>2, <2>3, Restaged
  <2> QED BY <2>1, <2>4 DEF Ends, n
<1> QED BY <1>3, <1>4, <1>5, <1>6 DEF n

\* A period that returns goes on to the next stage, or the device fails.
LEMMA AfterPeriodGood ==
  ASSUME NEW g, NEW h, NEW a, NEW p, Good(g, h, a, p), NEW t \in Threads,
         p[t].op = "submit", g.active.kind \in RoutedKinds, NEW c \in Cmds,
         NEW o \in AfterPeriod(g, h, c)
  PROVE  Ends(o, a, [p EXCEPT ![t] = Idle])
<1> DEFINE n == [p EXCEPT ![t] = Idle]
           y == ClearActive(g)
           x == ClearActive(Retire(g))
           s == IF g.active.kind = "Learn" THEN "Match" ELSE "Fast"
           l == IF g.active.kind = "Fast" THEN x.learned ELSE c
           d == [x EXCEPT !.stage = s, !.learned = l]
<1>0. h \in HostType /\ g.active.kind # "none" /\ Orderly(g)
  BY GoodLegal DEF Good, RoutedKinds
<1>1. Good(y, h, a, n)
  BY <1>0, Finished
<1>2. /\ Good(x, h, a, n) /\ Quiet(n) /\ Settled(x) /\ Specialized(x)
      /\ x.active = NoSubmit /\ x.early = NoEarly
  BY RetireGood
<1>3. CanRetire(g)
  BY <1>0, RetirementAccounts
<1>4. \/ \E z \in Faulty({h}) : o = [g |-> Failed(y), h |-> z]
      \/ o = [h |-> h, g |-> d]
  BY <1>3 DEF AfterPeriod
<1> HIDE DEF n, x, y
<1>5. ASSUME NEW z \in Faulty({h}), o = [g |-> Failed(y), h |-> z]
      PROVE  Ends(o, a, n)
  <2>1. \A w \in {h} : Kept(h, w, a)
    BY <1>0, KeptSame
  <2>2. Kept(h, z, a) /\ ~Clean(z, a)
    BY <1>0, <2>1, FaultyKeeps
  <2>3. Good(Failed(y), z, a, n) /\ Settled(Failed(y))
    BY <1>1, <2>2, Wronged
  <2>4. o.g = Failed(y) /\ o.h = z
    BY <1>5
  <2> QED BY <2>3, <2>4 DEF Ends
<1>6. CASE o = [h |-> h, g |-> d]
  <2>1. o.g = d /\ o.h = h /\ x.active.kind = "none"
    BY <1>2, <1>6 DEF NoSubmit
  <2>2. s \in {"Detect", "Match", "Fast"} /\ s # "Detect"
    OBVIOUS
  <2>3. l \in Cmds \cup {None}
    BY <1>2, GoodLegal DEF GuestType
  <2>4. d = [x EXCEPT !.stage = s, !.learned = l]
    OBVIOUS
  <2> HIDE DEF d, s, l
  <2>5. Good(d, h, a, n) /\ Settled(d)
    BY <1>2, <2>1, <2>2, <2>3, <2>4, Restaged
  <2> QED BY <2>1, <2>5 DEF Ends, n
<1> QED BY <1>4, <1>5, <1>6 DEF n

\* Each way a submission may return.
LEMMA AfterGood ==
  ASSUME NEW g, NEW h, NEW a, NEW p, Good(g, h, a, p), Settled(g), NEW t \in Threads,
         p[t].op = "submit", NEW ok \in BOOLEAN, ~ok => ~Clean(h, a),
         NEW o \in AfterSubmit(g, h, p[t].cmd, p[t].gate, ok)
  PROVE  Ends(o, a, [p EXCEPT ![t] = Idle])
<1> DEFINE n == [p EXCEPT ![t] = Idle]
           gate == p[t].gate
           x == ClearActive(g)
<1>0. /\ Orderly(g) /\ h \in HostType /\ p[t].cmd \in Cmds /\ GateOK(g, gate)
      /\ gate \in {"plain", "drained", "routed"}
  <2>1. p[t] \in CallType /\ CallOK(g, h, a, p[t]) /\ Orderly(g) /\ h \in HostType
    BY CallGood, GoodLegal
  <2>2. p[t] \in SubmitType /\ SubmitOK(g, h, a, p[t])
    BY <2>1, CallTypes DEF CallOK
  <2> QED BY <2>1, <2>2 DEF SubmitType, SubmitOK
<1>1. CASE gate = "plain"
  <2>1. o = [g |-> g, h |-> h]
    BY <1>1 DEF AfterSubmit
  <2>2. g.active.kind = "none"
    BY <1>0, <1>1 DEF GateOK
  <2>3. Good(g, h, a, n)
    BY <2>2, Returns
  <2>4. o.g = g /\ o.h = h
    BY <2>1
  <2> QED BY <2>3, <2>4 DEF Ends
<1>2. CASE gate = "drained" \/ (gate = "routed" /\ ~ok)
  <2>1. o = [g |-> IF ok THEN x ELSE Failed(x), h |-> h]
    BY <1>2 DEF AfterSubmit
  <2>2. g.active.kind # "none"
    BY <1>0, <1>2 DEF GateOK, RoutedKinds
  <2>3. Good(x, h, a, n) /\ Taken(g, x)
    BY <2>2, Finished
  <2>4. CASE ok
    <3>1. o.g = x /\ o.h = h
      BY <2>1, <2>4
    <3>2. g.stage = "Legacy"
      BY <1>0, <1>2, <2>4 DEF GateOK, Orderly, Routes
    <3>3. x.records = {}
      BY <1>0, <2>3, <3>2 DEF Orderly, Tidy, Taken
    <3> QED BY <2>3, <3>1, <3>3 DEF Ends, Settled
  <2>5. CASE ~ok
    <3>1. o.g = Failed(x) /\ o.h = h
      BY <2>1, <2>5
    <3>2. Good(Failed(x), h, a, n) /\ Settled(Failed(x))
      <4> HIDE DEF x, n
      <4> QED BY <1>0, <2>3, <2>5, KeptSame, Wronged
    <3> QED BY <3>1, <3>2 DEF Ends
  <2> QED BY <2>4, <2>5
<1>3. CASE gate = "routed" /\ ok
  <2>1. g.active.kind \in RoutedKinds
    BY <1>0, <1>3 DEF GateOK
  <2>2. CASE g.active.kind = "Recovery"
    <3>1. o \in AfterRecovery(g, h)
      BY <1>3, <2>2 DEF AfterSubmit
    <3> QED BY <2>1, <3>1, AfterRecoveryGood
  <2>3. CASE g.active.kind # "Recovery"
    <3>1. o \in AfterPeriod(g, h, p[t].cmd)
      BY <1>3, <2>3 DEF AfterSubmit
    <3> QED BY <1>0, <2>1, <3>1, AfterPeriodGood
  <2> QED BY <2>2, <2>3
<1> QED BY <1>0, <1>1, <1>2, <1>3

\* The return of a submission.
LEMMA SubmitReturnsStep ==
  ASSUME IInv, NEW t \in Threads, SubmitReturns(t)
  PROVE  IInv'
<1>0. /\ Good(guest, host, app, pc) /\ Settled(guest) /\ host \in HostType
      /\ pc[t].op = "submit" /\ pc' = [pc EXCEPT ![t] = Idle] /\ app' = app
  BY GoodLegal DEF IInv, SubmitReturns, Return
<1>1. PICK ok \in BOOLEAN, y \in {host} \cup Faulty({host}) :
        /\ ~ok => y \in Faulty({host})
        /\ ok => y = host
        /\ \E o \in AfterSubmit(guest, y, pc[t].cmd, pc[t].gate, ok) : guest' = o.g /\ host' = o.h
  <2>1. PICK v \in {[ok |-> TRUE, h |-> host]} \cup {[ok |-> FALSE, h |-> x] : x \in Faulty({host})} :
          \E o \in AfterSubmit(guest, v.h, pc[t].cmd, pc[t].gate, v.ok) : guest' = o.g /\ host' = o.h
    BY DEF SubmitReturns
  <2>2. /\ v.ok \in BOOLEAN /\ v.h \in {host} \cup Faulty({host})
        /\ ~v.ok => v.h \in Faulty({host})
        /\ v.ok => v.h = host
    <3>1. CASE v = [ok |-> TRUE, h |-> host]
      BY <3>1
    <3>2. ASSUME NEW x \in Faulty({host}), v = [ok |-> FALSE, h |-> x]
          PROVE  v.ok = FALSE /\ v.h = x
      BY <3>2
    <3> QED BY <3>1, <3>2
  <2> QED BY <2>1, <2>2
<1>2. Kept(host, y, app) /\ (~ok => ~Clean(y, app))
  <2>1. \A w \in {host} : Kept(host, w, app)
    BY <1>0, KeptSame
  <2> QED BY <1>0, <1>1, <2>1, FaultyKeeps
<1>3. Good(guest, y, app, pc)
  BY <1>0, <1>2, GoodSteady, HostMoves, GoodMoves
<1>4. PICK o \in AfterSubmit(guest, y, pc[t].cmd, pc[t].gate, ok) : guest' = o.g /\ host' = o.h
  BY <1>1
<1>5. Ends(o, app, [pc EXCEPT ![t] = Idle])
  BY <1>0, <1>2, <1>3, AfterGood
<1> QED BY <1>0, <1>4, <1>5 DEF IInv, Ends
-----------------------------------------------------------------------------
(* The theorems *)

\* The device starts in Detect with nothing recorded.
LEMMA FrontierInit == Init => IInv
<1> SUFFICES ASSUME Init PROVE IInv
  OBVIOUS
<1> DEFINE v == [k \in Slots |-> None]
           b == [c \in Cmds |-> {}]
           u == [c \in Cmds |-> 0]
<1>1. /\ v \in [Slots -> Values] /\ \A k \in Slots : v[k] = None
      /\ b \in [Cmds -> SUBSET Sets] /\ u \in [Cmds -> Nat]
  BY DEF Values
<1>2. /\ Unlinked \in [Slots -> Nat] /\ NoSubmit \in ActiveType /\ NoEarly \in EarlyType
      /\ Idle \in CallType
  BY DEF Unlinked, NoSubmit, ActiveType, NoEarly, EarlyType, CallType
<1>3. guest = [stage |-> "Detect", failed |-> FALSE, nextId |-> 1, sets |-> Sets, value |-> v,
               link |-> Unlinked, records |-> {}, active |-> NoSubmit, early |-> NoEarly,
               learned |-> None, executable |-> {}, binds |-> b, units |-> u]
  BY DEF Init
<1>4. host = [content |-> v, sets |-> Sets, buffers |-> Buffers, faults |-> 0]
  BY DEF Init
<1>5. app = [content |-> v, known |-> v, sets |-> Sets, buffers |-> Buffers, ready |-> {},
             causes |-> {}]
  BY DEF Init
<1> HIDE DEF v, b, u
<1>6. /\ guest \in GuestType /\ guest.stage = "Detect" /\ guest.failed = FALSE
      /\ guest.sets = Sets /\ guest.value = v /\ guest.records = {} /\ guest.active = NoSubmit
      /\ guest.early = NoEarly
  BY <1>1, <1>2, <1>3 DEF GuestType, StageSet
<1>7. /\ host \in HostType /\ host.content = v /\ host.sets = Sets /\ host.buffers = Buffers
  BY <1>1, <1>4 DEF HostType
<1>8. /\ app \in AppType /\ app.content = v /\ app.known = v /\ app.sets = Sets
      /\ app.buffers = Buffers /\ app.ready = {}
  BY <1>1, <1>5 DEF AppType
<1>9. pc \in [Threads -> CallType] /\ \A t \in Threads : pc[t] = Idle
  BY <1>2 DEF Init
<1>10. IsFiniteSet({}) /\ Cardinality({}) = 0 /\ 0 <= MaxRecords
  BY FS_EmptySet, GuestAssumption DEF GuestAssumption
<1>11. Orderly(guest) /\ Settled(guest)
  BY <1>6, <1>10 DEF Orderly, Tidy, Routes, Settled, NoSubmit, RoutedKinds
<1>12. Holds(guest, host, app)
  BY <1>1, <1>8 DEF Holds
<1>13. /\ Shadows(guest, app, pc) /\ Legal(app) /\ Handles(guest, host, app)
       /\ Current(guest, app)
  BY <1>1, <1>6, <1>7, <1>8 DEF Shadows, Legal, Handles, Current
<1>14. \A t \in Threads : CallOK(guest, host, app, pc[t])
  BY <1>9 DEF CallOK, Idle
<1>15. Apart(pc) /\ Gated(guest, pc)
  BY <1>6, <1>9 DEF Apart, Gated, Idle, NoSubmit
<1>16. Living(guest, host, pc)
  BY <1>1, <1>6 DEF Living, Mapped
<1> QED BY <1>7, <1>8, <1>9, <1>11, <1>12, <1>13, <1>14, <1>15, <1>16
        DEF IInv, Good, Agreed, Typed

\* Every step of the threads keeps the invariant.
LEMMA FrontierNext == IInv /\ [Next]_vars => IInv'
<1> SUFFICES ASSUME IInv, [Next]_vars PROVE IInv'
  OBVIOUS
<1>1. ASSUME NEW t \in Threads, NEW call \in Calls, StartUpdate(t, call) PROVE IInv'
  BY <1>1, StartUpdateStep
<1>2. ASSUME NEW t \in Threads, UpdateDescriptorSets(t) PROVE IInv'
  BY <1>2, UpdateDescriptorSetsStep
<1>3. ASSUME NEW t \in Threads, UpdateRpc(t) PROVE IInv'
  BY <1>3, UpdateRpcStep
<1>4. ASSUME NEW t \in Threads, NEW s \in Sets, StartFree(t, s) PROVE IInv'
  BY <1>4, StartFreeStep
<1>5. ASSUME NEW t \in Threads, NEW s \in Sets, StartAllocate(t, s) PROVE IInv'
  BY <1>5, StartAllocateStep
<1>6. ASSUME NEW t \in Threads, Prepare(t) PROVE IInv'
  BY <1>6, PrepareStep
<1>7. ASSUME NEW t \in Threads, FreeRpc(t) PROVE IInv'
  BY <1>7, FreeRpcStep
<1>8. ASSUME NEW t \in Threads, FreeDescriptorSets(t) PROVE IInv'
  BY <1>8, FreeDescriptorSetsStep
<1>9. ASSUME NEW t \in Threads, AllocateRpc(t) PROVE IInv'
  BY <1>9, AllocateRpcStep
<1>10. ASSUME NEW t \in Threads, AllocateDescriptorSets(t) PROVE IInv'
  BY <1>10, AllocateDescriptorSetsStep
<1>11. ASSUME NEW t \in Threads, NEW b \in Buffers, StartDestroy(t, b) PROVE IInv'
  BY <1>11, StartDestroyStep
<1>12. ASSUME NEW t \in Threads, DestroyDescriptorPayload(t) PROVE IInv'
  BY <1>12, DestroyDescriptorPayloadStep
<1>13. ASSUME NEW t \in Threads, DestroyRpc(t) PROVE IInv'
  BY <1>13, DestroyRpcStep
<1>14. ASSUME NEW t \in Threads, NEW c \in Cmds, BeginCommandBuffer(t, c) PROVE IInv'
  BY <1>14, BeginCommandBufferStep
<1>15. ASSUME NEW t \in Threads, NEW c \in Cmds, Submit(t, c) PROVE IInv'
  BY <1>15, SubmitStep
<1>16. ASSUME NEW t \in Threads, NEW c \in Cmds, NEW shape \in Shapes[c],
              EndCommandBuffer(t, c, shape)
       PROVE  IInv'
  BY <1>16, EndCommandBufferStep
<1>17. ASSUME NEW t \in Threads, OpaqueCommand(t) PROVE IInv'
  BY <1>17, OpaqueCommandStep
<1>18. ASSUME NEW t \in Threads, SubmitReturns(t) PROVE IInv'
  BY <1>18, SubmitReturnsStep
<1>19. ASSUME NEW t \in Threads, NEW c \in Cmds, RecordTooMany(t, c) PROVE IInv'
  BY <1>19, RecordTooManyStep
<1>20. ASSUME NEW t \in Threads, FreeNullHandle(t) PROVE IInv'
  BY <1>20, FreeNullHandleStep
<1>21. CASE UNCHANGED vars
  BY <1>21 DEF vars, IInv
<1> QED BY <1>1, <1>2, <1>3, <1>4, <1>5, <1>6, <1>7, <1>8, <1>9, <1>10, <1>11, <1>12, <1>13,
           <1>14, <1>15, <1>16, <1>17, <1>18, <1>19, <1>20, <1>21 DEF Next

\* The shadow, the records and the host agree with what the application may count
\* on, and with every call under way, in every state.
THEOREM FrontierInvariance == Spec => []IInv
BY FrontierInit, FrontierNext, PTL DEF Spec

\* What the GPU runs sees every update the application may count on, in whichever
\* way it got to the host: in the gate's outcomes, of any number of threads.
THEOREM LatestRuns == Spec => []RunsOnLatest
<1>1. IInv => RunsOnLatest
  <2> SUFFICES ASSUME IInv, NEW t \in Threads, pc[t].op = "submit", NEW k \in Slots,
                      SetOf[k] \in guest.binds[pc[t].cmd], app.known[k] # None
               PROVE  host.content[k] = app.known[k]
    BY DEF RunsOnLatest
  <2>1. SubmitOK(guest, host, app, pc[t])
    BY CallGood DEF IInv, CallOK
  <2> QED BY <2>1 DEF SubmitOK
<1> QED BY <1>1, FrontierInvariance, PTL

\* The shadow is what the application wrote, and what the host does not have of it
\* is in exactly one pending record.
THEOREM NoUpdateLost == Spec => []NothingLost
<1>1. IInv => NothingLost
  <2> SUFFICES ASSUME IInv, guest.stage # "Legacy", ~guest.failed, NEW k \in Slots,
                      NotUsed({SetOf[k]}), app.content[k] # None
               PROVE  /\ guest.value[k] = app.content[k]
                      /\ host.content[k] # guest.value[k] =>
                           Cardinality({r \in guest.records : MatchesSlot(guest, r) /\ r.slot = k}) = 1
    BY DEF NothingLost
  <2>1. /\ Good(guest, host, app, pc) /\ Agreed(guest, host, app, pc) /\ Tidy(guest)
        /\ Holds(guest, host, app)
    BY DEF IInv, Good, Orderly
  <2>2. app.known[k] = app.content[k]
    BY <2>1 DEF Agreed, Current
  <2>3. ~Rewritten(pc, k)
    <3>1. ASSUME NEW t \in Threads, pc[t].op = "update", k \in Written(pc[t].call) PROVE FALSE
      <4>1. UpdateOK(guest, app, pc[t])
        BY <2>1, <3>1, UpdateFacts
      <4>2. SetOf[k] \in pc[t].sets
        BY <3>1, <4>1 DEF UpdateOK, SetsOfSlots
      <4> QED BY <4>2 DEF NotUsed
    <3> QED BY <3>1 DEF Rewritten
  <2>4. guest.value[k] = app.content[k]
    BY <2>1, <2>2, <2>3 DEF Agreed, Shadows
  <2>5. ASSUME host.content[k] # guest.value[k]
        PROVE  Cardinality({r \in guest.records : MatchesSlot(guest, r) /\ r.slot = k}) = 1
    <3>1. PICK r \in guest.records : r.slot = k /\ ~r.released
      BY <2>1, <2>2, <2>4, <2>5 DEF Holds, Owed
    <3>2. MatchesSlot(guest, r)
      BY <2>1, <3>1 DEF Tidy, MatchesSlot
    <3>3. {q \in guest.records : MatchesSlot(guest, q) /\ q.slot = k} = {r}
      BY <2>1, <3>1, <3>2 DEF Tidy
    <3> QED BY <3>3, FS_Singleton
  <2> QED BY <2>4, <2>5
<1> QED BY <1>1, FrontierInvariance, PTL

\* A device that fails had a call go wrong, or failed at a submission of too many units,
\* a recording of too many commands, a null handle, or a command it could not send.
THEOREM FailsForCause == Spec => []FailsOnlyOnFault
<1>1. IInv => FailsOnlyOnFault
  <2>1. IInv => (guest.failed => ~Clean(host, app)) /\ host \in HostType
    BY GoodLegal DEF IInv
  <2> QED BY <2>1 DEF FailsOnlyOnFault, Clean, HostType
<1> QED BY <1>1, FrontierInvariance, PTL
=============================================================================
