--------------------------- MODULE ControlPageProofs ---------------------------
(***************************************************************************)
(* The control page, for any number of packets, plans and attempts: the    *)
(* guest never parses a mixture of two publications, the host never writes *)
(* to a page the guest has freed, and a call taken as successful showed    *)
(* the guest something new.                                                *)
(*                                                                         *)
(* The argument.  While the guest copies the page no packet is at the      *)
(* host, so only the planner can write, and it continues the numbering of  *)
(* the sink: the sequence word only grows during a copy, and a copy whose  *)
(* two loads agree saw no write.  A packet restarts the numbering, but     *)
(* only between two refreshes.  The page is not exposed unless a packet is *)
(* sent, and whatever takes the exposure back leaves a host that has no    *)
(* sink or no planner to use it.                                           *)
(***************************************************************************)
EXTENDS ControlPage, TLAPS

Reads == {"poll", "load", "header", "payload", "second"}
Copying == {"header", "payload", "second"}

GuestType ==
  [pc : Reads \cup {"idle", "rpc", "return", "destroy", "closed"},
   phase : {"alone", "before", "after"}, polls : Nat, copies : Nat,
   first : Nat, header : Nat, payload : Nat, seq : Nat,
   has : [header : Nat, payload : Nat],
   prev : Nat, due : Nat, shown : Nat, result : {"none", "ok", "failed"},
   stage : {"new", "detect", "special", "legacy"}, failed : BOOLEAN,
   clean : BOOLEAN, exposed : BOOLEAN, complete : BOOLEAN,
   purpose : {"register", "progress", "disable", "destroy"}]

RpcType == [at : {"none", "sent", "done"}, kind : {"CAPS", "OTHER", "TEARDOWN"},
            accepted : BOOLEAN, answer : Nat]

HostType == [open : BOOLEAN, bound : BOOLEAN, sink : BOOLEAN, seq : Nat]

HostTyped ==
  /\ page \in [seq : Nat, header : Nat, payload : Nat, freed : BOOLEAN]
  /\ host \in HostType
  /\ writer \in [at : {"idle", "header", "payload", "even"}, by : {"packet", "planner"}]
  /\ planner \in [queued : BOOLEAN, made : 0 .. MaxPlans]
  /\ serial \in Nat

\* The sequence word is odd while a publication is written, the session's number
\* is even, and equals the word of a page that is its sink and at rest.
HostSeq ==
  /\ page.seq % 2 = (IF LockFree THEN 0 ELSE 1)
  /\ host.seq % 2 = 0
  /\ host.seq <= 2 * serial /\ page.seq <= 2 * serial
  /\ host.sink /\ LockFree => host.seq = page.seq
  /\ host.bound => host.open

\* What the page holds: the last publication, as far as it is written
HostContents ==
  /\ writer.at # "header" => page.header = serial
  /\ writer.at \in {"idle", "even"} => page.payload = serial
  /\ page.header <= serial /\ page.payload <= serial

\* No planner will write through this session
Silent == LockFree /\ ~(host.open /\ host.sink)

HostFlow ==
  /\ ~LockFree /\ writer.by = "packet" => rpc.at = "sent"
  /\ rpc.answer <= serial
  /\ rpc.kind = "TEARDOWN" /\ rpc.at = "done" => Silent

GuestTyped(g, r, k) ==
  /\ g \in GuestType /\ g.polls < Attempts /\ g.copies < Attempts
  /\ r \in RpcType
  /\ k \in 0 .. MaxSends

\* Where the guest is in a call, against the packet
GuestFlow(g, r) ==
  /\ r.at = "sent" => g.pc = "rpc"
  /\ g.pc \in Reads /\ g.phase = "after" => r.at = "done"
  /\ g.pc = "return" /\ g.result = "ok" => r.at = "done"
  /\ /\ g.pc \in {"rpc", "return"} \/ (g.pc \in Reads /\ g.phase # "alone")
     /\ g.purpose \in {"disable", "destroy"}
     => r.kind = "TEARDOWN"
  /\ r.kind = "OTHER" => g.stage # "new"

\* Nobody at the host will write to the page
Quiet == LockFree /\ ~(planner.queued /\ host.open /\ host.sink)

\* A page that is not exposed, or given back, has no writer
GuestExposure(g) ==
  /\ g.pc = "rpc" => g.exposed
  /\ g.stage = "new" => ~planner.queued /\ writer.by = "packet"
  /\ ~g.exposed => Quiet
  /\ g.complete => /\ ~g.exposed
                   /\ g.pc \in {"idle", "destroy", "closed"}
                   /\ g.pc = "idle" => g.stage = "legacy"
  /\ page.freed => ~g.exposed /\ g.pc = "closed"

\* A copy in progress is good as long as the sequence word has not moved
GuestCopy(g) ==
  /\ g.pc \in Copying => g.first <= page.seq /\ g.first % 2 = 0
  /\ g.pc \in {"payload", "second"} /\ page.seq = g.first => g.header = page.header
  /\ g.pc = "second" /\ page.seq = g.first => g.payload = page.payload
  /\ g.has.header = g.has.payload

\* Between the look before a packet and the end of the look after it
Awaiting(g) == g.pc = "rpc" \/ (g.pc \in Reads /\ g.phase = "after")

\* What the guest has seen, against what was published
GuestSeen(g, r) ==
  /\ g.due <= serial
  /\ Awaiting(g) => /\ g.seq = g.prev
                    /\ g.shown <= serial
                    /\ g.shown = serial => LockFree /\ page.seq = g.prev
  /\ g.pc = "return" /\ g.result = "ok" =>
       g.has.payload >= r.answer /\ g.has.payload > g.shown
  /\ g.pc = "rpc" /\ g.clean => g.has.payload >= g.shown

\* Until a call failed, the guest's number is never ahead, and the same number
\* means the same publication
GuestClean(g) ==
  g.clean /\ ~Awaiting(g) /\ ~(g.pc = "return" /\ g.result # "ok") =>
    /\ g.seq <= page.seq
    /\ g.seq = page.seq => g.has.payload = serial

\* A publication for every packet and every pass at most
Unpublished(g, r) ==
  \/ g.pc \in Reads /\ g.phase = "before"
  \/ r.at = "sent" /\ (LockFree \/ writer.by = "planner")
Bounded(g, r, k) ==
  /\ serial <= k + planner.made
  /\ Unpublished(g, r) => serial + 1 <= k + planner.made

HostInv == HostTyped /\ HostSeq /\ HostContents /\ HostFlow
GuestInv(g, r, k) ==
  /\ GuestTyped(g, r, k) /\ GuestFlow(g, r) /\ GuestExposure(g) /\ GuestCopy(g)
  /\ GuestSeen(g, r) /\ GuestClean(g) /\ Bounded(g, r, k)

IInv == HostInv /\ GuestInv(guest, rpc, sends)

-----------------------------------------------------------------------------
\* Initially the page is blank and nobody knows of it.
LEMMA InitInv == Init => IInv
  <1> SUFFICES ASSUME Init PROVE IInv
    OBVIOUS
  <1> USE PageAssumption DEF PageAssumption, Init, NoWrite, NoPacket
  <1>1. HostTyped /\ HostContents
    BY DEF HostTyped, HostType, HostContents
  <1>2. HostSeq /\ HostFlow
    BY DEF HostSeq, HostFlow, LockFree
  <1>3. GuestTyped(guest, rpc, sends)
    BY DEF GuestTyped, GuestType, RpcType, Reads
  <1>4. GuestFlow(guest, rpc) /\ GuestExposure(guest) /\ GuestCopy(guest)
    BY DEF GuestFlow, GuestExposure, GuestCopy, Reads, Copying, Quiet, LockFree
  <1>5. GuestSeen(guest, rpc) /\ GuestClean(guest) /\ Bounded(guest, rpc, sends)
    BY DEF GuestSeen, GuestClean, Bounded, Awaiting, Unpublished, Reads
  <1> QED
    BY <1>1, <1>2, <1>3, <1>4, <1>5 DEF IInv, HostInv, GuestInv

-----------------------------------------------------------------------------
\* What the session operations make of a session's sink and number.
LEMMA SinkOps ==
  ASSUME NEW h \in HostType
  PROVE /\ SinkCleared(h) \in HostType /\ SinkCleared(h).seq = 0
        /\ ~SinkCleared(h).sink /\ SinkCleared(h).open = h.open
        /\ Removed(h) \in HostType /\ Removed(h).seq = 0
        /\ ~Removed(h).sink /\ ~Removed(h).open /\ ~Removed(h).bound
        /\ SinkCleared(h).bound = h.bound
        /\ SinkReplaced(h) \in HostType /\ SinkReplaced(h).seq = 0
        /\ SinkReplaced(h).open = h.open
  BY DEF HostType, SinkCleared, Removed, SinkReplaced

\* What the guest's bookkeeping leaves alone.
Same(x, g) ==
  /\ x.pc = g.pc /\ x.phase = g.phase /\ x.purpose = g.purpose
  /\ x.polls = g.polls /\ x.copies = g.copies
  /\ x.first = g.first /\ x.header = g.header /\ x.payload = g.payload
  /\ x.seq = g.seq /\ x.has = g.has /\ x.prev = g.prev /\ x.due = g.due
  /\ x.shown = g.shown /\ x.result = g.result /\ x.clean = g.clean

\* Going Legacy changes the stage alone.
LEMMA LegacyFields ==
  ASSUME NEW g \in GuestType
  PROVE /\ LegacyOf(g) \in GuestType /\ LegacyOf(g).stage = "legacy" /\ Same(LegacyOf(g), g)
        /\ LegacyOf(g).complete = g.complete /\ LegacyOf(g).exposed = g.exposed
  BY DEF GuestType, LegacyOf, Same

\* A guest torn down has its page back.
LEMMA TornDownFields ==
  ASSUME NEW g \in GuestType
  PROVE /\ TornDown(g) \in GuestType /\ TornDown(g).stage = g.stage /\ Same(TornDown(g), g)
        /\ TornDown(g).complete /\ ~TornDown(g).exposed
  BY DEF GuestType, TornDown, Same

\* The failure mark changes nothing else.
LEMMA FailedFields ==
  ASSUME NEW g \in GuestType, NEW b \in BOOLEAN
  PROVE LET x == [g EXCEPT !.failed = b]
        IN /\ x \in GuestType /\ x.stage = g.stage /\ Same(x, g)
           /\ x.complete = g.complete /\ x.exposed = g.exposed
  BY DEF GuestType, Same

\* A guest that gives the page up for good.
LEMMA GivenBackFields ==
  ASSUME NEW g \in GuestType
  PROVE LET x == [LegacyOf(TornDown(g)) EXCEPT !.failed = FALSE]
        IN x \in GuestType /\ x.stage = "legacy" /\ ~x.exposed /\ Same(x, g)
  <1> DEFINE y == LegacyOf(TornDown(g))
  <1>1. y \in GuestType /\ y.stage = "legacy" /\ ~y.exposed /\ Same(y, g)
    BY TornDownFields, LegacyFields DEF Same
  <1> HIDE DEF y
  <1>2. LET x == [y EXCEPT !.failed = FALSE]
        IN x \in GuestType /\ x.stage = y.stage /\ x.exposed = y.exposed /\ Same(x, y)
    BY <1>1, FailedFields
  <1>3. LET x == [y EXCEPT !.failed = FALSE]
        IN x \in GuestType /\ x.stage = "legacy" /\ ~x.exposed /\ Same(x, g)
    BY <1>1, <1>2 DEF Same
  <1> QED
    BY <1>3 DEF y

\* Below the top of the range, the word after an even one is the next.
LEMMA OddIsNext ==
  ASSUME NEW seq \in Nat, seq % 2 = 0, seq < SeqTop - 2
  PROVE OddAfter(seq) = seq + 1
  BY PageAssumption DEF PageAssumption, OddAfter

\* The header is written.
LEMMA WriteHeaderInv == IInv /\ WriteHeader => IInv'
  <1> SUFFICES ASSUME IInv, WriteHeader PROVE IInv'
    OBVIOUS
  <1> USE PageAssumption DEF PageAssumption, IInv, HostInv, GuestInv, WriteHeader, HostType
  <1>1. HostTyped'
    BY SinkOps DEF HostTyped, HostFlow, GuestTyped, RpcType, LockFree
  <1>2. HostSeq'
    BY SinkOps DEF HostTyped, HostSeq, HostFlow, GuestTyped, RpcType, LockFree, Bounded,
       Unpublished
  <1>3. HostContents'
    BY DEF HostTyped, HostContents, LockFree
  <1>4. HostFlow'
    BY SinkOps DEF HostTyped, HostFlow, GuestTyped, RpcType, LockFree, Silent
  <1>5. GuestTyped(guest, rpc, sends)'
    BY DEF HostTyped, GuestTyped, GuestType, RpcType, Reads
  <1>6. GuestFlow(guest, rpc)'
    BY DEF GuestTyped, GuestType, RpcType, GuestFlow, Reads
  <1>7. GuestExposure(guest)'
    BY SinkOps DEF HostTyped, GuestTyped, GuestType, RpcType, GuestFlow, GuestExposure, Quiet,
       LockFree, HostFlow
  <1>8. GuestCopy(guest)'
    BY DEF HostTyped, HostSeq, HostFlow, HostContents, GuestTyped, GuestType, RpcType,
       GuestFlow, GuestCopy, LockFree, Reads, Copying
  <1>9. GuestSeen(guest, rpc)'
    BY DEF HostTyped, HostSeq, HostFlow, GuestTyped, GuestType, RpcType, GuestFlow, GuestSeen,
       LockFree, Awaiting, Reads
  <1>10. GuestClean(guest)'
    BY DEF HostTyped, HostSeq, HostFlow, GuestTyped, GuestType, RpcType, GuestFlow, GuestClean,
       LockFree, Awaiting, Reads
  <1>11. Bounded(guest, rpc, sends)'
    BY DEF HostTyped, HostFlow, GuestTyped, RpcType, GuestFlow, Bounded, Unpublished, LockFree,
       Reads
  <1> QED
    BY <1>1, <1>2, <1>3, <1>4, <1>5, <1>6, <1>7, <1>8, <1>9, <1>10, <1>11

\* The payload is written.
LEMMA WritePayloadInv == IInv /\ WritePayload => IInv'
  <1> SUFFICES ASSUME IInv, WritePayload PROVE IInv'
    OBVIOUS
  <1> USE PageAssumption DEF PageAssumption, IInv, HostInv, GuestInv, WritePayload, HostType
  <1>1. HostTyped'
    BY SinkOps DEF HostTyped, HostFlow, GuestTyped, RpcType, LockFree
  <1>2. HostSeq'
    BY SinkOps DEF HostTyped, HostSeq, HostFlow, GuestTyped, RpcType, LockFree, Bounded,
       Unpublished
  <1>3. HostContents'
    BY DEF HostTyped, HostContents, LockFree
  <1>4. HostFlow'
    BY SinkOps DEF HostTyped, HostFlow, GuestTyped, RpcType, LockFree, Silent
  <1>5. GuestTyped(guest, rpc, sends)'
    BY DEF HostTyped, GuestTyped, GuestType, RpcType, Reads
  <1>6. GuestFlow(guest, rpc)'
    BY DEF GuestTyped, GuestType, RpcType, GuestFlow, Reads
  <1>7. GuestExposure(guest)'
    BY SinkOps DEF HostTyped, GuestTyped, GuestType, RpcType, GuestFlow, GuestExposure, Quiet,
       LockFree, HostFlow
  <1>8. GuestCopy(guest)'
    BY DEF HostTyped, HostSeq, HostFlow, HostContents, GuestTyped, GuestType, RpcType,
       GuestFlow, GuestCopy, LockFree, Reads, Copying
  <1>9. GuestSeen(guest, rpc)'
    BY DEF HostTyped, HostSeq, HostFlow, GuestTyped, GuestType, RpcType, GuestFlow, GuestSeen,
       LockFree, Awaiting, Reads
  <1>10. GuestClean(guest)'
    BY DEF HostTyped, HostSeq, HostFlow, GuestTyped, GuestType, RpcType, GuestFlow, GuestClean,
       LockFree, Awaiting, Reads
  <1>11. Bounded(guest, rpc, sends)'
    BY DEF HostTyped, HostFlow, GuestTyped, RpcType, GuestFlow, Bounded, Unpublished, LockFree,
       Reads
  <1> QED
    BY <1>1, <1>2, <1>3, <1>4, <1>5, <1>6, <1>7, <1>8, <1>9, <1>10, <1>11

\* A publication ends, and for a packet its handler does.
LEMMA WriteEvenInv == IInv /\ WriteEven => IInv'
  <1> SUFFICES ASSUME IInv, WriteEven PROVE IInv'
    OBVIOUS
  <1> USE PageAssumption DEF PageAssumption, IInv, HostInv, GuestInv, WriteEven, NoWrite
  <1> DEFINE written == [host EXCEPT !.seq = page.seq + 1]
  <1>a. /\ written \in HostType /\ written.seq = page.seq + 1
        /\ written.open = host.open /\ written.sink = host.sink
        /\ written.bound = host.bound
    BY DEF HostTyped, HostType
  <1>w. /\ writer.by = "planner" => host' = written /\ planner' = planner
        /\ writer.by # "planner" =>
             /\ host' = (IF rpc.kind = "TEARDOWN" THEN Removed(written) ELSE written)
             /\ planner' \in (IF rpc.kind = "OTHER"
                              THEN {planner, [planner EXCEPT !.queued = TRUE]} ELSE {planner})
    OBVIOUS
  <1> HIDE DEF written
  <1>b. /\ host' \in HostType
        /\ host'.seq = page.seq + 1 \/ (host'.seq = 0 /\ ~host'.sink)
        /\ writer.by = "packet" /\ rpc.kind = "TEARDOWN" => ~host'.open /\ ~host'.sink
        /\ host'.sink => host.sink
        /\ host'.open => host.open
        /\ host'.bound => host.bound /\ host'.open = host.open
    BY <1>a, <1>w, SinkOps
  <1>c. /\ writer' = [at |-> "idle", by |-> "packet"]
        /\ page'.seq = page.seq + 1 /\ page'.header = page.header
        /\ page'.payload = page.payload /\ page'.freed = page.freed
        /\ page' \in [seq : Nat, header : Nat, payload : Nat, freed : BOOLEAN]
        /\ serial' = serial /\ guest' = guest /\ sends' = sends
    BY DEF HostTyped
  <1>d. /\ planner' \in [queued : BOOLEAN, made : 0 .. MaxPlans]
        /\ planner'.made = planner.made
        /\ (planner' = planner \/ (writer.by # "planner" /\ rpc.kind = "OTHER"))
    BY <1>w DEF HostTyped
  <1>e. /\ writer.by = "planner" => rpc' = rpc
        /\ writer.by # "planner" =>
             rpc' \in RpcType /\ rpc'.at = "done" /\ rpc'.kind = rpc.kind /\ rpc'.answer = serial
    BY DEF GuestTyped, RpcType, HostTyped
  <1>1. HostTyped'
    <2>1. writer' \in [at : {"idle", "header", "payload", "even"}, by : {"packet", "planner"}]
      BY <1>c
    <2>2. serial' \in Nat
      BY <1>c DEF HostTyped
    <2> QED
      BY <1>b, <1>c, <1>d, <2>1, <2>2 DEF HostTyped
  <1>2. HostSeq'
    BY <1>b, <1>c DEF HostTyped, HostSeq, LockFree
  <1>3. HostContents'
    BY DEF HostTyped, HostContents, LockFree
  <1>4. HostFlow'
    BY <1>b, <1>c, <1>e DEF HostTyped, HostFlow, LockFree, Silent
  <1>5. GuestTyped(guest, rpc, sends)'
    BY <1>c, <1>e DEF HostTyped, GuestTyped
  <1>6. GuestFlow(guest, rpc)'
    BY DEF GuestTyped, GuestType, RpcType, GuestFlow, Reads
  <1>7. GuestExposure(guest)'
    BY SinkOps DEF HostTyped, GuestTyped, GuestType, RpcType, GuestFlow, GuestExposure, Quiet,
       LockFree, HostFlow
  <1>8. GuestCopy(guest)'
    BY DEF HostTyped, HostSeq, HostFlow, HostContents, GuestTyped, GuestType, RpcType,
       GuestFlow, GuestCopy, LockFree, Reads, Copying
  <1>9. GuestSeen(guest, rpc)'
    BY DEF HostTyped, HostSeq, HostFlow, GuestTyped, GuestType, RpcType, GuestFlow, GuestSeen,
       LockFree, Awaiting, Reads
  <1>10. GuestClean(guest)'
    BY DEF HostTyped, HostSeq, HostFlow, GuestTyped, GuestType, RpcType, GuestFlow, GuestClean,
       LockFree, Awaiting, Reads
  <1>11. Bounded(guest, rpc, sends)'
    BY DEF HostTyped, HostFlow, GuestTyped, RpcType, GuestFlow, Bounded, Unpublished, LockFree,
       Reads
  <1> QED
    BY <1>1, <1>2, <1>3, <1>4, <1>5, <1>6, <1>7, <1>8, <1>9, <1>10, <1>11

\* A packet is accepted and its answer begun.
LEMMA ControlAcceptInv == IInv /\ ControlAccept => IInv'
  <1> SUFFICES ASSUME IInv, ControlAccept PROVE IInv'
    OBVIOUS
  <1> USE PageAssumption DEF PageAssumption, IInv, HostInv, GuestInv, ControlAccept, Publish
  <1> DEFINE h == SinkReplaced([host EXCEPT !.open = TRUE])
  <1>a. h \in HostType /\ h.seq = 0 /\ h.open
    <2>1. [host EXCEPT !.open = TRUE] \in HostType /\ [host EXCEPT !.open = TRUE].open
      BY DEF HostTyped, HostType
    <2> QED
      BY <2>1, SinkOps
  <1>b. serial + 1 <= MaxSends + MaxPlans
    BY DEF GuestTyped, Bounded, Unpublished, HostTyped, LockFree
  <1>c. OddAfter(h.seq) = 1
    BY <1>a, <1>b, OddIsNext DEF HostTyped
  <1>d. /\ host' = h
        /\ page' = [page EXCEPT !.seq = 1]
        /\ writer' = [at |-> "header", by |-> "packet"] /\ serial' = serial + 1
    BY <1>c
  <1>1. HostTyped'
    BY <1>a, <1>d DEF HostTyped
  <1>2. HostSeq'
    BY <1>a, <1>d DEF HostTyped, HostSeq, LockFree
  <1>3. HostContents'
    BY DEF HostTyped, HostContents, LockFree
  <1>4. HostFlow'
    BY SinkOps DEF HostTyped, HostFlow, GuestTyped, RpcType, LockFree, Silent
  <1>5. GuestTyped(guest, rpc, sends)'
    BY DEF HostTyped, GuestTyped, GuestType, RpcType, Reads
  <1>6. GuestFlow(guest, rpc)'
    BY DEF GuestTyped, GuestType, RpcType, GuestFlow, Reads
  <1>7. GuestExposure(guest)'
    BY SinkOps DEF HostTyped, GuestTyped, GuestType, RpcType, GuestFlow, GuestExposure, Quiet,
       LockFree, HostFlow
  <1>8. GuestCopy(guest)'
    BY DEF HostTyped, HostSeq, HostFlow, HostContents, GuestTyped, GuestType, RpcType,
       GuestFlow, GuestCopy, LockFree, Reads, Copying
  <1>9. GuestSeen(guest, rpc)'
    BY DEF HostTyped, HostSeq, HostFlow, GuestTyped, GuestType, RpcType, GuestFlow, GuestSeen,
       LockFree, Awaiting, Reads
  <1>10. GuestClean(guest)'
    BY DEF HostTyped, HostSeq, HostFlow, GuestTyped, GuestType, RpcType, GuestFlow, GuestClean,
       LockFree, Awaiting, Reads
  <1>11. Bounded(guest, rpc, sends)'
    BY DEF HostTyped, HostFlow, GuestTyped, RpcType, GuestFlow, Bounded, Unpublished, LockFree,
       Reads
  <1> QED
    BY <1>1, <1>2, <1>3, <1>4, <1>5, <1>6, <1>7, <1>8, <1>9, <1>10, <1>11

\* An answer is not delivered.
LEMMA ControlUndeliveredInv == IInv /\ ControlUndelivered => IInv'
  <1> SUFFICES ASSUME IInv, ControlUndelivered PROVE IInv'
    OBVIOUS
  <1> USE PageAssumption DEF PageAssumption, IInv, HostInv, GuestInv, ControlUndelivered
  <1>1. HostTyped'
    BY SinkOps DEF HostTyped, HostFlow, GuestTyped, RpcType, LockFree
  <1>2. HostSeq'
    BY SinkOps DEF HostTyped, HostSeq, HostFlow, GuestTyped, RpcType, LockFree, Bounded,
       Unpublished
  <1>3. HostContents'
    BY DEF HostTyped, HostContents, LockFree
  <1>4. HostFlow'
    BY SinkOps DEF HostTyped, HostFlow, GuestTyped, RpcType, LockFree, Silent
  <1>5. GuestTyped(guest, rpc, sends)'
    BY DEF HostTyped, GuestTyped, GuestType, RpcType, Reads
  <1>6. GuestFlow(guest, rpc)'
    BY DEF GuestTyped, GuestType, RpcType, GuestFlow, Reads
  <1>7. GuestExposure(guest)'
    BY SinkOps DEF HostTyped, GuestTyped, GuestType, RpcType, GuestFlow, GuestExposure, Quiet,
       LockFree, HostFlow
  <1>8. GuestCopy(guest)'
    BY DEF HostTyped, HostSeq, HostFlow, HostContents, GuestTyped, GuestType, RpcType,
       GuestFlow, GuestCopy, LockFree, Reads, Copying
  <1>9. GuestSeen(guest, rpc)'
    BY DEF HostTyped, HostSeq, HostFlow, GuestTyped, GuestType, RpcType, GuestFlow, GuestSeen,
       LockFree, Awaiting, Reads
  <1>10. GuestClean(guest)'
    BY DEF HostTyped, HostSeq, HostFlow, GuestTyped, GuestType, RpcType, GuestFlow, GuestClean,
       LockFree, Awaiting, Reads
  <1>11. Bounded(guest, rpc, sends)'
    BY DEF HostTyped, HostFlow, GuestTyped, RpcType, GuestFlow, Bounded, Unpublished, LockFree,
       Reads
  <1> QED
    BY <1>1, <1>2, <1>3, <1>4, <1>5, <1>6, <1>7, <1>8, <1>9, <1>10, <1>11

\* A packet is refused.
LEMMA ControlRefuseInv == IInv /\ ControlRefuse => IInv'
  <1> SUFFICES ASSUME IInv, ControlRefuse PROVE IInv'
    OBVIOUS
  <1> USE PageAssumption DEF PageAssumption, IInv, HostInv, GuestInv, ControlRefuse
  <1>1. HostTyped'
    BY SinkOps DEF HostTyped, HostFlow, GuestTyped, RpcType, LockFree
  <1>2. HostSeq'
    BY SinkOps DEF HostTyped, HostSeq, HostFlow, GuestTyped, RpcType, LockFree, Bounded,
       Unpublished
  <1>3. HostContents'
    BY DEF HostTyped, HostContents, LockFree
  <1>4. HostFlow'
    BY SinkOps DEF HostTyped, HostFlow, GuestTyped, RpcType, LockFree, Silent
  <1>5. GuestTyped(guest, rpc, sends)'
    BY DEF HostTyped, GuestTyped, GuestType, RpcType, Reads
  <1>6. GuestFlow(guest, rpc)'
    BY DEF GuestTyped, GuestType, RpcType, GuestFlow, Reads
  <1>7. GuestExposure(guest)'
    BY SinkOps DEF HostTyped, GuestTyped, GuestType, RpcType, GuestFlow, GuestExposure, Quiet,
       LockFree, HostFlow
  <1>8. GuestCopy(guest)'
    BY DEF HostTyped, HostSeq, HostFlow, HostContents, GuestTyped, GuestType, RpcType,
       GuestFlow, GuestCopy, LockFree, Reads, Copying
  <1>9. GuestSeen(guest, rpc)'
    BY DEF HostTyped, HostSeq, HostFlow, GuestTyped, GuestType, RpcType, GuestFlow, GuestSeen,
       LockFree, Awaiting, Reads
  <1>10. GuestClean(guest)'
    BY DEF HostTyped, HostSeq, HostFlow, GuestTyped, GuestType, RpcType, GuestFlow, GuestClean,
       LockFree, Awaiting, Reads
  <1>11. Bounded(guest, rpc, sends)'
    BY DEF HostTyped, HostFlow, GuestTyped, RpcType, GuestFlow, Bounded, Unpublished, LockFree,
       Reads
  <1> QED
    BY <1>1, <1>2, <1>3, <1>4, <1>5, <1>6, <1>7, <1>8, <1>9, <1>10, <1>11

\* The planner publishes a plan, or does not.
LEMMA PlannerPassInv == IInv /\ PlannerPass => IInv'
  <1> SUFFICES ASSUME IInv, PlannerPass PROVE IInv'
    OBVIOUS
  <1> USE PageAssumption DEF PageAssumption, IInv, HostInv, GuestInv, PlannerPass, Publish, HostType
  <1>a. /\ planner' = [queued |-> FALSE, made |-> planner.made + 1]
        /\ planner' \in [queued : BOOLEAN, made : 0 .. MaxPlans]
        /\ rpc' = rpc /\ guest' = guest /\ sends' = sends /\ LockFree /\ planner.queued
    BY DEF HostTyped
  <1>b. CASE host.open /\ host.sink /\ Publish(host, "planner")
    <2>1. host.seq = page.seq /\ host.seq % 2 = 0 /\ host.seq <= 2 * serial
      BY <1>a, <1>b DEF HostSeq
    <2>2. serial <= MaxSends + MaxPlans - 1
      BY DEF Bounded, GuestTyped, HostTyped
    <2>3. OddAfter(host.seq) = page.seq + 1
      BY <2>1, <2>2, OddIsNext DEF HostTyped, HostType
    <2>4. /\ page' = [page EXCEPT !.seq = page.seq + 1]
          /\ host' = host /\ serial' = serial + 1
          /\ writer' = [at |-> "header", by |-> "planner"]
      BY <1>b, <2>3 DEF Publish
    <2>5. page'.seq = page.seq + 1 /\ page'.header = page.header
          /\ page'.payload = page.payload /\ page'.freed = page.freed
          /\ page' \in [seq : Nat, header : Nat, payload : Nat, freed : BOOLEAN]
          /\ ~LockFree'
      BY <2>4 DEF HostTyped, LockFree
    <2> HIDE DEF PlannerPass
    <2> USE <1>a, <1>b, <2>1, <2>4, <2>5
    <2>6. HostTyped'
      BY DEF HostTyped, HostFlow, GuestTyped, RpcType, LockFree
    <2>7. HostSeq'
      BY DEF HostTyped, HostSeq, HostFlow, GuestTyped, RpcType, LockFree, Bounded, Unpublished
    <2>8. HostContents'
      BY DEF HostTyped, HostContents, LockFree
    <2>9. HostFlow'
      BY DEF HostTyped, HostFlow, GuestTyped, RpcType, LockFree, Silent
    <2>10. GuestTyped(guest, rpc, sends)'
      BY DEF HostTyped, GuestTyped, GuestType, RpcType, Reads
    <2>11. GuestFlow(guest, rpc)'
      BY DEF GuestTyped, GuestType, RpcType, GuestFlow, Reads
    <2>12. GuestExposure(guest)'
      BY <1>a DEF HostTyped, GuestTyped, GuestType, RpcType, GuestFlow, GuestExposure, Quiet,
         LockFree, HostFlow
    <2>13. GuestCopy(guest)'
      BY DEF HostTyped, HostSeq, HostFlow, HostContents, GuestTyped, GuestType, RpcType,
         GuestFlow, GuestCopy, LockFree, Reads, Copying
    <2>14. GuestSeen(guest, rpc)'
      BY DEF HostTyped, HostSeq, HostFlow, GuestTyped, GuestType, RpcType, GuestFlow,
         GuestSeen, LockFree, Awaiting, Reads
    <2>15. GuestClean(guest)'
      BY DEF HostTyped, HostSeq, HostFlow, GuestTyped, GuestType, RpcType, GuestFlow,
         GuestClean, LockFree, Awaiting, Reads
    <2>16. Bounded(guest, rpc, sends)'
      BY DEF HostTyped, HostFlow, GuestTyped, RpcType, GuestFlow, Bounded, Unpublished,
         LockFree, Reads
    <2> QED
      BY <2>6, <2>7, <2>8, <2>9, <2>10, <2>11, <2>12, <2>13, <2>14, <2>15, <2>16
  <1>c. CASE host' \in (IF host.open THEN {host, SinkCleared(host)} ELSE {host})
             /\ UNCHANGED <<page, writer, serial>>
    <2>1. /\ host' \in HostType /\ host'.open = host.open /\ host'.bound = host.bound
          /\ host' = host \/ (host'.seq = 0 /\ ~host'.sink)
      <3>1. host' = host \/ host' = SinkCleared(host)
        BY <1>c
      <3>2. host \in HostType
        BY DEF HostTyped
      <3> QED
        BY <3>1, <3>2, SinkOps
    <2> HIDE DEF PlannerPass
    <2> USE <1>a, <1>c, <2>1
    <2>2. HostTyped'
      BY DEF HostTyped, HostFlow, GuestTyped, RpcType, LockFree
    <2>3. HostSeq'
      BY DEF HostTyped, HostSeq, HostFlow, GuestTyped, RpcType, LockFree, Bounded, Unpublished
    <2>4. HostContents'
      BY DEF HostTyped, HostContents, LockFree
    <2>5. HostFlow'
      BY DEF HostTyped, HostFlow, GuestTyped, RpcType, LockFree, Silent
    <2>6. GuestTyped(guest, rpc, sends)'
      BY DEF HostTyped, GuestTyped, GuestType, RpcType, Reads
    <2>7. GuestFlow(guest, rpc)'
      BY DEF GuestTyped, GuestType, RpcType, GuestFlow, Reads
    <2>8. GuestExposure(guest)'
      BY DEF HostTyped, GuestTyped, GuestType, RpcType, GuestFlow, GuestExposure, Quiet,
         LockFree, HostFlow
    <2>9. GuestCopy(guest)'
      BY DEF HostTyped, HostSeq, HostFlow, HostContents, GuestTyped, GuestType, RpcType,
         GuestFlow, GuestCopy, LockFree, Reads, Copying
    <2>10. GuestSeen(guest, rpc)'
      BY DEF HostTyped, HostSeq, HostFlow, GuestTyped, GuestType, RpcType, GuestFlow,
         GuestSeen, LockFree, Awaiting, Reads
    <2>11. GuestClean(guest)'
      BY DEF HostTyped, HostSeq, HostFlow, GuestTyped, GuestType, RpcType, GuestFlow,
         GuestClean, LockFree, Awaiting, Reads
    <2>12. Bounded(guest, rpc, sends)'
      BY DEF HostTyped, HostFlow, GuestTyped, RpcType, GuestFlow, Bounded, Unpublished,
         LockFree, Reads
    <2> QED
      BY <2>2, <2>3, <2>4, <2>5, <2>6, <2>7, <2>8, <2>9, <2>10, <2>11, <2>12
  <1> QED
    BY <1>b, <1>c

\* A route binds the stream.
LEMMA RouteBindsInv == IInv /\ RouteBinds => IInv'
  <1> SUFFICES ASSUME IInv, RouteBinds PROVE IInv'
    OBVIOUS
  <1> USE PageAssumption DEF PageAssumption, IInv, HostInv, GuestInv, RouteBinds, HostType
  <1>1. HostTyped'
    BY SinkOps DEF HostTyped, HostFlow, GuestTyped, RpcType, LockFree
  <1>2. HostSeq'
    BY SinkOps DEF HostTyped, HostSeq, HostFlow, GuestTyped, RpcType, LockFree, Bounded,
       Unpublished
  <1>3. HostContents'
    BY DEF HostTyped, HostContents, LockFree
  <1>4. HostFlow'
    BY SinkOps DEF HostTyped, HostFlow, GuestTyped, RpcType, LockFree, Silent
  <1>5. GuestTyped(guest, rpc, sends)'
    BY DEF HostTyped, GuestTyped, GuestType, RpcType, Reads
  <1>6. GuestFlow(guest, rpc)'
    BY DEF GuestTyped, GuestType, RpcType, GuestFlow, Reads
  <1>7. GuestExposure(guest)'
    BY SinkOps DEF HostTyped, GuestTyped, GuestType, RpcType, GuestFlow, GuestExposure, Quiet,
       LockFree, HostFlow
  <1>8. GuestCopy(guest)'
    BY DEF HostTyped, HostSeq, HostFlow, HostContents, GuestTyped, GuestType, RpcType,
       GuestFlow, GuestCopy, LockFree, Reads, Copying
  <1>9. GuestSeen(guest, rpc)'
    BY DEF HostTyped, HostSeq, HostFlow, GuestTyped, GuestType, RpcType, GuestFlow, GuestSeen,
       LockFree, Awaiting, Reads
  <1>10. GuestClean(guest)'
    BY DEF HostTyped, HostSeq, HostFlow, GuestTyped, GuestType, RpcType, GuestFlow, GuestClean,
       LockFree, Awaiting, Reads
  <1>11. Bounded(guest, rpc, sends)'
    BY DEF HostTyped, HostFlow, GuestTyped, RpcType, GuestFlow, Bounded, Unpublished, LockFree,
       Reads
  <1> QED
    BY <1>1, <1>2, <1>3, <1>4, <1>5, <1>6, <1>7, <1>8, <1>9, <1>10, <1>11

\* The host forgets a destroyed device.
LEMMA CleanupDeviceInv == IInv /\ CleanupDevice => IInv'
  <1> SUFFICES ASSUME IInv, CleanupDevice PROVE IInv'
    OBVIOUS
  <1> USE PageAssumption DEF PageAssumption, IInv, HostInv, GuestInv, CleanupDevice
  <1>1. HostTyped'
    BY SinkOps DEF HostTyped, HostFlow, GuestTyped, RpcType, LockFree
  <1>2. HostSeq'
    BY SinkOps DEF HostTyped, HostSeq, HostFlow, GuestTyped, RpcType, LockFree, Bounded,
       Unpublished
  <1>3. HostContents'
    BY DEF HostTyped, HostContents, LockFree
  <1>4. HostFlow'
    BY SinkOps DEF HostTyped, HostFlow, GuestTyped, RpcType, LockFree, Silent
  <1>5. GuestTyped(guest, rpc, sends)'
    BY DEF HostTyped, GuestTyped, GuestType, RpcType, Reads
  <1>6. GuestFlow(guest, rpc)'
    BY DEF GuestTyped, GuestType, RpcType, GuestFlow, Reads
  <1>7. GuestExposure(guest)'
    BY SinkOps DEF HostTyped, GuestTyped, GuestType, RpcType, GuestFlow, GuestExposure, Quiet,
       LockFree, HostFlow
  <1>8. GuestCopy(guest)'
    BY DEF HostTyped, HostSeq, HostFlow, HostContents, GuestTyped, GuestType, RpcType,
       GuestFlow, GuestCopy, LockFree, Reads, Copying
  <1>9. GuestSeen(guest, rpc)'
    BY DEF HostTyped, HostSeq, HostFlow, GuestTyped, GuestType, RpcType, GuestFlow, GuestSeen,
       LockFree, Awaiting, Reads
  <1>10. GuestClean(guest)'
    BY DEF HostTyped, HostSeq, HostFlow, GuestTyped, GuestType, RpcType, GuestFlow, GuestClean,
       LockFree, Awaiting, Reads
  <1>11. Bounded(guest, rpc, sends)'
    BY DEF HostTyped, HostFlow, GuestTyped, RpcType, GuestFlow, Bounded, Unpublished, LockFree,
       Reads
  <1> QED
    BY <1>1, <1>2, <1>3, <1>4, <1>5, <1>6, <1>7, <1>8, <1>9, <1>10, <1>11

\* The transport fails.
LEMMA TransportFailsInv == IInv /\ TransportFails => IInv'
  <1> SUFFICES ASSUME IInv, TransportFails PROVE IInv'
    OBVIOUS
  <1> USE PageAssumption DEF PageAssumption, IInv, HostInv, GuestInv, TransportFails, GuestOnly
  <1>1. HostTyped'
    BY SinkOps DEF HostTyped, HostFlow, GuestTyped, RpcType, LockFree
  <1>2. HostSeq'
    BY SinkOps DEF HostTyped, HostSeq, HostFlow, GuestTyped, RpcType, LockFree, Bounded,
       Unpublished
  <1>3. HostContents'
    BY DEF HostTyped, HostContents, LockFree
  <1>4. HostFlow'
    BY SinkOps DEF HostTyped, HostFlow, GuestTyped, RpcType, LockFree, Silent
  <1>5. GuestTyped(guest, rpc, sends)'
    BY DEF HostTyped, GuestTyped, GuestType, RpcType, Reads
  <1>6. GuestFlow(guest, rpc)'
    BY DEF GuestTyped, GuestType, RpcType, GuestFlow, Reads
  <1>7. GuestExposure(guest)'
    BY SinkOps DEF HostTyped, GuestTyped, GuestType, RpcType, GuestFlow, GuestExposure, Quiet,
       LockFree, HostFlow
  <1>8. GuestCopy(guest)'
    BY DEF HostTyped, HostSeq, HostFlow, HostContents, GuestTyped, GuestType, RpcType,
       GuestFlow, GuestCopy, LockFree, Reads, Copying
  <1>9. GuestSeen(guest, rpc)'
    BY DEF HostTyped, HostSeq, HostFlow, GuestTyped, GuestType, RpcType, GuestFlow, GuestSeen,
       LockFree, Awaiting, Reads
  <1>10. GuestClean(guest)'
    BY DEF HostTyped, HostSeq, HostFlow, GuestTyped, GuestType, RpcType, GuestFlow, GuestClean,
       LockFree, Awaiting, Reads
  <1>11. Bounded(guest, rpc, sends)'
    BY DEF HostTyped, HostFlow, GuestTyped, RpcType, GuestFlow, Bounded, Unpublished, LockFree,
       Reads
  <1> QED
    BY <1>1, <1>2, <1>3, <1>4, <1>5, <1>6, <1>7, <1>8, <1>9, <1>10, <1>11

\* The fallback route drops the session, or is refused.
LEMMA FallbackInv == IInv /\ Fallback => IInv'
  <1> SUFFICES ASSUME IInv, Fallback PROVE IInv'
    OBVIOUS
  <1> USE DEF IInv, HostInv, GuestInv
  <1>b. /\ guest \in GuestType /\ guest.pc = "idle" /\ guest.stage = "special" /\ LockFree
        /\ ~guest.complete
        /\ UNCHANGED <<page, writer, planner, rpc, serial, sends>>
    BY DEF Fallback, GuestTyped, GuestExposure
  <1>a. PICK x \in GuestType, b \in BOOLEAN :
          /\ guest' = [x EXCEPT !.failed = b]
          /\ Same(x, guest)
          /\ \/ x = guest /\ host' = host
             \/ x.complete /\ ~x.exposed /\ x.stage = "legacy" /\ host' = Removed(host)
    <2>1. LET l == LegacyOf(TornDown(guest))
          IN l \in GuestType /\ Same(l, guest) /\ l.complete /\ ~l.exposed /\ l.stage = "legacy"
      BY <1>b, TornDownFields, LegacyFields DEF Same
    <2>2. Same(guest, guest)
      BY DEF Same
    <2> QED
      BY <1>b, <2>1, <2>2 DEF Fallback
  <1>c. /\ guest' \in GuestType /\ guest'.pc = "idle" /\ guest'.has = guest.has
        /\ guest'.polls = guest.polls /\ guest'.copies = guest.copies
        /\ guest'.seq = guest.seq /\ guest'.due = guest.due /\ guest'.clean = guest.clean
        /\ guest'.stage = x.stage /\ guest'.exposed = x.exposed /\ guest'.complete = x.complete
    BY <1>a, <1>b, FailedFields DEF Same
  <1>d. /\ host' \in HostType /\ (host'.sink => host' = host)
        /\ host'.open => host.open
        /\ host'.bound => host' = host
        /\ host'.seq = 0 \/ host' = host
    BY <1>a, SinkOps DEF HostTyped
  <1>e. \/ /\ guest'.exposed = guest.exposed /\ guest'.complete = guest.complete
           /\ guest'.stage = "special"
        \/ /\ guest'.complete /\ ~guest'.exposed /\ guest'.stage = "legacy" /\ ~host'.sink
    BY <1>a, <1>b, <1>c, SinkOps DEF HostTyped
  <1> USE <1>b, <1>c, <1>d
  <1>1. HostTyped'
    BY DEF HostTyped
  <1>2. HostSeq'
    BY DEF HostTyped, HostSeq, LockFree
  <1>3. HostContents'
    BY DEF HostContents
  <1>4. HostFlow'
    BY DEF HostTyped, HostType, HostFlow, LockFree, Silent
  <1>5. GuestTyped(guest, rpc, sends)'
    BY DEF GuestTyped
  <1>6. GuestFlow(guest, rpc)'
    BY <1>e DEF GuestFlow, Reads
  <1>7. GuestExposure(guest)'
    BY <1>e DEF GuestExposure, Quiet, LockFree, HostTyped, HostType
  <1>8. GuestCopy(guest)'
    BY DEF GuestCopy, Copying
  <1>9. GuestSeen(guest, rpc)'
    BY DEF GuestSeen, Awaiting, Reads
  <1>10. GuestClean(guest)'
    BY DEF GuestClean, Awaiting, Reads
  <1>11. Bounded(guest, rpc, sends)'
    BY DEF Bounded, Unpublished, Reads, LockFree
  <1> QED
    BY <1>1, <1>2, <1>3, <1>4, <1>5, <1>6, <1>7, <1>8, <1>9, <1>10, <1>11

\* The device state and perhaps the page are freed.
LEMMA DestroyDeviceInv == IInv /\ DestroyDevice => IInv'
  <1> SUFFICES ASSUME IInv, DestroyDevice PROVE IInv'
    OBVIOUS
  <1> USE PageAssumption DEF PageAssumption, IInv, HostInv, GuestInv, DestroyDevice
  <1>1. HostTyped'
    BY SinkOps DEF HostTyped, HostFlow, GuestTyped, RpcType, LockFree
  <1>2. HostSeq'
    BY SinkOps DEF HostTyped, HostSeq, HostFlow, GuestTyped, RpcType, LockFree, Bounded,
       Unpublished
  <1>3. HostContents'
    BY DEF HostTyped, HostContents, LockFree
  <1>4. HostFlow'
    BY SinkOps DEF HostTyped, HostFlow, GuestTyped, RpcType, LockFree, Silent
  <1>5. GuestTyped(guest, rpc, sends)'
    BY DEF HostTyped, GuestTyped, GuestType, RpcType, Reads
  <1>6. GuestFlow(guest, rpc)'
    BY DEF GuestTyped, GuestType, RpcType, GuestFlow, Reads
  <1>7. GuestExposure(guest)'
    BY SinkOps DEF HostTyped, GuestTyped, GuestType, RpcType, GuestFlow, GuestExposure, Quiet,
       LockFree, HostFlow
  <1>8. GuestCopy(guest)'
    BY DEF HostTyped, HostSeq, HostFlow, HostContents, GuestTyped, GuestType, RpcType,
       GuestFlow, GuestCopy, LockFree, Reads, Copying
  <1>9. GuestSeen(guest, rpc)'
    BY DEF HostTyped, HostSeq, HostFlow, GuestTyped, GuestType, RpcType, GuestFlow, GuestSeen,
       LockFree, Awaiting, Reads
  <1>10. GuestClean(guest)'
    BY DEF HostTyped, HostSeq, HostFlow, GuestTyped, GuestType, RpcType, GuestFlow, GuestClean,
       LockFree, Awaiting, Reads
  <1>11. Bounded(guest, rpc, sends)'
    BY DEF HostTyped, HostFlow, GuestTyped, RpcType, GuestFlow, Bounded, Unpublished, LockFree,
       Reads
  <1> QED
    BY <1>1, <1>2, <1>3, <1>4, <1>5, <1>6, <1>7, <1>8, <1>9, <1>10, <1>11

-----------------------------------------------------------------------------
\* A step of the guest that leaves the host alone.
LEMMA GuestStep ==
  ASSUME IInv, GuestOnly, HostFlow', GuestInv(guest, rpc, sends)'
  PROVE IInv'
  BY DEF IInv, HostInv, GuestOnly, HostTyped, HostSeq, HostContents, LockFree

\* A refresh in progress, with the guest's state g
Refreshing(g) ==
  /\ g.pc \in Reads
  /\ GuestTyped(g, rpc, sends) /\ GuestFlow(g, rpc) /\ GuestExposure(g)
  /\ Bounded(g, rpc, sends)
  /\ g.has.header = g.has.payload /\ g.due <= serial

\* A refresh that ends: what it says of the guest's number
Refreshed(g, ok) ==
  /\ g.phase = "after" => /\ g.shown <= serial
                          /\ g.shown = serial => LockFree /\ page.seq = g.prev
                          /\ g.seq # g.prev => g.seq = page.seq /\ g.has.payload = serial
  /\ g.phase # "after" /\ g.clean => /\ g.seq <= page.seq
                                     /\ g.seq = page.seq => g.has.payload = serial
  /\ g.phase = "before" /\ ok => LockFree /\ g.seq = page.seq

\* The end of a refresh, whichever call it is part of.
LEMMA AfterRefreshInv ==
  ASSUME IInv, GuestOnly, NEW g, NEW ok \in BOOLEAN, Refreshing(g), Refreshed(g, ok),
         AfterRefresh(g, ok)
  PROVE IInv'
  <1>a. g \in GuestType /\ rpc \in RpcType /\ sends \in 0 .. MaxSends /\ rpc.at # "sent"
        /\ ~page.freed /\ ~g.complete
    BY DEF Refreshing, GuestTyped, GuestFlow, GuestExposure, Reads
  <1>b. HostFlow /\ UNCHANGED <<page, host, writer, planner, serial>>
    BY DEF IInv, HostInv, GuestOnly
  <1>c. page.seq \in Nat /\ serial \in Nat /\ planner.made \in Nat
    BY DEF IInv, HostInv, HostTyped
  <1>1. CASE g.phase = "alone"
    <2>a. /\ guest' = [g EXCEPT !.pc = "idle", !.failed = g.failed \/ ~ok]
          /\ UNCHANGED <<rpc, sends>>
      BY <1>1 DEF AfterRefresh
    <2>b. /\ guest' \in GuestType /\ guest'.pc = "idle"
          /\ guest'.polls = g.polls /\ guest'.copies = g.copies
          /\ guest'.seq = g.seq /\ guest'.has = g.has /\ guest'.due = g.due
          /\ guest'.clean = g.clean /\ guest'.stage = g.stage
          /\ guest'.exposed = g.exposed /\ guest'.complete = g.complete
      BY <1>a, <2>a DEF GuestType
    <2> USE <1>a, <1>b, <1>c, <1>1, <2>a, <2>b
    <2>1. HostFlow'
      BY DEF HostFlow, Silent, LockFree
    <2>2. GuestTyped(guest, rpc, sends)'
      BY DEF GuestTyped, Refreshing
    <2>3. GuestFlow(guest, rpc)'
      BY DEF GuestFlow, Refreshing, Reads
    <2>4. GuestExposure(guest)'
      BY DEF GuestExposure, Refreshing, Quiet, LockFree
    <2>5. GuestCopy(guest)' /\ GuestSeen(guest, rpc)' /\ GuestClean(guest)'
      BY DEF GuestCopy, GuestSeen, GuestClean, Awaiting, Refreshing, Refreshed, Copying, Reads
    <2>6. Bounded(guest, rpc, sends)'
      BY DEF Bounded, Unpublished, LockFree, Refreshing, Reads
    <2> QED
      BY <2>1, <2>2, <2>3, <2>4, <2>5, <2>6, GuestStep DEF GuestInv
  <1>2. CASE g.phase = "before" /\ ok
    <2>a. /\ guest' = [g EXCEPT !.pc = "rpc", !.prev = g.seq, !.shown = g.due,
                                !.exposed = TRUE]
          /\ rpc' = [rpc EXCEPT !.at = "sent"] /\ sends' = sends
      BY <1>2 DEF AfterRefresh
    <2>b. /\ guest' \in GuestType /\ guest'.pc = "rpc" /\ guest'.exposed
          /\ guest'.polls = g.polls /\ guest'.copies = g.copies
          /\ guest'.seq = g.seq /\ guest'.has = g.has /\ guest'.due = g.due
          /\ guest'.prev = g.seq /\ guest'.shown = g.due
          /\ guest'.clean = g.clean /\ guest'.stage = g.stage
          /\ guest'.complete = g.complete /\ guest'.purpose = g.purpose
      BY <1>a, <2>a DEF GuestType
    <2>c. /\ rpc' \in RpcType /\ rpc'.at = "sent" /\ rpc'.kind = rpc.kind
          /\ rpc'.answer = rpc.answer
      BY <1>a, <2>a DEF RpcType
    <2>d. LockFree /\ g.seq = page.seq
      BY <1>2 DEF Refreshed
    <2> USE <1>a, <1>b, <1>c, <1>2, <2>a, <2>b, <2>c, <2>d
    <2>1. HostFlow'
      BY DEF HostFlow, Silent, LockFree
    <2>2. GuestTyped(guest, rpc, sends)'
      BY DEF GuestTyped, Refreshing
    <2>3. GuestFlow(guest, rpc)'
      BY DEF GuestFlow, Refreshing, Reads
    <2>4. GuestExposure(guest)'
      BY DEF GuestExposure, Refreshing, Quiet, LockFree
    <2>5. GuestCopy(guest)' /\ GuestClean(guest)'
      BY DEF GuestCopy, GuestClean, Awaiting, Refreshing, Copying, Reads
    <2>6. GuestSeen(guest, rpc)'
      BY DEF GuestSeen, Awaiting, Refreshing, Refreshed, Reads, LockFree, GuestType
    <2>7. Bounded(guest, rpc, sends)'
      BY DEF Bounded, Unpublished, LockFree, Refreshing, Reads
    <2> QED
      BY <2>1, <2>2, <2>3, <2>4, <2>5, <2>6, <2>7, GuestStep DEF GuestInv
  <1>3. CASE g.phase = "after" \/ (g.phase = "before" /\ ~ok)
    <2>a. /\ guest' = [g EXCEPT !.pc = "return",
                        !.result = IF ok /\ g.phase = "after" /\ g.seq # g.prev
                                   THEN "ok" ELSE "failed"]
          /\ UNCHANGED <<rpc, sends>>
      BY <1>3, <1>a DEF AfterRefresh, GuestType
    <2>b. /\ guest' \in GuestType /\ guest'.pc = "return"
          /\ guest'.polls = g.polls /\ guest'.copies = g.copies
          /\ guest'.seq = g.seq /\ guest'.has = g.has /\ guest'.due = g.due
          /\ guest'.shown = g.shown /\ guest'.phase = g.phase
          /\ guest'.clean = g.clean /\ guest'.stage = g.stage
          /\ guest'.exposed = g.exposed /\ guest'.complete = g.complete
          /\ guest'.purpose = g.purpose
          /\ guest'.result = "ok" => g.phase = "after" /\ g.seq # g.prev
      BY <1>a, <2>a DEF GuestType
    <2> USE <1>a, <1>b, <1>c, <1>3, <2>a, <2>b
    <2>1. HostFlow'
      BY DEF HostFlow, Silent, LockFree
    <2>2. GuestTyped(guest, rpc, sends)'
      BY DEF GuestTyped, Refreshing
    <2>3. GuestFlow(guest, rpc)'
      BY DEF GuestFlow, Refreshing, Reads
    <2>4. GuestExposure(guest)'
      BY DEF GuestExposure, Refreshing, Quiet, LockFree
    <2>5. GuestCopy(guest)' /\ GuestClean(guest)'
      BY DEF GuestCopy, GuestClean, Awaiting, Refreshing, Refreshed, Copying, Reads
    <2>6. GuestSeen(guest, rpc)'
      BY DEF GuestSeen, Awaiting, Refreshing, Refreshed, Reads, LockFree, GuestType, HostFlow,
         RpcType
    <2>7. Bounded(guest, rpc, sends)'
      BY DEF Bounded, Unpublished, LockFree, Refreshing, Reads
    <2> QED
      BY <2>1, <2>2, <2>3, <2>4, <2>5, <2>6, <2>7, GuestStep DEF GuestInv
  <1> QED
    BY <1>1, <1>2, <1>3, <1>a DEF GuestType

\* What a refresh leaves alone until its end
Kept(x, g) ==
  /\ x.phase = g.phase /\ x.purpose = g.purpose /\ x.seq = g.seq /\ x.has = g.has
  /\ x.prev = g.prev /\ x.due = g.due /\ x.shown = g.shown /\ x.result = g.result
  /\ x.clean = g.clean /\ x.stage = g.stage /\ x.exposed = g.exposed
  /\ x.complete = g.complete

\* A refresh goes on.
LEMMA ReadOn ==
  ASSUME IInv, GuestOnly, UNCHANGED <<rpc, sends>>, guest.pc \in Reads,
         GuestTyped(guest, rpc, sends)', guest'.pc \in Reads, Kept(guest', guest),
         GuestCopy(guest)'
  PROVE IInv'
  <1>a. GuestOnly /\ Kept(guest', guest)
    OBVIOUS
  <1>b. UNCHANGED <<page, host, writer, planner, serial>>
    BY DEF GuestOnly
  <1> USE <1>a, <1>b DEF IInv, HostInv, GuestInv, Kept
  <1>1. HostFlow'
    BY DEF HostFlow, Silent, LockFree
  <1>2. GuestFlow(guest, rpc)'
    BY DEF GuestFlow, Reads
  <1>3. GuestExposure(guest)'
    BY DEF GuestExposure, Quiet, LockFree, Reads
  <1>4. GuestSeen(guest, rpc)' /\ GuestClean(guest)'
    BY DEF GuestSeen, GuestClean, Awaiting, LockFree, Reads
  <1>5. Bounded(guest, rpc, sends)'
    BY DEF Bounded, Unpublished, LockFree
  <1> QED
    BY <1>1, <1>2, <1>3, <1>4, <1>5, GuestStep

\* Another poll, or the refresh has failed.
LEMMA NextPollInv ==
  ASSUME IInv, GuestOnly, guest.pc \in Reads, NextPoll(guest)
  PROVE IInv'
  <1>a. GuestInv(guest, rpc, sends) /\ guest \in GuestType
    BY DEF IInv, GuestInv, GuestTyped
  <1>1. CASE guest.polls + 1 < Attempts
    <2>1. guest' = [guest EXCEPT !.pc = "poll", !.polls = guest.polls + 1]
          /\ UNCHANGED <<rpc, sends>>
      BY <1>1 DEF NextPoll
    <2>a. guest.polls + 1 \in Nat
      BY <1>a DEF GuestType
    <2>2. /\ guest' \in GuestType /\ guest'.pc = "poll" /\ Kept(guest', guest)
          /\ guest'.polls = guest.polls + 1 /\ guest'.copies = guest.copies
      BY <1>a, <2>1, <2>a DEF GuestType, Kept, Reads
    <2>3. GuestTyped(guest, rpc, sends)'
      BY <1>1, <1>a, <2>1, <2>2 DEF GuestInv, GuestTyped
    <2>4. GuestCopy(guest)'
      BY <1>a, <2>2 DEF GuestInv, GuestCopy, Copying, Kept
    <2> QED
      BY <2>1, <2>2, <2>3, <2>4, ReadOn DEF Reads
  <1>2. CASE ~(guest.polls + 1 < Attempts)
    <2>1. AfterRefresh(guest, FALSE)
      BY <1>2 DEF NextPoll
    <2>2. Refreshing(guest)
      BY <1>a DEF GuestInv, Refreshing, GuestCopy, GuestSeen
    <2>3. Refreshed(guest, FALSE)
      BY <1>a DEF GuestInv, Refreshed, GuestSeen, GuestClean, Awaiting, Reads
    <2> QED
      BY <2>1, <2>2, <2>3, AfterRefreshInv
  <1> QED
    BY <1>1, <1>2

\* Another copy, or the next poll.
LEMMA NextCopyInv ==
  ASSUME IInv, GuestOnly, guest.pc \in Reads, NextCopy(guest)
  PROVE IInv'
  <1>a. GuestInv(guest, rpc, sends) /\ guest \in GuestType
    BY DEF IInv, GuestInv, GuestTyped
  <1>1. CASE guest.copies + 1 < Attempts
    <2>1. guest' = [guest EXCEPT !.pc = "load", !.copies = guest.copies + 1]
          /\ UNCHANGED <<rpc, sends>>
      BY <1>1 DEF NextCopy
    <2>a. guest.copies + 1 \in Nat
      BY <1>a DEF GuestType
    <2>2. /\ guest' \in GuestType /\ guest'.pc = "load" /\ Kept(guest', guest)
          /\ guest'.copies = guest.copies + 1 /\ guest'.polls = guest.polls
      BY <1>a, <2>1, <2>a DEF GuestType, Kept, Reads
    <2>3. GuestTyped(guest, rpc, sends)'
      BY <1>1, <1>a, <2>1, <2>2 DEF GuestInv, GuestTyped
    <2>4. GuestCopy(guest)'
      BY <1>a, <2>2 DEF GuestInv, GuestCopy, Copying, Kept
    <2> QED
      BY <2>1, <2>2, <2>3, <2>4, ReadOn DEF Reads
  <1>2. CASE ~(guest.copies + 1 < Attempts)
    BY <1>2, NextPollInv DEF NextCopy
  <1> QED
    BY <1>1, <1>2

-----------------------------------------------------------------------------
\* The guest looks at the sequence word.
LEMMA PollInv == IInv /\ Poll => IInv'
  <1> SUFFICES ASSUME IInv, Poll PROVE IInv'
    OBVIOUS
  <1>a. /\ GuestInv(guest, rpc, sends) /\ guest \in GuestType /\ guest.pc = "poll"
        /\ guest.pc \in Reads /\ GuestOnly
    BY DEF IInv, GuestInv, GuestTyped, Poll, Reads
  <1>1. CASE page.seq % 2 = 1
    BY <1>1, <1>a, NextPollInv DEF Poll
  <1>2. CASE page.seq % 2 # 1 /\ page.seq = guest.seq
    <2>1. AfterRefresh(guest, TRUE)
      BY <1>2 DEF Poll
    <2>2. Refreshing(guest)
      BY <1>a DEF GuestInv, Refreshing, GuestCopy, GuestSeen
    <2>3. LockFree
      BY <1>2 DEF IInv, HostInv, HostSeq
    <2>4. Refreshed(guest, TRUE)
      BY <1>a, <1>2, <2>3 DEF GuestInv, Refreshed, GuestSeen, GuestClean, Awaiting, Reads
    <2> QED
      BY <1>a, <2>1, <2>2, <2>4, AfterRefreshInv
  <1>3. CASE page.seq % 2 # 1 /\ page.seq # guest.seq
    <2>1. guest' = [guest EXCEPT !.pc = "load", !.copies = 0] /\ UNCHANGED <<rpc, sends>>
      BY <1>3 DEF Poll
    <2>2. /\ guest' \in GuestType /\ guest'.pc = "load" /\ Kept(guest', guest)
          /\ guest'.copies = 0 /\ guest'.polls = guest.polls
      BY <1>a, <2>1 DEF GuestType, Kept, Reads
    <2>3. GuestTyped(guest, rpc, sends)'
      BY <1>a, <2>1, <2>2, PageAssumption DEF GuestInv, GuestTyped, PageAssumption
    <2>4. GuestCopy(guest)'
      BY <1>a, <2>2 DEF GuestInv, GuestCopy, Copying, Kept
    <2> QED
      BY <1>a, <2>1, <2>2, <2>3, <2>4, ReadOn DEF Reads
  <1> QED
    BY <1>1, <1>2, <1>3

\* The first load of a copy.
LEMMA LoadFirstInv == IInv /\ LoadFirst => IInv'
  <1> SUFFICES ASSUME IInv, LoadFirst PROVE IInv'
    OBVIOUS
  <1>a. /\ GuestInv(guest, rpc, sends) /\ guest \in GuestType
        /\ guest.pc \in Reads /\ GuestOnly /\ page.seq \in Nat
    BY DEF IInv, HostInv, HostTyped, GuestInv, GuestTyped, LoadFirst, Reads
  <1>1. CASE page.seq % 2 = 1
    BY <1>1, <1>a, NextCopyInv DEF LoadFirst
  <1>2. CASE page.seq % 2 # 1
    <2>1. guest' = [guest EXCEPT !.pc = "header", !.first = page.seq] /\ UNCHANGED <<rpc, sends>>
      BY <1>2 DEF LoadFirst
    <2>2. /\ guest' \in GuestType /\ guest'.pc = "header" /\ guest'.first = page.seq
          /\ Kept(guest', guest)
          /\ guest'.copies = guest.copies /\ guest'.polls = guest.polls
      BY <1>a, <2>1 DEF GuestType, Kept, Reads
    <2>3. GuestTyped(guest, rpc, sends)'
      BY <1>a, <2>1, <2>2 DEF GuestInv, GuestTyped
    <2>4. page.seq % 2 = 0 /\ page' = page
      BY <1>a, <1>2 DEF IInv, HostInv, HostSeq, GuestOnly
    <2>5. GuestCopy(guest)'
      BY <1>a, <2>2, <2>4 DEF GuestInv, GuestCopy, Copying, Kept
    <2> QED
      BY <1>a, <2>1, <2>2, <2>3, <2>5, ReadOn DEF Reads
  <1> QED
    BY <1>1, <1>2

\* The header is copied.
LEMMA CopyHeaderInv == IInv /\ CopyHeader => IInv'
  <1> SUFFICES ASSUME IInv, CopyHeader PROVE IInv'
    OBVIOUS
  <1>a. /\ GuestInv(guest, rpc, sends) /\ guest \in GuestType /\ guest.pc = "header"
        /\ guest.pc \in Reads /\ GuestOnly /\ page' = page /\ page.header \in Nat
    BY DEF IInv, HostInv, HostTyped, GuestInv, GuestTyped, CopyHeader, GuestOnly, Reads
  <1>1. CASE page.seq # guest.first
    BY <1>1, <1>a, NextPollInv DEF CopyHeader
  <1>2. CASE page.seq = guest.first
    <2>1. guest' = [guest EXCEPT !.pc = "payload", !.header = page.header]
          /\ UNCHANGED <<rpc, sends>>
      BY <1>2 DEF CopyHeader
    <2>2. /\ guest' \in GuestType /\ guest'.pc = "payload" /\ guest'.first = guest.first
          /\ guest'.header = page.header /\ Kept(guest', guest)
          /\ guest'.copies = guest.copies /\ guest'.polls = guest.polls
      BY <1>a, <2>1 DEF GuestType, Kept, Reads
    <2>3. GuestTyped(guest, rpc, sends)'
      BY <1>a, <2>1, <2>2 DEF GuestInv, GuestTyped
    <2>4. GuestCopy(guest)'
      BY <1>a, <2>2 DEF GuestInv, GuestCopy, Copying, Kept
    <2> QED
      BY <1>a, <2>1, <2>2, <2>3, <2>4, ReadOn DEF Reads
  <1> QED
    BY <1>1, <1>2

\* The payload is copied.
LEMMA CopyPayloadInv == IInv /\ CopyPayload => IInv'
  <1> SUFFICES ASSUME IInv, CopyPayload PROVE IInv'
    OBVIOUS
  <1>a. /\ GuestInv(guest, rpc, sends) /\ guest \in GuestType /\ guest.pc = "payload"
        /\ guest.pc \in Reads /\ GuestOnly /\ page' = page /\ page.payload \in Nat
    BY DEF IInv, HostInv, HostTyped, GuestInv, GuestTyped, CopyPayload, GuestOnly, Reads
  <1>1. guest' = [guest EXCEPT !.pc = "second", !.payload = page.payload]
        /\ UNCHANGED <<rpc, sends>>
    BY DEF CopyPayload
  <1>2. /\ guest' \in GuestType /\ guest'.pc = "second" /\ guest'.first = guest.first
        /\ guest'.header = guest.header /\ guest'.payload = page.payload /\ Kept(guest', guest)
        /\ guest'.copies = guest.copies /\ guest'.polls = guest.polls
    BY <1>a, <1>1 DEF GuestType, Kept, Reads
  <1>3. GuestTyped(guest, rpc, sends)'
    BY <1>a, <1>1, <1>2 DEF GuestInv, GuestTyped
  <1>4. GuestCopy(guest)'
    BY <1>a, <1>2 DEF GuestInv, GuestCopy, Copying, Kept
  <1> QED
    BY <1>a, <1>1, <1>2, <1>3, <1>4, ReadOn DEF Reads

\* The second load: a copy counts, and it is of one publication.
LEMMA LoadSecondInv == IInv /\ LoadSecond => IInv'
  <1> SUFFICES ASSUME IInv, LoadSecond PROVE IInv'
    OBVIOUS
  <1>a. /\ GuestInv(guest, rpc, sends) /\ guest \in GuestType /\ guest.pc = "second"
        /\ guest.pc \in Reads /\ GuestOnly
    BY DEF IInv, GuestInv, GuestTyped, LoadSecond, Reads
  <1>1. CASE page.seq # guest.first
    BY <1>1, <1>a, NextCopyInv DEF LoadSecond
  <1>2. CASE page.seq = guest.first
    <2> DEFINE g == [guest EXCEPT !.seq = guest.first,
                       !.has = [header |-> guest.header, payload |-> guest.payload]]
    <2>a. [header |-> guest.header, payload |-> guest.payload] \in [header : Nat, payload : Nat]
      BY <1>a DEF GuestType
    <2>1. g \in GuestType
      BY <1>a, <2>a DEF GuestType
    <2>2. PICK x \in {g, LegacyOf(g)} : AfterRefresh(x, TRUE)
      BY <1>2 DEF LoadSecond
    <2>3. /\ g.pc = guest.pc /\ g.phase = guest.phase /\ g.purpose = guest.purpose
          /\ g.polls = guest.polls /\ g.copies = guest.copies
          /\ g.seq = guest.first /\ g.prev = guest.prev /\ g.due = guest.due
          /\ g.has = [header |-> guest.header, payload |-> guest.payload]
          /\ g.shown = guest.shown /\ g.clean = guest.clean
          /\ g.stage = guest.stage /\ g.exposed = guest.exposed /\ g.complete = guest.complete
      BY <1>a DEF GuestType
    <2> HIDE DEF g
    <2>4. /\ x.pc = guest.pc /\ x.phase = guest.phase /\ x.purpose = guest.purpose
          /\ x.polls = guest.polls /\ x.copies = guest.copies
          /\ x.seq = guest.first /\ x.prev = guest.prev /\ x.due = guest.due
          /\ x.has.header = guest.header /\ x.has.payload = guest.payload
          /\ x.shown = guest.shown /\ x.clean = guest.clean
          /\ x.stage \in {guest.stage, "legacy"} /\ x.exposed = guest.exposed
          /\ x.complete = guest.complete /\ x \in GuestType
      BY <2>1, <2>2, <2>3, LegacyFields DEF Same
    <2>5. LockFree /\ guest.header = serial /\ guest.payload = serial /\ page.seq \in Nat
          /\ serial \in Nat
      BY <1>a, <1>2 DEF IInv, HostInv, HostTyped, HostSeq, HostContents, GuestInv, GuestCopy,
                       Copying, LockFree
    <2>6. Refreshing(x)
      BY <1>a, <2>4, <2>5 DEF GuestInv, Refreshing, GuestTyped, GuestFlow, GuestExposure, Bounded,
                             Unpublished, GuestSeen
    <2>7. Refreshed(x, TRUE)
      BY <1>a, <1>2, <2>4, <2>5 DEF GuestInv, Refreshed, GuestSeen, Awaiting
    <2> QED
      BY <1>a, <2>2, <2>6, <2>7, AfterRefreshInv
  <1> QED
    BY <1>1, <1>2

-----------------------------------------------------------------------------
\* What the beginning of a refresh makes of the guest's state.
LEMMA RefreshFields ==
  ASSUME IInv, NEW phase \in {"alone", "before", "after"}
  PROVE LET x == Refresh(guest, phase)
        IN /\ x \in GuestType /\ x.pc = "poll" /\ x.phase = phase /\ x.polls = 0
           /\ x.copies = guest.copies /\ x.due <= serial
           /\ x.seq = guest.seq /\ x.has = guest.has /\ x.prev = guest.prev
           /\ x.shown = guest.shown /\ x.result = guest.result /\ x.clean = guest.clean
           /\ x.stage = guest.stage /\ x.exposed = guest.exposed
           /\ x.complete = guest.complete /\ x.purpose = guest.purpose
  <1>1. guest \in GuestType /\ serial \in Nat
    BY DEF IInv, HostInv, HostTyped, GuestInv, GuestTyped
  <1>2. LockFree \/ serial >= 1
    BY DEF IInv, HostInv, HostTyped, HostSeq
  <1> DEFINE x == Refresh(guest, phase)
  <1>3. PICK due \in Nat :
          /\ due <= serial
          /\ x = [guest EXCEPT !.pc = "poll", !.phase = phase, !.polls = 0, !.due = due]
    <2>1. CASE LockFree
      <3>1. serial <= serial
        BY <1>1
      <3>2. x = [guest EXCEPT !.pc = "poll", !.phase = phase, !.polls = 0, !.due = serial]
        BY <2>1 DEF Refresh
      <3> QED
        BY <1>1, <3>1, <3>2
    <2>2. CASE ~LockFree
      <3>1. serial - 1 \in Nat /\ serial - 1 <= serial
        BY <1>1, <1>2, <2>2
      <3> QED
        BY <2>2, <3>1 DEF Refresh
    <2> QED
      BY <2>1, <2>2
  <1> HIDE DEF x
  <1>6. /\ x \in GuestType /\ x.pc = "poll" /\ x.phase = phase /\ x.polls = 0
        /\ x.copies = guest.copies /\ x.due = due
        /\ x.seq = guest.seq /\ x.has = guest.has /\ x.prev = guest.prev
        /\ x.shown = guest.shown /\ x.result = guest.result /\ x.clean = guest.clean
        /\ x.stage = guest.stage /\ x.exposed = guest.exposed
        /\ x.complete = guest.complete /\ x.purpose = guest.purpose
    BY <1>1, <1>3 DEF GuestType, Reads
  <1>7. x.due <= serial
    BY <1>3, <1>6
  <1> QED
    BY <1>6, <1>7 DEF x

\* A control call begins.
LEMMA SendInv ==
  ASSUME IInv, NEW kind \in {"CAPS", "OTHER", "TEARDOWN"},
         NEW purpose \in {"register", "progress", "disable", "destroy"},
         guest.pc = "idle", ~guest.complete, kind = "OTHER" => guest.stage # "new",
         purpose \in {"disable", "destroy"} => kind = "TEARDOWN",
         Send(guest, kind, purpose)
  PROVE IInv'
  <1> DEFINE x == Refresh(guest, "before")
  <1>a. /\ guest' = [x EXCEPT !.purpose = purpose, !.result = "none"]
        /\ rpc' = [NoPacket EXCEPT !.kind = kind]
        /\ sends' = sends + 1 /\ sends < MaxSends /\ GuestOnly
    BY DEF Send
  <1>b. /\ x \in GuestType /\ x.pc = "poll" /\ x.phase = "before" /\ x.polls = 0
        /\ x.copies = guest.copies /\ x.due <= serial
        /\ x.seq = guest.seq /\ x.has = guest.has /\ x.clean = guest.clean
        /\ x.stage = guest.stage /\ x.exposed = guest.exposed /\ x.complete = guest.complete
    BY RefreshFields
  <1> HIDE DEF x
  <1>c. /\ guest' \in GuestType /\ guest'.pc = "poll" /\ guest'.phase = "before"
        /\ guest'.polls = 0 /\ guest'.copies = guest.copies /\ guest'.due <= serial
        /\ guest'.seq = guest.seq /\ guest'.has = guest.has /\ guest'.clean = guest.clean
        /\ guest'.stage = guest.stage /\ guest'.exposed = guest.exposed
        /\ guest'.complete = guest.complete /\ guest'.purpose = purpose
    BY <1>a, <1>b DEF GuestType
  <1>d. rpc' \in RpcType /\ rpc'.at = "none" /\ rpc'.kind = kind /\ rpc'.answer = 0
    BY <1>a DEF NoPacket, RpcType
  <1>e. UNCHANGED <<page, host, writer, planner, serial>>
    BY <1>a DEF GuestOnly
  <1>f. serial \in Nat /\ sends \in 0 .. MaxSends /\ planner.made \in Nat /\ rpc.at # "sent"
    BY DEF IInv, HostInv, HostTyped, GuestInv, GuestTyped, GuestFlow
  <1> USE PageAssumption, <1>c, <1>d, <1>e, <1>f DEF PageAssumption, IInv, HostInv, GuestInv
  <1>1. HostFlow'
    BY DEF HostFlow, LockFree
  <1>2. GuestTyped(guest, rpc, sends)'
    BY <1>a DEF GuestTyped
  <1>3. GuestFlow(guest, rpc)'
    BY DEF GuestFlow, Reads
  <1>4. GuestExposure(guest)'
    BY DEF GuestExposure, Quiet, LockFree
  <1>5. GuestCopy(guest)'
    BY DEF GuestCopy, Copying
  <1>6. GuestSeen(guest, rpc)' /\ GuestClean(guest)'
    BY DEF GuestSeen, GuestClean, Awaiting, Reads
  <1>7. Bounded(guest, rpc, sends)'
    BY <1>a DEF Bounded, Unpublished, LockFree
  <1> QED
    BY <1>1, <1>2, <1>3, <1>4, <1>5, <1>6, <1>7, <1>a, GuestStep

\* A look at the page before a submit.
LEMMA BeforeSubmitInv == IInv /\ BeforeSubmit => IInv'
  <1> SUFFICES ASSUME IInv, BeforeSubmit PROVE IInv'
    OBVIOUS
  <1>a. /\ guest' \in GuestType /\ guest'.pc = "poll" /\ guest'.phase = "alone"
        /\ guest'.polls = 0 /\ guest'.copies = guest.copies /\ guest'.due <= serial
        /\ guest'.seq = guest.seq /\ guest'.has = guest.has /\ guest'.clean = guest.clean
        /\ guest'.stage = guest.stage /\ guest'.exposed = guest.exposed
        /\ guest'.complete = guest.complete
    BY RefreshFields DEF BeforeSubmit
  <1>b. /\ UNCHANGED <<page, host, writer, planner, serial, rpc, sends>> /\ GuestOnly
        /\ guest.pc = "idle" /\ guest.stage \in {"detect", "special"}
    BY DEF BeforeSubmit, GuestOnly
  <1> USE PageAssumption, <1>a, <1>b DEF PageAssumption, IInv, HostInv, GuestInv
  <1>1. HostFlow'
    BY DEF HostFlow, LockFree, Silent
  <1>2. GuestTyped(guest, rpc, sends)'
    BY DEF GuestTyped
  <1>3. GuestFlow(guest, rpc)'
    BY DEF GuestFlow, Reads
  <1>4. GuestExposure(guest)'
    BY DEF GuestExposure, Quiet, LockFree
  <1>5. GuestCopy(guest)'
    BY DEF GuestCopy, Copying
  <1>6. GuestSeen(guest, rpc)' /\ GuestClean(guest)'
    BY DEF GuestSeen, GuestClean, Awaiting, Reads
  <1>7. Bounded(guest, rpc, sends)'
    BY DEF Bounded, Unpublished, LockFree
  <1> QED
    BY <1>1, <1>2, <1>3, <1>4, <1>5, <1>6, <1>7, GuestStep

\* The RPC returns and the guest looks at the page again.
LEMMA ReturnedInv == IInv /\ Returned => IInv'
  <1> SUFFICES ASSUME IInv, Returned PROVE IInv'
    OBVIOUS
  <1>a. /\ guest' \in GuestType /\ guest'.pc = "poll" /\ guest'.phase = "after"
        /\ guest'.polls = 0 /\ guest'.copies = guest.copies /\ guest'.due <= serial
        /\ guest'.seq = guest.seq /\ guest'.has = guest.has /\ guest'.clean = guest.clean
        /\ guest'.prev = guest.prev /\ guest'.shown = guest.shown
        /\ guest'.stage = guest.stage /\ guest'.exposed = guest.exposed
        /\ guest'.complete = guest.complete /\ guest'.purpose = guest.purpose
    BY RefreshFields DEF Returned
  <1>b. /\ UNCHANGED <<page, host, writer, planner, serial, rpc, sends>> /\ GuestOnly
        /\ guest.pc = "rpc" /\ rpc.at = "done"
    BY DEF Returned, GuestOnly
  <1> USE PageAssumption, <1>a, <1>b DEF PageAssumption, IInv, HostInv, GuestInv
  <1>1. HostFlow'
    BY DEF HostFlow, LockFree, Silent
  <1>2. GuestTyped(guest, rpc, sends)'
    BY DEF GuestTyped
  <1>3. GuestFlow(guest, rpc)'
    BY DEF GuestFlow, Reads
  <1>4. GuestExposure(guest)'
    BY DEF GuestExposure, Quiet, LockFree
  <1>5. GuestCopy(guest)'
    BY DEF GuestCopy, Copying
  <1>6. GuestSeen(guest, rpc)' /\ GuestClean(guest)'
    BY DEF GuestSeen, GuestClean, Awaiting, Reads, LockFree
  <1>7. Bounded(guest, rpc, sends)'
    BY DEF Bounded, Unpublished, LockFree
  <1> QED
    BY <1>1, <1>2, <1>3, <1>4, <1>5, <1>6, <1>7, GuestStep

\* A call ends, or the guest gives the page back or prepares its destruction:
\* the exposure only ends when the host is quiet.
LEMMA RestStep ==
  ASSUME IInv, GuestOnly, sends' = sends, guest.pc \in {"idle", "return"},
         rpc' = rpc \/ rpc' = NoPacket,
         guest' \in GuestType, guest'.pc \in {"idle", "destroy"},
         guest'.polls = guest.polls, guest'.copies = guest.copies,
         guest'.seq = guest.seq, guest'.has = guest.has, guest'.due = guest.due,
         guest'.clean => guest.clean /\ (guest.pc = "return" => guest.result = "ok"),
         guest'.stage = "new" => guest.stage = "new" /\ rpc.kind # "OTHER",
         \/ /\ guest'.exposed = guest.exposed /\ guest'.complete = guest.complete
            /\ guest'.stage = "legacy" \/ guest.stage # "legacy"
         \/ /\ ~guest'.exposed /\ Quiet
            /\ guest'.pc = "idle" => guest'.stage = "legacy"
  PROVE IInv'
  <1>a. UNCHANGED <<page, host, writer, planner, serial>>
    BY DEF GuestOnly
  <1>b. rpc.at # "sent" /\ rpc'.at # "sent" /\ rpc' \in RpcType
    <2>1. rpc.at # "sent" /\ rpc \in RpcType
      BY DEF IInv, GuestInv, GuestFlow, GuestTyped
    <2>2. NoPacket \in RpcType /\ NoPacket.at # "sent"
      BY DEF NoPacket, RpcType
    <2> QED
      BY <2>1, <2>2
  <1>c. rpc'.answer <= serial /\ (rpc' = rpc \/ (rpc'.kind = "CAPS" /\ rpc'.at = "none"))
    BY DEF IInv, HostInv, HostTyped, HostFlow, NoPacket
  <1> USE <1>a, <1>b, <1>c DEF IInv, HostInv, GuestInv
  <1>1. HostFlow'
    BY DEF HostFlow, LockFree, Silent
  <1>2. GuestTyped(guest, rpc, sends)'
    BY DEF GuestTyped
  <1>3. GuestFlow(guest, rpc)'
    BY DEF GuestFlow, Reads
  <1>4. GuestExposure(guest)'
    BY DEF GuestExposure, Quiet, LockFree
  <1>5. GuestCopy(guest)'
    BY DEF GuestCopy, Copying
  <1>6. GuestSeen(guest, rpc)' /\ GuestClean(guest)'
    BY DEF GuestSeen, GuestClean, Awaiting, Reads, LockFree
  <1>7. Bounded(guest, rpc, sends)'
    BY DEF Bounded, Unpublished, LockFree, Reads
  <1> QED
    BY <1>1, <1>2, <1>3, <1>4, <1>5, <1>6, <1>7, GuestStep

\* The caller takes the result of a control call.
LEMMA SendReturnsInv == IInv /\ SendReturns => IInv'
  <1> SUFFICES ASSUME IInv, SendReturns PROVE IInv'
    OBVIOUS
  <1> DEFINE ok == guest.result = "ok"
             g == [guest EXCEPT !.pc = "idle", !.clean = guest.clean /\ ok]
  <1>a. /\ guest \in GuestType /\ guest.pc = "return" /\ rpc' = NoPacket /\ sends' = sends
        /\ GuestOnly /\ ~guest.complete
    BY DEF SendReturns, IInv, GuestInv, GuestTyped, GuestExposure
  <1>b. /\ g \in GuestType /\ g.pc = "idle" /\ g.clean = (guest.clean /\ ok)
        /\ g.polls = guest.polls /\ g.copies = guest.copies /\ g.seq = guest.seq
        /\ g.has = guest.has /\ g.due = guest.due /\ g.stage = guest.stage
        /\ g.exposed = guest.exposed /\ g.complete = guest.complete
    BY <1>a DEF GuestType
  <1>c. guest.stage = "new" => rpc.kind # "OTHER"
    BY DEF IInv, GuestInv, GuestFlow
  <1>d. ok /\ guest.purpose \in {"disable", "destroy"} => Quiet
    BY <1>a DEF IInv, HostInv, HostFlow, GuestInv, GuestFlow, Quiet, Silent
  <1>1. CASE guest.purpose \in {"register", "progress"}
    <2>1. PICK s \in {"new", "detect", "special", "legacy"}, b \in BOOLEAN :
            /\ guest' = [g EXCEPT !.stage = s] \/ guest' = [g EXCEPT !.failed = b] \/ guest' = g
            /\ s # "new" /\ (guest.stage = "legacy" => s = "legacy")
      <3>1. \/ guest' \in {[g EXCEPT !.stage = "detect"], [g EXCEPT !.stage = "special"]}
               /\ guest.stage # "legacy"
            \/ guest' = g
            \/ guest' = [g EXCEPT !.failed = guest.stage # "legacy"]
            \/ guest' = [g EXCEPT !.failed = TRUE]
        BY <1>1 DEF SendReturns
      <3> HIDE DEF g
      <3> QED
        BY <3>1
    <2> HIDE DEF g
    <2>2. /\ guest' \in GuestType /\ guest'.pc = "idle" /\ guest'.clean = (guest.clean /\ ok)
          /\ guest'.polls = guest.polls /\ guest'.copies = guest.copies
          /\ guest'.seq = guest.seq /\ guest'.has = guest.has /\ guest'.due = guest.due
          /\ guest'.stage \in {guest.stage, s}
          /\ guest'.exposed = guest.exposed /\ guest'.complete = guest.complete
      BY <1>b, <2>1 DEF GuestType
    <2> QED
      BY <1>a, <1>c, <2>1, <2>2, RestStep
  <1>2. CASE guest.purpose = "disable" /\ ok
    <2>1. guest' = [LegacyOf(TornDown(g)) EXCEPT !.failed = FALSE]
      BY <1>2 DEF SendReturns
    <2> HIDE DEF g
    <2>2. /\ guest' \in GuestType /\ guest'.stage = "legacy" /\ ~guest'.exposed
          /\ Same(guest', g)
      BY <1>b, <2>1, GivenBackFields
    <2> QED
      BY <1>a, <1>b, <1>d, <1>2, <2>2, RestStep DEF Same
  <1>3. CASE guest.purpose = "disable" /\ ~ok
    <2>1. guest' = [g EXCEPT !.failed = TRUE]
      BY <1>3 DEF SendReturns
    <2> HIDE DEF g
    <2>2. /\ guest' \in GuestType /\ guest'.stage = guest.stage /\ Same(guest', g)
          /\ guest'.exposed = guest.exposed /\ guest'.complete = guest.complete
      BY <1>b, <2>1, FailedFields
    <2> QED
      BY <1>a, <1>b, <1>c, <1>3, <2>2, RestStep DEF Same
  <1>4. CASE guest.purpose = "destroy"
    <2> DEFINE x == IF ok THEN TornDown(g) ELSE g
    <2>1. guest' = [x EXCEPT !.pc = "destroy", !.failed = x.failed \/ ~ok]
      BY <1>4 DEF SendReturns
    <2> HIDE DEF g
    <2>2. /\ x \in GuestType /\ x.stage = guest.stage /\ Same(x, g)
          /\ x.exposed = (~ok /\ guest.exposed) /\ x.complete = (ok \/ guest.complete)
      <3>1. CASE ok
        BY <1>b, <3>1, TornDownFields DEF GuestType
      <3>2. CASE ~ok
        BY <1>b, <3>2 DEF GuestType, Same
      <3> QED
        BY <3>1, <3>2
    <2> HIDE DEF x
    <2>3. /\ guest' \in GuestType /\ guest'.pc = "destroy" /\ guest'.clean = x.clean
          /\ guest'.polls = x.polls /\ guest'.copies = x.copies
          /\ guest'.seq = x.seq /\ guest'.has = x.has /\ guest'.due = x.due
          /\ guest'.stage = x.stage /\ guest'.exposed = x.exposed
          /\ guest'.complete = x.complete
      BY <2>1, <2>2 DEF GuestType
    <2>4. /\ guest'.clean = (guest.clean /\ ok)
          /\ guest'.polls = guest.polls /\ guest'.copies = guest.copies
          /\ guest'.seq = guest.seq /\ guest'.has = guest.has /\ guest'.due = guest.due
          /\ guest'.stage = guest.stage
      BY <1>b, <2>2, <2>3 DEF Same
    <2>5. CASE ok
      BY <1>a, <1>c, <1>d, <1>4, <2>2, <2>3, <2>4, <2>5, RestStep DEF GuestType
    <2>6. CASE ~ok
      <3>1. guest'.exposed = guest.exposed /\ guest'.complete = guest.complete
        BY <1>a, <2>2, <2>3, <2>6 DEF GuestType
      <3>2. guest'.stage = "legacy" \/ guest.stage # "legacy"
        BY <2>4
      <3>3. guest'.clean => guest.clean /\ (guest.pc = "return" => guest.result = "ok")
        BY <2>4, <2>6
      <3> QED
        BY <1>a, <1>c, <2>3, <2>4, <3>1, <3>2, <3>3, RestStep
    <2> QED
      BY <2>5, <2>6
  <1> QED
    BY <1>1, <1>2, <1>3, <1>4, <1>a DEF GuestType

\* The device gives FLIME up before it was negotiated, or by a teardown.
LEMMA DisableDeviceInv == IInv /\ DisableDevice => IInv'
  <1> SUFFICES ASSUME IInv, DisableDevice PROVE IInv'
    OBVIOUS
  <1>a. /\ guest \in GuestType /\ guest.pc = "idle" /\ guest.stage \in {"new", "detect"}
        /\ ~guest.complete
    BY DEF DisableDevice, IInv, GuestInv, GuestTyped, GuestExposure
  <1>1. CASE guest.stage = "detect"
    BY <1>a, <1>1, SendInv DEF DisableDevice
  <1>2. CASE guest.stage = "new"
    <2>1. /\ guest' = [LegacyOf(TornDown(guest)) EXCEPT !.failed = FALSE]
          /\ GuestOnly /\ UNCHANGED <<rpc, sends>>
      BY <1>2 DEF DisableDevice
    <2>2. /\ guest' \in GuestType /\ guest'.stage = "legacy" /\ ~guest'.exposed
          /\ Same(guest', guest)
      BY <1>a, <2>1, GivenBackFields
    <2>3. Quiet
      BY <1>a, <1>2 DEF IInv, HostInv, HostFlow, GuestInv, GuestFlow, GuestExposure, Quiet
    <2> QED
      BY <1>a, <2>1, <2>2, <2>3, RestStep DEF Same
  <1> QED
    BY <1>a, <1>1, <1>2

\* The device is about to be destroyed.
LEMMA BeforeDestroyInv == IInv /\ BeforeDestroy => IInv'
  <1> SUFFICES ASSUME IInv, BeforeDestroy PROVE IInv'
    OBVIOUS
  <1>a. /\ guest \in GuestType /\ guest.pc = "idle"
        /\ guest.complete => ~guest.exposed
        /\ ~guest.exposed => Quiet
        /\ guest.stage = "new" => rpc.kind # "OTHER"
    BY DEF BeforeDestroy, IInv, GuestInv, GuestTyped, GuestExposure, GuestFlow
  <1>1. CASE guest.exposed /\ Send(guest, "TEARDOWN", "destroy")
    BY <1>a, <1>1, SendInv
  <1>2. CASE /\ ~guest.exposed
             /\ guest' = [TornDown(guest) EXCEPT !.pc = "destroy"]
             /\ GuestOnly /\ UNCHANGED <<rpc, sends>>
    <2> DEFINE x == TornDown(guest)
    <2>1. x \in GuestType /\ x.stage = guest.stage /\ Same(x, guest) /\ ~x.exposed
      BY <1>a, TornDownFields
    <2>2. guest' = [x EXCEPT !.pc = "destroy"]
      BY <1>2
    <2> HIDE DEF x
    <2>3. /\ guest' \in GuestType /\ guest'.pc = "destroy" /\ guest'.clean = x.clean
          /\ guest'.polls = x.polls /\ guest'.copies = x.copies
          /\ guest'.seq = x.seq /\ guest'.has = x.has /\ guest'.due = x.due
          /\ guest'.stage = x.stage /\ ~guest'.exposed
      BY <2>1, <2>2 DEF GuestType
    <2> QED
      BY <1>a, <1>2, <2>1, <2>3, RestStep DEF Same
  <1>3. CASE /\ guest' = [guest EXCEPT !.pc = "destroy", !.failed = TRUE]
             /\ GuestOnly /\ UNCHANGED <<rpc, sends>>
    <2>1. /\ guest' \in GuestType /\ guest'.pc = "destroy" /\ guest'.clean = guest.clean
          /\ guest'.polls = guest.polls /\ guest'.copies = guest.copies
          /\ guest'.seq = guest.seq /\ guest'.has = guest.has /\ guest'.due = guest.due
          /\ guest'.stage = guest.stage /\ guest'.exposed = guest.exposed
          /\ guest'.complete = guest.complete
      BY <1>a, <1>3 DEF GuestType
    <2> QED
      BY <1>a, <1>3, <2>1, RestStep
  <1> QED
    BY <1>1, <1>2, <1>3 DEF BeforeDestroy

-----------------------------------------------------------------------------
\* Every step keeps the invariant.
LEMMA NextInv == IInv /\ [Next]_vars => IInv'
  <1> SUFFICES ASSUME IInv, [Next]_vars PROVE IInv'
    OBVIOUS
  <1>a. guest.complete /\ guest.pc = "idle" => guest.stage = "legacy"
    BY DEF IInv, GuestInv, GuestExposure
  <1>1. CASE RegisterDevice
    BY <1>a, <1>1, SendInv DEF RegisterDevice
  <1>2. CASE SendPacket
    BY <1>a, <1>2, SendInv DEF SendPacket
  <1>3. CASE BeforeSubmit \/ DisableDevice \/ Fallback \/ BeforeDestroy \/ DestroyDevice
    BY <1>3, BeforeSubmitInv, DisableDeviceInv, FallbackInv, BeforeDestroyInv, DestroyDeviceInv
  <1>4. CASE Poll \/ LoadFirst \/ CopyHeader \/ CopyPayload \/ LoadSecond
    BY <1>4, PollInv, LoadFirstInv, CopyHeaderInv, CopyPayloadInv, LoadSecondInv
  <1>5. CASE Returned \/ TransportFails \/ SendReturns
    BY <1>5, ReturnedInv, TransportFailsInv, SendReturnsInv
  <1>6. CASE HostNext
    BY <1>6, ControlAcceptInv, ControlUndeliveredInv, ControlRefuseInv, PlannerPassInv,
       WriteHeaderInv, WritePayloadInv, WriteEvenInv, RouteBindsInv, CleanupDeviceInv
       DEF HostNext
  <1>7. CASE UNCHANGED vars
    BY <1>7 DEF vars, IInv, HostInv, HostTyped, HostSeq, HostContents, HostFlow, Silent, LockFree,
       GuestInv, GuestTyped, GuestFlow, GuestExposure, Quiet, GuestCopy, GuestSeen, Awaiting,
       GuestClean, Bounded, Unpublished
  <1> QED
    BY <1>1, <1>2, <1>3, <1>4, <1>5, <1>6, <1>7 DEF Next, GuestNext

\* The inductive invariant of the control page.
THEOREM PageInvariance == Spec => []IInv
  <1> QED
    BY InitInv, NextInv, PTL DEF Spec

\* Types, and a sequence word that is odd exactly while a publication is being
\* written (flime_publish_payload_locked).
THEOREM PageTyped == Spec => []TypeOK
  <1>1. IInv => TypeOK
    <2> SUFFICES ASSUME IInv PROVE TypeOK
      OBVIOUS
    <2> USE DEF IInv, HostInv, GuestInv
    <2>1. page.header \in 0 .. serial /\ page.payload \in 0 .. serial
      BY DEF HostTyped, HostContents
    <2>2. page.seq \in Nat /\ (page.seq % 2 = 1 <=> ~LockFree)
      BY DEF HostTyped, HostSeq
    <2>3. /\ writer.at \in {"idle", "header", "payload", "even"}
          /\ planner.made <= MaxPlans
      BY PageAssumption DEF HostTyped, PageAssumption
    <2>4. /\ guest.pc \in Reads \cup {"idle", "rpc", "return", "destroy", "closed"}
          /\ guest.stage \in {"new", "detect", "special", "legacy"}
          /\ guest.phase \in {"alone", "before", "after"}
          /\ guest.polls < Attempts /\ guest.copies < Attempts
          /\ rpc.at \in {"none", "sent", "done"} /\ rpc.kind \in {"CAPS", "OTHER", "TEARDOWN"}
          /\ sends <= MaxSends
      BY PageAssumption DEF GuestTyped, GuestType, RpcType, PageAssumption
    <2>5. guest.pc \in {"idle", "poll", "load", "header", "payload", "second", "rpc",
                        "return", "destroy", "closed"}
      BY <2>4 DEF Reads
    <2>6. (page.seq % 2 = 1) <=> ~LockFree
      BY <2>2
    <2>7. host.bound => host.open
      BY DEF HostSeq
    <2> QED
      BY <2>1, <2>2, <2>3, <2>4, <2>5, <2>6, <2>7 DEF TypeOK
  <1> QED
    BY <1>1, PageInvariance, PTL

\* The guest never parses a mixture of two publications, whoever writes while it
\* copies (CopyControlSnapshot).
THEOREM NoTornSnapshot == Spec => []WholeSnapshot
  <1>1. IInv => WholeSnapshot
    BY DEF IInv, GuestInv, GuestCopy, WholeSnapshot
  <1> QED
    BY <1>1, PageInvariance, PTL

\* A page the guest has freed has no writer, and gets none (~DeviceState,
\* flime_planner_worker).
THEOREM NoWriteAfterFree == Spec => []PagePinned
  <1>1. IInv => PagePinned
    BY DEF IInv, GuestInv, GuestExposure, Quiet, PagePinned
  <1> QED
    BY <1>1, PageInvariance, PTL

\* A control call taken as successful showed the guest the answer, or a plan
\* published since (SendControlLocked).
THEOREM SuccessIsSeen == Spec => []SuccessSeesAnswer
  <1>1. IInv => SuccessSeesAnswer
    BY DEF IInv, GuestInv, GuestSeen, SuccessSeesAnswer
  <1> QED
    BY <1>1, PageInvariance, PTL

\* A packet overwrites nothing that was complete and unread (SendControlLocked).
THEOREM NothingOverwritten == Spec => []NothingUnread
  <1>1. IInv => NothingUnread
    BY DEF IInv, GuestInv, GuestSeen, NothingUnread
  <1> QED
    BY <1>1, PageInvariance, PTL
================================================================================
