---------------------------- MODULE ControlPage ----------------------------
(***************************************************************************)
(* The control page of one FLIME stream: a page of guest memory to which   *)
(* the host writes every control answer and every plan, guarded by a       *)
(* sequence word (odd while a write is in progress), and which the guest   *)
(* copies without a lock (express_vk_flime_guest_core.cpp).                *)
(*                                                                         *)
(* Host writers: the handler of a control packet and the planner worker,   *)
(* each for the whole write under flime_bridge_lock.  Guest reader: one    *)
(* thread under g_mutex, before a submit ("alone"), before a control RPC   *)
(* ("before") and after it ("after").  A publication is its serial number; *)
(* the page holds it in two parts, header and payload, which are written   *)
(* and copied at different times.  The barriers of both sides order these  *)
(* accesses, so a step is one access.                                      *)
(*                                                                         *)
(* The planner is reduced to one queued pass that may publish              *)
(* (PlannerHandoff has the rest), and the core to whether it accepts a     *)
(* packet.                                                                 *)
(***************************************************************************)
EXTENDS Naturals

CONSTANTS
  SeqTop,       \* UINT64_MAX; the runs keep far below it
  Attempts,     \* polls of RefreshControlPage, and copies of one snapshot
  MaxSends,     \* bound: control packets the guest sends
  MaxPlans      \* bound: passes the planner worker makes

ASSUME PageAssumption ==
  /\ MaxSends \in Nat /\ MaxPlans \in Nat
  /\ Attempts \in Nat \ {0}
  /\ SeqTop \in Nat /\ SeqTop > 2 * (MaxSends + MaxPlans)

VARIABLES
  page,    \* the memory: sequence word, serials of header and payload, freed
  host,    \* bridge session: open, bound, sink, control_sequence
  writer,  \* the publication in progress, and for whom
  planner, \* queued, and the passes made
  guest,   \* the device state: pc and locals of the call in progress
  rpc,     \* the control packet at the host, and its outcome
  serial,  \* publications begun
  sends    \* control packets sent

vars == <<page, host, writer, planner, guest, rpc, serial, sends>>

NoWrite == [at |-> "idle", by |-> "packet"]
NoPacket == [at |-> "none", kind |-> "CAPS", accepted |-> FALSE, answer |-> 0]

Init ==
  /\ page = [seq |-> 0, header |-> 0, payload |-> 0, freed |-> FALSE]
  /\ host = [open |-> FALSE, bound |-> FALSE, sink |-> FALSE, seq |-> 0]
  /\ writer = NoWrite
  /\ planner = [queued |-> FALSE, made |-> 0]
  /\ guest = [pc |-> "idle", phase |-> "alone", polls |-> 0, copies |-> 0,
              first |-> 0, header |-> 0, payload |-> 0,
              seq |-> 0, has |-> [header |-> 0, payload |-> 0],
              prev |-> 0, due |-> 0, shown |-> 0, result |-> "none",
              stage |-> "new", failed |-> FALSE, clean |-> TRUE,
              exposed |-> FALSE, complete |-> FALSE, purpose |-> "progress"]
  /\ rpc = NoPacket
  /\ serial = 0
  /\ sends = 0

LockFree == writer.at = "idle"

-----------------------------------------------------------------------------
\* The host writes a publication.

\* the odd sequence number after the last even one
OddAfter(seq) ==
  LET odd == IF seq >= SeqTop - 2 THEN 1 ELSE IF seq % 2 = 0 THEN seq + 1 ELSE seq
  IN  IF odd = seq THEN odd + 2 ELSE odd

\* flime_control_sink_clear, on a bridge session h
SinkCleared(h) == [h EXCEPT !.sink = FALSE, !.seq = 0]

\* flime_remove_session_locked
Removed(h) == [SinkCleared(h) EXCEPT !.open = FALSE, !.bound = FALSE]

\* flime_control_sink_replace_locked
SinkReplaced(h) == [SinkCleared(h) EXCEPT !.sink = TRUE]

\* flime_publish_payload_locked up to the odd sequence word; h is the session
Publish(h, by) ==
  /\ page' = [page EXCEPT !.seq = OddAfter(h.seq)]
  /\ host' = h
  /\ writer' = [at |-> "header", by |-> by]
  /\ serial' = serial + 1

WriteHeader ==
  /\ writer.at = "header"
  /\ page' = [page EXCEPT !.header = serial]
  /\ writer' = [writer EXCEPT !.at = "payload"]
  /\ UNCHANGED <<host, planner, guest, rpc, serial, sends>>

WritePayload ==
  /\ writer.at = "payload"
  /\ page' = [page EXCEPT !.payload = serial]
  /\ writer' = [writer EXCEPT !.at = "even"]
  /\ UNCHANGED <<host, planner, guest, rpc, serial, sends>>

\* the even sequence word, then the end of the control handler: a teardown
\* drops the session, another packet may leave the planner queued
WriteEven ==
  /\ writer.at = "even"
  /\ page' = [page EXCEPT !.seq = @ + 1]
  /\ writer' = NoWrite
  /\ LET written == [host EXCEPT !.seq = page.seq + 1]
     IN  IF writer.by = "planner"
         THEN host' = written /\ UNCHANGED <<planner, rpc>>
         ELSE /\ host' = IF rpc.kind = "TEARDOWN" THEN Removed(written) ELSE written
              /\ planner' \in IF rpc.kind = "OTHER"
                              THEN {planner, [planner EXCEPT !.queued = TRUE]}
                              ELSE {planner}
              /\ rpc' = [rpc EXCEPT !.at = "done", !.accepted = TRUE, !.answer = serial]
  /\ UNCHANGED <<guest, serial, sends>>

-----------------------------------------------------------------------------
\* express_vk_flime_bridge_control

\* the packet is accepted; every packet names the page as its control sink
ControlAccept ==
  /\ rpc.at = "sent" /\ LockFree
  /\ rpc.kind = "CAPS" \/ host.open
  /\ Publish(SinkReplaced([host EXCEPT !.open = TRUE]), "packet")
  /\ UNCHANGED <<planner, guest, rpc, sends>>

\* fault: the page cannot be mapped (a first CAPS is rolled back, otherwise
\* flime_control_delivery_failed_locked), or an answer cannot be encoded
ControlUndelivered ==
  /\ rpc.at = "sent" /\ LockFree
  /\ rpc.kind = "CAPS" \/ host.open
  /\ host' = IF rpc.kind = "CAPS" THEN Removed(host) ELSE SinkCleared(host)
  /\ rpc' = [rpc EXCEPT !.at = "done"]
  /\ UNCHANGED <<page, writer, planner, guest, serial, sends>>

\* a refused packet: before the core sees it, by the core, or by the merge of
\* the host's profile.  A core that fell back to Legacy loses the sink.  A
\* teardown of a live session is not refused: the transaction lock of
\* vk_trans.c leaves no host work in flight.
ControlRefuse ==
  /\ rpc.at = "sent" /\ LockFree
  /\ \/ ~host.open /\ rpc.kind # "CAPS" /\ UNCHANGED host
     \/ host.open /\ rpc.kind = "OTHER" /\ host' \in {host, SinkCleared(host)}
     \/ rpc.kind = "CAPS" /\ host' = Removed(host)
  /\ rpc' = [rpc EXCEPT !.at = "done"]
  /\ UNCHANGED <<page, writer, planner, guest, serial, sends>>

\* flime_planner_worker's last step, with the bridge lock held
PlannerPass ==
  /\ planner.queued /\ LockFree /\ planner.made < MaxPlans
  /\ planner' = [queued |-> FALSE, made |-> planner.made + 1]
  /\ \/ host.open /\ host.sink /\ Publish(host, "planner")
     \/ \* the plan is not published: removed, nothing pending, or a fault
        /\ host' \in IF host.open THEN {host, SinkCleared(host)} ELSE {host}
        /\ UNCHANGED <<page, writer, serial>>
  /\ UNCHANGED <<guest, rpc, sends>>

\* the first route of a stream binds its queue and device
RouteBinds ==
  /\ LockFree /\ rpc.at = "none" /\ host.open /\ ~host.bound
  /\ guest.stage = "special" /\ guest.pc = "idle"
  /\ host' = [host EXCEPT !.bound = TRUE]
  /\ UNCHANGED <<page, writer, planner, guest, rpc, serial, sends>>

\* vkDestroyDevice reaches the host some time after the guest sent it
CleanupDevice ==
  /\ guest.pc = "closed" /\ LockFree /\ host.open /\ host.bound
  /\ host' = Removed(host)
  /\ UNCHANGED <<page, writer, planner, guest, rpc, serial, sends>>

-----------------------------------------------------------------------------
\* The guest reads the page.

GuestOnly == UNCHANGED <<page, host, writer, planner, serial>>

\* EnterLegacy
LegacyOf(g) == [g EXCEPT !.stage = "legacy"]

\* RefreshControlPage begins; due is the newest publication complete by now
Refresh(g, phase) ==
  [g EXCEPT !.pc = "poll", !.phase = phase, !.polls = 0,
            !.due = IF LockFree THEN serial ELSE serial - 1]

\* fault: SendControlLocked without its watermark
AfterRefreshMutant(g, ok) ==
  CASE g.phase = "alone" ->
         /\ guest' = [g EXCEPT !.pc = "idle", !.failed = @ \/ ~ok]
         /\ UNCHANGED <<rpc, sends>>
    [] g.phase = "before" /\ ok ->
         /\ guest' = [g EXCEPT !.pc = "rpc", !.prev = g.seq, !.shown = g.due,
                               !.exposed = TRUE]
         /\ rpc' = [rpc EXCEPT !.at = "sent"]
         /\ UNCHANGED sends
    [] OTHER ->
         /\ guest' = [g EXCEPT !.pc = "return", !.result = IF ok THEN "ok" ELSE "failed"]
         /\ UNCHANGED <<rpc, sends>>

\* what follows a refresh that returned ok, with the guest's state g
AfterRefresh(g, ok) ==
  CASE g.phase = "alone" ->
         /\ guest' = [g EXCEPT !.pc = "idle", !.failed = @ \/ ~ok]
         /\ UNCHANGED <<rpc, sends>>
    [] g.phase = "before" /\ ok ->
         /\ guest' = [g EXCEPT !.pc = "rpc", !.prev = g.seq, !.shown = g.due,
                               !.exposed = TRUE]
         /\ rpc' = [rpc EXCEPT !.at = "sent"]
         /\ UNCHANGED sends
    [] OTHER ->
         /\ guest' = [g EXCEPT !.pc = "return",
                        !.result = IF ok /\ g.phase = "after" /\ g.seq # g.prev
                                   THEN "ok" ELSE "failed"]
         /\ UNCHANGED <<rpc, sends>>

\* one more attempt of RefreshControlPage, if any is left
NextPoll(g) ==
  IF g.polls + 1 < Attempts
  THEN guest' = [g EXCEPT !.pc = "poll", !.polls = @ + 1] /\ UNCHANGED <<rpc, sends>>
  ELSE AfterRefresh(g, FALSE)

\* one more attempt of CopyControlSnapshot; without one, the next poll
NextCopy(g) ==
  IF g.copies + 1 < Attempts
  THEN guest' = [g EXCEPT !.pc = "load", !.copies = @ + 1] /\ UNCHANGED <<rpc, sends>>
  ELSE NextPoll(g)

Poll ==
  /\ guest.pc = "poll"
  /\ IF page.seq % 2 = 1 THEN NextPoll(guest)
     ELSE IF page.seq = guest.seq THEN AfterRefresh(guest, TRUE)
     ELSE guest' = [guest EXCEPT !.pc = "load", !.copies = 0] /\ UNCHANGED <<rpc, sends>>
  /\ GuestOnly

LoadFirst ==
  /\ guest.pc = "load"
  /\ IF page.seq % 2 = 1 THEN NextCopy(guest)
     ELSE guest' = [guest EXCEPT !.pc = "header", !.first = page.seq]
          /\ UNCHANGED <<rpc, sends>>
  /\ GuestOnly

\* the header's own copy of the sequence word must be the one loaded
CopyHeader ==
  /\ guest.pc = "header"
  /\ IF page.seq # guest.first THEN NextPoll(guest)
     ELSE guest' = [guest EXCEPT !.pc = "payload", !.header = page.header]
          /\ UNCHANGED <<rpc, sends>>
  /\ GuestOnly

CopyPayload ==
  /\ guest.pc = "payload"
  /\ guest' = [guest EXCEPT !.pc = "second", !.payload = page.payload]
  /\ GuestOnly /\ UNCHANGED <<rpc, sends>>

\* fault: the second load only looks whether a write is in progress
LoadSecondMutant ==
  /\ guest.pc = "second"
  /\ IF page.seq % 2 = 1 THEN NextCopy(guest)
     ELSE AfterRefresh([guest EXCEPT !.seq = guest.first,
            !.has = [header |-> guest.header, payload |-> guest.payload]], TRUE)
  /\ GuestOnly

\* the copy counts if the sequence word did not move; then it is parsed, and
\* may say that the host went Legacy
LoadSecond ==
  /\ guest.pc = "second"
  /\ IF page.seq # guest.first THEN NextCopy(guest)
     ELSE \E legacy \in BOOLEAN :
            LET g == [guest EXCEPT !.seq = guest.first,
                        !.has = [header |-> guest.header, payload |-> guest.payload]]
            IN  AfterRefresh(IF legacy THEN LegacyOf(g) ELSE g, TRUE)
  /\ GuestOnly

\* ProtocolBeforeSubmit
BeforeSubmit ==
  /\ guest.pc = "idle" /\ guest.stage \in {"detect", "special"} /\ ~guest.failed
  /\ guest' = Refresh(guest, "alone")
  /\ GuestOnly /\ UNCHANGED <<rpc, sends>>

-----------------------------------------------------------------------------
\* SendControlLocked and the calls that use it.

\* fault: the page is not looked at before the RPC
SendMutant(g, kind, purpose) ==
  /\ sends < MaxSends /\ sends' = sends + 1
  /\ guest' = [Refresh(g, "before") EXCEPT !.purpose = purpose, !.result = "none",
                 !.pc = "rpc", !.prev = g.seq, !.shown = serial, !.exposed = TRUE]
  /\ rpc' = [NoPacket EXCEPT !.kind = kind, !.at = "sent"]
  /\ GuestOnly

Send(g, kind, purpose) ==
  /\ sends < MaxSends /\ sends' = sends + 1
  /\ guest' = [Refresh(g, "before") EXCEPT !.purpose = purpose, !.result = "none"]
  /\ rpc' = [NoPacket EXCEPT !.kind = kind]
  /\ GuestOnly

\* FlimeGuestRegisterDevice
RegisterDevice ==
  guest.pc = "idle" /\ guest.stage = "new" /\ ~guest.failed /\ Send(guest, "CAPS", "register")

\* any control packet of a negotiated stream
SendPacket ==
  /\ guest.pc = "idle" /\ guest.stage \in {"detect", "special"} /\ ~guest.failed
  /\ Send(guest, "OTHER", "progress")

\* the RPC returned
Returned ==
  /\ guest.pc = "rpc" /\ rpc.at = "done"
  /\ guest' = Refresh(guest, "after")
  /\ GuestOnly /\ UNCHANGED <<rpc, sends>>

\* fault: the transport fails before the host sees the packet or after it
TransportFails ==
  /\ guest.pc = "rpc" /\ rpc.at \in {"sent", "done"} /\ LockFree
  /\ guest' = [guest EXCEPT !.pc = "return", !.result = "failed"]
  /\ rpc' = [rpc EXCEPT !.at = "none"]
  /\ GuestOnly /\ UNCHANGED sends

TornDown(g) == [g EXCEPT !.complete = TRUE, !.exposed = FALSE]

\* what the caller of SendControlLocked makes of its result
SendReturns ==
  /\ guest.pc = "return"
  /\ LET ok == guest.result = "ok"
         g  == [guest EXCEPT !.pc = "idle", !.clean = @ /\ ok]
     IN  guest' \in
           CASE guest.purpose = "register" ->
                  IF ok /\ guest.stage # "legacy"
                  THEN {[g EXCEPT !.stage = "detect"]}
                  ELSE {[g EXCEPT !.failed = guest.stage # "legacy"]}
             [] guest.purpose = "progress" ->
                  IF ok /\ guest.stage # "legacy" THEN {g, [g EXCEPT !.stage = "special"]}
                  ELSE {[g EXCEPT !.failed = TRUE]}
             [] guest.purpose = "disable" ->
                  IF ok THEN {[LegacyOf(TornDown(g)) EXCEPT !.failed = FALSE]}
                  ELSE {[g EXCEPT !.failed = TRUE]}
             [] guest.purpose = "destroy" ->
                  {[IF ok THEN TornDown(g) ELSE g EXCEPT !.pc = "destroy", !.failed = @ \/ ~ok]}
  /\ rpc' = NoPacket
  /\ GuestOnly /\ UNCHANGED sends

\* DisableDeviceFlimeLocked, for a stream outside Learn, Match, Fast, Recover
DisableDevice ==
  /\ guest.pc = "idle" /\ guest.stage \in {"new", "detect"} /\ sends > 0
  /\ IF guest.stage = "detect" THEN Send(guest, "TEARDOWN", "disable")
     ELSE /\ guest' = [LegacyOf(TornDown(guest)) EXCEPT !.failed = FALSE]
          /\ GuestOnly /\ UNCHANGED <<rpc, sends>>

\* FallbackToLegacyLocked: the fallback route drains the ledger and drops the
\* session before it returns, or is refused
Fallback ==
  /\ guest.pc = "idle" /\ guest.stage = "special" /\ LockFree
  /\ \/ /\ host.open /\ host' = Removed(host)
        /\ guest' = [LegacyOf(TornDown(guest)) EXCEPT !.failed = FALSE]
     \/ guest' = [guest EXCEPT !.failed = TRUE] /\ UNCHANGED host
  /\ UNCHANGED <<page, writer, planner, rpc, serial, sends>>

\* FlimeGuestBeforeDestroyDevice; the third case is an early route or a cluster
\* that cannot be flushed
BeforeDestroy ==
  /\ guest.pc = "idle" /\ sends > 0
  /\ \/ guest.exposed /\ Send(guest, "TEARDOWN", "destroy")
     \/ /\ ~guest.exposed
        /\ guest' = [TornDown(guest) EXCEPT !.pc = "destroy"]
        /\ GuestOnly /\ UNCHANGED <<rpc, sends>>
     \/ /\ guest' = [guest EXCEPT !.pc = "destroy", !.failed = TRUE]
        /\ GuestOnly /\ UNCHANGED <<rpc, sends>>

\* fault: the page is freed with the device state
DestroyDeviceMutant ==
  /\ guest.pc = "destroy"
  /\ page' = [page EXCEPT !.freed = TRUE]
  /\ guest' = [guest EXCEPT !.pc = "closed"]
  /\ UNCHANGED <<host, writer, planner, rpc, serial, sends>>

\* FlimeGuestDestroyDevice and ~DeviceState: vkDestroyDevice is sent whatever
\* BeforeDestroy said, and the page is freed unless the host may hold it
DestroyDevice ==
  /\ guest.pc = "destroy"
  /\ page' = [page EXCEPT !.freed = ~guest.exposed \/ guest.complete]
  /\ guest' = [guest EXCEPT !.pc = "closed"]
  /\ UNCHANGED <<host, writer, planner, rpc, serial, sends>>

-----------------------------------------------------------------------------
GuestNext ==
  \/ RegisterDevice \/ SendPacket \/ BeforeSubmit \/ DisableDevice \/ Fallback
  \/ BeforeDestroy \/ DestroyDevice
  \/ Poll \/ LoadFirst \/ CopyHeader \/ CopyPayload \/ LoadSecond
  \/ Returned \/ TransportFails \/ SendReturns

HostNext ==
  \/ ControlAccept \/ ControlUndelivered \/ ControlRefuse \/ PlannerPass
  \/ WriteHeader \/ WritePayload \/ WriteEven \/ RouteBinds \/ CleanupDevice

Next == GuestNext \/ HostNext

Spec == Init /\ [][Next]_vars

-----------------------------------------------------------------------------
\* The fields hold what the code can put there, and the sequence word is odd
\* exactly while a publication is being written.
TypeOK ==
  /\ page.seq \in Nat /\ page.header \in 0..serial /\ page.payload \in 0..serial
  /\ (page.seq % 2 = 1) <=> ~LockFree
  /\ writer.at \in {"idle", "header", "payload", "even"}
  /\ guest.pc \in {"idle", "poll", "load", "header", "payload", "second", "rpc",
                   "return", "destroy", "closed"}
  /\ guest.stage \in {"new", "detect", "special", "legacy"}
  /\ guest.phase \in {"alone", "before", "after"}
  /\ guest.polls < Attempts /\ guest.copies < Attempts
  /\ rpc.at \in {"none", "sent", "done"} /\ rpc.kind \in {"CAPS", "OTHER", "TEARDOWN"}
  /\ sends <= MaxSends /\ planner.made <= MaxPlans
  /\ host.bound => host.open

\* The guest never acts on a mixture: header and payload it parsed are of one
\* publication, whatever the packet handler and the planner wrote meanwhile.
WholeSnapshot == guest.has.header = guest.has.payload

\* The host never writes to a page the guest has given back to its allocator:
\* no write is in progress, and no pass of the planner can begin one, although
\* the guest also frees a page whose teardown it skipped.
PagePinned ==
  page.freed => LockFree /\ ~(planner.queued /\ host.open /\ host.sink)

\* A control call the guest takes as successful showed the guest something: its
\* packet's answer or a later plan, or, for a refused packet, a plan the
\* planner published after the packet's first look at the page.
SuccessSeesAnswer ==
  (guest.pc = "return" /\ guest.result = "ok") =>
    /\ guest.has.payload >= rpc.answer
    /\ guest.has.payload > guest.shown

\* Until a call failed, a packet is sent only when the guest has parsed every
\* publication complete before its first look: a plan the planner delivered
\* between two packets is not overwritten unread.
NothingUnread ==
  (guest.pc = "rpc" /\ guest.clean /\ ~guest.failed) => guest.has.payload >= guest.shown

\* "Every successful control RPC publishes a fresh seqlock snapshot"
\* (express_vk_flime_guest_core.cpp:507): once the RPC of an accepted packet is
\* done the sequence word is not the one remembered before it.
FreshAnswer ==
  (guest.pc = "rpc" /\ guest.clean /\ rpc.at = "done" /\ rpc.accepted /\ LockFree) =>
    page.seq # guest.prev
=============================================================================
