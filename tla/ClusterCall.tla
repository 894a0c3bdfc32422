------------------------------ MODULE ClusterCall ------------------------------
(***************************************************************************)
(* A clustered call: many guest calls in one stream, with their data in a  *)
(* save buffer.  The host scans the whole stream before it dispatches the  *)
(* first member, then walks it again without a check.                      *)
(*                                                                         *)
(* A stream is a sequence of words, the size fields are in words.  A call  *)
(* is its id, its parameter count and for each parameter a length and an   *)
(* offset into the save buffer, 0 for a null pointer.  Ids are abstracted  *)
(* to what the scan tells apart: Route, Submit, any other call the GPU     *)
(* decoder takes, and Barred (another device, flags, a nested cluster, a   *)
(* call that keeps its storage).  An envelope is [params, sync, save,      *)
(* flime]: the outer call's parameters and sync flag, the save buffer's    *)
(* size, and the limits on words and calls of a stream with a route.       *)
(***************************************************************************)
EXTENDS Integers, Sequences

CONSTANT ClusterMaxParameters  \* EXPRESS_CLUSTER_MAX_PARAMETERS

Barred == 0
Route == 1
Submit == 2

Record(count) == 2 + 2 * count
LengthAt(stream, at, i) == stream[at + 1 + 2 * i]
OffsetAt(stream, at, i) == stream[at + 2 + 2 * i]

Fits(stream, at, i, save) ==
  LET offset == OffsetAt(stream, at, i)
  IN offset # 0 => offset <= save /\ LengthAt(stream, at, i) <= save - offset

\* Null pointers have length 0, and only they: the audited FLIME encoding
Canonical(stream, at, i) == (LengthAt(stream, at, i) = 0) <=> (OffsetAt(stream, at, i) = 0)

\* fault: a submit in front of the route is not remembered
ConflictsAfter(scan, id) == scan.route /\ id = Submit
\* The route and the submit it belongs to share a cluster
Conflicts(scan, id) ==
  (scan.route \/ id = Route) /\ (scan.submit \/ id = Submit)

\* One call of express_cluster_preflight_with_info, at the word before which
\* scan.at words are behind
ScanCall(stream, save, scan) ==
  LET left == Len(stream) - scan.at
      id == stream[scan.at + 1]
      count == stream[scan.at + 2]
  IN IF \/ left < 2
        \/ id = Barred
        \/ count > ClusterMaxParameters
        \/ Record(count) > left
        \/ \E i \in 1 .. count : ~Fits(stream, scan.at, i, save)
        \/ Conflicts(scan, id)
     THEN [scan EXCEPT !.ok = FALSE]
     ELSE [scan EXCEPT !.at = @ + Record(count), !.calls = @ + 1,
                       !.route = @ \/ id = Route, !.submit = @ \/ id = Submit,
                       !.canonical = @ /\ \A i \in 1 .. count :
                                            Canonical(stream, scan.at, i)]

Scan(stream, save) ==
  LET start == [ok |-> TRUE, at |-> 0, calls |-> 0, route |-> FALSE,
                submit |-> FALSE, canonical |-> TRUE]
      step[n \in 0 .. Len(stream)] ==
        IF n = 0 THEN start
        ELSE LET scan == step[n - 1]
             IN IF scan.ok /\ scan.at < Len(stream)
                THEN ScanCall(stream, save, scan) ELSE scan
  IN step[Len(stream)]

FlimeLimits(stream, env) == Len(stream) <= env.flime.words

\* express_cluster_preflight_with_info
Preflight(stream, env) ==
  LET scan == Scan(stream, env.save)
  IN /\ scan.ok
     /\ scan.route => /\ FlimeLimits(stream, env) /\ scan.calls <= env.flime.calls
                      /\ scan.canonical

\* The checks of cluster_decode_invoke before the first member is dispatched
Dispatches(stream, env) ==
  /\ env.params = 3 => FlimeLimits(stream, env)
  /\ Preflight(stream, env)
  /\ Scan(stream, env.save).route => env.params = 3 /\ env.sync

\* create_call_from_cluster: a null pointer by its offset alone
Pointer(stream, at, i) ==
  IF OffsetAt(stream, at, i) = 0 THEN [from |-> 0, length |-> 0]
  ELSE [from |-> OffsetAt(stream, at, i), length |-> LengthAt(stream, at, i)]
Member(stream, at) ==
  [id |-> stream[at + 1],
   data |-> [i \in 1 .. stream[at + 2] |-> Pointer(stream, at, i)]]

\* The loop that dispatches, where the words allow: the members it runs, and
\* where it stops.
Walk(stream) ==
  LET step[n \in 0 .. Len(stream)] ==
        IF n = 0 THEN [at |-> 0, ran |-> <<>>]
        ELSE LET walk == step[n - 1]
             IN IF walk.at + 2 > Len(stream) \/ walk.at + Record(stream[walk.at + 2]) > Len(stream)
                THEN walk
                ELSE [at |-> walk.at + Record(stream[walk.at + 2]),
                      ran |-> Append(walk.ran, Member(stream, walk.at))]
  IN step[Len(stream)]

\* cluster_decode_invoke: the members that run
Ran(stream, env) == IF Dispatches(stream, env) THEN Walk(stream).ran ELSE <<>>
=============================================================================
