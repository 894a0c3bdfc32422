---------------------------- MODULE FlimeAlgorithms ----------------------------
(***************************************************************************)
(* The pure computations of the protocol on inputs that grow one element   *)
(* at a time, against what each is for: the batch decisions of the ledger  *)
(* (FlimeLedgerWalk), the period detectors, the chunk planner, the cutting *)
(* of units, the template match, the scan of a clustered call and the      *)
(* packing of calls.                                                       *)
(***************************************************************************)
EXTENDS FlimeLedgerWalk, IntervalDetector, ChunkPlanner, TemplateMatch, ClusterCall,
        CallTransport

CONSTANTS Signatures, HistoryLimit,  \* intervals and the bounded history
          MaxUnits, Costs, Handoffs, ChunkLimits,   \* planner
          MaxCalls, DispatchesPerUnit,      \* units of an occurrence
          Shapes, HandleLists, MaxTemplate, \* templates
          Words, MaxWords, SaveSizes, FlimeLimitPairs, \* clustered calls
          MaxParams, MaxElements            \* elements of a queue

ASSUME AlgorithmAssumption ==
  /\ MaxLedger \in Nat /\ MaxIds \in Nat /\ MaxParams \in Nat
  /\ ClusterMaxParameters \in Nat /\ Words \subseteq Nat /\ SaveSizes \subseteq Nat
  /\ FlimeLimitPairs \subseteq [words : Nat, calls : Nat]
  /\ HandleLists \subseteq Seq(Nat) /\ HistoryLimit \in Nat \ {0}
  /\ MaxUnits \in Nat /\ Costs \subseteq Nat /\ Handoffs \subseteq Nat /\ ChunkLimits \subseteq Nat
  /\ DispatchesPerUnit \subseteq Nat \ {0}

VARIABLES task, input
avars == <<L, ids, task, input>>

Idle == L = <<>> /\ ids = <<>>

AInit ==
  \/ Init /\ task = "batch" /\ input = <<>>
  \/ Idle /\ task = "intervals" /\ input = <<>>
  \/ Idle /\ task = "plan" /\ input \in
       [units : {<<>>}, guest : Handoffs, host : Handoffs, max : ChunkLimits]
  \/ Idle /\ task = "units" /\ input \in [calls : {<<>>}, per : DispatchesPerUnit]
  \/ Idle /\ task = "template" /\ input = [old |-> <<>>, new |-> <<>>]
  \/ Idle /\ task = "cluster" /\ input \in
       [stream : {<<>>}, env : [params : {2, 3}, sync : BOOLEAN, save : SaveSizes,
                                flime : FlimeLimitPairs]]
  \/ Idle /\ task = "packing" /\ input =
       [sent |-> <<>>, queue |-> <<>>, held |-> NoCall, calls |-> <<>>]

Batch == task = "batch" /\ Next /\ UNCHANGED <<task, input>>

NoteSignature ==
  /\ task = "intervals"
  /\ \E s \in Signatures : input' = Slide(input, s, HistoryLimit)
  /\ UNCHANGED <<L, ids, task>>

ProfileUnit ==
  /\ task = "plan" /\ Len(input.units) < MaxUnits
  /\ \E g, h \in Costs :
       input' = [input EXCEPT !.units = Append(@, [guest |-> g, host |-> h])]
  /\ UNCHANGED <<L, ids, task>>

RecordCalls ==
  /\ task = "units" /\ Len(input.calls) < MaxCalls
  /\ \E d \in BOOLEAN, b \in 1 .. 2 :
       input' = [input EXCEPT !.calls = Append(@, [dispatch |-> d, bytes |-> b])]
  /\ UNCHANGED <<L, ids, task>>

SemanticCalls == [shape : Shapes, handles : HandleLists]
Observe ==
  /\ task = "template"
  /\ \E c \in SemanticCalls, side \in {"old", "new"} :
       /\ Len(input[side]) < MaxTemplate
       /\ input' = [input EXCEPT ![side] = Append(@, c)]
  /\ UNCHANGED <<L, ids, task>>

EncodeWord ==
  /\ task = "cluster" /\ Len(input.stream) < MaxWords
  /\ \E w \in Words : input' = [input EXCEPT !.stream = Append(@, w)]
  /\ UNCHANGED <<L, ids, task>>

\* Where the calls begin in a sequence of elements
Heads(elems) == {i \in DOMAIN elems : elems[i].head}
Wanted(elems) ==
  IF Heads(elems) = {} THEN 0
  ELSE LET i == Max(Heads(elems)) IN i + elems[i].params - Len(elems)

\* The guest queues the elements of its calls, one call after the other.
QueueElement ==
  /\ task = "packing" /\ Len(input.sent) < MaxElements
  /\ \E e \in [head : BOOLEAN, params : 0 .. MaxParams, at : {Len(input.sent) + 1}] :
       /\ e.head <=> Wanted(input.sent) = 0
       /\ ~e.head => e.params = 0
       /\ input' = [input EXCEPT !.sent = Append(@, e), !.queue = Append(@, e)]
  /\ UNCHANGED <<L, ids, task>>

\* The host looks at the queue.
PackCalls ==
  /\ task = "packing" /\ input.queue # <<>>
  /\ LET all == PackAll(input.held, input.queue)
     IN input' = [input EXCEPT !.queue = all.queue, !.held = all.held,
                               !.calls = @ \o all.calls]
  /\ UNCHANGED <<L, ids, task>>

ANext ==
  \/ Batch \/ NoteSignature \/ ProfileUnit \/ RecordCalls \/ Observe \/ EncodeWord
  \/ QueueElement \/ PackCalls
ASpec == AInit /\ [][ANext]_avars

-----------------------------------------------------------------------------
Repeats(s, p) == Len(s) % p = 0 /\ \A i \in 1 .. Len(s) - p : s[i] = s[i + p]
Squares(s) == {p \in 1 .. Len(s) \div 2 : Repeats(Tailing(s, 2 * p), p)}

\* The guest reports the shortest period its history ends with twice; the host
\* reports one exactly when there is one, a longer one only if the whole
\* history is its repetition: an announced period of one always becomes a
\* candidate on the host.
PeriodFound ==
  task = "intervals" /\ input # <<>> =>
    LET found == NoteInterval(input)
    IN IF Squares(input) = {} THEN RepeatedSuffixPeriod(input) = 0 /\ found = 0
       ELSE /\ RepeatedSuffixPeriod(input) = Min(Squares(input))
            /\ found \in Squares(input)
            /\ found # Min(Squares(input)) => Repeats(input, found)

\* What a schedule completes at: chunk by chunk, each starting on the host when
\* the guest has released it and the host has finished the one before
ChunkDone(done, ends, guest, host, sigma, k) ==
  LET from == IF k = 1 THEN 0 ELSE ends[k - 1]
      units == SubSeq(host, from + 1, ends[k])
      released == Prefix(guest)[ends[k]] + k * sigma.guest
  IN Larger(done, released) + sigma.host + Prefix(units)[Len(units)]
Simulated(ends, guest, host, sigma) ==
  LET done[k \in 0 .. Len(ends)] ==
        IF k = 0 THEN 0 ELSE ChunkDone(done[k - 1], ends, guest, host, sigma, k)
  IN done[Len(ends)]

\* The ways to cut n units into at most limit chunks: the unit each ends with
Schedules(n, limit) ==
  {s \in UNION {[1 .. m -> 1 .. n] : m \in 1 .. limit} :
     s[Len(s)] = n /\ \A i \in 1 .. Len(s) - 1 : s[i] < s[i + 1]}

\* The planner's boundaries complete when it predicts, no schedule within the
\* chunk limit completes sooner, and none as soon has fewer chunks; without
\* early release the whole occurrence is one chunk.
PlanOptimal ==
  task = "plan" /\ input.units # <<>> =>
    LET guest == [i \in DOMAIN input.units |-> input.units[i].guest]
        host == [i \in DOMAIN input.units |-> input.units[i].host]
        sigma == [guest |-> input.guest, host |-> input.host]
        early == input.max # 0
        n == Len(guest)
        plan == Plan(guest, host, sigma, input.max, early)
    IN /\ plan.ends \in Schedules(n, ChunkLimit(n, input.max, early))
       /\ Simulated(plan.ends, guest, host, sigma) = plan.predicted
       /\ \A s \in Schedules(n, ChunkLimit(n, input.max, early)) :
            LET at == Simulated(s, guest, host, sigma)
            IN at > plan.predicted \/ (at = plan.predicted /\ Len(s) >= Len(plan.ends))

\* The units a guest cuts an occurrence into pass the host's checks one by one,
\* and the plan the host makes of them is one the guest finds to fit the next
\* occurrence of the same calls.
UnitsAndPlanFit ==
  task = "units" =>
    LET units == BuildUnits(input.calls, input.per)
        cost == [i \in DOMAIN units |-> units[i].bytes]
    IN units # <<>> =>
         /\ ProfileAccepted(units, input.per)
         /\ units[Len(units)].final
         /\ \A max \in 0 .. MaxUnits :
              PlanMatchesUnits(
                Boundaries(units, Plan(cost, cost, [guest |-> 1, host |-> 0],
                                       max, max # 0).ends), units)

\* Two occurrences are alike when a renaming of handles takes one to the other.
Alike(a, b) ==
  /\ Len(a) = Len(b)
  /\ \A i \in DOMAIN a :
       a[i].shape = b[i].shape /\ Len(a[i].handles) = Len(b[i].handles)
  /\ LET x == HandlesOf(a)
         y == HandlesOf(b)
     IN \A i, j \in DOMAIN x :
          /\ x[i] = x[j] <=> y[i] = y[j]
          /\ x[i] = NullHandle <=> y[i] = NullHandle

\* A new occurrence matches the learned template exactly when it is the old one
\* with its handles renamed, null staying null; a prefix of it matches exactly
\* when the same prefix of the old one is renamed to it.
MatchIsRenaming ==
  task = "template" =>
    LET learned == LearnTemplate(input.old)
        n == Len(input.new)
    IN /\ MatchTemplate(learned, input.new) <=> Alike(input.old, input.new)
       /\ n <= Len(input.old) =>
            (MatchTemplatePrefix(learned, input.new)
               <=> Alike(SubSeq(input.old, 1, n), input.new))

\* A way to cut a stream into calls: where each begins, and the end
Cuts(stream) ==
  {c \in SUBSET (0 .. Len(stream)) :
     /\ {0, Len(stream)} \subseteq c
     /\ \A at \in c \ {Len(stream)} :
          LET end == Min({e \in c : e > at})
          IN end - at >= 2 /\ end - at = 2 + 2 * stream[at + 2]}

\* A stream the host may run: calls from end to end, none barred, data inside
\* the save buffer, and a route only under the FLIME rules, without its submit
Proper(stream, cut, env) ==
  LET calls == cut \ {Len(stream)}
      names == {stream[at + 1] : at \in calls}
  IN /\ Barred \notin names
     /\ \A at \in calls :
          /\ stream[at + 2] <= ClusterMaxParameters
          /\ \A i \in 1 .. stream[at + 2] :
               LET length == stream[at + 1 + 2 * i]
                   offset == stream[at + 2 + 2 * i]
               IN /\ offset = 0 \/ offset + length <= env.save
                  /\ Route \in names => (length = 0 <=> offset = 0)
     /\ env.params = 3 \/ Route \in names => Len(stream) <= env.flime.words
     /\ Route \in names => /\ Submit \notin names /\ Cardinality(calls) <= env.flime.calls
                            /\ env.params = 3 /\ env.sync

\* "Validate the complete call stream before dispatching any member": of an
\* improper cluster nothing runs, of a proper one every call does, in order, with
\* no word left over.
ClusterAllOrNothing ==
  task = "cluster" =>
    LET proper == {c \in Cuts(input.stream) : Proper(input.stream, c, input.env)}
        ran == Ran(input.stream, input.env)
    IN IF proper = {} THEN ran = <<>>
       ELSE \A c \in proper :
              LET calls == c \ {Len(input.stream)}
                  Nth(at) == Cardinality({b \in calls : b < at}) + 1
              IN /\ Len(ran) = Cardinality(calls)
                 /\ \A at \in calls : ran[Nth(at)] = Member(input.stream, at)

Whole(call) == call[1].head /\ Len(call) = 1 + call[1].params

\* However its elements trickle in and wherever the host's looks at the queue
\* fall between them, what the guest queued is what was handed on, call by call,
\* what is put aside and what was not looked at yet; each call is handed on
\* whole, and what is put aside is a call that is not all there.
CallsWholeInOrder ==
  task = "packing" =>
    /\ input.sent = FlattenSeq(input.calls) \o input.held.elems \o input.queue
    /\ \A n \in DOMAIN input.calls : Whole(input.calls[n])
    /\ input.held # NoCall =>
         input.held.elems[1].head
           /\ Len(input.held.elems) < 1 + input.held.elems[1].params
=============================================================================
