----------------------------- MODULE ChunkPlanner -----------------------------
(***************************************************************************)
(* How an occurrence is cut into units on the guest, checked on the host,  *)
(* forwarded as chunks by the plan of the host, and how the guest accepts  *)
(* that plan.  Costs are whole numbers: the host computes with doubles.    *)
(***************************************************************************)
EXTENDS Integers, Sequences, FiniteSetsExt, SequencesExt

Larger(a, b) == IF a >= b THEN a ELSE b

\* The sums of the first i
Prefix(s) ==
  LET sum[i \in 0 .. Len(s)] == IF i = 0 THEN 0 ELSE sum[i - 1] + s[i]
  IN sum

-----------------------------------------------------------------------------
(* Units.  A call is [dispatch, bytes]; an unit ends before the dispatch    *)
(* that would be one too many.                                              *)

NoUnit == [begin |-> 0, bytes |-> 0, dispatches |-> 0]

\* fault: the dispatch that opens a unit is counted in the unit before it
RecordCallLate(acc, call, perUnit) ==
  LET cut == call.dispatch /\ acc.unit.dispatches = perUnit + 1
      unit == IF cut THEN [NoUnit EXCEPT !.begin = acc.bytes] ELSE acc.unit
  IN [units |-> IF cut THEN Append(acc.units, acc.unit) ELSE acc.units,
      unit  |-> [unit EXCEPT !.bytes = @ + call.bytes,
                             !.dispatches = @ + IF call.dispatch THEN 1 ELSE 0],
      bytes |-> acc.bytes + call.bytes]
RecordCall(acc, call, perUnit) ==
  LET cut == call.dispatch /\ acc.unit.dispatches = perUnit
      unit == IF cut THEN [NoUnit EXCEPT !.begin = acc.bytes] ELSE acc.unit
  IN [units |-> IF cut THEN Append(acc.units, acc.unit) ELSE acc.units,
      unit  |-> [unit EXCEPT !.bytes = @ + call.bytes,
                             !.dispatches = @ + IF call.dispatch THEN 1 ELSE 0],
      bytes |-> acc.bytes + call.bytes]

\* The calls one by one, and the open unit behind the last
Recorded(calls, perUnit) ==
  LET after[i \in 0 .. Len(calls)] ==
        IF i = 0 THEN [units |-> <<>>, unit |-> NoUnit, bytes |-> 0]
        ELSE RecordCall(after[i - 1], calls[i], perUnit)
  IN after[Len(calls)]

\* The units as the guest reports them
Sampled(cut) ==
  [i \in DOMAIN cut |->
     [offset |-> cut[i].begin, bytes |-> cut[i].bytes,
      dispatch_end |-> Prefix([j \in DOMAIN cut |-> cut[j].dispatches])[i],
      final |-> i = Len(cut)]]

\* The units of an occurrence, <<>> when BuildUnits refuses it
BuildUnits(calls, perUnit) ==
  LET end == Recorded(calls, perUnit)
  IN IF end.unit.dispatches = 0 THEN <<>> ELSE Sampled(Append(end.units, end.unit))

\* The host accepts sample as the unit that follows the ones it has.
ValidateUnit(had, sample, perUnit) ==
  LET last == IF had = <<>>
              THEN [offset |-> 0, bytes |-> 0, dispatch_end |-> 0, final |-> FALSE]
              ELSE Last(had)
      count == sample.dispatch_end - last.dispatch_end
  IN /\ count > 0 /\ count <= perUnit
     /\ ~sample.final => count = perUnit
     /\ ~last.final
     /\ sample.bytes > 0
     /\ sample.offset >= last.offset + last.bytes

ProfileAccepted(units, perUnit) ==
  \A i \in DOMAIN units : ValidateUnit(SubSeq(units, 1, i - 1), units[i], perUnit)

-----------------------------------------------------------------------------
(* The plan: the recurrence over (chunks, units), row by row.  A cell keeps *)
(* its cost and the unit its last chunk starts after.                       *)

Unreachable == -1   \* no cost: DBL_MAX

FirstRow(n) == [i \in 0 .. n |-> [cost |-> IF i = 0 THEN 0 ELSE Unreachable, from |-> 0]]

\* Chunk k, from unit j + 1 to unit i, completes on the host
\* fault: the host does not wait for the guest to release the chunk
CompletionEager(previous, guest, host, sigma, k, j, i) ==
  previous + sigma.host + Prefix(host)[i] - Prefix(host)[j]
Completion(previous, guest, host, sigma, k, j, i) ==
  Larger(previous, Prefix(guest)[i] + k * sigma.guest)
  + sigma.host + Prefix(host)[i] - Prefix(host)[j]

\* What chunk k costs that ends with unit i, of the units it can start after
NextCell(row, k, i, guest, host, sigma) ==
  LET starts == {j \in k - 1 .. i - 1 : row[j].cost # Unreachable}
      candidate == [j \in starts |-> Completion(row[j].cost, guest, host, sigma, k, j, i)]
      best == Min({candidate[j] : j \in starts})
  IN IF starts = {} THEN [cost |-> Unreachable, from |-> 0]
     ELSE [cost |-> best, from |-> Min({j \in starts : candidate[j] = best})]
NextRow(row, k, guest, host, sigma) ==
  [i \in 0 .. Len(guest) |-> NextCell(row, k, i, guest, host, sigma)]

Rows(guest, host, sigma, limit) ==
  LET row[k \in 0 .. limit] ==
        IF k = 0 THEN FirstRow(Len(guest)) ELSE NextRow(row[k - 1], k, guest, host, sigma)
  IN row

\* From the last unit back to where each of the last t chunks starts
Back(rows, count, n) ==
  LET end[t \in 0 .. count - 1] == IF t = 0 THEN n ELSE rows[count - t + 1][end[t - 1]].from
  IN end

ChunkLimit(n, max, early) == IF early THEN Min({max, n}) ELSE 1

\* flime_plan_locked: the boundaries, and the completion it predicts
Plan(guest, host, sigma, max, early) ==
  LET n == Len(guest)
      limit == ChunkLimit(n, max, early)
      rows == Rows(guest, host, sigma, limit)
      best == Min({rows[k][n].cost : k \in {k \in 1 .. limit : rows[k][n].cost # Unreachable}})
      count == Min({k \in 1 .. limit : rows[k][n].cost = best})
  IN [ends |-> [k \in 1 .. count |-> Back(rows, count, n)[count - k]], predicted |-> best]

Boundaries(units, ends) ==
  [i \in DOMAIN ends |->
     [unit |-> ends[i], offset |-> units[ends[i]].offset + units[ends[i]].bytes]]

\* PlanMatchesUnits on the guest
PlanMatchesUnits(bounds, units) ==
  /\ bounds # <<>> /\ units # <<>>
  /\ \A i \in DOMAIN bounds :
       LET previous == IF i = 1 THEN [unit |-> 0, offset |-> 0] ELSE bounds[i - 1]
           b == bounds[i]
       IN /\ b.unit > previous.unit /\ b.unit <= Len(units)
          /\ b.offset = units[b.unit].offset + units[b.unit].bytes
          /\ b.offset > previous.offset
  /\ Last(bounds).unit = Len(units)
=============================================================================
