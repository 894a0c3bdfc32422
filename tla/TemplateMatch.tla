----------------------------- MODULE TemplateMatch -----------------------------
(***************************************************************************)
(* The template a guest learns from an occurrence and how later            *)
(* occurrences are compared with it.  A call is [shape, handles]: shape    *)
(* stands for the function, the structural words, the encoded size and     *)
(* offset and the dispatch marks.  Handles change from one occurrence to   *)
(* the next; the template keeps the role of each.                          *)
(***************************************************************************)
EXTENDS Integers, Sequences, FiniteSets, SequencesExt

NullHandle == 0

\* The handles of an occurrence in the order they are first met: the position
\* of a handle here is its role
Meet(met, h) == IF h = NullHandle \/ Contains(met, h) THEN met ELSE Append(met, h)
HandlesOf(calls) == FlattenSeq([i \in DOMAIN calls |-> calls[i].handles])
Met(calls) == FoldLeft(Meet, <<>>, HandlesOf(calls))

RoleOf(met, h) == IF h = NullHandle THEN 0 ELSE CHOOSE r \in DOMAIN met : met[r] = h

LearnTemplate(calls) ==
  [i \in DOMAIN calls |->
     [shape |-> calls[i].shape,
      roles |-> [f \in DOMAIN calls[i].handles |->
                   RoleOf(Met(calls), calls[i].handles[f])]]]

\* The role-to-handle and handle-to-role maps after the first n calls, as pairs
Bound(learned, calls, n) ==
  UNION {{<<learned[i].roles[f], calls[i].handles[f]>> :
            f \in {g \in DOMAIN calls[i].handles : calls[i].handles[g] # NullHandle}} :
         i \in 1 .. n}

\* fault: only the role-to-handle map is consulted
ConsistentOneWay(bound) == \A p, q \in bound : p[1] = q[1] => p[2] = q[2]
Consistent(bound) == \A p, q \in bound : p[1] = q[1] <=> p[2] = q[2]

SameCall(expected, actual) ==
  /\ expected.shape = actual.shape
  /\ Len(expected.roles) = Len(actual.handles)
  /\ \A f \in DOMAIN actual.handles :
       expected.roles[f] = 0 <=> actual.handles[f] = NullHandle

MatchTemplatePrefix(learned, actual) ==
  /\ Len(actual) <= Len(learned)
  /\ \A i \in DOMAIN actual : SameCall(learned[i], actual[i])
  /\ Consistent(Bound(learned, actual, Len(actual)))

MatchTemplate(learned, actual) ==
  Len(learned) = Len(actual) /\ MatchTemplatePrefix(learned, actual)
=============================================================================
