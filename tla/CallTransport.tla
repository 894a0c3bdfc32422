----------------------------- MODULE CallTransport -----------------------------
(***************************************************************************)
(* How a call comes out of a queue (teleport_express_call.c): its elements *)
(* are popped as they arrive, and a call that is not all there is put      *)
(* aside.                                                                  *)
(*                                                                         *)
(* An element is [head, params, at], params being what the flag buffer of  *)
(* a head says and at its place in the queue; a call is the sequence of    *)
(* its elements.  Elements are well formed.                                *)
(***************************************************************************)
EXTENDS Integers, Sequences, SequencesExt, FiniteSetsExt

NoCall == [elems |-> <<>>, remain |-> 0]

\* The loop over the parameters: the call when all of them are queued, else
\* packaging_call and remain_elem_num.
TakeParameters(elems, params, queue) ==
  IF params <= Len(queue)
  THEN [call |-> elems \o SubSeq(queue, 1, params), held |-> NoCall,
        queue |-> SubSeq(queue, params + 1, Len(queue))]
  ELSE [call |-> <<>>, queue |-> <<>>,
        held |-> [elems |-> elems \o queue, remain |-> params - Len(queue)]]

\* fault: the element that ended the wait is not counted
ResumeUncounted(held, queue) ==
  TakeParameters(Append(held.elems, Head(queue)), held.remain, Tail(queue))
Resume(held, queue) ==
  TakeParameters(Append(held.elems, Head(queue)), held.remain - 1, Tail(queue))

\* pack_call_from_queue; no call is <<>>
PackCall(held, queue) ==
  IF queue = <<>> THEN [call |-> <<>>, held |-> held, queue |-> queue]
  ELSE IF held # NoCall THEN Resume(held, queue)
  ELSE TakeParameters(<<Head(queue)>>, Head(queue).params, Tail(queue))

\* Its callers call it until it has none: the calls they get, and what is put
\* aside.
PackAll(held, queue) ==
  LET start == [calls |-> <<>>, held |-> held, queue |-> queue]
      step[n \in 0 .. Len(queue)] ==
        IF n = 0 THEN start
        ELSE LET s == step[n - 1]
                 p == PackCall(s.held, s.queue)
             IN [calls |-> IF p.call = <<>> THEN s.calls ELSE Append(s.calls, p.call),
                 held |-> p.held, queue |-> p.queue]
  IN step[Len(queue)]
=============================================================================
