--------------------------- MODULE GuestFrontierMC ---------------------------
(* Small instances of GuestFrontier for TLC: two sets of one descriptor     *)
(* each, an update of one, alone or with a copy from it to the other, and   *)
(* two command buffers, one that consumes both sets and one that consumes  *)
(* the first, which may also be recorded with one unit too many.           *)
EXTENDS GuestFrontier, TLC

MCSets == {"A", "B"}
MCSlots == {"a", "b"}
MCSetOf == [k \in MCSlots |-> IF k = "a" THEN "A" ELSE "B"]
MCCalls ==
  {<<[dst |-> "a", src |-> x]>> : x \in Buffers}
    \cup {<<[dst |-> "b", src |-> "a"]>>}
    \cup {<<[dst |-> "a", src |-> x], [dst |-> "b", src |-> "a"]>> : x \in Buffers}
MCCmds == {"c", "d"}
MCShapes == [c \in MCCmds |->
  IF c = "c" THEN {[sets |-> {"A", "B"}, units |-> MaxUnits]}
  ELSE {[sets |-> {"A"}, units |-> n] : n \in MaxUnits .. MaxUnits + 1}]

\* Bound: once a call went wrong, what comes of a command buffer of too many units,
\* or of another call that failed the device, is not followed.
OneMishap ==
  host.faults > 0 => app.causes = {} /\ \A c \in Cmds : guest.units[c] <= MaxUnits

MCSymmetry == Permutations(Threads) \cup Permutations(Buffers)
=============================================================================
