--------------------------- MODULE UpdateDelivery ---------------------------
(***************************************************************************)
(* What the recovery ledger promises, with no ledger in it.  The guest     *)
(* admits descriptor updates; the host owes them and applies them one by   *)
(* one, oldest first; an update is never owed twice, and what is owed is   *)
(* only given up when the guest restarts the protocol.                     *)
(***************************************************************************)
EXTENDS Naturals, Sequences

CONSTANT UpdateIds

VARIABLES owed,      \* updates admitted and not yet applied, oldest first
          applied,   \* updates applied, oldest first
          restarts   \* protocol restarts so far

vars == <<owed, applied, restarts>>

In(u, s) == \E i \in DOMAIN s : s[i] = u

Init == owed = <<>> /\ applied = <<>> /\ restarts = 0

\* One batch of new updates is admitted behind what is already owed.
Admit ==
  /\ Len(owed') > Len(owed)
  /\ SubSeq(owed', 1, Len(owed)) = owed
  /\ \A i \in Len(owed) + 1 .. Len(owed') :
       /\ owed'[i] \in UpdateIds
       /\ ~In(owed'[i], applied)
       /\ \A j \in 1 .. i - 1 : owed'[j] # owed'[i]
  /\ UNCHANGED <<applied, restarts>>

Apply ==
  /\ owed # <<>>
  /\ owed' = Tail(owed)
  /\ applied' = Append(applied, Head(owed))
  /\ UNCHANGED restarts

Restart ==
  /\ owed' = <<>>
  /\ restarts' = restarts + 1
  /\ UNCHANGED applied

Next == Admit \/ Apply \/ Restart

Spec == Init /\ [][Next]_vars
=============================================================================
