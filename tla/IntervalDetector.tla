--------------------------- MODULE IntervalDetector ---------------------------
(***************************************************************************)
(* The detectors of a repeated interval: the one of the host session, and  *)
(* the one of the guest that decides when to announce it.  The polynomial  *)
(* hash the host compares suffixes by is taken as equality of the suffixes *)
(* (a collision only makes a candidate, which Learn then validates).       *)
(***************************************************************************)
EXTENDS Integers, Sequences, FiniteSetsExt, SequencesExt

\* The bounded history after one more interval
Slide(history, signature, limit) ==
  Append(IF Len(history) = limit THEN Tail(history) ELSE history, signature)

\* One step of the failure function: b holds the borders of s[1..1], ...,
\* s[1..i-1]; a border that s[i] does not extend falls back to its own border.
\* fault: a border that is not extended is forgotten
NextBorderReset(s, b, i) ==
  IF s[i] = s[Last(b) + 1] THEN Last(b) + 1 ELSE 0
NextBorder(s, b, i) ==
  LET Fall[p \in 0 .. i - 1] == IF p = 0 \/ s[i] = s[p + 1] THEN p ELSE Fall[b[p]]
      prefix == Fall[Last(b)]
  IN IF s[i] = s[prefix + 1] THEN prefix + 1 ELSE prefix

Borders(s) ==
  FoldLeft(LAMBDA b, i : Append(b, NextBorder(s, b, i)),
           <<0>>, [j \in 1 .. Len(s) - 1 |-> j + 1])

\* The period the failure function gives, 0 unless s is that period repeated
WholePeriod(s) ==
  LET period == Len(s) - Last(Borders(s))
  IN IF Len(s) >= 2 * period /\ Len(s) % period = 0 THEN period ELSE 0

Tailing(s, n) == SubSeq(s, Len(s) - n + 1, Len(s))

\* The host: the whole history, else the shortest adjacent repeated suffix;
\* 0 when no candidate is found
NoteInterval(history) ==
  LET n == Len(history)
      repeated == {p \in 1 .. n \div 2 :
                     Tailing(history, p) = SubSeq(history, n - 2 * p + 1, n - p)}
  IN IF WholePeriod(history) # 0 THEN WholePeriod(history)
     ELSE IF repeated = {} THEN 0 ELSE Min(repeated)

\* The guest: the smallest whole period of any suffix
RepeatedSuffixPeriod(history) ==
  LET periods == {WholePeriod(Tailing(history, m)) : m \in 2 .. Len(history)} \ {0}
  IN IF periods = {} THEN 0 ELSE Min(periods)
=============================================================================
