-------------------------------- MODULE Loops --------------------------------
(***************************************************************************)
(* Two loops that the code writes out again and again, as functions of the *)
(* number of iterations done: adding up, and push_back under a condition.  *)
(***************************************************************************)
EXTENDS Integers, Sequences

\* for (x : s) sum += x;
SumOf(s) ==
  LET sum[k \in 0..Len(s)] == IF k = 0 THEN 0 ELSE sum[k - 1] + s[k]
  IN  sum[Len(s)]

\* for (k = 1 .. n) if (k in S) kept.push_back(k);
Collected(S, n) ==
  LET kept[k \in 0..n] == IF k = 0 THEN <<>>
                          ELSE IF k \in S THEN Append(kept[k - 1], k) ELSE kept[k - 1]
  IN  kept[n]
=============================================================================
