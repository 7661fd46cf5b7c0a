------------------------------- MODULE Lists -------------------------------
(***************************************************************************)
(* The list idioms the loops of the agent share.                           *)
(***************************************************************************)
EXTENDS Integers, Sequences, SequencesExt

\* for _, e := range list { if e is wanted { out = append(out, e) } }
Only(list, wanted) ==
    FlattenSeq([i \in DOMAIN list |-> IF list[i] \in wanted THEN <<list[i]>> ELSE <<>>])

\* What the first n entries of a table add up to.
Total(f, n) ==
    LET sum[k \in 0..n] == IF k = 0 THEN 0 ELSE sum[k - 1] + f[k]
    IN  sum[n]
=============================================================================
