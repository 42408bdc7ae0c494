-------------------------------- MODULE Sums --------------------------------
(***************************************************************************)
(* Python's sum() over a sequence of numbers, as the sequence of its       *)
(* partial sums, so that laws about it can be proved position by position. *)
(***************************************************************************)
EXTENDS Integers, Sequences

\* What the sum of the first n numbers comes to, for every n.
PartialSums(f) ==
    LET sum[n \in 0..Len(f)] == IF n = 0 THEN 0 ELSE sum[n - 1] + f[n] IN sum

SumOf(f) == PartialSums(f)[Len(f)]
=============================================================================
