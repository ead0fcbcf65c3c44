-------------------------------- MODULE Sums --------------------------------
(***************************************************************************)
(* The sum of a sequence of numbers, which the reports are made of.        *)
(***************************************************************************)
EXTENDS Integers, SequencesExt

Total(s) == FoldLeft(LAMBDA m, n : m + n, 0, s)
=============================================================================
