--------------------------- MODULE SequenceFolds ---------------------------
(***************************************************************************)
(* What the chain modules need of sequences: SequencesExt's operators of   *)
(* the same names.  SequencesExt extends Bags, which puts some hundred     *)
(* theorems into the context of every proof about a module that uses it.   *)
(***************************************************************************)
EXTENDS Integers, Sequences, FiniteSetsExt

Last(s) == s[Len(s)]
Front(s) == SubSeq(s, 1, Len(s) - 1)
Reverse(s) == [i \in 1..Len(s) |-> s[Len(s) - i + 1]]

\* op(...op(op(base, seq[1]), seq[2])..., seq[n])
FoldLeft(op(_, _), base, seq) ==
    MapThenFoldSet(LAMBDA x, acc : op(acc, x), base, LAMBDA i : seq[i], Max, DOMAIN seq)
=============================================================================
