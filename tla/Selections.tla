------------------------------ MODULE Selections ------------------------------
(***************************************************************************)
(* What a loop picks from a sequence, as recursive functions: SelectSeq    *)
(* and FlattenSeq, which take an operator or fold one, have no theorems.   *)
(***************************************************************************)
EXTENDS Integers, Sequences, FiniteSetsExt

\* The positions up to n that are in a set, in order
Kept(n, S) ==
  LET upTo[k \in 0 .. n] ==
        IF k = 0 THEN << >>
        ELSE IF k \in S THEN Append(upTo[k - 1], k) ELSE upTo[k - 1]
  IN  upTo[n]

\* The elements of a sequence at the positions in a set, in order
Select(s, S) == [n \in DOMAIN Kept(Len(s), S) |-> s[Kept(Len(s), S)[n]]]

\* How many of the positions up to n, from the first on, are in a set: what a
\* loop pops that ends at the first one that is not.
Leading(n, S) == Max({m \in 0 .. n : 1 .. m \subseteq S})

\* Sequences one behind the other
Joined(seqs) ==
  LET upTo[k \in 0 .. Len(seqs)] == IF k = 0 THEN << >> ELSE upTo[k - 1] \o seqs[k]
  IN  upTo[Len(seqs)]
=============================================================================
