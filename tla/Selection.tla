------------------------------ MODULE Selection ------------------------------
(***************************************************************************)
(* The elements of a sequence at some of its indices, in their order: what *)
(* SelectSeq does, with a set of indices in place of a test, so that it    *)
(* can be proved about.                                                    *)
(***************************************************************************)
EXTENDS Naturals, Sequences

Select(s, at) ==
  LET taken[n \in 0..Len(s)] ==
        IF n = 0 THEN <<>>
        ELSE IF n \in at THEN Append(taken[n - 1], s[n]) ELSE taken[n - 1]
  IN  taken[Len(s)]
=============================================================================
