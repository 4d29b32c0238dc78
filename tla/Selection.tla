------------------------------ MODULE Selection ------------------------------
(***************************************************************************)
(* The loop by which Go code keeps some elements of a slice, as a function *)
(* that theorems can be proved about.                                      *)
(***************************************************************************)
EXTENDS Integers, Sequences

\* The elements of a sequence that are in a set, in their order.
Selected(s, S) ==
  LET upTo[n \in 0..Len(s)] ==
        IF n = 0 THEN <<>>
        ELSE IF s[n] \in S THEN Append(upTo[n - 1], s[n])
        ELSE upTo[n - 1]
  IN  upTo[Len(s)]
=============================================================================
