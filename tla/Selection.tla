------------------------------ MODULE Selection ------------------------------
(***************************************************************************)
(* The elements of a sequence that are in a set, in their order: what      *)
(* SelectSeq does, with a set in place of its operator, so that lemmas     *)
(* about it can be stated for every choice and cited by name.              *)
(***************************************************************************)
EXTENDS Naturals, Sequences

Select(q, keep) ==
  LET kept[i \in 0..Len(q)] ==
        IF i = 0 THEN <<>>
        ELSE IF q[i] \in keep THEN Append(kept[i - 1], q[i])
        ELSE kept[i - 1]
  IN  kept[Len(q)]
=============================================================================
