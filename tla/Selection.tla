------------------------------- MODULE Selection -------------------------------
(***************************************************************************)
(* The elements of a sequence that lie in a set, in their order.  It is    *)
(* SelectSeq of the standard module with a set for the test, as a          *)
(* recursive function: NodeServerProofs says what it does.                 *)
(***************************************************************************)
EXTENDS Naturals, Sequences

Those(s, keep) ==
  LET those[n \in 0 .. Len(s)] ==
        IF n = 0 THEN <<>>
        ELSE IF s[n] \in keep THEN Append(those[n - 1], s[n]) ELSE those[n - 1]
  IN  those[Len(s)]
=============================================================================
