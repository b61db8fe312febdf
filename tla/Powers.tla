-------------------------------- MODULE Powers --------------------------------
(***************************************************************************)
(* Powers of two, by which the widths of integers are given.  They are     *)
(* those of the standard module as a recursive function: the provers know  *)
(* nothing of its operator ^.                                              *)
(***************************************************************************)
EXTENDS Integers

Pow2(k) ==
  LET pow[i \in 0 .. k] == IF i = 0 THEN 1 ELSE 2 * pow[i - 1]
  IN  pow[k]
=============================================================================
