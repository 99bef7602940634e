----------------------------- MODULE MCTsxPair -----------------------------
(* TsxPair for model checking.                                             *)
EXTENDS TsxPair

Bools == {TRUE, FALSE}
=============================================================================
