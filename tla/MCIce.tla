---------------------------------- MODULE MCIce ----------------------------------
(* The candidate pairs that IceSession is checked with: two paths for one  *)
(* component, and two components with a path each.                         *)
EXTENDS IceSession

Pair(c, r) == [comp |-> c, rank |-> r]

TwoPairs == {Pair(1, 1), Pair(1, 2)}
TwoComps == {Pair(1, 1), Pair(2, 1)}

BothLists == {TwoPairs, TwoComps}
=============================================================================
