--------------------------- MODULE MCAALinkedList ---------------------------
(* Five keys that differ in each of the three components, one of them with  *)
(* I-SID 0 and VLAN 1.  The allocator may return any free node, so the      *)
(* nodes are symmetric.                                                     *)
EXTENDS AALinkedList, TLC

Keys == {<<1, 1, 1>>, <<1, 1, 2>>, <<1, 2, 1>>, <<2, 0, 1>>, <<2, 1, 1>>}
Interfaces == {<<1, 0, 0>>, <<2, 0, 0>>, <<3, 0, 0>>}

NodeSymmetry == Permutations(Node)
=============================================================================
