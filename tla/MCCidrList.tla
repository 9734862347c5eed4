----------------------------- MODULE MCCidrList ------------------------------
(***************************************************************************)
(* Lists for CidrList, with addresses of four bits: networks side by side, *)
(* inside one another and apart, down to single addresses and up to the    *)
(* highest one.                                                            *)
(***************************************************************************)
EXTENDS CidrList

Net(a, p) == [address |-> a, prefix |-> p]

Lists(nets, n) == UNION {[1..k -> nets] : k \in 0..n}

MCNetworkLists ==
  Lists({Net(0, 4), Net(8, 1), Net(4, 2), Net(12, 2), Net(6, 3), Net(10, 3), Net(9, 4),
         Net(10, 4), Net(11, 4), Net(15, 4)}, 3)

MCExcludeLists == Lists({Net(8, 1), Net(8, 2), Net(12, 2), Net(10, 3), Net(11, 4)}, 2)
==============================================================================
