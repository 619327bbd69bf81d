---------------------------- MODULE MCPciTxRing ----------------------------
(***************************************************************************)
(* Instances of PciTxRing: the management ring 1, the high queue 2 and the *)
(* best-effort ring 3, in the order of rtl8821ce_tx_handler.               *)
(***************************************************************************)
EXTENDS PciTxRing, TLC

CONSTANTS be1, be2, hi  \* two best-effort stations, group frames after DTIM

\* Group frames of the high queue are tested against the best-effort ring:
\* the default case of check_nic_enough_desc.
MCRingOf == [f \in Flow |-> IF f = hi THEN 2 ELSE 3]
MCCheckedRing == [f \in Flow |-> 3]

Symmetry == Permutations(DataBuf) \cup Permutations(MgntBuf)
              \cup Permutations(Sender)
=============================================================================
