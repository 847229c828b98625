----------------------------- MODULE MCDiscovery -----------------------------
(***************************************************************************)
(* An instance of Discovery for TLC: a board with two connections, and at  *)
(* one of them sometimes a rival with its serial number and other          *)
(* hardware.                                                               *)
(***************************************************************************)
EXTENDS Discovery

CONSTANTS usb, uart, board, rival, watch

MCSerialOf == [b \in {board, rival} |-> "S"]
MCBoardsAt == [l \in Locator |-> IF l = usb THEN {board, rival} ELSE {board}]
MCHardwareOf == [b \in {board, rival} |-> IF b = board THEN "X" ELSE "Y"]
=============================================================================
