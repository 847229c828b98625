--------------------------- MODULE MCBoardChannels ---------------------------
(***************************************************************************)
(* An instance of BoardChannels for TLC: two flashes over ADB, one of them *)
(* of the version that the board runs already, a halt and a resume over    *)
(* JTAG, and a command that ADB and UART both offer.                       *)
(***************************************************************************)
EXTENDS BoardChannels

CONSTANTS flash, update, halt, resume, run

Asked == [o \in Op |-> CASE o \in {flash, update} -> "flash" [] o = halt -> "halt"
                          [] o = resume -> "resume" [] OTHER -> "execute"]
Wanted == [o \in Op |-> IF o = update THEN "v2" ELSE "v1"]
Loaded == {"adb", "uart", "jtag"}
=============================================================================
