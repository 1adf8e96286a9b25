------------------------------- MODULE MCCpu -------------------------------
(* Cpu on one low and one high register.  Words have one control bit       *)
(* besides the mode; the data are the images of user mode, of FIQ mode     *)
(* with a flag, and of an invalid mode with the control bit set.           *)
EXTENDS Cpu

MCFlagUnit == 64
MCData == {MODE_USR, MODE_FIQ + 5 * MCFlagUnit}
MCOffsets == {16 * MCFlagUnit - 8}
MCLists == {{}, {0}, {8, SP}, {0, PC}}
=============================================================================
