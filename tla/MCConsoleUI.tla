----------------------------- MODULE MCConsoleUI -----------------------------
(* A small instance of ConsoleUI.                                          *)
EXTENDS ConsoleUI

CONSTANTS keyX, keyY
=============================================================================
