---------------------------- MODULE MC_Console -----------------------------
(***************************************************************************)
(* A TLC instance of ConsoleProperties: lines of up to three characters on *)
(* a screen four wide, so that a line crosses the end of a row.             *)
(***************************************************************************)
EXTENDS ConsoleProperties

PromptText == <<"#", " ">>
UnknownText == <<"?">>
=============================================================================
