-------------------------------- MODULE MCCli --------------------------------
(* An instance of Cli for TLC: one task, and the tools of the script for the free program. *)
EXTENDS Cli

CONSTANTS main, nobody

MainTask  == {main}
NoTask    == {}
BothKinds == {"Codelldb", "Gdb"}
ScriptTools == CallPlaces

=============================================================================
