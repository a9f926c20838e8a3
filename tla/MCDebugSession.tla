--------------------------- MODULE MCDebugSession ---------------------------
(***************************************************************************)
(* Instances of DebugSession for TLC.  The tasks are model values; the     *)
(* operations a run uses are chosen by its configuration from these sets.  *)
(***************************************************************************)
EXTENDS DebugSession, TLC

CONSTANTS main, c1, c2, loop, nobody

OneCaller  == {c1}
TwoCallers == {c1, c2}
OneLoop    == {loop}
MainTask   == {main}
NoTask     == {}

Codelldb  == {"Codelldb"}
Gdb       == {"Gdb"}
BothKinds == {"Codelldb", "Gdb"}

LifecycleTools == {"start", "initialize", "launch", "configuration_done", "shutdown"}
DebugTools     == LifecycleTools \cup {"continue", "get_variables", "set_breakpoints"}
AllTools       == Operations \ {"disconnect", "assemble_context"}

ClientSymmetry == Permutations({c1, c2})

=============================================================================
