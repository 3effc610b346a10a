-------------------------- MODULE MC_SelectionMode --------------------------
(* An instance of SelectionMode for TLC: Auto is ready, or covers no task.   *)
EXTENDS SelectionMode

MCRow(tasks) == [enabled |-> TRUE, available |-> TRUE, tasks |-> tasks]
MCRows == {{MCRow(Tasks)}, {MCRow({})}}
=============================================================================
