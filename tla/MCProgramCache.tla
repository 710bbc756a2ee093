--------------------------- MODULE MCProgramCache ---------------------------
(* Values of the constants of ProgramCache for TLC. *)
EXTENDS ProgramCache

CONSTANTS p, q

TwoProcesses == {p, q}

\* A skeleton is a source and a function.
MCKey(s) == s[1]
TwoSources == {<<"s", "f">>, <<"t", "f">>}
OneSource == {<<"s", "f">>, <<"s", "g">>}
=============================================================================
