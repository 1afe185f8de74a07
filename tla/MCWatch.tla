------------------------------ MODULE MCWatch -------------------------------
(* A small instance of Watch for TLC.                                      *)
EXTENDS Watch

SomeSelections == {{}, {"fs"}, {"fs", "proc"}, {"fs", "proc", "net"}}
=============================================================================
