---------------------------- MODULE MCProcProbe -----------------------------
(* Model values for ProcProbe: a shell and another program, and task ids   *)
(* of which those other than the root's and the stranger's are alike.      *)
EXTENDS ProcProbe, TLC

CONSTANTS agent, host, t1, t2, sh, cc

FourPids == {agent, host, t1, t2}
Programs == {sh, cc}
OneShell == {sh}
TwoCodes == {-1, 256}     \* statuses 255 and 0
OneCode == {0}

Alike == Permutations({t1, t2})
=============================================================================
