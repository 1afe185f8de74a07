---------------------------- MODULE MCFsObserver ----------------------------
(* Model values for FsObserver: two names, as many inodes.                 *)
EXTENDS FsObserver

CONSTANTS p1, p2, i1, i2

OnePath == {p1}
TwoPaths == {p1, p2}
OneInode == {i1}
TwoInodes == {i1, i2}
NoPaths == {}

Rewriter == {"create", "open", "read", "write"}
Churner == {"create", "open", "write", "delete", "rename"}
Mover == {"create", "open", "write", "rename"}
=============================================================================
