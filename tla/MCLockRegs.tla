------------------------------- MODULE MCLockRegs -------------------------------
(* Three harts, two locks: the smallest instance in which a third hart's    *)
(* access falls between the write and the read of a second one.  Two of the *)
(* harts run a lock test that may fail and keep its lock.                   *)
EXTENDS LockRegs
=============================================================================
