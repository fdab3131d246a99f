-------------------------------- MODULE LockRegs --------------------------------
(***************************************************************************)
(* The core locks: the testNset register of the CEP registers              *)
(* (cep_registers.scala), the calls that use it (cep_get_lock and          *)
(* cep_release_lock of cep_apis.cc) and the programs that make them        *)
(* (cepLockTest.cc, cepPlicTest.cc, the extIntr test).  One request        *)
(* register serves every hart and every lock: a write sets it, and in the  *)
(* next clock the register file acts on it and clears it.  The register    *)
(* node takes one access a clock.                                          *)
(***************************************************************************)
EXTENDS Naturals

CONSTANTS
    Harts,          \* the core ids that use the locks
    Locks,          \* lock numbers
    TimeOuts,       \* the time-outs callers pass (1000, 5000 or 50000)
    ResetId,        \* the id the id fields reset to (0, which is core 0's)
    Nobody,         \* no hart
    Careless,       \* the harts whose caller tests the result for non-zero
    Testers         \* the harts that run a lock test (cepLockTest.cc)

ASSUME LockAssumption ==
    /\ 0 \in Locks
    /\ TimeOuts \subseteq Nat \ {0}
    /\ ResetId \in Harts
    /\ Nobody \notin Harts
    /\ Careless \subseteq Harts
    /\ Testers \subseteq Harts \ Careless

VARIABLES
    reqLock, releaseLock, lockNum, reqId,   \* the write-only fields
    lock,           \* lock[l]: isLocked and coreId, read by everyone
    pc,             \* where each hart's program is
    num,            \* the lockNum argument of its last call
    timeOut,        \* what is left of its timeOut argument; after a return,
                    \* 0 stands for the result -1
    errCnt,         \* its lock test has counted an error
    kept            \* the locks its lock test left held after an error

hwVars == <<reqLock, releaseLock, lockNum, reqId, lock>>
swVars == <<pc, num, timeOut, errCnt, kept>>
vars == <<hwVars, swVars>>

-----------------------------------------------------------------------------
(* The register file *)

\* The request of the last clock's write, granted if the lock is free.
Granted_mutant(l) == reqLock /\ lockNum = l     \* free or not
Granted(l) == reqLock /\ lockNum = l /\ ~lock[l].isLocked

\* The release of the last clock's write: only the owner's counts.
Freed(l) ==
    releaseLock /\ lockNum = l /\ lock[l].isLocked /\ lock[l].coreId = reqId

NextLock(l) ==
    IF Granted(l) THEN [isLocked |-> TRUE, coreId |-> reqId]
    ELSE IF Freed(l) THEN [lock[l] EXCEPT !.isLocked = FALSE]
    ELSE lock[l]

\* A clock edge without a write: both requests clear themselves.
Edge ==
    /\ lock' = [l \in Locks |-> NextLock(l)]
    /\ reqLock' = FALSE
    /\ releaseLock' = FALSE
    /\ UNCHANGED <<lockNum, reqId>>

\* A clock edge with a write to testNset, which wins over the clearing.
EdgeWrite_mutant(request, l, h) ==      \* and over the pending request
    /\ UNCHANGED lock
    /\ reqLock' = request
    /\ releaseLock' = ~request
    /\ lockNum' = l
    /\ reqId' = h
EdgeWrite(request, l, h) ==
    /\ lock' = [k \in Locks |-> NextLock(k)]
    /\ reqLock' = request
    /\ releaseLock' = ~request
    /\ lockNum' = l
    /\ reqId' = h

-----------------------------------------------------------------------------
(* cep_get_lock, cep_release_lock and their callers *)

Goes(h, from, to) ==
    /\ pc[h] = from
    /\ pc' = [pc EXCEPT ![h] = to]

\* cep_get_lock(h, l, n) is called.  The errors of a lock test are never
\* reset: after one, cepLockTest_runTest makes no further call, and
\* cepLockTest_runTest2 begins each round of its outer loop with lock 0 and
\* breaks again there, whatever locks it holds.
CallGetLock(h, l, n) ==
    /\ errCnt[h] => l = 0
    /\ Goes(h, "out", "asking")
    /\ num' = [num EXCEPT ![h] = l]
    /\ timeOut' = [timeOut EXCEPT ![h] = n]
    /\ UNCHANGED <<hwVars, errCnt, kept>>

WriteRequest(h) ==
    /\ Goes(h, "asking", "reading")
    /\ EdgeWrite(TRUE, num[h], h)
    /\ UNCHANGED <<num, timeOut, errCnt, kept>>

\* A hart's read leaves it when its write was answered, so it arrives after
\* the clock in which the register file acted on the write.
Answered(h) == ~(reqLock /\ reqId = h)

\* The byte of lock l is the expected one, 1 | (myId << 1).
IsMine_mutant(h, l) == lock[l].isLocked \* any locked byte will do
IsMine(h, l) == lock[l].isLocked /\ lock[l].coreId = h

ReadBack_mutant(h) ==                   \* no limit on the tries
    /\ Answered(h)
    /\ Edge
    /\ IF IsMine(h, num[h])
       THEN Goes(h, "reading", "returned") /\ UNCHANGED timeOut
       ELSE Goes(h, "reading", "asking")
            /\ timeOut' = [timeOut EXCEPT ![h] = @ - 1]
    /\ UNCHANGED <<num, errCnt, kept>>
ReadBack(h) ==
    /\ Answered(h)
    /\ Edge
    /\ IF IsMine(h, num[h])
       THEN /\ Goes(h, "reading", "returned")
            /\ UNCHANGED timeOut
       ELSE /\ Goes(h, "reading",
                    IF timeOut[h] > 1 THEN "asking" ELSE "returned")
            /\ timeOut' = [timeOut EXCEPT ![h] = @ - 1]
    /\ UNCHANGED <<num, errCnt, kept>>

GotIt(h) == timeOut[h] > 0

\* The caller of cep_get_lock goes on inside: cepLockTest.cc tests the
\* result for 1, cepPlicTest.cc and the extIntr test for non-zero, which -1
\* is too.
Proceed(h) ==
    /\ GotIt(h) \/ h \in Careless
    /\ Goes(h, "returned", "inside")
    /\ UNCHANGED <<hwVars, num, timeOut, errCnt, kept>>

\* A lock test counts the time-out as an error, other callers do not.
GiveUp(h) ==
    /\ ~(GotIt(h) \/ h \in Careless)
    /\ Goes(h, "returned", "out")
    /\ errCnt' = [errCnt EXCEPT ![h] = @ \/ h \in Testers]
    /\ UNCHANGED <<hwVars, num, timeOut, kept>>

ReleaseLock_mutant(h) ==                \* the release names another hart
    /\ ~errCnt[h]
    /\ Goes(h, "inside", "out")
    /\ EdgeWrite(FALSE, num[h], CHOOSE k \in Harts : k # h)
    /\ UNCHANGED <<num, timeOut, errCnt, kept>>
ReleaseLock(h) ==
    /\ ~errCnt[h]
    /\ Goes(h, "inside", "out")
    /\ EdgeWrite(FALSE, num[h], h)
    /\ UNCHANGED <<num, timeOut, errCnt, kept>>

\* A lock test that sees an error, or has seen one, breaks out of its (inner)
\* loop before the release: it keeps the lock for good.
BreakOnError(h) ==
    /\ h \in Testers
    /\ Goes(h, "inside", "out")
    /\ errCnt' = [errCnt EXCEPT ![h] = TRUE]
    /\ kept' = [kept EXCEPT ![h] = @ \cup {num[h]}]
    /\ UNCHANGED <<hwVars, num, timeOut>>

Init ==
    /\ reqLock = FALSE /\ releaseLock = FALSE
    /\ lockNum = 0 /\ reqId = ResetId
    /\ lock = [l \in Locks |-> [isLocked |-> FALSE, coreId |-> ResetId]]
    /\ pc = [h \in Harts |-> "out"]
    /\ num = [h \in Harts |-> 0]
    /\ timeOut = [h \in Harts |-> 0]
    /\ errCnt = [h \in Harts |-> FALSE]
    /\ kept = [h \in Harts |-> {}]

Clock == Edge /\ UNCHANGED swVars

HartStep(h) ==
    \/ WriteRequest(h) \/ ReadBack(h) \/ Proceed(h) \/ GiveUp(h)
    \/ ReleaseLock(h) \/ BreakOnError(h)
Call(h) == \E l \in Locks, n \in TimeOuts : CallGetLock(h, l, n)
Next ==
    \/ Clock
    \/ \E h \in Harts : Call(h) \/ HartStep(h)
Spec == Init /\ [][Next]_vars

\* The clock runs, and a program in the middle of its work goes on.
FairSpec == Spec /\ WF_vars(Clock) /\ \A h \in Harts : WF_vars(HartStep(h))

-----------------------------------------------------------------------------
(* Properties *)

Byte == [isLocked : BOOLEAN, coreId : Harts]
Places == {"out", "asking", "reading", "returned", "inside"}

\* Every register and every program variable holds a value of its type.
TypeOK ==
    /\ reqLock \in BOOLEAN /\ releaseLock \in BOOLEAN
    /\ lockNum \in Locks /\ reqId \in Harts
    /\ lock \in [Locks -> Byte]
    /\ pc \in [Harts -> Places]
    /\ num \in [Harts -> Locks]
    /\ timeOut \in [Harts -> Nat]
    /\ errCnt \in [Harts -> BOOLEAN]
    /\ kept \in [Harts -> SUBSET Locks]

\* The locks a hart believes to hold: the one it works under and those its
\* lock test kept.
Held(h) == kept[h] \cup (IF pc[h] = "inside" THEN {num[h]} ELSE {})

\* Two harts never hold the same lock, although all of them share one request
\* register, nothing orders their accesses, and a lock test that failed asks
\* for a lock while it holds others, or that one.
MutualExclusion == \A h, k \in Harts : h # k => Held(h) \cap Held(k) = {}

\* Who works under a lock owns it, and still will after the access in flight
\* (the comment of the extIntr test: "Get the lock befoe can pulse the GPIO").
WorksUnderLock == \A h \in Harts :
    pc[h] = "inside" => /\ IsMine(h, num[h])
                        /\ NextLock(num[h]) = lock[num[h]]

\* Hart h is about to read back that it has lock l, or holds it.
KnowsOf(h, l) ==
    \/ /\ num[h] = l
       /\ pc[h] \in {"reading", "inside"} \/ (pc[h] = "returned" /\ GotIt(h))
    \/ l \in kept[h]

\* No lock is left behind unknown to its owner: the owner of a locked lock
\* knows of it, or its release is under way.  Above all, a hart whose last try
\* failed was not granted the lock meanwhile.  (That a lock test which fails
\* never gives back what it holds is another matter: it knows of these locks.)
NoOrphanedLock == \A l \in Locks :
    lock[l].isLocked => KnowsOf(lock[l].coreId, l) \/ Freed(l)

\* A lock does not stay locked unless a lock test broke on an error while it
\* held it: no release is lost to another hart's access.
LockIsFreed == \A l \in Locks :
    lock[l].isLocked ~> ~lock[l].isLocked \/ \E h \in Harts : l \in kept[h]

\* Where a hart is, seen from outside of cep_get_lock.
PhaseOf(place, tries) ==
    CASE place \in {"asking", "reading"} -> "waiting"
      [] place = "returned" -> IF tries > 0 THEN "inside" ELSE "out"
      [] OTHER -> place

\* Seen through the access in flight, the two-clock test-and-set of the
\* registers is the atomic one of LockService.
Service == INSTANCE LockService WITH
    owner <- [l \in Locks |->
                IF NextLock(l).isLocked THEN NextLock(l).coreId ELSE Nobody],
    phase <- [h \in Harts |-> PhaseOf(pc[h], timeOut[h])],
    wants <- num
ImplementsService == Service!Spec
=============================================================================
