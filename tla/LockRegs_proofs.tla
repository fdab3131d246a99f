----------------------------- MODULE LockRegs_proofs -----------------------------
(***************************************************************************)
(* For every number of harts and locks and all time-outs: the lock         *)
(* registers keep mutual exclusion, leave no lock behind and implement the *)
(* atomic locks of LockService, if every caller looks at the result of     *)
(* cep_get_lock properly (Careless = {}).                                  *)
(***************************************************************************)
EXTENDS LockRegs, TLAPS

\* The request in the register is that of a hart that is about to read back
\* what became of it; a release is that of a hart that has left, and not in
\* an error.
RequestKnown ==
    /\ ~(reqLock /\ releaseLock)
    /\ reqLock => pc[reqId] = "reading" /\ num[reqId] = lockNum
    /\ releaseLock => pc[reqId] \in {"out", "asking"} /\ ~errCnt[reqId]

\* Only a lock test that has seen an error keeps locks, and it owns them.
KeptOwned == \A h \in Harts : \A l \in kept[h] : errCnt[h] /\ IsMine(h, l)

\* A hart that was told it has the lock owns it.
ToldTrue == \A h \in Harts :
    pc[h] = "inside" \/ (pc[h] = "returned" /\ GotIt(h)) => IsMine(h, num[h])

\* A hart that is still trying has tries left.
TriesLeft == \A h \in Harts : pc[h] \in {"asking", "reading"} => timeOut[h] > 0

IInv ==
    /\ TypeOK /\ RequestKnown /\ KeptOwned /\ ToldTrue /\ TriesLeft
    /\ NoOrphanedLock

-----------------------------------------------------------------------------

\* What the register file does with the request it holds is well typed.
LEMMA NextLockTyped ==
    ASSUME TypeOK, NEW l \in Locks
    PROVE  NextLock(l) \in Byte
BY DEF TypeOK, NextLock, Byte

\* Types are kept by every step of the register file and of the harts.
LEMMA TypeStep ==
    ASSUME TypeOK, TriesLeft, [Next]_vars
    PROVE  TypeOK'
<1> USE LockAssumption DEF TypeOK
<1>1. CASE Clock
    BY <1>1, NextLockTyped DEF Clock, Edge, swVars
<1>2. ASSUME NEW h \in Harts, Call(h) PROVE TypeOK'
    BY <1>2 DEF Call, CallGetLock, Goes, hwVars, Places
<1>3. ASSUME NEW h \in Harts, WriteRequest(h) PROVE TypeOK'
    BY <1>3, NextLockTyped DEF WriteRequest, EdgeWrite, Goes, Places
<1>4. ASSUME NEW h \in Harts, ReadBack(h) PROVE TypeOK'
    <2>1. timeOut[h] \in Nat /\ timeOut[h] - 1 \in Nat
        BY <1>4 DEF TriesLeft, ReadBack, Goes
    <2>2. timeOut' \in [Harts -> Nat]
        BY <1>4, <2>1 DEF ReadBack
    <2>3. pc' \in [Harts -> Places]
        BY <1>4 DEF ReadBack, Goes, Places
    <2>4. QED
        BY <1>4, <2>2, <2>3, NextLockTyped DEF ReadBack, Edge
<1>5. ASSUME NEW h \in Harts, Proceed(h) \/ GiveUp(h) \/ BreakOnError(h)
      PROVE  TypeOK'
    <2>1. CASE Proceed(h)
        BY <2>1 DEF Proceed, Goes, hwVars, Places
    <2>2. CASE GiveUp(h)
        BY <2>2 DEF GiveUp, Goes, hwVars, Places
    <2>3. CASE BreakOnError(h)
        <3>1. kept[h] \cup {num[h]} \in SUBSET Locks
            OBVIOUS
        <3>2. kept' \in [Harts -> SUBSET Locks]
            BY <2>3, <3>1 DEF BreakOnError
        <3>3. QED
            BY <2>3, <3>2 DEF BreakOnError, Goes, hwVars, Places
    <2>4. QED
        BY <1>5, <2>1, <2>2, <2>3
<1>6. ASSUME NEW h \in Harts, ReleaseLock(h) PROVE TypeOK'
    BY <1>6, NextLockTyped DEF ReleaseLock, EdgeWrite, Goes, Places
<1>7. CASE UNCHANGED vars
    BY <1>7 DEF vars, hwVars, swVars
<1>8. QED
    BY <1>1, <1>2, <1>3, <1>4, <1>5, <1>6, <1>7 DEF Next, HartStep

\* The register file never takes a lock from the hart that owns it, nor hands
\* one out twice; only a release of the owner frees it.
LEMMA OwnerKept ==
    ASSUME TypeOK, RequestKnown, NEW h \in Harts, NEW l \in Locks,
           IsMine(h, l), pc[h] \notin {"out", "asking"} \/ errCnt[h]
    PROVE  NextLock(l) = lock[l]
BY DEF TypeOK, RequestKnown, IsMine, NextLock, Granted, Freed, Byte

\* A hart whose write has been acted on is not granted anything more.
LEMMA NotGranted ==
    ASSUME TypeOK, NEW h \in Harts, NEW l \in Locks,
           Answered(h), ~IsMine(h, l), NextLock(l).isLocked
    PROVE  NextLock(l).coreId # h
BY DEF TypeOK, Answered, IsMine, NextLock, Granted, Freed, Byte

LEMMA RequestStep ==
    ASSUME IInv, [Next]_vars
    PROVE  RequestKnown' /\ TriesLeft'
<1> USE DEF IInv, TypeOK, RequestKnown, TriesLeft
<1>1. CASE Clock
    BY <1>1 DEF Clock, Edge, swVars
<1>2. ASSUME NEW h \in Harts, Call(h) PROVE RequestKnown' /\ TriesLeft'
    <2>1. PICK l \in Locks, n \in TimeOuts : CallGetLock(h, l, n)
        BY <1>2 DEF Call
    <2>2. n \in Nat /\ n > 0
        BY LockAssumption
    <2>3. QED
        BY <2>1, <2>2 DEF CallGetLock, Goes, hwVars
<1>3. ASSUME NEW h \in Harts, WriteRequest(h) PROVE RequestKnown' /\ TriesLeft'
    BY <1>3 DEF WriteRequest, EdgeWrite, Goes
<1>4. ASSUME NEW h \in Harts, ReadBack(h) PROVE RequestKnown' /\ TriesLeft'
    <2>1. RequestKnown'
        BY <1>4 DEF ReadBack, Edge
    <2>2. TriesLeft'
        BY <1>4 DEF ReadBack, Goes
    <2>3. QED
        BY <2>1, <2>2
<1>5. ASSUME NEW h \in Harts, Proceed(h) \/ GiveUp(h) \/ BreakOnError(h)
      PROVE  RequestKnown' /\ TriesLeft'
    BY <1>5 DEF Proceed, GiveUp, BreakOnError, Goes, hwVars
<1>6. ASSUME NEW h \in Harts, ReleaseLock(h) PROVE RequestKnown' /\ TriesLeft'
    BY <1>6 DEF ReleaseLock, EdgeWrite, Goes
<1>7. CASE UNCHANGED vars
    BY <1>7 DEF vars, hwVars, swVars
<1>8. QED
    BY <1>1, <1>2, <1>3, <1>4, <1>5, <1>6, <1>7 DEF Next, HartStep

LEMMA KeptStep ==
    ASSUME IInv, [Next]_vars
    PROVE  KeptOwned'
<1> USE DEF IInv
<1> SUFFICES ASSUME NEW k \in Harts, NEW l \in kept'[k]
             PROVE  errCnt'[k] /\ IsMine(k, l)'
    BY DEF KeptOwned
\* Who keeps a lock already: what is in flight does not take it.
<1>a. ASSUME l \in kept[k], errCnt'[k] = errCnt[k] \/ errCnt'[k],
             lock' = lock \/ lock' = [m \in Locks |-> NextLock(m)]
      PROVE  errCnt'[k] /\ IsMine(k, l)'
    <2>1. errCnt[k] /\ IsMine(k, l) /\ l \in Locks
        BY <1>a DEF KeptOwned, TypeOK
    <2>2. NextLock(l) = lock[l]
        BY <2>1, OwnerKept
    <2>3. QED
        BY <1>a, <2>1, <2>2 DEF IsMine
<1>1. CASE Clock
    BY <1>1, <1>a DEF Clock, Edge, swVars
<1>2. ASSUME NEW h \in Harts, Call(h) PROVE errCnt'[k] /\ IsMine(k, l)'
    BY <1>2, <1>a DEF Call, CallGetLock, hwVars
<1>3. ASSUME NEW h \in Harts, WriteRequest(h) PROVE errCnt'[k] /\ IsMine(k, l)'
    BY <1>3, <1>a DEF WriteRequest, EdgeWrite
<1>4. ASSUME NEW h \in Harts, ReadBack(h) PROVE errCnt'[k] /\ IsMine(k, l)'
    BY <1>4, <1>a DEF ReadBack, Edge
<1>5. ASSUME NEW h \in Harts, Proceed(h) PROVE errCnt'[k] /\ IsMine(k, l)'
    BY <1>5, <1>a DEF Proceed, hwVars
<1>6. ASSUME NEW h \in Harts, GiveUp(h) PROVE errCnt'[k] /\ IsMine(k, l)'
    <2>1. l \in kept[k] /\ lock' = lock
        BY <1>6 DEF GiveUp, hwVars
    <2>2. errCnt[k]
        BY <2>1 DEF KeptOwned
    <2>3. errCnt'[k]
        BY <1>6, <2>2 DEF GiveUp, TypeOK
    <2>4. QED
        BY <1>a, <2>1, <2>3
<1>7. ASSUME NEW h \in Harts, ReleaseLock(h) PROVE errCnt'[k] /\ IsMine(k, l)'
    BY <1>7, <1>a DEF ReleaseLock, EdgeWrite
<1>8. ASSUME NEW h \in Harts, BreakOnError(h) PROVE errCnt'[k] /\ IsMine(k, l)'
    <2>1. lock' = lock /\ pc[h] = "inside"
        BY <1>8 DEF BreakOnError, Goes, hwVars
    <2>2. CASE l \in kept[k]
        <3>1. errCnt[k]
            BY <2>2 DEF KeptOwned
        <3>2. errCnt'[k]
            BY <1>8, <3>1 DEF BreakOnError, TypeOK
        <3>3. QED
            BY <1>a, <2>1, <2>2, <3>2
    <2>3. CASE l \notin kept[k]
        <3>1. k = h /\ l = num[h] /\ errCnt'[k]
            BY <1>8, <2>3 DEF BreakOnError, TypeOK
        <3>2. IsMine(h, num[h])
            BY <2>1 DEF ToldTrue
        <3>3. QED
            BY <2>1, <3>1, <3>2 DEF IsMine
    <2>4. QED
        BY <2>2, <2>3
<1>9. CASE UNCHANGED vars
    BY <1>9, <1>a DEF vars, hwVars, swVars
<1>10. QED
    BY <1>1, <1>2, <1>3, <1>4, <1>5, <1>6, <1>7, <1>8, <1>9 DEF Next, HartStep

LEMMA ToldStep ==
    ASSUME IInv, [Next]_vars, Careless = {}
    PROVE  ToldTrue'
<1> USE DEF IInv
<1> SUFFICES ASSUME NEW k \in Harts,
                    pc'[k] = "inside" \/ (pc'[k] = "returned" /\ timeOut'[k] > 0)
             PROVE  lock'[num'[k]].isLocked /\ lock'[num'[k]].coreId = k
    BY DEF ToldTrue, GotIt, IsMine
\* Who has been told already: what is in flight does not take the lock.
<1>a. ASSUME pc[k] = "inside" \/ (pc[k] = "returned" /\ GotIt(k)),
             num'[k] = num[k],
             lock' = lock \/ lock' = [l \in Locks |-> NextLock(l)]
      PROVE  lock'[num'[k]].isLocked /\ lock'[num'[k]].coreId = k
    <2>1. IsMine(k, num[k]) /\ num[k] \in Locks
        BY <1>a DEF ToldTrue, TypeOK
    <2>2. NextLock(num[k]) = lock[num[k]]
        BY <2>1, <1>a, OwnerKept
    <2>3. QED
        BY <1>a, <2>1, <2>2 DEF IsMine
<1>1. CASE Clock
    BY <1>1, <1>a DEF Clock, Edge, swVars, GotIt
<1>2. ASSUME NEW h \in Harts, Call(h)
      PROVE  lock'[num'[k]].isLocked /\ lock'[num'[k]].coreId = k
    BY <1>2, <1>a DEF Call, CallGetLock, Goes, hwVars, GotIt, TypeOK
<1>3. ASSUME NEW h \in Harts, WriteRequest(h)
      PROVE  lock'[num'[k]].isLocked /\ lock'[num'[k]].coreId = k
    BY <1>3, <1>a DEF WriteRequest, EdgeWrite, Goes, GotIt, TypeOK
<1>4. ASSUME NEW h \in Harts, ReadBack(h)
      PROVE  lock'[num'[k]].isLocked /\ lock'[num'[k]].coreId = k
    <2>1. CASE k # h
        BY <1>4, <1>a, <2>1 DEF ReadBack, Edge, Goes, GotIt, TypeOK
    <2>2. CASE k = h
        <3>1. pc[h] = "reading" /\ num'[h] = num[h] /\ num[h] \in Locks
            BY <1>4 DEF ReadBack, Goes, TypeOK
        <3>2. IsMine(h, num[h])
            BY <1>4, <2>2 DEF ReadBack, Goes, TypeOK
        <3>3. NextLock(num[h]) = lock[num[h]]
            BY <3>1, <3>2, OwnerKept
        <3>4. lock'[num[h]] = NextLock(num[h])
            BY <1>4, <3>1 DEF ReadBack, Edge
        <3>5. QED
            BY <2>2, <3>1, <3>2, <3>3, <3>4 DEF IsMine
    <2>3. QED
        BY <2>1, <2>2
<1>5. ASSUME NEW h \in Harts, Proceed(h) \/ GiveUp(h) \/ BreakOnError(h)
      PROVE  lock'[num'[k]].isLocked /\ lock'[num'[k]].coreId = k
    BY <1>5, <1>a DEF Proceed, GiveUp, BreakOnError, Goes, hwVars, GotIt, TypeOK
<1>6. ASSUME NEW h \in Harts, ReleaseLock(h)
      PROVE  lock'[num'[k]].isLocked /\ lock'[num'[k]].coreId = k
    BY <1>6, <1>a DEF ReleaseLock, EdgeWrite, Goes, GotIt, TypeOK
<1>7. CASE UNCHANGED vars
    BY <1>7, <1>a DEF vars, hwVars, swVars, GotIt
<1>8. QED
    BY <1>1, <1>2, <1>3, <1>4, <1>5, <1>6, <1>7 DEF Next, HartStep

\* An edge leaves a lock locked only for a hart that is accounted for.
LEMMA EdgeAccounts ==
    ASSUME IInv, NEW l \in Locks, NextLock(l).isLocked
    PROVE  /\ NextLock(l).coreId \in Harts
           /\ KnowsOf(NextLock(l).coreId, l)
<1> USE DEF IInv
<1>1. NextLock(l) \in Byte
    BY NextLockTyped
<1>2. CASE Granted(l)
    BY <1>2 DEF Granted, NextLock, KnowsOf, RequestKnown, TypeOK
<1>3. CASE ~Granted(l)
    <2>1. ~Freed(l)
        BY <1>3 DEF NextLock, TypeOK, Byte
    <2>2. NextLock(l) = lock[l]
        BY <1>3, <2>1 DEF NextLock
    <2>3. QED
        BY <1>1, <2>1, <2>2 DEF NoOrphanedLock, Freed, Byte
<1>4. QED
    BY <1>2, <1>3

LEMMA OrphanStep ==
    ASSUME IInv, [Next]_vars, Careless = {}
    PROVE  NoOrphanedLock'
<1> USE DEF IInv
<1> SUFFICES ASSUME NEW l \in Locks, lock'[l].isLocked
             PROVE  KnowsOf(lock[l].coreId, l)' \/ Freed(l)'
    BY DEF NoOrphanedLock
<1>1. CASE Clock
    <2>1. lock'[l] = NextLock(l)
        BY <1>1 DEF Clock, Edge
    <2>2. QED
        BY <1>1, <2>1, EdgeAccounts DEF Clock, swVars, KnowsOf, GotIt
<1>2. ASSUME NEW h \in Harts, Call(h)
      PROVE  KnowsOf(lock[l].coreId, l)' \/ Freed(l)'
    <2>1. lock[l].coreId \in Harts /\ lock[l].isLocked /\ pc[h] = "out"
        BY <1>2 DEF Call, CallGetLock, Goes, hwVars, TypeOK, Byte
    <2>2. CASE Freed(l)
        BY <1>2, <2>2 DEF Call, CallGetLock, hwVars, Freed
    <2>3. CASE KnowsOf(lock[l].coreId, l)
        BY <1>2, <2>1, <2>3
           DEF Call, CallGetLock, Goes, hwVars, KnowsOf, GotIt, TypeOK
    <2>4. QED
        BY <2>1, <2>2, <2>3 DEF NoOrphanedLock
<1>3. ASSUME NEW h \in Harts, WriteRequest(h)
      PROVE  KnowsOf(lock[l].coreId, l)' \/ Freed(l)'
    <2>1. lock'[l] = NextLock(l)
        BY <1>3 DEF WriteRequest, EdgeWrite
    <2>2. QED
        BY <1>3, <2>1, EdgeAccounts
           DEF WriteRequest, Goes, KnowsOf, GotIt, TypeOK
<1>4. ASSUME NEW h \in Harts, ReadBack(h)
      PROVE  KnowsOf(lock[l].coreId, l)' \/ Freed(l)'
    <2> DEFINE o == NextLock(l).coreId
    <2>1. lock'[l] = NextLock(l) /\ num' = num
        BY <1>4 DEF ReadBack, Edge
    <2>2. o \in Harts /\ KnowsOf(o, l)
        BY <2>1, EdgeAccounts
    <2>3. CASE o # h
        BY <1>4, <2>1, <2>2, <2>3 DEF ReadBack, Goes, KnowsOf, GotIt, TypeOK
    <2>4. CASE o = h /\ l \in kept[h]
        BY <1>4, <2>1, <2>4 DEF ReadBack, KnowsOf
    <2>5. CASE o = h /\ l \notin kept[h]
        <3>0. num[h] = l /\ Answered(h) /\ NextLock(l).isLocked
            BY <1>4, <2>1, <2>2, <2>5 DEF KnowsOf, ReadBack
        <3>1. IsMine(h, num[h]) /\ num[h] = l
            BY <2>5, <3>0, NotGranted
        <3>2. timeOut[h] > 0
            BY <1>4 DEF ReadBack, Goes, TriesLeft
        <3>3. QED
            BY <1>4, <2>1, <2>5, <3>1, <3>2
               DEF ReadBack, Goes, KnowsOf, GotIt, TypeOK
    <2>6. QED
        BY <2>3, <2>4, <2>5
<1>5. ASSUME NEW h \in Harts, Proceed(h) \/ GiveUp(h) \/ BreakOnError(h)
      PROVE  KnowsOf(lock[l].coreId, l)' \/ Freed(l)'
    <2>1. lock[l].isLocked /\ lock' = lock /\ num' = num /\ timeOut' = timeOut
        BY <1>5 DEF Proceed, GiveUp, BreakOnError, hwVars
    <2>2. CASE Freed(l)
        BY <1>5, <2>2 DEF Proceed, GiveUp, BreakOnError, hwVars, Freed
    <2>3. CASE KnowsOf(lock[l].coreId, l)
        BY <1>5, <2>1, <2>3
           DEF Proceed, GiveUp, BreakOnError, Goes, KnowsOf, GotIt, TypeOK, Byte
    <2>4. QED
        BY <2>1, <2>2, <2>3 DEF NoOrphanedLock
<1>6. ASSUME NEW h \in Harts, ReleaseLock(h)
      PROVE  KnowsOf(lock[l].coreId, l)' \/ Freed(l)'
    <2> DEFINE o == NextLock(l).coreId
    <2>1. lock'[l] = NextLock(l) /\ num' = num /\ timeOut' = timeOut
        BY <1>6 DEF ReleaseLock, EdgeWrite
    <2>2. o \in Harts /\ KnowsOf(o, l)
        BY <2>1, EdgeAccounts
    <2>3. CASE o # h
        BY <1>6, <2>1, <2>2, <2>3 DEF ReleaseLock, Goes, KnowsOf, GotIt, TypeOK
    <2>4. CASE o = h
        BY <1>6, <2>1, <2>2, <2>4 DEF ReleaseLock, EdgeWrite, KnowsOf, Freed
    <2>5. QED
        BY <2>3, <2>4
<1>7. CASE UNCHANGED vars
    BY <1>7 DEF vars, hwVars, swVars, NoOrphanedLock, KnowsOf, Freed, GotIt
<1>8. QED
    BY <1>1, <1>2, <1>3, <1>4, <1>5, <1>6, <1>7 DEF Next, HartStep

-----------------------------------------------------------------------------

\* The inductive invariant holds in every state the lock programs can reach,
\* whatever the number of harts, the locks they use and their time-outs.
THEOREM Invariant ==
    ASSUME Careless = {}
    PROVE  Spec => []IInv
<1>1. Init => IInv
    <2> HAVE Init
    <2>1. TypeOK
        <3>1. [isLocked |-> FALSE, coreId |-> ResetId] \in Byte
            BY LockAssumption DEF Byte
        <3>2. QED
            BY <3>1, LockAssumption DEF Init, TypeOK, Places
    <2>2. RequestKnown /\ KeptOwned /\ ToldTrue /\ TriesLeft /\ NoOrphanedLock
        BY DEF Init, RequestKnown, KeptOwned, ToldTrue, TriesLeft, NoOrphanedLock
    <2>3. QED
        BY <2>1, <2>2 DEF IInv
<1>2. IInv /\ [Next]_vars => IInv'
    BY TypeStep, RequestStep, KeptStep, ToldStep, OrphanStep DEF IInv
<1>3. QED
    BY <1>1, <1>2, PTL DEF Spec

\* Registers and program variables keep their types (cep_registers.scala,
\* cep_get_lock, cep_release_lock).
THEOREM LocksTyped ==
    ASSUME Careless = {}
    PROVE  Spec => []TypeOK
BY Invariant, PTL DEF IInv

\* Two harts never hold the same lock, although one request register serves
\* all of them, nothing orders their accesses, and a lock test that failed
\* (cepLockTest.cc) holds locks while it asks for another.
THEOREM LocksExclude ==
    ASSUME Careless = {}
    PROVE  Spec => []MutualExclusion
<1>1. ASSUME IInv, NEW h \in Harts, NEW l \in Held(h)
      PROVE  lock[l].coreId = h
    BY <1>1 DEF IInv, KeptOwned, ToldTrue, IsMine, Held
<1>2. IInv => MutualExclusion
    BY <1>1 DEF MutualExclusion
<1>3. QED
    BY <1>2, Invariant, PTL

\* A hart whose last try failed was not granted the lock meanwhile: the owner
\* of a locked lock knows of it (cep_get_lock), also after the error exits of
\* the lock tests, which keep the lock.
THEOREM NoLockOrphaned ==
    ASSUME Careless = {}
    PROVE  Spec => []NoOrphanedLock
BY Invariant, PTL DEF IInv

-----------------------------------------------------------------------------

ownerBar == [l \in Locks |->
    IF NextLock(l).isLocked THEN NextLock(l).coreId ELSE Nobody]
phaseBar == [h \in Harts |-> PhaseOf(pc[h], timeOut[h])]

\* Once no request is in flight, the state of the locks is what was promised.
LEMMA EdgeSettles ==
    ASSUME Edge
    PROVE  ownerBar' = ownerBar
BY DEF ownerBar, Edge, NextLock, Granted, Freed

\* Who owns a lock in LockService.
LEMMA OwnerBar ==
    ASSUME TypeOK, NEW l \in Locks
    PROVE  /\ ownerBar[l] = Nobody <=> ~NextLock(l).isLocked
           /\ ownerBar[l] # Nobody => ownerBar[l] = NextLock(l).coreId
           /\ ownerBar[l] \in Harts \cup {Nobody}
BY NextLockTyped, LockAssumption DEF ownerBar, Byte

\* A write of a request is a test-and-set that succeeds, or nothing.
LEMMA WriteRequestStep ==
    ASSUME IInv, NEW h \in Harts, WriteRequest(h)
    PROVE  \/ /\ ownerBar[num[h]] = Nobody
              /\ ownerBar' = [ownerBar EXCEPT ![num[h]] = h]
           \/ ownerBar' = ownerBar
<1> USE DEF IInv
<1>0. num[h] \in Locks
    BY DEF TypeOK
<1>1. \A l \in Locks : lock'[l] = NextLock(l) /\ ~Freed(l)'
                       /\ (Granted(l)' <=> num[h] = l /\ ~NextLock(l).isLocked)
    BY DEF WriteRequest, EdgeWrite, Freed, Granted
<1>2. \A l \in Locks : NextLock(l)' =
        IF num[h] = l /\ ~NextLock(l).isLocked
        THEN [isLocked |-> TRUE, coreId |-> h] ELSE NextLock(l)
    BY <1>1 DEF NextLock, WriteRequest, EdgeWrite
<1>3. CASE NextLock(num[h]).isLocked
    <2>1. \A l \in Locks : NextLock(l)' = NextLock(l)
        BY <1>2, <1>3
    <2>2. QED
        BY <2>1 DEF ownerBar
<1>4. CASE ~NextLock(num[h]).isLocked
    <2>1. ownerBar[num[h]] = Nobody
        BY <1>0, <1>4 DEF ownerBar
    <2>2. ownerBar' = [l \in Locks |-> IF l = num[h] THEN h ELSE ownerBar[l]]
        BY <1>0, <1>2, <1>4 DEF ownerBar
    <2>3. ownerBar' = [ownerBar EXCEPT ![num[h]] = h]
        BY <2>2 DEF ownerBar
    <2>4. QED
        BY <2>1, <2>3
<1>5. QED
    BY <1>3, <1>4

\* A release takes the lock from its owner.
LEMMA ReleaseStep ==
    ASSUME IInv, NEW h \in Harts, ReleaseLock(h)
    PROVE  ownerBar' = [ownerBar EXCEPT ![num[h]] = Nobody]
<1> USE DEF IInv
<1>0. num[h] \in Locks /\ pc[h] = "inside"
    BY DEF TypeOK, ReleaseLock, Goes
<1>1. IsMine(h, num[h]) /\ NextLock(num[h]) = lock[num[h]]
    BY <1>0, OwnerKept DEF ToldTrue
<1>2. \A l \in Locks : lock'[l] = NextLock(l) /\ ~Granted(l)'
                       /\ (Freed(l)' <=> num[h] = l)
    BY <1>1 DEF ReleaseLock, EdgeWrite, Freed, Granted, IsMine
<1>3. \A l \in Locks : NextLock(l)' =
        IF num[h] = l THEN [NextLock(l) EXCEPT !.isLocked = FALSE] ELSE NextLock(l)
    BY <1>2 DEF NextLock
<1>4. NextLock(num[h]) \in Byte
    BY <1>0, NextLockTyped
<1>5. ~[NextLock(num[h]) EXCEPT !.isLocked = FALSE].isLocked
    BY <1>4 DEF Byte
<1>6. QED
    BY <1>0, <1>3, <1>5 DEF ownerBar

\* Hart h, and no other, goes to a new place.
Turn(h, to) ==
    /\ pc' = [pc EXCEPT ![h] = to]
    /\ \A k \in Harts : k # h => timeOut'[k] = timeOut[k]

LEMMA PhaseOfIs ==
    ASSUME NEW tries
    PROVE  /\ PhaseOf("asking", tries) = "waiting"
           /\ PhaseOf("reading", tries) = "waiting"
           /\ PhaseOf("returned", tries) = IF tries > 0 THEN "inside" ELSE "out"
           /\ \A p \in {"out", "inside"} : PhaseOf(p, tries) = p
BY DEF PhaseOf

LEMMA PhaseBarStep ==
    ASSUME TypeOK, NEW h \in Harts, NEW to, Turn(h, to)
    PROVE  phaseBar' = [phaseBar EXCEPT ![h] = PhaseOf(to, timeOut'[h])]
<1>1. pc'[h] = to /\ \A k \in Harts : k # h => pc'[k] = pc[k]
    BY DEF TypeOK, Turn
<1>2. phaseBar' = [k \in Harts |-> PhaseOf(pc'[k], timeOut'[k])]
    BY DEF phaseBar, PhaseOf
<1>3. phaseBar = [k \in Harts |-> PhaseOf(pc[k], timeOut[k])]
    BY DEF phaseBar
<1>4. QED
    BY <1>1, <1>2, <1>3 DEF Turn

\* A hart that looks the same from outside has not moved.
LEMMA PhaseBarSame ==
    ASSUME TypeOK, NEW h \in Harts, NEW to, Turn(h, to),
           PhaseOf(to, timeOut'[h]) = PhaseOf(pc[h], timeOut[h])
    PROVE  phaseBar' = phaseBar
<1>1. phaseBar' = [phaseBar EXCEPT ![h] = PhaseOf(pc[h], timeOut[h])]
    BY PhaseBarStep
<1>2. phaseBar = [k \in Harts |-> PhaseOf(pc[k], timeOut[k])]
    BY DEF phaseBar
<1> QED BY <1>1, <1>2

LEMMA PhaseBarAt ==
    ASSUME NEW h \in Harts
    PROVE  phaseBar[h] = PhaseOf(pc[h], timeOut[h])
BY DEF phaseBar

\* The registers and their callers implement the atomic locks.
THEOREM LocksImplementService ==
    ASSUME Careless = {}
    PROVE  Spec => ImplementsService
<1> DEFINE served == <<ownerBar, phaseBar, num>>
<1>1. Init => Service!Init
    <2> SUFFICES ASSUME Init PROVE Service!Init
        OBVIOUS
    <2>1. ownerBar = [l \in Locks |-> Nobody]
        BY DEF Init, ownerBar, NextLock, Granted, Freed
    <2>2. phaseBar = [h \in Harts |-> "out"]
        BY DEF Init, phaseBar, PhaseOf
    <2>3. num \in [Harts -> Locks]
        BY LockAssumption DEF Init
    <2>4. QED
        BY <2>1, <2>2, <2>3 DEF Service!Init, ownerBar, phaseBar
<1>2. ASSUME IInv, [Next]_vars
      PROVE  [Service!Next]_Service!serviceVars
    <2> USE <1>2 DEF IInv
    <2> SUFFICES Service!Next \/ served' = served
        BY DEF Service!serviceVars, ownerBar, phaseBar
    <2>1. CASE Clock
        BY <2>1, EdgeSettles DEF Clock, swVars, phaseBar
    <2>2. ASSUME NEW h \in Harts, NEW l \in Locks, NEW n \in TimeOuts,
                 CallGetLock(h, l, n)
          PROVE  Service!Next
        <3>1. ownerBar' = ownerBar
            BY <2>2 DEF CallGetLock, hwVars, ownerBar, NextLock, Granted, Freed
        <3>2. Turn(h, "asking") /\ pc[h] = "out"
            BY <2>2 DEF CallGetLock, Goes, Turn, TypeOK
        <3>3. phaseBar[h] = "out" /\ phaseBar' = [phaseBar EXCEPT ![h] = "waiting"]
            BY <3>2, PhaseBarStep, PhaseBarAt, PhaseOfIs
        <3>4. Service!Ask(h, l)
            BY <2>2, <3>1, <3>3
               DEF CallGetLock, Service!Ask, Service!Goes, ownerBar, phaseBar
        <3>5. QED
            BY <3>4 DEF Service!Next
    <2>3. ASSUME NEW h \in Harts, WriteRequest(h)
          PROVE  Service!Next \/ served' = served
        <3>1. Turn(h, "reading") /\ pc[h] = "asking" /\ num' = num
            BY <2>3 DEF WriteRequest, Goes, Turn
        <3>2. phaseBar[h] = "waiting" /\ phaseBar' = phaseBar
            BY <3>1, PhaseBarSame, PhaseBarAt, PhaseOfIs
        <3>3. CASE ownerBar' = ownerBar
            BY <3>1, <3>2, <3>3
        <3>4. CASE /\ ownerBar[num[h]] = Nobody
                   /\ ownerBar' = [ownerBar EXCEPT ![num[h]] = h]
            <4>1. Service!TestAndSet(h)
                BY <3>1, <3>2, <3>4 DEF Service!TestAndSet, ownerBar, phaseBar
            <4>2. QED
                BY <4>1 DEF Service!Next
        <3>5. QED
            BY <2>3, <3>3, <3>4, WriteRequestStep
    <2>4. ASSUME NEW h \in Harts, ReadBack(h)
          PROVE  Service!Next \/ served' = served
        <3>1. num[h] \in Locks /\ num' = num /\ pc[h] = "reading"
            BY <2>4 DEF ReadBack, Goes, TypeOK
        <3>2. timeOut[h] \in Nat /\ timeOut[h] > 0
            BY <3>1 DEF TriesLeft, TypeOK
        <3>3. ownerBar' = ownerBar
            BY <2>4, EdgeSettles DEF ReadBack
        <3>4. phaseBar[h] = "waiting"
            BY <3>1, PhaseBarAt, PhaseOfIs
        <3>5. CASE IsMine(h, num[h])
            <4>1. ownerBar[num[h]] = h
                BY <3>1, <3>5, OwnerKept DEF ownerBar, IsMine
            <4>2. Turn(h, "returned") /\ timeOut'[h] > 0
                BY <2>4, <3>2, <3>5 DEF ReadBack, Goes, Turn
            <4>3. phaseBar' = [phaseBar EXCEPT ![h] = "inside"]
                BY <4>2, PhaseBarStep, PhaseOfIs
            <4>4. Service!Enter(h)
                BY <3>1, <3>3, <3>4, <4>1, <4>3
                   DEF Service!Enter, Service!Goes, ownerBar, phaseBar
            <4>5. QED
                BY <4>4 DEF Service!Next
        <3>6. CASE ~IsMine(h, num[h]) /\ timeOut[h] > 1
            <4>1. Turn(h, "asking")
                BY <2>4, <3>6 DEF ReadBack, Goes, Turn, TypeOK
            <4>2. phaseBar' = phaseBar
                BY <3>1, <4>1, PhaseBarSame, PhaseOfIs
            <4>3. QED
                BY <3>1, <3>3, <4>2
        <3>7. CASE ~IsMine(h, num[h]) /\ ~(timeOut[h] > 1)
            <4>1. ownerBar[num[h]] # h
                BY <2>4, <3>1, <3>7, NotGranted, OwnerBar, LockAssumption
                   DEF ReadBack
            <4>2. Turn(h, "returned") /\ timeOut'[h] = timeOut[h] - 1
                BY <2>4, <3>7 DEF ReadBack, Goes, Turn, TypeOK
            <4>3. ~(timeOut'[h] > 0)
                BY <3>2, <3>7, <4>2
            <4>4. phaseBar' = [phaseBar EXCEPT ![h] = "out"]
                BY <4>2, <4>3, PhaseBarStep, PhaseOfIs
            <4>5. Service!GiveUp(h)
                BY <3>1, <3>3, <3>4, <4>1, <4>4
                   DEF Service!GiveUp, Service!Goes, ownerBar, phaseBar
            <4>6. QED
                BY <4>5 DEF Service!Next
        <3>8. QED
            BY <3>5, <3>6, <3>7
    <2>5. ASSUME NEW h \in Harts, Proceed(h) \/ GiveUp(h)
          PROVE  served' = served
        <3>1. ownerBar' = ownerBar /\ num' = num /\ timeOut' = timeOut
            BY <2>5 DEF Proceed, GiveUp, hwVars, ownerBar, NextLock, Granted, Freed
        <3>2. pc[h] = "returned" /\ Turn(h, IF GotIt(h) THEN "inside" ELSE "out")
            BY <2>5, <3>1 DEF Proceed, GiveUp, Goes, Turn
        <3>3. phaseBar' = phaseBar
            BY <3>1, <3>2, PhaseBarSame, PhaseOfIs DEF GotIt
        <3>4. QED
            BY <3>1, <3>3
    <2>6. ASSUME NEW h \in Harts, ReleaseLock(h)
          PROVE  Service!Next
        <3>1. Turn(h, "out") /\ pc[h] = "inside" /\ num' = num
            BY <2>6 DEF ReleaseLock, Goes, Turn
        <3>2. phaseBar[h] = "inside" /\ phaseBar' = [phaseBar EXCEPT ![h] = "out"]
            BY <3>1, PhaseBarStep, PhaseBarAt, PhaseOfIs
        <3>3. Service!Leave(h)
            BY <2>6, <3>1, <3>2, ReleaseStep
               DEF Service!Leave, Service!Goes, ownerBar, phaseBar
        <3>4. QED
            BY <3>3 DEF Service!Next
    <2>7. ASSUME NEW h \in Harts, BreakOnError(h)
          PROVE  Service!Next
        <3>1. ownerBar' = ownerBar /\ num' = num /\ Turn(h, "out")
            BY <2>7 DEF BreakOnError, Goes, Turn, hwVars, ownerBar, NextLock,
                        Granted, Freed
        <3>2. pc[h] = "inside"
            BY <2>7 DEF BreakOnError, Goes
        <3>3. phaseBar[h] = "inside"
                /\ phaseBar' = [phaseBar EXCEPT ![h] = "out"]
            BY <3>1, <3>2, PhaseBarStep, PhaseBarAt, PhaseOfIs
        <3>4. Service!Fail(h)
            BY <3>1, <3>3 DEF Service!Fail, Service!Goes, ownerBar, phaseBar
        <3>5. QED
            BY <3>4 DEF Service!Next
    <2>8. CASE UNCHANGED vars
        BY <2>8 DEF vars, hwVars, swVars, ownerBar, phaseBar, NextLock, Granted,
                    Freed
    <2>9. QED
        BY <2>1, <2>2, <2>3, <2>4, <2>5, <2>6, <2>7, <2>8
           DEF Next, HartStep, Call
<1>3. QED
    BY <1>1, <1>2, Invariant, PTL DEF Spec, Service!Spec, ImplementsService
=============================================================================
