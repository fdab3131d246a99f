--------------------------- MODULE MultiThread_proofs ---------------------------
(***************************************************************************)
(* For every number of cores, tests and sweeps, whatever scratch registers *)
(* exist and however claims, locks and time-outs fall: no core test runs   *)
(* twice, and a core that ended well has run all of its own.  The claims   *)
(* themselves play no part in the argument: they are cleared under a       *)
(* thread's feet.  What carries it is each thread's own record of what it  *)
(* has done.                                                               *)
(***************************************************************************)
EXTENDS MultiThread, TLAPS

Places == {"setup", "clearing", "finding", "locking", "reading", "passing", "claiming",
           "claimed", "running", "releasing", "done", "failed"}

\* A thread that has chosen a test has not done it; one that runs it has it on
\* its record.
RecordKept == \A h \in Harts :
    /\ at[h] \in {"locking", "reading", "claiming", "claimed"} =>
         test[h] \notin done[h]
    /\ at[h] = "running" => test[h] \in done[h]
    /\ at[h] = "done" => done[h] = Tests

\* A test has been run when its preferred core has it on its record and is no
\* longer on the way to it.
RunsRecorded == \A t \in Tests :
    LET h == Preferred[t] IN
    ran[t] = IF t \in done[h] /\ ~(at[h] = "running" /\ test[h] = t) THEN 1 ELSE 0

IInv ==
    /\ PoolTypeOK
    /\ at \in [Harts -> Places]
    /\ RecordKept
    /\ RunsRecorded

-----------------------------------------------------------------------------

LEMMA InvInit == PoolInit => IInv
BY MultiThreadAssumption
   DEF PoolInit, Init, IInv, PoolTypeOK, Places, RecordKept, RunsRecorded, Tests

\* Storing a value of the right kind in a word keeps the words' type.
LEMMA PutWordTyped ==
    ASSUME PoolTypeOK, NEW t \in Tests, NEW v \in {Free, Signature} \cup Harts,
           PutWord(t, v)
    PROVE  word' \in [Mapped -> {Free, Signature} \cup Harts]
BY DEF PoolTypeOK, PutWord

\* What a thread looks at next is a test.
LEMMA NextTest ==
    ASSUME NEW t \in Tests, NEW s \in 0 .. MaxSweeps - 1
    PROVE  (t + 1) % MaxTest \in Tests /\ (s + 1) % MaxSweeps \in 0 .. MaxSweeps - 1
<1>1. \A a \in Nat, b \in Nat \ {0} : a % b \in 0 .. b - 1 OBVIOUS
<1> QED BY <1>1, MultiThreadAssumption DEF Tests

\* A step that neither runs a test nor adds one to a record keeps the record, if
\* the thread does not come to hold a test it has done.
LEMMA RecordUntouched ==
    ASSUME IInv, NEW h \in Harts, NEW to \in Places, at[h] # "running",
           at' = [at EXCEPT ![h] = to],
           to \notin {"running", "done"},
           to \in {"locking", "reading", "claiming", "claimed"} =>
               test[h] \notin done[h] /\ test' = test,
           \A g \in Harts \ {h} : test'[g] = test[g],
           UNCHANGED <<done, ran>>
    PROVE  at' \in [Harts -> Places] /\ RecordKept' /\ RunsRecorded'
<1>1. at \in [Harts -> Places] /\ at'[h] = to
      /\ \A g \in Harts \ {h} : at'[g] = at[g]
  BY DEF IInv
<1>2. RecordKept' BY <1>1 DEF IInv, RecordKept
<1>3. RunsRecorded'
  BY <1>1, MultiThreadAssumption DEF IInv, RunsRecorded
<1> QED BY <1>1, <1>2, <1>3

LEMMA PassOverStep ==
    ASSUME IInv, NEW h \in Harts, NEW from \in Places \ {"running"},
           PassOver(h, from), owner' \in [Locks -> Harts \cup {Nobody}]
    PROVE  IInv'
<1> DEFINE last == test[h] = MaxTest - 1
           to == IF last /\ sweep[h] = MaxSweeps - 1 THEN "failed" ELSE "finding"
<1>1. at[h] = from /\ at' = [at EXCEPT ![h] = to] /\ to \in {"failed", "finding"}
  BY DEF PassOver, Moves
<1>2. /\ test \in [Harts -> Tests] /\ sweep \in [Harts -> 0 .. MaxSweeps - 1]
      /\ test' = [test EXCEPT ![h] = (test[h] + 1) % MaxTest]
      /\ sweep' = [sweep EXCEPT ![h] = IF last THEN (sweep[h] + 1) % MaxSweeps
                                       ELSE sweep[h]]
      /\ UNCHANGED <<word, done, ran>>
  BY DEF PassOver, IInv, PoolTypeOK
<1>3. PoolTypeOK' BY <1>2, NextTest DEF IInv, PoolTypeOK
<1>4. at' \in [Harts -> Places] /\ RecordKept' /\ RunsRecorded'
  <2> HIDE DEF to
  <2> QED BY <1>1, <1>2, RecordUntouched DEF Places
<1> QED BY <1>3, <1>4 DEF IInv

LEMMA InvNext == IInv /\ [PoolNext]_poolVars => IInv'
<1> SUFFICES ASSUME IInv, [PoolNext]_poolVars PROVE IInv' OBVIOUS
<1> USE DEF Places
<1>1. CASE UNCHANGED poolVars
  BY <1>1 DEF poolVars, serviceVars, threadVars, IInv, PoolTypeOK, RecordKept,
              RunsRecorded
<1>2. ASSUME NEW h \in Harts, Grant(h) PROVE IInv'
  <2>1. owner' \in [Locks -> Harts \cup {Nobody}] /\ UNCHANGED threadVars
    BY <1>2 DEF Grant, TestAndSet, IInv, PoolTypeOK
  <2> QED BY <2>1 DEF threadVars, IInv, PoolTypeOK, RecordKept, RunsRecorded
<1>3. ASSUME NEW h \in Harts, Signal(h) PROVE IInv'
  <2>1. PoolTypeOK'
    <3>1. word' \in [Mapped -> {Free, Signature} \cup Harts]
      BY <1>3, PutWordTyped, MultiThreadAssumption DEF Signal, IInv
    <3> QED BY <1>3, <3>1 DEF Signal, serviceVars, IInv, PoolTypeOK
  <2>2. at[h] # "running" /\ \E to \in {"clearing", "finding"} :
          at' = [at EXCEPT ![h] = to]
    BY <1>3 DEF Signal, Moves
  <2> QED BY <1>3, <2>1, <2>2, RecordUntouched DEF Signal, IInv
<1>4. ASSUME NEW h \in Harts, Poll(h) \/ PollTimeout(h) PROVE IInv'
  <2>1. PoolTypeOK'
    BY <1>4 DEF Poll, PollTimeout, serviceVars, IInv, PoolTypeOK
  <2>2. at[h] # "running" /\ \E to \in {"clearing", "finding"} :
          at' = [at EXCEPT ![h] = to]
    BY <1>4 DEF Poll, PollTimeout, Moves
  <2> QED BY <1>4, <2>1, <2>2, RecordUntouched DEF Poll, PollTimeout, IInv
<1>5. ASSUME NEW h \in Harts, Clear(h) PROVE IInv'
  <2>1. PoolTypeOK'
    <3>1. test[h] \in Tests BY DEF IInv, PoolTypeOK
    <3>2. word' \in [Mapped -> {Free, Signature} \cup Harts]
      BY <1>5, <3>1, PutWordTyped DEF Clear, IInv
    <3>3. test' \in [Harts -> Tests]
      <4>1. (test[h] + 1) % MaxTest \in Tests
        BY <3>1, NextTest DEF IInv, PoolTypeOK
      <4> QED BY <1>5, <4>1 DEF Clear, IInv, PoolTypeOK
    <3> QED BY <1>5, <3>2, <3>3 DEF Clear, serviceVars, IInv, PoolTypeOK
  <2>2. at[h] # "running" /\ \E to \in {"clearing", "finding"} :
          at' = [at EXCEPT ![h] = to]
    BY <1>5 DEF Clear, Moves
  <2>3. \A g \in Harts \ {h} : test'[g] = test[g]
    BY <1>5 DEF Clear, IInv, PoolTypeOK
  <2> QED BY <1>5, <2>1, <2>2, <2>3, RecordUntouched DEF Clear, IInv
<1>6. ASSUME NEW h \in Harts, SkipDone(h) PROVE IInv'
  BY <1>6, PassOverStep DEF SkipDone, serviceVars, IInv, PoolTypeOK
<1>7. ASSUME NEW h \in Harts, GetLock(h) PROVE IInv'
  <2>1. PoolTypeOK' BY <1>7 DEF GetLock, Ask, IInv, PoolTypeOK
  <2> QED BY <1>7, <2>1, RecordUntouched DEF GetLock, Moves, IInv
<1>8. ASSUME NEW h \in Harts, Locked(h) PROVE IInv'
  <2>1. PoolTypeOK' BY <1>8 DEF Locked, Enter, IInv, PoolTypeOK
  <2>2. test[h] \notin done[h] BY <1>8 DEF Locked, Moves, IInv, RecordKept
  <2> QED BY <1>8, <2>1, <2>2, RecordUntouched DEF Locked, Moves, IInv
<1>9. ASSUME NEW h \in Harts, NoLock(h) PROVE IInv'
  <2>1. PoolTypeOK' BY <1>9 DEF NoLock, GiveUp, IInv, PoolTypeOK
  <2> QED BY <1>9, <2>1, RecordUntouched DEF NoLock, Moves, IInv
<1>10. ASSUME NEW h \in Harts, ReadClaim(h) PROVE IInv'
  <2>1. PoolTypeOK' BY <1>10 DEF ReadClaim, serviceVars, IInv, PoolTypeOK
  <2>2. test[h] \notin done[h] BY <1>10 DEF ReadClaim, Moves, IInv, RecordKept
  <2>3. at[h] # "running" /\ \E to \in {"claiming", "passing"} :
          at' = [at EXCEPT ![h] = to]
    BY <1>10 DEF ReadClaim, Moves
  <2> QED BY <1>10, <2>1, <2>2, <2>3, RecordUntouched DEF ReadClaim, IInv
<1>11. ASSUME NEW h \in Harts, WriteClaim(h) PROVE IInv'
  <2>1. PoolTypeOK'
    <3>1. test[h] \in Tests BY DEF IInv, PoolTypeOK
    <3>2. word' \in [Mapped -> {Free, Signature} \cup Harts]
      BY <1>11, <3>1, PutWordTyped DEF WriteClaim, IInv
    <3> QED BY <1>11, <3>2 DEF WriteClaim, serviceVars, IInv, PoolTypeOK
  <2>2. test[h] \notin done[h] BY <1>11 DEF WriteClaim, Moves, IInv, RecordKept
  <2> QED BY <1>11, <2>1, <2>2, RecordUntouched DEF WriteClaim, Moves, IInv
<1>12. ASSUME NEW h \in Harts, Unlock(h) PROVE IInv'
  <2>1. owner' \in [Locks -> Harts \cup {Nobody}]
    BY <1>12 DEF Unlock, Leave, IInv, PoolTypeOK
  <2>2. CASE PassOver(h, "passing") BY <2>1, <2>2, PassOverStep
  <2>3. CASE /\ Moves(h, "claimed", "running")
             /\ done' = [done EXCEPT ![h] = done[h] \cup {test[h]}]
             /\ UNCHANGED <<word, test, sweep, ran>>
    <3>1. test[h] \in Tests /\ test[h] \notin done[h]
      BY <2>3 DEF Moves, IInv, PoolTypeOK, RecordKept
    <3>2. PoolTypeOK' BY <2>1, <2>3, <3>1 DEF IInv, PoolTypeOK
    <3>3. at' \in [Harts -> Places] BY <2>3 DEF Moves, IInv
    <3>4. RecordKept' BY <2>3 DEF Moves, IInv, PoolTypeOK, RecordKept
    <3>5. RunsRecorded'
      BY <2>3, <3>1, MultiThreadAssumption
         DEF Moves, IInv, PoolTypeOK, RunsRecorded
    <3> QED BY <3>2, <3>3, <3>4, <3>5 DEF IInv
  <2> QED BY <1>12, <2>2, <2>3 DEF Unlock
<1>13. ASSUME NEW h \in Harts, Run(h) PROVE IInv'
  <2> USE <1>13 DEF Run, Moves, serviceVars
  <2>1. test[h] \in Tests /\ test[h] \in done[h]
    BY DEF IInv, PoolTypeOK, RecordKept
  <2>2. PoolTypeOK' BY <2>1 DEF IInv, PoolTypeOK
  <2>3. at' \in [Harts -> Places] /\ RecordKept' BY DEF IInv, RecordKept
  <2>4. RunsRecorded'
    <3> SUFFICES ASSUME NEW t \in Tests
                 PROVE  ran'[t] = IF t \in done[Preferred[t]]
                                     /\ ~(at'[Preferred[t]] = "running"
                                          /\ test[Preferred[t]] = t)
                                  THEN 1 ELSE 0
      BY DEF RunsRecorded
    <3>1. ran[t] = IF t \in done[Preferred[t]]
                      /\ ~(at[Preferred[t]] = "running" /\ test[Preferred[t]] = t)
                   THEN 1 ELSE 0
      BY DEF IInv, RunsRecorded
    <3>2. Preferred[t] \in Harts BY MultiThreadAssumption
    <3>3. CASE Preferred[t] = h /\ t = test[h]
      BY <2>1, <3>1, <3>3 DEF IInv, PoolTypeOK
    <3>4. CASE ~(Preferred[t] = h /\ t = test[h])
      BY <2>1, <3>1, <3>2, <3>4 DEF IInv, PoolTypeOK
    <3> QED BY <3>3, <3>4
  <2> QED BY <2>2, <2>3, <2>4 DEF IInv
<1>14. ASSUME NEW h \in Harts, ReleaseTest(h) PROVE IInv'
  <2>1. PoolTypeOK'
    <3>1. 0 \in Tests /\ 0 \in 0 .. MaxSweeps - 1 /\ test[h] \in Tests
      BY MultiThreadAssumption DEF Tests, IInv, PoolTypeOK
    <3>2. word' \in [Mapped -> {Free, Signature} \cup Harts]
      BY <1>14, <3>1, PutWordTyped DEF ReleaseTest, IInv
    <3> QED BY <1>14, <3>1, <3>2 DEF ReleaseTest, serviceVars, IInv, PoolTypeOK
  <2>2. at[h] = "releasing" /\ \E to \in {"done", "finding", "failed"} :
          at' = [at EXCEPT ![h] = to] /\ (to = "done" => done[h] = Tests)
    BY <1>14 DEF ReleaseTest, Moves
  <2>3. UNCHANGED <<done, ran>> /\ test' = [test EXCEPT ![h] = 0]
    BY <1>14 DEF ReleaseTest
  <2>4. at' \in [Harts -> Places] /\ RecordKept' /\ RunsRecorded'
    <3>1. at' \in [Harts -> Places] BY <2>2 DEF IInv
    <3>2. RecordKept' BY <2>2, <2>3 DEF IInv, RecordKept, PoolTypeOK
    <3>3. RunsRecorded'
      BY <2>2, <2>3, MultiThreadAssumption DEF IInv, PoolTypeOK, RunsRecorded
    <3> QED BY <3>1, <3>2, <3>3
  <2> QED BY <2>1, <2>4 DEF IInv
<1> QED
  BY <1>1, <1>2, <1>3, <1>4, <1>5, <1>6, <1>7, <1>8, <1>9, <1>10, <1>11, <1>12,
     <1>13, <1>14 DEF PoolNext, ThreadStep

LEMMA Invariant == PoolSpec => []IInv
BY InvInit, InvNext, PTL DEF PoolSpec

\* Lock, scratch registers and the threads' records keep their types, for any
\* number of cores and tests (cepMultiThread.cc).
THEOREM PoolTyped == PoolSpec => []PoolTypeOK
<1>1. IInv => PoolTypeOK BY DEF IInv
<1> QED BY Invariant, <1>1, PTL

\* No core test runs twice and a core that ended well has run all of its own,
\* for any number of cores and tests and any map of scratch registers.
THEOREM TestsRunOnce == PoolSpec => []EachTestOnce
<1>1. IInv => EachTestOnce
  BY MultiThreadAssumption DEF IInv, RecordKept, RunsRecorded, EachTestOnce
<1> QED BY Invariant, <1>1, PTL
=============================================================================
