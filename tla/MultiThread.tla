------------------------------- MODULE MultiThread -------------------------------
(***************************************************************************)
(* The multi-thread test (cepMultiThread.cc, bfmTests/multiThread): every  *)
(* core's thread sets up, then goes through all the core tests, claiming   *)
(* each by writing its id into the test's word under core lock 0.  The     *)
(* words lie at the scratch registers, of which there are fewer than       *)
(* tests; one of them also carries the signature with which the master     *)
(* core tells the others that the keys are loaded (cep_srot.cc).  The lock *)
(* is LockService, which the lock registers implement.                     *)
(***************************************************************************)
EXTENDS Naturals, LockService

CONSTANTS
    Master,         \* the lowest active core
    MaxTest,        \* number of tests
    Mapped,         \* the tests whose word is a scratch register
    SignatureWord,  \* the test whose word carries the signature
    Preferred,      \* Preferred[t]: the core that really runs test t
    MaxSweeps       \* sweeps without a free test after which a thread fails

Tests == 0 .. MaxTest - 1
ASSUME MultiThreadAssumption ==
    /\ Master \in Harts
    /\ Locks = {0}
    /\ MaxTest \in Nat \ {0}
    /\ Mapped \subseteq Tests /\ SignatureWord \in Mapped
    /\ Preferred \in [Tests -> Harts]
    /\ MaxSweeps \in Nat \ {0}

VARIABLES
    word,           \* the scratch registers
    at,             \* where each thread is
    test,           \* the test it looks at
    sweep,          \* its sweeps over the tests since the last claim
    done,           \* myDoneMask
    ran             \* how often a core test has been run (history)
threadVars == <<word, at, test, sweep, done, ran>>
poolVars == <<serviceVars, threadVars>>

Free == "free"
Signature == "signature"

\* Registers that do not exist read as zero and ignore what is written.
ReadWord(t) == IF t \in Mapped THEN word[t] ELSE Free
PutWord(t, v) == word' = IF t \in Mapped THEN [word EXCEPT ![t] = v] ELSE word

Moves(h, from, to) == at[h] = from /\ at' = [at EXCEPT ![h] = to]

-----------------------------------------------------------------------------
(* LLKI_Setup and cepMultiThread_setup *)

\* The master loads the keys.  A load that fails is signalled all the same,
\* but the master then clears nothing.
Signal(h) ==
    /\ h = Master
    /\ Moves(h, "setup", "clearing") \/ Moves(h, "setup", "finding")
    /\ PutWord(SignatureWord, Signature)
    /\ UNCHANGED <<serviceVars, test, sweep, done, ran>>

Poll(h) ==
    /\ h # Master
    /\ ReadWord(SignatureWord) = Signature
    /\ Moves(h, "setup", "clearing")
    /\ UNCHANGED <<serviceVars, word, test, sweep, done, ran>>

\* A slave that times out counts an error, clears nothing and goes on.
PollTimeout(h) ==
    /\ h # Master
    /\ Moves(h, "setup", "finding")
    /\ UNCHANGED <<serviceVars, word, test, sweep, done, ran>>

Clear_mutant(h) ==                      \* clears one word too many
    /\ Moves(h, "clearing", IF test[h] = MaxTest THEN "finding" ELSE "clearing")
    /\ PutWord(test[h], Free)
    /\ test' = [test EXCEPT ![h] = @ + 1]
    /\ UNCHANGED <<serviceVars, sweep, done, ran>>
\* Every thread clears every word, one by one.
Clear(h) ==
    /\ Moves(h, "clearing",
             IF test[h] = MaxTest - 1 THEN "finding" ELSE "clearing")
    /\ PutWord(test[h], Free)
    /\ test' = [test EXCEPT ![h] = (@ + 1) % MaxTest]
    /\ UNCHANGED <<serviceVars, sweep, done, ran>>

-----------------------------------------------------------------------------
(* cepMultiThread_findATest2Run *)

\* On to the next test; a thread that has found nothing in its last sweep
\* gives up.
PassOver(h, from) == LET last == test[h] = MaxTest - 1 IN
    /\ Moves(h, from, IF last /\ sweep[h] = MaxSweeps - 1 THEN "failed"
                      ELSE "finding")
    /\ test' = [test EXCEPT ![h] = (@ + 1) % MaxTest]
    /\ sweep' = [sweep EXCEPT ![h] = IF last THEN (@ + 1) % MaxSweeps ELSE @]
    /\ UNCHANGED <<word, done, ran>>

SkipDone(h) ==
    /\ test[h] \in done[h]
    /\ PassOver(h, "finding")
    /\ UNCHANGED serviceVars

GetLock(h) ==
    /\ test[h] \notin done[h]
    /\ Moves(h, "finding", "locking")
    /\ Ask(h, 0)
    /\ UNCHANGED <<word, test, sweep, done, ran>>

Locked(h) ==
    /\ Moves(h, "locking", "reading")
    /\ Enter(h)
    /\ UNCHANGED <<word, test, sweep, done, ran>>

NoLock(h) ==
    /\ Moves(h, "locking", "failed")
    /\ GiveUp(h)
    /\ UNCHANGED <<word, test, sweep, done, ran>>

ReadClaim(h) ==
    /\ Moves(h, "reading",
             IF ReadWord(test[h]) = Free THEN "claiming" ELSE "passing")
    /\ UNCHANGED <<serviceVars, word, test, sweep, done, ran>>

WriteClaim(h) ==
    /\ Moves(h, "claiming", "claimed")
    /\ PutWord(test[h], h)
    /\ UNCHANGED <<serviceVars, test, sweep, done, ran>>

Unlock_mutant(h) ==                     \* keeps the lock when the test is taken
    \/ PassOver(h, "passing") /\ UNCHANGED serviceVars
    \/ /\ Moves(h, "claimed", "running")
       /\ done' = [done EXCEPT ![h] = @ \cup {test[h]}]
       /\ Leave(h)
       /\ UNCHANGED <<word, test, sweep, ran>>
Unlock(h) ==
    /\ \/ PassOver(h, "passing")
       \/ /\ Moves(h, "claimed", "running")
          /\ done' = [done EXCEPT ![h] = @ \cup {test[h]}]
          /\ UNCHANGED <<word, test, sweep, ran>>
    /\ Leave(h)

-----------------------------------------------------------------------------
(* cepMultiThread_runThr *)

\* The core test itself, by its preferred core only.
Run_mutant(h) ==                        \* whoever has the claim runs the test
    /\ Moves(h, "running", "releasing")
    /\ ran' = [ran EXCEPT ![test[h]] = @ + 1]
    /\ UNCHANGED <<serviceVars, word, test, sweep, done>>
Run(h) ==
    /\ Moves(h, "running", "releasing")
    /\ ran' = [ran EXCEPT ![test[h]] = IF Preferred[test[h]] = h THEN @ + 1
                                       ELSE @]
    /\ UNCHANGED <<serviceVars, word, test, sweep, done>>

\* The claim is given back without the lock; a failed test ends the loop.
ReleaseTest(h) ==
    /\ \/ Moves(h, "releasing", IF done[h] = Tests THEN "done" ELSE "finding")
       \/ Moves(h, "releasing", "failed")
    /\ PutWord(test[h], Free)
    /\ test' = [test EXCEPT ![h] = 0]
    /\ sweep' = [sweep EXCEPT ![h] = 0]
    /\ UNCHANGED <<serviceVars, done, ran>>

PoolInit ==
    /\ Init
    /\ wants = [h \in Harts |-> 0]
    /\ word = [t \in Mapped |-> Free]
    /\ at = [h \in Harts |-> "setup"]
    /\ test = [h \in Harts |-> 0]
    /\ sweep = [h \in Harts |-> 0]
    /\ done = [h \in Harts |-> {}]
    /\ ran = [t \in Tests |-> 0]

Grant(h) == TestAndSet(h) /\ UNCHANGED threadVars
ThreadStep(h) ==
    \/ Signal(h) \/ Poll(h) \/ PollTimeout(h) \/ Clear(h)
    \/ SkipDone(h) \/ GetLock(h) \/ Locked(h)
    \/ ReadClaim(h) \/ WriteClaim(h) \/ Unlock(h)
    \/ Run(h) \/ ReleaseTest(h)
PoolNext == \E h \in Harts : Grant(h) \/ ThreadStep(h) \/ NoLock(h)
PoolSpec == PoolInit /\ [][PoolNext]_poolVars

\* Threads run; a lock that is free again and again is got within the tries.
FairPoolSpec ==
    /\ PoolSpec
    /\ \A h \in Harts : WF_poolVars(ThreadStep(h)) /\ SF_poolVars(Grant(h))

-----------------------------------------------------------------------------
(* Properties *)

Ended(h) == at[h] \in {"done", "failed"}

\* Every variable holds a value of its type.
PoolTypeOK ==
    /\ owner \in [Locks -> Harts \cup {Nobody}]
    /\ word \in [Mapped -> {Free, Signature} \cup Harts]
    /\ test \in [Harts -> Tests] /\ sweep \in [Harts -> 0 .. MaxSweeps - 1]
    /\ done \in [Harts -> SUBSET Tests]
    /\ ran \in [Tests -> Nat]

\* However the claims fall, no core test is run twice, and a thread that
\* ended well has run all of its own.
EachTestOnce == \A t \in Tests :
    /\ ran[t] <= 1
    /\ at[Preferred[t]] = "done" => ran[t] = 1

\* Every thread comes to an end: no claim and no lock is kept for ever.
EveryThreadEnds == \A h \in Harts : <>Ended(h)
=============================================================================
