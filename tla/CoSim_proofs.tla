------------------------------ MODULE CoSim_proofs ------------------------------
(***************************************************************************)
(* For every number of threads and commands, on a fresh segment            *)
(* (Stale = FALSE): a command is executed once and answered with its own   *)
(* answer, and the simulation does not end while a thread still waits.     *)
(***************************************************************************)
EXTENDS CoSim, FiniteSetTheorems, TLAPS

LEMMA SlotFacts ==
    /\ Threads \subseteq Slots /\ System \in Slots /\ System \notin Threads
    /\ 0 \in Slots /\ 0 \in Threads
    /\ \A s \in Slots : s # System => s \in Threads /\ s + 1 \in Slots
    /\ \A t \in Threads : t \in Nat /\ t + 1 \in Nat
    /\ \A t \in Threads : t + 1 \notin Threads => \A u \in Threads : u <= t
BY CoSimAssumption DEF Threads, Slots, System

-----------------------------------------------------------------------------
(* The invariant *)

\* Which slot main is at.
MainKnown ==
    /\ mainAt[1] \in {"fork", "alive", "active", "scan"} => mainAt[2] \in Threads
    /\ mainAt[1] \in {"dump", "shutdown", "ended"} => mainAt[2] = System

\* Main starts the threads in order, and takes them off its table when they are
\* gone.
ThreadKnown(t) ==
    /\ mThreadDone[t] => thread[t] = "gone"
    /\ thread[t] # "running" => client[t] = "idle"
    /\ CASE mainAt[1] \in {"open", "init"} -> thread[t] = "none"
         [] mainAt[1] = "fork" ->
              IF t < mainAt[2] THEN t \in globalThreadStatus ELSE thread[t] = "none"
         [] mainAt[1] \in {"alive", "active"} ->
              IF t <= mainAt[2] THEN t \in globalThreadStatus ELSE thread[t] = "none"
         [] mainAt[1] = "dump" -> t \in globalThreadStatus
         [] mainAt[1] = "scan" ->
              t \notin globalThreadStatus \/ (allDone /\ t < mainAt[2]) =>
                  thread[t] = "gone"
         [] OTHER -> thread[t] = "gone"
ThreadsKnown == \A t \in Threads : ThreadKnown(t)

\* Main uses the system slot for one command at the start and for the shutdown;
\* nobody else sends a shutdown.
Stopping == mainAt[1] \in {"shutdown", "ended"}
SystemKnown ==
    /\ client[System] # "idle" => mainAt[1] \in {"dump", "shutdown"}
    /\ sent[System] <= CASE mainAt[1] \in {"dump", "shutdown"} ->
                              IF client[System] = "idle" THEN
                                  IF Stopping THEN 1 ELSE 0
                              ELSE IF Stopping THEN 2 ELSE 1
                         [] mainAt[1] = "scan" -> 1
                         [] mainAt[1] = "ended" -> 2
                         [] OTHER -> 0
    /\ \A s \in Slots :
         mCmd[s] = ShutdownCmd \/ (inBox[s] # <<>> /\ inBox[s][1] = ShutdownCmd) =>
             s = System /\ Stopping
    /\ finish # "no" => Stopping

\* Where the mailbox stands: what the client waits for, whether the driver has
\* executed it, and that mCmdValid and the data are those of this command.
Busy == {"fetch", "execute", "reply", "status", "valid"}
Late == {"reply", "status", "valid"}
Answer(s) == <<IF mCmd[s] = Access THEN "data" ELSE "argument", sent[s]>>
Requested(s) ==
    /\ served[s] + 1 = sent[s]
    /\ mPar[s] = <<"argument", sent[s]>>
    /\ mCmd[s] # "none"

SlotKnown(s) ==
    /\ driver[s] \in Busy => mCmdValid[s]
    /\ mCmdValid[s] => client[s] = "waiting"
    /\ client[s] = "idle" => served[s] = sent[s]
    /\ client[s] = "filled" => Requested(s)
    /\ mCmdValid[s] /\ driver[s] \notin Late => Requested(s)
    /\ driver[s] = "execute" => inBox[s] = <<mCmd[s], mPar[s]>> /\ mCmd[s] # Printf
    /\ driver[s] = "reply" => inBox[s] = <<mCmd[s], Answer(s)>>
    /\ client[s] = "waiting" /\ (~mCmdValid[s] \/ driver[s] \in Late) =>
         served[s] = sent[s] /\ mCmd[s] # "none"
    /\ client[s] = "waiting" /\ (~mCmdValid[s] \/ driver[s] \in {"status", "valid"}) =>
         mPar[s] = Answer(s)
MailKnown == \A s \in Slots : SlotKnown(s)

IInv == TypeOK /\ MainKnown /\ ThreadsKnown /\ SystemKnown /\ MailKnown

LEMMA InvInit == ASSUME Stale = FALSE PROVE Init => IInv
<1> SUFFICES ASSUME Init PROVE IInv OBVIOUS
<1> USE SlotFacts, CoSimAssumption DEF Init
<1>1. TypeOK
  <2>1. 0 \in 0 .. MaxCmds + 2 /\ <<"argument", 0>> \in Arguments BY DEF Arguments
  <2>2. mCmdValid \in [Slots -> BOOLEAN] /\ mStartFlag \in [Slots -> BOOLEAN]
    OBVIOUS
  <2>3. <<"open", 0>> \in {"open", "init", "fork", "alive", "active", "dump", "scan",
                          "shutdown", "ended"} \X Slots
    OBVIOUS
  <2> QED BY <2>1, <2>2, <2>3 DEF TypeOK
<1>2. MainKnown BY DEF MainKnown
<1>3. ThreadsKnown BY DEF ThreadsKnown, ThreadKnown
<1>4. SystemKnown BY DEF SystemKnown, Stopping, Access, ShutdownCmd
<1>5. MailKnown BY DEF MailKnown, SlotKnown, Busy, Late
<1> QED BY <1>1, <1>2, <1>3, <1>4, <1>5 DEF IInv

-----------------------------------------------------------------------------
(* The steps of one slot's client and driver *)


\* Types are kept; the numbers of commands are bounded by what is sent.
LEMMA TypeStep ==
    ASSUME IInv, [Next]_vars
    PROVE  TypeOK'
<1> USE SlotFacts, CoSimAssumption
    DEF Set, slotVars, mainVars, threadVars, driverVars, MainOnly, SlotsOnly,
        NoSlot, ThreadOnly, MainGoes, ThreadGoes, DriverGoes
<1>1. CASE UNCHANGED vars
  BY <1>1 DEF vars, IInv, TypeOK
<1>2. CASE Open
  BY <1>2 DEF Open, IInv, TypeOK
<1>3. ASSUME NEW s \in Slots, InitMe(s) PROVE TypeOK'
  <2>1. <<"argument", 0>> \in Arguments /\ 0 \in Nat BY DEF Arguments
  <2>2. TypeOK BY DEF IInv
  <2>3. mainAt' \in {"open", "init", "fork", "alive", "active", "dump", "scan",
                    "shutdown", "ended"} \X Slots
    BY <1>3 DEF InitMe
  <2>4. /\ mSlotId' \subseteq Slots
        /\ mStartFlag' \in [Slots -> BOOLEAN] /\ mCmdValid' \in [Slots -> BOOLEAN]
        /\ mThreadDone' \in [Slots -> BOOLEAN]
    BY <1>3, <2>2 DEF InitMe, TypeOK
  <2>5. /\ mCmdStatus' \in [Slots -> {"INACTIVE", "PENDING", "SUCCESS", "ALIVE",
                                      "ACTIVE"}]
        /\ mCmd' \in [Slots -> {"none", Access, Printf, Unsupported, ShutdownCmd}]
    BY <1>3, <2>2 DEF InitMe, TypeOK
  <2>6. mPar' \in [Slots -> Arguments] /\ mErrCnt' \in [Slots -> Nat]
    BY <1>3, <2>1, <2>2 DEF InitMe, TypeOK
  <2>7. UNCHANGED <<keyFile, globalThreadStatus, total, allDone, threadVars, driverVars>>
    BY <1>3 DEF InitMe
  <2> QED BY <2>2, <2>3, <2>4, <2>5, <2>6, <2>7 DEF TypeOK
<1>4. ASSUME NEW t \in Threads, ForkAThread(t) PROVE TypeOK'
  BY <1>4 DEF ForkAThread, IInv, TypeOK
<1>5. ASSUME NEW t \in Threads, IsAliveStatus(t) PROVE TypeOK'
  BY <1>5 DEF IsAliveStatus, IInv, TypeOK
<1>6. ASSUME NEW t \in Threads, SetActiveStatus(t) PROVE TypeOK'
  BY <1>6 DEF SetActiveStatus, IInv, TypeOK
<1>7. ASSUME NEW t \in Threads, AllThreadDone(t) PROVE TypeOK'
  <2>1. mErrCnt[t] \in Nat BY DEF IInv, TypeOK
  <2>2. total' \in Nat
    <3>1. total \in Nat BY DEF IInv, TypeOK
    <3>2. total' = total + IF t \in globalThreadStatus /\ mThreadDone[t]
                           THEN mErrCnt[t] ELSE 0
      BY <1>7 DEF AllThreadDone
    <3> QED BY <2>1, <3>1, <3>2
  <2>3. mainAt' \in {"scan", "shutdown"} \X Slots
    BY <1>7 DEF AllThreadDone
  <2>4. globalThreadStatus' \subseteq Threads /\ allDone' \in BOOLEAN
    BY <1>7 DEF AllThreadDone, IInv, TypeOK
  <2> QED BY <1>7, <2>2, <2>3, <2>4 DEF AllThreadDone, IInv, TypeOK
<1>8. CASE NoWave
  BY <1>8 DEF NoWave, IInv, TypeOK
<1>9. ASSUME NEW s \in Slots, NEW op \in {Access, Printf, Unsupported, ShutdownCmd},
             sent[s] + 1 \in 0 .. MaxCmds + 2, Fill(s, op), UNCHANGED mainVars
      PROVE TypeOK'
  BY <1>9 DEF Fill, Arguments, IInv, TypeOK
<1>10. ASSUME NEW s \in Slots, Post(s), UNCHANGED mainVars
       PROVE TypeOK'
  BY <1>10 DEF Post, IInv, TypeOK
<1>11. ASSUME NEW s \in Slots, Return(s),
              \/ UNCHANGED mainVars
              \/ /\ mainAt' \in {<<"scan", 0>>, <<"ended", System>>}
                 /\ UNCHANGED <<keyFile, globalThreadStatus, total, allDone>>
       PROVE TypeOK'
  <2>1. mErrCnt[s] \in Nat /\ CmdFailed(s) \in BOOLEAN
    BY DEF CmdFailed, IInv, TypeOK
  <2>2. mErrCnt' \in [Slots -> Nat]
    <3> DEFINE e == mErrCnt[s] + IF CmdFailed(s) THEN 1 ELSE 0
    <3>1. mErrCnt' = [mErrCnt EXCEPT ![s] = e] BY <1>11, Zenon DEF Return, Set
    <3>2. e \in Nat BY <2>1
    <3>3. mErrCnt \in [Slots -> Nat] BY DEF IInv, TypeOK
    <3> HIDE DEF e
    <3> QED BY <3>1, <3>2, <3>3, Zenon
  <2>3. mainAt' = mainAt \/ mainAt' \in {"scan", "ended"} \X Slots
    BY <1>11
  <2>4. mainAt' \in {"open", "init", "fork", "alive", "active", "dump", "scan",
                    "shutdown", "ended"} \X Slots
    BY <2>3 DEF IInv, TypeOK
  <2> QED BY <1>11, <2>2, <2>4 DEF Return, IInv, TypeOK
<1>12. CASE SystemCmd
  <2>1. mainAt[1] \in {"dump", "shutdown"} BY <1>12 DEF SystemCmd
  <2>2. client[System] = "idle" => sent[System] <= 1
    <3>1. CASE mainAt[1] = "dump"
      <4>1. client[System] = "idle" => sent[System] <= 0
        BY <3>1 DEF SystemKnown, Stopping, IInv
      <4>2. sent[System] \in Nat BY DEF IInv, TypeOK
      <4> QED BY <4>1, <4>2
    <3>2. CASE mainAt[1] = "shutdown"
      BY <3>2 DEF SystemKnown, Stopping, IInv
    <3> QED BY <2>1, <3>1, <3>2
  <2>3. client[System] = "idle" => sent[System] + 1 \in 0 .. MaxCmds + 2
    <3>1. sent[System] \in Nat BY DEF IInv, TypeOK
    <3> QED BY <2>2, <3>1
  <2>4. CASE (Fill(System, Access) \/ Fill(System, ShutdownCmd)) /\ UNCHANGED mainVars
    <3>1. client[System] = "idle" BY <2>4 DEF Fill
    <3> QED BY <3>1, <2>3, <2>4, <1>9
  <2>5. CASE Post(System) /\ UNCHANGED mainVars BY <2>5, <1>10
  <2>6. CASE Return(System) /\ mainAt' \in {<<"scan", 0>>, <<"ended", System>>}
             /\ UNCHANGED <<keyFile, globalThreadStatus, total, allDone>>
    BY <2>6, <1>11
  <2> QED BY <1>12, <2>4, <2>5, <2>6 DEF SystemCmd, IInv, TypeOK
<1>13. ASSUME NEW t \in Threads, SetAliveStatus(t) PROVE TypeOK'
  BY <1>13 DEF SetAliveStatus, IInv, TypeOK
<1>14. ASSUME NEW t \in Threads, WakeUp(t) PROVE TypeOK'
  BY <1>14 DEF WakeUp, IInv, TypeOK
<1>15. ASSUME NEW t \in Threads, Send(t) PROVE TypeOK'
  <2>1. PICK op \in Ops : thread[t] = "running" /\ sent[t] < MaxCmds
                          /\ Fill(t, op) /\ UNCHANGED mainVars
    BY <1>15 DEF Send
  <2>2. sent[t] \in 0 .. MaxCmds + 2 BY DEF IInv, TypeOK
  <2>3. sent[t] + 1 \in 0 .. MaxCmds + 2 BY <2>1, <2>2
  <2> QED BY <2>1, <2>3, <1>9
<1>16. ASSUME NEW t \in Threads, NEW n \in 0 .. MaxErr, SetError(t, n) PROVE TypeOK'
  <2>1. mErrCnt[t] \in Nat /\ n \in Nat BY DEF IInv, TypeOK
  <2>2. mErrCnt' \in [Slots -> Nat]
    <3>1. mErrCnt[t] + n \in Nat BY <2>1
    <3>2. mErrCnt' = [mErrCnt EXCEPT ![t] = mErrCnt[t] + n] BY <1>16 DEF SetError
    <3>3. mErrCnt \in [Slots -> Nat] BY DEF IInv, TypeOK
    <3> QED BY <3>1, <3>2, <3>3
  <2> QED BY <1>16, <2>2 DEF SetError, IInv, TypeOK
<1>17. ASSUME NEW t \in Threads, SetThreadDone(t) PROVE TypeOK'
  BY <1>17 DEF SetThreadDone, IInv, TypeOK
<1>18. ASSUME NEW s \in Slots, Attach(s) \/ WaitTilStart(s) \/ Enable(s) \/ Poll(s)
       PROVE TypeOK'
  <2>1. CASE Attach(s) BY <2>1 DEF Attach, IInv, TypeOK
  <2>2. CASE WaitTilStart(s) BY <2>2 DEF WaitTilStart, IInv, TypeOK
  <2>3. CASE Enable(s)
    <3>1. driver' = [driver EXCEPT ![s] = "poll"] BY <2>3 DEF Enable, IInv, TypeOK
    <3> QED BY <2>3, <3>1 DEF Enable, IInv, TypeOK
  <2>4. CASE Poll(s) BY <2>4 DEF Poll, IInv, TypeOK
  <2> QED BY <1>18, <2>1, <2>2, <2>3, <2>4
<1>19. ASSUME NEW s \in Slots, Check(s) PROVE TypeOK'
  BY <1>19 DEF Check, IInv, TypeOK
<1>20. ASSUME NEW s \in Slots, driver[s] \in {"fetch", "execute"}
       PROVE served[s] + 1 \in 0 .. MaxCmds + 2
  <2>1. SlotKnown(s) BY DEF MailKnown, IInv, TypeOK
  <2>2. served[s] + 1 = sent[s]
    BY <1>20, <2>1 DEF SlotKnown, Busy, Late, Requested, IInv, TypeOK
  <2>3. served[s] \in Nat /\ sent[s] \in 0 .. MaxCmds + 2 BY DEF IInv, TypeOK
  <2> QED BY <2>2, <2>3
<1>21. ASSUME NEW s \in Slots, FetchPrintf(s) PROVE TypeOK'
  <2>1. served[s] + 1 \in 0 .. MaxCmds + 2 BY <1>21, <1>20 DEF FetchPrintf, IInv, TypeOK
  <2>2. served' \in [Slots -> 0 .. MaxCmds + 2] BY <1>21, <2>1 DEF FetchPrintf, IInv, TypeOK
  <2> QED BY <1>21, <2>2 DEF FetchPrintf, IInv, TypeOK
<1>22. ASSUME NEW s \in Slots, Fetch(s) \/ FetchShutdown(s) PROVE TypeOK'
  <2>1. SlotKnown(s) BY DEF MailKnown, IInv, TypeOK
  <2>2. mCmd[s] # "none"
    BY <1>22, <2>1 DEF Fetch, FetchShutdown, SlotKnown, Busy, Late, Requested, IInv, TypeOK
  <2>3. inBox' \in [Slots -> {<<>>} \cup
                     {Access, Printf, Unsupported, ShutdownCmd} \X Arguments]
    <3>1. <<mCmd[s], mPar[s]>> \in {Access, Printf, Unsupported, ShutdownCmd} \X Arguments
      BY <2>2 DEF IInv, TypeOK
    <3>2. inBox' = [inBox EXCEPT ![s] = <<mCmd[s], mPar[s]>>]
      BY <1>22 DEF Fetch, FetchShutdown, IInv, TypeOK
    <3> QED BY <3>1, <3>2 DEF IInv, TypeOK
  <2>4. CASE Fetch(s) BY <2>3, <2>4 DEF Fetch, IInv, TypeOK
  <2>5. CASE FetchShutdown(s) BY <2>3, <2>5 DEF FetchShutdown, IInv, TypeOK
  <2> QED BY <1>22, <2>4, <2>5
<1>23. ASSUME NEW s \in Slots, processCmd(s) PROVE TypeOK'
  <2>1. served[s] + 1 \in 0 .. MaxCmds + 2 BY <1>23, <1>20 DEF processCmd, IInv, TypeOK
  <2>2. served' \in [Slots -> 0 .. MaxCmds + 2] BY <1>23, <2>1 DEF processCmd, IInv, TypeOK
  <2>3. inBox[s] = <<mCmd[s], mPar[s]>> /\ driver[s] = "execute"
    BY <1>23 DEF processCmd, MailKnown, SlotKnown, IInv, TypeOK
  <2>4. mPar[s] \in Arguments /\ mPar[s][2] \in 0 .. MaxCmds + 2
        /\ <<"data", mPar[s][2]>> \in Arguments
    BY DEF Arguments, IInv, TypeOK
  <2>5. inBox[s] \in {Access, Printf, Unsupported, ShutdownCmd} \X Arguments
    <3>1. inBox[s] \in {<<>>} \cup
                     {Access, Printf, Unsupported, ShutdownCmd} \X Arguments
      BY DEF IInv, TypeOK
    <3>2. inBox[s] # <<>> BY <2>3
    <3> QED BY <3>1, <3>2
  <2>6. inBox' \in [Slots -> {<<>>} \cup
                     {Access, Printf, Unsupported, ShutdownCmd} \X Arguments]
    <3>1. inBox' = [inBox EXCEPT ![s] = <<mCmd[s], <<"data", mPar[s][2]>>>>]
          \/ inBox' = inBox
      BY <1>23, <2>3 DEF processCmd, Executed, IInv, TypeOK
    <3>2. <<mCmd[s], <<"data", mPar[s][2]>>>> \in
            {Access, Printf, Unsupported, ShutdownCmd} \X Arguments
      BY <2>3, <2>4, <2>5
    <3>3. inBox \in [Slots -> {<<>>} \cup
                      {Access, Printf, Unsupported, ShutdownCmd} \X Arguments]
      BY DEF IInv, TypeOK
    <3> QED BY <3>1, <3>2, <3>3
  <2> QED BY <1>23, <2>2, <2>6 DEF processCmd, IInv, TypeOK
<1>24. ASSUME NEW s \in Slots, Reply(s) PROVE TypeOK'
  <2>1. inBox[s] = <<mCmd[s], Answer(s)>> BY <1>24 DEF Reply, MailKnown, SlotKnown, IInv, TypeOK
  <2>2. Answer(s) \in Arguments BY DEF Answer, Arguments, IInv, TypeOK
  <2>3. mPar' \in [Slots -> Arguments] BY <1>24, <2>1, <2>2 DEF Reply, IInv, TypeOK
  <2> QED BY <1>24, <2>3 DEF Reply, IInv, TypeOK
<1>25. ASSUME NEW s \in Slots, AckStatus(s) \/ AckValid(s) PROVE TypeOK'
  <2>1. CASE AckStatus(s) BY <2>1 DEF AckStatus, IInv, TypeOK
  <2>2. CASE AckValid(s) BY <2>2 DEF AckValid, IInv, TypeOK
  <2> QED BY <1>25, <2>1, <2>2
<1>26. CASE Finish
  BY <1>26 DEF Finish, IInv, TypeOK
<1> QED
  BY <1>1, <1>2, <1>3, <1>4, <1>5, <1>6, <1>7, <1>8, <1>10, <1>11, <1>12, <1>13,
     <1>14, <1>15, <1>16, <1>17, <1>18, <1>19, <1>21, <1>22, <1>23, <1>24, <1>25, <1>26
     DEF Next, MainStep, ThreadStep, DriverStep

-----------------------------------------------------------------------------
(* What steps leave alone *)

\* A driver touches neither the threads nor main, and ends no thread.
LEMMA DriverLeaves ==
    ASSUME IInv, NEW s \in Slots, DriverStep(s)
    PROVE  /\ UNCHANGED <<threadVars, mainVars, mCmd, mErrCnt>>
           /\ \A t \in Threads : mThreadDone'[t] = mThreadDone[t]
<1> USE DEF SlotsOnly, NoSlot, slotVars, DriverGoes, Set
<1>1. CASE FetchShutdown(s)
  <2>1. s = System BY <1>1 DEF FetchShutdown, IInv, SystemKnown
  <2>2. mThreadDone' = [mThreadDone EXCEPT ![System] = TRUE]
    BY <1>1, <2>1 DEF FetchShutdown
  <2>3. UNCHANGED <<threadVars, mainVars, mCmd, mErrCnt>>
    BY <1>1, Zenon DEF FetchShutdown
  <2>4. mThreadDone \in [Slots -> BOOLEAN] BY DEF IInv, TypeOK
  <2> QED BY <2>2, <2>3, <2>4, SlotFacts
<1>2. CASE Attach(s) \/ WaitTilStart(s) \/ Enable(s) \/ Poll(s)
  BY <1>2 DEF Attach, WaitTilStart, Enable, Poll
<1>3. CASE Check(s) BY <1>3 DEF Check
<1>4. CASE FetchPrintf(s) BY <1>4 DEF FetchPrintf
<1>5. CASE Fetch(s) BY <1>5 DEF Fetch
<1>6. CASE processCmd(s) BY <1>6 DEF processCmd
<1>7. CASE Reply(s) BY <1>7 DEF Reply
<1>8. CASE AckStatus(s) \/ AckValid(s) BY <1>8 DEF AckStatus, AckValid
<1> QED
  BY <1>1, <1>2, <1>3, <1>4, <1>5, <1>6, <1>7, <1>8 DEF DriverStep

\* A thread touches neither main nor the drivers, nor the system slot.
LEMMA ThreadLeaves ==
    ASSUME IInv, NEW t \in Threads, ThreadStep(t)
    PROVE  /\ UNCHANGED <<mainVars, driverVars>>
           /\ UNCHANGED <<client[System], sent[System], mCmd[System]>>
<1> USE SlotFacts DEF ThreadOnly, ThreadGoes, Set, slotVars, threadVars
<1>1. CASE SetAliveStatus(t) BY <1>1 DEF SetAliveStatus
<1>2. CASE WakeUp(t) BY <1>2 DEF WakeUp
<1>3. CASE Send(t) BY <1>3 DEF Send, Fill, IInv, TypeOK
<1>4. CASE Post(t) /\ UNCHANGED mainVars BY <1>4 DEF Post, IInv, TypeOK
<1>5. CASE Return(t) /\ UNCHANGED mainVars BY <1>5 DEF Return, IInv, TypeOK
<1>6. ASSUME NEW n \in 0 .. MaxErr, SetError(t, n)
      PROVE  /\ UNCHANGED <<mainVars, driverVars>>
             /\ UNCHANGED <<client[System], sent[System], mCmd[System]>>
  BY <1>6 DEF SetError
<1>7. CASE SetThreadDone(t) BY <1>7 DEF SetThreadDone
<1> QED BY <1>1, <1>2, <1>3, <1>4, <1>5, <1>6, <1>7 DEF ThreadStep

LEMMA MainKnownStep ==
    ASSUME IInv, [Next]_vars
    PROVE  MainKnown'
<1> USE SlotFacts DEF MainGoes, MainKnown
<1>1. CASE UNCHANGED mainAt BY <1>1 DEF IInv
<1>2. CASE Open BY <1>2 DEF Open
<1>3. ASSUME NEW s \in Slots, InitMe(s) PROVE MainKnown'
  BY <1>3 DEF InitMe
<1>4. ASSUME NEW t \in Threads,
             ForkAThread(t) \/ IsAliveStatus(t) \/ SetActiveStatus(t) \/ AllThreadDone(t)
      PROVE MainKnown'
  <2>1. CASE ForkAThread(t) BY <2>1 DEF ForkAThread
  <2>2. CASE IsAliveStatus(t) BY <2>2 DEF IsAliveStatus
  <2>3. CASE SetActiveStatus(t) BY <2>3 DEF SetActiveStatus
  <2>4. CASE AllThreadDone(t) BY <2>4 DEF AllThreadDone
  <2> QED BY <1>4, <2>1, <2>2, <2>3, <2>4
<1>5. CASE SystemCmd
  BY <1>5 DEF SystemCmd, mainVars, IInv
<1>6. CASE NoWave BY <1>6 DEF NoWave
<1>7. ASSUME NEW t \in Threads, ThreadStep(t) PROVE UNCHANGED mainAt
  BY <1>7, ThreadLeaves DEF mainVars
<1>8. ASSUME NEW s \in Slots, DriverStep(s) PROVE UNCHANGED mainAt
  BY <1>8, DriverLeaves DEF mainVars
<1>9. Finish \/ UNCHANGED vars => UNCHANGED mainAt
  BY DEF Finish, NoSlot, SlotsOnly, mainVars, vars
<1> QED
  BY <1>1, <1>2, <1>3, <1>4, <1>5, <1>6, <1>7, <1>8, <1>9 DEF Next, MainStep

-----------------------------------------------------------------------------
(* The threads *)

LEMMA MainThreads ==
    ASSUME IInv, MainStep, NEW t \in Threads
    PROVE  ThreadKnown(t)'
<1> USE SlotFacts DEF MainGoes, MainOnly, threadVars, driverVars, slotVars, Set
<1>0. /\ ThreadKnown(t)
      /\ t \in Slots /\ t \in Nat
  BY DEF IInv, ThreadsKnown
<1>1. CASE Open BY <1>0, <1>1 DEF Open, ThreadKnown
<1>2. ASSUME NEW s \in Slots, InitMe(s) PROVE ThreadKnown(t)'
  BY <1>0, <1>2 DEF InitMe, ThreadKnown, IInv, TypeOK
<1>3. ASSUME NEW u \in Threads, ForkAThread(u) PROVE ThreadKnown(t)'
  <2>1. mainAt = <<"fork", u>> /\ mainAt' = <<"alive", u>> /\ u \in Nat
        /\ globalThreadStatus' = globalThreadStatus \cup {u}
        /\ UNCHANGED <<client, mThreadDone>>
        /\ thread' = [thread EXCEPT ![u] = "born"]
    BY <1>3 DEF ForkAThread
  <2>2. thread[u] = "none" /\ ~mThreadDone[u] /\ client[u] = "idle"
    BY <2>1 DEF IInv, ThreadsKnown, ThreadKnown
  <2>3. thread \in [Threads -> {"none", "born", "asleep", "running", "ending", "gone"}]
    BY DEF IInv, TypeOK
  <2>4. CASE t = u BY <2>1, <2>2, <2>3, <2>4 DEF ThreadKnown
  <2>5. CASE t # u
    <3>1. thread'[t] = thread[t] BY <2>1, <2>3, <2>5
    <3>2. t <= u <=> t < u BY <1>0, <2>1, <2>5
    <3> QED BY <1>0, <2>1, <2>5, <3>1, <3>2 DEF ThreadKnown
  <2> QED BY <2>4, <2>5
<1>4. ASSUME NEW u \in Threads, IsAliveStatus(u) PROVE ThreadKnown(t)'
  BY <1>0, <1>4 DEF IsAliveStatus, ThreadKnown
<1>5. ASSUME NEW u \in Threads, SetActiveStatus(u) PROVE ThreadKnown(t)'
  BY <1>0, <1>5 DEF SetActiveStatus, ThreadKnown
<1>6. ASSUME NEW u \in Threads, AllThreadDone(u) PROVE ThreadKnown(t)'
  <2>1. /\ mainAt = <<"scan", u>> /\ allDone \in BOOLEAN
        /\ UNCHANGED <<thread, client, mThreadDone>>
        /\ mThreadDone[u] => thread[u] = "gone"
        /\ u \in Nat
    BY <1>6 DEF AllThreadDone, IInv, TypeOK, ThreadsKnown, ThreadKnown
  <2> DEFINE all == allDone /\ (u \in globalThreadStatus => mThreadDone[u])
  <2>2. /\ mainAt' = IF u + 1 \in Threads THEN <<"scan", u + 1>>
                     ELSE IF all THEN <<"shutdown", System>> ELSE <<"scan", 0>>
        /\ globalThreadStatus' \in {globalThreadStatus, globalThreadStatus \ {u}}
        /\ u \in globalThreadStatus /\ u \notin globalThreadStatus' => mThreadDone[u]
    BY <1>6 DEF AllThreadDone
  <2>3. allDone' => mainAt' = <<"scan", 0>> \/ all
    BY <1>6 DEF AllThreadDone
  \* What this pass has found done so far is gone.
  <2>4. thread[t] # "gone" => t \in globalThreadStatus'
    BY <1>0, <2>1, <2>2 DEF ThreadKnown
  <2>5. all => (t <= u => thread[t] = "gone")
    <3>1. CASE t = u BY <1>0, <2>1, <3>1 DEF ThreadKnown
    <3>2. CASE t # u
      <4>1. t <= u => t < u BY <1>0, <2>1, <3>2
      <4> QED BY <1>0, <2>1, <4>1 DEF ThreadKnown
    <3> QED BY <3>1, <3>2
  <2>6. /\ mThreadDone'[t] => thread'[t] = "gone"
        /\ thread'[t] # "running" => client'[t] = "idle"
    BY <1>0, <2>1 DEF ThreadKnown
  <2> HIDE DEF all
  <2>7. CASE u + 1 \in Threads
    <3>1. t < u + 1 <=> t <= u BY <1>0, <2>1
    <3>2. u + 1 # 0 BY <2>1
    <3> QED BY <2>1, <2>2, <2>3, <2>4, <2>5, <2>6, <2>7, <3>1, <3>2 DEF ThreadKnown
  <2>8. CASE u + 1 \notin Threads /\ all
    <3>1. t <= u BY <2>8
    <3> QED BY <2>1, <2>2, <2>5, <2>6, <2>8, <3>1 DEF ThreadKnown
  <2>9. CASE u + 1 \notin Threads /\ ~all
    <3>1. ~(t < 0) BY <1>0
    <3> QED BY <2>1, <2>2, <2>4, <2>6, <2>9, <3>1 DEF ThreadKnown
  <2> QED BY <2>7, <2>8, <2>9
<1>7. CASE SystemCmd
  <2>1. UNCHANGED <<thread, mThreadDone>> /\ client'[t] = client[t]
    <3>1. /\ UNCHANGED <<thread, mThreadDone>>
          /\ \E f : client' = [client EXCEPT ![System] = f]
      BY <1>7 DEF SystemCmd, Fill, Post, Return
    <3>2. DOMAIN client = Slots /\ System # t BY <1>0 DEF IInv, TypeOK
    <3> QED BY <1>0, <3>1, <3>2
  <2>2. UNCHANGED <<globalThreadStatus, allDone>>
    BY <1>7 DEF SystemCmd, mainVars
  <2>3. \/ mainAt' = mainAt
        \/ mainAt[1] = "dump" /\ mainAt' = <<"scan", 0>>
        \/ mainAt[1] = "shutdown" /\ mainAt' = <<"ended", System>>
    BY <1>7 DEF SystemCmd, mainVars
  <2> QED BY <1>0, <2>1, <2>2, <2>3 DEF ThreadKnown
<1>8. CASE NoWave BY <1>0, <1>8 DEF NoWave, ThreadKnown
<1> QED BY <1>1, <1>2, <1>3, <1>4, <1>5, <1>6, <1>7, <1>8 DEF MainStep

LEMMA OwnThread ==
    ASSUME IInv, NEW u \in Threads, ThreadStep(u), NEW t \in Threads
    PROVE  ThreadKnown(t)'
<1> USE SlotFacts DEF ThreadOnly, ThreadGoes, slotVars, threadVars, Set
<1>0. ThreadKnown(t) /\ t \in Slots
      /\ UNCHANGED <<mainAt, globalThreadStatus, allDone>>
  BY ThreadLeaves DEF IInv, ThreadsKnown, ThreadKnown, mainVars
<1>1. \/ UNCHANGED thread
      \/ /\ thread[u] \in {"born", "asleep", "running", "ending"}
         /\ thread' = [thread EXCEPT ![u] = thread'[u]]
         /\ thread'[u] \in {"asleep", "running", "ending", "gone"}
         /\ thread[u] = "running" => client[u] = "idle"
         /\ thread[u] = "ending" <=> thread'[u] = "gone"
         /\ UNCHANGED client
  <2>1. CASE SetAliveStatus(u) BY <2>1 DEF SetAliveStatus, IInv, TypeOK
  <2>2. CASE WakeUp(u) BY <2>2 DEF WakeUp, IInv, TypeOK
  <2>3. CASE Send(u) BY <2>3 DEF Send, Fill
  <2>4. CASE Post(u) \/ Return(u) BY <2>4 DEF Post, Return
  <2>5. ASSUME NEW n \in 0 .. MaxErr, SetError(u, n)
        PROVE  /\ thread[u] = "running" /\ thread'[u] = "ending"
               /\ thread' = [thread EXCEPT ![u] = thread'[u]]
               /\ client[u] = "idle" /\ UNCHANGED client
    BY <2>5 DEF SetError, IInv, TypeOK
  <2>6. CASE SetThreadDone(u) BY <2>6 DEF SetThreadDone, IInv, TypeOK
  <2> QED BY <2>1, <2>2, <2>3, <2>4, <2>5, <2>6 DEF ThreadStep
<1>2. \/ mThreadDone'[t] = mThreadDone[t]
      \/ t = u /\ thread'[t] = "gone"
  <2>1. CASE SetThreadDone(u) BY <2>1 DEF SetThreadDone, IInv, TypeOK
  <2>2. CASE ~SetThreadDone(u)
    BY <2>2 DEF ThreadStep, SetAliveStatus, WakeUp, Send, Fill, Post, Return, SetError
  <2> QED BY <2>1, <2>2
<1>3. client'[t] = client[t] \/ (t = u /\ thread[u] = "running" /\ UNCHANGED thread)
  <2>1. CASE Send(u) BY <2>1 DEF Send, Fill, IInv, TypeOK
  <2>2. CASE thread[u] = "running" /\ (Post(u) \/ Return(u))
    BY <2>2 DEF Post, Return, IInv, TypeOK
  <2>3. CASE UNCHANGED client BY <2>3
  <2> QED
    BY <2>1, <2>2, <2>3
       DEF ThreadStep, SetAliveStatus, WakeUp, SetError, SetThreadDone
<1>4. thread \in [Threads -> {"none", "born", "asleep", "running", "ending", "gone"}]
  BY DEF IInv, TypeOK
<1> QED BY <1>0, <1>1, <1>2, <1>3, <1>4 DEF ThreadKnown

LEMMA ThreadsKnownStep ==
    ASSUME IInv, [Next]_vars
    PROVE  ThreadsKnown'
<1> SUFFICES ASSUME NEW t \in Threads PROVE ThreadKnown(t)'
  BY DEF ThreadsKnown, ThreadKnown
<1>0. ThreadKnown(t) BY DEF IInv, ThreadsKnown, ThreadKnown
<1>1. CASE MainStep BY <1>1, MainThreads
<1>2. ASSUME NEW u \in Threads, ThreadStep(u) PROVE ThreadKnown(t)'
  BY <1>2, OwnThread
<1>3. ASSUME NEW s \in Slots, DriverStep(s) PROVE ThreadKnown(t)'
  BY <1>0, <1>3, DriverLeaves DEF ThreadKnown, threadVars, mainVars
<1>4. CASE Finish \/ UNCHANGED vars
  BY <1>0, <1>4
     DEF Finish, NoSlot, SlotsOnly, vars, slotVars, threadVars, mainVars, ThreadKnown
<1> QED BY <1>1, <1>2, <1>3, <1>4 DEF Next

-----------------------------------------------------------------------------
(* The system slot *)

NoShutdown == \A s \in Slots :
    mCmd[s] = ShutdownCmd \/ (inBox[s] # <<>> /\ inBox[s][1] = ShutdownCmd) =>
        s = System /\ Stopping
SystemSends ==
    /\ client[System] # "idle" => mainAt[1] \in {"dump", "shutdown"}
    /\ sent[System] <= CASE mainAt[1] \in {"dump", "shutdown"} ->
                              IF client[System] = "idle" THEN
                                  IF Stopping THEN 1 ELSE 0
                              ELSE IF Stopping THEN 2 ELSE 1
                         [] mainAt[1] = "scan" -> 1
                         [] mainAt[1] = "ended" -> 2
                         [] OTHER -> 0

\* Once main is stopping it goes on stopping.
LEMMA StoppingStays ==
    ASSUME MainStep, Stopping
    PROVE  Stopping'
<1> USE DEF MainGoes, Stopping
<1>1. CASE SystemCmd BY <1>1 DEF SystemCmd, mainVars
<1>2. CASE Open \/ NoWave BY <1>2 DEF Open, NoWave
<1>3. ASSUME NEW s \in Slots, InitMe(s) PROVE FALSE BY <1>3 DEF InitMe
<1>4. ASSUME NEW t \in Threads,
             ForkAThread(t) \/ IsAliveStatus(t) \/ SetActiveStatus(t) \/ AllThreadDone(t)
      PROVE  FALSE
  <2>1. CASE ForkAThread(t) BY <2>1 DEF ForkAThread
  <2>2. CASE IsAliveStatus(t) BY <2>2 DEF IsAliveStatus
  <2>3. CASE SetActiveStatus(t) BY <2>3 DEF SetActiveStatus
  <2>4. CASE AllThreadDone(t) BY <2>4 DEF AllThreadDone
  <2> QED BY <1>4, <2>1, <2>2, <2>3, <2>4
<1> QED BY <1>1, <1>2, <1>3, <1>4 DEF MainStep

LEMMA MainSystem ==
    ASSUME IInv, MainStep
    PROVE  SystemKnown'
<1> USE SlotFacts DEF MainGoes, MainOnly, threadVars, driverVars, slotVars, Set
<1>0. SystemSends /\ NoShutdown /\ (finish # "no" => Stopping)
  BY DEF IInv, SystemKnown, SystemSends, NoShutdown
<1>1. (finish # "no" => Stopping)'
  <2>1. UNCHANGED finish
    BY DEF MainStep, Open, SystemCmd, Fill, Post, Return, NoWave, InitMe, ForkAThread,
           IsAliveStatus, SetActiveStatus, AllThreadDone
  <2> QED BY <1>0, <2>1, StoppingStays
<1>2. NoShutdown'
  <2>1. UNCHANGED inBox
    BY DEF MainStep, Open, SystemCmd, Fill, Post, Return, NoWave, InitMe, ForkAThread,
           IsAliveStatus, SetActiveStatus, AllThreadDone
  <2>2. ASSUME NEW s \in Slots, mCmd'[s] = ShutdownCmd, mCmd[s] # ShutdownCmd
        PROVE  s = System /\ Stopping'
    <3>1. ~(\E u \in Slots : InitMe(u))
      BY <2>2 DEF InitMe, IInv, TypeOK, ShutdownCmd
    <3>2. SystemCmd
      BY <2>2, <3>1 DEF MainStep, Open, NoWave, ForkAThread, IsAliveStatus,
                        SetActiveStatus, AllThreadDone
    <3>3. Fill(System, ShutdownCmd) /\ mainAt = <<"shutdown", System>> /\ UNCHANGED mainAt
      BY <2>2, <3>2 DEF SystemCmd, Fill, Post, Return, IInv, TypeOK, Access, ShutdownCmd,
                        mainVars
    <3> QED BY <2>2, <3>3 DEF Fill, IInv, TypeOK, Stopping
  <2> QED BY <1>0, <2>1, <2>2, StoppingStays DEF NoShutdown
<1>3. SystemSends'
  <2>1. CASE Open BY <1>0, <2>1 DEF Open, SystemSends, Stopping
  <2>2. ASSUME NEW s \in Slots, InitMe(s) PROVE SystemSends'
    BY <1>0, <2>2 DEF InitMe, SystemSends, Stopping
  <2>3. ASSUME NEW t \in Threads, ForkAThread(t) PROVE SystemSends'
    BY <1>0, <2>3 DEF ForkAThread, SystemSends, Stopping
  <2>4. ASSUME NEW t \in Threads, IsAliveStatus(t) PROVE SystemSends'
    BY <1>0, <2>4 DEF IsAliveStatus, SystemSends, Stopping
  <2>5. ASSUME NEW t \in Threads, SetActiveStatus(t) PROVE SystemSends'
    BY <1>0, <2>5 DEF SetActiveStatus, SystemSends, Stopping
  <2>6. ASSUME NEW t \in Threads, AllThreadDone(t) PROVE SystemSends'
    <3>1. mainAt[1] = "scan" /\ mainAt'[1] \in {"scan", "shutdown"}
          /\ UNCHANGED <<client, sent>>
      BY <2>6 DEF AllThreadDone
    <3> QED BY <1>0, <3>1 DEF SystemSends, Stopping
  <2>7. CASE NoWave
    <3>1. sent[System] <= 0 => sent[System] <= 1 BY DEF IInv, TypeOK
    <3> QED BY <1>0, <2>7, <3>1 DEF NoWave, SystemSends, Stopping
  <2>8. CASE SystemCmd
    <3>1. client[System] \in {"idle", "filled", "waiting"} /\ sent[System] \in Nat
      BY DEF IInv, TypeOK
    <3>2. \/ mainAt[1] \in {"dump", "shutdown"} /\ UNCHANGED mainAt
             /\ (Fill(System, Access) \/ Fill(System, ShutdownCmd))
          \/ mainAt[1] \in {"dump", "shutdown"} /\ UNCHANGED mainAt /\ Post(System)
          \/ mainAt[1] = "dump" /\ mainAt'[1] = "scan" /\ Return(System)
          \/ mainAt[1] = "shutdown" /\ mainAt'[1] = "ended" /\ Return(System)
      BY <2>8 DEF SystemCmd, mainVars
    <3>3. ASSUME Fill(System, Access) \/ Fill(System, ShutdownCmd)
          PROVE  /\ client[System] = "idle" /\ client'[System] = "filled"
                 /\ sent'[System] = sent[System] + 1
      BY <3>3 DEF Fill, IInv, TypeOK
    <3>4. ASSUME Post(System)
          PROVE  /\ client[System] = "filled" /\ client'[System] = "waiting"
                 /\ sent'[System] = sent[System]
      BY <3>4 DEF Post, IInv, TypeOK
    <3>5. ASSUME Return(System)
          PROVE  /\ client[System] = "waiting" /\ client'[System] = "idle"
                 /\ sent'[System] = sent[System]
      BY <3>5 DEF Return, IInv, TypeOK
    <3> QED BY <1>0, <3>1, <3>2, <3>3, <3>4, <3>5 DEF SystemSends, Stopping
  <2> QED BY <2>1, <2>2, <2>3, <2>4, <2>5, <2>6, <2>7, <2>8 DEF MainStep
<1> QED BY <1>1, <1>2, <1>3 DEF SystemKnown, SystemSends, NoShutdown

LEMMA ThreadSystem ==
    ASSUME IInv, NEW t \in Threads, ThreadStep(t)
    PROVE  SystemKnown'
<1> USE SlotFacts
<1>1. UNCHANGED <<mainAt, inBox, finish, client[System], sent[System], mCmd[System]>>
  BY ThreadLeaves DEF mainVars, driverVars
<1>2. ASSUME NEW s \in Slots, mCmd'[s] = ShutdownCmd PROVE mCmd[s] = ShutdownCmd
  <2>1. CASE Send(t)
    <3>1. PICK op \in Ops : Fill(t, op) BY <2>1 DEF Send
    <3>2. op # ShutdownCmd
      BY CoSimAssumption DEF Access, Printf, Unsupported, ShutdownCmd
    <3> QED BY <1>2, <3>1, <3>2 DEF Fill, Set, IInv, TypeOK
  <2>2. CASE ~Send(t)
    <3>1. UNCHANGED mCmd
      BY <2>2 DEF ThreadStep, SetAliveStatus, WakeUp, Post, Return, SetError,
                  SetThreadDone, slotVars
    <3> QED BY <1>2, <3>1
  <2> QED BY <2>1, <2>2
<1> QED BY <1>1, <1>2 DEF IInv, SystemKnown, Stopping

LEMMA DriverSystem ==
    ASSUME IInv, NEW s \in Slots, DriverStep(s)
    PROVE  SystemKnown'
<1> USE SlotFacts DEF DriverGoes, Set
<1>0. UNCHANGED <<mainAt, client, sent, mCmd>>
  BY DriverLeaves DEF threadVars, mainVars
<1>1. NoShutdown /\ (finish # "no" => Stopping)
  BY DEF IInv, SystemKnown, NoShutdown
<1>2. CASE Fetch(s) \/ FetchShutdown(s)
  <2>1. inBox' = [inBox EXCEPT ![s] = <<mCmd[s], mPar[s]>>] /\ UNCHANGED finish
    BY <1>2 DEF Fetch, FetchShutdown
  <2>2. NoShutdown' BY <1>0, <1>1, <2>1 DEF NoShutdown, Stopping, IInv, TypeOK
  <2> QED BY <1>0, <1>1, <2>1, <2>2 DEF IInv, SystemKnown, NoShutdown, Stopping
<1>3. CASE processCmd(s)
  <2>0. inBox[s] = <<mCmd[s], mPar[s]>>
    BY <1>3 DEF processCmd, IInv, MailKnown, SlotKnown
  <2>1. inBox' = inBox
        \/ (inBox[s][1] # ShutdownCmd
            /\ \E x : inBox' = [inBox EXCEPT ![s] = <<inBox[s][1], x>>])
    BY <1>3 DEF processCmd, Access, ShutdownCmd
  <2>2. finish' = finish \/ inBox[s][1] = ShutdownCmd
    BY <1>3 DEF processCmd
  <2>3. NoShutdown'
    <3>1. CASE inBox' = inBox BY <1>0, <1>1, <3>1 DEF NoShutdown, Stopping
    <3>2. ASSUME inBox[s][1] # ShutdownCmd,
                 NEW x, inBox' = [inBox EXCEPT ![s] = <<inBox[s][1], x>>]
          PROVE  NoShutdown'
      <4>1. inBox'[s][1] # ShutdownCmd BY <3>2 DEF IInv, TypeOK
      <4>2. \A u \in Slots \ {s} : inBox'[u] = inBox[u] BY <3>2 DEF IInv, TypeOK
      <4> QED BY <1>0, <1>1, <4>1, <4>2 DEF NoShutdown, Stopping
    <3> QED BY <2>1, <3>1, <3>2
  <2>4. (finish # "no" => Stopping)'
    BY <1>0, <1>1, <2>0, <2>2 DEF NoShutdown, Stopping
  <2> QED BY <1>0, <2>3, <2>4 DEF IInv, SystemKnown, NoShutdown, Stopping
<1>4. CASE ~Fetch(s) /\ ~FetchShutdown(s) /\ ~processCmd(s)
  <2>1. UNCHANGED <<inBox, finish>>
    BY <1>4 DEF DriverStep, Attach, WaitTilStart, Enable, Poll, Check, FetchPrintf,
                Reply, AckStatus, AckValid
  <2> QED BY <1>0, <2>1 DEF IInv, SystemKnown, Stopping
<1> QED BY <1>2, <1>3, <1>4

LEMMA SystemKnownStep ==
    ASSUME IInv, [Next]_vars
    PROVE  SystemKnown'
<1>1. CASE Finish
  <2>1. UNCHANGED <<mainAt, client, sent, mCmd, inBox>> /\ finish = "soon"
    BY <1>1 DEF Finish, NoSlot, SlotsOnly, slotVars, threadVars, mainVars
  <2> QED BY <2>1 DEF IInv, SystemKnown, Stopping
<1>2. CASE UNCHANGED vars
  BY <1>2 DEF vars, slotVars, threadVars, mainVars, driverVars, IInv, SystemKnown,
              Stopping
<1> QED BY <1>1, <1>2, MainSystem, ThreadSystem, DriverSystem DEF Next

-----------------------------------------------------------------------------
(* The mailbox of a slot *)

Box(s) == <<driver[s], mCmdValid[s], client[s], served[s], sent[s], mPar[s], mCmd[s],
            inBox[s]>>

LEMMA SlotFrame ==
    ASSUME NEW s \in Slots, SlotKnown(s), Box(s)' = Box(s)
    PROVE  SlotKnown(s)'
BY DEF Box, SlotKnown, Requested, Answer

\* A step of slot s is enough to look at.
LEMMA OneSlot ==
    ASSUME IInv, NEW s \in Slots, SlotKnown(s)',
           \A u \in Slots \ {s} : Box(u)' = Box(u)
    PROVE  MailKnown'
BY SlotFrame DEF IInv, MailKnown

LEMMA ClientMail ==
    ASSUME IInv, NEW s \in Slots,
           \/ \E op \in {Access, Printf, Unsupported, ShutdownCmd} : Fill(s, op)
           \/ Post(s) \/ Return(s)
    PROVE  MailKnown'
<1> USE DEF Set, driverVars
<1>0. SlotKnown(s) BY DEF IInv, MailKnown
<1>1. ASSUME NEW op \in {Access, Printf, Unsupported, ShutdownCmd}, Fill(s, op)
      PROVE  MailKnown'
  <2>1. /\ client[s] = "idle" /\ client'[s] = "filled"
        /\ sent'[s] = sent[s] + 1 /\ mPar'[s] = <<"argument", sent[s] + 1>>
        /\ mCmd'[s] = op /\ UNCHANGED <<driver, mCmdValid, served, inBox>>
    BY <1>1 DEF Fill, IInv, TypeOK
  <2>2. op # "none" BY DEF Access, Printf, Unsupported, ShutdownCmd
  <2>3. SlotKnown(s)' BY <1>0, <2>1, <2>2 DEF SlotKnown, Requested, Busy, Late
  <2>4. \A u \in Slots \ {s} : Box(u)' = Box(u)
    BY <1>1, <2>1 DEF Fill, Box, IInv, TypeOK
  <2> QED BY <2>3, <2>4, OneSlot
<1>2. CASE Post(s)
  <2>1. /\ client[s] = "filled" /\ client'[s] = "waiting" /\ mCmdValid'[s] = TRUE
        /\ UNCHANGED <<driver, served, sent, mPar, mCmd, inBox>>
    BY <1>2 DEF Post, IInv, TypeOK
  <2>2. SlotKnown(s)' BY <1>0, <2>1 DEF SlotKnown, Requested, Busy, Late
  <2>3. \A u \in Slots \ {s} : Box(u)' = Box(u)
    BY <1>2, <2>1 DEF Post, Box, IInv, TypeOK
  <2> QED BY <2>2, <2>3, OneSlot
<1>3. CASE Return(s)
  <2>1. /\ client[s] = "waiting" /\ ~mCmdValid[s] /\ client'[s] = "idle"
        /\ UNCHANGED <<driver, mCmdValid, served, sent, mPar, mCmd, inBox>>
    BY <1>3 DEF Return, IInv, TypeOK
  <2>2. SlotKnown(s)' BY <1>0, <2>1 DEF SlotKnown, Busy, Late
  <2>3. \A u \in Slots \ {s} : Box(u)' = Box(u)
    BY <1>3, <2>1 DEF Return, Box, IInv, TypeOK
  <2> QED BY <2>2, <2>3, OneSlot
<1> QED BY <1>1, <1>2, <1>3

LEMMA ThreadMail ==
    ASSUME IInv, NEW t \in Threads, ThreadStep(t)
    PROVE  MailKnown'
<1>1. CASE Send(t) \/ Post(t) \/ Return(t)
  <2>1. Send(t) => \E op \in {Access, Printf, Unsupported, ShutdownCmd} : Fill(t, op)
    BY CoSimAssumption DEF Send
  <2> QED BY <1>1, <2>1, ClientMail, SlotFacts
<1>2. CASE ~Send(t) /\ ~Post(t) /\ ~Return(t)
  <2>1. UNCHANGED <<driver, mCmdValid, client, served, sent, mPar, mCmd, inBox>>
    BY <1>2, ThreadLeaves
       DEF ThreadStep, SetAliveStatus, WakeUp, SetError, SetThreadDone, ThreadOnly,
           driverVars, slotVars
  <2> QED BY <2>1, SlotFrame DEF IInv, MailKnown, Box
<1> QED BY <1>1, <1>2

LEMMA MainMail ==
    ASSUME IInv, MainStep
    PROVE  MailKnown'
<1> USE SlotFacts
<1>1. CASE SystemCmd
  BY <1>1, ClientMail DEF SystemCmd
<1>2. ASSUME NEW s \in Slots, InitMe(s) PROVE MailKnown'
  <2>1. client[s] = "idle"
    BY <1>2 DEF InitMe, MainGoes, IInv, ThreadsKnown, ThreadKnown, SystemKnown
  <2>2. /\ mCmdValid'[s] = FALSE
        /\ UNCHANGED <<driver, client, served, sent, inBox>>
    BY <1>2 DEF InitMe, MainOnly, threadVars, driverVars, Set, IInv, TypeOK
  <2>3. SlotKnown(s)'
    BY <2>1, <2>2 DEF IInv, MailKnown, SlotKnown, Busy, Late
  <2>4. \A u \in Slots \ {s} : Box(u)' = Box(u)
    BY <1>2, <2>2 DEF InitMe, Set, Box, IInv, TypeOK
  <2> QED BY <2>3, <2>4, OneSlot
<1>3. CASE ~SystemCmd /\ ~\E s \in Slots : InitMe(s)
  <2>1. UNCHANGED <<driver, mCmdValid, client, served, sent, mPar, mCmd, inBox>>
    BY <1>3 DEF MainStep, Open, NoWave, ForkAThread, IsAliveStatus, SetActiveStatus,
                AllThreadDone, MainOnly, threadVars, driverVars, slotVars
  <2> QED BY <2>1, SlotFrame DEF IInv, MailKnown, Box
<1> QED BY <1>1, <1>2, <1>3

LEMMA DriverMail ==
    ASSUME IInv, NEW s \in Slots, DriverStep(s)
    PROVE  MailKnown'
<1> USE DEF DriverGoes, Set, SlotsOnly, NoSlot, slotVars
<1>0. SlotKnown(s) /\ UNCHANGED <<client, sent, mCmd>>
  BY DriverLeaves DEF IInv, MailKnown, threadVars
<1>1. \A u \in Slots \ {s} : Box(u)' = Box(u)
  <2>1. CASE Attach(s) \/ WaitTilStart(s) \/ Enable(s) \/ Poll(s) \/ Check(s)
    BY <1>0, <2>1 DEF Attach, WaitTilStart, Enable, Poll, Check, Box, IInv, TypeOK
  <2>2. CASE FetchPrintf(s) \/ Fetch(s)
    BY <1>0, <2>2 DEF FetchPrintf, Fetch, Box, IInv, TypeOK
  <2>3. CASE FetchShutdown(s) BY <1>0, <2>3 DEF FetchShutdown, Box, IInv, TypeOK
  <2>4. CASE processCmd(s) BY <1>0, <2>4 DEF processCmd, Box, IInv, TypeOK
  <2>5. CASE Reply(s) \/ AckStatus(s) \/ AckValid(s)
    BY <1>0, <2>5 DEF Reply, AckStatus, AckValid, Box, IInv, TypeOK
  <2> QED BY <2>1, <2>2, <2>3, <2>4, <2>5 DEF DriverStep
<1>2. SlotKnown(s)'
  <2>0. served[s] \in Nat /\ sent[s] \in Nat BY DEF IInv, TypeOK
  <2>1. CASE Attach(s) \/ WaitTilStart(s) \/ Enable(s) \/ Poll(s) \/ Check(s)
    <3>1. /\ driver[s] \notin Busy
          /\ driver'[s] \in Busy => driver'[s] = "fetch" /\ mCmdValid[s]
          /\ UNCHANGED <<served, mCmdValid, mPar, inBox>>
      BY <2>1 DEF Attach, WaitTilStart, Enable, Poll, Check, Busy, IInv, TypeOK
    <3> QED BY <1>0, <3>1 DEF SlotKnown, Requested, Answer, Busy, Late
  <2>2. CASE FetchPrintf(s)
    <3>1. /\ driver[s] = "fetch" /\ driver'[s] = "status" /\ mCmd[s] = Printf
          /\ served'[s] = served[s] + 1 /\ UNCHANGED <<mCmdValid, mPar, inBox>>
      BY <2>2 DEF FetchPrintf, IInv, TypeOK
    <3> QED BY <1>0, <2>0, <3>1
            DEF SlotKnown, Requested, Answer, Busy, Late, Access, Printf
  <2>3. CASE Fetch(s) \/ FetchShutdown(s)
    <3>1. /\ driver[s] = "fetch" /\ driver'[s] = "execute" /\ mCmd[s] # Printf
          /\ inBox'[s] = <<mCmd[s], mPar[s]>> /\ UNCHANGED <<served, mCmdValid, mPar>>
      BY <2>3 DEF Fetch, FetchShutdown, IInv, TypeOK, Printf, ShutdownCmd
    <3> QED BY <1>0, <3>1 DEF SlotKnown, Requested, Answer, Busy, Late
  <2>4. CASE processCmd(s)
    <3>1. /\ driver[s] = "execute" /\ driver'[s] = "reply"
          /\ served'[s] = served[s] + 1 /\ UNCHANGED <<mCmdValid, mPar>>
      BY <2>4 DEF processCmd, IInv, TypeOK
    <3>2. /\ inBox[s] = <<mCmd[s], mPar[s]>> /\ mPar[s] = <<"argument", sent[s]>>
          /\ served[s] + 1 = sent[s] /\ mCmdValid[s] /\ client[s] = "waiting"
          /\ mCmd[s] # "none"
      BY <1>0, <3>1 DEF SlotKnown, Requested, Busy, Late
    <3>3. inBox'[s] = <<mCmd[s], Answer(s)>>
      BY <2>4, <3>2 DEF processCmd, Executed, Answer, IInv, TypeOK
    <3> QED BY <1>0, <3>1, <3>2, <3>3 DEF SlotKnown, Answer, Busy, Late
  <2>5. CASE Reply(s)
    <3>1. /\ driver[s] = "reply" /\ driver'[s] = "status" /\ mPar'[s] = inBox[s][2]
          /\ UNCHANGED <<served, mCmdValid, inBox>>
      BY <2>5 DEF Reply, IInv, TypeOK
    <3> QED BY <1>0, <3>1 DEF SlotKnown, Answer, Busy, Late
  <2>6. CASE AckStatus(s)
    <3>1. /\ driver[s] = "status" /\ driver'[s] = "valid"
          /\ UNCHANGED <<served, mCmdValid, mPar, inBox>>
      BY <2>6 DEF AckStatus, IInv, TypeOK
    <3> QED BY <1>0, <3>1 DEF SlotKnown, Answer, Busy, Late
  <2>7. CASE AckValid(s)
    <3>1. /\ driver[s] = "valid" /\ driver'[s] \in {"poll", "stopped"}
          /\ mCmdValid'[s] = FALSE /\ UNCHANGED <<served, mPar, inBox>>
      BY <2>7 DEF AckValid, IInv, TypeOK
    <3> QED BY <1>0, <3>1 DEF SlotKnown, Answer, Busy, Late
  <2> QED BY <2>1, <2>2, <2>3, <2>4, <2>5, <2>6, <2>7 DEF DriverStep
<1> QED BY <1>1, <1>2, OneSlot

LEMMA MailKnownStep ==
    ASSUME IInv, [Next]_vars
    PROVE  MailKnown'
<1>1. CASE Finish \/ UNCHANGED vars
  <2>1. UNCHANGED <<driver, mCmdValid, client, served, sent, mPar, mCmd, inBox>>
    BY <1>1 DEF Finish, NoSlot, SlotsOnly, vars, driverVars, threadVars, slotVars
  <2> QED BY <2>1, SlotFrame DEF IInv, MailKnown, Box
<1> QED BY <1>1, MainMail, ThreadMail, DriverMail DEF Next

LEMMA Invariant == ASSUME Stale = FALSE PROVE Spec => []IInv
<1>1. IInv /\ [Next]_vars => IInv'
  <2> SUFFICES ASSUME IInv, [Next]_vars PROVE IInv' OBVIOUS
  <2> QED BY TypeStep, MainKnownStep, ThreadsKnownStep, SystemKnownStep, MailKnownStep
          DEF IInv
<1> QED BY InvInit, <1>1, PTL DEF Spec

\* Mailbox, threads, main and drivers keep their types, for any number of threads
\* and commands (shIpc.cc, shPthread.cc, vpp2shMem.cc).
THEOREM CoSimTyped == ASSUME Stale = FALSE PROVE Spec => []TypeOK
<1>1. IInv => TypeOK BY DEF IInv
<1> QED BY Invariant, <1>1, PTL

\* The simulation is told to end only when no thread waits for a driver any more,
\* for any number of threads (AllThreadDone and Shutdown of shPthread.cc).
THEOREM NobodyAbandoned == ASSUME Stale = FALSE PROVE Spec => []NoneAbandoned
<1>1. IInv => NoneAbandoned
  BY DEF IInv, SystemKnown, ThreadsKnown, ThreadKnown, Stopping, NoneAbandoned
<1> QED BY Invariant, <1>1, PTL

\* On a fresh segment a driver executes nothing that was not sent.
THEOREM FreshServesOwn == ASSUME Stale = FALSE PROVE Spec => []OwnCommandsOnly
<1>1. IInv => OwnCommandsOnly
  <2> SUFFICES ASSUME IInv, NEW s \in Slots PROVE served[s] <= sent[s]
    BY DEF OwnCommandsOnly
  <2>1. served[s] \in Nat /\ sent[s] \in Nat /\ client[s] \in {"idle", "filled", "waiting"}
    BY DEF IInv, TypeOK
  <2>2. SlotKnown(s) BY DEF IInv, MailKnown
  <2>3. served[s] = sent[s] \/ served[s] + 1 = sent[s]
    BY <2>1, <2>2 DEF SlotKnown, Requested, Late
  <2> QED BY <2>1, <2>3
<1> QED BY Invariant, <1>1, PTL

-----------------------------------------------------------------------------
(* What main reports *)

\* The threads main has taken off its table, and read the count of.
Gathered == IF mainAt[1] \in {"scan", "shutdown", "ended"}
            THEN Threads \ globalThreadStatus ELSE {}

\* Main has added up just their errors, and the pass that ends the scan has
\* found no thread on the table.
Tallied ==
    /\ IsFiniteSet(Errors(Gathered)) /\ total = Cardinality(Errors(Gathered))
    /\ mainAt[1] = "scan" /\ allDone =>
           \A t \in Threads : t < mainAt[2] => t \notin globalThreadStatus
    /\ Stopping => globalThreadStatus = {}

LEMMA OneMore ==
    ASSUME NEW T, NEW t, t \notin T, mErrCnt[t] \in Nat, IsFiniteSet(Errors(T))
    PROVE  /\ IsFiniteSet(Errors(T \cup {t}))
           /\ Cardinality(Errors(T \cup {t})) = Cardinality(Errors(T)) + mErrCnt[t]
<1> DEFINE E == {t} \X (1 .. mErrCnt[t])
<1>1. IsFiniteSet(1 .. mErrCnt[t]) /\ Cardinality(1 .. mErrCnt[t]) = mErrCnt[t]
  <2> DEFINE n == mErrCnt[t]
  <2>1. n \in Nat OBVIOUS
  <2> HIDE DEF n
  <2>2. /\ IsFiniteSet(1 .. n)
        /\ Cardinality(1 .. n) = IF 1 > n THEN 0 ELSE n - 1 + 1
    <3>1. 1 \in Int /\ n \in Int BY <2>1
    <3> QED BY <3>1, FS_Interval
  <2>3. (IF 1 > n THEN 0 ELSE n - 1 + 1) = n BY <2>1
  <2>4. IsFiniteSet(1 .. n) /\ Cardinality(1 .. n) = n BY <2>2, <2>3
  <2> QED BY <2>4 DEF n
<1>2. IsFiniteSet({t}) /\ Cardinality({t}) = 1
  BY FS_Singleton
<1>3. IsFiniteSet(E) /\ Cardinality(E) = mErrCnt[t]
  <2>1. IsFiniteSet(E) /\ Cardinality(E) = Cardinality({t}) * Cardinality(1 .. mErrCnt[t])
    BY <1>1, <1>2, FS_Product
  <2> QED BY <1>1, <1>2, <2>1
<1>4. Errors(T \cup {t}) = Errors(T) \cup E
  BY DEF Errors
<1>5. Errors(T) \cap E = {}
  BY DEF Errors
<1> HIDE DEF E
<1>6. Cardinality(Errors(T) \cap E) = 0
  BY <1>5, FS_EmptySet
<1>7. /\ IsFiniteSet(Errors(T) \cup E)
      /\ Cardinality(Errors(T) \cup E) =
             Cardinality(Errors(T)) + Cardinality(E) - Cardinality(Errors(T) \cap E)
  BY <1>3, FS_Union
<1>8. Cardinality(Errors(T)) \in Nat
  BY FS_CardinalityType
<1>9. \A a, b \in Nat : a + b - 0 = a + b
  OBVIOUS
<1>10. Cardinality(Errors(T) \cup E) = Cardinality(Errors(T)) + mErrCnt[t]
  BY <1>3, <1>6, <1>7, <1>8, <1>9, Zenon
<1> QED BY <1>4, <1>7, <1>10, Zenon

\* A thread main has read is gone, and its count is final.
LEMMA CountsFinal ==
    ASSUME IInv, [Next]_vars, NEW t \in Gathered
    PROVE  mErrCnt'[t] = mErrCnt[t]
<1> USE SlotFacts
<1>1. /\ t \in Threads /\ t \in Slots /\ t # System /\ thread[t] = "gone"
      /\ mainAt[1] \in {"scan", "shutdown", "ended"}
  BY DEF Gathered, IInv, ThreadsKnown, ThreadKnown
<1>2. mErrCnt \in [Slots -> Nat] BY DEF IInv, TypeOK
<1>3. CASE MainStep
  <2>1. CASE SystemCmd
    BY <1>1, <1>2, <2>1 DEF SystemCmd, Fill, Post, Return, Set
  <2>2. ~\E s \in Slots : InitMe(s)
    <3>1. ASSUME NEW s \in Slots, InitMe(s) PROVE FALSE
      <4>1. mainAt = <<"init", s>> BY <3>1, Zenon DEF InitMe, MainGoes
      <4> QED BY <1>1, <4>1
    <3> QED BY <3>1
  <2>3. CASE ~SystemCmd
    BY <1>3, <2>2, <2>3
       DEF MainStep, Open, NoWave, ForkAThread, IsAliveStatus, SetActiveStatus,
           AllThreadDone, slotVars
  <2> QED BY <2>1, <2>3
<1>4. ASSUME NEW u \in Threads, ThreadStep(u) PROVE mErrCnt'[t] = mErrCnt[t]
  <2>1. thread[u] \in {"running", "born", "asleep", "ending"}
    BY <1>4 DEF ThreadStep, SetAliveStatus, WakeUp, Send, SetError, SetThreadDone,
                ThreadGoes
  <2>2. u # t BY <1>1, <2>1
  <2>3. \/ UNCHANGED mErrCnt
        \/ \E n : mErrCnt' = [mErrCnt EXCEPT ![u] = n]
    BY <1>4 DEF ThreadStep, SetAliveStatus, WakeUp, Send, Fill, Post, Return, SetError,
                SetThreadDone, Set, slotVars
  <2> QED BY <1>1, <1>2, <2>2, <2>3
<1>5. ASSUME NEW s \in Slots, DriverStep(s) PROVE mErrCnt'[t] = mErrCnt[t]
  BY <1>5, DriverLeaves
<1>6. CASE Finish \/ UNCHANGED vars
  BY <1>6 DEF Finish, NoSlot, vars, slotVars
<1> QED BY <1>3, <1>4, <1>5, <1>6 DEF Next

\* Main's table is as it was, but for the one thread main has found done.
LEMMA TableMoves ==
    ASSUME IInv, [Next]_vars, ~\E t \in Threads : AllThreadDone(t)
    PROVE  /\ Gathered' = Gathered /\ total' = total
           /\ Stopping' => Stopping
           /\ Stopping => globalThreadStatus' = globalThreadStatus
           /\ mainAt'[1] = "scan" => \/ UNCHANGED <<mainAt, allDone, globalThreadStatus>>
                                    \/ mainAt'[2] = 0
<1> USE SlotFacts DEF Gathered, Stopping
<1>1. CASE UNCHANGED mainVars BY <1>1 DEF mainVars
<1>2. CASE MainStep
  <2>1. mainAt[1] = "dump" => Threads \ globalThreadStatus = {}
    BY DEF IInv, ThreadsKnown, ThreadKnown
  <2>2. CASE SystemCmd
    <3>1. UNCHANGED <<keyFile, globalThreadStatus, total, allDone>>
      BY <2>2 DEF SystemCmd, mainVars
    <3>2. \/ UNCHANGED mainAt
          \/ mainAt[1] = "dump" /\ mainAt'[1] = "scan" /\ mainAt'[2] = 0
          \/ mainAt[1] = "shutdown" /\ mainAt'[1] = "ended"
      BY <2>2 DEF SystemCmd, mainVars
    <3> QED BY <2>1, <3>1, <3>2
  <2>3. CASE NoWave BY <2>1, <2>3 DEF NoWave, MainGoes
  <2>4. CASE Open BY <2>4 DEF Open, MainGoes
  <2>5. ASSUME NEW s \in Slots, InitMe(s)
        PROVE  /\ mainAt[1] = "init" /\ mainAt'[1] \in {"init", "fork"}
               /\ total' = total
    BY <2>5 DEF InitMe, MainGoes
  <2>6. ASSUME NEW t \in Threads,
               ForkAThread(t) \/ IsAliveStatus(t) \/ SetActiveStatus(t)
        PROVE  /\ mainAt[1] \in {"fork", "alive", "active"} /\ total' = total
               /\ \/ mainAt'[1] \in {"fork", "alive", "active"}
                  \/ mainAt'[1] = "dump"
    BY <2>6 DEF ForkAThread, IsAliveStatus, SetActiveStatus, MainGoes
  <2> QED BY <1>2, <2>2, <2>3, <2>4, <2>5, <2>6 DEF MainStep
<1>3. ASSUME NEW t \in Threads, ThreadStep(t) PROVE UNCHANGED mainVars
  BY <1>3, ThreadLeaves
<1>4. ASSUME NEW s \in Slots, DriverStep(s) PROVE UNCHANGED mainVars
  BY <1>4, DriverLeaves
<1>5. Finish \/ UNCHANGED vars => UNCHANGED mainVars
  BY DEF Finish, NoSlot, SlotsOnly, vars, mainVars
<1> QED BY <1>1, <1>2, <1>3, <1>4, <1>5 DEF Next

LEMMA TalliedStep ==
    ASSUME IInv, Tallied, [Next]_vars
    PROVE  Tallied'
<1> USE SlotFacts
<1>0. \A T : (\A t \in T : mErrCnt'[t] = mErrCnt[t]) => Errors(T)' = Errors(T)
  BY DEF Errors
<1>1. Errors(Gathered)' = UNION {{t} \X (1 .. mErrCnt'[t]) : t \in Gathered'}
  BY DEF Errors
<1>2. UNION {{t} \X (1 .. mErrCnt'[t]) : t \in Gathered} = Errors(Gathered)
  BY CountsFinal DEF Errors
<1>3. CASE ~\E t \in Threads : AllThreadDone(t)
  <2>1. Errors(Gathered)' = Errors(Gathered) /\ total' = total
    BY <1>1, <1>2, <1>3, TableMoves
  <2>2. mainAt'[1] = "scan" /\ allDone' =>
           \A t \in Threads : t < mainAt'[2] => t \notin globalThreadStatus'
    <3>1. \A t \in Threads : ~(t < 0) BY DEF Threads
    <3> QED BY <1>3, <3>1, TableMoves DEF Tallied
  <2>3. Stopping' => globalThreadStatus' = {}
    BY <1>3, TableMoves DEF Tallied
  <2> QED BY <2>1, <2>2, <2>3 DEF Tallied
<1>4. ASSUME NEW t \in Threads, AllThreadDone(t) PROVE Tallied'
  <2> DEFINE done == t \in globalThreadStatus /\ mThreadDone[t]
             all == allDone /\ (t \in globalThreadStatus => mThreadDone[t])
             G == globalThreadStatus \ IF done THEN {t} ELSE {}
  <2>1. /\ mainAt = <<"scan", t>> /\ UNCHANGED mErrCnt
        /\ globalThreadStatus' = G
        /\ total' = total + IF done THEN mErrCnt[t] ELSE 0
        /\ mainAt' = IF t + 1 \in Threads THEN <<"scan", t + 1>>
                     ELSE IF all THEN <<"shutdown", System>> ELSE <<"scan", 0>>
        /\ allDone' = IF mainAt' = <<"scan", 0>> THEN TRUE ELSE all
    BY <1>4 DEF AllThreadDone, MainGoes, slotVars
  <2>2. /\ Gathered = Threads \ globalThreadStatus
        /\ Gathered' = IF done THEN Gathered \cup {t} ELSE Gathered
    BY <2>1 DEF Gathered
  <2>3. IsFiniteSet(Errors(Gathered)) /\ total = Cardinality(Errors(Gathered))
    BY DEF Tallied
  <2>4. Errors(Gathered)' = IF done THEN Errors(Gathered \cup {t}) ELSE Errors(Gathered)
    BY <1>1, <2>1, <2>2 DEF Errors
  <2>5. IsFiniteSet(Errors(Gathered)') /\ total' = Cardinality(Errors(Gathered)')
    <3>1. CASE done
      <4>1. t \notin Gathered BY <2>2, <3>1
      <4>2. mErrCnt[t] \in Nat BY DEF IInv, TypeOK
      <4>3. /\ IsFiniteSet(Errors(Gathered \cup {t}))
            /\ Cardinality(Errors(Gathered \cup {t}))
                   = Cardinality(Errors(Gathered)) + mErrCnt[t]
        BY <2>3, <4>1, <4>2, OneMore
      <4> QED BY <2>1, <2>3, <2>4, <3>1, <4>3
    <3>2. CASE ~done
      <4>1. total \in Nat BY DEF IInv, TypeOK
      <4> QED BY <2>1, <2>3, <2>4, <3>2, <4>1
    <3> QED BY <3>1, <3>2
  <2>6. all => \A u \in Threads : u <= t => u \notin globalThreadStatus'
    <3>1. ASSUME all, NEW u \in Threads, u <= t PROVE u \notin G
      <4>1. CASE u = t BY <3>1, <4>1
      <4>2. CASE u # t
        <5>1. u < t BY <3>1, <4>2 DEF Threads
        <5> QED BY <2>1, <3>1, <5>1 DEF Tallied
      <4> QED BY <4>1, <4>2
    <3> QED BY <2>1, <3>1
  <2> HIDE DEF done, all, G
  <2>7. mainAt'[1] = "scan" /\ allDone' =>
           \A u \in Threads : u < mainAt'[2] => u \notin globalThreadStatus'
    <3>1. \A u \in Threads : ~(u < 0) /\ (u < t + 1 => u <= t) BY DEF Threads
    <3>2. CASE mainAt' = <<"scan", t + 1>> /\ t + 1 \in Threads
      <4>1. t + 1 # 0 BY DEF Threads
      <4>2. mainAt' # <<"scan", 0>> /\ mainAt'[2] = t + 1 BY <3>2, <4>1
      <4>3. allDone' = all BY <2>1, <4>2, Zenon
      <4> QED BY <2>6, <3>1, <4>2, <4>3
    <3>3. CASE mainAt' = <<"scan", 0>> BY <3>1, <3>3
    <3>4. CASE mainAt' = <<"shutdown", System>> BY <3>4
    <3> QED BY <2>1, <3>2, <3>3, <3>4
  <2>8. Stopping' => globalThreadStatus' = {}
    <3>1. ASSUME Stopping' PROVE t + 1 \notin Threads /\ all
      BY <2>1, <3>1 DEF Stopping
    <3>2. globalThreadStatus' \subseteq Threads
      BY <2>1 DEF G, IInv, TypeOK
    <3> QED BY <2>6, <3>1, <3>2
  <2> QED BY <2>5, <2>7, <2>8 DEF Tallied
<1> QED BY <1>3, <1>4

\* On a fresh segment main reports every error a thread has counted, and none
\* twice, however the threads' last steps fall between main's passes over the
\* table.
THEOREM ErrorsAllCounted == ASSUME Stale = FALSE PROVE Spec => []ErrorsCounted
<1>1. Init => Tallied
  <2> SUFFICES ASSUME Init PROVE Tallied OBVIOUS
  <2>1. Errors(Gathered) = {} /\ total = 0 BY DEF Init, Gathered, Errors
  <2> QED BY <2>1, FS_EmptySet DEF Init, Tallied, Stopping
<1>2. IInv /\ Tallied /\ [Next]_vars => Tallied'
  BY TalliedStep
<1>3. Tallied => ErrorsCounted
  <2> SUFFICES ASSUME Tallied, Stopping PROVE total = Cardinality(Errors(Threads))
    BY DEF ErrorsCounted, Stopping
  <2>1. Gathered = Threads BY DEF Tallied, Stopping, Gathered
  <2> QED BY <2>1 DEF Tallied
<1> QED BY <1>1, <1>2, <1>3, Invariant, PTL DEF Spec

-----------------------------------------------------------------------------
(* A slot implements MailService *)

Request(s) == IF Pending(s) THEN <<mCmd[s], sent[s]>> ELSE <<>>
Returned(s) == IF Answered(s) THEN Answer(s) ELSE <<>>
RequestBox == [s \in Slots |-> Request(s)]
ReturnBox == [s \in Slots |->
    IF ~Answered(s) THEN <<>>
    ELSE IF driver[s] = "reply" THEN inBox[s][2] ELSE mPar[s]]

\* Wherever the answer is on its way, it is the answer to the command.
LEMMA AnswerKnown == IInv => ReturnBox = [s \in Slots |-> Returned(s)]
<1> SUFFICES ASSUME IInv, NEW s \in Slots PROVE ReturnBox[s] = Returned(s)
  BY DEF ReturnBox
<1>1. SlotKnown(s) /\ served[s] \in Nat /\ sent[s] \in Nat
  BY DEF IInv, MailKnown, TypeOK
<1>2. CASE Answered(s)
  <2>1. client[s] = "waiting" /\ served[s] = sent[s] BY <1>2 DEF Answered
  <2>2. ~mCmdValid[s] \/ driver[s] \in Late
    BY <1>1, <2>1 DEF SlotKnown, Requested
  <2>3. driver[s] = "reply" => inBox[s][2] = Answer(s)
    BY <1>1 DEF SlotKnown
  <2>4. driver[s] # "reply" => mPar[s] = Answer(s)
    BY <1>1, <2>1, <2>2 DEF SlotKnown, Late
  <2> QED BY <1>2, <2>3, <2>4 DEF ReturnBox, Returned
<1>3. CASE ~Answered(s)
  <2>1. ReturnBox[s] = <<>> BY <1>3 DEF ReturnBox
  <2> QED BY <1>3, <2>1 DEF Returned
<1> QED BY <1>2, <1>3

LEMMA AnswerKnownNext == IInv' => (ReturnBox = [s \in Slots |-> Returned(s)])'
BY AnswerKnown, PTL

LEMMA InitMails == ASSUME Stale = FALSE PROVE Init => Mail!MailInit
<1> SUFFICES ASSUME Init PROVE Mail!MailInit OBVIOUS
<1>1. \A s \in Slots : client[s] = "idle" BY DEF Init
<1>2. \A s \in Slots : ~Pending(s) /\ ~Answered(s) BY <1>1 DEF Pending, Answered
<1>3. RequestBox = [s \in Slots |-> <<>>] BY <1>2 DEF RequestBox, Request
<1>4. ReturnBox = [s \in Slots |-> <<>>] BY <1>2 DEF ReturnBox
<1> QED BY <1>3, <1>4 DEF Init, Mail!MailInit, RequestBox, ReturnBox, Request

\* What the thread sees of slot s depends on these alone.
Key(s) == <<client[s], served[s], sent[s], mCmd[s]>>

LEMMA KeyKept ==
    ASSUME NEW s \in Slots, Key(s)' = Key(s)
    PROVE  Request(s)' = Request(s) /\ Returned(s)' = Returned(s)
BY DEF Key, Request, Returned, Pending, Answered, Answer

LEMMA NotWaiting ==
    ASSUME NEW s \in Slots, client[s] # "waiting"
    PROVE  Request(s) = <<>> /\ Returned(s) = <<>>
BY DEF Request, Returned, Pending, Answered

\* A step that changes what is seen of at most one slot, and how.
LEMMA PostAsks ==
    ASSUME IInv, IInv', NEW s \in Slots, Post(s)
    PROVE  Mail!Ask(s)
<1>1. /\ client[s] = "filled" /\ client'[s] = "waiting"
      /\ UNCHANGED <<served, sent, mCmd>>
      /\ \A u \in Slots \ {s} : Key(u)' = Key(u)
  BY DEF Post, Set, driverVars, Key, IInv, TypeOK
<1>2. served[s] + 1 = sent[s] /\ mCmd[s] # "none" /\ served[s] \in Nat
  BY <1>1 DEF IInv, MailKnown, SlotKnown, Requested, TypeOK
<1>3. Request(s)' = <<mCmd[s], sent[s]>> /\ Returned(s)' = <<>>
  BY <1>1, <1>2 DEF Request, Returned, Pending, Answered
<1>4. Request(s) = <<>> /\ Returned(s) = <<>> BY <1>1, NotWaiting
<1>5. Request(s)' \in {Access, Printf, Unsupported, ShutdownCmd} \X (0 .. MaxCmds + 2)
  BY <1>2, <1>3 DEF IInv, TypeOK
<1>6. RequestBox' = [RequestBox EXCEPT ![s] = RequestBox'[s]]
  BY <1>1, KeyKept DEF RequestBox
<1>7. ReturnBox' = ReturnBox
  <2>1. \A u \in Slots : Returned(u)' = Returned(u) BY <1>1, <1>3, <1>4, KeyKept
  <2> QED BY <2>1, AnswerKnown, AnswerKnownNext
<1>8. RequestBox[s] = <<>> /\ ReturnBox[s] = <<>> BY <1>4, AnswerKnown DEF RequestBox
<1>9. RequestBox'[s] = Request(s)' BY DEF RequestBox
<1> QED BY <1>1, <1>5, <1>6, <1>7, <1>8, <1>9 DEF Mail!Ask, RequestBox, ReturnBox, Request

LEMMA ReturnTakes ==
    ASSUME IInv, IInv', NEW s \in Slots, Return(s)
    PROVE  Mail!Take(s)
<1>1. /\ client[s] = "waiting" /\ ~mCmdValid[s] /\ client'[s] = "idle"
      /\ UNCHANGED <<served, sent, mCmd>>
      /\ \A u \in Slots \ {s} : Key(u)' = Key(u)
  BY DEF Return, Set, driverVars, Key, IInv, TypeOK
<1>2. served[s] = sent[s] BY <1>1 DEF IInv, MailKnown, SlotKnown
<1>3. Request(s) = <<>> /\ Returned(s) = Answer(s)
  BY <1>1, <1>2 DEF Request, Returned, Pending, Answered
<1>4. Request(s)' = <<>> /\ Returned(s)' = <<>>
  BY <1>1 DEF Request, Returned, Pending, Answered
<1>5. RequestBox' = RequestBox
  <2>1. \A u \in Slots : Request(u)' = Request(u) BY <1>1, <1>3, <1>4, KeyKept
  <2> QED BY <2>1 DEF RequestBox
<1>6. ReturnBox' = [ReturnBox EXCEPT ![s] = <<>>]
  BY <1>1, <1>4, KeyKept, AnswerKnown, AnswerKnownNext
<1>7. ReturnBox[s] # <<>> BY <1>3, AnswerKnown DEF Answer
<1> QED BY <1>1, <1>5, <1>6, <1>7 DEF Mail!Take, RequestBox, ReturnBox, Request

\* The driver executes a command.
LEMMA ServeServes ==
    ASSUME IInv, IInv', NEW s \in Slots, FetchPrintf(s) \/ processCmd(s)
    PROVE  Mail!Serve(s)
<1>1. /\ driver[s] \in {"fetch", "execute"} /\ served' = [served EXCEPT ![s] = served[s] + 1]
      /\ UNCHANGED <<client, sent, mCmd>>
  BY DEF FetchPrintf, processCmd, DriverGoes, NoSlot, SlotsOnly, slotVars, threadVars,
         Set
<1>2. /\ client[s] = "waiting" /\ served[s] + 1 = sent[s]
      /\ served[s] \in Nat /\ sent[s] \in Nat
  <2>1. SlotKnown(s) BY DEF IInv, MailKnown
  <2>2. client[s] = "waiting" /\ served[s] + 1 = sent[s]
    BY <1>1, <2>1 DEF SlotKnown, Requested, Busy, Late
  <2> QED BY <2>2 DEF IInv, TypeOK
<1>3. served'[s] = sent[s] /\ \A u \in Slots \ {s} : Key(u)' = Key(u)
  BY <1>1, <1>2 DEF IInv, TypeOK, Key
<1>4. Request(s) = <<mCmd[s], sent[s]>> /\ Returned(s) = <<>>
  BY <1>2 DEF Request, Returned, Pending, Answered
<1>5. Request(s)' = <<>> /\ Returned(s)' = Answer(s)
  BY <1>1, <1>2, <1>3 DEF Request, Returned, Pending, Answered, Answer
<1>6. RequestBox' = [RequestBox EXCEPT ![s] = <<>>]
  BY <1>3, <1>5, KeyKept DEF RequestBox
<1>7. ReturnBox' = [ReturnBox EXCEPT ![s] = Answer(s)]
  BY <1>3, <1>5, KeyKept, AnswerKnown, AnswerKnownNext
<1>8. RequestBox[s] = <<mCmd[s], sent[s]>> BY <1>4 DEF RequestBox
<1> QED
  BY <1>1, <1>6, <1>7, <1>8 DEF Mail!Serve, RequestBox, ReturnBox, Request, Answer

\* Every other step leaves what the threads see as it is.
LEMMA Unseen ==
    ASSUME IInv, IInv',
           \A s \in Slots : \/ Key(s)' = Key(s)
                            \/ client[s] # "waiting" /\ client'[s] # "waiting",
           UNCHANGED served
    PROVE  UNCHANGED Mail!mailVars
<1>1. \A s \in Slots : Request(s)' = Request(s) /\ Returned(s)' = Returned(s)
  <2> SUFFICES ASSUME NEW s \in Slots
               PROVE  Request(s)' = Request(s) /\ Returned(s)' = Returned(s)
    OBVIOUS
  <2>1. CASE Key(s)' = Key(s) BY <2>1, KeyKept
  <2>2. CASE client[s] # "waiting" /\ client'[s] # "waiting"
    BY <2>2 DEF Request, Returned, Pending, Answered
  <2> QED BY <2>1, <2>2
<1>2. RequestBox' = RequestBox BY <1>1 DEF RequestBox
<1>3. ReturnBox' = ReturnBox BY <1>1, AnswerKnown, AnswerKnownNext
<1> QED BY <1>2, <1>3 DEF Mail!mailVars, RequestBox, ReturnBox, Request

LEMMA ClientMails ==
    ASSUME IInv, IInv', NEW s \in Slots,
           \/ \E op \in {Access, Printf, Unsupported, ShutdownCmd} : Fill(s, op)
           \/ Post(s) \/ Return(s)
    PROVE  [Mail!MailNext]_(Mail!mailVars)
<1>1. ASSUME NEW op \in {Access, Printf, Unsupported, ShutdownCmd}, Fill(s, op)
      PROVE  UNCHANGED Mail!mailVars
  <2>1. client[s] = "idle" /\ client'[s] = "filled" /\ UNCHANGED served
    BY <1>1 DEF Fill, Set, driverVars, IInv, TypeOK
  <2>2. ASSUME NEW u \in Slots \ {s}
        PROVE  /\ client'[u] = client[u] /\ sent'[u] = sent[u]
               /\ mCmd'[u] = mCmd[u]
    BY <1>1 DEF Fill, Set, IInv, TypeOK
  <2>3. \A u \in Slots \ {s} : Key(u)' = Key(u) BY <2>1, <2>2 DEF Key
  <2> QED BY <2>1, <2>3, Unseen
<1>2. CASE Post(s) BY <1>2, PostAsks DEF Mail!MailNext
<1>3. CASE Return(s) BY <1>3, ReturnTakes DEF Mail!MailNext
<1> QED BY <1>1, <1>2, <1>3

LEMMA StepMails ==
    ASSUME IInv, IInv', [Next]_vars
    PROVE  [Mail!MailNext]_(Mail!mailVars)
<1> USE SlotFacts
<1>1. ASSUME UNCHANGED <<client, served, sent, mCmd>>
      PROVE  [Mail!MailNext]_(Mail!mailVars)
  BY <1>1, Unseen DEF Key
<1>2. CASE MainStep
  <2>1. CASE SystemCmd BY <2>1, ClientMails DEF SystemCmd
  <2>2. ASSUME NEW s \in Slots, InitMe(s) PROVE UNCHANGED Mail!mailVars
    <3>1. client[s] = "idle"
      BY <2>2 DEF InitMe, MainGoes, IInv, ThreadsKnown, ThreadKnown, SystemKnown
    <3>2. UNCHANGED <<client, served, sent>>
          /\ \A u \in Slots \ {s} : mCmd'[u] = mCmd[u]
      BY <2>2 DEF InitMe, MainOnly, threadVars, driverVars, Set, IInv, TypeOK
    <3> QED BY <3>1, <3>2, Unseen DEF Key
  <2>3. CASE ~SystemCmd /\ ~\E s \in Slots : InitMe(s)
    BY <1>1, <1>2, <2>3
       DEF MainStep, Open, NoWave, ForkAThread, IsAliveStatus, SetActiveStatus,
           AllThreadDone, MainOnly, threadVars, driverVars, slotVars
  <2> QED BY <2>1, <2>2, <2>3
<1>3. ASSUME NEW t \in Threads, ThreadStep(t) PROVE [Mail!MailNext]_(Mail!mailVars)
  <2>1. CASE Send(t) \/ Post(t) \/ Return(t)
    <3>1. Send(t) => \E op \in {Access, Printf, Unsupported, ShutdownCmd} : Fill(t, op)
      BY CoSimAssumption DEF Send
    <3> QED BY <2>1, <3>1, ClientMails
  <2>2. CASE ~Send(t) /\ ~Post(t) /\ ~Return(t)
    BY <1>1, <1>3, <2>2, ThreadLeaves
       DEF ThreadStep, SetAliveStatus, WakeUp, SetError, SetThreadDone, ThreadOnly,
           driverVars, slotVars
  <2> QED BY <2>1, <2>2
<1>4. ASSUME NEW s \in Slots, DriverStep(s) PROVE [Mail!MailNext]_(Mail!mailVars)
  <2>1. CASE FetchPrintf(s) \/ processCmd(s)
    BY <2>1, ServeServes DEF Mail!MailNext
  <2>2. CASE ~FetchPrintf(s) /\ ~processCmd(s)
    <3>1. UNCHANGED served
      BY <1>4, <2>2 DEF DriverStep, Attach, WaitTilStart, Enable, Poll, Check, Fetch,
                        FetchShutdown, Reply, AckStatus, AckValid
    <3> QED BY <1>1, <1>4, <3>1, DriverLeaves DEF threadVars
  <2> QED BY <2>1, <2>2
<1>5. CASE Finish \/ UNCHANGED vars
  BY <1>1, <1>5 DEF Finish, NoSlot, SlotsOnly, vars, driverVars, threadVars, slotVars
<1> QED BY <1>2, <1>3, <1>4, <1>5 DEF Next

\* On a fresh segment every slot is a mailbox: each command is executed once and
\* its sender gets the answer to it, for any number of threads and commands.
THEOREM MailDelivered == ASSUME Stale = FALSE PROVE Spec => DeliversMail
BY InitMails, Invariant, StepMails, PTL DEF Spec, DeliversMail, Mail!MailSpec
=============================================================================
