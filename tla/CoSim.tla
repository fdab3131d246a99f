---------------------------------- MODULE CoSim ----------------------------------
(***************************************************************************)
(* The co-simulation mailbox.  A test program (main and one thread per     *)
(* core) and a simulator (one driver per core and a system driver) share a *)
(* memory segment with one slot per driver: a thread fills in a command    *)
(* and raises mCmdValid, the driver executes it and lowers mCmdValid.      *)
(*   shMem.cc, shIpc.cc/.h      the segment and a slot's operations        *)
(*   shPthread.cc, c_dispatch.cc  main: fork, collect, shut down           *)
(*   c_module.cc                a thread                                   *)
(*   vpp2shMem.cc, dpi_common.incl  a driver                               *)
(* A step is one access, or several that no other process can tell apart.  *)
(* The remote path (mRemoteFlag, mRemoteReq) is never switched on.         *)
(*                                                                         *)
(* The key file comes with its content (Open).  In the code a simulator    *)
(* that opens it before SetTheKey has closed it finds no key and exits;    *)
(* that is left out.                                                       *)
(***************************************************************************)
EXTENDS Naturals, FiniteSets

CONSTANTS
    NumThreads,     \* threads, hence slots 0 .. NumThreads - 1
    Ops,            \* what threads ask for: a subset of the four below
    MaxCmds,        \* commands per thread
    MaxErr,         \* errors a thread may report
    Stale           \* the segment is left over from an earlier run

Access == "access"          \* returns data
Printf == "printf"          \* executed when it is fetched, returns nothing
Unsupported == "unsupported"    \* a command the driver does not know
ShutdownCmd == "shutdown"

ASSUME CoSimAssumption ==
    /\ NumThreads \in Nat \ {0}
    /\ Ops \subseteq {Access, Printf, Unsupported}
    /\ MaxCmds \in Nat /\ MaxErr \in Nat
    /\ Stale \in BOOLEAN

Threads == 0 .. NumThreads - 1
System == NumThreads        \* the system slot
Slots == 0 .. NumThreads

VARIABLES
    mSlotId,        \* the slots that carry their own ids
    mStartFlag, mCmdValid, mCmdStatus, mCmd, mPar, mErrCnt, mThreadDone,
    keyFile,        \* the key file is there
    mainAt,         \* main: <<where, slot>>
    globalThreadStatus,     \* the threads main still waits for
    total, allDone,
    thread,         \* where each thread is
    client,         \* where the user of a slot is in SendCmdNwait
    sent,           \* commands of each slot (they number the commands)
    driver,         \* where each driver is
    inBox,          \* the driver's copy of the command
    enableMode, inProcess,
    finish,         \* "no", "soon" (__shIpc_Time2Shutdown), "done"
    served,         \* commands executed for each slot (history)
    failed          \* a command was not supported (history)

slotVars == <<mSlotId, mStartFlag, mCmdValid, mCmdStatus, mCmd, mPar, mErrCnt,
              mThreadDone>>
mainVars == <<keyFile, mainAt, globalThreadStatus, total, allDone>>
threadVars == <<thread, client, sent>>
driverVars == <<driver, inBox, enableMode, inProcess, finish, served, failed>>
vars == <<slotVars, mainVars, threadVars, driverVars>>

Set(f, s, v) == f' = [f EXCEPT ![s] = v]

\* A fresh segment is all zeros, and 0 is SHIPC_STATUS_INACTIVE; slot 0 passes
\* for initialised.  A stale one is as the earlier run left it when it was
\* killed, here with a command of each slot half way.
Init ==
    /\ mSlotId = IF Stale THEN Slots ELSE {0}
    /\ mStartFlag = [s \in Slots |-> Stale /\ s # System]
    /\ mCmdValid \in [Slots -> IF Stale THEN BOOLEAN ELSE {FALSE}]
    /\ mCmdStatus = [s \in Slots |-> IF Stale THEN "PENDING" ELSE "INACTIVE"]
    /\ mCmd = [s \in Slots |-> Access]
    /\ mPar = [s \in Slots |-> <<"argument", 0>>]
    /\ mErrCnt = [s \in Slots |-> 0]
    /\ mThreadDone = [s \in Slots |-> FALSE]
    /\ keyFile = FALSE /\ mainAt = <<"open", 0>>
    /\ globalThreadStatus = {} /\ total = 0 /\ allDone = TRUE
    /\ thread = [t \in Threads |-> "none"]
    /\ client = [s \in Slots |-> "idle"]
    /\ sent = [s \in Slots |-> 0]
    /\ driver = [s \in Slots |-> "off"]
    /\ inBox = [s \in Slots |-> <<>>]
    /\ enableMode = {} /\ inProcess = {}
    /\ finish = "no"
    /\ served = [s \in Slots |-> 0]
    /\ failed = FALSE

-----------------------------------------------------------------------------
(* SendCmdNwait, by a thread or by main for the system slot *)

\* "Set data stuff", then the status and the command.
Fill(s, op) ==
    /\ client[s] = "idle"
    /\ Set(client, s, "filled")
    /\ Set(sent, s, sent[s] + 1)
    /\ Set(mPar, s, <<"argument", sent[s] + 1>>)
    /\ Set(mCmdStatus, s, "PENDING")
    /\ Set(mCmd, s, op)
    /\ UNCHANGED <<mSlotId, mStartFlag, mCmdValid, mErrCnt, mThreadDone>>
    /\ UNCHANGED <<thread, driverVars>>

Post(s) ==
    /\ client[s] = "filled"
    /\ Set(client, s, "waiting")
    /\ Set(mCmdValid, s, TRUE)
    /\ UNCHANGED <<mSlotId, mStartFlag, mCmdStatus, mCmd, mPar, mErrCnt>>
    /\ UNCHANGED <<mThreadDone, thread, sent, driverVars>>

CmdFailed(s) == mCmdStatus[s] \notin {"SUCCESS", "WARNING"} /\ mCmdValid[s]

\* WaitTilCmdDone, CheckCmdOK; then the caller reads what came back.
Return(s) ==
    /\ client[s] = "waiting" /\ ~mCmdValid[s]
    /\ Set(client, s, "idle")
    /\ Set(mErrCnt, s, mErrCnt[s] + IF CmdFailed(s) THEN 1 ELSE 0)
    /\ UNCHANGED <<mSlotId, mStartFlag, mCmdValid, mCmdStatus, mCmd, mPar>>
    /\ UNCHANGED <<mThreadDone, thread, sent, driverVars>>

-----------------------------------------------------------------------------
(* A thread (c_module) *)

ThreadGoes(t, from, to) == thread[t] = from /\ Set(thread, t, to)
ThreadOnly == UNCHANGED <<client, sent, mainVars, driverVars>>

SetAliveStatus(t) ==
    /\ ThreadGoes(t, "born", "asleep")
    /\ Set(mCmdStatus, t, "ALIVE")
    /\ Set(mStartFlag, t, TRUE)
    /\ UNCHANGED <<mSlotId, mCmdValid, mCmd, mPar, mErrCnt, mThreadDone>>
    /\ ThreadOnly

\* The sleep(1) is taken to outlast the rest of ForkAThread.
WakeUp_mutant(t) ==                     \* no sleep
    /\ ThreadGoes(t, "asleep", "running")
    /\ UNCHANGED slotVars
    /\ ThreadOnly
WakeUp(t) ==
    /\ ThreadGoes(t, "asleep", "running")
    /\ mCmdStatus[t] = "ACTIVE"
    /\ UNCHANGED slotVars
    /\ ThreadOnly

Send(t) == \E op \in Ops :
    /\ thread[t] = "running"
    /\ sent[t] < MaxCmds
    /\ Fill(t, op)
    /\ UNCHANGED mainVars

SetError(t, n) ==
    /\ client[t] = "idle"
    /\ ThreadGoes(t, "running", "ending")
    /\ Set(mErrCnt, t, mErrCnt[t] + n)
    /\ UNCHANGED <<mSlotId, mStartFlag, mCmdValid, mCmdStatus, mCmd, mPar>>
    /\ UNCHANGED mThreadDone
    /\ ThreadOnly

SetThreadDone(t) ==
    /\ ThreadGoes(t, "ending", "gone")
    /\ Set(mThreadDone, t, TRUE)
    /\ Set(mCmdStatus, t, "INACTIVE")
    /\ UNCHANGED <<mSlotId, mStartFlag, mCmdValid, mCmd, mPar, mErrCnt>>
    /\ ThreadOnly

ThreadStep(t) ==
    \/ SetAliveStatus(t) \/ WakeUp(t) \/ Send(t)
    \/ thread[t] = "running" /\ (Post(t) \/ Return(t)) /\ UNCHANGED mainVars
    \/ \E n \in 0 .. MaxErr : SetError(t, n)
    \/ SetThreadDone(t)
-----------------------------------------------------------------------------
(* A driver.  The simulator is one thread: while a driver waits inside      *)
(* $vpp_WaitTilStart no other driver runs.                                  *)

SimFree(s) == finish # "done" /\ \A d \in Slots \ {s} : driver[d] # "blocked"
DriverGoes(s, from, to) ==
    /\ SimFree(s)
    /\ driver[s] = from
    /\ Set(driver, s, to)
SlotsOnly == UNCHANGED <<mainVars, threadVars>>
NoSlot == UNCHANGED slotVars /\ SlotsOnly

\* shMemInit as a client: the key file first, then the segment.
Attach(s) ==
    /\ keyFile
    /\ DriverGoes(s, "off", "attached")
    /\ UNCHANGED <<inBox, enableMode, inProcess, finish, served, failed>>
    /\ NoSlot

\* The system driver does not wait, and neither does a driver whose slot is not
\* initialised yet.
Enable(s) ==
    /\ \/ s = System /\ DriverGoes(s, "attached", "poll")
       \/ s # System /\ s \notin mSlotId /\ DriverGoes(s, "attached", "poll")
       \/ mStartFlag[s] /\ DriverGoes(s, "blocked", "poll")
    /\ enableMode' = enableMode \cup {s}
    /\ UNCHANGED <<inBox, inProcess, finish, served, failed>>
    /\ NoSlot
WaitTilStart(s) ==
    /\ s # System /\ s \in mSlotId
    /\ DriverGoes(s, "attached", "blocked")
    /\ UNCHANGED <<inBox, enableMode, inProcess, finish, served, failed>>
    /\ NoSlot

\* get_v2c_mail reads mCmdValid; a slot without its ids is an error and the
\* driver waits for the next clock.
Poll(s) ==
    /\ s \in enableMode /\ s \in mSlotId
    /\ DriverGoes(s, "poll", IF mCmdValid[s] THEN "fetch" ELSE "check")
    /\ UNCHANGED <<inBox, enableMode, inProcess, finish, served, failed>>
    /\ NoSlot

\* No command: is the thread done?
Check(s) ==
    LET gone == mCmdStatus[s] = "INACTIVE" \/ mThreadDone[s]
        off == IF gone THEN {s} \cap inProcess ELSE {}
    IN  /\ DriverGoes(s, "check", IF off = {} THEN "poll" ELSE "stopped")
        /\ enableMode' = enableMode \ off
        /\ inProcess' = inProcess \ off
        /\ UNCHANGED <<inBox, finish, served, failed>>
        /\ NoSlot

\* A command: PRINTF is executed and acknowledged right here.
FetchPrintf(s) ==
    /\ mCmd[s] = Printf
    /\ DriverGoes(s, "fetch", "status")
    /\ Set(served, s, served[s] + 1)
    /\ UNCHANGED <<inBox, enableMode, inProcess, finish, failed>>
    /\ NoSlot

Fetch(s) ==
    /\ mCmd[s] \notin {Printf, ShutdownCmd}
    /\ DriverGoes(s, "fetch", "execute")
    /\ Set(inBox, s, <<mCmd[s], mPar[s]>>)
    /\ inProcess' = inProcess \cup {s}
    /\ UNCHANGED <<enableMode, finish, served, failed>>
    /\ NoSlot

\* SHUTDOWN marks the slot as done, which switches the driver off at once if it
\* has executed a command before.
FetchShutdown(s) ==
    /\ mCmd[s] = ShutdownCmd
    /\ DriverGoes(s, "fetch", "execute")
    /\ Set(inBox, s, <<mCmd[s], mPar[s]>>)
    /\ Set(mThreadDone, s, TRUE)
    /\ Set(mCmdStatus, s, "INACTIVE")
    /\ enableMode' = enableMode \ ({s} \cap inProcess)
    /\ inProcess' = inProcess \cup {s}
    /\ UNCHANGED <<mSlotId, mStartFlag, mCmdValid, mCmd, mPar, mErrCnt>>
    /\ UNCHANGED <<finish, served, failed>>
    /\ SlotsOnly

\* processCmd
Executed(s) == inBox[s][2][2]           \* the number of the command
processCmd(s) ==
    LET op == inBox[s][1]
    IN  /\ DriverGoes(s, "execute", "reply")
        /\ IF op = Access
             THEN Set(inBox, s, <<op, <<"data", Executed(s)>>>>)
             ELSE UNCHANGED inBox
        /\ failed' = (failed \/ op = Unsupported)
        /\ finish' = IF op = ShutdownCmd THEN "soon" ELSE finish
        /\ Set(served, s, served[s] + 1)
        /\ UNCHANGED <<enableMode, inProcess>>
        /\ NoSlot

\* send_v2c_mail: the data, then AckCmdNdone: the status, then mCmdValid.
Reply_mutant(s) ==                      \* lowers mCmdValid first, and again later
    /\ DriverGoes(s, "reply", "status")
    /\ Set(mPar, s, inBox[s][2])
    /\ Set(mCmdValid, s, FALSE)
    /\ UNCHANGED <<mSlotId, mStartFlag, mCmdStatus, mCmd, mErrCnt>>
    /\ UNCHANGED <<mThreadDone, inBox, enableMode, inProcess, finish>>
    /\ UNCHANGED <<served, failed>>
    /\ SlotsOnly
Reply(s) ==
    /\ DriverGoes(s, "reply", "status")
    /\ Set(mPar, s, inBox[s][2])
    /\ UNCHANGED <<mSlotId, mStartFlag, mCmdValid, mCmdStatus, mCmd, mErrCnt>>
    /\ UNCHANGED <<mThreadDone, inBox, enableMode, inProcess, finish>>
    /\ UNCHANGED <<served, failed>>
    /\ SlotsOnly

AckStatus(s) ==
    /\ DriverGoes(s, "status", "valid")
    /\ Set(mCmdStatus, s, "SUCCESS")
    /\ UNCHANGED <<mSlotId, mStartFlag, mCmdValid, mCmd, mPar, mErrCnt>>
    /\ UNCHANGED <<mThreadDone, inBox, enableMode, inProcess, finish>>
    /\ UNCHANGED <<served, failed>>
    /\ SlotsOnly

AckValid_mutant(s) ==                   \* leaves mCmdValid raised
    /\ DriverGoes(s, "valid", IF s \in enableMode THEN "poll" ELSE "stopped")
    /\ UNCHANGED <<inBox, enableMode, inProcess, finish, served, failed>>
    /\ NoSlot
AckValid(s) ==
    /\ DriverGoes(s, "valid", IF s \in enableMode THEN "poll" ELSE "stopped")
    /\ Set(mCmdValid, s, FALSE)
    /\ UNCHANGED <<mSlotId, mStartFlag, mCmdStatus, mCmd, mPar, mErrCnt>>
    /\ UNCHANGED <<mThreadDone, inBox, enableMode, inProcess, finish>>
    /\ UNCHANGED <<served, failed>>
    /\ SlotsOnly

DriverStep(s) ==
    \/ Attach(s) \/ WaitTilStart(s) \/ Enable(s) \/ Poll(s) \/ Check(s)
    \/ FetchPrintf(s) \/ Fetch(s) \/ FetchShutdown(s)
    \/ processCmd(s) \/ Reply(s) \/ AckStatus(s) \/ AckValid(s)

\* "Running for 1 more NS": the acknowledge takes no simulated time.
Finish ==
    /\ finish = "soon"
    /\ driver[System] \in {"poll", "check", "stopped"}
    /\ finish' = "done"
    /\ UNCHANGED <<driver, inBox, enableMode, inProcess, served, failed>>
    /\ NoSlot

-----------------------------------------------------------------------------
(* Main *)

MainGoes(from, s, to) == mainAt = <<from, s>> /\ mainAt' = to
MainOnly == UNCHANGED <<threadVars, driverVars>>

\* shMemInit as the initiator, and the mask: create the segment, or take the
\* one there is; the simulator learns the key before InitMe.  SetTheKey creates
\* the file, writes and closes it here in one step.
Open ==
    /\ MainGoes("open", 0, <<"init", 0>>)
    /\ keyFile' = TRUE
    /\ UNCHANGED <<globalThreadStatus, total, allDone, slotVars>>
    /\ MainOnly

InitMe(s) ==
    /\ MainGoes("init", s, IF s = System THEN <<"fork", 0>> ELSE <<"init", s + 1>>)
    /\ mSlotId' = mSlotId \cup {s}
    /\ Set(mCmdValid, s, FALSE)
    /\ Set(mCmdStatus, s, "SUCCESS")
    /\ Set(mErrCnt, s, 0)
    /\ Set(mCmd, s, "none")
    /\ Set(mPar, s, <<"argument", 0>>)
    /\ Set(mThreadDone, s, FALSE)
    /\ Set(mStartFlag, s, FALSE)
    /\ UNCHANGED <<keyFile, globalThreadStatus, total, allDone>>
    /\ MainOnly

ForkAThread_mutant(t) ==                \* does not record the thread
    /\ MainGoes("fork", t, <<"alive", t>>)
    /\ Set(thread, t, "born")
    /\ UNCHANGED <<keyFile, globalThreadStatus, total, allDone, client, sent>>
    /\ UNCHANGED <<slotVars, driverVars>>
ForkAThread(t) ==
    /\ MainGoes("fork", t, <<"alive", t>>)
    /\ Set(thread, t, "born")
    /\ globalThreadStatus' = globalThreadStatus \cup {t}
    /\ UNCHANGED <<keyFile, total, allDone, client, sent, slotVars, driverVars>>

IsAliveStatus(t) ==
    /\ MainGoes("alive", t, <<"active", t>>)
    /\ mCmdStatus[t] = "ALIVE"
    /\ UNCHANGED <<keyFile, globalThreadStatus, total, allDone, slotVars>>
    /\ MainOnly

SetActiveStatus(t) ==
    /\ MainGoes("active", t,
                IF t + 1 \in Threads THEN <<"fork", t + 1>> ELSE <<"dump", System>>)
    /\ Set(mCmdStatus, t, "ACTIVE")
    /\ UNCHANGED <<mSlotId, mStartFlag, mCmdValid, mCmd, mPar, mErrCnt>>
    /\ UNCHANGED <<mThreadDone, keyFile, globalThreadStatus, total, allDone>>
    /\ MainOnly

\* dump_wave, unless NOWAVE: one command to the system driver; and Shutdown.
SystemCmd ==
    \/ /\ mainAt = <<"dump", System>>
       /\ \/ Fill(System, Access) /\ UNCHANGED mainVars
          \/ Post(System) /\ UNCHANGED mainVars
          \/ Return(System) /\ mainAt' = <<"scan", 0>>
             /\ UNCHANGED <<keyFile, globalThreadStatus, total, allDone>>
    \/ /\ mainAt = <<"shutdown", System>>
       /\ \/ Fill(System, ShutdownCmd) /\ UNCHANGED mainVars
          \/ Post(System) /\ UNCHANGED mainVars
          \/ Return(System) /\ mainAt' = <<"ended", System>>
             /\ UNCHANGED <<keyFile, globalThreadStatus, total, allDone>>

NoWave ==
    /\ MainGoes("dump", System, <<"scan", 0>>)
    /\ client[System] = "idle"
    /\ UNCHANGED <<keyFile, globalThreadStatus, total, allDone, slotVars>>
    /\ MainOnly

\* AllThreadDone, slot by slot, until a pass finds all done.
AllThreadDone_mutant(t) ==              \* does not take the thread off the table
    LET done == t \in globalThreadStatus /\ mThreadDone[t]
        all == allDone /\ (t \in globalThreadStatus => mThreadDone[t])
        next == IF t + 1 \in Threads THEN <<"scan", t + 1>>
                ELSE IF all THEN <<"shutdown", System>> ELSE <<"scan", 0>>
    IN  /\ MainGoes("scan", t, next)
        /\ total' = total + IF done THEN mErrCnt[t] ELSE 0
        /\ allDone' = IF next = <<"scan", 0>> THEN TRUE ELSE all
        /\ UNCHANGED <<keyFile, globalThreadStatus, slotVars>>
        /\ MainOnly
AllThreadDone(t) ==
    LET done == t \in globalThreadStatus /\ mThreadDone[t]
        all == allDone /\ (t \in globalThreadStatus => mThreadDone[t])
        next == IF t + 1 \in Threads THEN <<"scan", t + 1>>
                ELSE IF all THEN <<"shutdown", System>> ELSE <<"scan", 0>>
    IN  /\ MainGoes("scan", t, next)
        /\ globalThreadStatus' = globalThreadStatus \ IF done THEN {t} ELSE {}
        /\ total' = total + IF done THEN mErrCnt[t] ELSE 0
        /\ allDone' = IF next = <<"scan", 0>> THEN TRUE ELSE all
        /\ UNCHANGED <<keyFile, slotVars>>
        /\ MainOnly

MainStep ==
    \/ Open \/ SystemCmd \/ NoWave
    \/ \E s \in Slots : InitMe(s)
    \/ \E t \in Threads :
         ForkAThread(t) \/ IsAliveStatus(t) \/ SetActiveStatus(t) \/ AllThreadDone(t)

Next ==
    \/ MainStep
    \/ \E t \in Threads : ThreadStep(t)
    \/ \E s \in Slots : DriverStep(s)
    \/ Finish

Spec == Init /\ [][Next]_vars
\* Every process keeps running: the operating system runs main and the threads,
\* the simulator every driver.
FairSpec ==
    /\ Spec
    /\ WF_vars(MainStep) /\ WF_vars(Finish)
    /\ \A t \in Threads : WF_vars(ThreadStep(t))
    /\ \A s \in Slots : WF_vars(DriverStep(s))

-----------------------------------------------------------------------------
(* Properties *)

Arguments == {"argument", "data"} \X (0 .. MaxCmds + 2)

\* The values of the mailbox, the threads, main and the drivers.
TypeOK ==
    /\ mSlotId \subseteq Slots /\ mStartFlag \in [Slots -> BOOLEAN]
    /\ mCmdValid \in [Slots -> BOOLEAN] /\ mThreadDone \in [Slots -> BOOLEAN]
    /\ mCmdStatus \in [Slots -> {"INACTIVE", "PENDING", "SUCCESS", "ALIVE", "ACTIVE"}]
    /\ mCmd \in [Slots -> {"none", Access, Printf, Unsupported, ShutdownCmd}]
    /\ mPar \in [Slots -> Arguments]
    /\ mErrCnt \in [Slots -> Nat] /\ keyFile \in BOOLEAN
    /\ mainAt \in {"open", "init", "fork", "alive", "active", "dump", "scan",
                   "shutdown", "ended"} \X Slots
    /\ globalThreadStatus \subseteq Threads /\ total \in Nat /\ allDone \in BOOLEAN
    /\ thread \in [Threads -> {"none", "born", "asleep", "running", "ending", "gone"}]
    /\ client \in [Slots -> {"idle", "filled", "waiting"}]
    /\ sent \in [Slots -> 0 .. MaxCmds + 2] /\ served \in [Slots -> 0 .. MaxCmds + 2]
    /\ driver \in [Slots -> {"off", "attached", "blocked", "poll", "fetch", "check",
                             "execute", "reply", "status", "valid", "stopped"}]
    /\ inBox \in [Slots -> {<<>>} \cup
                    {Access, Printf, Unsupported, ShutdownCmd} \X Arguments]
    /\ enableMode \subseteq Slots /\ inProcess \subseteq Slots
    /\ finish \in {"no", "soon", "done"} /\ failed \in BOOLEAN

\* The errors the threads of T have counted, as <<thread, number>>.
Errors(T) == UNION {{t} \X (1 .. mErrCnt[t]) : t \in T}

\* Once main has seen all threads done, what it reports is the number of errors
\* the threads counted: no thread adds to its count after main has read it, and
\* none is read twice (AllThreadDone, SetError before SetThreadDone).
ErrorsCounted ==
    mainAt[1] \in {"shutdown", "ended"} => total = Cardinality(Errors(Threads))

\* The simulation ends only after the last thread has its last answer: $finish
\* leaves nobody waiting on a driver that no longer runs.
NoneAbandoned ==
    finish # "no" => \A t \in Threads : thread[t] = "gone" /\ client[t] = "idle"

\* What the thread that uses a slot sees: its command is executed once, and it
\* gets the answer (MailService).
Pending(s) == client[s] = "waiting" /\ served[s] # sent[s]
Answered(s) == client[s] = "waiting" /\ served[s] = sent[s]
Mail == INSTANCE MailService WITH
    Commands <- {Access, Printf, Unsupported, ShutdownCmd} \X (0 .. MaxCmds + 2),
    Nothing <- <<>>,
    AnswerTo <- LAMBDA c :
        <<IF c[1] = Access THEN "data" ELSE "argument", c[2]>>,
    request <- [s \in Slots |-> IF Pending(s) THEN <<mCmd[s], sent[s]>> ELSE <<>>],
    answer <- [s \in Slots |->
        IF ~Answered(s) THEN <<>>
        ELSE IF driver[s] = "reply" THEN inBox[s][2] ELSE mPar[s]]
DeliversMail == Mail!MailSpec

\* The run ends: every thread is gone, main has told the simulator to stop, and
\* the simulator has stopped.  The drivers wait for the threads in one blocking
\* call each while main waits for the threads one at a time.
ShutsDown == <>(mainAt[1] = "ended" /\ finish = "done")

\* "if I get back here, check to make sure command is done sucessfully": a
\* command the driver does not support counts as an error of the test.
FailureCounted == mainAt[1] = "ended" /\ failed => total > 0

\* "Shared memory segment already exist --- issue a remove...exiting": no command
\* of an earlier run is executed.
OwnCommandsOnly == \A s \in Slots : served[s] <= sent[s]
=============================================================================
