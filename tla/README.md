# A TLA+ verification of the Common Evaluation Platform

The Common Evaluation Platform (CEP) is a RISC-V system-on-chip whose
accelerator cores are locked by the *Logic Locking Key Interface* (LLKI): a
core works only after the *Surrogate Root of Trust* (SRoT) has delivered its
key.  This directory holds TLA+ models of the platform's own control logic,
TLC configurations that check them on small instances, and TLAPS proofs of
their most important properties for every value of the parameters.

`llki/` below stands for `generators/mitll-blocks/src/main/resources/vsrc/llki/`.

## 1. The system

Software on a RISC-V hart talks to the SRoT over TileLink: it writes keys into
the Key RAM and, for each key, an entry with a pointer pair and a core number
into the Key Index RAM; then it writes a C2 request ("load / clear / report the
key with index i") to a FIFO, polls a status bit and reads the response.  The
SRoT's state machine turns one request into a dialogue with the *LLKI Protocol
Processing* block (LLKI-PP) of the core, over a TileLink master port: a header,
then, for a load, one status poll and one write per key word, then status polls
until a response waits, then a read of the response.  The LLKI-PP passes key
words to the core's *Technique Specific Shim* (TSS) over six wires
(LLKI-Discrete), which stores them and says when the key is complete.

Harts share core locks in a test-and-set register of the CEP registers; test
programs claim core tests under such a lock.  In co-simulation, the test
programs run as threads of one process and the harts' bus drivers in a
simulator process; the two exchange commands and answers through a shared
memory segment with one slot per driver.  A scratchpad RAM on TileLink is
where the tests keep data.

    software --TileLink--> SRoT --TileLink--> adapter|LLKI-PP --LLKI-D--> TSS

| Component (source) | State it keeps | Operations | Talks to | What is hard | What makes it correct |
|---|---|---|---|---|---|
| TileLink register adapter (`llki/tlul_adapter_reg.sv`) | one outstanding access, D-channel registers | accept, acknowledge, release | its register file (strobes, ack), its master (A, D) | reads acknowledged in the same clock or one later; release looks at d_ready only | each accepted request gets exactly one answer, its own |
| LLKI-PP (`llki/llki_pp_wrapper.sv`) | message registers, control/status register, state | register decode; 6 states | adapter; TSS | samples wires a clock old; key words and headers look alike | no word lost; what it acknowledges is true |
| Mock TSS (`llki/mock_tss_fsm.sv`) | key register, counters, state | 6 states | LLKI-PP | clears arriving at any moment of a load | a complete key is never overwritten; a clear is answered |
| SRoT (`llki/srot_wrapper.sv`) | Key RAM, Key Index RAM, FIFOs, message registers, state | register decode; 16 states | software; fabric | shared RAM port; stale status; flush on error; polling without limit | responses are true, match their request and always come |
| FIFOs, RAMs (`llki/tlul_fifo_sync.sv`, `llki/prim_generic_ram_1p.sv`, external `prim_fifo_sync`) | contents | push, pop, flush, read, write | SRoT | full, empty, fall-through | nothing lost, order kept |
| SRoT driver (`sims/cep_cosim/drivers/cep_tests/cep_srot.cc`) | - | set up RAMs, load, clear, lock | SRoT | one core only; poll with a timeout whose result is ignored | one request at a time |
| TileLink checker (`llki/tlul_err.sv`) | - | pure function | adapter | masks, alignment, sizes | accepts exactly the well-formed requests |
| Scratchpad (`llki/scratchpad_wrapper.sv`) | RAM, response registers, response FIFO | TileLink read/write | its master | read data a clock later than the rest; almost-full margin | no response dropped; it is a RAM |
| Lock registers and lock API (`mitll-blocks/.../cep_registers.scala`, `cep_tests/cep_apis.cc`, `diag/cepLockTest.cc`, `diag/cepPlicTest.cc`, `testSuites/bareMetalTests/extIntr`) | owner per lock, one request register | test-and-set, release, get with a time-out | all harts | one request register for all; a read back a bus access later; time-outs; tests that break on an error with a lock in their hands | mutual exclusion, no lock left behind unknown to its owner |
| Multi-thread test (`diag/cepMultiThread.cc`, `testSuites/bfmTests/multiThread`) | claims in scratch registers, each thread's record | set up, claim, run, release | lock API | claims cleared at any time, words that do not exist, a signature in a claim | each test once; every thread ends |
| Co-simulation mailbox (`sims/cep_cosim/share/shIpc.*`, `share/shMem.cc`, `src/shPthread.cc`, `src/c_dispatch.cc`, `src/c_module.cc`, `pli/vpp2shMem.cc`, `dvt/dpi_common.incl`) | shared-memory slots, thread table | start up, send, execute, acknowledge, collect, shut down | simulator and test threads | two processes polling flags without a lock; a segment left over | each command executed once; nobody left waiting; it stops |
| Playback interpreter (`cep_tests/cep_apis.cc`) | - | replay of captured accesses | bus | spin with a limit | replays what was captured |
| Crypto and DSP cores, block generators in Scala, boot code, Chipyard / FireSim / FPGA / VLSI trees | - | - | - | data paths, elaboration, upstream | not modelled (section 8) |

## 2. Modules

| Module | Models | Kind |
|---|---|---|
| `LlkiPkg` | `llki_pkg.sv`: identifiers, statuses, words, registers | constants |
| `LlkiDiscrete` | the six LLKI-Discrete wires | variables |
| `TlulAdapterReg` | `tlul_adapter_reg.sv`, one action per branch | component |
| `LlkiPP` | `llki_pp_wrapper.sv`, one action per branch of its state machine | component |
| `MockTSS` | `mock_tss_fsm.sv`, one action per transition | component |
| `SRoT` | `srot_wrapper.sv` with its FIFOs and RAMs, one action per state | component |
| `LlkiTarget` | adapter + LLKI-PP + TSS with an arbitrary master | composition |
| `LLKI` | software + slave adapter + SRoT + fabric + core | composition |
| `TlulPort` | what a register port promises its master | abstract specification |
| `RegisterPort` | adapter + a register file reduced to ack, data and error | composition, refines `TlulPort` |
| `LockRegs` | the test-and-set register, `cep_get_lock`, `cep_release_lock`, their callers | composition, refines `LockService` |
| `LockService` | atomic locks: a request may be given up, and an owner that fails keeps its lock and may ask for others | abstract specification |
| `MultiThread` | `cepMultiThread.cc` over the abstract lock | composition with `LockService` |
| `CoSim` | segment, main, threads, drivers of the co-simulation | composition, refines `MailService` |
| `MailService` | a command executed once, its answer returned | abstract specification |
| `TlulErr` | `tlul_err.sv`, one operator per arm of its case | pure function |
| `Scratchpad` | `scratchpad_wrapper.sv` with its RAM and response FIFO | component, refines `RamService` |
| `RamService` | a RAM whose answers wait in a queue | abstract specification |
| `KeyService` | a core with one place for a key, and requests carried out at one moment, one at a time | abstract specification |
| `LLKIService` | when a request of `LLKI` has taken effect and what its answer is | refinement of `KeyService` by `LLKI` |
| `LLKIInv` | where request, access and key words are in `LLKI` at every clock edge, and what the registers then mean | invariants |
| `LlkiTarget_proofs`, `LLKI_proofs`, `LLKIDialogue_proofs`, `RegisterPort_proofs`, `LockRegs_proofs`, `MultiThread_proofs`, `CoSim_proofs`, `Scratchpad_proofs` | theorems | proofs |
| `MC...` | instances for TLC | model checking |

`MultiThread` uses `LockService` in the place of the lock registers; `LockRegs`
shows, by TLC and by proof, that registers and calls implement it.

**Clocks.**  The blocks are synchronous: a step of `LlkiTarget`, `LLKI`,
`RegisterPort` or `Scratchpad` is one clock edge, at which every register takes its next value
from the current value of all of them.  A composition therefore *conjoins* the
components' actions (`Clock`, `Hardware`).  A register keeps its name from the
source; where two blocks use the same name (`msg_id`, `write_error`,
`outstanding_read`, `wait_state_counter`) the composition renames one with
`INSTANCE ... WITH` (prefix `pp_` for the LLKI-PP, `s_` for the SRoT's slave
adapter, `tss_` for the TSS).  Combinational signals are operators.  Reset is
the initial state; a reset in the middle of operation is not modelled.
`LockRegs` has clocks too, but its programs take steps of their own: a step is a
clock edge with at most one bus access, or a step of a program between two
accesses.  `MultiThread` and `CoSim` interleave programs; a step is one access to
shared state.

**Registers that travel together** are one variable: `host` stands for
`host_req_i`, `host_we_i`, `host_addr_i` and `host_wdata_i` and is `None` when
`host_req_i` is low; likewise `reqfifo_wdata_i`, `respfifo_wdata_i` and
`ram_write_i`.

**Data.**  A 64-bit word is a record of the fields that any receiver tells
apart (`id`, `status`, `len`, and `body` for the rest).  Key words are such
records as well, on purpose: nothing on the bus marks them as key words.
Lengths are 16-bit, wait-state counters 8-bit and wrap.

**Names ending in `_mutant`** are plausible bugs of the operator that follows
them.  No specification uses them; they are substituted for the original to
see that the properties notice.

## 3. The environment

*LlkiTarget.* Any master at all: in each clock it offers any request of
`Requests` or none and takes an answer or not.

*LLKI.* The software follows `cep_srot.cc`: one processor ("Only one core can
perform LLKI operations", cep_srot.cc:243), one request at a time, RAM and mode
writes only between requests, one bus access at a time, and a poll without a
limit (the driver's is 6000 bus accesses; its expiry is not modelled).  It
may pause for any number of clocks before any access.  The fabric between SRoT
and core forwards requests and answers in order, unchanged, each after any
delay (`fwd`, `back`); it produces no errors of its own.  There is one core
(`OneCoreAssumption`): the core index of an entry is checked, but chooses no
target.

*RegisterPort.* Any master, as for LlkiTarget.  The register file is given by
what a read returns and which addresses are errors; `ZeroCycle` is the set of
addresses whose reads it acknowledges in the clock of the strobe (all for the
LLKI-PP, none for the SRoT).

*LockRegs.* Any number of harts, each calling with any lock and any time-out of
`TimeOuts`.  One access a clock, from any hart.  A hart reads back only after
its write was answered, hence after the clock in which the register acted on
it; any other access may fall in between.  A hart of `Careless` takes every
non-zero result for success (the extIntr and PLIC tests); the others test for 1
(the lock tests) or for -1 (the multi-thread test).  A hart of `Testers` runs a lock test
(`cepLockTest.cc`), which counts a time-out as an error and may see one inside.
Both tests break out of a loop before the release then (`BreakOnError`), and the
lock is kept for good (`kept`).  For `cepLockTest_runTest` that is the end.
`cepLockTest_runTest2` leaves only its inner loop: since its error count is never
reset (`errCnt`), it asks for lock 0 in each further round of the outer loop, which
it may own already, works under it and breaks again, holding one lock or two.  The
model lets either test go on so for any number of rounds.

*MultiThread.* One thread per core over the abstract lock.  Setting up may time
out or fail, asking for the lock may be given up at any time, and a core test
may fail.

*CoSim.* Main, one thread per core and one driver per slot.  The simulator is
one thread: while a driver waits in `$vpp_WaitTilStart` no other driver runs.
Threads send any commands of `Ops`.  `sleep(1)` in a thread is taken to outlast
what main still does in `ForkAThread` (without it main can wait for ALIVE for
ever: that is the mutant `WakeUp_mutant`).  `InitMe` of one slot is one step, and
so is the key file with its content (`Open`): a simulator that opens the file
between the `fopen` and the `fclose` of `SetTheKey` (`shMem.cc:178-180`) is left
out, so that `ShutsDown` says nothing of such a start.
The segment is fresh, or (`Stale`) left behind by a run that was killed.  The
remote path (`mRemoteFlag`) is never switched on in the repository and is left
out.

*Scratchpad.* Any master: in every clock any request of `Requests` or none, and
it takes an answer or not.  Transfers are of up to eight bytes, the width of the
bus; `a_size` 6 (64 bytes), for which `tlul_err` looks at the alignment to eight
bytes only, is not offered by the bus (`cep_scratchpad.scala:91-93`).  The
blocking assignments of the clocked process are taken as registers.  A Put that
is answered with an error still writes the RAM, since `scratchpad_write_i` looks
at neither `tl_err` nor `addr_err`; `RamService` says so.

## 4. Runs

| Run | Configuration | Distinct states | Shows |
|---|---|---|---|
| `llkitarget` | `MCLlkiTarget.cfg` | 174,537 | `NoWordLost`, `AckIsTrue`, `CompleteKeyKept`, `ClearAnswered` against an arbitrary master |
| `llki` | `MCLLKI.cfg` | 48,261 | the six safety properties below, `LockedForGood`, `RequestAnswered`; `LLKI` implements `KeyService` (`KeyServed`) |
| `llki_short_key` | `MCLLKIShortKey.cfg` | violation | a key that is too short hangs the LLKI (section 7) |
| `registerport` | `MCRegisterPort.cfg` | 249 | the adapter implements `TlulPort` and answers |
| `registerport_malformed` | `MCRegisterPortMalformed.cfg` | violation | a malformed request gets no answer (section 7) |
| `lockregs` | `MCLockRegs.cfg` | 298,986 | `MutualExclusion`, `NoOrphanedLock`, `LockIsFreed`; registers and calls implement `LockService` |
| `lock_careless` | `MCLockRegsCareless.cfg` | violation | a caller works without the lock (section 7) |
| `multithread` | `MCMultiThread.cfg` | 12,578 | `EachTestOnce`, `EveryThreadEnds` |
| `cosim` | `MCCoSim.cfg` | 282,237 | `ErrorsCounted`, `NoneAbandoned`, `ShutsDown`; every slot implements `MailService` |
| `cosim_failure` | `MCCoSimFailure.cfg` | violation | a failed command is not counted (section 7) |
| `cosim_stale` | `MCCoSimStale.cfg` | violation | a command of an earlier run is executed (section 7) |
| `scratchpad` | `MCScratchpad.cfg` | 19,446 | `NothingDropped`, `PortReopens`; the scratchpad implements `RamService` |

Deadlock is checked in every run but those of `MultiThread` and `CoSim`, whose
programs end.

The properties of `LLKI`: `ResponseIsTrue` (an acknowledged load means the TSS
holds exactly the key the request named, word for word; likewise for clears,
status responses and errors), `ResponseMatchesRequest` (tag, kind, and never a
second response), `QuietBetweenRequests` (nothing of a finished request is left
in any FIFO, register or state machine), `NeverOutOfStep` (no loss of sync, no
malformed message), `NoWordMistaken` (a key word is never taken for a header),
`PortsNeverCollide` (the RAM port and the master port have one user at a time),
`LockedForGood`, `RequestAnswered`, and `KeyServed`.

**The abstract key service.**  To the software, SRoT, bus, LLKI-PP and TSS
together are to be a core with one place for a key (`KeyService`).  Its state is
what the software can know: the provisioned RAMs and mode bits, the request it
waits for, the answer to it, and the key.  A request is served in one step
(`Serve`): it is refused because something is wrong with it (`Fault`), or it loads
the whole key or reports that one is there or that it is too long, or clears the
key, or reports whether there is one; the key it loads and the answer it gives are
those of that one moment.  Nothing is provisioned while a request is out, and the
answer is taken as it was given.  `LLKIService` says which moment of the dialogue
of some dozens of clocks that is.  The key of the service is the one in the TSS,
except while the TSS holds words of a load that may still be given up
(`Tentative`: a key that is too long completes in the TSS before the extra
word arrives, and is cleared again; nobody can see it).  The answer exists once
it is decided (`Decided`): when the SRoT refuses the request, when the LLKI-PP
finds that a key is there already or is asked whether there is one, when the TSS completes a key the
LLKI-PP knows to be whole, when the TSS is offered a word too many, when it
clears the key.  From then until the software fetches it the answer moves through the
LLKI-PP's registers, the bus, the SRoT's registers and a FIFO (`Answers`), and
`KeyServed` says that it does not change, nor the key, on the way.

**Bounds and why they are enough.**
- `KeyWords = 2`: a first and a last word, hence every branch of both state
  machines.  In `llkitarget` the announced lengths 1 to 4 cover a key that is
  empty, too short, right and too long; the contents of key words include one
  that would pass for a clear request.
- In `llkitarget` the wait-state counter of the TSS starts at 10, as in the source.
  A clear request can reach the TSS while it waits only after a refused key word
  and the response to it; from 4 on it finds the TSS in WAIT_STATE2, and from 9 on in
  WAIT_STATE0 as well, also in its last clock, where the request is not looked at.
  The second key word doubles as the header of a clear request, the first as that of an
  unknown one.  A status request of a wrong length is left out; a clear request
  of a wrong length, which is answered in the same way, is there.
- In `llki` the SRoT's wait-state counter starts at 1, so that each wait state is left
  both on the first and on a later clock and the counter wraps, and the TSS counts
  from 3: it is then busy for longer than the shortest round trip
  of a status poll, and the SRoT meets a core that is not ready for a key word.
- `KeyRamSize = 3`, `KeyIndexRamSize = 5`: entries for a right key, a key that
  is too long, an invalid entry, a bad pointer pair and a core that does not
  exist; index 5 exceeds the RAM.  The software may rewrite one key word and one
  entry between requests, to one other value each (`KeyRamWrites`,
  `KeyIndexRamWrites`).
- `NumCores = 1`, `C2Requests`: every kind of request for the usable entries,
  and each kind of request the SRoT must refuse.
- `FifoDepth = 2`, `ReqFifoDepth = 8`: a single-threaded software never has two
  requests queued and the master FIFO never holds more than one (checked:
  `PortsNeverCollide`), so the depths do not matter in this environment.  Full
  FIFOs need a software that does not wait for its responses (section 9).
- `lockregs`: three harts, so that a third one's access falls between the write
  and the read of a second; two locks, so that the shared request register
  carries another lock's request and a test that failed under lock 1 can ask for
  lock 0; a time-out of 2, so that a call tries again once and then gives up (a
  time-out of 1 is the second of the two tries); two harts run lock tests, so that
  one that keeps a lock meets another that does, and a caller that never keeps one.
- `multithread`: two cores and three tests: one word that is a plain scratch
  register, one that carries the signature and one that has no register; two
  sweeps before a thread gives up.
- `cosim`: two threads and the system slot, a command of each thread, main's
  two (the wave dump and the shut-down), and up to one error per thread: a driver
  blocks the simulator while main is still busy with the other thread.
- `scratchpad`: a FIFO of four entries, hence an almost-full mark of two; two
  words; requests of one, four and eight bytes, one beyond the RAM and malformed
  ones.
- `Body`, `Tag`: enough values to tell two key words, and an echoed tag from a
  tag that was reset.

## 5. Fairness

Hardware clocks do not stop: `WF_vars(Next)`.  In `LLKI` two conditions on the
fabric (a request on the master port is forwarded in the end, a valid answer is
handed over in the end), which is what TileLink demands of it, and one on the
software: it looks for its response again and again, as the polling loop does
(`SoftwareAct`).  The software need never make a request.  In `RegisterPort` the
master takes its answers in the end.  `LlkiTarget` needs only the clock, and
`Scratchpad` a master that takes an answer in the end.  In `LockRegs` the clock
runs and a program goes on that has called or works under a lock (it releases it
or, in a lock test, breaks on an error); no fairness among harts is assumed, nor
is it needed, since a call gives up.  In `MultiThread` the
threads run, and a lock that is free again and again is got before the tries run
out (strong fairness of the grant: 1000 tries against a lock that is held for two
accesses).  In `CoSim` main, the threads and the drivers keep running: the
operating system schedules the ones and the simulator the others.

## 6. Proofs

Checked by TLAPS for every value of the constants that satisfies their
assumptions (for the LLKI: one core, `KeyWords` in 1..255, any wait-state value, any set of
words that has a zero word, any set of requests, RAM writes and mode bits, RAMs
and FIFOs of any size, a Key RAM of at most 65534 words, so that the length of a
key with its header fits `msg_len`):

- `TypeCorrect`, `NoWordIsLost`, `AcknowledgementsTrue`, `CompleteKeysKept`
  (`LlkiTarget_proofs`).  `NoWordLost` is not inductive.  The invariant `IInv`
  strengthens it with
  - `CountsDown`: in LOAD_KEY_WORDS, `msg_len` is at least 2 (it would otherwise
    be decremented below zero);
  - `WordOnWires`: while a word is on the wires the write that brought it is
    still outstanding in the adapter, so that no second write can arrive (this is the
    pace that makes sampling `llkid_key_ready` a clock early sound), and the TSS
    is in a state that takes the word;
  - `ClearOnWires`: what `llkid_clear_key` and its acknowledgement say about the
    states of both sides;
  - `MessageKnown`: which `msg_id` and `status` go with which state;
  - `AckStaysTrue`: between WAIT_FOR_COMPLETE or CLEAR_KEY and the end of
    RESPONSE the TSS stays idle with the key complete, or cleared.

  The proof splits a step by the action of the LLKI-PP and, below it, by the
  action of the TSS; `PpMovesSo` says once how the wires follow from the
  LLKI-PP's action.
- `DeliveryTyped`, `PortsDoNotCollide`, `LockIsForGood` (`LLKI_proofs`).  The
  type invariant of the composition is not inductive by itself: the master FIFO
  could overflow its type, a response could be popped from an empty FIFO.  The
  invariant `Known` (`LLKIInv`) therefore says where things are:
  - `SlaveKnown`: the software's access is accepted, then answered by the
    register file one clock after its strobe, then shown to the software;
  - `TokenKnown`: the request of the software is in exactly one place: nowhere,
    on the FIFO's input, in the request FIFO, being taken, worked on, offered as a
    response, ready in the response FIFO, or fetched; the software hears of a
    response only when it is in its FIFO;
  - `AccessKnown`: in the wait states exactly one access to the core is under
    way, in the fabric or accepted by the adapter, of the kind the state waits
    for; in all others there is none.

  The core of `LLKI` is `LlkiTarget` with the SRoT as its master: every step of
  `LLKI` is a step of it or a stutter, so that its invariant holds here too.
  `LockedForGood` needs `SlaveKnown`: a RAM write that was decoded before the mode
  bit was set has left the decode register by then.
- `ResponsesAreTrue`, `ResponsesMatch`, `QuietBetween`, `InStep`,
  `NoWordIsMistaken` (`LLKIDialogue_proofs`): with the above, every safety
  property of `LLKI`.  A response is true because of what every block has done
  since the request was taken, so the invariant (`IInv` of `LLKIInv`, `Known` and
  the following) says what the registers mean while it is worked on:
  - `RequestKnown`: the registers of the state machine hold the software's
    request (`MessageInHand`), the read registers of the RAMs the entry and the
    key word it needs next (`EntryInHand`, `WordInHand`: the synchronous RAMs answer a
    clock late, hence the wait states), and the word on the bus is the header or
    that key word (`RightData`);
  - `PpKnown`: the LLKI-PP is idle exactly when no header has reached it or its
    response is read (`PpIdleKnown`), it expects as many key words as the SRoT
    has still to send (`PpLoadKnown`), and what it answers is true
    (`PpAnswerKnown`, by way of `Told`);
  - `StatusKnown`: a status bit the SRoT has read, or will read next, is no older
    than the message (a `resp_waiting` or `ready_for_key` of an earlier state
    would make it read a response that is not there, or send a word that is
    lost), and a clear is over when it is answered;
  - `WordsKnown`: the words accepted by the LLKI-PP and not yet stored by the TSS
    are the one on LLKI-Discrete (`WordOnItsWay`); the stored ones are as many as
    the TSS has counted (`WordsCounted`) and are the first words of the key in the
    Key RAM (`WordsRight`);
  - `ResponsesKnown`: a response passes on what the LLKI-PP told, with the tag of
    the request, or is a refusal of the SRoT's own.

  The steps are shown from small facts about one clock edge: how the access goes
  (`AccessGoes`), how the states of SRoT, LLKI-PP and TSS go.  The
  invariant of `LlkiTarget` is used at every step of the core: that no word is
  lost there is what makes the counts on both sides agree.  Nothing is assumed of
  the length of a key: a short one stops the dialogue (section 7) but never makes
  a response untrue.
- `KeyServiceImplemented` (last part of `LLKIDialogue_proofs`): `LLKI` implements
  `KeyService` under the mapping of section 4.  To the invariant `IInv` are added
  `SoundKnown` (the SRoT's checks have established what the service asks of a
  request: the length in the message, a valid entry, a core that exists) and
  `ClearKnown` (the TSS is at rest when it is told to clear).  A step is taken by
  where the request is.  Outside a dialogue the core rests (`CoreStays`), and the
  step is one of the software's (`NoRequestStep`), moves the request or its
  response (`RestingStep`, `RespondingStep`), or is a check of the SRoT
  (`CheckingStep`), where a fault found is the service's `Refuse`.  In a dialogue
  one lemma for each state of the LLKI-PP (`IdleServes` to `ResponseServes`) shows
  that the step is the one that serves the request, or changes neither the key nor
  what is decided, or passes on an answer already decided; `DialogueStep` draws the
  conclusion.  That the key loaded is the provisioned one comes from `WordsRight`,
  that an answer keeps its value on the way from `ResponsesKnown`.
- `PortImplemented`, `PortTyped` (`RegisterPort_proofs`): when no request is
  malformed, the adapter with its register file implements `TlulPort` under the
  mapping that takes `asked` for the pending request and the D-channel registers
  for the answer.  The invariant relates `outstanding_*`, `ack_d1` and `d_valid`:
  while an access is outstanding exactly one of "acknowledged now" and
  "answered" holds.

- `LocksTyped`, `LocksExclude`, `NoLockOrphaned`, `LocksImplementService`
  (`LockRegs_proofs`), when no caller is careless.  `MutualExclusion` holds
  because a hart inside owns the lock *and the access in flight will not take it
  away*; the invariant says this of each place of the program:
  - `RequestKnown`: a request in flight is one its hart is about to read back, a
    release one of a hart that has left, and not in an error;
  - `KeptOwned`: a lock that a failed lock test keeps is its own, now and after
    the access in flight, so that asking for it again grants nothing and takes
    nothing away;
  - `ToldTrue`: who was told that it has the lock owns it, now and after the
    access in flight;
  - `TriesLeft`: the tries have run out only in a hart that returns without;
  - `NoOrphanedLock` itself.

  `EdgeAccounts` says what a clock edge does to the effective owner (the owner
  after the access in flight), `OwnerKept` that it never takes a lock from a hart
  that was told, `NotGranted` that a hart whose read-back fails was not granted
  meanwhile.  The refinement maps the owner of `LockService` to the effective
  owner, so that the grant happens at the write.  Harts that hold other locks
  while they ask are covered: `cepLockTest_runTest2` after an error is one.
- `PoolTyped`, `TestsRunOnce` (`MultiThread_proofs`).  The claims do not protect
  the tests (section 7); the invariant therefore ties `ran` to the record of the
  preferred core's own thread: a test has run at most once, and only if that
  thread has it in `done`, and it has run by the time the thread has left it.
- `CoSimTyped`, `NobodyAbandoned`, `FreshServesOwn`, `MailDelivered`,
  `ErrorsAllCounted` (`CoSim_proofs`), on a fresh segment (`Stale = FALSE`; with a stale one they
  are false, section 7).  The invariant has one part per process: where main is
  and what it has forked (`MainKnown`), what the mailbox shows of a thread that
  is alive (`ThreadsKnown`), what the system slot holds (`SystemKnown`), and for
  every slot how command, copy, answer and flags go with the places of its client
  and driver (`MailKnown`, a conjunction of `SlotKnown`).  The abstract answer is
  visible from the moment the command is executed, before `mCmdValid` falls.
  `ErrorsAllCounted` needs one more part, `Tallied`: what main has added up is the
  number of errors of the threads it has taken off its table.  These threads are
  gone, so that their counts are final (`CountsFinal`); and the pass that ends the
  scan has found no thread on the table, so that at the end they are all threads.
- `CheckerExact`, `ScratchpadTyped`, `NothingIsDropped`, `ScratchpadIsRam`
  (`Scratchpad_proofs`), for every RAM size, FIFO depth and set of requests.
  `CheckerExact` compares `tlul_err` with a reference definition of a well-formed
  request for every address, mask and size up to a beat.  The margin is an
  inequality: FIFO plus the request in the response registers never exceed the
  depth, since a request is accepted only two entries below it.  The refinement
  takes the queue of `RamService` for FIFO and response registers together.

Only model-checked: the liveness properties (TLAPS has no ENABLED).  Every
invariant and every action property of a passing run is proved.

## 7. Where code and documentation disagree

- *A key that is too short hangs the LLKI.*  `llki_pkg.sv:212-213` promises
  KL_BAD_KEY_LEN for a key "whose length does not match the expected length".
  Only a key that is too long gets it.  After a short one the LLKI-PP waits in
  ST_SROT_KL_WAIT_FOR_COMPLETE for a completion that cannot come
  (`llki_pp_wrapper.sv:461-475`), and the SRoT polls it without limit.  The driver's
  poll runs into its own limit, whose result is ignored (`cep_srot.cc:172`), and
  it reads an empty response FIFO.
  `LLKI_ErrorTest` tries only a key that is too long.  (`WrongLengthReported`)
- *A malformed TileLink request gets no answer.*  `tlul_adapter_reg.sv:123`
  says "Return AccessAckData regardless of error", but the strobes are
  suppressed (98-102), hence nothing acknowledges the access and the release
  branch (147-156) drops it with `d_valid` never raised.  Requests of the
  platform's own masters are well-formed.  (`RequestAnswered`)
- *A time-out is taken for success.*  The extIntr test says "get the lock to
  create a pulse on targeted GPIO" (`riscv_wrapper.cc:78`) and tests the result
  of `cep_get_lock` for non-zero, as `cepPlicTest.cc:148` does; the result of a
  time-out is -1 (`cep_apis.cc:553-556`).  The caller works without the lock and
  releases one it does not own.  (`WorksUnderLock`)
- *A failed command is not counted.*  `SendCmdNwait` announces a check that the
  command was done successfully (`shIpc.cc:160`); `CheckCmdOK` counts an error
  only while `mCmdValid` is set (175), which the wait before it has excluded, and
  the driver acknowledges every command with success (`vpp2shMem.cc:215`).
  (`FailureCounted`)
- *A stale segment is used.*  "Shared memory segment already exist --- issue a
  remove...exiting" (`shMem.cc:60`) is neither a remove (`shmctl` is called with
  -1) nor an exit; the old segment is opened and the key published before the
  slots are initialised.  (`OwnCommandsOnly`)

Read in the code, without a run of its own:

- Every thread of the multi-thread test clears all claims when it starts
  (`cepMultiThread.cc:129-131`), and the words of tests 8 to 15 are no scratch
  registers (39-42), so that two threads can hold the same test.  That each core
  test still runs once (`EachTestOnce`) is due to `Preferred`, not to the claims.
- The signature by which the master tells the others that the keys are loaded
  (`cep_srot.cc:298-299`) lies in a word that the master's own set-up clears; a
  core that looks too late times out and goes on.
- A lock test that sees an error keeps the lock it holds for the rest of the run
  (`cepLockTest.cc:82`, `130`), and `cepLockTest_runTest2` goes on to ask for lock 0 and
  keeps that as well, even when its first error was only a time-out.  Every other
  hart's call for these locks then times out.  `LockIsFreed` excuses these locks and no
  others.
- `SetTheKey` creates the key file before it writes it (`shMem.cc:178-180`), and
  `GetTheKey` waits only for the file to exist (162-168): a simulator that looks in
  between reads no key, fails to attach and exits (50-52), and main waits for ever.
- A driver whose slot is not initialised yet is enabled before its thread exists
  (`dpi_common.incl:424`, `vpp2shMem.cc:92-94`); it then sees no command.

## 8. Not modelled

- Of the SRoT: the two scratchpad registers (plain storage) and the constant
  test bits of the control/status register.  A fabric that answers with TileLink
  errors: none is in the repository, and the core raises none for the registers
  the SRoT uses.
- Of the driver: the limit of its poll, `LLKI_ErrorTest`, the capture of accesses
  for playback, and more than one processor, which it forbids
  (`cep_srot.cc:243`).
- Of the CEP registers: version, scratch and core status, plain storage.
- Of the co-simulation: the remote path and the mail content (switched on or
  used nowhere), log files, ports and sockets.  `spiketile.cc` and the other
  Chipyard sources: upstream.
- The playback interpreter (`cep_playback`, `cep_apis.cc`): it replays a list of
  captured accesses in order and keeps no state but its position.  Two things seen
  while reading it: `defualt:` (516) is a label and no default, so that an invalid command
  is neither counted nor passed over, and a spin whose address is out of range is
  not counted and does not advance the list (480-511): playback then looks at the
  same entry until its count of commands runs out, and reports success.
- The playback vectors (`drivers/vectors/*_playback.h`): most of the repository's
  own lines, generated lists of bus accesses without control flow.
- The core tests: stimulus for the data paths.
- Crypto and DSP cores: arithmetic on wide words, out of TLC's reach and mostly
  third-party.  Scala generators: elaboration-time wiring.  Boot code, SD model,
  Chipyard, FireSim, FPGA, VLSI and documentation trees: upstream code or
  configuration.

## 9. State of the plan

Done: the LLKI (package, adapter, LLKI-PP, TSS, SRoT, their compositions), the
abstract register port, the locks and the multi-thread test, the co-simulation
mailbox, scratchpad and checker; the refinements to the five abstract
specifications; proofs of the safety invariants and of all refinements.

Left: `LLKI` in harsher environments (a software that queues requests and lets
responses pile up, so that the C2 FIFOs fill and the flush hits a request; a
fabric with errors).
