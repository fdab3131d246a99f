------------------------------- MODULE Scratchpad -------------------------------
(***************************************************************************)
(* The scratchpad RAM on TileLink (scratchpad_wrapper.sv): a RAM whose     *)
(* read data come a clock after the address, registers that delay the rest *)
(* of the response by the same clock, and a response FIFO (tlul_fifo_sync) *)
(* that closes the request channel while it is almost full.  A step is a   *)
(* clock.  Addresses are relative to ADDRESS.                              *)
(***************************************************************************)
EXTENDS TlulErr, Sequences

CONSTANTS
    Words,          \* DEPTH / 8, a power of two
    RspDepth,       \* RSP_FIFO_DEPTH, 10
    Requests        \* what masters ask for

NoRequest == [valid |-> FALSE]
NoRsp == [valid |-> FALSE]
Word64 == [Lanes -> 0 .. 255]

\* The bus offers transfers of up to eight bytes, never of 64 (a_size 6).
ASSUME ScratchpadAssumption ==
    /\ Words \in Nat \ {0}
    /\ RspDepth \in Nat /\ RspDepth > 2
    /\ \A a \in Requests :
         a \in [valid : {TRUE}, opcode : Opcodes, size : (0 .. 15) \ {6},
                source : Nat, address : Nat, mask : SUBSET Lanes,
                data : Word64]

VARIABLES
    mem,            \* scratchpad_ram_inst
    rdata_o,        \* its read data
    rsp,            \* the registers of slave_tl_d2h_i
    fifo            \* the response FIFO
vars == <<mem, rdata_o, rsp, fifo>>

-----------------------------------------------------------------------------
(* Signals *)

rsp_almost_full_mutant == Len(fifo) >= RspDepth         \* no margin
rsp_almost_full == Len(fifo) >= RspDepth - 2
a_ready == ~rsp_almost_full

Accepted(a) == a.valid /\ a_ready
scratchpad_write_i_mutant(a) ==         \* ready or not
    a.valid /\ a.opcode \in Put
scratchpad_write_i(a) == Accepted(a) /\ a.opcode \in Put

scratchpad_addr_i(a) == a.address \div 8
addr_err(a) == scratchpad_addr_i(a) >= Words
\* The RAM sees the low address bits only.
RamAddr(a) == scratchpad_addr_i(a) % Words

Masked_mutant(a, old) == [l \in a.mask |-> a.data[l]]   \* no bit mask
Masked(a, old) == [l \in Lanes |-> IF l \in a.mask THEN a.data[l] ELSE old[l]]

\* The response of the last clock's request as it enters the FIFO.
Response ==
    [opcode |-> rsp.opcode, size |-> rsp.size, source |-> rsp.source,
     error |-> rsp.error,
     data |-> IF rsp.opcode = "AccessAckData" THEN rdata_o ELSE [l \in Lanes |-> 0]]

\* prim_fifo_sync falls through when it is empty and refuses when it is full.
Queue == IF rsp.valid /\ Len(fifo) < RspDepth THEN Append(fifo, Response) ELSE fifo
slave_d_valid == Queue # <<>>

-----------------------------------------------------------------------------
Init ==
    /\ mem = [w \in 0 .. Words - 1 |-> [l \in Lanes |-> 0]]
    /\ rdata_o = [l \in Lanes |-> 0]      \* not used before the first read
    /\ rsp = NoRsp
    /\ fifo = <<>>

RamStep(a) ==
    IF scratchpad_write_i(a)
      THEN /\ mem' = [mem EXCEPT ![RamAddr(a)] = Masked(a, @)]
           /\ UNCHANGED rdata_o
      ELSE /\ UNCHANGED mem
           /\ IF a.valid THEN rdata_o' = mem[RamAddr(a)]
              ELSE \E w \in 0 .. Words - 1 : rdata_o' = mem[w]

ResponseStep(a) ==
    rsp' = IF Accepted(a)
             THEN [valid |-> TRUE,
                   opcode |-> IF a.opcode \in Put THEN "AccessAck"
                              ELSE "AccessAckData",
                   size |-> a.size, source |-> a.source,
                   error |-> err_o(a) \/ addr_err(a)]
             ELSE NoRsp

FifoStep_mutant(slave_d_ready) ==       \* does not empty once it is almost full
    fifo' = IF slave_d_ready /\ slave_d_valid /\ ~rsp_almost_full THEN Tail(Queue)
            ELSE Queue
FifoStep(slave_d_ready) ==
    fifo' = IF slave_d_ready /\ slave_d_valid THEN Tail(Queue) ELSE Queue

Clock(a, slave_d_ready) == RamStep(a) /\ ResponseStep(a) /\ FifoStep(slave_d_ready)

Next == \E a \in Requests \cup {NoRequest}, slave_d_ready \in BOOLEAN :
            Clock(a, slave_d_ready)

Spec == Init /\ [][Next]_vars
\* The master takes responses in the end, again and again.
Deliver == slave_d_valid /\ \E a \in Requests \cup {NoRequest} : Clock(a, TRUE)
FairSpec == Spec /\ WF_vars(Deliver)

-----------------------------------------------------------------------------
(* Properties *)

Responses == [opcode : {"AccessAck", "AccessAckData"}, size : 0 .. 15, source : Nat,
              error : BOOLEAN, data : Word64]

\* The RAM, the response registers and the FIFO hold values of their type.
TypeOK ==
    /\ mem \in [0 .. Words - 1 -> Word64]
    /\ rdata_o \in Word64
    /\ rsp \in {NoRsp} \cup [valid : {TRUE}, opcode : {"AccessAck", "AccessAckData"},
                            size : 0 .. 15, source : Nat, error : BOOLEAN]
    /\ fifo \in Seq(Responses)

\* No response is lost: the FIFO has room for the request that was accepted in
\* the very clock in which it became almost full ("there could be a reequest
\* in-flight when d_channel becomes NOT ready").
NothingDropped == rsp.valid => Len(fifo) < RspDepth

\* The scratchpad is a RAM with a queue of answers (RamService): every request is
\* answered once, in order, by its own data and error, taken when the request
\* was, although data and header reach the FIFO by different ways.
Ram == INSTANCE RamService WITH
    ram <- mem,
    answers <- IF rsp.valid THEN Append(fifo, Response) ELSE fifo
ImplementsRam == Ram!RamSpec

\* A port that has closed opens again.
PortReopens == []<>a_ready
=============================================================================
