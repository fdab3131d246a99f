-------------------------------- MODULE SRoT --------------------------------
(***************************************************************************)
(* The Surrogate Root of Trust (srot_wrapper.sv): the register file, the   *)
(* Key RAM and Key Index RAM with their shared address port, the two C2    *)
(* message FIFOs, the FIFO in front of the TileLink master port and the    *)
(* state machine that turns one C2 request of the software into a dialogue *)
(* with the LLKI-PP of a core.                                             *)
(*                                                                         *)
(* One action per branch of each clocked process; SrotStep conjoins them   *)
(* into one clock edge.  Parameters: r is the register access strobed by   *)
(* the slave adapter, d the master D channel, taken whether the TileLink   *)
(* fabric accepts the oldest master request in this clock.                 *)
(*                                                                         *)
(* The two scratchpad registers (plain storage nothing else looks at) and  *)
(* the constant test bits of the control/status register are left out.     *)
(***************************************************************************)
EXTENDS LlkiPkg, Sequences

CONSTANTS
    KeyIndexRamSize,    \* SROT_KEYINDEXRAM_SIZE
    KeyRamSize,         \* SROT_KEYRAM_SIZE
    NumCores,           \* length of LLKI_CORE_INDEX_ARRAY
    FifoDepth,          \* FIFO_DEPTH of the C2 FIFOs
    ReqFifoDepth,       \* REQ_FIFO_DEPTH of the master port
    SrotWaitInit,       \* SROT_WAIT_STATE_COUNTER_INIT
    Tag,                \* bits 63:40 of a C2 word, echoed in the response
    ZeroTag,
    None                \* "nothing on these wires in this clock"

\* A key that fills the Key RAM still fits the 16 bits of msg_len with its header.
ASSUME SrotAssumption ==
    /\ KeyIndexRamSize \in 1 .. 255
    /\ KeyRamSize \in Nat \ {0} /\ KeyRamSize <= 65534
    /\ NumCores \in 1 .. 255
    /\ FifoDepth \in Nat \ {0}
    /\ ReqFifoDepth \in Nat /\ ReqFifoDepth > 2
    /\ SrotWaitInit \in Byte
    /\ ZeroTag \in Tag

\* Pointers have 16 bits; the address register of the Key RAM is wider and takes
\* the one after the last.
MaxPointer == 65535
Pointer == 0 .. MaxPointer
KeyRamAddr == 0 .. MaxPointer + 1

\* A word of the Key Index RAM.
IndexEntry == [valid : BOOLEAN, core : Byte, high : Pointer, low : Pointer]

\* The messages between the software and the SRoT.
C2RequestWord == [id : Mid, len : MsgLen, key_index : Byte, rsvd : Tag]
C2ResponseWord == [id : Mid, status : Status, len : MsgLen, rsvd : Tag]

SrotAddr == [unit : {"KEYRAM", "KEYINDEXRAM", "CTRLSTS", "SENDRECV", "OTHER"},
             idx : Nat]

\* A request on the master port: the core selects LLKI_CORE_INDEX_ARRAY, offset
\* one of its two registers.
HostRequest == [core : Byte, offset : {"CTRLSTS", "SENDRECV"},
                we : BOOLEAN, wdata : Word]

VARIABLES
    (* register file *)
    reg_addr_o_d1, reg_we_o_d1, reg_re_o_d1,
    srot_ctrlstatus_register,       \* [resp_waiting, mode]
    write_error,
    ram_write_i,                    \* key*ram_write_i with key*ram_wdata_i
    reqfifo_wdata_i,                \* None when reqfifo_wvalid_i is low
    (* memories and FIFOs *)
    keyram, keyram_rdata_o,
    keyindexram, keyindexram_rdata_o,
    llkic2_reqfifo, llkic2_respfifo,
    master_reqfifo,
    (* registers of the state machine *)
    host,                           \* None when host_req_i is low
    keyindexram_stm_addr_i, keyram_stm_addr_i,
    llkic2_reqfifo_clr_i, llkic2_reqfifo_rready_i,
    respfifo_wdata_i,               \* None when respfifo_wvalid_i is low
    rsvd, msg_id, status, msg_len, key_index, current_pointer,
    wait_state_counter,
    srot_current_state

decodeVars == <<reg_addr_o_d1, reg_we_o_d1, reg_re_o_d1,
                srot_ctrlstatus_register, write_error, ram_write_i,
                reqfifo_wdata_i>>
memVars == <<keyram, keyram_rdata_o, keyindexram, keyindexram_rdata_o,
             llkic2_reqfifo, llkic2_respfifo, master_reqfifo>>
stmVars == <<host, keyindexram_stm_addr_i, keyram_stm_addr_i,
             llkic2_reqfifo_clr_i, llkic2_reqfifo_rready_i, respfifo_wdata_i,
             rsvd, msg_id, status, msg_len, key_index, current_pointer,
             wait_state_counter, srot_current_state>>
srotVars == <<decodeVars, memVars, stmVars>>

SrotState == {
    "IDLE", "MESSAGE_CHECK", "RETRIEVE_KEY_INDEX_WAIT_STATE",
    "RETRIEVE_KEY_INDEX", "KL_REQ_HEADER", "KL_REQ_WAIT_FOR_ACK",
    "KL_READ_READY_STATUS", "KL_CHECK_READY_STATUS", "KL_READY_WAIT_STATE",
    "KL_LOAD_KEY_WORD", "KL_LOAD_KEY_WORD_WAIT_FOR_ACK",
    "KL_READ_RESP_STATUS", "KL_CHECK_RESP_STATUS", "KL_RESP_WAIT_STATE",
    "KL_RESP_READ", "C2_RESPONSE"}

NoAddr == [unit |-> "OTHER", idx |-> 0]

\* The RAMs have no reset; their contents when the system comes up are a
\* parameter of the initial state.
SrotInit(keys, entries) ==
    /\ reg_addr_o_d1 = NoAddr
    /\ reg_we_o_d1 = FALSE
    /\ reg_re_o_d1 = FALSE
    /\ srot_ctrlstatus_register = [resp_waiting |-> FALSE, mode |-> {}]
    /\ write_error = FALSE
    /\ ram_write_i = None
    /\ reqfifo_wdata_i = None
    /\ keyram = keys /\ keyram_rdata_o = keys[0]
    /\ keyindexram = entries /\ keyindexram_rdata_o = entries[0]
    /\ llkic2_reqfifo = <<>>
    /\ llkic2_respfifo = <<>>
    /\ master_reqfifo = <<>>
    /\ host = None
    /\ keyindexram_stm_addr_i = 0
    /\ keyram_stm_addr_i = 0
    /\ llkic2_reqfifo_clr_i = FALSE
    /\ llkic2_reqfifo_rready_i = FALSE
    /\ respfifo_wdata_i = None
    /\ rsvd = ZeroTag
    /\ msg_id = MidReset
    /\ status = StatusReset
    /\ msg_len = 0
    /\ key_index = 0
    /\ current_pointer = 0
    /\ wait_state_counter = SrotWaitInit
    /\ srot_current_state = "IDLE"

-----------------------------------------------------------------------------
(* Register decode *)

Unlocked_mutant == srot_ctrlstatus_register.mode # {0, 1}
Unlocked == srot_ctrlstatus_register.mode = {}
RamWrite(r) == r.we /\ r.addr.unit \in {"KEYRAM", "KEYINDEXRAM"}
ReqFifoFull == Len(llkic2_reqfifo) = FifoDepth

\* Write decode.  The mode bits can be set and never cleared; RAM writes are
\* dropped without an error once either is set.
SrotWriteDecode(r) ==
    /\ reg_addr_o_d1' = r.addr
    /\ reg_we_o_d1' = r.we
    /\ reg_re_o_d1' = r.re
    /\ srot_ctrlstatus_register' =
           [resp_waiting |-> llkic2_respfifo # <<>>,
            mode |-> srot_ctrlstatus_register.mode \cup
                     (IF r.we /\ r.addr.unit = "CTRLSTS" THEN r.wdata
                                                         ELSE {})]
    /\ ram_write_i' = IF RamWrite(r) /\ Unlocked
                      THEN [ram |-> r.addr.unit, wdata |-> r.wdata]
                      ELSE None
    /\ reqfifo_wdata_i' = IF r.we /\ r.addr.unit = "SENDRECV" /\ ~ReqFifoFull
                          THEN r.wdata
                          ELSE None
    /\ write_error' = (r.we /\ \/ r.addr.unit = "OTHER"
                               \/ r.addr.unit = "SENDRECV" /\ ReqFifoFull)

\* Read decode, one clock after the strobe.
RespFifoPop == reg_re_o_d1 /\ reg_addr_o_d1.unit = "SENDRECV"
                 /\ llkic2_respfifo # <<>>
srot_rdata_i ==
    IF ~reg_re_o_d1 THEN None
    ELSE CASE reg_addr_o_d1.unit = "KEYRAM" /\ Unlocked -> keyram_rdata_o
           [] reg_addr_o_d1.unit = "KEYINDEXRAM" /\ Unlocked ->
                  keyindexram_rdata_o
           [] reg_addr_o_d1.unit = "CTRLSTS" -> srot_ctrlstatus_register
           [] RespFifoPop -> Head(llkic2_respfifo)
           [] OTHER -> None
srot_read_error ==
    reg_re_o_d1 /\ \/ reg_addr_o_d1.unit = "OTHER"
                   \/ reg_addr_o_d1.unit = "SENDRECV" /\ ~RespFifoPop
srot_error_i == srot_read_error \/ write_error
srot_ack_i == reg_re_o_d1 \/ reg_we_o_d1

-----------------------------------------------------------------------------
(* Memories and FIFOs *)

\* Unless IDLE, the state machine owns the address port of both RAMs, also
\* when a TileLink write is pending.  (The index of an address of another unit
\* does not matter: nothing is written then and nothing read is used.)
RamIndex(r, unit, stm_addr, size) ==
    IF srot_current_state # "IDLE" THEN stm_addr % size
    ELSE LET a == IF reg_we_o_d1 THEN reg_addr_o_d1 ELSE r.addr
         IN IF a.unit = unit THEN a.idx ELSE 0

\* prim_generic_ram_1p: a write leaves the read register as it is.
RamStep(r) ==
    LET k == RamIndex(r, "KEYRAM", keyram_stm_addr_i, KeyRamSize)
        x == RamIndex(r, "KEYINDEXRAM", keyindexram_stm_addr_i,
                      KeyIndexRamSize)
        writes(ram) == ram_write_i # None /\ ram_write_i.ram = ram
    IN /\ IF writes("KEYRAM")
          THEN /\ keyram' = [keyram EXCEPT ![k] = ram_write_i.wdata]
               /\ UNCHANGED keyram_rdata_o
          ELSE /\ keyram_rdata_o' = keyram[k]
               /\ UNCHANGED keyram
       /\ IF writes("KEYINDEXRAM")
          THEN /\ keyindexram' = [keyindexram EXCEPT ![x] = ram_write_i.wdata]
               /\ UNCHANGED keyindexram_rdata_o
          ELSE /\ keyindexram_rdata_o' = keyindexram[x]
               /\ UNCHANGED keyindexram

\* prim_fifo_sync with Pass = 0: the flush wins over a write, a full FIFO drops
\* what is written, and what is written shows up in the next clock.
FifoNext(q, clr, w, pop) ==
    IF clr THEN <<>>
    ELSE (IF pop /\ q # <<>> THEN Tail(q) ELSE q)
           \o (IF w # None /\ Len(q) < FifoDepth THEN <<w>> ELSE <<>>)

C2FifoStep_mutant ==                    \* a response is not taken out
    /\ llkic2_reqfifo' = FifoNext(llkic2_reqfifo, llkic2_reqfifo_clr_i,
                                  reqfifo_wdata_i, llkic2_reqfifo_rready_i)
    /\ llkic2_respfifo' = FifoNext(llkic2_respfifo, FALSE,
                                   respfifo_wdata_i, FALSE)

C2FifoStep ==
    /\ llkic2_reqfifo' = FifoNext(llkic2_reqfifo, llkic2_reqfifo_clr_i,
                                  reqfifo_wdata_i, llkic2_reqfifo_rready_i)
    /\ llkic2_respfifo' = FifoNext(llkic2_respfifo, FALSE,
                                   respfifo_wdata_i, RespFifoPop)

\* tlul_fifo_sync with ReqPass = 1: a request can leave in the clock in which
\* it is made.  MasterOut is what the fabric sees, oldest first.
MasterOut ==
    master_reqfifo \o
        (IF host # None /\ Len(master_reqfifo) < ReqFifoDepth
         THEN <<host>> ELSE <<>>)
MasterFifoStep_mutant(taken) == master_reqfifo' = MasterOut
MasterFifoStep(taken) ==
    master_reqfifo' = IF taken THEN Tail(MasterOut) ELSE MasterOut
req_almost_full == Len(master_reqfifo) >= ReqFifoDepth - 2

-----------------------------------------------------------------------------
(* State machine *)

low_pointer == keyindexram_rdata_o.low
high_pointer == keyindexram_rdata_o.high
core_index == keyindexram_rdata_o.core

request == <<rsvd, msg_id, msg_len, key_index>>

stmStatus == <<srot_current_state, llkic2_reqfifo_clr_i, status>>
Goto(s) == srot_current_state' = s
Proceed(s) == Goto(s) /\ UNCHANGED <<llkic2_reqfifo_clr_i, status>>

\* An error found before the dialogue with the core: the request FIFO is
\* flushed "as a precaution" and the software gets an error response.
Refuse(st) ==
    /\ Goto("C2_RESPONSE")
    /\ llkic2_reqfifo_clr_i' = TRUE
    /\ status' = st

NoHost == host' = None
NoPop == llkic2_reqfifo_rready_i' = FALSE
NoC2Response == respfifo_wdata_i' = None
ResetWait == wait_state_counter' = SrotWaitInit
ResetPointer == current_pointer' = 0
KeyRamIdle == keyram_stm_addr_i' = 0

Access(offset, we, wdata) ==
    [core |-> core_index, offset |-> offset, we |-> we, wdata |-> wdata]
ReadStatus == host' = Access("CTRLSTS", FALSE, ZeroWord)

\* ST_SROT_IDLE
StmIdle ==
    /\ srot_current_state = "IDLE"
    /\ NoHost /\ NoC2Response /\ ResetWait /\ ResetPointer /\ KeyRamIdle
    /\ keyindexram_stm_addr_i' = 0
    /\ status' = StatusReset
    /\ UNCHANGED llkic2_reqfifo_clr_i
    /\ IF llkic2_reqfifo # <<>>
       THEN LET m == Head(llkic2_reqfifo) IN
            /\ msg_id' = m.id
            /\ msg_len' = m.len
            /\ key_index' = m.key_index
            /\ rsvd' = m.rsvd
            /\ llkic2_reqfifo_rready_i' = TRUE
            /\ Goto("MESSAGE_CHECK")
       ELSE /\ msg_id' = MidReset
            /\ msg_len' = 0
            /\ key_index' = 0
            /\ rsvd' = ZeroTag
            /\ NoPop
            /\ UNCHANGED srot_current_state

\* ST_SROT_MESSAGE_CHECK: the later check overrides the earlier ones.
StmMessageCheck ==
    /\ srot_current_state = "MESSAGE_CHECK"
    /\ NoHost /\ NoPop /\ NoC2Response /\ ResetWait /\ ResetPointer
    /\ KeyRamIdle
    /\ keyindexram_stm_addr_i' = IF msg_id \in C2Request THEN key_index ELSE 0
    /\ IF key_index >= KeyIndexRamSize THEN Refuse("KEY_INDEX_EXCEED")
       ELSE IF msg_len # 1 THEN Refuse("BAD_MSG_LEN")
       ELSE IF msg_id \notin C2Request THEN Refuse("BAD_MSG_ID")
       ELSE Proceed("RETRIEVE_KEY_INDEX_WAIT_STATE")
    /\ UNCHANGED request

\* ST_SROT_RETRIEVE_KEY_INDEX_WAIT_STATE
StmRetrieveWait ==
    /\ srot_current_state = "RETRIEVE_KEY_INDEX_WAIT_STATE"
    /\ NoHost /\ NoPop /\ NoC2Response /\ ResetWait /\ ResetPointer
    /\ KeyRamIdle
    /\ Proceed("RETRIEVE_KEY_INDEX")
    /\ UNCHANGED <<request, keyindexram_stm_addr_i>>

\* ST_SROT_RETRIEVE_KEY_INDEX
BadPointerPair ==
    \/ low_pointer >= KeyRamSize
    \/ high_pointer >= KeyRamSize
    \/ low_pointer > high_pointer

StmRetrieve ==
    /\ srot_current_state = "RETRIEVE_KEY_INDEX"
    /\ NoHost /\ NoPop /\ NoC2Response /\ ResetWait /\ ResetPointer
    /\ KeyRamIdle
    /\ IF ~keyindexram_rdata_o.valid THEN Refuse("KEY_INDEX_INVALID")
       ELSE IF BadPointerPair THEN Refuse("BAD_POINTER_PAIR")
       ELSE IF core_index > NumCores - 1 THEN Refuse("BAD_CORE_INDEX")
       ELSE Proceed("KL_REQ_HEADER")
    /\ UNCHANGED <<request, keyindexram_stm_addr_i>>

\* ST_SROT_KL_REQ_HEADER.  (An identifier that is no request cannot get here;
\* the code has a trap branch for it all the same.)
Header_mutant ==                        \* the header itself not counted
    CASE msg_id = "C2LOADKEYREQ" ->
             HeaderWord("KLLOADKEYREQ", StatusReset,
                        ((high_pointer - low_pointer) + 1) % 65536)
      [] msg_id = "C2CLEARKEYREQ" -> HeaderWord("KLCLEARKEYREQ", StatusReset, 1)
      [] msg_id = "C2KEYSTATUSREQ" ->
             HeaderWord("KLKEYSTATUSREQ", StatusReset, 1)
Header ==
    CASE msg_id = "C2LOADKEYREQ" ->
             HeaderWord("KLLOADKEYREQ", StatusReset,
                        ((high_pointer - low_pointer) + 2) % 65536)
      [] msg_id = "C2CLEARKEYREQ" -> HeaderWord("KLCLEARKEYREQ", StatusReset, 1)
      [] msg_id = "C2KEYSTATUSREQ" ->
             HeaderWord("KLKEYSTATUSREQ", StatusReset, 1)

StmReqHeader ==
    /\ srot_current_state = "KL_REQ_HEADER"
    /\ NoPop /\ NoC2Response /\ ResetWait /\ KeyRamIdle
    /\ IF req_almost_full
       THEN NoHost /\ UNCHANGED <<stmStatus, current_pointer>>
       ELSE /\ current_pointer' = low_pointer
            /\ IF msg_id \in C2Request
               THEN /\ host' = Access("SENDRECV", TRUE, Header)
                    /\ Proceed("KL_REQ_WAIT_FOR_ACK")
               ELSE NoHost /\ Refuse("BAD_CORE_INDEX")
    /\ UNCHANGED <<request, keyindexram_stm_addr_i>>

\* ST_SROT_KL_REQ_WAIT_FOR_ACK: an error answer counts as an acknowledgement.
StmReqWaitForAck(d) ==
    /\ srot_current_state = "KL_REQ_WAIT_FOR_ACK"
    /\ NoHost /\ NoPop /\ NoC2Response /\ ResetWait
    /\ keyram_stm_addr_i' = IF d.valid THEN current_pointer ELSE 0
    /\ IF ~d.valid THEN UNCHANGED stmStatus
       ELSE IF msg_id = "C2LOADKEYREQ" THEN Proceed("KL_READ_READY_STATUS")
       ELSE Proceed("KL_READ_RESP_STATUS")
    /\ UNCHANGED <<request, keyindexram_stm_addr_i, current_pointer>>

\* ST_SROT_KL_READ_READY_STATUS
StmReadReadyStatus ==
    /\ srot_current_state = "KL_READ_READY_STATUS"
    /\ NoPop /\ NoC2Response /\ ResetWait
    /\ IF req_almost_full
       THEN NoHost /\ UNCHANGED stmStatus
       ELSE ReadStatus /\ Proceed("KL_CHECK_READY_STATUS")
    /\ UNCHANGED <<request, keyindexram_stm_addr_i, keyram_stm_addr_i,
                   current_pointer>>

\* ST_SROT_KL_CHECK_READY_STATUS
NextReadyState_mutant(sts) ==           \* takes the core to be ready
    IF sts.resp_waiting THEN "KL_READ_RESP_STATUS" ELSE "KL_LOAD_KEY_WORD"
NextReadyState(sts) ==
    IF sts.resp_waiting THEN "KL_READ_RESP_STATUS"
    ELSE IF sts.ready_for_key THEN "KL_LOAD_KEY_WORD"
    ELSE "KL_READY_WAIT_STATE"

StmCheckReadyStatus(d) ==
    /\ srot_current_state = "KL_CHECK_READY_STATUS"
    /\ NoHost /\ NoPop /\ NoC2Response /\ ResetWait
    /\ IF d.valid THEN Proceed(NextReadyState(d.rdata))
                  ELSE UNCHANGED stmStatus
    /\ UNCHANGED <<request, keyindexram_stm_addr_i, keyram_stm_addr_i,
                   current_pointer>>

TileLinkError ==
    /\ msg_id' = "ERRORRESP"
    /\ status' = "KL_TILELINK_ERROR"
    /\ msg_len' = 1
    /\ Goto("C2_RESPONSE")
    /\ UNCHANGED <<rsvd, key_index, llkic2_reqfifo_clr_i>>

\* ST_SROT_KL_READY_WAIT_STATE
StmReadyWaitState(d) ==
    /\ srot_current_state = "KL_READY_WAIT_STATE"
    /\ NoHost /\ NoPop /\ NoC2Response
    /\ wait_state_counter' = Dec8(wait_state_counter)
    /\ IF d.err THEN TileLinkError
       ELSE /\ Proceed(IF wait_state_counter = 0 THEN "KL_READ_READY_STATUS"
                                                 ELSE srot_current_state)
            /\ UNCHANGED request
    /\ UNCHANGED <<keyindexram_stm_addr_i, keyram_stm_addr_i,
                   current_pointer>>

\* ST_SROT_KL_LOAD_KEY_WORD
StmLoadKeyWord ==
    /\ srot_current_state = "KL_LOAD_KEY_WORD"
    /\ ResetWait
    /\ IF req_almost_full
       THEN NoHost /\ UNCHANGED stmStatus
       ELSE /\ host' = Access("SENDRECV", TRUE, keyram_rdata_o)
            /\ Proceed("KL_LOAD_KEY_WORD_WAIT_FOR_ACK")
    /\ UNCHANGED <<request, keyindexram_stm_addr_i, keyram_stm_addr_i,
                   current_pointer, llkic2_reqfifo_rready_i,
                   respfifo_wdata_i>>

\* ST_SROT_KL_LOAD_KEY_WORD_WAIT_FOR_ACK
LastWord_mutant == current_pointer = high_pointer + 1
LastWord == current_pointer = high_pointer

StmLoadKeyWordWaitForAck(d) ==
    /\ srot_current_state = "KL_LOAD_KEY_WORD_WAIT_FOR_ACK"
    /\ NoHost /\ ResetWait
    /\ IF ~d.valid
       THEN UNCHANGED <<stmStatus, keyram_stm_addr_i, current_pointer>>
       ELSE IF LastWord
       THEN /\ Proceed("KL_READ_RESP_STATUS")
            /\ UNCHANGED <<keyram_stm_addr_i, current_pointer>>
       ELSE /\ keyram_stm_addr_i' = current_pointer + 1
            /\ current_pointer' = (current_pointer + 1) % 65536
            /\ Proceed("KL_READ_READY_STATUS")
    /\ UNCHANGED <<request, keyindexram_stm_addr_i, llkic2_reqfifo_rready_i,
                   respfifo_wdata_i>>

\* ST_SROT_KL_READ_RESP_STATUS
StmReadRespStatus ==
    /\ srot_current_state = "KL_READ_RESP_STATUS"
    /\ NoPop /\ NoC2Response /\ ResetWait /\ ResetPointer /\ KeyRamIdle
    /\ IF req_almost_full
       THEN NoHost /\ UNCHANGED stmStatus
       ELSE ReadStatus /\ Proceed("KL_CHECK_RESP_STATUS")
    /\ UNCHANGED <<request, keyindexram_stm_addr_i>>

\* ST_SROT_KL_CHECK_RESP_STATUS
StmCheckRespStatus(d) ==
    /\ srot_current_state = "KL_CHECK_RESP_STATUS"
    /\ NoPop /\ NoC2Response /\ ResetWait /\ ResetPointer /\ KeyRamIdle
    /\ IF ~d.valid
       THEN NoHost /\ UNCHANGED stmStatus
       ELSE IF d.rdata.resp_waiting
       THEN /\ host' = Access("SENDRECV", FALSE, ZeroWord)
            /\ Proceed("KL_RESP_READ")
       ELSE NoHost /\ Proceed("KL_RESP_WAIT_STATE")
    /\ UNCHANGED <<request, keyindexram_stm_addr_i>>

\* ST_SROT_KL_RESP_WAIT_STATE
StmRespWaitState(d) ==
    /\ srot_current_state = "KL_RESP_WAIT_STATE"
    /\ NoHost /\ NoPop /\ NoC2Response /\ ResetPointer /\ KeyRamIdle
    /\ wait_state_counter' = IF wait_state_counter > 0
                             THEN wait_state_counter - 1 ELSE 0
    /\ IF d.err THEN TileLinkError
       ELSE /\ Proceed(IF wait_state_counter = 0 /\ ~req_almost_full
                       THEN "KL_READ_RESP_STATUS" ELSE srot_current_state)
            /\ UNCHANGED request
    /\ UNCHANGED keyindexram_stm_addr_i

\* ST_SROT_KL_RESP_READ
StmRespRead(d) ==
    /\ srot_current_state = "KL_RESP_READ"
    /\ NoHost /\ NoPop /\ NoC2Response /\ ResetWait /\ ResetPointer
    /\ KeyRamIdle
    /\ IF d.err THEN TileLinkError
       ELSE IF d.valid
       THEN /\ msg_id' = d.rdata.id
            /\ status' = d.rdata.status
            /\ msg_len' = d.rdata.len
            /\ Goto("C2_RESPONSE")
            /\ UNCHANGED <<rsvd, key_index, llkic2_reqfifo_clr_i>>
       ELSE UNCHANGED <<request, stmStatus>>
    /\ UNCHANGED keyindexram_stm_addr_i

\* ST_SROT_C2_RESPONSE: the response is written whether or not the response
\* FIFO has room.
C2Message_mutant(id, st) ==             \* does not echo the tag
    [id |-> id, status |-> st, len |-> 1, rsvd |-> ZeroTag]
C2Message(id, st) == [id |-> id, status |-> st, len |-> 1, rsvd |-> rsvd]
C2ResponseMessage ==
    IF status \in {"GOOD", "KEY_PRESENT", "KEY_NOT_PRESENT"}
    THEN CASE msg_id = "KLLOADKEYACK" -> C2Message("C2LOADKEYACK", status)
           [] msg_id = "KLCLEARKEYACK" -> C2Message("C2CLEARKEYACK", status)
           [] msg_id = "KLKEYSTATUSRESP" ->
                  C2Message("C2KEYSTATUSRESP", status)
           [] OTHER -> C2Message("ERRORRESP", "KL_RESP_BAD_MSG_ID")
    ELSE C2Message("ERRORRESP",
                   IF status \in {"UNKNOWN_ERROR", "OTHER"}
                   THEN "UNKNOWN_ERROR" ELSE status)

EndFlush_mutant == UNCHANGED llkic2_reqfifo_clr_i
EndFlush == llkic2_reqfifo_clr_i' = FALSE

StmC2Response ==
    /\ srot_current_state = "C2_RESPONSE"
    /\ NoHost /\ NoPop /\ ResetWait /\ ResetPointer /\ KeyRamIdle
    /\ keyindexram_stm_addr_i' = 0
    /\ EndFlush
    /\ key_index' = 0
    /\ respfifo_wdata_i' = C2ResponseMessage
    /\ Goto("IDLE")
    /\ UNCHANGED <<rsvd, msg_id, msg_len, status>>

StmStep(d) ==
    \/ StmIdle \/ StmMessageCheck \/ StmRetrieveWait \/ StmRetrieve
    \/ StmReqHeader \/ StmReqWaitForAck(d)
    \/ StmReadReadyStatus \/ StmCheckReadyStatus(d) \/ StmReadyWaitState(d)
    \/ StmLoadKeyWord \/ StmLoadKeyWordWaitForAck(d)
    \/ StmReadRespStatus \/ StmCheckRespStatus(d) \/ StmRespWaitState(d)
    \/ StmRespRead(d) \/ StmC2Response

-----------------------------------------------------------------------------

SrotStep(r, d, taken) ==
    /\ SrotWriteDecode(r)
    /\ RamStep(r)
    /\ C2FifoStep
    /\ MasterFifoStep(taken)
    /\ StmStep(d)

\* The registers hold values of their types: those of the decode, ...
DecodeTypeOK ==
    /\ reg_addr_o_d1 \in SrotAddr
    /\ reg_we_o_d1 \in BOOLEAN
    /\ reg_re_o_d1 \in BOOLEAN
    /\ srot_ctrlstatus_register \in [resp_waiting : BOOLEAN,
                                     mode : SUBSET {0, 1}]
    /\ write_error \in BOOLEAN
    /\ ram_write_i \in {None} \cup [ram : {"KEYRAM"}, wdata : Word]
                         \cup [ram : {"KEYINDEXRAM"}, wdata : IndexEntry]
    /\ reqfifo_wdata_i \in {None} \cup C2RequestWord

\* ... RAMs and FIFOs, ...
MemTypeOK ==
    /\ keyram \in [0 .. KeyRamSize - 1 -> Word]
    /\ keyram_rdata_o \in Word
    /\ keyindexram \in [0 .. KeyIndexRamSize - 1 -> IndexEntry]
    /\ keyindexram_rdata_o \in IndexEntry
    /\ llkic2_reqfifo \in Seq(C2RequestWord)
    /\ llkic2_respfifo \in Seq(C2ResponseWord)
    /\ master_reqfifo \in Seq(HostRequest)

\* ... and those of the state machine.
StmTypeOK ==
    /\ host \in {None} \cup HostRequest
    /\ keyindexram_stm_addr_i \in Byte
    /\ keyram_stm_addr_i \in KeyRamAddr
    /\ llkic2_reqfifo_clr_i \in BOOLEAN
    /\ llkic2_reqfifo_rready_i \in BOOLEAN
    /\ respfifo_wdata_i \in {None} \cup C2ResponseWord
    /\ rsvd \in Tag
    /\ msg_id \in Mid
    /\ status \in Status
    /\ msg_len \in MsgLen
    /\ key_index \in Byte
    /\ current_pointer \in Pointer
    /\ wait_state_counter \in Byte
    /\ srot_current_state \in SrotState

SrotTypeOK == DecodeTypeOK /\ MemTypeOK /\ StmTypeOK
=============================================================================
