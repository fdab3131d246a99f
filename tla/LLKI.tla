-------------------------------- MODULE LLKI --------------------------------
(***************************************************************************)
(* The whole key-delivery path: software on one processor, the SRoT, the   *)
(* TileLink fabric and one LLKI-enabled core (adapter, LLKI-PP, Mock TSS). *)
(* A step is one clock edge of everything.                                 *)
(*                                                                         *)
(* Software follows cep_srot.cc: it writes a C2 request, polls the SRoT's  *)
(* RESP_WAITING bit, reads the response, and touches the RAMs and the mode *)
(* bits only between requests.  It may pause for any time between two      *)
(* accesses.                                                               *)
(*                                                                         *)
(* The fabric between the SRoT and the core delivers requests and answers  *)
(* in order and unchanged, each after any delay from zero clocks up: fwd   *)
(* and back say whether it forwards the oldest request, and hands over the *)
(* answer, in this clock.                                                  *)
(***************************************************************************)
EXTENDS SRoT

CONSTANTS
    KeyWords, TssWaitInit,          \* see MockTSS
    C2Requests,                     \* the requests the software makes
    KeyRamWrites,                   \* the writes it makes to the RAMs ...
    KeyIndexRamWrites,
    ModeBits,                       \* ... and the mode bits it sets
    InitialKeyRam,
    InitialKeyIndexRam

ASSUME SoftwareAssumption ==
    /\ C2Requests \subseteq C2RequestWord
    /\ KeyRamWrites \subseteq [idx : 0 .. KeyRamSize - 1, wdata : Word]
    /\ KeyIndexRamWrites \subseteq
           [idx : 0 .. KeyIndexRamSize - 1, wdata : IndexEntry]
    /\ ModeBits \subseteq {0, 1}
    /\ InitialKeyRam \in [0 .. KeyRamSize - 1 -> Word]
    /\ InitialKeyIndexRam \in [0 .. KeyIndexRamSize - 1 -> IndexEntry]

\* The core the keys are for (see LlkiTarget), ...
ASSUME CoreAssumption == KeyWords \in 1 .. 255 /\ TssWaitInit \in Byte
\* ... which is the only one: the fabric has nowhere else to forward to, ...
ASSUME OneCoreAssumption == NumCores = 1
\* ... and a value that stands for nothing cannot be taken for something.
ASSUME NoneAssumption ==
    /\ None \notin C2RequestWord /\ None \notin C2ResponseWord
    /\ None \notin HostRequest
    /\ None \notin {"SEND", "POLL", "FETCH", "SETUP"}

VARIABLES
    (* the software *)
    sw_state,       \* "FREE", "AWAIT" a response, response "WAITING"
    sw_op,          \* its access that the SRoT has not answered yet, or None
    sw_request,     \* its last C2 request, or None
    (* the TileLink adapter of the SRoT's slave port *)
    s_outstanding_read, s_outstanding_write, s_req_id, s_resp_opcode,
    s_error, s_d_valid, s_rdata,
    (* the core: its TileLink adapter, ... *)
    outstanding_read, outstanding_write, req_id, resp_opcode, error, d_valid,
    rdata,
    (* ... its LLKI-PP ... *)
    llkid_key_data, llkid_key_valid, llkid_clear_key,
    llkipp_ctrlstatus_register, pp_write_error, pp_reg_we_o_d1,
    llkipp_response_waiting, llkipp_response_word,
    pp_msg_id, pp_status, pp_msg_len, llkipp_current_state,
    (* ... and its TSS *)
    llkid_key_ready, llkid_key_complete, llkid_clear_key_ack,
    llkid_key_register, llkid_key_word_counter, tss_wait_state_counter,
    tss_state

swVars == <<sw_state, sw_op, sw_request>>
slaveVars == <<s_outstanding_read, s_outstanding_write, s_req_id,
               s_resp_opcode, s_error, s_d_valid, s_rdata>>
coreVars == <<outstanding_read, outstanding_write, req_id, resp_opcode, error,
              d_valid, rdata, llkid_key_data, llkid_key_valid,
              llkid_clear_key, llkipp_ctrlstatus_register, pp_write_error,
              pp_reg_we_o_d1, llkipp_response_waiting, llkipp_response_word,
              pp_msg_id, pp_status, pp_msg_len, llkipp_current_state,
              llkid_key_ready, llkid_key_complete, llkid_clear_key_ack,
              llkid_key_register, llkid_key_word_counter,
              tss_wait_state_counter, tss_state>>
vars == <<swVars, slaveVars, srotVars, coreVars>>

SlaveRdata == {None} \cup Word \cup IndexEntry \cup C2ResponseWord
                \cup [resp_waiting : BOOLEAN, mode : SUBSET {0, 1}]
SlaveData == Word \cup IndexEntry \cup C2RequestWord \cup SUBSET {0, 1}

Slave == INSTANCE TlulAdapterReg WITH
    Addr <- SrotAddr, Data <- SlaveData, Rdata <- SlaveRdata,
    RdataReset <- None, Source <- {0}, SourceReset <- 0,
    outstanding_read <- s_outstanding_read,
    outstanding_write <- s_outstanding_write, req_id <- s_req_id,
    resp_opcode <- s_resp_opcode, error <- s_error, d_valid <- s_d_valid,
    rdata <- s_rdata

\* The master the core serves is the SRoT, so Requests plays no role here.
Core == INSTANCE LlkiTarget WITH
    Requests <- {}, NoRequest <- None,
    write_error <- pp_write_error, reg_we_o_d1 <- pp_reg_we_o_d1,
    msg_id <- pp_msg_id, status <- pp_status, msg_len <- pp_msg_len

Init ==
    /\ sw_state = "FREE"
    /\ sw_op = None
    /\ sw_request = None
    /\ Slave!AdapterInit
    /\ SrotInit(InitialKeyRam, InitialKeyIndexRam)
    /\ Core!TargetInit

-----------------------------------------------------------------------------
(* The fabric between the SRoT and the core *)

\* The core index chooses no target here (OneCoreAssumption).
KLRequestChannel(fwd) ==
    LET out == MasterOut
        q == IF out # <<>> THEN Head(out)
             ELSE [core |-> 0, offset |-> "CTRLSTS", we |-> FALSE,
                   wdata |-> ZeroWord]
    IN [valid |-> fwd /\ out # <<>>,
        opcode |-> IF q.we THEN "PutFullData" ELSE "Get",
        addr |-> q.offset, data |-> q.wdata, source |-> 0,
        malformed |-> FALSE]

KLAnswerChannel(back) ==
    [valid |-> d_valid /\ back, rdata |-> rdata,
     err |-> d_valid /\ back /\ error]

\* Everything behind the slave port advances by one clock; r is the access the
\* slave adapter strobes.
Hardware(r, fwd, back) ==
    LET a == KLRequestChannel(fwd) IN
    /\ SrotStep(r, KLAnswerChannel(back), Core!a_ack(a))
    /\ Core!Clock(a, back)

-----------------------------------------------------------------------------
(* The software.  An access is offered in one clock, accepted at once (there  *)
(* is no other master and none is outstanding) and over when d_valid is seen. *)

SlaveChannel(valid, opcode, unit, idx, data) ==
    [valid |-> valid, opcode |-> opcode,
     addr |-> [unit |-> unit, idx |-> idx], data |-> data, source |-> 0,
     malformed |-> FALSE]
Write(unit, idx, data) == SlaveChannel(TRUE, "PutFullData", unit, idx, data)
Read(unit) == SlaveChannel(TRUE, "Get", unit, 0, {})
Silent == SlaveChannel(FALSE, "Get", "OTHER", 0, {})

SlaveStrobe(a) == [we |-> Slave!we_o(a), re |-> Slave!re_o(a),
                   addr |-> a.addr, wdata |-> a.data]

\* One clock in which the slave port carries a.
Clock(a, fwd, back) ==
    /\ Slave!AdapterStep(a, srot_ack_i, srot_error_i, srot_rdata_i, TRUE)
    /\ Hardware(SlaveStrobe(a), fwd, back)

SendRequest(m, fwd, back) ==
    /\ sw_state = "FREE" /\ sw_op = None
    /\ Clock(Write("SENDRECV", 0, m), fwd, back)
    /\ sw_op' = "SEND"
    /\ sw_request' = m
    /\ UNCHANGED sw_state

Poll(fwd, back) ==
    /\ sw_state = "AWAIT" /\ sw_op = None
    /\ Clock(Read("CTRLSTS"), fwd, back)
    /\ sw_op' = "POLL"
    /\ UNCHANGED <<sw_state, sw_request>>

FetchResponse(fwd, back) ==
    /\ sw_state = "WAITING" /\ sw_op = None
    /\ Clock(Read("SENDRECV"), fwd, back)
    /\ sw_op' = "FETCH"
    /\ UNCHANGED <<sw_state, sw_request>>

SetUp(a, fwd, back) ==
    /\ sw_state = "FREE" /\ sw_op = None
    /\ Clock(a, fwd, back)
    /\ sw_op' = "SETUP"
    /\ UNCHANGED <<sw_state, sw_request>>

WriteKeyRam(fwd, back) ==
    \E w \in KeyRamWrites : SetUp(Write("KEYRAM", w.idx, w.wdata), fwd, back)
WriteKeyIndexRam(fwd, back) ==
    \E w \in KeyIndexRamWrites :
        SetUp(Write("KEYINDEXRAM", w.idx, w.wdata), fwd, back)
SetMode(fwd, back) ==
    \E b \in ModeBits : SetUp(Write("CTRLSTS", 0, {b}), fwd, back)

\* The answer to an access arrives.
Answered(fwd, back) ==
    /\ sw_op # None /\ s_d_valid
    /\ Clock(Silent, fwd, back)
    /\ sw_op' = None
    /\ sw_state' =
           CASE sw_op = "SEND" -> "AWAIT"
             [] sw_op = "POLL" -> IF s_rdata.resp_waiting THEN "WAITING"
                                                          ELSE "AWAIT"
             [] sw_op = "FETCH" -> "FREE"
             [] OTHER -> sw_state
    /\ sw_request' = IF sw_op = "FETCH" THEN None ELSE sw_request

\* The software does nothing that the SRoT could see.
Pause(fwd, back) ==
    /\ ~(sw_op # None /\ s_d_valid)
    /\ Clock(Silent, fwd, back)
    /\ UNCHANGED swVars

SoftwareAct(fwd, back) ==
    Poll(fwd, back) \/ FetchResponse(fwd, back) \/ Answered(fwd, back)

Step(fwd, back) ==
    \/ \E m \in C2Requests : SendRequest(m, fwd, back)
    \/ WriteKeyRam(fwd, back)
    \/ WriteKeyIndexRam(fwd, back)
    \/ SetMode(fwd, back)
    \/ SoftwareAct(fwd, back)
    \/ Pause(fwd, back)

Next == \E fwd, back \in BOOLEAN : Step(fwd, back)
Spec == Init /\ [][Next]_vars

\* What may not stop: the clock, the fabric (a request or an answer is handed
\* over in the end) and the software, which looks for its response again and
\* again.  The software need never make a request.
FairSpec ==
    /\ Spec
    /\ WF_vars(\E back \in BOOLEAN : MasterOut # <<>> /\ Step(TRUE, back))
    /\ WF_vars(\E fwd \in BOOLEAN : d_valid /\ Step(fwd, TRUE))
    /\ WF_vars(\E fwd, back \in BOOLEAN : SoftwareAct(fwd, back))
    /\ WF_vars(Next)

-----------------------------------------------------------------------------
(* Properties *)

\* Every register holds a value of its type.
TypeOK ==
    /\ sw_state \in {"FREE", "AWAIT", "WAITING"}
    /\ sw_op \in {None, "SEND", "POLL", "FETCH", "SETUP"}
    /\ sw_request \in C2Requests \cup {None}
    /\ Slave!AdapterTypeOK
    /\ SrotTypeOK
    /\ Core!TypeOK

\* The responses between the SRoT's state machine and the software.
ResponsesInFlight ==
    ({respfifo_wdata_i} \ {None})
      \cup {llkic2_respfifo[i] : i \in DOMAIN llkic2_respfifo}
      \cup (IF sw_op = "FETCH" /\ s_d_valid THEN {s_rdata} ELSE {})

\* The Key Index RAM entry a request names, and the key it delimits.
EntryOf(m) == keyindexram[m.key_index]
KeyLength(m) == EntryOf(m).high - EntryOf(m).low + 1
KeyOf(m) == [i \in 0 .. KeyWords - 1 |-> keyram[EntryOf(m).low + i]]

\* What the software is told is true of the core when it is told: an
\* acknowledged load means that the TSS holds exactly the key the request
\* named, word for word; an acknowledged clear that no key word is left; a
\* status response agrees with the TSS; an overwrite error that a key is there
\* and a length error that none is.
ResponseIsTrue ==
    \A resp \in ResponsesInFlight :
        CASE resp.id = "C2LOADKEYACK" ->
                 /\ llkid_key_complete
                 /\ KeyLength(sw_request) = KeyWords
                 /\ llkid_key_register = KeyOf(sw_request)
          [] resp.id = "C2CLEARKEYACK" ->
                 ~llkid_key_complete /\ llkid_key_register = Core!NoKey
          [] resp.id = "C2KEYSTATUSRESP" ->
                 (resp.status = "KEY_PRESENT") = llkid_key_complete
          [] OTHER ->
                 /\ resp.status = "KL_KEY_OVERWRITE" => llkid_key_complete
                 /\ resp.status = "KL_BAD_KEY_LEN" => ~llkid_key_complete

\* The response answers the request that is outstanding: it carries its tag
\* and is of its kind or an error, and there is never a second one.
AckOf == [id \in C2Request |->
             CASE id = "C2LOADKEYREQ" -> "C2LOADKEYACK"
               [] id = "C2CLEARKEYREQ" -> "C2CLEARKEYACK"
               [] id = "C2KEYSTATUSREQ" -> "C2KEYSTATUSRESP"]
ResponseMatchesRequest ==
    \A resp \in ResponsesInFlight :
        /\ sw_request # None
        /\ resp.rsvd = sw_request.rsvd
        /\ \/ resp.id = "ERRORRESP"
           \/ sw_request.id \in C2Request /\ resp.id = AckOf[sw_request.id]
        /\ ResponsesInFlight = {resp}
        /\ Len(llkic2_respfifo) <= 1

\* Between two requests nothing of the first is left anywhere: no message, no
\* access to the core, no half-finished dialogue; and no access of the software
\* is ever answered with a TileLink error.
QuietBetweenRequests ==
    /\ sw_state = "FREE" /\ sw_op = None =>
           /\ llkic2_reqfifo = <<>> /\ reqfifo_wdata_i = None
           /\ ResponsesInFlight = {}
           /\ srot_current_state = "IDLE"
           /\ MasterOut = <<>> /\ Core!a_ready
           /\ llkipp_current_state = "IDLE"
           /\ ~llkid_key_valid /\ ~llkid_clear_key
           /\ tss_state = "IDLE"
    /\ s_d_valid => ~s_error

\* The SRoT and the LLKI-PP never get out of step: no key word is sent before
\* the TSS is ready for it, no message is found malformed, and no response of
\* the LLKI-PP makes no sense to the SRoT.
NeverOutOfStep ==
    /\ llkipp_current_state = "RESPONSE" =>
           pp_status \notin {"KL_LOSS_OF_SYNC", "KL_REQ_BAD_MSG_ID",
                             "KL_REQ_BAD_MSG_LEN"}
    /\ \A resp \in ResponsesInFlight :
           resp.status \notin {"KL_LOSS_OF_SYNC", "KL_REQ_BAD_MSG_ID",
                               "KL_REQ_BAD_MSG_LEN", "KL_RESP_BAD_MSG_ID",
                               "KL_TILELINK_ERROR", "UNKNOWN_ERROR"}

\* Nothing on the bus tells a key word from a header, yet a key word is never
\* taken for a header, and a word is ignored only after the LLKI-PP has found
\* an error in the same message.
NoWordMistaken ==
    /\ llkipp_current_state = "MESSAGE_CHECK" =>
           srot_current_state = "KL_REQ_WAIT_FOR_ACK"
    /\ pp_reg_we_o_d1 =>
           \/ llkipp_current_state = "MESSAGE_CHECK"
           \/ llkid_key_valid
           \/ pp_msg_id = "ERRORRESP"

\* Polling has one access to the core in flight at a time, so the master FIFO
\* is never near full; and in this environment a TileLink write to a RAM never
\* lands while the state machine owns the address port, where it would hit the
\* entry or the key word in use.  (The second half rests on the software, which
\* writes to the RAMs only between requests: the hardware does not see to it.)
PortsNeverCollide ==
    /\ host # None => master_reqfifo = <<>> /\ Core!a_ready
    /\ Len(master_reqfifo) <= 1
    /\ ram_write_i # None => srot_current_state = "IDLE"

\* Once a mode bit is set the RAMs do not change any more, not even by a write
\* that was already on its way, and the bits stay set.
LockedForGood ==
    [][srot_ctrlstatus_register.mode # {} =>
           /\ UNCHANGED <<keyram, keyindexram>>
           /\ srot_ctrlstatus_register.mode
                  \subseteq srot_ctrlstatus_register'.mode]_vars

\* Every request is answered and the software is free again.
RequestAnswered == sw_state = "AWAIT" ~> sw_state = "FREE"

\* A load of a key whose length is not the one the core expects is reported
\* as such.
WrongLengthLoad ==
    /\ sw_state = "AWAIT"
    /\ sw_request.id = "C2LOADKEYREQ"
    /\ KeyLength(sw_request) # KeyWords
    /\ ~llkid_key_complete
WrongLengthReported ==
    WrongLengthLoad ~>
        \E resp \in ResponsesInFlight : resp.status = "KL_BAD_KEY_LEN"
=============================================================================
