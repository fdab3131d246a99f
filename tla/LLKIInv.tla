------------------------------ MODULE LLKIInv ------------------------------
(***************************************************************************)
(* Why LLKI is correct: where the one request of the software, the one     *)
(* access of the SRoT to the core and the key words of a load are at every *)
(* clock edge.  The conjunction IInv is inductive (LLKI_proofs,            *)
(* LLKIDialogue_proofs) and implies the safety properties of LLKI.         *)
(***************************************************************************)
EXTENDS LLKI

-----------------------------------------------------------------------------
(* The software's access to the SRoT *)

NoStrobe == ~reg_we_o_d1 /\ ~reg_re_o_d1

\* One access at a time: accepted, then answered by the register file one
\* clock after its strobe, then shown to the software.
SlaveKnown ==
    /\ sw_op = None =>
           ~s_outstanding_read /\ ~s_outstanding_write /\ ~s_d_valid /\ NoStrobe
    /\ sw_op \in {"SEND", "SETUP"} =>
           /\ ~s_outstanding_read /\ s_outstanding_write
           /\ ~reg_re_o_d1 /\ (reg_we_o_d1 <=> ~s_d_valid)
    /\ sw_op \in {"POLL", "FETCH"} =>
           /\ s_outstanding_read /\ ~s_outstanding_write
           /\ ~reg_we_o_d1 /\ (reg_re_o_d1 <=> ~s_d_valid)
    /\ ~s_error /\ ~write_error
    /\ sw_op = "POLL" /\ reg_re_o_d1 => reg_addr_o_d1.unit = "CTRLSTS"
    /\ sw_op = "FETCH" /\ reg_re_o_d1 => reg_addr_o_d1.unit = "SENDRECV"
    /\ reg_we_o_d1 =>
           /\ reg_addr_o_d1.unit = "KEYRAM" => reg_addr_o_d1.idx < KeyRamSize
           /\ reg_addr_o_d1.unit = "KEYINDEXRAM" =>
                  reg_addr_o_d1.idx < KeyIndexRamSize
    /\ sw_op \in {"SEND", "SETUP"} => sw_state = "FREE"
    /\ sw_op = "POLL" => sw_state = "AWAIT"
    /\ sw_op = "FETCH" => sw_state = "WAITING"
    /\ sw_request = None <=> sw_state = "FREE" /\ sw_op # "SEND"
    /\ ram_write_i # None => sw_op = "SETUP" /\ reg_we_o_d1
    /\ ram_write_i # None => srot_ctrlstatus_register.mode = {}
    /\ reqfifo_wdata_i # None => sw_op = "SEND" /\ reg_we_o_d1

-----------------------------------------------------------------------------
(* The request and its response *)

\* The FIFOs between the software and the state machine.
Holds(w, q, v, p) ==
    /\ reqfifo_wdata_i = w /\ llkic2_reqfifo = q
    /\ respfifo_wdata_i = v /\ llkic2_respfifo = p

Resting == srot_current_state = "IDLE" /\ ~llkic2_reqfifo_clr_i
             /\ ~llkic2_reqfifo_rready_i

Nowhere == sw_request = None /\ Resting /\ Holds(None, <<>>, None, <<>>)
Written == /\ sw_op = "SEND" /\ reg_we_o_d1 /\ Resting
           /\ Holds(sw_request, <<>>, None, <<>>)
Queued == /\ sw_request # None /\ Resting
          /\ sw_op = "SEND" => s_d_valid
          /\ Holds(None, <<sw_request>>, None, <<>>)
Taken == /\ sw_request # None
         /\ sw_op = "SEND" => s_d_valid
         /\ srot_current_state = "MESSAGE_CHECK"
         /\ ~llkic2_reqfifo_clr_i /\ llkic2_reqfifo_rready_i
         /\ Holds(None, <<sw_request>>, None, <<>>)
Working == /\ sw_request # None
           /\ sw_op = "SEND" => s_d_valid
           /\ srot_current_state \notin {"IDLE", "MESSAGE_CHECK"}
           /\ llkic2_reqfifo_clr_i => srot_current_state = "C2_RESPONSE"
           /\ ~llkic2_reqfifo_rready_i
           /\ Holds(None, <<>>, None, <<>>)
Offered == /\ sw_request # None
           /\ sw_op = "SEND" => s_d_valid
           /\ Resting /\ respfifo_wdata_i # None
           /\ Holds(None, <<>>, respfifo_wdata_i, <<>>)
Ready == /\ sw_request # None /\ Resting
         /\ sw_op = "SEND" => s_d_valid
         /\ sw_op = "FETCH" => reg_re_o_d1
         /\ Holds(None, <<>>, None, <<Head(llkic2_respfifo)>>)
Fetched == /\ sw_op = "FETCH" /\ s_d_valid /\ s_rdata # None
           /\ Resting
           /\ Holds(None, <<>>, None, <<>>)

\* The request is in exactly one place, and the software knows of the response
\* only once it is in its FIFO.
TokenKnown ==
    /\ \/ Nowhere \/ Written \/ Queued \/ Taken \/ Working \/ Offered
       \/ Ready \/ Fetched
    /\ sw_state = "WAITING" => Ready \/ Fetched
    /\ srot_ctrlstatus_register.resp_waiting => Ready \/ Fetched
    /\ sw_op = "POLL" /\ s_d_valid /\ s_rdata.resp_waiting => Ready

-----------------------------------------------------------------------------
(* The SRoT's access to the core *)

CoreIdle ==
    ~outstanding_read /\ ~outstanding_write /\ ~d_valid /\ ~pp_reg_we_o_d1
CoreWriting ==
    ~outstanding_read /\ outstanding_write /\ ~d_valid /\ pp_reg_we_o_d1
CoreWritten ==
    ~outstanding_read /\ outstanding_write /\ d_valid /\ ~pp_reg_we_o_d1
CoreRead ==
    outstanding_read /\ ~outstanding_write /\ d_valid /\ ~pp_reg_we_o_d1

NoAccess == host = None /\ master_reqfifo = <<>>
Pending == IF host # None THEN host ELSE Head(master_reqfifo)
InFabric ==
    /\ CoreIdle
    /\ \/ host # None /\ master_reqfifo = <<>>
       \/ host = None /\ master_reqfifo = <<Pending>>

WriteStates == {"KL_REQ_WAIT_FOR_ACK", "KL_LOAD_KEY_WORD_WAIT_FOR_ACK"}
StatusStates == {"KL_CHECK_READY_STATUS", "KL_CHECK_RESP_STATUS"}
WaitStates == WriteStates \cup StatusStates \cup {"KL_RESP_READ"}

\* What the access of a waiting state st asks for, and what it gets.
RightRequest(h, st) ==
    /\ h \in HostRequest
    /\ h.we <=> st \in WriteStates
    /\ h.offset = IF st \in StatusStates THEN "CTRLSTS" ELSE "SENDRECV"
RightAnswer ==
    /\ srot_current_state \in StatusStates => rdata \in CtrlStatus
    /\ srot_current_state = "KL_RESP_READ" => rdata \in Word

AccessKnown ==
    /\ ~error /\ ~pp_write_error
    /\ srot_current_state \notin WaitStates => NoAccess /\ CoreIdle
    /\ srot_current_state \in WaitStates =>
           \/ InFabric /\ RightRequest(Pending, srot_current_state)
           \/ NoAccess /\ IF srot_current_state \in WriteStates
                          THEN CoreWriting \/ CoreWritten
                          ELSE CoreRead /\ RightAnswer

Known == TypeOK /\ SlaveKnown /\ TokenKnown /\ AccessKnown

-----------------------------------------------------------------------------
(* The request while the state machine works on it *)

Asked == EntryOf(sw_request)

Checking == {"RETRIEVE_KEY_INDEX_WAIT_STATE", "RETRIEVE_KEY_INDEX"}
ReadyStates == {"KL_READ_READY_STATUS", "KL_CHECK_READY_STATUS",
                "KL_READY_WAIT_STATE"}
LoadStates == ReadyStates \cup {"KL_LOAD_KEY_WORD",
                                "KL_LOAD_KEY_WORD_WAIT_FOR_ACK"}
RespStates == {"KL_READ_RESP_STATUS", "KL_CHECK_RESP_STATUS",
               "KL_RESP_WAIT_STATE", "KL_RESP_READ"}
Dialogue == {"KL_REQ_HEADER", "KL_REQ_WAIT_FOR_ACK"} \cup LoadStates
              \cup RespStates

\* The registers of the state machine describe the software's request, ...
MessageInHand ==
    /\ srot_current_state # "IDLE" => rsvd = sw_request.rsvd
    /\ srot_current_state \in {"MESSAGE_CHECK"} \cup Checking \cup Dialogue =>
           /\ msg_id = sw_request.id
           /\ key_index = sw_request.key_index
    /\ srot_current_state \in Checking \cup Dialogue => msg_id \in C2Request
    /\ srot_current_state \in LoadStates => msg_id = "C2LOADKEYREQ"

\* ... the read register of the Key Index RAM the entry it is about, ...
EntryInHand ==
    /\ srot_current_state \in Checking \cup Dialogue =>
           /\ key_index < KeyIndexRamSize
           /\ keyindexram_stm_addr_i = key_index
    /\ srot_current_state \in {"RETRIEVE_KEY_INDEX"} \cup Dialogue =>
           keyindexram_rdata_o = Asked
    /\ srot_current_state \in Dialogue =>
           Asked.low <= Asked.high /\ Asked.high < KeyRamSize

\* ... that of the Key RAM the key word that is next, ...
WordInHand ==
    /\ srot_current_state = "KL_REQ_WAIT_FOR_ACK" => current_pointer = Asked.low
    /\ srot_current_state \in LoadStates =>
           /\ keyram_stm_addr_i = current_pointer
           /\ Asked.low <= current_pointer /\ current_pointer <= Asked.high
    /\ srot_current_state \in LoadStates \ {"KL_READ_READY_STATUS"} =>
           keyram_rdata_o = keyram[current_pointer]

\* ... and what is written to the core is the header or that key word.
RightData ==
    /\ srot_current_state = "KL_REQ_WAIT_FOR_ACK" /\ InFabric =>
           Pending.wdata = Header
    /\ srot_current_state = "KL_LOAD_KEY_WORD_WAIT_FOR_ACK" /\ InFabric =>
           Pending.wdata = keyram[current_pointer]

RequestKnown == MessageInHand /\ EntryInHand /\ WordInHand /\ RightData

-----------------------------------------------------------------------------
(* The dialogue with the core *)

\* What a response says of the core is true, and an answer to the request.
Told(id, st) ==
    CASE id = "KLLOADKEYACK" ->
             /\ sw_request.id = "C2LOADKEYREQ" /\ st = "GOOD"
             /\ llkid_key_complete
             /\ KeyLength(sw_request) = KeyWords
             /\ llkid_key_register = KeyOf(sw_request)
      [] id = "KLCLEARKEYACK" ->
             /\ sw_request.id = "C2CLEARKEYREQ" /\ st = "GOOD"
             /\ ~llkid_key_complete /\ llkid_key_register = Core!NoKey
      [] id = "KLKEYSTATUSRESP" ->
             /\ sw_request.id = "C2KEYSTATUSREQ"
             /\ st = IF llkid_key_complete THEN "KEY_PRESENT"
                                           ELSE "KEY_NOT_PRESENT"
      [] id = "ERRORRESP" ->
             /\ sw_request.id = "C2LOADKEYREQ"
             /\ \/ st = "KL_KEY_OVERWRITE" /\ llkid_key_complete
                \/ st = "KL_BAD_KEY_LEN" /\ ~llkid_key_complete
      [] OTHER -> FALSE

Refusal == {"KEY_INDEX_EXCEED", "BAD_MSG_LEN", "BAD_MSG_ID",
            "KEY_INDEX_INVALID", "BAD_POINTER_PAIR", "BAD_CORE_INDEX"}

\* The header has not reached the LLKI-PP, or its response has been read.
Undelivered ==
    \/ srot_current_state \notin Dialogue \/ srot_current_state = "KL_REQ_HEADER"
    \/ srot_current_state = "KL_REQ_WAIT_FOR_ACK" /\ InFabric
Closed == srot_current_state = "KL_RESP_READ" /\ ~InFabric

\* The SRoT has words to send, and none on the way that is not in MasterOut.
Sending == \/ srot_current_state \in LoadStates
                \ {"KL_LOAD_KEY_WORD_WAIT_FOR_ACK"}
           \/ srot_current_state = "KL_LOAD_KEY_WORD_WAIT_FOR_ACK" /\ InFabric
\* It has sent one, which may have been the last.
Sent == srot_current_state = "KL_LOAD_KEY_WORD_WAIT_FOR_ACK" /\ ~InFabric

\* Where the LLKI-PP is in the dialogue: ...
PpIdleKnown ==
    /\ llkipp_current_state = "IDLE" <=> Undelivered \/ Closed
    /\ llkipp_current_state = "MESSAGE_CHECK" <=>
           srot_current_state = "KL_REQ_WAIT_FOR_ACK" /\ CoreWriting
    /\ llkipp_current_state = "MESSAGE_CHECK" =>
           /\ pp_msg_id = Header.id /\ pp_msg_len = Header.len

\* ... it expects as many key words as the SRoT has still to send, ...
PpLoadKnown ==
    /\ llkipp_current_state = "LOAD_KEY_WORDS" =>
           /\ pp_msg_id = "KLLOADKEYREQ" /\ msg_id = "C2LOADKEYREQ"
           /\ srot_current_state \notin RespStates
           /\ pp_msg_len = IF Sent THEN (Asked.high - current_pointer) + 1
                                   ELSE (Asked.high - current_pointer) + 2
    /\ llkipp_current_state = "WAIT_FOR_COMPLETE" =>
           pp_msg_id = "KLLOADKEYACK" /\ msg_id = "C2LOADKEYREQ"
    /\ llkipp_current_state \in {"WAIT_FOR_COMPLETE", "RESPONSE"}
           /\ pp_msg_id = "KLLOADKEYACK" =>
           /\ srot_current_state # "KL_REQ_WAIT_FOR_ACK"
           /\ ~Sending
           /\ Sent => current_pointer = Asked.high

\* ... and its answer is true.
PpAnswerKnown ==
    /\ llkipp_current_state = "CLEAR_KEY" =>
           IF msg_id = "C2CLEARKEYREQ" THEN pp_msg_id = "KLCLEARKEYREQ"
           ELSE msg_id = "C2LOADKEYREQ" /\ pp_msg_id = "ERRORRESP"
                  /\ pp_status = "KL_BAD_KEY_LEN"
    /\ llkipp_current_state = "RESPONSE" => Told(pp_msg_id, pp_status)

PpKnown == PpIdleKnown /\ PpLoadKnown /\ PpAnswerKnown

\* What the SRoT has read, or will read next, of the LLKI-PP's registers is no
\* older than the message: that a response is waiting ...
WaitingKnown ==
    /\ llkipp_response_waiting =>
           /\ ~llkid_clear_key
           /\ \/ llkipp_current_state = "RESPONSE"
                   /\ llkipp_response_word = Core!HeaderWord(pp_msg_id, pp_status, 1)
              \/ Closed
    /\ llkipp_ctrlstatus_register.resp_waiting =>
           \/ llkipp_response_waiting
           \/ Closed \/ srot_current_state = "C2_RESPONSE"
    /\ srot_current_state \in StatusStates /\ ~InFabric /\ rdata.resp_waiting =>
           llkipp_response_waiting
    /\ srot_current_state = "KL_RESP_READ" /\ InFabric =>
           llkipp_response_waiting

\* ... and that the core is ready for a key word.
ReadyKnown ==
    llkipp_current_state = "LOAD_KEY_WORDS" =>
        /\ llkipp_ctrlstatus_register.ready_for_key
             /\ srot_current_state \in ReadyStates => llkid_key_ready
        /\ srot_current_state = "KL_CHECK_READY_STATUS" /\ ~InFabric
             /\ rdata.ready_for_key => llkid_key_ready
        /\ srot_current_state = "KL_LOAD_KEY_WORD" => llkid_key_ready
        /\ srot_current_state = "KL_LOAD_KEY_WORD_WAIT_FOR_ACK" /\ InFabric
             => llkid_key_ready

\* A clear is over when it is answered, and the TSS is at rest then.
TssKnown ==
    /\ llkipp_current_state \in {"IDLE", "MESSAGE_CHECK"} => ~llkid_clear_key
    /\ llkipp_current_state = "RESPONSE" /\ llkid_clear_key =>
           ~llkid_key_complete /\ llkid_key_register = Core!NoKey
    /\ llkipp_current_state \in {"IDLE", "MESSAGE_CHECK", "RESPONSE"} =>
           tss_state = "IDLE"

StatusKnown == WaitingKnown /\ ReadyKnown /\ TssKnown

\* The key words of a load: accepted by the LLKI-PP, and stored by the TSS.
Accepted == IF llkipp_current_state = "LOAD_KEY_WORDS"
            THEN ((Asked.high - Asked.low) + 2) - pp_msg_len
            ELSE (Asked.high - Asked.low) + 1
Stored == IF llkid_key_valid THEN Accepted - 1 ELSE Accepted
Loading == llkipp_current_state \in {"LOAD_KEY_WORDS", "WAIT_FOR_COMPLETE"}

\* A key word on LLKI-Discrete is the one whose write is not answered yet.
WordOnItsWay ==
    /\ llkid_key_valid =>
           /\ srot_current_state = "KL_LOAD_KEY_WORD_WAIT_FOR_ACK" /\ CoreWriting
           /\ tss_state = "IDLE" => llkid_key_word_counter = 0
    /\ srot_current_state = "KL_LOAD_KEY_WORD_WAIT_FOR_ACK" /\ CoreWriting =>
           llkid_key_valid \/ pp_msg_id = "ERRORRESP"

\* The TSS counts the words it has stored, ...
WordsCounted ==
    Loading =>
        /\ tss_state = "IDLE" /\ ~llkid_key_complete => Stored = 0
        /\ tss_state = "WAIT_FOR_NEXT_KEY_WORD" =>
               Stored = llkid_key_word_counter
        /\ tss_state = "WAIT_STATE0" => Stored = llkid_key_word_counter + 1
        /\ tss_state = "WAIT_STATE2" \/ llkid_key_complete => Stored = KeyWords

\* ... and they are the first words of the key.
WordsRight ==
    Loading =>
        /\ \A i \in 0 .. KeyWords - 1 :
               i < Stored => llkid_key_register[i] = keyram[Asked.low + i]
        /\ llkid_key_valid =>
               llkid_key_data = keyram[(Asked.low + Accepted) - 1]

WordsKnown == WordOnItsWay /\ WordsCounted /\ WordsRight

\* A response of the SRoT passes on what the LLKI-PP told it, or refuses the
\* request itself.
Passed(id, st) ==
    \/ id = "C2LOADKEYACK" /\ Told("KLLOADKEYACK", st)
    \/ id = "C2CLEARKEYACK" /\ Told("KLCLEARKEYACK", st)
    \/ id = "C2KEYSTATUSRESP" /\ Told("KLKEYSTATUSRESP", st)
    \/ id = "ERRORRESP" /\ (Told("ERRORRESP", st) \/ st \in Refusal)

\* Responses on their way to the software.
ResponsesKnown ==
    /\ Closed => Told(rdata.id, rdata.status)
    /\ srot_current_state = "C2_RESPONSE" =>
           Told(msg_id, status) \/ status \in Refusal
    /\ \A resp \in ResponsesInFlight :
           resp.rsvd = sw_request.rsvd /\ Passed(resp.id, resp.status)

IInv == Known /\ RequestKnown /\ PpKnown /\ StatusKnown /\ WordsKnown
          /\ ResponsesKnown
=============================================================================
