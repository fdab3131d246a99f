------------------------------- MODULE LlkiPP -------------------------------
(***************************************************************************)
(* The LLKI Protocol Processing block (llki_pp_wrapper.sv): it receives    *)
(* one message at a time from the SRoT through the SENDRECV register,      *)
(* drives the TSS over LLKI-Discrete and offers one response word.  One    *)
(* action per branch of the state machine; each is one clock edge.         *)
(*                                                                         *)
(* The parameter r of an action is the register access the TileLink        *)
(* adapter strobes in this clock.                                          *)
(***************************************************************************)
EXTENDS LlkiDiscrete

VARIABLES
    llkipp_ctrlstatus_register,
    write_error,
    reg_we_o_d1,
    llkipp_response_waiting,
    llkipp_response_word,
    msg_id,
    status,
    msg_len,
    llkipp_current_state

ppDecodeRegs == <<llkipp_ctrlstatus_register, write_error, reg_we_o_d1>>
ppMessage == <<msg_id, status, msg_len>>
ppVars == <<ppWires, ppDecodeRegs, llkipp_response_waiting,
            llkipp_response_word, ppMessage, llkipp_current_state>>

RegAccess == [we : BOOLEAN, re : BOOLEAN, addr : KLAddr, wdata : Word]

PpState == {"IDLE", "MESSAGE_CHECK", "LOAD_KEY_WORDS", "WAIT_FOR_COMPLETE",
            "CLEAR_KEY", "RESPONSE"}

PpInit ==
    /\ llkid_key_data = ZeroWord
    /\ llkid_key_valid = FALSE
    /\ llkid_clear_key = FALSE
    /\ llkipp_response_waiting = FALSE
    /\ llkipp_response_word = ZeroWord
    /\ msg_id = MidReset
    /\ status = StatusReset
    /\ msg_len = 0
    /\ llkipp_current_state = "IDLE"
    /\ llkipp_ctrlstatus_register =
           [resp_waiting |-> FALSE, ready_for_key |-> FALSE]
    /\ write_error = FALSE
    /\ reg_we_o_d1 = FALSE

-----------------------------------------------------------------------------
(* Register decode *)

\* The control/status register is one clock behind the state machine and the
\* TSS.  Writes to the two known addresses are no errors.
WriteDecode(r) ==
    /\ reg_we_o_d1' = r.we
    /\ write_error' = (r.we /\ r.addr \notin {"CTRLSTS", "SENDRECV"})
    /\ llkipp_ctrlstatus_register' =
           [resp_waiting |-> llkipp_response_waiting,
            ready_for_key |-> llkid_key_ready]

KLRdata == CtrlStatus \cup Word
reg_rdata_i(r) ==
    IF r.re /\ r.addr = "CTRLSTS" THEN llkipp_ctrlstatus_register
    ELSE IF r.re /\ r.addr = "SENDRECV" THEN llkipp_response_word
    ELSE ZeroWord
read_error(r) == r.re /\ r.addr \notin {"CTRLSTS", "SENDRECV"}
reg_error_i(r) == read_error(r) \/ write_error
ack_i(r) == r.re \/ reg_we_o_d1

SendrecvWrite(r) == r.we /\ r.addr = "SENDRECV"
SendrecvRead(r) == r.re /\ r.addr = "SENDRECV"

-----------------------------------------------------------------------------
(* State machine *)

Quiet ==
    /\ llkid_key_data' = ZeroWord
    /\ llkid_key_valid' = FALSE
NoClear == llkid_clear_key' = FALSE
NotWaiting ==
    /\ llkipp_response_waiting' = FALSE
    /\ llkipp_response_word' = ZeroWord

\* ST_LLKIPP_IDLE: any word written to SENDRECV is taken as a header.
PpIdle(r) ==
    /\ llkipp_current_state = "IDLE"
    /\ Quiet /\ NoClear /\ NotWaiting
    /\ IF SendrecvWrite(r)
       THEN /\ msg_id' = r.wdata.id
            /\ status' = r.wdata.status
            /\ msg_len' = r.wdata.len
            /\ llkipp_current_state' = "MESSAGE_CHECK"
       ELSE /\ msg_id' = MidReset
            /\ status' = StatusReset
            /\ msg_len' = 0
            /\ UNCHANGED llkipp_current_state

\* ST_LLKIPP_MESSAGE_CHECK
Reject(st) ==
    /\ msg_id' = "ERRORRESP"
    /\ status' = st
    /\ llkipp_current_state' = "RESPONSE"

CheckLoadKey_mutant ==                  \* no check of the length
    /\ msg_id = "KLLOADKEYREQ"
    /\ IF llkid_key_complete THEN Reject("KL_KEY_OVERWRITE")
       ELSE /\ llkipp_current_state' = "LOAD_KEY_WORDS"
            /\ UNCHANGED <<msg_id, status>>

CheckLoadKey ==
    /\ msg_id = "KLLOADKEYREQ"
    /\ IF msg_len <= 1 THEN Reject("KL_REQ_BAD_MSG_LEN")
       ELSE IF llkid_key_complete THEN Reject("KL_KEY_OVERWRITE")
       ELSE /\ llkipp_current_state' = "LOAD_KEY_WORDS"
            /\ UNCHANGED <<msg_id, status>>

CheckClearKey ==
    /\ msg_id = "KLCLEARKEYREQ"
    /\ IF msg_len # 1 THEN Reject("KL_REQ_BAD_MSG_LEN")
       ELSE /\ llkipp_current_state' = "CLEAR_KEY"
            /\ UNCHANGED <<msg_id, status>>

CheckKeyStatus ==
    /\ msg_id = "KLKEYSTATUSREQ"
    /\ IF msg_len # 1 THEN Reject("KL_REQ_BAD_MSG_LEN")
       ELSE /\ msg_id' = "KLKEYSTATUSRESP"
            /\ status' = IF llkid_key_complete THEN "KEY_PRESENT"
                                               ELSE "KEY_NOT_PRESENT"
            /\ llkipp_current_state' = "RESPONSE"

CheckBadId ==
    /\ msg_id \notin KLRequest
    /\ Reject("KL_REQ_BAD_MSG_ID")

PpMessageCheck ==
    /\ llkipp_current_state = "MESSAGE_CHECK"
    /\ Quiet /\ NoClear /\ NotWaiting
    /\ CheckLoadKey \/ CheckClearKey \/ CheckKeyStatus \/ CheckBadId
    /\ UNCHANGED msg_len

\* ST_LLKIPP_LOAD_KEY_WORDS: every word written to SENDRECV is a key word.
PpLoadDefault ==
    /\ llkipp_current_state = "LOAD_KEY_WORDS"
    /\ NoClear /\ NotWaiting

PpLoadStay(r) ==
    /\ PpLoadDefault
    /\ ~SendrecvWrite(r)
    /\ Quiet
    /\ UNCHANGED <<ppMessage, llkipp_current_state>>

PpLoadNotReady(r) ==
    /\ PpLoadDefault
    /\ SendrecvWrite(r)
    /\ ~llkid_key_ready
    /\ Quiet
    /\ Reject("KL_LOSS_OF_SYNC")
    /\ UNCHANGED msg_len

PpLoadTooLong_mutant(r) ==              \* keeps the words it has taken
    /\ PpLoadDefault
    /\ SendrecvWrite(r)
    /\ llkid_key_ready
    /\ llkid_key_complete
    /\ Quiet
    /\ msg_id' = "ERRORRESP"
    /\ status' = "KL_BAD_KEY_LEN"
    /\ llkipp_current_state' = "RESPONSE"
    /\ UNCHANGED msg_len
PpLoadTooLong(r) ==
    /\ PpLoadDefault
    /\ SendrecvWrite(r)
    /\ llkid_key_ready
    /\ llkid_key_complete
    /\ Quiet
    /\ msg_id' = "ERRORRESP"
    /\ status' = "KL_BAD_KEY_LEN"
    /\ llkipp_current_state' = "CLEAR_KEY"
    /\ UNCHANGED msg_len

\* msg_len counts the header and the key words still to come.
PpLoadWord(r) ==
    /\ PpLoadDefault
    /\ SendrecvWrite(r)
    /\ llkid_key_ready
    /\ ~llkid_key_complete
    /\ llkid_key_data' = r.wdata
    /\ llkid_key_valid' = TRUE
    /\ IF msg_len = 2
       THEN /\ msg_id' = "KLLOADKEYACK"
            /\ status' = "GOOD"
            /\ llkipp_current_state' = "WAIT_FOR_COMPLETE"
            /\ UNCHANGED msg_len
       ELSE /\ msg_len' = msg_len - 1
            /\ UNCHANGED <<msg_id, status, llkipp_current_state>>

\* ST_SROT_KL_WAIT_FOR_COMPLETE
PpWaitForComplete_mutant ==             \* does not wait
    /\ llkipp_current_state = "WAIT_FOR_COMPLETE"
    /\ Quiet /\ NoClear /\ NotWaiting
    /\ llkipp_current_state' = "RESPONSE"
    /\ UNCHANGED ppMessage

PpWaitForComplete ==
    /\ llkipp_current_state = "WAIT_FOR_COMPLETE"
    /\ Quiet /\ NoClear /\ NotWaiting
    /\ llkipp_current_state' = IF llkid_key_complete THEN "RESPONSE"
                                                     ELSE "WAIT_FOR_COMPLETE"
    /\ UNCHANGED ppMessage

\* ST_LLKIPP_CLEAR_KEY: entered for a clear request or for a key that was too
\* long, told apart by msg_id.
PpClearKey ==
    /\ llkipp_current_state = "CLEAR_KEY"
    /\ Quiet /\ NotWaiting
    /\ llkid_clear_key' = TRUE
    /\ IF llkid_clear_key_ack /\ msg_id # "ERRORRESP"
       THEN msg_id' = "KLCLEARKEYACK" /\ status' = "GOOD"
       ELSE UNCHANGED <<msg_id, status>>
    /\ llkipp_current_state' = IF llkid_clear_key_ack THEN "RESPONSE"
                                                      ELSE "CLEAR_KEY"
    /\ UNCHANGED msg_len

\* ST_LLKIPP_RESPONSE: any read of SENDRECV ends the message, also in the
\* first cycle, when the response word is not built yet.
PpResponse(r) ==
    /\ llkipp_current_state = "RESPONSE"
    /\ Quiet /\ NoClear
    /\ llkipp_response_waiting' = TRUE
    /\ llkipp_response_word' = HeaderWord(msg_id, status, 1)
    /\ llkipp_current_state' = IF SendrecvRead(r) THEN "IDLE" ELSE "RESPONSE"
    /\ UNCHANGED ppMessage

-----------------------------------------------------------------------------

PpStep(r) ==
    /\ WriteDecode(r)
    /\ \/ PpIdle(r) \/ PpMessageCheck
       \/ PpLoadStay(r) \/ PpLoadNotReady(r) \/ PpLoadTooLong(r)
       \/ PpLoadWord(r)
       \/ PpWaitForComplete \/ PpClearKey \/ PpResponse(r)

PpTypeOK ==
    /\ llkid_key_data \in Word
    /\ llkid_key_valid \in BOOLEAN
    /\ llkid_clear_key \in BOOLEAN
    /\ llkipp_response_waiting \in BOOLEAN
    /\ llkipp_response_word \in Word
    /\ msg_id \in Mid
    /\ status \in Status
    /\ msg_len \in MsgLen
    /\ llkipp_current_state \in PpState
    /\ llkipp_ctrlstatus_register \in CtrlStatus
    /\ write_error \in BOOLEAN
    /\ reg_we_o_d1 \in BOOLEAN
=============================================================================
