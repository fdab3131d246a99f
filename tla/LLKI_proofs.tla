----------------------------- MODULE LLKI_proofs -----------------------------
(***************************************************************************)
(* Proofs about LLKI, for every key length, RAM size, FIFO depth, set of   *)
(* requests and delay of the fabric.  The core is LlkiTarget with the SRoT *)
(* as its master, so that what LlkiTarget_proofs proves holds of it; what  *)
(* is added here is where the one request of the software and the one      *)
(* access of the SRoT are.                                                 *)
(***************************************************************************)
EXTENDS LLKIInv, Integers, TLAPS

\* The core with any master that speaks to an LLKI-PP.
KLChannel == [valid : BOOLEAN, opcode : {"PutFullData", "PutPartialData", "Get"},
              addr : {"CTRLSTS", "SENDRECV", "OTHER"}, data : Word, source : {0},
              malformed : BOOLEAN]
KLIdle == [valid |-> FALSE, opcode |-> "Get", addr |-> "CTRLSTS",
           data |-> ZeroWord, source |-> 0, malformed |-> FALSE]
Target == INSTANCE LlkiTarget_proofs WITH
    Requests <- KLChannel, NoRequest <- KLIdle,
    write_error <- pp_write_error, reg_we_o_d1 <- pp_reg_we_o_d1,
    msg_id <- pp_msg_id, status <- pp_status, msg_len <- pp_msg_len

-----------------------------------------------------------------------------
(* The core is LlkiTarget *)

\* The package's definitions do not depend on the module they are used from.
LEMMA SamePackage ==
    /\ Core!Word = Word /\ Target!Word = Word
    /\ Core!ZeroWord = ZeroWord /\ Target!ZeroWord = ZeroWord
    /\ Core!KLAddr = KLAddr /\ Target!KLAddr = KLAddr
    /\ Core!CtrlStatus = CtrlStatus /\ Target!CtrlStatus = CtrlStatus
    /\ Core!Byte = Byte /\ Target!Byte = Byte
    /\ Core!Mid = Mid /\ Target!Mid = Mid
    /\ Core!Status = Status /\ Target!Status = Status
    /\ Core!MsgLen = MsgLen /\ Target!MsgLen = MsgLen
    /\ Core!KLRdata = CtrlStatus \cup Word /\ Target!KLRdata = CtrlStatus \cup Word
    /\ Core!NoKey = Target!NoKey
BY DEF Core!Word, Target!Word, Word, Core!Mid, Target!Mid, Mid, Core!Status,
   Target!Status, Status, Core!MsgLen, Target!MsgLen, MsgLen, Core!MaxMsgLen,
   Target!MaxMsgLen, MaxMsgLen, Core!C2Request, Target!C2Request, C2Request,
   Core!C2Response, Target!C2Response, C2Response, Core!KLRequest,
   Target!KLRequest, KLRequest, Core!KLResponse, Target!KLResponse, KLResponse,
   Core!KLAddr, Target!KLAddr, KLAddr, Core!CtrlStatus, Target!CtrlStatus,
   CtrlStatus, Core!Byte, Target!Byte, Byte, Core!KLRdata, Target!KLRdata,
   Core!NoKey, Target!NoKey, Core!KeyIndex, Target!KeyIndex,
   Core!ZeroWord, Target!ZeroWord, ZeroWord, Core!HeaderWord,
   Target!HeaderWord, HeaderWord, Core!MidReset, Target!MidReset, MidReset,
   Core!StatusReset, Target!StatusReset, StatusReset

LEMMA SameInit == Core!TargetInit => Target!Init
BY DEF Core!TargetInit, Target!Init, Target!TargetInit,
   Core!AdapterInit, Target!AdapterInit, Core!PpInit, Target!PpInit,
   Core!TssInit, Target!TssInit, Core!NoKey, Target!NoKey, Core!KeyIndex, Target!KeyIndex,
   Core!ZeroWord, Target!ZeroWord, Core!HeaderWord, Target!HeaderWord,
   Core!MidReset, Target!MidReset, Core!StatusReset, Target!StatusReset

LEMMA SameTypes == Core!TypeOK <=> Target!TypeOK
<1>1. Core!AdapterTypeOK <=> Target!AdapterTypeOK
      BY SamePackage DEF Core!AdapterTypeOK, Target!AdapterTypeOK
<1>2. Core!PpTypeOK <=> Target!PpTypeOK
      BY SamePackage DEF Core!PpTypeOK, Target!PpTypeOK, Core!PpState, Target!PpState
<1>3. Core!TssTypeOK <=> Target!TssTypeOK
      BY SamePackage DEF Core!TssTypeOK, Target!TssTypeOK, Core!KeyIndex,
         Target!KeyIndex, Core!TssState, Target!TssState
<1> QED BY <1>1, <1>2, <1>3 DEF Core!TypeOK, Target!TypeOK

LEMMA SameAdapter ==
    ASSUME NEW a, NEW ack, NEW err, NEW rd, NEW d_ready
    PROVE  Core!AdapterStep(a, ack, err, rd, d_ready)
             <=> Target!AdapterStep(a, ack, err, rd, d_ready)
BY SamePackage
   DEF Core!AdapterStep, Target!AdapterStep, Core!AcceptAndAnswer,
       Target!AcceptAndAnswer, Core!Accept, Target!Accept,
       Core!AnswerRead, Target!AnswerRead, Core!AnswerWrite,
       Target!AnswerWrite, Core!Release, Target!Release, Core!Hold,
       Target!Hold, Core!Capture, Target!Capture, Core!a_ack,
       Target!a_ack, Core!a_ready, Target!a_ready, Core!wr_req,
       Target!wr_req, Core!rd_req, Target!rd_req, Core!Put, Target!Put,
       Core!adapterVars, Target!adapterVars

LEMMA SamePp == \A r : Core!PpStep(r) <=> Target!PpStep(r)
BY SamePackage
   DEF Core!PpStep, Target!PpStep, Core!WriteDecode, Target!WriteDecode,
       Core!PpIdle, Target!PpIdle, Core!PpMessageCheck,
       Target!PpMessageCheck, Core!CheckLoadKey, Target!CheckLoadKey,
       Core!CheckClearKey, Target!CheckClearKey, Core!CheckKeyStatus,
       Target!CheckKeyStatus, Core!CheckBadId, Target!CheckBadId,
       Core!Reject, Target!Reject, Core!PpLoadDefault,
       Target!PpLoadDefault, Core!PpLoadStay, Target!PpLoadStay,
       Core!PpLoadNotReady, Target!PpLoadNotReady, Core!PpLoadTooLong,
       Target!PpLoadTooLong, Core!PpLoadWord, Target!PpLoadWord,
       Core!PpWaitForComplete, Target!PpWaitForComplete,
       Core!PpClearKey, Target!PpClearKey, Core!PpResponse,
       Target!PpResponse, Core!Quiet, Target!Quiet, Core!NoClear,
       Target!NoClear, Core!NotWaiting, Target!NotWaiting,
       Core!SendrecvWrite, Target!SendrecvWrite, Core!SendrecvRead,
       Target!SendrecvRead, Core!ppMessage, Target!ppMessage,
       Core!KLRequest, Target!KLRequest, Core!HeaderWord,
       Target!HeaderWord, Core!MidReset, Target!MidReset,
       Core!StatusReset, Target!StatusReset

LEMMA SameTss == Core!TssStep <=> Target!TssStep
BY SamePackage
   DEF Core!TssStep, Target!TssStep, Core!TssIdleDefault,
       Target!TssIdleDefault, Core!TssIdleClear, Target!TssIdleClear,
       Core!TssIdleLoad, Target!TssIdleLoad, Core!TssIdleStay,
       Target!TssIdleStay, Core!Busy, Target!Busy,
       Core!TssWaitState0Last, Target!TssWaitState0Last,
       Core!TssWaitState0More, Target!TssWaitState0More,
       Core!TssWaitState0Count, Target!TssWaitState0Count,
       Core!TssNextWordDefault, Target!TssNextWordDefault,
       Core!TssNextWordClear, Target!TssNextWordClear,
       Core!TssNextWordLoad, Target!TssNextWordLoad,
       Core!TssNextWordStay, Target!TssNextWordStay, Core!TssClearKey,
       Target!TssClearKey, Core!TssWaitState1, Target!TssWaitState1,
       Core!TssWaitState2, Target!TssWaitState2, Core!StoreKeyWord,
       Target!StoreKeyWord, Core!Dec8, Target!Dec8

LEMMA SameStrobe ==
    ASSUME NEW a
    PROVE  /\ Core!Strobe(a) = Target!Strobe(a)
           /\ Core!ack_i(Core!Strobe(a)) = Target!ack_i(Target!Strobe(a))
           /\ Core!reg_error_i(Core!Strobe(a))
                = Target!reg_error_i(Target!Strobe(a))
           /\ Core!reg_rdata_i(Core!Strobe(a))
                = Target!reg_rdata_i(Target!Strobe(a))
BY SamePackage
   DEF Core!Strobe, Target!Strobe, Core!we_o, Target!we_o, Core!re_o,
       Target!re_o, Core!wr_req, Target!wr_req, Core!rd_req,
       Target!rd_req, Core!a_ack, Target!a_ack, Core!a_ready,
       Target!a_ready, Core!Put, Target!Put, Core!ack_i, Target!ack_i,
       Core!reg_error_i, Target!reg_error_i, Core!reg_rdata_i,
       Target!reg_rdata_i, Core!read_error, Target!read_error

LEMMA SameClock ==
    ASSUME NEW a, NEW d_ready, Core!Clock(a, d_ready)
    PROVE  Target!Clock(a, d_ready)
BY SameAdapter, SamePp, SameTss, SameStrobe DEF Core!Clock, Target!Clock

\* What LlkiTarget_proofs assumes holds of this core and this master.
LEMMA TargetAssumptions ==
    /\ KLChannel = Target!AChannel
    /\ KLIdle \in KLChannel /\ ~KLIdle.valid
    /\ Target!ZeroWord \in Target!KLRdata
    /\ KeyWords \in 1 .. 255 /\ TssWaitInit \in Target!Byte
    /\ ZeroBody \in Body
<1>1. KLChannel = Target!AChannel
      BY SamePackage DEF KLChannel, Target!AChannel, Target!Put, KLAddr
<1>2. ZeroWord \in Word
      BY ZeroBodyAssumption DEF ZeroWord, HeaderWord, Word, MidReset, Mid,
         C2Request, StatusReset, Status, MsgLen, MaxMsgLen
<1> QED BY <1>1, <1>2, CoreAssumption, SamePackage, ZeroBodyAssumption
        DEF KLIdle, KLChannel

-----------------------------------------------------------------------------
(* A step is one clock edge *)

LEMMA StepIsClock ==
    ASSUME NEW fwd, NEW back, Step(fwd, back)
    PROVE  \E a : Clock(a, fwd, back)
BY DEF Step, SendRequest, WriteKeyRam, WriteKeyIndexRam, SetMode, SetUp,
       SoftwareAct, Poll, FetchResponse, Answered, Pause

LEMMA MasterOutType ==
    ASSUME SrotTypeOK
    PROVE  MasterOut \in Seq(HostRequest)
<1>1. master_reqfifo \in Seq(HostRequest) /\ host \in {None} \cup HostRequest
      BY DEF SrotTypeOK, MemTypeOK, StmTypeOK
<1>2. (IF host # None /\ Len(master_reqfifo) < ReqFifoDepth
       THEN <<host>> ELSE <<>>) \in Seq(HostRequest)
      BY <1>1
<1> QED BY <1>1, <1>2 DEF MasterOut

LEMMA RequestChannelType ==
    ASSUME SrotTypeOK, NEW fwd \in BOOLEAN
    PROVE  KLRequestChannel(fwd) \in KLChannel
<1>1. MasterOut \in Seq(HostRequest) BY MasterOutType
<1>2. MasterOut # <<>> => Head(MasterOut) \in HostRequest
      BY <1>1
<1>3. ZeroWord \in Word
      BY TargetAssumptions DEF KLIdle, KLChannel
<1> QED BY <1>2, <1>3 DEF KLRequestChannel, KLChannel, HostRequest

-----------------------------------------------------------------------------
(* What LlkiTarget_proofs proves of the core *)

LEMMA CoreInit == Init => Target!IInv
<1>1. Init => Target!Init BY SameInit DEF Init
<1> QED BY <1>1, Target!IInvInit, TargetAssumptions

LEMMA CoreStep ==
    ASSUME SrotTypeOK, Target!IInv, NEW fwd \in BOOLEAN, NEW back \in BOOLEAN,
           Step(fwd, back)
    PROVE  Target!IInv'
<1>1. Core!Clock(KLRequestChannel(fwd), back)
      BY StepIsClock DEF Clock, Hardware
<1>2. Target!Next
      BY <1>1, SameClock, RequestChannelType DEF Target!Next
<1> QED BY <1>2, Target!IInvStep, TargetAssumptions

-----------------------------------------------------------------------------
(* The state machine, as far as the request and the access are concerned *)

\* How it takes a request and hands over a response.
TokenMoves ==
    /\ srot_current_state = "IDLE" =>
           /\ respfifo_wdata_i' = None
           /\ UNCHANGED llkic2_reqfifo_clr_i
           /\ IF llkic2_reqfifo = <<>>
              THEN /\ srot_current_state' = "IDLE"
                   /\ llkic2_reqfifo_rready_i' = FALSE
              ELSE /\ srot_current_state' = "MESSAGE_CHECK"
                   /\ llkic2_reqfifo_rready_i' = TRUE
    /\ srot_current_state = "MESSAGE_CHECK" =>
           /\ respfifo_wdata_i' = None
           /\ llkic2_reqfifo_rready_i' = FALSE
           /\ srot_current_state' \notin {"IDLE", "MESSAGE_CHECK"}
           /\ srot_current_state' # "C2_RESPONSE" => UNCHANGED llkic2_reqfifo_clr_i
    /\ srot_current_state \notin {"IDLE", "MESSAGE_CHECK", "C2_RESPONSE"} =>
           /\ respfifo_wdata_i' = None \/ UNCHANGED respfifo_wdata_i
           /\ llkic2_reqfifo_rready_i' = FALSE \/ UNCHANGED llkic2_reqfifo_rready_i
           /\ srot_current_state' \notin {"IDLE", "MESSAGE_CHECK"}
           /\ srot_current_state' # "C2_RESPONSE" => UNCHANGED llkic2_reqfifo_clr_i
    /\ srot_current_state = "C2_RESPONSE" =>
           /\ respfifo_wdata_i' = C2ResponseMessage
           /\ llkic2_reqfifo_rready_i' = FALSE
           /\ llkic2_reqfifo_clr_i' = FALSE
           /\ srot_current_state' = "IDLE"

LEMMA TokenMovesSo ==
    ASSUME NEW d, StmStep(d)
    PROVE  TokenMoves
<1> USE DEF TokenMoves, Goto, Proceed, Refuse, NoHost, NoPop, NoC2Response,
            stmStatus
<1>1. CASE StmIdle BY <1>1 DEF StmIdle
<1>2. CASE StmMessageCheck BY <1>2 DEF StmMessageCheck
<1>3. CASE StmRetrieveWait BY <1>3 DEF StmRetrieveWait
<1>4. CASE StmRetrieve BY <1>4 DEF StmRetrieve
<1>5. CASE StmReqHeader BY <1>5 DEF StmReqHeader
<1>6. CASE StmReqWaitForAck(d) BY <1>6 DEF StmReqWaitForAck
<1>7. CASE StmReadReadyStatus BY <1>7 DEF StmReadReadyStatus
<1>8. CASE StmCheckReadyStatus(d)
      BY <1>8 DEF StmCheckReadyStatus, NextReadyState
<1>9. CASE StmReadyWaitState(d) BY <1>9 DEF StmReadyWaitState, TileLinkError
<1>10. CASE StmLoadKeyWord BY <1>10 DEF StmLoadKeyWord
<1>11. CASE StmLoadKeyWordWaitForAck(d) BY <1>11 DEF StmLoadKeyWordWaitForAck
<1>12. CASE StmReadRespStatus BY <1>12 DEF StmReadRespStatus
<1>13. CASE StmCheckRespStatus(d) BY <1>13 DEF StmCheckRespStatus
<1>14. CASE StmRespWaitState(d) BY <1>14 DEF StmRespWaitState, TileLinkError
<1>15. CASE StmRespRead(d) BY <1>15 DEF StmRespRead, TileLinkError
<1>16. CASE StmC2Response BY <1>16 DEF StmC2Response, EndFlush
<1> QED BY <1>1, <1>2, <1>3, <1>4, <1>5, <1>6, <1>7, <1>8, <1>9, <1>10, <1>11,
           <1>12, <1>13, <1>14, <1>15, <1>16 DEF StmStep

\* How it starts an access and waits for its end.
AccessMoves(d) ==
    IF srot_current_state \in WaitStates /\ ~d.valid
    THEN host' = None /\ srot_current_state' = srot_current_state
    ELSE \/ host' = None /\ srot_current_state' \notin WaitStates
         \/ /\ srot_current_state' \in WaitStates
            /\ RightRequest(host', srot_current_state')

\* The ranges of the registers, so that no proof needs their bounds spelled out.
LEMMA MaxIs ==
    /\ MaxPointer \in Nat /\ MaxMsgLen = MaxPointer /\ 1 <= MaxPointer
    /\ \A n \in Nat : n <= MaxPointer <=> n < 65536
    /\ KeyRamSize \in Nat /\ 1 <= KeyRamSize /\ KeyRamSize < MaxPointer
<1>1. KeyRamSize \in Nat /\ 1 <= KeyRamSize /\ KeyRamSize < MaxPointer
      BY SrotAssumption DEF MaxPointer
<1> QED BY <1>1 DEF MaxPointer, MaxMsgLen

LEMMA Ranges ==
    /\ \A n : n \in Pointer <=> n \in Nat /\ n <= MaxPointer
    /\ \A n : n \in MsgLen <=> n \in Nat /\ n <= MaxPointer
    /\ \A n : n \in KeyRamAddr <=> n \in Nat /\ n <= MaxPointer + 1
BY MaxIs DEF Pointer, MsgLen, KeyRamAddr

LEMMA Mod16 == \A n \in Int : n % 65536 \in MsgLen /\ n % 65536 \in Pointer
<1> SUFFICES ASSUME NEW n \in Int
             PROVE  n % 65536 \in MsgLen /\ n % 65536 \in Pointer
    OBVIOUS
<1> DEFINE r == n % 65536
<1>1. r \in Nat /\ r < 65536
      OBVIOUS
<1> HIDE DEF r
<1>2. r \in MsgLen /\ r \in Pointer
      BY <1>1, MaxIs, Ranges
<1> QED BY <1>2 DEF r

\* The header is a word of the bus.
LEMMA HeaderType ==
    ASSUME StmTypeOK, MemTypeOK, msg_id \in C2Request
    PROVE  Header \in Word
<1>1. high_pointer \in Nat /\ low_pointer \in Nat
  <2>1. keyindexram_rdata_o \in IndexEntry BY DEF MemTypeOK
  <2>2. high_pointer \in Pointer /\ low_pointer \in Pointer
        BY <2>1 DEF IndexEntry, high_pointer, low_pointer
  <2> QED BY <2>2, Ranges
<1>2. (high_pointer - low_pointer) + 2 \in Int
      BY <1>1
<1>3. (((high_pointer - low_pointer) + 2) % 65536) \in MsgLen
      BY <1>2, Mod16
<1>4. {"KLLOADKEYREQ", "KLCLEARKEYREQ", "KLKEYSTATUSREQ"} \subseteq Mid
      BY DEF Mid, KLRequest
<1>5. StatusReset \in Status BY DEF StatusReset, Status
<1>6. 1 \in MsgLen BY MaxIs, Ranges
<1> QED BY <1>3, <1>4, <1>5, <1>6, ZeroBodyAssumption
        DEF Header, HeaderWord, Word, C2Request

\* So is the all-zero word.
LEMMA ZeroWordType == ZeroWord \in Word
BY TargetAssumptions DEF KLIdle, KLChannel

LEMMA AccessType ==
    ASSUME MemTypeOK,
           NEW offset \in {"CTRLSTS", "SENDRECV"}, NEW we \in BOOLEAN,
           NEW wdata \in Word
    PROVE  /\ Access(offset, we, wdata) \in HostRequest
           /\ Access(offset, we, wdata).offset = offset
           /\ Access(offset, we, wdata).we = we
<1>1. keyindexram_rdata_o \in IndexEntry BY DEF MemTypeOK
<1> QED BY <1>1 DEF IndexEntry, Access, HostRequest, core_index

LEMMA AccessMovesSo ==
    ASSUME SrotTypeOK, NEW d, ~d.err, StmStep(d)
    PROVE  AccessMoves(d)
<1>1. MemTypeOK /\ StmTypeOK /\ keyram_rdata_o \in Word
      BY DEF SrotTypeOK, MemTypeOK
<1>2. /\ msg_id \in C2Request =>
             RightRequest(Access("SENDRECV", TRUE, Header),
                          "KL_REQ_WAIT_FOR_ACK")
      /\ RightRequest(Access("CTRLSTS", FALSE, ZeroWord),
                      "KL_CHECK_READY_STATUS")
      /\ RightRequest(Access("SENDRECV", TRUE, keyram_rdata_o),
                      "KL_LOAD_KEY_WORD_WAIT_FOR_ACK")
      /\ RightRequest(Access("CTRLSTS", FALSE, ZeroWord),
                      "KL_CHECK_RESP_STATUS")
      /\ RightRequest(Access("SENDRECV", FALSE, ZeroWord), "KL_RESP_READ")
      BY <1>1, AccessType, ZeroWordType, HeaderType
      DEF RightRequest, WriteStates, StatusStates
<1> USE DEF AccessMoves, WaitStates, WriteStates, StatusStates,
            Goto, Proceed, Refuse, NoHost, ReadStatus, stmStatus
<1>4. CASE StmIdle BY <1>4 DEF StmIdle
<1>5. CASE StmMessageCheck BY <1>5 DEF StmMessageCheck
<1>6. CASE StmRetrieveWait BY <1>6 DEF StmRetrieveWait
<1>7. CASE StmRetrieve BY <1>7 DEF StmRetrieve
<1>8. CASE StmReqHeader BY <1>2, <1>8 DEF StmReqHeader
<1>9. CASE StmReqWaitForAck(d) BY <1>9 DEF StmReqWaitForAck
<1>10. CASE StmReadReadyStatus BY <1>2, <1>10 DEF StmReadReadyStatus
<1>11. CASE StmCheckReadyStatus(d)
       BY <1>11 DEF StmCheckReadyStatus, NextReadyState
<1>12. CASE StmReadyWaitState(d) BY <1>12 DEF StmReadyWaitState
<1>13. CASE StmLoadKeyWord BY <1>2, <1>13 DEF StmLoadKeyWord
<1>14. CASE StmLoadKeyWordWaitForAck(d) BY <1>14 DEF StmLoadKeyWordWaitForAck
<1>15. CASE StmReadRespStatus BY <1>2, <1>15 DEF StmReadRespStatus
<1>16. CASE StmCheckRespStatus(d) BY <1>2, <1>16 DEF StmCheckRespStatus
<1>17. CASE StmRespWaitState(d) BY <1>17 DEF StmRespWaitState
<1>18. CASE StmRespRead(d) BY <1>18 DEF StmRespRead
<1>19. CASE StmC2Response BY <1>19 DEF StmC2Response
<1> QED BY <1>4, <1>5, <1>6, <1>7, <1>8, <1>9, <1>10, <1>11, <1>12, <1>13,
           <1>14, <1>15, <1>16, <1>17, <1>18, <1>19 DEF StmStep

-----------------------------------------------------------------------------
(* The fabric and the TileLink adapter of the core *)

\* What the adapter does with a well-formed request for a known register.
PortMoves(a, back) ==
    /\ ~error' /\ ~pp_write_error'
    /\ CoreIdle =>
           IF ~a.valid THEN CoreIdle'
           ELSE IF a.opcode # "Get" THEN CoreWriting'
           ELSE /\ CoreRead'
                /\ rdata' = IF a.addr = "CTRLSTS"
                            THEN llkipp_ctrlstatus_register
                            ELSE llkipp_response_word
    /\ CoreWriting => CoreWritten'
    /\ CoreWritten => IF back THEN CoreIdle' ELSE CoreWritten'
    /\ CoreRead => IF back THEN CoreIdle' ELSE CoreRead' /\ UNCHANGED rdata
    /\ Core!a_ack(a) <=> a.valid /\ ~outstanding_read /\ ~outstanding_write

GoodRequest(a) ==
    /\ a.valid \in BOOLEAN /\ ~a.malformed
    /\ a.opcode \in {"PutFullData", "Get"}
    /\ a.addr \in {"CTRLSTS", "SENDRECV"}

LEMMA PortMovesSo ==
    ASSUME Core!TypeOK, ~error, ~pp_write_error, NEW a, GoodRequest(a),
           NEW back \in BOOLEAN, Core!Clock(a, back)
    PROVE  PortMoves(a, back)
<1> DEFINE r == Core!Strobe(a)
<1>1. /\ outstanding_read \in BOOLEAN /\ outstanding_write \in BOOLEAN
      /\ d_valid \in BOOLEAN /\ pp_reg_we_o_d1 \in BOOLEAN
      BY DEF Core!TypeOK, Core!AdapterTypeOK, Core!PpTypeOK
<1>2. /\ r.we <=> a.valid /\ ~outstanding_read /\ ~outstanding_write
                    /\ a.opcode # "Get"
      /\ r.re <=> a.valid /\ ~outstanding_read /\ ~outstanding_write
                    /\ a.opcode = "Get"
      /\ r.addr = a.addr
      BY <1>1 DEF GoodRequest, Core!Strobe, Core!we_o, Core!re_o, Core!wr_req,
         Core!rd_req, Core!a_ack, Core!a_ready, Core!Put
<1>3. /\ Core!a_ack(a) <=> a.valid /\ ~outstanding_read /\ ~outstanding_write
      /\ Core!wr_req(a) <=> r.we
      /\ Core!rd_req(a) <=> r.re
      BY <1>1, <1>2 DEF GoodRequest, Core!wr_req, Core!rd_req, Core!a_ack, Core!a_ready,
         Core!Put
<1>4. /\ Core!AdapterStep(a, Core!ack_i(r), Core!reg_error_i(r),
                          Core!reg_rdata_i(r), back)
      /\ Core!WriteDecode(r)
      BY DEF Core!Clock, Core!PpStep
<1>5. /\ Core!ack_i(r) <=> r.re \/ pp_reg_we_o_d1
      /\ ~Core!reg_error_i(r)
      /\ r.re => Core!reg_rdata_i(r) = IF a.addr = "CTRLSTS"
                                       THEN llkipp_ctrlstatus_register
                                       ELSE llkipp_response_word
      /\ ~pp_write_error' /\ (pp_reg_we_o_d1' <=> r.we)
      BY <1>2, <1>4 DEF GoodRequest, Core!ack_i, Core!reg_error_i, Core!read_error,
         Core!reg_rdata_i, Core!WriteDecode
<1> HIDE DEF r
<1> USE <1>1, <1>2, <1>3, <1>5 DEF PortMoves, GoodRequest, CoreIdle, CoreWriting,
        CoreWritten, CoreRead, Core!Capture, Core!a_ready
<1>6. CASE Core!AcceptAndAnswer(a, Core!ack_i(r), Core!reg_error_i(r),
                                Core!reg_rdata_i(r))
      BY <1>6 DEF Core!AcceptAndAnswer
<1>7. CASE Core!Accept(a, Core!ack_i(r))
      BY <1>7 DEF Core!Accept
<1>8. CASE Core!AnswerRead(a, Core!ack_i(r), Core!reg_error_i(r),
                           Core!reg_rdata_i(r))
      BY <1>8 DEF Core!AnswerRead
<1>9. CASE Core!AnswerWrite(a, Core!ack_i(r), Core!reg_error_i(r))
      BY <1>9 DEF Core!AnswerWrite
<1>10. CASE Core!Release(a, Core!ack_i(r), back)
      BY <1>10 DEF Core!Release
<1>11. CASE Core!Hold(a, Core!ack_i(r), back)
      BY <1>11 DEF Core!Hold, Core!adapterVars
<1> QED BY <1>4, <1>6, <1>7, <1>8, <1>9, <1>10, <1>11 DEF Core!AdapterStep

LEMMA MasterOutIs ==
    ASSUME SrotTypeOK
    PROVE  /\ NoAccess => MasterOut = <<>>
           /\ InFabric => MasterOut = <<Pending>>
<1>1. ReqFifoDepth \in Nat /\ 0 < ReqFifoDepth
      BY SrotAssumption
<1>2. CASE NoAccess
      BY <1>2 DEF NoAccess, MasterOut, InFabric
<1>3. CASE InFabric /\ host # None
  <2>1. master_reqfifo = <<>> /\ Pending = host
        BY <1>3 DEF InFabric, Pending
  <2>2. Len(master_reqfifo) < ReqFifoDepth
        BY <1>1, <2>1
  <2>3. MasterOut = <<>> \o <<Pending>>
        BY <1>3, <2>1, <2>2 DEF MasterOut
  <2>4. MasterOut = <<Pending>>
        BY <2>3
  <2>5. <<Pending>> # <<>> OBVIOUS
  <2> QED BY <1>3, <2>4, <2>5 DEF NoAccess
<1>4. CASE InFabric /\ host = None
  <2>1. master_reqfifo = <<Pending>> /\ MasterOut = master_reqfifo \o <<>>
        BY <1>4 DEF InFabric, MasterOut
  <2>2. master_reqfifo \in Seq(HostRequest) BY DEF SrotTypeOK, MemTypeOK
  <2>3. MasterOut = <<Pending>> BY <2>1, <2>2
  <2>4. <<Pending>> # <<>> OBVIOUS
  <2> QED BY <2>1, <2>3, <2>4 DEF NoAccess
<1> QED BY <1>2, <1>3, <1>4

\* The access in one clock.
FabricMoves(fwd, back) ==
    LET a == KLRequestChannel(fwd) IN
    /\ GoodRequest(a) /\ PortMoves(a, back)
    /\ NoAccess => ~a.valid /\ master_reqfifo' = <<>>
    /\ InFabric =>
           /\ a.valid = fwd
           /\ a.opcode = IF Pending.we THEN "PutFullData" ELSE "Get"
           /\ a.addr = Pending.offset
           /\ a.data = Pending.wdata
           /\ master_reqfifo' = IF fwd THEN <<>> ELSE <<Pending>>

LEMMA FabricMovesSo ==
    ASSUME TypeOK, AccessKnown, NEW fwd \in BOOLEAN, NEW back \in BOOLEAN,
           Core!Clock(KLRequestChannel(fwd), back),
           MasterFifoStep(Core!a_ack(KLRequestChannel(fwd)))
    PROVE  FabricMoves(fwd, back)
<1> DEFINE a == KLRequestChannel(fwd)
<1>1. SrotTypeOK /\ Core!TypeOK BY DEF TypeOK
<1>2. a \in KLChannel BY <1>1, RequestChannelType
<1>3. GoodRequest(a)
  <2>1. MasterOut # <<>> => Head(MasterOut) \in HostRequest
        BY <1>1, MasterOutType
  <2> QED BY <2>1 DEF GoodRequest, KLRequestChannel, HostRequest
<1>4. PortMoves(a, back)
      BY <1>1, <1>3, PortMovesSo DEF AccessKnown
<1>5. NoAccess => ~a.valid /\ master_reqfifo' = <<>>
  <2>1. NoAccess => ~a.valid
        BY <1>1, MasterOutIs DEF KLRequestChannel
  <2>2. NoAccess => ~Core!a_ack(a)
        BY <2>1 DEF Core!a_ack
  <2> QED BY <1>1, <2>1, <2>2, MasterOutIs DEF MasterFifoStep
<1>6. ASSUME InFabric
      PROVE  /\ a.valid = fwd
             /\ a.opcode = IF Pending.we THEN "PutFullData" ELSE "Get"
             /\ a.addr = Pending.offset
             /\ a.data = Pending.wdata
             /\ master_reqfifo' = IF fwd THEN <<>> ELSE <<Pending>>
  <2>1. MasterOut = <<Pending>>
        BY <1>1, <1>6, MasterOutIs
  <2>2. MasterOut # <<>> /\ Head(MasterOut) = Pending /\ Tail(MasterOut) = <<>>
        BY <2>1
  <2>3. /\ a.valid = fwd
        /\ a.opcode = IF Pending.we THEN "PutFullData" ELSE "Get"
        /\ a.addr = Pending.offset
        /\ a.data = Pending.wdata
        BY <2>2 DEF KLRequestChannel
  <2>4. Core!a_ack(a) <=> fwd
        BY <1>4, <1>6, <2>3 DEF PortMoves, InFabric, CoreIdle
  <2> QED BY <2>1, <2>2, <2>3, <2>4 DEF MasterFifoStep
<1> QED BY <1>3, <1>4, <1>5, <1>6 DEF FabricMoves

-----------------------------------------------------------------------------
(* The access to the core is where AccessKnown says *)

\* What the state machine sees of the D channel.
LEMMA AnswerChannel ==
    ASSUME TypeOK, AccessKnown, NEW back \in BOOLEAN
    PROVE  LET d == KLAnswerChannel(back) IN
           /\ d.valid = (d_valid /\ back) /\ ~d.err /\ d.rdata = rdata
           /\ InFabric => ~d.valid
BY DEF AccessKnown, KLAnswerChannel, InFabric, CoreIdle

LEMMA AccessStep ==
    ASSUME TypeOK, AccessKnown, NEW fwd \in BOOLEAN, NEW back \in BOOLEAN,
           Step(fwd, back)
    PROVE  AccessKnown'
<1> DEFINE d == KLAnswerChannel(back)
<1>1. /\ StmStep(d) /\ Core!Clock(KLRequestChannel(fwd), back)
      /\ MasterFifoStep(Core!a_ack(KLRequestChannel(fwd)))
      BY StepIsClock DEF Clock, Hardware, SrotStep
<1>2. ~d.err /\ (d.valid <=> d_valid /\ back)
      BY AnswerChannel
<1>3. AccessMoves(d)
      BY <1>1, <1>2, AccessMovesSo DEF TypeOK
<1>4. FabricMoves(fwd, back)
      BY <1>1, FabricMovesSo
<1>5. PortMoves(KLRequestChannel(fwd), back)
      BY <1>4 DEF FabricMoves
<1>6. ~error' /\ ~pp_write_error'
      BY <1>5 DEF PortMoves
<1>7. ASSUME CoreIdle', master_reqfifo' = <<>>
      PROVE  \/ srot_current_state' \notin WaitStates /\ NoAccess' /\ CoreIdle'
             \/ srot_current_state' \in WaitStates /\ InFabric'
                  /\ RightRequest(Pending, srot_current_state)'
             \/ srot_current_state \in WaitStates /\ ~d.valid
  <2>1. CASE host' = None /\ srot_current_state' \notin WaitStates
        BY <1>7, <2>1 DEF NoAccess
  <2>2. CASE RightRequest(host', srot_current_state')
               /\ srot_current_state' \in WaitStates
    <3>1. host' # None BY <2>2, NoneAssumption DEF RightRequest
    <3> QED BY <1>7, <2>2, <3>1 DEF InFabric, Pending
  <2> QED BY <1>3, <2>1, <2>2 DEF AccessMoves
<1>8. CASE srot_current_state \notin WaitStates
  <2>1. NoAccess /\ CoreIdle BY <1>8 DEF AccessKnown
  <2>2. CoreIdle' /\ master_reqfifo' = <<>>
        BY <1>4, <1>5, <2>1 DEF FabricMoves, PortMoves
  <2> QED BY <1>6, <1>7, <1>8, <2>2 DEF AccessKnown
<1>9. CASE srot_current_state \in WaitStates /\ d.valid
  <2>1. NoAccess /\ (CoreWritten \/ CoreRead) /\ back
        BY <1>2, <1>9 DEF AccessKnown, InFabric, CoreIdle, CoreWriting
  <2>2. CoreIdle' /\ master_reqfifo' = <<>>
        BY <1>4, <1>5, <2>1 DEF FabricMoves, PortMoves
  <2> QED BY <1>6, <1>7, <1>9, <2>2 DEF AccessKnown
<1>10. CASE srot_current_state \in WaitStates /\ ~d.valid
  <2>1. host' = None /\ srot_current_state' = srot_current_state
        BY <1>3, <1>10 DEF AccessMoves
  <2>2. CASE InFabric /\ RightRequest(Pending, srot_current_state) /\ fwd
    <3> DEFINE a == KLRequestChannel(fwd)
    <3>1. /\ a.valid /\ master_reqfifo' = <<>>
          /\ a.opcode = "Get" <=> srot_current_state \notin WriteStates
          /\ a.addr = IF srot_current_state \in StatusStates THEN "CTRLSTS"
                                                             ELSE "SENDRECV"
          BY <1>4, <2>2 DEF FabricMoves, RightRequest
    <3>2. NoAccess' BY <2>1, <3>1 DEF NoAccess
    <3>3. CASE srot_current_state \in WriteStates
          BY <1>5, <1>6, <1>10, <2>1, <2>2, <3>1, <3>2, <3>3
          DEF PortMoves, InFabric, AccessKnown
    <3>4. CASE srot_current_state \notin WriteStates
      <4>1. CoreRead' /\ rdata' = IF srot_current_state \in StatusStates
                                  THEN llkipp_ctrlstatus_register
                                  ELSE llkipp_response_word
            BY <1>5, <2>2, <3>1, <3>4 DEF PortMoves, InFabric
      <4>2. /\ llkipp_ctrlstatus_register \in CtrlStatus
            /\ llkipp_response_word \in Word
            BY SamePackage DEF TypeOK, Core!TypeOK, Core!PpTypeOK
      <4>3. RightAnswer'
            BY <2>1, <4>1, <4>2 DEF RightAnswer, StatusStates
      <4> QED BY <1>6, <1>10, <2>1, <3>2, <3>4, <4>1, <4>3 DEF AccessKnown
    <3> QED BY <3>3, <3>4
  <2>3. CASE InFabric /\ RightRequest(Pending, srot_current_state) /\ ~fwd
    <3>1. master_reqfifo' = <<Pending>> /\ CoreIdle'
          BY <1>4, <1>5, <2>3 DEF FabricMoves, PortMoves, InFabric
    <3>2. Pending' = Pending
          BY <2>1, <3>1 DEF Pending
    <3>3. InFabric' /\ RightRequest(Pending, srot_current_state)'
          BY <2>1, <2>3, <3>1, <3>2 DEF InFabric
    <3> QED BY <1>6, <1>10, <2>1, <3>3 DEF AccessKnown
  <2>4. CASE NoAccess /\ srot_current_state \in WriteStates
               /\ (CoreWriting \/ CoreWritten)
    <3>1. NoAccess' BY <1>4, <2>1, <2>4 DEF FabricMoves, NoAccess
    <3>2. CoreWritten'
          BY <1>2, <1>5, <1>10, <2>4 DEF PortMoves, CoreWritten
    <3> QED BY <1>6, <1>10, <2>1, <2>4, <3>1, <3>2 DEF AccessKnown
  <2>5. CASE NoAccess /\ srot_current_state \notin WriteStates
               /\ CoreRead /\ RightAnswer
    <3>1. NoAccess' BY <1>4, <2>1, <2>5 DEF FabricMoves, NoAccess
    <3>2. CoreRead' /\ UNCHANGED rdata
          BY <1>2, <1>5, <1>10, <2>5 DEF PortMoves, CoreRead
    <3>3. RightAnswer'
          BY <2>1, <2>5, <3>2 DEF RightAnswer
    <3> QED BY <1>6, <1>10, <2>1, <2>5, <3>1, <3>2, <3>3 DEF AccessKnown
  <2> QED BY <1>10, <2>2, <2>3, <2>4, <2>5 DEF AccessKnown
<1> QED BY <1>8, <1>9, <1>10

-----------------------------------------------------------------------------
(* The software's access to the SRoT is where SlaveKnown says *)

\* What the slave port carries when the software sends a request, polls,
\* fetches the response, sets something up, is answered, or pauses.
Sends(a) ==
    /\ a = Write("SENDRECV", 0, sw_request') /\ sw_request' \in C2Requests
    /\ sw_state = "FREE" /\ sw_op = None /\ sw_op' = "SEND"
    /\ UNCHANGED sw_state
Polls(a) ==
    /\ a = Read("CTRLSTS")
    /\ sw_state = "AWAIT" /\ sw_op = None /\ sw_op' = "POLL"
    /\ UNCHANGED <<sw_state, sw_request>>
Fetches(a) ==
    /\ a = Read("SENDRECV")
    /\ sw_state = "WAITING" /\ sw_op = None /\ sw_op' = "FETCH"
    /\ UNCHANGED <<sw_state, sw_request>>
SetsUp(a) ==
    /\ \/ \E w \in KeyRamWrites : a = Write("KEYRAM", w.idx, w.wdata)
       \/ \E w \in KeyIndexRamWrites : a = Write("KEYINDEXRAM", w.idx, w.wdata)
       \/ \E b \in ModeBits : a = Write("CTRLSTS", 0, {b})
    /\ sw_state = "FREE" /\ sw_op = None /\ sw_op' = "SETUP"
    /\ UNCHANGED <<sw_state, sw_request>>
IsAnswered(a) ==
    /\ a = Silent /\ sw_op # None /\ s_d_valid /\ sw_op' = None
    /\ sw_op = "SEND" => sw_state' = "AWAIT"
    /\ sw_op = "POLL" => sw_state' = IF s_rdata.resp_waiting THEN "WAITING"
                                                            ELSE "AWAIT"
    /\ sw_op = "FETCH" => sw_state' = "FREE"
    /\ sw_op = "SETUP" => sw_state' = sw_state
    /\ sw_request' = IF sw_op = "FETCH" THEN None ELSE sw_request
Pauses(a) ==
    /\ a = Silent /\ ~(sw_op # None /\ s_d_valid)
    /\ UNCHANGED <<sw_state, sw_op, sw_request>>
Accesses(a) == Sends(a) \/ Polls(a) \/ Fetches(a) \/ SetsUp(a)

LEMMA SoftwareStep ==
    ASSUME NEW fwd, NEW back, Step(fwd, back)
    PROVE  \E a : /\ Clock(a, fwd, back)
                  /\ Accesses(a) \/ IsAnswered(a) \/ Pauses(a)
<1> USE DEF Accesses
<1>1. CASE \E m \in C2Requests : SendRequest(m, fwd, back)
      BY <1>1 DEF SendRequest, Sends
<1>2. CASE WriteKeyRam(fwd, back) \/ WriteKeyIndexRam(fwd, back)
             \/ SetMode(fwd, back)
      BY <1>2 DEF WriteKeyRam, WriteKeyIndexRam, SetMode, SetUp, SetsUp
<1>3. CASE Poll(fwd, back) BY <1>3 DEF Poll, Polls
<1>4. CASE FetchResponse(fwd, back) BY <1>4 DEF FetchResponse, Fetches
<1>5. CASE Answered(fwd, back)
  <2>1. IsAnswered(Silent) BY <1>5 DEF Answered, IsAnswered
  <2> QED BY <1>5, <2>1 DEF Answered
<1>6. CASE Pause(fwd, back) BY <1>6 DEF Pause, Pauses, swVars
<1> QED BY <1>1, <1>2, <1>3, <1>4, <1>5, <1>6 DEF Step, SoftwareAct

\* What the adapter of the slave port makes of it.
SlaveIdle == ~s_outstanding_read /\ ~s_outstanding_write /\ ~s_d_valid
SlaveMoves(a) ==
    LET r == SlaveStrobe(a) IN
    /\ sw_op = None /\ a.valid =>
           /\ s_outstanding_read' <=> a.opcode = "Get"
           /\ s_outstanding_write' <=> a.opcode # "Get"
           /\ ~s_d_valid' /\ ~s_error'
           /\ r.we <=> a.opcode # "Get"
           /\ r.re <=> a.opcode = "Get"
    /\ sw_op = None /\ ~a.valid => SlaveIdle' /\ ~s_error' /\ ~r.we /\ ~r.re
    /\ sw_op # None /\ ~s_d_valid =>
           /\ UNCHANGED <<s_outstanding_read, s_outstanding_write>>
           /\ s_d_valid' /\ (s_error' <=> srot_error_i)
           /\ s_outstanding_read => s_rdata' = srot_rdata_i
           /\ ~r.we /\ ~r.re
    /\ sw_op # None /\ s_d_valid => SlaveIdle' /\ ~s_error' /\ ~r.we /\ ~r.re
    /\ r.addr = a.addr /\ r.wdata = a.data

LEMMA SlaveMovesSo ==
    ASSUME TypeOK, SlaveKnown, NEW a, ~a.malformed, a.valid \in BOOLEAN,
           a.opcode \in {"PutFullData", "Get"},
           Slave!AdapterStep(a, srot_ack_i, srot_error_i, srot_rdata_i, TRUE)
    PROVE  SlaveMoves(a)
<1> DEFINE r == SlaveStrobe(a)
<1>1. /\ s_outstanding_read \in BOOLEAN /\ s_outstanding_write \in BOOLEAN
      /\ s_d_valid \in BOOLEAN
      /\ reg_we_o_d1 \in BOOLEAN /\ reg_re_o_d1 \in BOOLEAN
      /\ sw_op \in {None, "SEND", "POLL", "FETCH", "SETUP"}
      BY DEF TypeOK, Slave!AdapterTypeOK, SrotTypeOK, DecodeTypeOK
<1>2. /\ sw_op = None => SlaveIdle /\ ~srot_ack_i
      /\ sw_op # None =>
             /\ ~Slave!a_ready
             /\ s_outstanding_read <=> ~s_outstanding_write
             /\ srot_ack_i <=> ~s_d_valid
      /\ Slave!a_ready <=> ~s_outstanding_read /\ ~s_outstanding_write
      /\ ~s_error
      BY <1>1 DEF SlaveKnown, SlaveIdle, NoStrobe, srot_ack_i, Slave!a_ready
<1>3. /\ r.we <=> a.valid /\ Slave!a_ready /\ a.opcode # "Get"
      /\ r.re <=> a.valid /\ Slave!a_ready /\ a.opcode = "Get"
      /\ r.addr = a.addr /\ r.wdata = a.data
      BY DEF SlaveStrobe, Slave!we_o, Slave!re_o, Slave!wr_req, Slave!rd_req,
             Slave!a_ack, Slave!Put
<1>4. /\ Slave!a_ack(a) <=> a.valid /\ Slave!a_ready
      /\ Slave!wr_req(a) <=> r.we
      /\ Slave!rd_req(a) <=> r.re
      BY <1>3 DEF Slave!wr_req, Slave!rd_req, Slave!a_ack, Slave!Put
<1> HIDE DEF r
<1> USE <1>1, <1>2, <1>3, <1>4 DEF SlaveIdle, Slave!Capture
<1>5. /\ sw_op = None /\ a.valid =>
             /\ s_outstanding_read' <=> r.re
             /\ s_outstanding_write' <=> r.we
             /\ ~s_d_valid' /\ ~s_error'
      /\ sw_op = None /\ ~a.valid => SlaveIdle' /\ ~s_error'
      /\ sw_op # None /\ ~s_d_valid =>
             /\ UNCHANGED <<s_outstanding_read, s_outstanding_write>>
             /\ s_d_valid' /\ (s_error' <=> srot_error_i)
             /\ s_outstanding_read => s_rdata' = srot_rdata_i
      /\ sw_op # None /\ s_d_valid => SlaveIdle' /\ ~s_error'
  <2>1. CASE Slave!AcceptAndAnswer(a, srot_ack_i, srot_error_i, srot_rdata_i)
        BY <2>1 DEF Slave!AcceptAndAnswer
  <2>2. CASE Slave!Accept(a, srot_ack_i)
        BY <2>2 DEF Slave!Accept
  <2>3. CASE Slave!AnswerRead(a, srot_ack_i, srot_error_i, srot_rdata_i)
        BY <2>3 DEF Slave!AnswerRead
  <2>4. CASE Slave!AnswerWrite(a, srot_ack_i, srot_error_i)
        BY <2>4 DEF Slave!AnswerWrite
  <2>5. CASE Slave!Release(a, srot_ack_i, TRUE)
        BY <2>5 DEF Slave!Release
  <2>6. CASE Slave!Hold(a, srot_ack_i, TRUE)
        BY <2>6 DEF Slave!Hold, Slave!adapterVars
  <2> QED BY <2>1, <2>2, <2>3, <2>4, <2>5, <2>6 DEF Slave!AdapterStep
<1> QED BY <1>5 DEF SlaveMoves, r

\* The access of the step and what the adapter makes of it.
SlaveStep(a) == SlaveMoves(a) /\ SrotWriteDecode(SlaveStrobe(a))

\* What the port carries, field by field.
LEMMA Fields ==
    /\ ~Silent.valid /\ ~Silent.malformed /\ Silent.opcode = "Get"
    /\ Silent.addr = [unit |-> "OTHER", idx |-> 0]
    /\ \A unit : /\ Read(unit).valid /\ ~Read(unit).malformed
                 /\ Read(unit).opcode = "Get"
                 /\ Read(unit).addr = [unit |-> unit, idx |-> 0]
    /\ \A unit, idx, data :
           /\ Write(unit, idx, data).valid /\ ~Write(unit, idx, data).malformed
           /\ Write(unit, idx, data).opcode = "PutFullData"
           /\ Write(unit, idx, data).addr = [unit |-> unit, idx |-> idx]
           /\ Write(unit, idx, data).data = data
BY DEF Silent, Read, Write, SlaveChannel

LEMMA SlaveStepSo ==
    ASSUME TypeOK, SlaveKnown, NEW fwd, NEW back, NEW a, Clock(a, fwd, back),
           Accesses(a) \/ IsAnswered(a) \/ Pauses(a)
    PROVE  /\ SlaveStep(a)
           /\ Accesses(a) => a.valid /\ sw_op = None
           /\ Accesses(a) \/ a = Silent
           /\ ~Silent.valid
<1>1. ~Silent.valid /\ ~Silent.malformed /\ Silent.opcode = "Get"
      BY Fields
<1>2. ASSUME Accesses(a)
      PROVE  /\ a.valid = TRUE /\ ~a.malformed
             /\ a.opcode \in {"PutFullData", "Get"} /\ sw_op = None
  <2>1. CASE Sends(a) BY <2>1, Fields DEF Sends, Write, SlaveChannel
  <2>2. CASE Polls(a) BY <2>2, Fields DEF Polls, Read, SlaveChannel
  <2>3. CASE Fetches(a) BY <2>3, Fields DEF Fetches, Read, SlaveChannel
  <2>4. CASE SetsUp(a) BY <2>4, Fields DEF SetsUp, Write, SlaveChannel
  <2> QED BY <1>2, <2>1, <2>2, <2>3, <2>4 DEF Accesses
<1>3. Accesses(a) \/ a = Silent
      BY DEF IsAnswered, Pauses
<1>4. /\ ~a.malformed /\ a.valid \in BOOLEAN /\ a.opcode \in {"PutFullData", "Get"}
  <2>1. CASE Accesses(a) BY <1>2, <2>1
  <2>2. CASE a = Silent BY <2>2 DEF Silent, SlaveChannel
  <2> QED BY <1>3, <2>1, <2>2
<1>5. Slave!AdapterStep(a, srot_ack_i, srot_error_i, srot_rdata_i, TRUE)
      /\ SrotWriteDecode(SlaveStrobe(a))
      BY DEF Clock, Hardware, SrotStep
<1>6. SlaveStep(a)
      BY <1>4, <1>5, SlaveMovesSo DEF SlaveStep
<1> QED BY <1>1, <1>2, <1>3, <1>6

\* None is none of the software's operations.
LEMMA NoneIsNew == None \notin {"SEND", "POLL", "FETCH", "SETUP"}
BY NoneAssumption

\* A request is written to an empty FIFO, and nothing is answered with an error.
LEMMA NoError ==
    ASSUME TypeOK, SlaveKnown, TokenKnown
    PROVE  /\ ~srot_error_i
           /\ sw_state = "FREE" /\ sw_op = None => Nowhere /\ ~ReqFifoFull
<1> USE DEF SlaveKnown, TokenKnown, NoneIsNew
<1>1. CASE sw_state = "FREE" /\ sw_op = None
  <2>1. Nowhere
        BY <1>1, NoneIsNew DEF Written, Queued, Taken, Working, Offered, Ready, Fetched
  <2>2. llkic2_reqfifo = <<>>
        BY <2>1 DEF Nowhere, Holds
  <2>4. FifoDepth # 0
        BY SrotAssumption
  <2>5. Len(<<>>) = 0
        OBVIOUS
  <2>3. ~reg_re_o_d1 /\ ~write_error
        BY <1>1 DEF NoStrobe
  <2> QED BY <2>1, <2>2, <2>3, <2>4, <2>5
          DEF ReqFifoFull, srot_error_i, srot_read_error
<1>2. CASE reg_re_o_d1 /\ sw_op = "FETCH"
  <2>1. Ready /\ ~s_d_valid /\ reg_addr_o_d1.unit = "SENDRECV"
        BY <1>2 DEF Fetched
  <2>2. llkic2_respfifo # <<>>
        BY <2>1 DEF Ready, Holds
  <2> QED BY <1>2, <2>1, <2>2, NoneIsNew
          DEF srot_error_i, srot_read_error, RespFifoPop
<1>3. CASE reg_re_o_d1 /\ sw_op = "POLL"
      BY <1>3, NoneIsNew DEF srot_error_i, srot_read_error
<1>4. CASE ~reg_re_o_d1 /\ ~(sw_state = "FREE" /\ sw_op = None)
      BY <1>4 DEF srot_error_i, srot_read_error
<1>5. sw_op \in {None, "SEND", "POLL", "FETCH", "SETUP"} BY DEF TypeOK
<1> QED BY <1>1, <1>2, <1>3, <1>4, <1>5 DEF NoStrobe

\* What the register decode makes of it.
DecodeMoves(a) ==
    LET r == SlaveStrobe(a) IN
    /\ reg_addr_o_d1' = a.addr
    /\ reg_we_o_d1' = r.we
    /\ reg_re_o_d1' = r.re
    /\ ram_write_i' # None =>
           /\ r.we /\ srot_ctrlstatus_register.mode = {}
           /\ a.addr.unit \in {"KEYRAM", "KEYINDEXRAM"}
           /\ srot_ctrlstatus_register'.mode = {}
    /\ reqfifo_wdata_i' # None => r.we /\ a.addr.unit = "SENDRECV"
    /\ write_error' =>
           r.we /\ \/ a.addr.unit = "OTHER"
                   \/ a.addr.unit = "SENDRECV" /\ ReqFifoFull

LEMMA DecodeMovesSo ==
    ASSUME NEW a, SlaveMoves(a), SrotWriteDecode(SlaveStrobe(a))
    PROVE  DecodeMoves(a)
<1> DEFINE r == SlaveStrobe(a)
<1>1. r.addr = a.addr /\ r.wdata = a.data BY DEF SlaveMoves
<1>2. SrotWriteDecode(r) OBVIOUS
<1> HIDE DEF r
<1>3. /\ reg_addr_o_d1' = a.addr
      /\ reg_we_o_d1' = r.we
      /\ reg_re_o_d1' = r.re
      BY <1>1, <1>2 DEF SrotWriteDecode
<1>4. /\ reqfifo_wdata_i' # None => r.we /\ a.addr.unit = "SENDRECV"
      /\ write_error' =>
             r.we /\ \/ a.addr.unit = "OTHER"
                     \/ a.addr.unit = "SENDRECV" /\ ReqFifoFull
      BY <1>1, <1>2 DEF SrotWriteDecode
<1>5. ram_write_i' # None =>
             /\ r.we /\ a.addr.unit \in {"KEYRAM", "KEYINDEXRAM"} /\ Unlocked
      BY <1>1, <1>2 DEF SrotWriteDecode, RamWrite
<1>6. srot_ctrlstatus_register'.mode =
          srot_ctrlstatus_register.mode \cup
              (IF r.we /\ a.addr.unit = "CTRLSTS" THEN a.data ELSE {})
      BY <1>1, <1>2 DEF SrotWriteDecode
<1>7. ram_write_i' # None => srot_ctrlstatus_register'.mode = {}
      BY <1>5, <1>6 DEF Unlocked
<1> QED BY <1>3, <1>4, <1>5, <1>7 DEF DecodeMoves, Unlocked, r

LEMMA SlaveKnownStep ==
    ASSUME TypeOK, SlaveKnown, TokenKnown,
           NEW fwd, NEW back, NEW a, Clock(a, fwd, back),
           Accesses(a) \/ IsAnswered(a) \/ Pauses(a)
    PROVE  SlaveKnown'
<1>1. /\ SlaveMoves(a) /\ SrotWriteDecode(SlaveStrobe(a))
      /\ Accesses(a) => a.valid /\ sw_op = None
      /\ Accesses(a) \/ a = Silent
      /\ ~Silent.valid
      BY SlaveStepSo DEF SlaveStep
<1>2. ~srot_error_i /\ (sw_state = "FREE" /\ sw_op = None => ~ReqFifoFull)
      BY NoError
<1>3. DecodeMoves(a)
      BY <1>1, DecodeMovesSo
<1>4. SlaveStrobe(a).we \in BOOLEAN /\ SlaveStrobe(a).re \in BOOLEAN
      BY DEF SlaveStrobe, Slave!we_o, Slave!re_o, Slave!wr_req, Slave!rd_req,
             Slave!a_ack
<1>5. CASE Sends(a)
  <2>1. /\ a.valid /\ a.opcode # "Get" /\ a.addr.unit = "SENDRECV"
        /\ sw_request' # None
        BY <1>5, NoneAssumption, SoftwareAssumption
        DEF Sends, Write, SlaveChannel
  <2> QED BY <1>1, <1>2, <1>3, <1>4, <1>5, <2>1, NoneIsNew
          DEF SlaveKnown, Sends, SlaveMoves, DecodeMoves
<1>6. CASE Polls(a)
  <2>1. a.valid /\ a.opcode = "Get" /\ a.addr.unit = "CTRLSTS"
        BY <1>6 DEF Polls, Read, SlaveChannel
  <2> QED BY <1>1, <1>2, <1>3, <1>4, <1>6, <2>1, NoneIsNew
          DEF SlaveKnown, Polls, SlaveMoves, DecodeMoves
<1>7. CASE Fetches(a)
  <2>1. a.valid /\ a.opcode = "Get" /\ a.addr.unit = "SENDRECV"
        BY <1>7 DEF Fetches, Read, SlaveChannel
  <2> QED BY <1>1, <1>2, <1>3, <1>4, <1>7, <2>1, NoneIsNew
          DEF SlaveKnown, Fetches, SlaveMoves, DecodeMoves
<1>8. CASE SetsUp(a)
  <2>1. /\ a.valid /\ a.opcode # "Get"
        /\ a.addr.unit \in {"KEYRAM", "KEYINDEXRAM", "CTRLSTS"}
        BY <1>8 DEF SetsUp, Write, SlaveChannel
  <2>2. /\ a.addr.unit = "KEYRAM" => a.addr.idx < KeyRamSize
        /\ a.addr.unit = "KEYINDEXRAM" => a.addr.idx < KeyIndexRamSize
    <3>1. /\ \A w \in KeyRamWrites : w.idx < KeyRamSize
          /\ \A w \in KeyIndexRamWrites : w.idx < KeyIndexRamSize
      <4>1. KeyRamSize \in Nat /\ KeyIndexRamSize \in Nat
            BY SrotAssumption, MaxIs
      <4> QED BY <4>1, SoftwareAssumption
    <3> QED BY <1>8, <3>1 DEF SetsUp, Write, SlaveChannel
  <2> QED BY <1>1, <1>2, <1>3, <1>4, <1>8, <2>1, <2>2, NoneIsNew
          DEF SlaveKnown, SetsUp, SlaveMoves, DecodeMoves
<1>9. CASE IsAnswered(a)
  <2>1. sw_op \in {None, "SEND", "POLL", "FETCH", "SETUP"} BY DEF TypeOK
  <2>2. ~a.valid BY <1>1, <1>9 DEF IsAnswered
  <2> QED BY <1>1, <1>2, <1>3, <1>4, <1>9, <2>1, <2>2, NoneIsNew
          DEF SlaveKnown, IsAnswered, SlaveMoves, DecodeMoves, SlaveIdle, NoStrobe
<1>10. CASE Pauses(a) /\ sw_op # None
  <2>1. ~a.valid BY <1>1, <1>10 DEF Pauses
  <2>2. sw_op \in {"SEND", "POLL", "FETCH", "SETUP"} BY <1>10 DEF TypeOK
  <2> QED BY <1>1, <1>2, <1>3, <1>4, <1>10, <2>1, <2>2, NoneIsNew
          DEF SlaveKnown, Pauses, SlaveMoves, DecodeMoves
<1>11. CASE Pauses(a) /\ sw_op = None
  <2>1. ~a.valid BY <1>1, <1>11 DEF Pauses
  <2> QED BY <1>1, <1>2, <1>3, <1>4, <1>11, <2>1, NoneIsNew
          DEF SlaveKnown, Pauses, SlaveMoves, DecodeMoves, SlaveIdle, NoStrobe
<1> QED BY <1>5, <1>6, <1>7, <1>8, <1>9, <1>10, <1>11 DEF Accesses

-----------------------------------------------------------------------------
(* The request and its response are where TokenKnown says *)

\* What the FIFOs do with the one message there is.
LEMMA OneMessage ==
    /\ \A clr, pop : FifoNext(<<>>, clr, None, pop) = <<>>
    /\ \A w, pop : w # None => FifoNext(<<>>, FALSE, w, pop) = <<w>>
    /\ \A m : FifoNext(<<m>>, FALSE, None, FALSE) = <<m>>
    /\ \A m : FifoNext(<<m>>, FALSE, None, TRUE) = <<>>
<1>1. FifoDepth \in Nat /\ 0 < FifoDepth
      BY SrotAssumption
<1>2. \A pop : (IF pop /\ <<>> # <<>> THEN Tail(<<>>) ELSE <<>>) = <<>>
      OBVIOUS
<1>3. Len(<<>>) < FifoDepth
      BY <1>1
<1>4. \A w : <<>> \o <<w>> = <<w>>
      OBVIOUS
<1>5. <<>> \o <<>> = <<>>
      OBVIOUS
<1>6. \A clr, pop : FifoNext(<<>>, clr, None, pop) = <<>>
      BY <1>2, <1>5 DEF FifoNext
<1>7. \A w, pop : w # None => FifoNext(<<>>, FALSE, w, pop) = <<w>>
      BY <1>2, <1>3, <1>4 DEF FifoNext
<1>8. \A m : <<m>> # <<>> /\ Tail(<<m>>) = <<>> /\ <<m>> \o <<>> = <<m>>
      OBVIOUS
<1>9. \A m : FifoNext(<<m>>, FALSE, None, FALSE) = <<m>>
      BY <1>8 DEF FifoNext
<1>10. \A m : FifoNext(<<m>>, FALSE, None, TRUE) = <<>>
      BY <1>5, <1>8 DEF FifoNext
<1> QED BY <1>6, <1>7, <1>9, <1>10

\* A response is not nothing.
LEMMA ResponseType ==
    ASSUME StmTypeOK
    PROVE  C2ResponseMessage \in C2ResponseWord /\ C2ResponseMessage # None
<1>1. rsvd \in Tag /\ status \in Status
      BY DEF StmTypeOK
<1>2. 1 \in MsgLen BY MaxIs, Ranges
<1>3. \A id \in Mid, st \in Status : C2Message(id, st) \in C2ResponseWord
      BY <1>1, <1>2 DEF C2Message, C2ResponseWord
<1>4. /\ {"C2LOADKEYACK", "C2CLEARKEYACK", "C2KEYSTATUSRESP", "ERRORRESP"}
             \subseteq Mid
      /\ {"KL_RESP_BAD_MSG_ID", "UNKNOWN_ERROR"} \subseteq Status
      BY DEF Mid, C2Response, Status
<1>5. C2ResponseMessage \in C2ResponseWord
      BY <1>1, <1>3, <1>4 DEF C2ResponseMessage
<1>6. None \notin C2ResponseWord BY NoneAssumption
<1> QED BY <1>5, <1>6

\* The step as the request and its response see it.
TokenStep(a) ==
    /\ SlaveMoves(a) /\ DecodeMoves(a) /\ TokenMoves /\ C2FifoStep
    /\ srot_ctrlstatus_register'.resp_waiting = (llkic2_respfifo # <<>>)
    /\ Sends(a) => reqfifo_wdata_i' = sw_request' /\ sw_request' # None
                     /\ reg_we_o_d1'
    /\ ~Sends(a) => reqfifo_wdata_i' = None
    /\ Fetches(a) => reg_re_o_d1'
    /\ Accesses(a) => sw_op = None
    /\ Accesses(a) \/ IsAnswered(a) \/ Pauses(a)

LEMMA TokenStepSo ==
    ASSUME TypeOK, SlaveKnown, TokenKnown,
           NEW fwd, NEW back, NEW a, Clock(a, fwd, back),
           Accesses(a) \/ IsAnswered(a) \/ Pauses(a)
    PROVE  TokenStep(a)
<1> DEFINE r == SlaveStrobe(a)
<1>1. /\ SlaveMoves(a) /\ SrotWriteDecode(r)
      /\ Accesses(a) => a.valid /\ sw_op = None
      /\ Accesses(a) \/ a = Silent
      BY SlaveStepSo DEF SlaveStep
<1>2. DecodeMoves(a)
      BY <1>1, DecodeMovesSo
<1>3. TokenMoves /\ C2FifoStep
      BY TokenMovesSo DEF Clock, Hardware, SrotStep
<1>4. r.addr = a.addr /\ r.wdata = a.data
      BY <1>1 DEF SlaveMoves
<1> HIDE DEF r
<1>5. srot_ctrlstatus_register'.resp_waiting = (llkic2_respfifo # <<>>)
      BY <1>1 DEF SrotWriteDecode
<1>6. ASSUME Sends(a)
      PROVE  reqfifo_wdata_i' = sw_request' /\ sw_request' # None /\ reg_we_o_d1'
  <2>1. a = Write("SENDRECV", 0, sw_request') /\ sw_request' \in C2Requests
        /\ sw_state = "FREE" /\ sw_op = None
        BY <1>6 DEF Sends
  <2>2. /\ a.valid /\ a.opcode # "Get" /\ a.addr.unit = "SENDRECV"
        /\ a.data = sw_request'
        BY <2>1 DEF Write, SlaveChannel
  <2>3. SlaveStrobe(a).we BY <1>1, <2>1, <2>2 DEF SlaveMoves
  <2>4. ~ReqFifoFull BY <2>1, NoError
  <2>5. reqfifo_wdata_i' = sw_request'
        BY <1>1, <1>4, <2>2, <2>3, <2>4 DEF SrotWriteDecode, r
  <2>6. sw_request' # None
        BY <2>1, NoneAssumption, SoftwareAssumption
  <2> QED BY <1>2, <2>3, <2>5, <2>6 DEF DecodeMoves
<1>7. ASSUME ~Sends(a)
      PROVE  reqfifo_wdata_i' = None
  <2>1. CASE SetsUp(a)
    <3>1. a.addr.unit # "SENDRECV"
          BY <2>1 DEF SetsUp, Write, SlaveChannel
    <3> QED BY <1>2, <3>1 DEF DecodeMoves
  <2>2. CASE Polls(a) \/ Fetches(a)
    <3>1. a.opcode = "Get" /\ a.valid /\ sw_op = None
          BY <2>2, Fields DEF Polls, Fetches
    <3>2. ~SlaveStrobe(a).we
          BY <1>1, <3>1 DEF SlaveMoves
    <3> QED BY <1>2, <3>2 DEF DecodeMoves
  <2>3. CASE a = Silent
    <3>1. a.addr.unit # "SENDRECV"
          BY <2>3, Fields
    <3> QED BY <1>2, <3>1 DEF DecodeMoves
  <2> QED BY <1>1, <1>7, <2>1, <2>2, <2>3 DEF Accesses
<1>8. ASSUME Fetches(a)
      PROVE  reg_re_o_d1'
  <2>1. a.opcode = "Get" /\ a.valid /\ sw_op = None
        BY <1>8, Fields DEF Fetches
  <2>2. SlaveStrobe(a).re
        BY <1>1, <2>1 DEF SlaveMoves
  <2> QED BY <1>2, <2>2 DEF DecodeMoves
<1> QED BY <1>1, <1>2, <1>3, <1>5, <1>6, <1>7, <1>8 DEF TokenStep

\* While a request is on its way the software only polls and waits.
LEMMA WhileAsked ==
    ASSUME TypeOK, SlaveKnown, NEW a, TokenStep(a), sw_request # None,
           sw_op = "SEND" => s_d_valid,
           sw_op = "FETCH" => ~s_d_valid
    PROVE  /\ sw_request' = sw_request /\ sw_op' # "SEND"
           /\ reqfifo_wdata_i' = None
           /\ sw_op' = "FETCH" => sw_state = "WAITING"
           /\ sw_op' = "FETCH" /\ sw_op # "FETCH" => reg_re_o_d1'
           /\ sw_state' = "WAITING" =>
                  \/ sw_state = "WAITING"
                  \/ sw_op = "POLL" /\ s_d_valid /\ s_rdata.resp_waiting
<1> USE DEF SlaveKnown, TokenStep, NoneIsNew
<1>1. sw_op \in {None, "SEND", "POLL", "FETCH", "SETUP"}
      BY DEF TypeOK
<1>2. CASE Sends(a) \/ SetsUp(a)
      BY <1>2, NoneIsNew DEF Sends, SetsUp
<1>3. CASE Polls(a)
      BY <1>3, NoneIsNew DEF Polls, Sends
<1>4. CASE Fetches(a)
      BY <1>4, NoneIsNew DEF Fetches, Sends
<1>5. CASE IsAnswered(a)
      BY <1>1, <1>5, NoneIsNew DEF IsAnswered, Sends
<1>6. CASE Pauses(a)
      BY <1>1, <1>6, NoneIsNew DEF Pauses, Sends
<1> QED BY <1>2, <1>3, <1>4, <1>5, <1>6 DEF Accesses

LEMMA NowhereMoves ==
    ASSUME TypeOK, SlaveKnown, NEW a, TokenStep(a), Nowhere
    PROVE  Nowhere' \/ Written'
<1>1. Resting' /\ llkic2_reqfifo' = <<>> /\ llkic2_respfifo' = <<>>
        /\ respfifo_wdata_i' = None
  <2>1. llkic2_reqfifo' = <<>> /\ llkic2_respfifo' = <<>>
        BY OneMessage DEF TokenStep, Nowhere, Holds, C2FifoStep
  <2>2. Resting' /\ respfifo_wdata_i' = None
        BY DEF TokenStep, TokenMoves, Nowhere, Resting, Holds
  <2> QED BY <2>1, <2>2
<1>2. CASE Sends(a)
      BY <1>1, <1>2 DEF TokenStep, Written, Holds, Sends
<1>3. CASE ~Sends(a)
  <2>1. sw_request' = None
        BY <1>3 DEF TokenStep, Nowhere, Accesses, Polls, Fetches, SetsUp,
           IsAnswered, Pauses
  <2> QED BY <1>1, <1>3, <2>1 DEF TokenStep, Nowhere, Holds
<1> QED BY <1>2, <1>3

LEMMA WrittenMoves ==
    ASSUME TypeOK, SlaveKnown, NEW a, TokenStep(a), Written
    PROVE  Queued'
<1>1. sw_op = "SEND" /\ ~s_d_valid /\ sw_op # None
      BY NoneIsNew DEF Written, SlaveKnown
<1>2. Pauses(a) /\ ~Sends(a)
      BY <1>1 DEF TokenStep, IsAnswered, Sends
<1>3. sw_request' = sw_request /\ sw_request # None
      BY <1>1, <1>2, NoneIsNew DEF Pauses, SlaveKnown
<1>4. Resting' /\ llkic2_reqfifo' = <<sw_request>> /\ llkic2_respfifo' = <<>>
        /\ respfifo_wdata_i' = None
  <2>1. llkic2_reqfifo_clr_i = FALSE
        BY DEF Written, Resting, TypeOK, SrotTypeOK, StmTypeOK
  <2>2. llkic2_reqfifo' = <<sw_request>> /\ llkic2_respfifo' = <<>>
        BY <1>3, <2>1, OneMessage DEF TokenStep, Written, Holds, C2FifoStep
  <2>3. Resting' /\ respfifo_wdata_i' = None
        BY DEF TokenStep, TokenMoves, Written, Resting, Holds
  <2> QED BY <2>2, <2>3
<1>5. s_d_valid' /\ reqfifo_wdata_i' = None
      BY <1>1, <1>2 DEF TokenStep, SlaveMoves
<1> QED BY <1>3, <1>4, <1>5 DEF Queued, Holds

LEMMA QueuedMoves ==
    ASSUME TypeOK, SlaveKnown, NEW a, TokenStep(a), Queued, sw_state # "WAITING"
    PROVE  Taken'
<1>1. /\ sw_request' = sw_request /\ sw_request # None /\ sw_op' # "SEND"
      /\ reqfifo_wdata_i' = None
      BY WhileAsked DEF Queued, SlaveKnown
<1>2. llkic2_reqfifo # <<>>
      BY DEF Queued, Holds
<1>3. /\ srot_current_state' = "MESSAGE_CHECK" /\ llkic2_reqfifo_rready_i' = TRUE
      /\ ~llkic2_reqfifo_clr_i' /\ respfifo_wdata_i' = None
      BY <1>2 DEF Queued, Resting, TokenStep, TokenMoves
<1>4. llkic2_reqfifo' = <<sw_request>> /\ llkic2_respfifo' = <<>>
  <2>1. ~llkic2_reqfifo_clr_i /\ ~llkic2_reqfifo_rready_i
        BY DEF Queued, Resting
  <2>2. llkic2_reqfifo_clr_i = FALSE /\ llkic2_reqfifo_rready_i = FALSE
        BY <2>1 DEF TypeOK, SrotTypeOK, StmTypeOK
  <2> QED BY <2>2, OneMessage DEF TokenStep, Queued, Holds, C2FifoStep
<1> QED BY <1>1, <1>3, <1>4 DEF Taken, Holds

LEMMA TakenMoves ==
    ASSUME TypeOK, SlaveKnown, NEW a, TokenStep(a), Taken, sw_state # "WAITING"
    PROVE  Working'
<1>1. /\ sw_request' = sw_request /\ sw_request # None /\ sw_op' # "SEND"
      /\ reqfifo_wdata_i' = None
      BY WhileAsked DEF Taken, SlaveKnown
<1>2. /\ srot_current_state' \notin {"IDLE", "MESSAGE_CHECK"}
      /\ llkic2_reqfifo_clr_i' => srot_current_state' = "C2_RESPONSE"
      /\ ~llkic2_reqfifo_rready_i' /\ respfifo_wdata_i' = None
      BY DEF Taken, TokenStep, TokenMoves
<1>3. llkic2_reqfifo' = <<>> /\ llkic2_respfifo' = <<>>
  <2>1. llkic2_reqfifo_clr_i = FALSE /\ llkic2_reqfifo_rready_i = TRUE
        BY DEF Taken, TypeOK, SrotTypeOK, StmTypeOK
  <2> QED BY <2>1, OneMessage DEF TokenStep, Taken, Holds, C2FifoStep
<1> QED BY <1>1, <1>2, <1>3 DEF Working, Holds

LEMMA WorkingMoves ==
    ASSUME TypeOK, SlaveKnown, NEW a, TokenStep(a), Working, sw_state # "WAITING"
    PROVE  Working' \/ Offered'
<1>1. /\ sw_request' = sw_request /\ sw_request # None /\ sw_op' # "SEND"
      /\ reqfifo_wdata_i' = None
      BY WhileAsked DEF Working, SlaveKnown
<1>2. llkic2_reqfifo' = <<>> /\ llkic2_respfifo' = <<>>
      BY OneMessage DEF TokenStep, Working, Holds, C2FifoStep
<1>3. CASE srot_current_state = "C2_RESPONSE"
  <2>1. respfifo_wdata_i' # None
        BY <1>3, ResponseType
        DEF TokenStep, TokenMoves, TypeOK, SrotTypeOK
  <2> QED BY <1>1, <1>2, <1>3, <2>1
          DEF Offered, Resting, Holds, TokenStep, TokenMoves
<1>4. CASE srot_current_state # "C2_RESPONSE"
      BY <1>1, <1>2, <1>4 DEF Working, Holds, TokenStep, TokenMoves
<1> QED BY <1>3, <1>4

LEMMA OfferedMoves ==
    ASSUME TypeOK, SlaveKnown, NEW a, TokenStep(a), Offered, sw_state # "WAITING"
    PROVE  Ready' /\ Head(llkic2_respfifo') = respfifo_wdata_i
<1>1. /\ sw_request' = sw_request /\ sw_request # None /\ sw_op' # "SEND"
      /\ reqfifo_wdata_i' = None /\ sw_op' # "FETCH"
      BY WhileAsked DEF Offered, SlaveKnown
<1>2. llkic2_reqfifo' = <<>> /\ llkic2_respfifo' = <<respfifo_wdata_i>>
      BY OneMessage DEF TokenStep, Offered, Holds, C2FifoStep
<1>3. /\ llkic2_respfifo' = <<Head(llkic2_respfifo')>>
      /\ Head(llkic2_respfifo') = respfifo_wdata_i
      BY <1>2
<1>4. Resting' /\ respfifo_wdata_i' = None
      BY DEF Offered, Holds, Resting, TokenStep, TokenMoves
<1> QED BY <1>1, <1>2, <1>3, <1>4 DEF Ready, Holds

LEMMA ReadyMoves ==
    ASSUME TypeOK, SlaveKnown, NEW a, TokenStep(a), Ready
    PROVE  /\ IF sw_op = "FETCH"
              THEN Fetched' /\ s_rdata' = Head(llkic2_respfifo)
              ELSE Ready' /\ Head(llkic2_respfifo') = Head(llkic2_respfifo)
           /\ sw_op = "FETCH" => sw_op' = "FETCH"
           /\ sw_request' = sw_request
<1>1. /\ sw_request' = sw_request /\ sw_request # None /\ sw_op' # "SEND"
      /\ reqfifo_wdata_i' = None
      /\ sw_op' = "FETCH" /\ sw_op # "FETCH" => reg_re_o_d1'
      BY WhileAsked DEF Ready, SlaveKnown
<1>2. llkic2_reqfifo' = <<>> /\ Resting' /\ respfifo_wdata_i' = None
      BY OneMessage
      DEF TokenStep, TokenMoves, Ready, Resting, Holds, C2FifoStep
<1> DEFINE resp == Head(llkic2_respfifo)
<1>3. /\ llkic2_respfifo = <<resp>> /\ respfifo_wdata_i = None
      /\ llkic2_respfifo # <<>>
      BY DEF Ready, Holds
<1>4. resp \in C2ResponseWord
      BY <1>3 DEF TypeOK, SrotTypeOK, MemTypeOK
<1>5. resp # None BY <1>4, NoneAssumption
<1> HIDE DEF resp
<1>6. ASSUME sw_op = "FETCH"
      PROVE  Fetched' /\ s_rdata' = resp /\ sw_op' = "FETCH"
  <2>1. /\ reg_re_o_d1 /\ ~s_d_valid /\ s_outstanding_read
        /\ reg_addr_o_d1.unit = "SENDRECV"
        BY <1>6 DEF Ready, SlaveKnown
  <2>2. Pauses(a) /\ sw_op' = "FETCH"
        BY <1>6, <2>1, NoneIsNew DEF TokenStep, IsAnswered, Pauses
  <2>3. RespFifoPop = TRUE
        BY <1>3, <2>1 DEF RespFifoPop
  <2>4. llkic2_respfifo' = <<>>
        BY <1>3, <2>3, OneMessage DEF TokenStep, C2FifoStep
  <2>5. srot_rdata_i = resp
        BY <2>1, <2>3 DEF srot_rdata_i, resp
  <2>6. s_d_valid' /\ s_rdata' = resp
        BY <1>6, <2>1, <2>5, NoneIsNew DEF TokenStep, SlaveMoves
  <2> QED BY <1>1, <1>2, <1>5, <1>6, <2>2, <2>4, <2>6 DEF Fetched, Holds
<1>7. ASSUME sw_op # "FETCH"
      PROVE  Ready' /\ Head(llkic2_respfifo') = resp
  <2>1. reg_re_o_d1 => reg_addr_o_d1.unit = "CTRLSTS"
        BY <1>7 DEF SlaveKnown, TypeOK, NoStrobe
  <2>2. RespFifoPop = FALSE
        BY <2>1 DEF RespFifoPop
  <2>3. llkic2_respfifo' = <<resp>>
        BY <1>3, <2>2, OneMessage DEF TokenStep, C2FifoStep
  <2>4. /\ llkic2_respfifo' = <<Head(llkic2_respfifo')>>
        /\ Head(llkic2_respfifo') = resp
        BY <2>3
  <2> QED BY <1>1, <1>2, <1>7, <2>4 DEF Ready, Holds
<1> QED BY <1>1, <1>6, <1>7 DEF resp

LEMMA FetchedMoves ==
    ASSUME TypeOK, SlaveKnown, NEW a, TokenStep(a), Fetched
    PROVE  Nowhere' /\ sw_state' = "FREE"
<1>1. IsAnswered(a)
      BY NoneIsNew DEF Fetched, TokenStep, Pauses
<1>2. sw_request' = None /\ sw_state' = "FREE"
      BY <1>1 DEF IsAnswered, Fetched
<1>3. ~Sends(a)
      BY <1>1 DEF IsAnswered, Sends
<1>4. Resting' /\ llkic2_reqfifo' = <<>> /\ llkic2_respfifo' = <<>>
        /\ respfifo_wdata_i' = None
  <2>1. llkic2_reqfifo' = <<>> /\ llkic2_respfifo' = <<>>
        BY OneMessage DEF TokenStep, Fetched, Holds, C2FifoStep
  <2>2. Resting' /\ respfifo_wdata_i' = None
        BY DEF TokenStep, TokenMoves, Fetched, Resting, Holds
  <2> QED BY <2>1, <2>2
<1> QED BY <1>2, <1>3, <1>4 DEF TokenStep, Nowhere, Holds

LEMMA TokenKnownStep ==
    ASSUME TypeOK, SlaveKnown, TokenKnown, NEW a, TokenStep(a)
    PROVE  TokenKnown'
<1>1. ASSUME Ready
      PROVE  Ready' \/ Fetched'
      BY <1>1, ReadyMoves
<1>2. ~(Ready \/ Fetched) =>
          /\ sw_state # "WAITING"
          /\ ~srot_ctrlstatus_register.resp_waiting
          /\ llkic2_respfifo = <<>>
          /\ \/ Nowhere \/ Written \/ Queued \/ Taken \/ Working \/ Offered
      BY DEF TokenKnown, Nowhere, Written, Queued, Taken, Working, Offered, Holds
<1>3. \/ Nowhere' \/ Written' \/ Queued' \/ Taken' \/ Working' \/ Offered'
      \/ Ready' \/ Fetched'
      BY <1>1, <1>2, NowhereMoves, WrittenMoves, QueuedMoves, TakenMoves,
         WorkingMoves, OfferedMoves, FetchedMoves
<1>4. sw_state' = "WAITING" => Ready' \/ Fetched'
  <2>1. CASE Ready BY <1>1, <2>1
  <2>2. CASE Fetched BY <2>2, FetchedMoves
  <2>3. CASE ~(Ready \/ Fetched)
    <3>1. sw_state # "WAITING" /\ ~(sw_op = "POLL" /\ s_d_valid /\ s_rdata.resp_waiting)
          BY <1>2, <2>3 DEF TokenKnown
    <3>2. sw_state' # "WAITING"
          BY <3>1, NoneIsNew
          DEF TokenStep, Accesses, Sends, Polls, Fetches, SetsUp, IsAnswered,
              Pauses, TypeOK
    <3> QED BY <3>2
  <2> QED BY <2>1, <2>2, <2>3
<1>5. srot_ctrlstatus_register'.resp_waiting => Ready' \/ Fetched'
  <2>1. srot_ctrlstatus_register'.resp_waiting => llkic2_respfifo # <<>>
        BY DEF TokenStep
  <2>2. llkic2_respfifo # <<>> => Ready
        BY DEF TokenKnown, Nowhere, Written, Queued, Taken, Working, Offered,
           Fetched, Holds
  <2> QED BY <1>1, <2>1, <2>2
<1>6. sw_op' = "POLL" /\ s_d_valid' /\ s_rdata'.resp_waiting => Ready'
  <2> SUFFICES ASSUME sw_op' = "POLL", s_d_valid', s_rdata'.resp_waiting
               PROVE  Ready'
      OBVIOUS
  <2>1. sw_op = "POLL" /\ ~s_d_valid
        BY NoneIsNew DEF TokenStep, SlaveMoves, SlaveIdle, Accesses, Sends,
           Polls, Fetches, SetsUp, IsAnswered, Pauses
  <2>2. /\ s_outstanding_read /\ reg_re_o_d1 /\ reg_addr_o_d1.unit = "CTRLSTS"
        BY <2>1 DEF SlaveKnown
  <2>3. srot_rdata_i = srot_ctrlstatus_register
    <3>1. ~RespFifoPop /\ reg_addr_o_d1.unit # "KEYRAM"
            /\ reg_addr_o_d1.unit # "KEYINDEXRAM"
          BY <2>2 DEF RespFifoPop
    <3> QED BY <2>2, <3>1 DEF srot_rdata_i
  <2>4. s_rdata' = srot_ctrlstatus_register
        BY <2>1, <2>2, <2>3, NoneIsNew DEF TokenStep, SlaveMoves
  <2>5. Ready
        BY <2>1, <2>4 DEF TokenKnown, Fetched
  <2> QED BY <2>1, <2>5, ReadyMoves
<1> QED BY <1>3, <1>4, <1>5, <1>6 DEF TokenKnown

-----------------------------------------------------------------------------
(* Every register keeps its type *)

\* The addresses the software uses are those of registers and of RAM words.
LEMMA AddressKnown ==
    ASSUME NEW a, Accesses(a) \/ IsAnswered(a) \/ Pauses(a)
    PROVE  /\ a.addr \in SrotAddr
           /\ a.addr.unit = "KEYRAM" => a.addr.idx < KeyRamSize
           /\ a.addr.unit = "KEYINDEXRAM" => a.addr.idx < KeyIndexRamSize
<1>1. KeyRamSize \in Nat /\ KeyIndexRamSize \in Nat
      BY SrotAssumption, MaxIs
<1>2. /\ \A w \in KeyRamWrites :
             w.idx \in Nat /\ w.idx < KeyRamSize /\ w.wdata \in Word
      /\ \A w \in KeyIndexRamWrites :
             w.idx \in Nat /\ w.idx < KeyIndexRamSize /\ w.wdata \in IndexEntry
      BY <1>1, SoftwareAssumption
<1>3. CASE \E w \in KeyRamWrites : a = Write("KEYRAM", w.idx, w.wdata)
      BY <1>2, <1>3 DEF Write, SlaveChannel, SrotAddr
<1>4. CASE \E w \in KeyIndexRamWrites : a = Write("KEYINDEXRAM", w.idx, w.wdata)
      BY <1>2, <1>4 DEF Write, SlaveChannel, SrotAddr
<1>5. CASE \E b \in ModeBits : a = Write("CTRLSTS", 0, {b})
      BY <1>5 DEF Write, SlaveChannel, SrotAddr
<1>6. CASE a = Write("SENDRECV", 0, sw_request')
      BY <1>6 DEF Write, SlaveChannel, SrotAddr
<1>7. CASE a = Read("CTRLSTS") \/ a = Read("SENDRECV") \/ a = Silent
      BY <1>7 DEF Read, Silent, SlaveChannel, SrotAddr
<1> QED BY <1>3, <1>4, <1>5, <1>6, <1>7
        DEF Accesses, Sends, Polls, Fetches, SetsUp, IsAnswered, Pauses

LEMMA SoftwareTypes ==
    ASSUME TypeOK, NEW a, Accesses(a) \/ IsAnswered(a) \/ Pauses(a)
    PROVE  /\ sw_state' \in {"FREE", "AWAIT", "WAITING"}
           /\ sw_op' \in {None, "SEND", "POLL", "FETCH", "SETUP"}
           /\ sw_request' \in C2Requests \cup {None}
<1> USE DEF TypeOK
<1>1. CASE Sends(a) BY <1>1 DEF Sends
<1>2. CASE Polls(a) BY <1>2 DEF Polls
<1>3. CASE Fetches(a) BY <1>3 DEF Fetches
<1>4. CASE SetsUp(a) BY <1>4 DEF SetsUp
<1>5. CASE IsAnswered(a) BY <1>5 DEF IsAnswered
<1>6. CASE Pauses(a) BY <1>6 DEF Pauses
<1> QED BY <1>1, <1>2, <1>3, <1>4, <1>5, <1>6 DEF Accesses

\* What a register of the SRoT reads as.
LEMMA SlaveRdataType ==
    ASSUME SrotTypeOK
    PROVE  srot_rdata_i \in SlaveRdata
<1>1. /\ keyram_rdata_o \in Word /\ keyindexram_rdata_o \in IndexEntry
      /\ llkic2_respfifo \in Seq(C2ResponseWord)
      /\ srot_ctrlstatus_register \in [resp_waiting : BOOLEAN,
                                       mode : SUBSET {0, 1}]
      BY DEF SrotTypeOK, DecodeTypeOK, MemTypeOK
<1>2. RespFifoPop => Head(llkic2_respfifo) \in C2ResponseWord
      BY <1>1 DEF RespFifoPop
<1> QED BY <1>1, <1>2 DEF srot_rdata_i, SlaveRdata

LEMMA SlaveTypes ==
    ASSUME TypeOK, NEW a, a = Silent \/ Accesses(a),
           Slave!AdapterStep(a, srot_ack_i, srot_error_i, srot_rdata_i, TRUE)
    PROVE  Slave!AdapterTypeOK'
<1>1. a.source = 0 /\ a.malformed \in BOOLEAN /\ a.valid \in BOOLEAN
  <2>1. CASE a = Silent BY <2>1 DEF Silent, SlaveChannel
  <2>2. CASE Sends(a) BY <2>2 DEF Sends, Write, SlaveChannel
  <2>3. CASE Polls(a) BY <2>3 DEF Polls, Read, SlaveChannel
  <2>4. CASE Fetches(a) BY <2>4 DEF Fetches, Read, SlaveChannel
  <2>5. CASE SetsUp(a)
    <3>1. \A unit, idx, data : /\ Write(unit, idx, data).source = 0
                              /\ Write(unit, idx, data).malformed = FALSE
                              /\ Write(unit, idx, data).valid = TRUE
          BY DEF Write, SlaveChannel
    <3>2. \E unit, idx, data : a = Write(unit, idx, data)
          BY <2>5 DEF SetsUp
    <3> QED BY <3>1, <3>2
  <2> QED BY <2>1, <2>2, <2>3, <2>4, <2>5 DEF Accesses
<1>2. srot_rdata_i \in SlaveRdata /\ None \in SlaveRdata
      BY SlaveRdataType DEF TypeOK, SlaveRdata
<1>3. srot_error_i \in BOOLEAN
      BY DEF srot_error_i, srot_read_error, TypeOK, SrotTypeOK, DecodeTypeOK
<1>4. Slave!AdapterTypeOK BY DEF TypeOK
<1>5. Slave!wr_req(a) \in BOOLEAN /\ Slave!rd_req(a) \in BOOLEAN
      BY DEF Slave!wr_req, Slave!rd_req, Slave!a_ack
<1> USE <1>1, <1>2, <1>3, <1>4, <1>5 DEF Slave!AdapterTypeOK, Slave!Capture
<1>6. CASE Slave!AcceptAndAnswer(a, srot_ack_i, srot_error_i, srot_rdata_i)
      BY <1>6 DEF Slave!AcceptAndAnswer
<1>7. CASE Slave!Accept(a, srot_ack_i)
      BY <1>7 DEF Slave!Accept
<1>8. CASE Slave!AnswerRead(a, srot_ack_i, srot_error_i, srot_rdata_i)
      BY <1>8 DEF Slave!AnswerRead
<1>9. CASE Slave!AnswerWrite(a, srot_ack_i, srot_error_i)
      BY <1>9 DEF Slave!AnswerWrite
<1>10. CASE Slave!Release(a, srot_ack_i, TRUE)
      BY <1>10 DEF Slave!Release
<1>11. CASE Slave!Hold(a, srot_ack_i, TRUE)
      BY <1>11 DEF Slave!Hold, Slave!adapterVars
<1> QED BY <1>6, <1>7, <1>8, <1>9, <1>10, <1>11 DEF Slave!AdapterStep

LEMMA DecodeTypes ==
    ASSUME TypeOK, SlaveKnown, TokenKnown,
           NEW fwd, NEW back, NEW a, Clock(a, fwd, back),
           Accesses(a) \/ IsAnswered(a) \/ Pauses(a)
    PROVE  DecodeTypeOK'
<1> DEFINE r == SlaveStrobe(a)
<1>1. /\ SlaveMoves(a) /\ SrotWriteDecode(r)
      /\ Accesses(a) => a.valid /\ sw_op = None
      /\ Accesses(a) \/ a = Silent
      /\ ~Silent.valid
      BY SlaveStepSo DEF SlaveStep
<1>2. r.addr = a.addr /\ r.wdata = a.data
      BY <1>1 DEF SlaveMoves
<1>3. r.we \in BOOLEAN /\ r.re \in BOOLEAN
      BY DEF SlaveStrobe, Slave!we_o, Slave!re_o, Slave!wr_req, Slave!rd_req,
             Slave!a_ack
<1>4. TokenStep(a) BY TokenStepSo
<1>5. reqfifo_wdata_i' \in {None} \cup C2RequestWord
      BY <1>4, SoftwareAssumption DEF TokenStep, Sends
<1>6. ASSUME r.we
      PROVE  Sends(a) \/ SetsUp(a)
  <2>1. a # Silent
    <3>1. CASE a = Silent
          BY <1>1, <1>6, <3>1, Fields DEF SlaveMoves
    <3> QED BY <3>1
  <2>2. a.opcode # "Get"
        BY <1>1, <1>6, <2>1 DEF SlaveMoves
  <2> QED BY <1>1, <2>1, <2>2, Fields DEF Accesses, Polls, Fetches
<1>7. ASSUME r.we, a.addr.unit = "CTRLSTS"
      PROVE  a.data \in SUBSET {0, 1}
  <2>1. SetsUp(a)
    <3>1. CASE Sends(a)
      <4>1. a.addr.unit = "SENDRECV"
            BY <3>1 DEF Sends, Write, SlaveChannel
      <4> QED BY <1>7, <4>1
    <3> QED BY <1>6, <1>7, <3>1
  <2>2. \A b \in ModeBits : {b} \in SUBSET {0, 1}
        BY SoftwareAssumption
  <2> QED BY <1>7, <2>1, <2>2 DEF SetsUp, Write, SlaveChannel
<1>8. ASSUME r.we, a.addr.unit \in {"KEYRAM", "KEYINDEXRAM"}
      PROVE  a.data \in IF a.addr.unit = "KEYRAM" THEN Word ELSE IndexEntry
  <2>1. SetsUp(a)
    <3>1. CASE Sends(a)
      <4>1. a.addr.unit = "SENDRECV"
            BY <3>1 DEF Sends, Write, SlaveChannel
      <4> QED BY <1>8, <4>1
    <3> QED BY <1>6, <1>8, <3>1
  <2>2. /\ \A w \in KeyRamWrites : w.wdata \in Word
        /\ \A w \in KeyIndexRamWrites : w.wdata \in IndexEntry
        BY SoftwareAssumption
  <2> QED BY <1>8, <2>1, <2>2 DEF SetsUp, Write, SlaveChannel
<1> HIDE DEF r
<1>9. ram_write_i' \in {None} \cup [ram : {"KEYRAM"}, wdata : Word]
                         \cup [ram : {"KEYINDEXRAM"}, wdata : IndexEntry]
  <2>1. CASE RamWrite(r) /\ Unlocked
    <3>1. r.we /\ a.addr.unit \in {"KEYRAM", "KEYINDEXRAM"}
          BY <1>2, <2>1 DEF RamWrite
    <3>2. a.data \in IF a.addr.unit = "KEYRAM" THEN Word ELSE IndexEntry
          BY <1>8, <3>1
    <3>3. ram_write_i' = [ram |-> a.addr.unit, wdata |-> a.data]
          BY <1>1, <1>2, <2>1 DEF SrotWriteDecode
    <3> QED BY <3>1, <3>2, <3>3
  <2>2. CASE ~(RamWrite(r) /\ Unlocked)
        BY <1>1, <2>2 DEF SrotWriteDecode
  <2> QED BY <2>1, <2>2
<1>10. srot_ctrlstatus_register' \in [resp_waiting : BOOLEAN, mode : SUBSET {0, 1}]
  <2>1. srot_ctrlstatus_register.mode \in SUBSET {0, 1}
        BY DEF TypeOK, SrotTypeOK, DecodeTypeOK
  <2>2. (IF r.we /\ r.addr.unit = "CTRLSTS" THEN r.wdata ELSE {})
            \in SUBSET {0, 1}
        BY <1>2, <1>7
  <2> QED BY <1>1, <2>1, <2>2 DEF SrotWriteDecode
<1>11. reg_addr_o_d1' \in SrotAddr /\ reg_we_o_d1' \in BOOLEAN
         /\ reg_re_o_d1' \in BOOLEAN /\ write_error' \in BOOLEAN
      BY <1>1, <1>2, <1>3, AddressKnown DEF SrotWriteDecode
<1> QED BY <1>5, <1>9, <1>10, <1>11 DEF DecodeTypeOK

\* A RAM is only ever addressed within its bounds.
LEMMA RamIndexInRange ==
    ASSUME TypeOK, SlaveKnown, NEW a, Accesses(a) \/ IsAnswered(a) \/ Pauses(a),
           NEW r, r.addr = a.addr
    PROVE  /\ RamIndex(r, "KEYRAM", keyram_stm_addr_i, KeyRamSize)
                \in 0 .. KeyRamSize - 1
           /\ RamIndex(r, "KEYINDEXRAM", keyindexram_stm_addr_i, KeyIndexRamSize)
                \in 0 .. KeyIndexRamSize - 1
<1>1. KeyRamSize \in Nat \ {0}
      BY MaxIs
<1>2. KeyIndexRamSize \in Nat \ {0}
      BY SrotAssumption
<1>3. keyram_stm_addr_i \in KeyRamAddr /\ keyindexram_stm_addr_i \in Byte
      BY DEF TypeOK, SrotTypeOK, StmTypeOK
<1>4. keyram_stm_addr_i \in Nat /\ keyindexram_stm_addr_i \in Nat
      BY <1>3, Ranges DEF Byte
<1>5. \A n \in Nat, m \in Nat \ {0} : n % m \in 0 .. m - 1
      OBVIOUS
<1>6. /\ keyram_stm_addr_i % KeyRamSize \in 0 .. KeyRamSize - 1
      /\ keyindexram_stm_addr_i % KeyIndexRamSize \in 0 .. KeyIndexRamSize - 1
      BY <1>1, <1>2, <1>4, <1>5
<1> DEFINE x == IF reg_we_o_d1 THEN reg_addr_o_d1 ELSE r.addr
<1>7. /\ x \in SrotAddr
      /\ x.unit = "KEYRAM" => x.idx < KeyRamSize
      /\ x.unit = "KEYINDEXRAM" => x.idx < KeyIndexRamSize
  <2>1. CASE reg_we_o_d1
    <3>1. reg_addr_o_d1 \in SrotAddr BY DEF TypeOK, SrotTypeOK, DecodeTypeOK
    <3> QED BY <2>1, <3>1 DEF SlaveKnown
  <2>2. CASE ~reg_we_o_d1
        BY <2>2, AddressKnown
  <2> QED BY <2>1, <2>2
<1>8. /\ (IF x.unit = "KEYRAM" THEN x.idx ELSE 0) \in 0 .. KeyRamSize - 1
      /\ (IF x.unit = "KEYINDEXRAM" THEN x.idx ELSE 0)
             \in 0 .. KeyIndexRamSize - 1
      BY <1>1, <1>2, <1>7 DEF SrotAddr
<1> QED BY <1>6, <1>8 DEF RamIndex

LEMMA FifoType ==
    ASSUME NEW S, NEW q \in Seq(S), NEW w \in {None} \cup S, NEW clr, NEW pop
    PROVE  FifoNext(q, clr, w, pop) \in Seq(S)
<1>1. (IF pop /\ q # <<>> THEN Tail(q) ELSE q) \in Seq(S)
      OBVIOUS
<1>2. (IF w # None /\ Len(q) < FifoDepth THEN <<w>> ELSE <<>>) \in Seq(S)
      OBVIOUS
<1>3. <<>> \in Seq(S)
      OBVIOUS
<1> QED BY <1>1, <1>2, <1>3 DEF FifoNext

LEMMA MemTypes ==
    ASSUME TypeOK, SlaveKnown, NEW fwd, NEW back, NEW a, Clock(a, fwd, back),
           Accesses(a) \/ IsAnswered(a) \/ Pauses(a)
    PROVE  MemTypeOK'
<1> DEFINE r == SlaveStrobe(a)
           k == RamIndex(r, "KEYRAM", keyram_stm_addr_i, KeyRamSize)
           x == RamIndex(r, "KEYINDEXRAM", keyindexram_stm_addr_i,
                         KeyIndexRamSize)
<1>1. r.addr = a.addr
      BY SlaveStepSo DEF SlaveStep, SlaveMoves
<1>2. k \in 0 .. KeyRamSize - 1 /\ x \in 0 .. KeyIndexRamSize - 1
      BY <1>1, RamIndexInRange
<1>3. RamStep(r) /\ C2FifoStep
        /\ MasterFifoStep(Core!a_ack(KLRequestChannel(fwd)))
      BY DEF Clock, Hardware, SrotStep
<1> HIDE DEF r
<1>4. /\ keyram \in [0 .. KeyRamSize - 1 -> Word]
      /\ keyram_rdata_o \in Word
      /\ keyindexram \in [0 .. KeyIndexRamSize - 1 -> IndexEntry]
      /\ keyindexram_rdata_o \in IndexEntry
      /\ llkic2_reqfifo \in Seq(C2RequestWord)
      /\ llkic2_respfifo \in Seq(C2ResponseWord)
      /\ master_reqfifo \in Seq(HostRequest)
      BY DEF TypeOK, SrotTypeOK, MemTypeOK
<1>5. /\ reqfifo_wdata_i \in {None} \cup C2RequestWord
      /\ respfifo_wdata_i \in {None} \cup C2ResponseWord
      BY DEF TypeOK, SrotTypeOK, DecodeTypeOK, StmTypeOK
<1>6. /\ ram_write_i # None /\ ram_write_i.ram = "KEYRAM" =>
             ram_write_i.wdata \in Word
      /\ ram_write_i # None /\ ram_write_i.ram = "KEYINDEXRAM" =>
             ram_write_i.wdata \in IndexEntry
  <2>1. ram_write_i \in {None} \cup [ram : {"KEYRAM"}, wdata : Word]
                         \cup [ram : {"KEYINDEXRAM"}, wdata : IndexEntry]
        BY DEF TypeOK, SrotTypeOK, DecodeTypeOK
  <2> QED BY <2>1
<1>7. keyram' \in [0 .. KeyRamSize - 1 -> Word] /\ keyram_rdata_o' \in Word
  <2> HIDE DEF k, x
  <2>1. IF ram_write_i # None /\ ram_write_i.ram = "KEYRAM"
        THEN /\ keyram' = [keyram EXCEPT ![k] = ram_write_i.wdata]
             /\ keyram_rdata_o' = keyram_rdata_o
        ELSE keyram_rdata_o' = keyram[k] /\ keyram' = keyram
        BY <1>3 DEF RamStep, k
  <2> QED BY <1>2, <1>4, <1>6, <2>1
<1>8. /\ keyindexram' \in [0 .. KeyIndexRamSize - 1 -> IndexEntry]
      /\ keyindexram_rdata_o' \in IndexEntry
  <2> HIDE DEF k, x
  <2>1. IF ram_write_i # None /\ ram_write_i.ram = "KEYINDEXRAM"
        THEN /\ keyindexram' = [keyindexram EXCEPT ![x] = ram_write_i.wdata]
             /\ keyindexram_rdata_o' = keyindexram_rdata_o
        ELSE keyindexram_rdata_o' = keyindexram[x] /\ keyindexram' = keyindexram
        BY <1>3 DEF RamStep, x
  <2> QED BY <1>2, <1>4, <1>6, <2>1
<1>9. /\ llkic2_reqfifo' \in Seq(C2RequestWord)
      /\ llkic2_respfifo' \in Seq(C2ResponseWord)
      BY <1>3, <1>4, <1>5, FifoType DEF C2FifoStep
<1>10. master_reqfifo' \in Seq(HostRequest)
  <2>1. MasterOut \in Seq(HostRequest)
        BY MasterOutType DEF TypeOK
  <2>2. Core!a_ack(KLRequestChannel(fwd)) => MasterOut # <<>>
        BY DEF Core!a_ack, KLRequestChannel
  <2> QED BY <1>3, <2>1, <2>2 DEF MasterFifoStep
<1> QED BY <1>7, <1>8, <1>9, <1>10 DEF MemTypeOK

\* What the types of the state machine's registers are made of.
LEMMA StmConstants ==
    /\ 0 \in Byte /\ 0 \in Pointer /\ 0 \in KeyRamAddr
    /\ 0 \in MsgLen /\ 1 \in MsgLen
    /\ SrotWaitInit \in Byte /\ ZeroTag \in Tag
    /\ MidReset \in Mid /\ "ERRORRESP" \in Mid
    /\ StatusReset \in Status /\ "KL_TILELINK_ERROR" \in Status
    /\ Refusal \subseteq Status
    /\ \A n \in Byte : Dec8(n) \in Byte /\ (IF n > 0 THEN n - 1 ELSE 0) \in Byte
    /\ \A n \in Pointer : /\ n \in KeyRamAddr /\ n + 1 \in KeyRamAddr
                          /\ (n + 1) % 65536 \in Pointer
<1>1. /\ 0 \in Pointer /\ 0 \in KeyRamAddr /\ 0 \in MsgLen /\ 1 \in MsgLen
      BY MaxIs, Ranges
<1>2. SrotWaitInit \in Byte /\ ZeroTag \in Tag
      BY SrotAssumption
<1>3. /\ 0 \in Byte
      /\ \A n \in Byte : Dec8(n) \in Byte /\ (IF n > 0 THEN n - 1 ELSE 0) \in Byte
      BY DEF Byte, Dec8
<1>4. /\ MidReset \in Mid /\ "ERRORRESP" \in Mid
      /\ StatusReset \in Status /\ "KL_TILELINK_ERROR" \in Status
      /\ Refusal \subseteq Status
      BY DEF MidReset, Mid, C2Request, StatusReset, Status, Refusal
<1>5. ASSUME NEW n \in Pointer
      PROVE  /\ n \in KeyRamAddr /\ n + 1 \in KeyRamAddr
             /\ (n + 1) % 65536 \in Pointer
  <2>1. n \in Nat /\ n <= MaxPointer /\ MaxPointer \in Nat
        BY MaxIs, Ranges
  <2>2. n + 1 \in Nat /\ n + 1 <= MaxPointer + 1 /\ n <= MaxPointer + 1
          /\ n + 1 \in Int
        BY <2>1
  <2> QED BY <2>1, <2>2, Ranges, Mod16
<1> QED BY <1>1, <1>2, <1>3, <1>4, <1>5

\* What the D channel brings where the state machine reads it.
GoodAnswer(d) ==
    /\ ~d.err
    /\ d.valid /\ srot_current_state = "KL_CHECK_READY_STATUS" =>
           d.rdata \in CtrlStatus
    /\ d.valid /\ srot_current_state = "KL_CHECK_RESP_STATUS" =>
           d.rdata \in CtrlStatus
    /\ d.valid /\ srot_current_state = "KL_RESP_READ" => d.rdata \in Word

\* The registers of the state machine, group by group: where it is, ...
LEMMA StateTypes ==
    ASSUME NEW d, GoodAnswer(d), StmStep(d), srot_current_state \in SrotState,
           llkic2_reqfifo_clr_i \in BOOLEAN
    PROVE  srot_current_state' \in SrotState /\ llkic2_reqfifo_clr_i' \in BOOLEAN
<1> USE DEF SrotState, Goto, Proceed, Refuse, stmStatus, EndFlush, TileLinkError,
            NextReadyState, GoodAnswer
<1>1. CASE StmIdle
       BY <1>1 DEF StmIdle
<1>2. CASE StmMessageCheck
       BY <1>2 DEF StmMessageCheck
<1>3. CASE StmRetrieveWait
       BY <1>3 DEF StmRetrieveWait
<1>4. CASE StmRetrieve
       BY <1>4 DEF StmRetrieve
<1>5. CASE StmReqHeader
       BY <1>5 DEF StmReqHeader
<1>6. CASE StmReqWaitForAck(d)
       BY <1>6 DEF StmReqWaitForAck
<1>7. CASE StmReadReadyStatus
       BY <1>7 DEF StmReadReadyStatus
<1>8. CASE StmCheckReadyStatus(d)
       BY <1>8 DEF StmCheckReadyStatus
<1>9. CASE StmReadyWaitState(d)
       BY <1>9 DEF StmReadyWaitState
<1>10. CASE StmLoadKeyWord
       BY <1>10 DEF StmLoadKeyWord
<1>11. CASE StmLoadKeyWordWaitForAck(d)
       BY <1>11 DEF StmLoadKeyWordWaitForAck
<1>12. CASE StmReadRespStatus
       BY <1>12 DEF StmReadRespStatus
<1>13. CASE StmCheckRespStatus(d)
       BY <1>13 DEF StmCheckRespStatus
<1>14. CASE StmRespWaitState(d)
       BY <1>14 DEF StmRespWaitState
<1>15. CASE StmRespRead(d)
       BY <1>15 DEF StmRespRead
<1>16. CASE StmC2Response
       BY <1>16 DEF StmC2Response
<1> QED BY <1>1, <1>2, <1>3, <1>4, <1>5, <1>6, <1>7, <1>8, <1>9, <1>10,
           <1>11, <1>12, <1>13, <1>14, <1>15, <1>16 DEF StmStep

\* ... the message in hand, ...
LEMMA MessageTypes ==
    ASSUME NEW d, GoodAnswer(d), StmStep(d), rsvd \in Tag, msg_id \in Mid,
           status \in Status, msg_len \in MsgLen, key_index \in Byte,
           llkic2_reqfifo \in Seq(C2RequestWord)
    PROVE  /\ rsvd' \in Tag /\ msg_id' \in Mid /\ status' \in Status
           /\ msg_len' \in MsgLen /\ key_index' \in Byte
<1> DEFINE m == Head(llkic2_reqfifo)
<1>1. llkic2_reqfifo # <<>> =>
          m.id \in Mid /\ m.len \in MsgLen /\ m.key_index \in Byte
            /\ m.rsvd \in Tag
  <2>1. llkic2_reqfifo # <<>> => m \in C2RequestWord
        OBVIOUS
  <2> QED BY <2>1 DEF C2RequestWord
<1>2. /\ MidReset \in Mid /\ "ERRORRESP" \in Mid /\ StatusReset \in Status
      /\ 0 \in MsgLen /\ 1 \in MsgLen /\ 0 \in Byte /\ ZeroTag \in Tag
      BY StmConstants
<1>3. \A st \in Refusal : st \in Status
      BY StmConstants
<1>4. srot_current_state = "KL_RESP_READ" /\ d.valid =>
          d.rdata.id \in Mid /\ d.rdata.status \in Status /\ d.rdata.len \in MsgLen
      BY DEF GoodAnswer, Word
<1>5. ~d.err BY DEF GoodAnswer
<1> USE DEF Goto, Proceed, Refuse, stmStatus, request
<1>6. CASE StmIdle
       BY <1>6, <1>1, <1>2 DEF StmIdle
<1>7. CASE StmMessageCheck
       BY <1>7, <1>3 DEF StmMessageCheck, Refusal
<1>8. CASE StmRetrieveWait
       BY <1>8 DEF StmRetrieveWait
<1>9. CASE StmRetrieve
       BY <1>9, <1>3 DEF StmRetrieve, Refusal
<1>10. CASE StmReqHeader
       BY <1>10, <1>3 DEF StmReqHeader, Refusal
<1>11. CASE StmReqWaitForAck(d)
       BY <1>11 DEF StmReqWaitForAck
<1>12. CASE StmReadReadyStatus
       BY <1>12 DEF StmReadReadyStatus
<1>13. CASE StmCheckReadyStatus(d)
       BY <1>13 DEF StmCheckReadyStatus
<1>14. CASE StmReadyWaitState(d)
       BY <1>14, <1>5 DEF StmReadyWaitState
<1>15. CASE StmLoadKeyWord
       BY <1>15 DEF StmLoadKeyWord
<1>16. CASE StmLoadKeyWordWaitForAck(d)
       BY <1>16 DEF StmLoadKeyWordWaitForAck
<1>17. CASE StmReadRespStatus
       BY <1>17 DEF StmReadRespStatus
<1>18. CASE StmCheckRespStatus(d)
       BY <1>18 DEF StmCheckRespStatus
<1>19. CASE StmRespWaitState(d)
       BY <1>19, <1>5 DEF StmRespWaitState
<1>20. CASE StmRespRead(d)
       BY <1>20, <1>4, <1>5 DEF StmRespRead
<1>21. CASE StmC2Response
       BY <1>21, <1>2 DEF StmC2Response
<1> QED BY <1>6, <1>7, <1>8, <1>9, <1>10, <1>11, <1>12, <1>13, <1>14, <1>15,
           <1>16, <1>17, <1>18, <1>19, <1>20, <1>21 DEF StmStep

\* ... and the addresses and counters.
LEMMA PointerTypes ==
    ASSUME NEW d, StmStep(d), keyindexram_stm_addr_i \in Byte,
           keyram_stm_addr_i \in KeyRamAddr, current_pointer \in Pointer,
           wait_state_counter \in Byte, key_index \in Byte,
           keyindexram_rdata_o \in IndexEntry
    PROVE  /\ keyindexram_stm_addr_i' \in Byte /\ keyram_stm_addr_i' \in KeyRamAddr
           /\ current_pointer' \in Pointer /\ wait_state_counter' \in Byte
<1> DEFINE dec == Dec8(wait_state_counter)
           less == IF wait_state_counter > 0 THEN wait_state_counter - 1 ELSE 0
           next == current_pointer + 1
           wrapped == (current_pointer + 1) % 65536
<1>1. /\ 0 \in Byte /\ 0 \in Pointer /\ 0 \in KeyRamAddr
      /\ SrotWaitInit \in Byte /\ dec \in Byte /\ less \in Byte
      /\ current_pointer \in KeyRamAddr /\ next \in KeyRamAddr
      /\ wrapped \in Pointer
      BY StmConstants
<1>2. low_pointer \in Pointer
      BY DEF low_pointer, IndexEntry
<1>3. /\ StmReadyWaitState(d) => wait_state_counter' = dec
      /\ StmRespWaitState(d) => wait_state_counter' = less
      /\ StmLoadKeyWordWaitForAck(d) =>
             \/ UNCHANGED <<keyram_stm_addr_i, current_pointer>>
             \/ keyram_stm_addr_i' = next /\ current_pointer' = wrapped
      BY DEF StmReadyWaitState, StmRespWaitState, StmLoadKeyWordWaitForAck
<1> HIDE DEF dec, less, next, wrapped
<1> USE <1>1 DEF ResetWait, ResetPointer, KeyRamIdle
<1>4. CASE StmIdle
       BY <1>4 DEF StmIdle
<1>5. CASE StmMessageCheck
       BY <1>5 DEF StmMessageCheck
<1>6. CASE StmRetrieveWait
       BY <1>6 DEF StmRetrieveWait
<1>7. CASE StmRetrieve
       BY <1>7 DEF StmRetrieve
<1>8. CASE StmReqHeader
       BY <1>8, <1>2 DEF StmReqHeader
<1>9. CASE StmReqWaitForAck(d)
       BY <1>9 DEF StmReqWaitForAck
<1>10. CASE StmReadReadyStatus
       BY <1>10 DEF StmReadReadyStatus
<1>11. CASE StmCheckReadyStatus(d)
       BY <1>11 DEF StmCheckReadyStatus
<1>12. CASE StmReadyWaitState(d)
       BY <1>12, <1>3 DEF StmReadyWaitState
<1>13. CASE StmLoadKeyWord
       BY <1>13 DEF StmLoadKeyWord
<1>14. CASE StmLoadKeyWordWaitForAck(d)
       BY <1>14, <1>3 DEF StmLoadKeyWordWaitForAck
<1>15. CASE StmReadRespStatus
       BY <1>15 DEF StmReadRespStatus
<1>16. CASE StmCheckRespStatus(d)
       BY <1>16 DEF StmCheckRespStatus
<1>17. CASE StmRespWaitState(d)
       BY <1>17, <1>3 DEF StmRespWaitState
<1>18. CASE StmRespRead(d)
       BY <1>18 DEF StmRespRead
<1>19. CASE StmC2Response
       BY <1>19 DEF StmC2Response
<1> QED BY <1>4, <1>5, <1>6, <1>7, <1>8, <1>9, <1>10, <1>11, <1>12, <1>13,
           <1>14, <1>15, <1>16, <1>17, <1>18, <1>19 DEF StmStep

LEMMA StmTypes ==
    ASSUME SrotTypeOK, NEW d, GoodAnswer(d), StmStep(d)
    PROVE  StmTypeOK'
<1>1. /\ host \in {None} \cup HostRequest
      /\ keyindexram_stm_addr_i \in Byte /\ keyram_stm_addr_i \in KeyRamAddr
      /\ llkic2_reqfifo_clr_i \in BOOLEAN /\ llkic2_reqfifo_rready_i \in BOOLEAN
      /\ respfifo_wdata_i \in {None} \cup C2ResponseWord
      /\ rsvd \in Tag /\ msg_id \in Mid /\ status \in Status
      /\ msg_len \in MsgLen /\ key_index \in Byte
      /\ current_pointer \in Pointer /\ wait_state_counter \in Byte
      /\ srot_current_state \in SrotState
      BY DEF SrotTypeOK, StmTypeOK
<1>2. keyindexram_rdata_o \in IndexEntry /\ llkic2_reqfifo \in Seq(C2RequestWord)
      BY DEF SrotTypeOK, MemTypeOK
<1>3. host' \in {None} \cup HostRequest
  <2>1. AccessMoves(d) BY AccessMovesSo DEF GoodAnswer
  <2> QED BY <2>1 DEF AccessMoves, RightRequest
<1>4. /\ llkic2_reqfifo_rready_i' \in BOOLEAN
      /\ respfifo_wdata_i' \in {None} \cup C2ResponseWord
  <2>1. TokenMoves BY TokenMovesSo
  <2>2. C2ResponseMessage \in C2ResponseWord
        BY ResponseType DEF SrotTypeOK
  <2> QED BY <1>1, <2>1, <2>2 DEF TokenMoves
<1>5. srot_current_state' \in SrotState /\ llkic2_reqfifo_clr_i' \in BOOLEAN
      BY <1>1, StateTypes
<1>6. /\ rsvd' \in Tag /\ msg_id' \in Mid /\ status' \in Status
      /\ msg_len' \in MsgLen /\ key_index' \in Byte
      BY <1>1, <1>2, MessageTypes
<1>7. /\ keyindexram_stm_addr_i' \in Byte /\ keyram_stm_addr_i' \in KeyRamAddr
      /\ current_pointer' \in Pointer /\ wait_state_counter' \in Byte
      BY <1>1, <1>2, PointerTypes
<1> QED BY <1>3, <1>4, <1>5, <1>6, <1>7 DEF StmTypeOK

-----------------------------------------------------------------------------
(* Known is an invariant *)

LEMMA KnownInit == Init => Known /\ Target!IInv
<1> SUFFICES ASSUME Init PROVE Known /\ Target!IInv
    OBVIOUS
<1>1. Target!IInv BY CoreInit
<1>2. Core!TypeOK
      BY <1>1, SameTypes DEF Target!IInv, Target!TInv, Target!TypeOK
<1>3. SrotInit(InitialKeyRam, InitialKeyIndexRam) BY DEF Init
<1>4. SrotTypeOK
  <2>1. DecodeTypeOK
        BY <1>3 DEF SrotInit, DecodeTypeOK, NoAddr, SrotAddr
  <2>2. MemTypeOK
    <3>1. /\ InitialKeyRam \in [0 .. KeyRamSize - 1 -> Word]
          /\ InitialKeyIndexRam \in [0 .. KeyIndexRamSize - 1 -> IndexEntry]
          BY SoftwareAssumption
    <3>2. 0 \in 0 .. KeyRamSize - 1 /\ 0 \in 0 .. KeyIndexRamSize - 1
      <4>1. KeyIndexRamSize \in Nat \ {0} BY SrotAssumption
      <4> QED BY <4>1, MaxIs
    <3>3. /\ keyram = InitialKeyRam /\ keyram_rdata_o = InitialKeyRam[0]
          /\ keyindexram = InitialKeyIndexRam
          /\ keyindexram_rdata_o = InitialKeyIndexRam[0]
          /\ llkic2_reqfifo = <<>> /\ llkic2_respfifo = <<>>
          /\ master_reqfifo = <<>>
          BY <1>3 DEF SrotInit
    <3> QED BY <3>1, <3>2, <3>3 DEF MemTypeOK
  <2>3. StmTypeOK
    <3>1. /\ 0 \in Byte /\ 0 \in Pointer /\ 0 \in KeyRamAddr /\ 0 \in MsgLen
          /\ SrotWaitInit \in Byte /\ ZeroTag \in Tag
          /\ MidReset \in Mid /\ StatusReset \in Status
          BY StmConstants
    <3>2. "IDLE" \in SrotState BY DEF SrotState
    <3> QED BY <1>3, <3>1, <3>2 DEF SrotInit, StmTypeOK
  <2> QED BY <2>1, <2>2, <2>3 DEF SrotTypeOK
<1>5. Slave!AdapterTypeOK
      BY DEF Init, Slave!AdapterInit, Slave!AdapterTypeOK, SlaveRdata
<1>6. TypeOK
      BY <1>2, <1>4, <1>5 DEF Init, TypeOK
<1>7. SlaveKnown
      BY <1>3, NoneIsNew
      DEF Init, SrotInit, SlaveKnown, Slave!AdapterInit, NoStrobe
<1>8. TokenKnown
      BY <1>3, NoneIsNew
      DEF Init, SrotInit, TokenKnown, Nowhere, Resting, Holds
<1>9. AccessKnown
      BY <1>3 DEF Init, SrotInit, AccessKnown, Core!TargetInit,
         Core!AdapterInit, Core!PpInit, CoreIdle, NoAccess, WaitStates,
         WriteStates, StatusStates
<1> QED BY <1>1, <1>6, <1>7, <1>8, <1>9 DEF Known

LEMMA KnownStep == Known /\ Target!IInv /\ [Next]_vars => Known' /\ Target!IInv'
<1> SUFFICES ASSUME Known, Target!IInv, [Next]_vars
             PROVE  Known' /\ Target!IInv'
    OBVIOUS
<1>0. TypeOK /\ SrotTypeOK /\ SlaveKnown /\ TokenKnown /\ AccessKnown
      BY DEF Known, TypeOK
<1>1. CASE Next
  <2>1. PICK fwd \in BOOLEAN, back \in BOOLEAN : Step(fwd, back)
        BY <1>1 DEF Next
  <2>2. PICK a : /\ Clock(a, fwd, back)
                 /\ Accesses(a) \/ IsAnswered(a) \/ Pauses(a)
        BY <2>1, SoftwareStep
  <2>3. Target!IInv'
        BY <1>0, <2>1, CoreStep
  <2>4. Core!TypeOK'
    <3>1. Target!TypeOK'
          BY <2>3 DEF Target!IInv, Target!TInv, Target!TypeOK
    <3>2. (Core!TypeOK <=> Target!TypeOK)'
          BY SameTypes, PTL
    <3> QED BY <3>1, <3>2
  <2>5. SrotTypeOK'
    <3>1. GoodAnswer(KLAnswerChannel(back))
          BY <1>0, AnswerChannel
          DEF GoodAnswer, AccessKnown, RightAnswer, StatusStates, WaitStates,
              WriteStates
    <3>2. StmTypeOK'
          BY <1>0, <2>2, <3>1, StmTypes DEF Clock, Hardware, SrotStep
    <3> QED BY <1>0, <2>2, <3>2, DecodeTypes, MemTypes DEF SrotTypeOK
  <2>6. Slave!AdapterTypeOK'
    <3>1. a = Silent \/ Accesses(a)
          BY <1>0, <2>2, SlaveStepSo
    <3> QED BY <1>0, <2>2, <3>1, SlaveTypes DEF Clock
  <2>7. TypeOK'
        BY <1>0, <2>2, <2>4, <2>5, <2>6, SoftwareTypes DEF TypeOK
  <2>8. SlaveKnown'
        BY <1>0, <2>2, SlaveKnownStep
  <2>9. TokenKnown'
        BY <1>0, <2>2, TokenStepSo, TokenKnownStep
  <2>10. AccessKnown'
        BY <1>0, <2>1, AccessStep
  <2> QED BY <2>3, <2>7, <2>8, <2>9, <2>10 DEF Known
<1>2. CASE UNCHANGED vars
  <2> USE <1>2 DEF vars, swVars, slaveVars, srotVars, decodeVars, memVars, stmVars,
      coreVars
  <2>1. Target!IInv'
    <3>1. UNCHANGED Target!vars
          BY DEF Target!vars, Target!adapterVars, Target!ppVars, Target!tssVars,
             Target!ppWires, Target!ppDecodeRegs, Target!ppMessage,
             Target!tssWires, Target!tssRegs
    <3> QED BY <3>1, Target!IInvStep, TargetAssumptions
  <2>2. TypeOK'
    <3>1. Core!TypeOK' <=> Core!TypeOK
          BY DEF Core!TypeOK, Core!AdapterTypeOK, Core!PpTypeOK, Core!TssTypeOK
    <3>2. Slave!AdapterTypeOK' <=> Slave!AdapterTypeOK
          BY DEF Slave!AdapterTypeOK
    <3>3. SrotTypeOK' <=> SrotTypeOK
          BY DEF SrotTypeOK, DecodeTypeOK, MemTypeOK, StmTypeOK
    <3> QED BY <1>0, <3>1, <3>2, <3>3 DEF TypeOK
  <2>3. SlaveKnown'
        BY <1>0 DEF SlaveKnown, NoStrobe
  <2>4. TokenKnown'
        BY <1>0 DEF TokenKnown, Nowhere, Written, Queued, Taken, Working, Offered,
           Ready, Fetched, Resting, Holds
  <2>5. AccessKnown'
        BY <1>0 DEF AccessKnown, InFabric, NoAccess, CoreIdle, CoreWriting,
           CoreWritten, CoreRead, Pending, RightRequest, RightAnswer
  <2> QED BY <2>1, <2>2, <2>3, <2>4, <2>5 DEF Known
<1> QED BY <1>1, <1>2

LEMMA KnownHolds == Spec => [](Known /\ Target!IInv)
BY KnownInit, KnownStep, PTL DEF Spec

-----------------------------------------------------------------------------
(* The properties *)

\* Every register of the software, of the SRoT and of the core holds a value of
\* its type at every clock edge; no RAM is ever addressed out of its bounds.
THEOREM DeliveryTyped == Spec => []TypeOK
<1>1. Known => TypeOK BY DEF Known
<1> QED BY <1>1, KnownHolds, PTL

\* The SRoT never has two accesses to the core in flight; and a write to a RAM
\* by the software, which writes only between requests, never meets the state
\* machine at the address port.
THEOREM PortsDoNotCollide == Spec => []PortsNeverCollide
<1>1. Known => PortsNeverCollide
  <2> SUFFICES ASSUME Known PROVE PortsNeverCollide
      OBVIOUS
  <2>1. TypeOK /\ SlaveKnown /\ TokenKnown /\ AccessKnown
        BY DEF Known
  <2>2. host # None => master_reqfifo = <<>> /\ CoreIdle
        BY <2>1 DEF AccessKnown, NoAccess, InFabric
  <2>3. Core!a_ready <=> ~outstanding_read /\ ~outstanding_write
        BY DEF Core!a_ready
  <2>4. Len(master_reqfifo) <= 1
    <3>1. master_reqfifo = <<>> \/ master_reqfifo = <<Pending>>
          BY <2>1 DEF AccessKnown, NoAccess, InFabric
    <3>2. \A x : Len(<<x>>) = 1
          OBVIOUS
    <3>3. Len(<<>>) = 0
          OBVIOUS
    <3>4. CASE master_reqfifo = <<>>
          BY <3>3, <3>4
    <3>5. CASE master_reqfifo = <<Pending>>
      <4>1. Len(master_reqfifo) = 1
            BY <3>2, <3>5
      <4> QED BY <4>1
    <3> QED BY <3>1, <3>4, <3>5
  <2>5. ASSUME ram_write_i # None
        PROVE  srot_current_state = "IDLE"
    <3>1. sw_op = "SETUP" /\ sw_state = "FREE"
          BY <2>1, <2>5 DEF SlaveKnown
    <3>2. sw_request = None
          BY <2>1, <3>1 DEF SlaveKnown
    <3>3. Nowhere
          BY <2>1, <3>1, <3>2, NoneIsNew
          DEF TokenKnown, Written, Queued, Taken, Working, Offered, Ready, Fetched
    <3> QED BY <3>3 DEF Nowhere, Resting
  <2> QED BY <2>2, <2>3, <2>4, <2>5 DEF PortsNeverCollide, CoreIdle
<1> QED BY <1>1, KnownHolds, PTL

\* From the clock edge at which a mode bit is set on, neither RAM changes, not
\* by a write that was already past the decode either, and no mode bit is ever
\* taken back.
THEOREM LockIsForGood == Spec => LockedForGood
<1>1. ASSUME Known, [Next]_vars, srot_ctrlstatus_register.mode # {}
      PROVE  /\ UNCHANGED <<keyram, keyindexram>>
             /\ srot_ctrlstatus_register.mode
                    \subseteq srot_ctrlstatus_register'.mode
  <2>1. CASE Next
    <3>0. PICK fwd \in BOOLEAN, back \in BOOLEAN : Step(fwd, back)
          BY <2>1 DEF Next
    <3>1. PICK a : Clock(a, fwd, back)
          BY <3>0, StepIsClock
    <3>2. ram_write_i = None
          BY <1>1 DEF Known, SlaveKnown
    <3>3. RamStep(SlaveStrobe(a)) /\ SrotWriteDecode(SlaveStrobe(a))
          BY <3>1 DEF Clock, Hardware, SrotStep
    <3>4. UNCHANGED <<keyram, keyindexram>>
          BY <3>2, <3>3 DEF RamStep
    <3>5. srot_ctrlstatus_register.mode \subseteq srot_ctrlstatus_register'.mode
          BY <3>3 DEF SrotWriteDecode
    <3> QED BY <3>4, <3>5
  <2>2. CASE UNCHANGED vars
        BY <2>2 DEF vars, srotVars, decodeVars, memVars
  <2> QED BY <1>1, <2>1, <2>2
<1> QED BY <1>1, KnownHolds, PTL DEF Spec, LockedForGood
=============================================================================
