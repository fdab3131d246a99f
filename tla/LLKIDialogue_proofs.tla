-------------------------- MODULE LLKIDialogue_proofs --------------------------
(***************************************************************************)
(* Proofs about LLKI, continued: the dialogue between the SRoT and the     *)
(* LLKI-PP stays in step, and what the software is told at its end is true *)
(* of the key in the core.  LLKI_proofs says where the one request and the *)
(* one access are; what they are about is shown here.  The last part shows *)
(* from it that LLKI implements KeyService.                                *)
(***************************************************************************)
EXTENDS LLKI_proofs, LLKIService

-----------------------------------------------------------------------------
(* One clock edge, as the dialogue sees it *)

\* How the access moves, given the D channel d.
AccessGoes(d, fwd) ==
    /\ srot_current_state \in WaitStates /\ ~d.valid =>
           /\ srot_current_state' = srot_current_state
           /\ InFabric /\ ~fwd => InFabric' /\ Pending' = Pending
           /\ InFabric /\ fwd =>
                  /\ ~InFabric'
                  /\ CoreWriting' <=> srot_current_state \in WriteStates
                  /\ srot_current_state \in StatusStates =>
                         rdata' = llkipp_ctrlstatus_register
                  /\ srot_current_state = "KL_RESP_READ" =>
                         rdata' = llkipp_response_word
           /\ ~InFabric =>
                  /\ ~InFabric' /\ ~CoreWriting'
                  /\ srot_current_state \notin WriteStates => rdata' = rdata
           /\ InFabric' => InFabric /\ ~fwd
    /\ d.valid => /\ srot_current_state \in WaitStates
                  /\ ~InFabric /\ ~CoreWriting
    /\ ~(srot_current_state \in WaitStates /\ ~d.valid) =>
           /\ ~CoreWriting'
           /\ srot_current_state' \in WaitStates => InFabric' /\ Pending' = host'
    /\ srot_current_state \notin WaitStates => ~InFabric /\ ~CoreWriting
    /\ srot_current_state' \notin WaitStates => ~InFabric' /\ ~CoreWriting'

\* The locations of the access exclude each other.
LEMMA OnePlace ==
    /\ InFabric => CoreIdle /\ ~NoAccess
    /\ CoreIdle => ~CoreWriting /\ ~CoreWritten /\ ~CoreRead
    /\ CoreWriting => ~CoreWritten /\ ~CoreRead /\ ~CoreIdle
    /\ CoreWritten => ~CoreRead /\ ~CoreIdle
    /\ CoreRead => ~CoreIdle
<1>1. \A x : <<x>> # <<>>
      OBVIOUS
<1>2. InFabric => ~NoAccess
      BY <1>1 DEF InFabric, NoAccess
<1> QED BY <1>2 DEF InFabric, CoreIdle, CoreWriting, CoreWritten, CoreRead

LEMMA AccessGoesSo ==
    ASSUME TypeOK, AccessKnown, NEW fwd \in BOOLEAN, NEW back \in BOOLEAN,
           Step(fwd, back)
    PROVE  AccessGoes(KLAnswerChannel(back), fwd)
<1> DEFINE d == KLAnswerChannel(back)
<1>1. /\ StmStep(d) /\ Core!Clock(KLRequestChannel(fwd), back)
      /\ MasterFifoStep(Core!a_ack(KLRequestChannel(fwd)))
      BY StepIsClock DEF Clock, Hardware, SrotStep
<1>2. ~d.err /\ (d.valid <=> d_valid /\ back)
      BY AnswerChannel
<1>3. AccessMoves(d)
      BY <1>1, <1>2, AccessMovesSo DEF TypeOK
<1>4. FabricMoves(fwd, back)
      BY <1>1, FabricMovesSo
<1>5. PortMoves(KLRequestChannel(fwd), back)
      BY <1>4 DEF FabricMoves
<1>6. AccessKnown' BY AccessStep
<1>7. (/\ InFabric => CoreIdle /\ ~NoAccess
       /\ CoreIdle => ~CoreWriting /\ ~CoreWritten /\ ~CoreRead
       /\ CoreWriting => ~CoreWritten /\ ~CoreRead /\ ~CoreIdle
       /\ CoreWritten => ~CoreRead /\ ~CoreIdle
       /\ CoreRead => ~CoreIdle)'
      BY OnePlace, PTL
<1>8. d.valid => /\ srot_current_state \in WaitStates
                 /\ ~InFabric /\ ~CoreWriting
      BY <1>2 DEF AccessKnown, CoreIdle, InFabric, CoreWriting
<1>9. /\ srot_current_state \notin WaitStates => ~InFabric /\ ~CoreWriting
      /\ srot_current_state' \notin WaitStates => ~InFabric' /\ ~CoreWriting'
      BY <1>6, <1>7, OnePlace DEF AccessKnown
<1>10. ASSUME ~(srot_current_state \in WaitStates /\ ~d.valid)
       PROVE  /\ ~CoreWriting'
              /\ srot_current_state' \in WaitStates => InFabric' /\ Pending' = host'
  <2>1. NoAccess
        BY <1>8, <1>10 DEF AccessKnown
  <2>2. master_reqfifo' = <<>>
        BY <1>4, <2>1 DEF FabricMoves
  <2>3. CoreIdle'
    <3>1. CASE srot_current_state \notin WaitStates
          BY <1>4, <1>5, <2>1, <3>1 DEF FabricMoves, PortMoves, AccessKnown
    <3>2. CASE d.valid
      <4>1. back /\ (CoreWritten \/ CoreRead)
            BY <1>2, <1>8, <3>2 DEF AccessKnown, CoreWriting
      <4> QED BY <1>5, <4>1 DEF PortMoves
    <3> QED BY <1>10, <3>1, <3>2
  <2>4. ~CoreWriting' BY <1>7, <2>3
  <2>5. ASSUME srot_current_state' \in WaitStates
        PROVE  InFabric' /\ Pending' = host'
    <3>1. InFabric'
          BY <1>6, <1>7, <2>3, <2>5 DEF AccessKnown
    <3>2. host' # None
      <4>1. RightRequest(host', srot_current_state')
            BY <1>3, <1>10, <2>5 DEF AccessMoves
      <4> QED BY <4>1, NoneAssumption DEF RightRequest
    <3> QED BY <3>1, <3>2 DEF Pending
  <2> QED BY <2>4, <2>5
<1>11. ASSUME srot_current_state \in WaitStates, ~d.valid
       PROVE  /\ srot_current_state' = srot_current_state
              /\ InFabric /\ ~fwd => InFabric' /\ Pending' = Pending
              /\ InFabric /\ fwd =>
                  /\ ~InFabric'
                  /\ CoreWriting' <=> srot_current_state \in WriteStates
                  /\ srot_current_state \in StatusStates =>
                         rdata' = llkipp_ctrlstatus_register
                  /\ srot_current_state = "KL_RESP_READ" =>
                         rdata' = llkipp_response_word
              /\ ~InFabric =>
                     /\ ~InFabric' /\ ~CoreWriting'
                     /\ srot_current_state \notin WriteStates => rdata' = rdata
              /\ InFabric' => InFabric /\ ~fwd
  <2>1. host' = None /\ srot_current_state' = srot_current_state
        BY <1>3, <1>11 DEF AccessMoves
  <2>2. CASE InFabric /\ ~fwd
    <3>1. master_reqfifo' = <<Pending>>
          BY <1>4, <2>2 DEF FabricMoves
    <3>2. Pending' = Pending
          BY <2>1, <3>1 DEF Pending
    <3>3. CoreIdle'
          BY <1>4, <1>5, <2>2 DEF FabricMoves, PortMoves, InFabric
    <3>4. InFabric'
          BY <2>1, <3>1, <3>2, <3>3 DEF InFabric
    <3> QED BY <2>1, <2>2, <3>2, <3>4
  <2>3. CASE InFabric /\ fwd
    <3> DEFINE a == KLRequestChannel(fwd)
    <3>1. RightRequest(Pending, srot_current_state)
          BY <1>11, <2>3, OnePlace DEF AccessKnown
    <3>2. /\ a.valid
          /\ a.opcode = "Get" <=> srot_current_state \notin WriteStates
          /\ a.addr = IF srot_current_state \in StatusStates THEN "CTRLSTS"
                                                             ELSE "SENDRECV"
          BY <1>4, <2>3, <3>1 DEF FabricMoves, RightRequest
    <3> HIDE DEF a
    <3>3. /\ srot_current_state \in WriteStates => CoreWriting'
          /\ srot_current_state \notin WriteStates =>
                 /\ CoreRead'
                 /\ rdata' = IF a.addr = "CTRLSTS" THEN llkipp_ctrlstatus_register
                                                   ELSE llkipp_response_word
          BY <1>5, <2>3, <3>2 DEF PortMoves, InFabric, a
    <3>4. ~CoreIdle' /\ (CoreWriting' <=> srot_current_state \in WriteStates)
          BY <1>7, <3>3
    <3>5. ~InFabric' BY <1>7, <3>4
    <3> QED BY <2>1, <2>3, <3>2, <3>3, <3>4, <3>5
            DEF StatusStates, WriteStates
  <2>4. CASE ~InFabric
    <3>1. NoAccess BY <1>11, <2>4 DEF AccessKnown
    <3>2. ~CoreIdle' /\ ~CoreWriting'
      <4>1. CASE srot_current_state \in WriteStates
        <5>1. CoreWriting \/ CoreWritten
              BY <1>11, <2>4, <4>1 DEF AccessKnown
        <5>2. CoreWritten'
              BY <1>2, <1>5, <1>11, <5>1 DEF PortMoves, CoreWritten
        <5> QED BY <1>7, <5>2
      <4>2. CASE srot_current_state \notin WriteStates
        <5>1. CoreRead
              BY <1>11, <2>4, <4>2 DEF AccessKnown
        <5>2. CoreRead'
              BY <1>2, <1>5, <1>11, <5>1 DEF PortMoves, CoreRead
        <5> QED BY <1>7, <5>2
      <4> QED BY <4>1, <4>2
    <3>3. srot_current_state \notin WriteStates => rdata' = rdata
      <4>1. srot_current_state \notin WriteStates => CoreRead
            BY <1>11, <2>4 DEF AccessKnown
      <4> QED BY <1>2, <1>5, <1>11, <4>1 DEF PortMoves, CoreRead
    <3> QED BY <1>7, <2>1, <2>4, <3>2, <3>3
  <2> QED BY <2>2, <2>3, <2>4
<1> QED BY <1>8, <1>9, <1>10, <1>11 DEF AccessGoes

\* What the LLKI-PP sees on its register port.
PortSeen(r, fwd) ==
    /\ Core!SendrecvWrite(r) <=>
           InFabric /\ fwd /\ srot_current_state \in WriteStates
    /\ Core!SendrecvRead(r) <=>
           InFabric /\ fwd /\ srot_current_state = "KL_RESP_READ"
    /\ Core!SendrecvWrite(r) => r.wdata = Pending.wdata

LEMMA PortSeenSo ==
    ASSUME TypeOK, AccessKnown, NEW fwd \in BOOLEAN, NEW back \in BOOLEAN,
           Step(fwd, back)
    PROVE  PortSeen(Core!Strobe(KLRequestChannel(fwd)), fwd)
<1> DEFINE a == KLRequestChannel(fwd)
           r == Core!Strobe(a)
<1>1. FabricMoves(fwd, back)
      BY StepIsClock, FabricMovesSo DEF Clock, Hardware, SrotStep
<1>2. GoodRequest(a) /\ (Core!a_ack(a) <=> a.valid /\ Core!a_ready)
      BY <1>1 DEF FabricMoves, Core!a_ack
<1>3. /\ Core!SendrecvWrite(r) <=> /\ a.valid /\ Core!a_ready
                                   /\ a.opcode # "Get" /\ a.addr = "SENDRECV"
      /\ Core!SendrecvRead(r) <=> /\ a.valid /\ Core!a_ready
                                  /\ a.opcode = "Get" /\ a.addr = "SENDRECV"
      /\ r.wdata = a.data
      BY <1>2 DEF GoodRequest, Core!SendrecvWrite, Core!SendrecvRead, Core!Strobe,
         Core!we_o, Core!re_o, Core!wr_req, Core!rd_req, Core!Put
<1> HIDE DEF a, r
<1>4. ASSUME ~InFabric PROVE PortSeen(r, fwd)
  <2>1. ~(a.valid /\ Core!a_ready)
    <3>1. NoAccess \/ ~CoreIdle
          BY <1>4 DEF AccessKnown
    <3>2. NoAccess
          BY <1>4 DEF AccessKnown
    <3> QED BY <1>1, <3>2 DEF FabricMoves, a
  <2> QED BY <1>3, <1>4, <2>1 DEF PortSeen
<1>5. ASSUME InFabric PROVE PortSeen(r, fwd)
  <2>1. srot_current_state \in WaitStates /\ RightRequest(Pending, srot_current_state)
        BY <1>5, OnePlace DEF AccessKnown
  <2>2. /\ a.valid = fwd
        /\ a.opcode = IF Pending.we THEN "PutFullData" ELSE "Get"
        /\ a.addr = Pending.offset /\ a.data = Pending.wdata
        BY <1>1, <1>5 DEF FabricMoves, a
  <2>3. Core!a_ready
        BY <1>5 DEF InFabric, CoreIdle, Core!a_ready
  <2>4. /\ a.opcode # "Get" <=> srot_current_state \in WriteStates
        /\ a.addr = "SENDRECV" <=> srot_current_state \notin StatusStates
        BY <2>1, <2>2 DEF RightRequest
  <2>5. fwd \in BOOLEAN /\ a.valid = fwd BY <2>2
  <2> QED BY <1>3, <1>5, <2>1, <2>2, <2>3, <2>4, <2>5
          DEF PortSeen, WaitStates, WriteStates, StatusStates
<1> QED BY <1>4, <1>5 DEF r, a

\* The request and the memories meanwhile.
RequestStays ==
    /\ sw_request # None =>
           /\ UNCHANGED <<keyram, keyindexram>>
           /\ sw_request' = sw_request \/ (sw_op = "FETCH" /\ s_d_valid)
    /\ srot_current_state # "IDLE" \/ llkic2_reqfifo # <<>> =>
           sw_request # None /\ sw_request' = sw_request
    /\ srot_current_state = "IDLE" /\ llkic2_reqfifo # <<>> =>
           Head(llkic2_reqfifo) = sw_request
    /\ srot_current_state # "IDLE" =>
           /\ keyram_rdata_o' = keyram[keyram_stm_addr_i % KeyRamSize]
           /\ keyindexram_rdata_o' =
                  keyindexram[keyindexram_stm_addr_i % KeyIndexRamSize]

LEMMA RequestStaysSo ==
    ASSUME TypeOK, SlaveKnown, TokenKnown,
           NEW fwd, NEW back, NEW a, Clock(a, fwd, back),
           Accesses(a) \/ IsAnswered(a) \/ Pauses(a)
    PROVE  RequestStays
<1>1. sw_request # None => ram_write_i = None
      BY NoneIsNew DEF SlaveKnown
<1>2. RamStep(SlaveStrobe(a))
      BY DEF Clock, Hardware, SrotStep
<1>3. sw_request # None => UNCHANGED <<keyram, keyindexram>>
      BY <1>1, <1>2 DEF RamStep
<1>4. ASSUME sw_request # None
      PROVE  sw_request' = sw_request \/ (sw_op = "FETCH" /\ s_d_valid)
  <2>1. ~Sends(a) /\ ~SetsUp(a)
        BY <1>4, NoneIsNew DEF SlaveKnown, Sends, SetsUp
  <2>2. CASE Polls(a) BY <2>2 DEF Polls
  <2>3. CASE Fetches(a) BY <2>3 DEF Fetches
  <2>4. CASE IsAnswered(a) BY <2>4 DEF IsAnswered
  <2>5. CASE Pauses(a) BY <2>5 DEF Pauses
  <2> QED BY <2>1, <2>2, <2>3, <2>4, <2>5 DEF Accesses
<1>5. ASSUME srot_current_state # "IDLE" \/ llkic2_reqfifo # <<>>
      PROVE  /\ Queued \/ Taken \/ Working
             /\ sw_request # None /\ sw_op # "FETCH"
  <2>1. Queued \/ Taken \/ Working
        BY <1>5 DEF TokenKnown, Nowhere, Written, Offered, Ready, Fetched,
           Resting, Holds
  <2>2. ~Ready /\ ~Fetched
    <3>1. Ready \/ Fetched => srot_current_state = "IDLE" /\ llkic2_reqfifo = <<>>
          BY DEF Ready, Fetched, Resting, Holds
    <3> QED BY <1>5, <3>1
  <2>3. sw_op # "FETCH"
        BY <2>2 DEF SlaveKnown, TokenKnown
  <2> QED BY <2>1, <2>3 DEF Queued, Taken, Working
<1>6. srot_current_state = "IDLE" /\ llkic2_reqfifo # <<>> =>
          Head(llkic2_reqfifo) = sw_request
  <2>1. srot_current_state = "IDLE" /\ llkic2_reqfifo # <<>> =>
            llkic2_reqfifo = <<sw_request>>
        BY <1>5 DEF Queued, Taken, Working, Holds
  <2> QED BY <2>1
<1>7. ASSUME srot_current_state # "IDLE"
      PROVE  /\ keyram_rdata_o' = keyram[keyram_stm_addr_i % KeyRamSize]
             /\ keyindexram_rdata_o' =
                    keyindexram[keyindexram_stm_addr_i % KeyIndexRamSize]
      BY <1>1, <1>2, <1>5, <1>7 DEF RamStep, RamIndex
<1> QED BY <1>3, <1>4, <1>5, <1>6, <1>7 DEF RequestStays

\* All of it.
Edge(d, r, fwd) ==
    /\ d.valid \in BOOLEAN /\ ~d.err /\ d.rdata = rdata /\ fwd \in BOOLEAN
    /\ StmStep(d) /\ Core!PpStep(r) /\ Core!TssStep
    /\ AccessGoes(d, fwd) /\ PortSeen(r, fwd) /\ RequestStays

LEMMA EdgeSo ==
    ASSUME Known, NEW fwd \in BOOLEAN, NEW back \in BOOLEAN, Step(fwd, back)
    PROVE  Edge(KLAnswerChannel(back), Core!Strobe(KLRequestChannel(fwd)), fwd)
<1>1. TypeOK /\ SlaveKnown /\ TokenKnown /\ AccessKnown
      BY DEF Known
<1>2. PICK a : /\ Clock(a, fwd, back)
               /\ Accesses(a) \/ IsAnswered(a) \/ Pauses(a)
      BY SoftwareStep
<1>3. d_valid \in BOOLEAN
      BY <1>1 DEF TypeOK, Core!TypeOK, Core!AdapterTypeOK
<1>4. LET d == KLAnswerChannel(back) IN
      d.valid \in BOOLEAN /\ ~d.err /\ d.rdata = rdata
      BY <1>1, <1>3, AnswerChannel
<1>5. /\ StmStep(KLAnswerChannel(back)) /\ Core!TssStep
      /\ Core!PpStep(Core!Strobe(KLRequestChannel(fwd)))
      BY <1>2 DEF Clock, Hardware, SrotStep, Core!Clock
<1>6. AccessGoes(KLAnswerChannel(back), fwd)
      BY <1>1, AccessGoesSo
<1>7. PortSeen(Core!Strobe(KLRequestChannel(fwd)), fwd)
      BY <1>1, PortSeenSo
<1>8. RequestStays
      BY <1>1, <1>2, RequestStaysSo
<1> QED BY <1>4, <1>5, <1>6, <1>7, <1>8 DEF Edge

-----------------------------------------------------------------------------
(* The state machine has the request in hand *)

\* The branch of the state machine is that of its state.
LEMMA StmBranch ==
    ASSUME NEW d, StmStep(d)
    PROVE  /\ srot_current_state = "IDLE" => StmIdle
           /\ srot_current_state = "MESSAGE_CHECK" => StmMessageCheck
           /\ srot_current_state = "RETRIEVE_KEY_INDEX_WAIT_STATE" => StmRetrieveWait
           /\ srot_current_state = "RETRIEVE_KEY_INDEX" => StmRetrieve
           /\ srot_current_state = "KL_REQ_HEADER" => StmReqHeader
           /\ srot_current_state = "KL_REQ_WAIT_FOR_ACK" => StmReqWaitForAck(d)
           /\ srot_current_state = "KL_READ_READY_STATUS" => StmReadReadyStatus
           /\ srot_current_state = "KL_CHECK_READY_STATUS" => StmCheckReadyStatus(d)
           /\ srot_current_state = "KL_READY_WAIT_STATE" => StmReadyWaitState(d)
           /\ srot_current_state = "KL_LOAD_KEY_WORD" => StmLoadKeyWord
           /\ srot_current_state = "KL_LOAD_KEY_WORD_WAIT_FOR_ACK" =>
                  StmLoadKeyWordWaitForAck(d)
           /\ srot_current_state = "KL_READ_RESP_STATUS" => StmReadRespStatus
           /\ srot_current_state = "KL_CHECK_RESP_STATUS" => StmCheckRespStatus(d)
           /\ srot_current_state = "KL_RESP_WAIT_STATE" => StmRespWaitState(d)
           /\ srot_current_state = "KL_RESP_READ" => StmRespRead(d)
           /\ srot_current_state = "C2_RESPONSE" => StmC2Response
<1>1. /\ StmIdle => srot_current_state = "IDLE"
      /\ StmMessageCheck => srot_current_state = "MESSAGE_CHECK"
      /\ StmRetrieveWait => srot_current_state = "RETRIEVE_KEY_INDEX_WAIT_STATE"
      /\ StmRetrieve => srot_current_state = "RETRIEVE_KEY_INDEX"
      BY DEF StmIdle, StmMessageCheck, StmRetrieveWait, StmRetrieve
<1>2. /\ StmReqHeader => srot_current_state = "KL_REQ_HEADER"
      /\ StmReqWaitForAck(d) => srot_current_state = "KL_REQ_WAIT_FOR_ACK"
      /\ StmReadReadyStatus => srot_current_state = "KL_READ_READY_STATUS"
      /\ StmCheckReadyStatus(d) => srot_current_state = "KL_CHECK_READY_STATUS"
      BY DEF StmReqHeader, StmReqWaitForAck, StmReadReadyStatus, StmCheckReadyStatus
<1>3. /\ StmReadyWaitState(d) => srot_current_state = "KL_READY_WAIT_STATE"
      /\ StmLoadKeyWord => srot_current_state = "KL_LOAD_KEY_WORD"
      BY DEF StmReadyWaitState, StmLoadKeyWord
<1>5. /\ StmLoadKeyWordWaitForAck(d) =>
             srot_current_state = "KL_LOAD_KEY_WORD_WAIT_FOR_ACK"
      /\ StmReadRespStatus => srot_current_state = "KL_READ_RESP_STATUS"
      BY DEF StmLoadKeyWordWaitForAck, StmReadRespStatus
<1>4. /\ StmCheckRespStatus(d) => srot_current_state = "KL_CHECK_RESP_STATUS"
      /\ StmRespWaitState(d) => srot_current_state = "KL_RESP_WAIT_STATE"
      /\ StmRespRead(d) => srot_current_state = "KL_RESP_READ"
      /\ StmC2Response => srot_current_state = "C2_RESPONSE"
      BY DEF StmCheckRespStatus, StmRespWaitState, StmRespRead, StmC2Response
<1> QED BY <1>1, <1>2, <1>3, <1>4, <1>5 DEF StmStep

\* How the state machine gets hold of a request and of its entry.
MessageMoves ==
    /\ srot_current_state = "IDLE" =>
           IF llkic2_reqfifo = <<>> THEN srot_current_state' = "IDLE"
           ELSE /\ srot_current_state' = "MESSAGE_CHECK"
                /\ msg_id' = Head(llkic2_reqfifo).id
                /\ key_index' = Head(llkic2_reqfifo).key_index
                /\ rsvd' = Head(llkic2_reqfifo).rsvd
    /\ srot_current_state = "MESSAGE_CHECK" =>
           \/ srot_current_state' = "C2_RESPONSE"
           \/ /\ srot_current_state' = "RETRIEVE_KEY_INDEX_WAIT_STATE"
              /\ msg_id \in C2Request /\ ~(key_index >= KeyIndexRamSize)
              /\ keyindexram_stm_addr_i' = key_index
    /\ srot_current_state = "RETRIEVE_KEY_INDEX_WAIT_STATE" =>
           srot_current_state' = "RETRIEVE_KEY_INDEX"
    /\ srot_current_state = "RETRIEVE_KEY_INDEX" =>
           \/ srot_current_state' = "C2_RESPONSE"
           \/ srot_current_state' = "KL_REQ_HEADER" /\ ~BadPointerPair
    /\ srot_current_state \in Dialogue =>
           srot_current_state' \in Dialogue \cup {"C2_RESPONSE"}
    /\ srot_current_state = "C2_RESPONSE" => srot_current_state' = "IDLE"
    /\ srot_current_state # "IDLE" => rsvd' = rsvd
    /\ srot_current_state # "IDLE" /\ srot_current_state' \notin {"IDLE", "C2_RESPONSE"} =>
           UNCHANGED <<msg_id, key_index>>
    /\ srot_current_state \in Checking \cup Dialogue =>
           UNCHANGED keyindexram_stm_addr_i

LEMMA MessageMovesSo ==
    ASSUME NEW d, ~d.err, StmStep(d)
    PROVE  MessageMoves
<1> USE DEF MessageMoves, Goto, Proceed, Refuse, request, stmStatus, Checking, Dialogue,
        LoadStates, ReadyStates, RespStates
<1>1. CASE StmIdle BY <1>1 DEF StmIdle
<1>2. CASE StmMessageCheck BY <1>2 DEF StmMessageCheck
<1>3. CASE StmRetrieveWait BY <1>3 DEF StmRetrieveWait
<1>4. CASE StmRetrieve BY <1>4 DEF StmRetrieve
<1>5. CASE StmReqHeader BY <1>5 DEF StmReqHeader
<1>6. CASE StmReqWaitForAck(d) BY <1>6 DEF StmReqWaitForAck
<1>7. CASE StmReadReadyStatus BY <1>7 DEF StmReadReadyStatus
<1>8. CASE StmCheckReadyStatus(d)
      BY <1>8 DEF StmCheckReadyStatus, NextReadyState
<1>9. CASE StmReadyWaitState(d) BY <1>9 DEF StmReadyWaitState
<1>10. CASE StmLoadKeyWord BY <1>10 DEF StmLoadKeyWord
<1>11. CASE StmLoadKeyWordWaitForAck(d) BY <1>11 DEF StmLoadKeyWordWaitForAck
<1>12. CASE StmReadRespStatus BY <1>12 DEF StmReadRespStatus
<1>13. CASE StmCheckRespStatus(d) BY <1>13 DEF StmCheckRespStatus
<1>14. CASE StmRespWaitState(d) BY <1>14 DEF StmRespWaitState
<1>15. CASE StmRespRead(d) BY <1>15 DEF StmRespRead
<1>16. CASE StmC2Response BY <1>16 DEF StmC2Response
<1> QED BY <1>1, <1>2, <1>3, <1>4, <1>5, <1>6, <1>7, <1>8, <1>9, <1>10, <1>11,
           <1>12, <1>13, <1>14, <1>15, <1>16 DEF StmStep

LEMMA MessageInHandStep ==
    ASSUME StmTypeOK, RequestKnown, MessageMoves, RequestStays,
           srot_current_state' \in LoadStates =>
               \/ srot_current_state \in LoadStates
               \/ srot_current_state \in Dialogue /\ msg_id = "C2LOADKEYREQ"
    PROVE  MessageInHand'
<1> USE DEF MessageInHand, RequestKnown, MessageMoves, RequestStays, StmTypeOK,
        SrotState, Checking, Dialogue, LoadStates, ReadyStates, RespStates
<1>1. srot_current_state' # "IDLE" => rsvd' = sw_request'.rsvd
      OBVIOUS
<1>2. srot_current_state' \in {"MESSAGE_CHECK"} \cup Checking \cup Dialogue =>
          msg_id' = sw_request'.id /\ key_index' = sw_request'.key_index
      OBVIOUS
<1>3. srot_current_state' \in Checking \cup Dialogue => msg_id' \in C2Request
      OBVIOUS
<1>4. srot_current_state' \in LoadStates => msg_id' = "C2LOADKEYREQ"
      OBVIOUS
<1> QED BY <1>1, <1>2, <1>3, <1>4

LEMMA SmallMod == \A n \in Nat, m \in Nat \ {0} : n < m => n % m = n
OBVIOUS

\* The pointers of an entry are numbers.
LEMMA EntryType ==
    ASSUME TypeOK, key_index < KeyIndexRamSize
    PROVE  /\ key_index \in Nat
           /\ keyindexram_rdata_o.low \in Nat /\ keyindexram_rdata_o.high \in Nat
           /\ keyindexram[key_index].low \in Nat
           /\ keyindexram[key_index].high \in Nat
<1>1. key_index \in Byte /\ KeyIndexRamSize \in Nat
      BY SrotAssumption DEF TypeOK, SrotTypeOK, StmTypeOK
<1>2. key_index \in Nat /\ key_index \in 0 .. KeyIndexRamSize - 1
      BY <1>1 DEF Byte
<1>3. keyindexram_rdata_o \in IndexEntry /\ keyindexram[key_index] \in IndexEntry
      BY <1>2 DEF TypeOK, SrotTypeOK, MemTypeOK
<1>4. \A e \in IndexEntry : e.low \in Nat /\ e.high \in Nat
      BY Ranges DEF IndexEntry
<1> QED BY <1>2, <1>3, <1>4

\* The entry the request is about stays.
LEMMA AskedStays ==
    ASSUME TypeOK, RequestKnown, RequestStays,
           srot_current_state \in Checking \cup Dialogue
    PROVE  /\ key_index < KeyIndexRamSize
           /\ Asked = keyindexram[key_index] /\ Asked' = Asked
           /\ keyindexram_rdata_o' = Asked
           /\ keyram' = keyram /\ sw_request' = sw_request
<1>1. key_index \in Nat /\ KeyIndexRamSize \in Nat \ {0}
  <2>1. key_index \in Byte BY DEF TypeOK, SrotTypeOK, StmTypeOK
  <2> QED BY <2>1, SrotAssumption DEF Byte
<1>2. /\ key_index < KeyIndexRamSize /\ keyindexram_stm_addr_i = key_index
      /\ key_index = sw_request.key_index
      BY DEF RequestKnown, EntryInHand, MessageInHand
<1>3. keyindexram_stm_addr_i % KeyIndexRamSize = key_index
      BY <1>1, <1>2, SmallMod
<1>4. srot_current_state # "IDLE"
      BY DEF Checking, Dialogue, LoadStates, ReadyStates, RespStates
<1>5. /\ keyindexram_rdata_o' = keyindexram[key_index]
      /\ sw_request' = sw_request /\ keyindexram' = keyindexram
      /\ keyram' = keyram
      BY <1>3, <1>4 DEF RequestStays
<1> QED BY <1>2, <1>5 DEF Asked, EntryOf

LEMMA EntryInHandStep ==
    ASSUME TypeOK, RequestKnown, MessageMoves, RequestStays
    PROVE  EntryInHand'
<1> USE DEF Checking, Dialogue, LoadStates, ReadyStates, RespStates
<1>0. key_index \in Nat /\ KeyIndexRamSize \in Nat \ {0} /\ srot_current_state \in SrotState
  <2>1. key_index \in Byte /\ srot_current_state \in SrotState
        BY DEF TypeOK, SrotTypeOK, StmTypeOK
  <2> QED BY <2>1, SrotAssumption DEF Byte
<1>1. srot_current_state' \in Checking \cup Dialogue =>
          key_index' < KeyIndexRamSize /\ keyindexram_stm_addr_i' = key_index'
      BY <1>0 DEF MessageMoves, RequestKnown, EntryInHand, SrotState
<1>2. srot_current_state \in Checking \cup Dialogue =>
          /\ key_index < KeyIndexRamSize
          /\ Asked = keyindexram[key_index] /\ Asked' = Asked
          /\ keyindexram_rdata_o' = Asked
      BY AskedStays
<1>3. srot_current_state' \in {"RETRIEVE_KEY_INDEX"} \cup Dialogue =>
          srot_current_state \in {"RETRIEVE_KEY_INDEX_WAIT_STATE",
                                  "RETRIEVE_KEY_INDEX"} \cup Dialogue
      BY <1>0 DEF MessageMoves, SrotState
<1>4. srot_current_state' \in {"RETRIEVE_KEY_INDEX"} \cup Dialogue =>
          keyindexram_rdata_o' = Asked'
      BY <1>2, <1>3
<1>5. ASSUME srot_current_state' \in Dialogue
      PROVE  Asked'.low <= Asked'.high /\ Asked'.high < KeyRamSize
  <2>1. CASE srot_current_state \in Dialogue
        BY <1>2, <2>1 DEF RequestKnown, EntryInHand
  <2>2. CASE srot_current_state = "RETRIEVE_KEY_INDEX"
    <3>1. /\ keyindexram_rdata_o = Asked /\ key_index < KeyIndexRamSize
          /\ Asked' = Asked
          BY <1>2, <2>2 DEF RequestKnown, EntryInHand
    <3>2. ~BadPointerPair
          BY <1>5, <2>2 DEF MessageMoves
    <3>3. Asked.low \in Nat /\ Asked.high \in Nat /\ KeyRamSize \in Nat
          BY <3>1, EntryType, MaxIs
    <3> QED BY <3>1, <3>2, <3>3 DEF BadPointerPair, low_pointer, high_pointer
  <2>3. srot_current_state \in Dialogue \cup {"RETRIEVE_KEY_INDEX"}
        BY <1>0, <1>5 DEF MessageMoves, SrotState
  <2> QED BY <2>1, <2>2, <2>3
<1> QED BY <1>1, <1>4, <1>5 DEF EntryInHand

\* The dialogue, as the state machine goes through it.
DialogueMoves(d) ==
    /\ srot_current_state = "KL_REQ_HEADER" =>
           \/ srot_current_state' \in {"KL_REQ_HEADER", "C2_RESPONSE"}
           \/ /\ srot_current_state' = "KL_REQ_WAIT_FOR_ACK"
              /\ current_pointer' = low_pointer
    /\ srot_current_state = "KL_REQ_WAIT_FOR_ACK" =>
           /\ UNCHANGED current_pointer
           /\ IF ~d.valid THEN UNCHANGED srot_current_state
              ELSE IF msg_id = "C2LOADKEYREQ"
              THEN /\ srot_current_state' = "KL_READ_READY_STATUS"
                   /\ keyram_stm_addr_i' = current_pointer
              ELSE srot_current_state' = "KL_READ_RESP_STATUS"
    /\ srot_current_state \in LoadStates \ {"KL_LOAD_KEY_WORD_WAIT_FOR_ACK"} =>
           UNCHANGED <<current_pointer, keyram_stm_addr_i>>
    /\ srot_current_state = "KL_READ_READY_STATUS" =>
           srot_current_state' \in {"KL_READ_READY_STATUS", "KL_CHECK_READY_STATUS"}
    /\ srot_current_state = "KL_CHECK_READY_STATUS" =>
           srot_current_state' = IF d.valid THEN NextReadyState(d.rdata)
                                 ELSE srot_current_state
    /\ srot_current_state = "KL_READY_WAIT_STATE" =>
           srot_current_state' \in {"KL_READ_READY_STATUS", "KL_READY_WAIT_STATE"}
    /\ srot_current_state = "KL_LOAD_KEY_WORD" =>
           srot_current_state' \in {"KL_LOAD_KEY_WORD",
                                    "KL_LOAD_KEY_WORD_WAIT_FOR_ACK"}
    /\ srot_current_state = "KL_LOAD_KEY_WORD_WAIT_FOR_ACK" =>
           IF ~d.valid
           THEN UNCHANGED <<srot_current_state, current_pointer, keyram_stm_addr_i>>
           ELSE IF LastWord
           THEN /\ srot_current_state' = "KL_READ_RESP_STATUS"
                /\ UNCHANGED <<current_pointer, keyram_stm_addr_i>>
           ELSE /\ srot_current_state' = "KL_READ_READY_STATUS"
                /\ keyram_stm_addr_i' = current_pointer + 1
                /\ current_pointer' = (current_pointer + 1) % 65536
    /\ srot_current_state = "KL_READ_RESP_STATUS" =>
           srot_current_state' \in {"KL_READ_RESP_STATUS", "KL_CHECK_RESP_STATUS"}
    /\ srot_current_state = "KL_CHECK_RESP_STATUS" =>
           srot_current_state' =
               IF ~d.valid THEN srot_current_state
               ELSE IF d.rdata.resp_waiting THEN "KL_RESP_READ"
               ELSE "KL_RESP_WAIT_STATE"
    /\ srot_current_state = "KL_RESP_WAIT_STATE" =>
           srot_current_state' \in {"KL_READ_RESP_STATUS", "KL_RESP_WAIT_STATE"}
    /\ srot_current_state = "KL_RESP_READ" =>
           IF ~d.valid THEN UNCHANGED srot_current_state
           ELSE /\ srot_current_state' = "C2_RESPONSE"
                /\ msg_id' = d.rdata.id /\ status' = d.rdata.status

\* What it sends on the way.
LEMMA AccessesMade ==
    ASSUME NEW d, ~d.err
    PROVE  /\ StmReqHeader =>
                  /\ srot_current_state = "KL_REQ_HEADER"
                  /\ \/ UNCHANGED srot_current_state
                     \/ srot_current_state' = "C2_RESPONSE"
                     \/ /\ srot_current_state' = "KL_REQ_WAIT_FOR_ACK"
                        /\ current_pointer' = low_pointer
                        /\ host' = Access("SENDRECV", TRUE, Header)
           /\ StmLoadKeyWord =>
                  /\ srot_current_state = "KL_LOAD_KEY_WORD"
                  /\ UNCHANGED <<current_pointer, keyram_stm_addr_i>>
                  /\ \/ UNCHANGED srot_current_state
                     \/ /\ srot_current_state' = "KL_LOAD_KEY_WORD_WAIT_FOR_ACK"
                        /\ host' = Access("SENDRECV", TRUE, keyram_rdata_o)
           /\ StmCheckRespStatus(d) =>
                  /\ srot_current_state = "KL_CHECK_RESP_STATUS"
                  /\ ~d.valid => UNCHANGED srot_current_state
                  /\ d.valid /\ d.rdata.resp_waiting =>
                         srot_current_state' = "KL_RESP_READ"
                  /\ d.valid /\ ~d.rdata.resp_waiting =>
                         srot_current_state' = "KL_RESP_WAIT_STATE"
<1>1. UNCHANGED stmStatus => UNCHANGED srot_current_state
      BY DEF stmStatus
<1>2. UNCHANGED <<stmStatus, current_pointer>> => UNCHANGED stmStatus
      OBVIOUS
<1>3. ASSUME StmReqHeader
      PROVE  /\ srot_current_state = "KL_REQ_HEADER"
             /\ \/ UNCHANGED srot_current_state
                \/ srot_current_state' = "C2_RESPONSE"
                \/ /\ srot_current_state' = "KL_REQ_WAIT_FOR_ACK"
                   /\ current_pointer' = low_pointer
                   /\ host' = Access("SENDRECV", TRUE, Header)
      BY <1>1, <1>2, <1>3, Zenon DEF StmReqHeader, Proceed, Goto, Refuse
<1>4. ASSUME StmLoadKeyWord
      PROVE  /\ srot_current_state = "KL_LOAD_KEY_WORD"
             /\ UNCHANGED <<current_pointer, keyram_stm_addr_i>>
             /\ \/ UNCHANGED srot_current_state
                \/ /\ srot_current_state' = "KL_LOAD_KEY_WORD_WAIT_FOR_ACK"
                   /\ host' = Access("SENDRECV", TRUE, keyram_rdata_o)
  <2>1. UNCHANGED <<request, keyindexram_stm_addr_i, keyram_stm_addr_i,
                    current_pointer, llkic2_reqfifo_rready_i, respfifo_wdata_i>>
        BY <1>4, Zenon DEF StmLoadKeyWord
  <2>2. UNCHANGED <<current_pointer, keyram_stm_addr_i>>
        BY <2>1
  <2> QED BY <1>1, <1>4, <2>2, Zenon DEF StmLoadKeyWord, Proceed, Goto
<1>5. ASSUME StmCheckRespStatus(d)
      PROVE  /\ srot_current_state = "KL_CHECK_RESP_STATUS"
             /\ ~d.valid => UNCHANGED srot_current_state
             /\ d.valid /\ d.rdata.resp_waiting =>
                    srot_current_state' = "KL_RESP_READ"
             /\ d.valid /\ ~d.rdata.resp_waiting =>
                    srot_current_state' = "KL_RESP_WAIT_STATE"
      BY <1>1, <1>5, Zenon DEF StmCheckRespStatus, Proceed, Goto
<1> QED BY <1>3, <1>4, <1>5

LEMMA DialogueMovesSo ==
    ASSUME NEW d, ~d.err, StmStep(d)
    PROVE  DialogueMoves(d)
<1> USE DEF Goto, Proceed, Refuse, stmStatus, LoadStates, ReadyStates
<1>1. CASE StmIdle BY <1>1 DEF StmIdle, DialogueMoves
<1>2. CASE StmReqHeader
  <2>1. /\ srot_current_state = "KL_REQ_HEADER"
        /\ \/ UNCHANGED srot_current_state
           \/ srot_current_state' = "C2_RESPONSE"
           \/ /\ srot_current_state' = "KL_REQ_WAIT_FOR_ACK"
              /\ current_pointer' = low_pointer
        BY <1>2, AccessesMade, Zenon
  <2> QED BY <2>1 DEF DialogueMoves
<1>3. CASE StmReqWaitForAck(d) BY <1>3 DEF StmReqWaitForAck, DialogueMoves
<1>4. CASE StmReadReadyStatus BY <1>4 DEF StmReadReadyStatus, DialogueMoves
<1>5. CASE StmCheckReadyStatus(d) BY <1>5 DEF StmCheckReadyStatus, DialogueMoves
<1>6. CASE StmReadyWaitState(d) BY <1>6 DEF StmReadyWaitState, DialogueMoves
<1>7. CASE StmLoadKeyWord
  <2>1. /\ srot_current_state = "KL_LOAD_KEY_WORD"
        /\ UNCHANGED <<current_pointer, keyram_stm_addr_i>>
        /\ \/ UNCHANGED srot_current_state
           \/ srot_current_state' = "KL_LOAD_KEY_WORD_WAIT_FOR_ACK"
        BY <1>7, AccessesMade, Zenon
  <2> QED BY <2>1 DEF DialogueMoves
<1>8. CASE StmLoadKeyWordWaitForAck(d)
      BY <1>8 DEF StmLoadKeyWordWaitForAck, DialogueMoves
<1>9. CASE StmReadRespStatus BY <1>9 DEF StmReadRespStatus, DialogueMoves
<1>10. CASE StmCheckRespStatus(d)
  <2>1. /\ srot_current_state = "KL_CHECK_RESP_STATUS"
        /\ ~d.valid => UNCHANGED srot_current_state
        /\ d.valid /\ d.rdata.resp_waiting =>
               srot_current_state' = "KL_RESP_READ"
        /\ d.valid /\ ~d.rdata.resp_waiting =>
               srot_current_state' = "KL_RESP_WAIT_STATE"
        BY <1>10, AccessesMade, Zenon
  <2> QED BY <2>1 DEF DialogueMoves
<1>11. CASE StmRespWaitState(d) BY <1>11 DEF StmRespWaitState, DialogueMoves
<1>12. CASE StmRespRead(d) BY <1>12 DEF StmRespRead, DialogueMoves
<1>13. CASE StmMessageCheck BY <1>13 DEF StmMessageCheck, DialogueMoves
<1>14. CASE StmRetrieveWait BY <1>14 DEF StmRetrieveWait, DialogueMoves
<1>15. CASE StmRetrieve BY <1>15 DEF StmRetrieve, DialogueMoves
<1>16. CASE StmC2Response BY <1>16 DEF StmC2Response, DialogueMoves
<1> QED BY <1>1, <1>2, <1>3, <1>4, <1>5, <1>6, <1>7, <1>8, <1>9, <1>10, <1>11, <1>12,
           <1>13, <1>14, <1>15, <1>16 DEF StmStep

\* The same, seen from the state it leads to.
DialogueFrom(d) ==
    /\ srot_current_state' = "KL_REQ_HEADER" =>
           srot_current_state \in {"RETRIEVE_KEY_INDEX", "KL_REQ_HEADER"}
    /\ srot_current_state' = "KL_REQ_WAIT_FOR_ACK" =>
           \/ srot_current_state = "KL_REQ_HEADER" /\ current_pointer' = low_pointer
           \/ /\ srot_current_state = "KL_REQ_WAIT_FOR_ACK" /\ ~d.valid
              /\ UNCHANGED current_pointer
    /\ srot_current_state' \in LoadStates =>
           \/ /\ srot_current_state = "KL_REQ_WAIT_FOR_ACK" /\ d.valid
              /\ msg_id = "C2LOADKEYREQ"
              /\ srot_current_state' = "KL_READ_READY_STATUS"
              /\ UNCHANGED current_pointer
              /\ keyram_stm_addr_i' = current_pointer
           \/ /\ srot_current_state = "KL_LOAD_KEY_WORD_WAIT_FOR_ACK" /\ d.valid
              /\ ~LastWord
              /\ srot_current_state' = "KL_READ_READY_STATUS"
              /\ keyram_stm_addr_i' = current_pointer + 1
              /\ current_pointer' = (current_pointer + 1) % 65536
           \/ /\ srot_current_state \in LoadStates
              /\ UNCHANGED <<current_pointer, keyram_stm_addr_i>>
              /\ srot_current_state = "KL_LOAD_KEY_WORD_WAIT_FOR_ACK" =>
                     ~d.valid /\ UNCHANGED srot_current_state
              /\ srot_current_state' = "KL_CHECK_READY_STATUS" =>
                     srot_current_state \in {"KL_READ_READY_STATUS",
                                             "KL_CHECK_READY_STATUS"}
              /\ srot_current_state' = "KL_LOAD_KEY_WORD" =>
                     \/ srot_current_state = "KL_LOAD_KEY_WORD"
                     \/ /\ srot_current_state = "KL_CHECK_READY_STATUS" /\ d.valid
                        /\ d.rdata.ready_for_key
              /\ srot_current_state' = "KL_LOAD_KEY_WORD_WAIT_FOR_ACK" =>
                     srot_current_state \in {"KL_LOAD_KEY_WORD",
                                             "KL_LOAD_KEY_WORD_WAIT_FOR_ACK"}
    /\ srot_current_state' \in RespStates =>
           \/ srot_current_state \in RespStates
           \/ srot_current_state = "KL_REQ_WAIT_FOR_ACK" /\ msg_id # "C2LOADKEYREQ"
           \/ srot_current_state = "KL_LOAD_KEY_WORD_WAIT_FOR_ACK" /\ d.valid /\ LastWord
           \/ /\ srot_current_state = "KL_CHECK_READY_STATUS" /\ d.valid
              /\ d.rdata.resp_waiting

LEMMA DialogueFromSo ==
    ASSUME NEW d, DialogueMoves(d), MessageMoves, srot_current_state \in SrotState
    PROVE  DialogueFrom(d)
<1> USE DEF MessageMoves, SrotState, LoadStates, ReadyStates, RespStates, Dialogue,
        NextReadyState
<1> DEFINE s == srot_current_state
           t == srot_current_state'
<1>1. t = "KL_REQ_HEADER" => s \in {"RETRIEVE_KEY_INDEX", "KL_REQ_HEADER"}
      BY DEF DialogueMoves
<1>2. t = "KL_REQ_WAIT_FOR_ACK" =>
          \/ s = "KL_REQ_HEADER" /\ current_pointer' = low_pointer
          \/ s = "KL_REQ_WAIT_FOR_ACK" /\ ~d.valid /\ UNCHANGED current_pointer
      BY DEF DialogueMoves
<1>3. t \in LoadStates => s \in LoadStates \cup {"KL_REQ_WAIT_FOR_ACK"}
      BY DEF DialogueMoves
<1>4. t \in LoadStates /\ s = "KL_REQ_WAIT_FOR_ACK" =>
          /\ d.valid /\ msg_id = "C2LOADKEYREQ"
          /\ t = "KL_READ_READY_STATUS" /\ UNCHANGED current_pointer
          /\ keyram_stm_addr_i' = current_pointer
      BY DEF DialogueMoves
<1>5. t \in LoadStates /\ s = "KL_LOAD_KEY_WORD_WAIT_FOR_ACK" =>
          \/ /\ d.valid /\ ~LastWord /\ t = "KL_READ_READY_STATUS"
             /\ keyram_stm_addr_i' = current_pointer + 1
             /\ current_pointer' = (current_pointer + 1) % 65536
          \/ /\ ~d.valid /\ t = s
             /\ UNCHANGED <<current_pointer, keyram_stm_addr_i>>
      BY DEF DialogueMoves
<1>6. t \in LoadStates /\ s \in LoadStates \ {"KL_LOAD_KEY_WORD_WAIT_FOR_ACK"} =>
          /\ UNCHANGED <<current_pointer, keyram_stm_addr_i>>
          /\ t = "KL_CHECK_READY_STATUS" =>
                 s \in {"KL_READ_READY_STATUS", "KL_CHECK_READY_STATUS"}
          /\ t = "KL_LOAD_KEY_WORD" =>
                 \/ s = "KL_LOAD_KEY_WORD"
                 \/ s = "KL_CHECK_READY_STATUS" /\ d.valid /\ d.rdata.ready_for_key
          /\ t = "KL_LOAD_KEY_WORD_WAIT_FOR_ACK" => s = "KL_LOAD_KEY_WORD"
      BY DEF DialogueMoves
<1>7. t \in RespStates =>
           \/ s \in RespStates
           \/ s = "KL_REQ_WAIT_FOR_ACK" /\ msg_id # "C2LOADKEYREQ"
           \/ s = "KL_LOAD_KEY_WORD_WAIT_FOR_ACK" /\ d.valid /\ LastWord
           \/ s = "KL_CHECK_READY_STATUS" /\ d.valid /\ d.rdata.resp_waiting
      BY DEF DialogueMoves
<1>8. t \in LoadStates =>
           \/ /\ s = "KL_REQ_WAIT_FOR_ACK" /\ d.valid
              /\ msg_id = "C2LOADKEYREQ"
              /\ t = "KL_READ_READY_STATUS"
              /\ UNCHANGED current_pointer
              /\ keyram_stm_addr_i' = current_pointer
           \/ /\ s = "KL_LOAD_KEY_WORD_WAIT_FOR_ACK" /\ d.valid
              /\ ~LastWord
              /\ t = "KL_READ_READY_STATUS"
              /\ keyram_stm_addr_i' = current_pointer + 1
              /\ current_pointer' = (current_pointer + 1) % 65536
           \/ /\ s \in LoadStates
              /\ UNCHANGED <<current_pointer, keyram_stm_addr_i>>
              /\ s = "KL_LOAD_KEY_WORD_WAIT_FOR_ACK" => ~d.valid /\ t = s
              /\ t = "KL_CHECK_READY_STATUS" =>
                     s \in {"KL_READ_READY_STATUS", "KL_CHECK_READY_STATUS"}
              /\ t = "KL_LOAD_KEY_WORD" =>
                     \/ s = "KL_LOAD_KEY_WORD"
                     \/ /\ s = "KL_CHECK_READY_STATUS" /\ d.valid
                        /\ d.rdata.ready_for_key
              /\ t = "KL_LOAD_KEY_WORD_WAIT_FOR_ACK" =>
                     s \in {"KL_LOAD_KEY_WORD", "KL_LOAD_KEY_WORD_WAIT_FOR_ACK"}
      BY <1>3, <1>4, <1>5, <1>6
<1> QED BY <1>1, <1>2, <1>7, <1>8 DEF DialogueFrom

\* The pointers of the entry the dialogue is about.
LEMMA AskedInRam ==
    ASSUME TypeOK, RequestKnown, RequestStays, srot_current_state \in Dialogue
    PROVE  /\ Asked.low \in Nat /\ Asked.high \in Nat /\ KeyRamSize \in Nat
           /\ Asked.low <= Asked.high /\ Asked.high < KeyRamSize
           /\ current_pointer \in Nat
           /\ keyindexram_rdata_o = Asked /\ Asked' = Asked
           /\ keyram' = keyram /\ sw_request' = sw_request
<1>1. /\ key_index < KeyIndexRamSize
      /\ Asked = keyindexram[key_index] /\ Asked' = Asked
      /\ keyram' = keyram /\ sw_request' = sw_request
      BY AskedStays
<1>2. Asked.low \in Nat /\ Asked.high \in Nat
      BY <1>1, EntryType
<1>3. current_pointer \in Nat
  <2>1. current_pointer \in Pointer BY DEF TypeOK, SrotTypeOK, StmTypeOK
  <2> QED BY <2>1, Ranges
<1>4. /\ keyindexram_rdata_o = Asked
      /\ Asked.low <= Asked.high /\ Asked.high < KeyRamSize
      BY DEF RequestKnown, EntryInHand
<1> QED BY <1>1, <1>2, <1>3, <1>4, MaxIs

\* The next key word, one further on, is in the Key RAM too.
LEMMA NextWordInRam ==
    ASSUME TypeOK, RequestKnown, RequestStays, srot_current_state \in LoadStates, ~LastWord
    PROVE  /\ (current_pointer + 1) % 65536 = current_pointer + 1
           /\ current_pointer < Asked.high
<1>1. srot_current_state \in Dialogue BY DEF Dialogue
<1>2. /\ Asked.low \in Nat /\ Asked.high \in Nat /\ KeyRamSize \in Nat
      /\ Asked.high < KeyRamSize /\ current_pointer \in Nat
      /\ keyindexram_rdata_o = Asked
      BY <1>1, AskedInRam
<1>3. current_pointer <= Asked.high
      BY DEF RequestKnown, WordInHand
<1>4. current_pointer < Asked.high
      BY <1>2, <1>3 DEF LastWord, high_pointer
<1>5. KeyRamSize <= 65535 BY SrotAssumption
<1> QED BY <1>2, <1>4, <1>5

LEMMA WordInHandStep ==
    ASSUME TypeOK, RequestKnown, RequestStays, NEW d, DialogueFrom(d)
    PROVE  WordInHand'
<1>1. ASSUME srot_current_state' = "KL_REQ_WAIT_FOR_ACK"
      PROVE  current_pointer' = Asked'.low
  <2>1. srot_current_state \in Dialogue
        BY <1>1 DEF DialogueFrom, Dialogue
  <2>2. keyindexram_rdata_o = Asked /\ Asked' = Asked
        BY <2>1, AskedInRam
  <2> QED BY <1>1, <2>2 DEF DialogueFrom, RequestKnown, WordInHand, low_pointer
<1>2. ASSUME srot_current_state' \in LoadStates
      PROVE  /\ keyram_stm_addr_i' = current_pointer'
             /\ Asked'.low <= current_pointer' /\ current_pointer' <= Asked'.high
             /\ srot_current_state' # "KL_READ_READY_STATUS" =>
                    keyram_rdata_o' = keyram'[current_pointer']
  <2>1. srot_current_state \in Dialogue
        BY <1>2 DEF DialogueFrom, Dialogue, LoadStates, ReadyStates
  <2>2. /\ Asked.low \in Nat /\ Asked.high \in Nat /\ KeyRamSize \in Nat
        /\ Asked.low <= Asked.high /\ Asked.high < KeyRamSize
        /\ current_pointer \in Nat
        /\ Asked' = Asked /\ keyram' = keyram
        BY <2>1, AskedInRam
  <2>3. CASE /\ srot_current_state = "KL_REQ_WAIT_FOR_ACK"
             /\ srot_current_state' = "KL_READ_READY_STATUS"
             /\ UNCHANGED current_pointer
             /\ keyram_stm_addr_i' = current_pointer
        BY <2>2, <2>3 DEF RequestKnown, WordInHand
  <2>4. CASE /\ srot_current_state = "KL_LOAD_KEY_WORD_WAIT_FOR_ACK"
             /\ ~LastWord
             /\ srot_current_state' = "KL_READ_READY_STATUS"
             /\ keyram_stm_addr_i' = current_pointer + 1
             /\ current_pointer' = (current_pointer + 1) % 65536
    <3>1. srot_current_state \in LoadStates BY <2>4 DEF LoadStates
    <3>2. current_pointer' = current_pointer + 1 /\ current_pointer < Asked.high
          BY <2>4, <3>1, NextWordInRam
    <3>3. Asked.low <= current_pointer
          BY <3>1 DEF RequestKnown, WordInHand
    <3> QED BY <2>2, <2>4, <3>2, <3>3
  <2>5. CASE /\ srot_current_state \in LoadStates
             /\ UNCHANGED <<current_pointer, keyram_stm_addr_i>>
    <3>1. /\ keyram_stm_addr_i = current_pointer
          /\ Asked.low <= current_pointer /\ current_pointer <= Asked.high
          BY <2>5 DEF RequestKnown, WordInHand
    <3>2. srot_current_state # "IDLE"
          BY <2>5 DEF LoadStates, ReadyStates
    <3>3. current_pointer < KeyRamSize BY <2>2, <3>1
    <3>4. current_pointer % KeyRamSize = current_pointer
          BY <2>2, <3>3, SmallMod
    <3>5. keyram_rdata_o' = keyram[current_pointer]
          BY <3>1, <3>2, <3>4 DEF RequestStays
    <3> QED BY <2>2, <2>5, <3>1, <3>5
  <2> QED BY <1>2, <2>3, <2>4, <2>5 DEF DialogueFrom
<1> QED BY <1>1, <1>2 DEF WordInHand

\* What the dialogue is about does not change while it lasts.
LEMMA HeaderStays ==
    ASSUME TypeOK, RequestKnown, RequestStays, MessageMoves,
           srot_current_state \in Dialogue, srot_current_state' \in Dialogue
    PROVE  msg_id' = msg_id /\ Header' = Header
<1>1. msg_id' = msg_id
      BY DEF MessageMoves, Dialogue, LoadStates, ReadyStates, RespStates
<1>2. keyindexram_rdata_o' = keyindexram_rdata_o
  <2>1. keyindexram_rdata_o = Asked BY AskedInRam
  <2>2. keyindexram_rdata_o' = Asked BY AskedStays
  <2> QED BY <2>1, <2>2
<1> QED BY <1>1, <1>2 DEF Header, low_pointer, high_pointer

\* What the state machine sends is what RightData says.
LEMMA SentRight ==
    ASSUME NEW d, ~d.err, StmStep(d)
    PROVE  /\ /\ srot_current_state = "KL_REQ_HEADER"
              /\ srot_current_state' = "KL_REQ_WAIT_FOR_ACK"
              => host'.wdata = Header
           /\ /\ srot_current_state = "KL_LOAD_KEY_WORD"
              /\ srot_current_state' = "KL_LOAD_KEY_WORD_WAIT_FOR_ACK"
              => host'.wdata = keyram_rdata_o
<1>1. \A x : Access("SENDRECV", TRUE, x).wdata = x
      BY DEF Access
<1>2. ASSUME srot_current_state = "KL_REQ_HEADER",
             srot_current_state' = "KL_REQ_WAIT_FOR_ACK"
      PROVE  host'.wdata = Header
  <2>1. StmReqHeader BY <1>2, StmBranch
  <2>2. host' = Access("SENDRECV", TRUE, Header)
    <3>1. \/ UNCHANGED srot_current_state
          \/ srot_current_state' = "C2_RESPONSE"
          \/ host' = Access("SENDRECV", TRUE, Header)
          BY <2>1, AccessesMade, Zenon
    <3>2. srot_current_state' # srot_current_state /\ srot_current_state' # "C2_RESPONSE"
          BY <1>2
    <3> QED BY <3>1, <3>2, Zenon
  <2> QED BY <1>1, <2>2, Zenon
<1>3. ASSUME srot_current_state = "KL_LOAD_KEY_WORD",
             srot_current_state' = "KL_LOAD_KEY_WORD_WAIT_FOR_ACK"
      PROVE  host'.wdata = keyram_rdata_o
  <2>1. StmLoadKeyWord BY <1>3, StmBranch
  <2>2. host' = Access("SENDRECV", TRUE, keyram_rdata_o)
    <3>1. \/ UNCHANGED srot_current_state
          \/ host' = Access("SENDRECV", TRUE, keyram_rdata_o)
          BY <2>1, AccessesMade, Zenon
    <3>2. srot_current_state' # srot_current_state
          BY <1>3
    <3> QED BY <3>1, <3>2, Zenon
  <2> QED BY <1>1, <2>2, Zenon
<1> QED BY <1>2, <1>3

LEMMA RightDataStep ==
    ASSUME TypeOK, RequestKnown, NEW d, NEW r, NEW fwd, Edge(d, r, fwd),
           MessageMoves, DialogueFrom(d)
    PROVE  RightData'
<1>1. ~d.err /\ StmStep(d) /\ AccessGoes(d, fwd) /\ RequestStays
      BY DEF Edge
<1>2. \A s : s \in {"KL_REQ_HEADER", "KL_REQ_WAIT_FOR_ACK"} \cup LoadStates =>
                 s \in Dialogue
      BY DEF Dialogue
<1>3. ASSUME srot_current_state' = "KL_REQ_WAIT_FOR_ACK", InFabric'
      PROVE  Pending'.wdata = Header'
  <2>1. CASE srot_current_state = "KL_REQ_HEADER"
    <3>1. Pending' = host'
          BY <1>1, <1>3, <2>1 DEF AccessGoes, WaitStates, WriteStates, StatusStates
    <3>2. host'.wdata = Header
          BY <1>1, <1>3, <2>1, SentRight
    <3>3. Header' = Header
          BY <1>1, <1>2, <1>3, <2>1, HeaderStays
    <3> QED BY <3>1, <3>2, <3>3
  <2>2. CASE srot_current_state = "KL_REQ_WAIT_FOR_ACK" /\ ~d.valid
    <3>1. InFabric /\ Pending' = Pending
          BY <1>1, <1>3, <2>2 DEF AccessGoes, WaitStates, WriteStates
    <3>2. Pending.wdata = Header
          BY <2>2, <3>1 DEF RequestKnown, RightData
    <3>3. Header' = Header
          BY <1>1, <1>2, <1>3, <2>2, HeaderStays
    <3> QED BY <3>1, <3>2, <3>3
  <2> QED BY <1>3, <2>1, <2>2 DEF DialogueFrom
<1>4. ASSUME srot_current_state' = "KL_LOAD_KEY_WORD_WAIT_FOR_ACK", InFabric'
      PROVE  Pending'.wdata = keyram'[current_pointer']
  <2>1. /\ srot_current_state \in {"KL_LOAD_KEY_WORD", "KL_LOAD_KEY_WORD_WAIT_FOR_ACK"}
        /\ srot_current_state \in LoadStates
        /\ UNCHANGED current_pointer
        /\ srot_current_state = "KL_LOAD_KEY_WORD_WAIT_FOR_ACK" => ~d.valid
    <3>1. srot_current_state' \in LoadStates /\ srot_current_state' # "KL_READ_READY_STATUS"
          BY <1>4 DEF LoadStates
    <3>2. /\ srot_current_state \in LoadStates
          /\ UNCHANGED current_pointer
          /\ srot_current_state = "KL_LOAD_KEY_WORD_WAIT_FOR_ACK" => ~d.valid
          /\ srot_current_state \in {"KL_LOAD_KEY_WORD",
                                     "KL_LOAD_KEY_WORD_WAIT_FOR_ACK"}
          BY <1>4, <3>1 DEF DialogueFrom
    <3> QED BY <3>2
  <2>2. keyram' = keyram
        BY <1>1, <1>2, <2>1, AskedInRam
  <2>3. CASE srot_current_state = "KL_LOAD_KEY_WORD"
    <3>1. Pending' = host'
          BY <1>1, <1>4, <2>3 DEF AccessGoes, WaitStates, WriteStates, StatusStates
    <3>2. host'.wdata = keyram_rdata_o
          BY <1>1, <1>4, <2>3, SentRight
    <3>3. keyram_rdata_o = keyram[current_pointer]
          BY <2>1, <2>3 DEF RequestKnown, WordInHand
    <3> QED BY <2>1, <2>2, <3>1, <3>2, <3>3
  <2>4. CASE srot_current_state = "KL_LOAD_KEY_WORD_WAIT_FOR_ACK"
    <3>1. InFabric /\ Pending' = Pending
          BY <1>1, <1>4, <2>1, <2>4 DEF AccessGoes, WaitStates, WriteStates
    <3> QED BY <2>1, <2>2, <2>4, <3>1 DEF RequestKnown, RightData
  <2> QED BY <2>1, <2>3, <2>4
<1> QED BY <1>3, <1>4 DEF RightData

LEMMA RequestKnownStep ==
    ASSUME TypeOK, RequestKnown, NEW d, NEW r, NEW fwd, Edge(d, r, fwd)
    PROVE  RequestKnown' /\ MessageMoves /\ DialogueMoves(d) /\ DialogueFrom(d)
<1>1. ~d.err /\ StmStep(d) /\ RequestStays
      BY DEF Edge
<1>2. StmTypeOK /\ srot_current_state \in SrotState
      BY DEF TypeOK, SrotTypeOK, StmTypeOK
<1>3. MessageMoves BY <1>1, MessageMovesSo
<1>4. DialogueMoves(d) BY <1>1, DialogueMovesSo
<1>5. DialogueFrom(d) BY <1>2, <1>3, <1>4, DialogueFromSo
<1>6. srot_current_state' \in LoadStates =>
               \/ srot_current_state \in LoadStates
               \/ srot_current_state \in Dialogue /\ msg_id = "C2LOADKEYREQ"
      BY <1>5 DEF DialogueFrom, Dialogue, LoadStates
<1>7. MessageInHand' BY <1>1, <1>2, <1>3, <1>6, MessageInHandStep
<1>8. EntryInHand' BY <1>1, <1>3, EntryInHandStep
<1>9. WordInHand' BY <1>1, <1>5, WordInHandStep
<1>10. RightData' BY <1>3, <1>5, RightDataStep
<1> QED BY <1>3, <1>4, <1>5, <1>7, <1>8, <1>9, <1>10 DEF RequestKnown

-----------------------------------------------------------------------------
(* Where the dialogue begins and ends *)

Open == ~Undelivered /\ ~Closed
Begins(r) == Core!SendrecvWrite(r) /\ srot_current_state = "KL_REQ_WAIT_FOR_ACK"
Ends(r) == Core!SendrecvRead(r)

\* The dialogue is open from the clock edge at which the LLKI-PP takes the header
\* to the one at which its answer is read, and all it is sent meanwhile is key
\* words.
Phase(r) ==
    /\ Open' <=> Begins(r) \/ (Open /\ ~Ends(r))
    /\ Begins(r) => ~Open /\ InFabric
    /\ srot_current_state' = "KL_REQ_WAIT_FOR_ACK" /\ CoreWriting' <=> Begins(r)
    /\ Ends(r) => Open /\ srot_current_state = "KL_RESP_READ" /\ InFabric
    /\ Core!SendrecvWrite(r) /\ ~Begins(r) =>
           /\ srot_current_state = "KL_LOAD_KEY_WORD_WAIT_FOR_ACK" /\ InFabric
           /\ Open

LEMMA PhaseSo ==
    ASSUME NEW d, NEW r, NEW fwd, Edge(d, r, fwd), srot_current_state \in SrotState,
           MessageMoves, DialogueMoves(d)
    PROVE  Phase(r)
<1>1. /\ d.valid \in BOOLEAN /\ fwd \in BOOLEAN
      /\ AccessGoes(d, fwd) /\ PortSeen(r, fwd)
      BY DEF Edge
<1> DEFINE s == srot_current_state
           t == srot_current_state'
           w == Core!SendrecvWrite(r)
           q == Core!SendrecvRead(r)
<1>2. /\ w <=> InFabric /\ fwd /\ s \in WriteStates
      /\ q <=> InFabric /\ fwd /\ s = "KL_RESP_READ"
      BY <1>1 DEF PortSeen
<1> HIDE DEF w, q
<1> USE DEF Open, Undelivered, Closed, SrotState, Dialogue, LoadStates, ReadyStates,
        RespStates, WaitStates, WriteStates, StatusStates
<1> DEFINE P == /\ Open' <=> (w /\ s = "KL_REQ_WAIT_FOR_ACK") \/ (Open /\ ~q)
                /\ w /\ s = "KL_REQ_WAIT_FOR_ACK" => ~Open /\ InFabric
                /\ t = "KL_REQ_WAIT_FOR_ACK" /\ CoreWriting' <=>
                       w /\ s = "KL_REQ_WAIT_FOR_ACK"
                /\ q => Open /\ s = "KL_RESP_READ" /\ InFabric
                /\ w /\ s # "KL_REQ_WAIT_FOR_ACK" =>
                       s = "KL_LOAD_KEY_WORD_WAIT_FOR_ACK" /\ InFabric /\ Open
<1> SUFFICES P
    BY DEF w, q, Phase, Begins, Ends
<1>3. CASE s \notin Dialogue
  <2>1. t \notin Dialogue \/ t = "KL_REQ_HEADER"
        BY <1>3 DEF MessageMoves
  <2>2. ~w /\ ~q
        BY <1>1, <1>2, <1>3
  <2> QED BY <1>3, <2>1, <2>2
<1>4. CASE s = "KL_REQ_HEADER"
  <2>1. t \in {"KL_REQ_HEADER", "C2_RESPONSE", "KL_REQ_WAIT_FOR_ACK"}
        BY <1>4 DEF DialogueMoves
  <2>2. ~w /\ ~q BY <1>2, <1>4
  <2>3. ~CoreWriting' /\ (t = "KL_REQ_WAIT_FOR_ACK" => InFabric')
        BY <1>1, <1>4 DEF AccessGoes
  <2> QED BY <1>4, <2>1, <2>2, <2>3
<1>5. CASE s = "KL_REQ_WAIT_FOR_ACK" /\ ~d.valid
  <2>1. t = s BY <1>1, <1>5 DEF AccessGoes
  <2>2. /\ InFabric /\ ~fwd => InFabric'
        /\ InFabric /\ fwd => ~InFabric' /\ CoreWriting'
        /\ ~InFabric => ~InFabric' /\ ~CoreWriting'
        BY <1>1, <1>5 DEF AccessGoes
  <2>3. InFabric' => ~CoreWriting' BY DEF InFabric, CoreIdle, CoreWriting
  <2> QED BY <1>1, <1>2, <1>5, <2>1, <2>2, <2>3
<1>6. CASE s = "KL_REQ_WAIT_FOR_ACK" /\ d.valid
  <2>1. t \in {"KL_READ_READY_STATUS", "KL_READ_RESP_STATUS"}
        BY <1>6 DEF DialogueMoves
  <2>2. ~InFabric BY <1>1, <1>6 DEF AccessGoes
  <2> QED BY <1>2, <1>6, <2>1, <2>2
<1>7. CASE s \in Dialogue \ {"KL_REQ_HEADER", "KL_REQ_WAIT_FOR_ACK", "KL_RESP_READ"}
  <2>1. t \in LoadStates \cup RespStates
        BY <1>7 DEF DialogueMoves, NextReadyState
  <2>2. t = "KL_RESP_READ" => s = "KL_CHECK_RESP_STATUS" /\ d.valid
        BY <1>7 DEF DialogueMoves, NextReadyState
  <2>3. t = "KL_RESP_READ" => InFabric'
        BY <1>1, <2>2 DEF AccessGoes
  <2>4. ~q BY <1>2, <1>7
  <2>5. w => s = "KL_LOAD_KEY_WORD_WAIT_FOR_ACK" /\ InFabric
        BY <1>2, <1>7
  <2> QED BY <1>7, <2>1, <2>3, <2>4, <2>5
<1>8. CASE s = "KL_RESP_READ" /\ ~d.valid
  <2>1. t = s BY <1>1, <1>8 DEF AccessGoes
  <2>2. /\ InFabric /\ ~fwd => InFabric'
        /\ InFabric /\ fwd => ~InFabric'
        /\ ~InFabric => ~InFabric'
        BY <1>1, <1>8 DEF AccessGoes
  <2> QED BY <1>1, <1>2, <1>8, <2>1, <2>2
<1>9. CASE s = "KL_RESP_READ" /\ d.valid
  <2>1. t = "C2_RESPONSE" BY <1>9 DEF DialogueMoves
  <2>2. ~InFabric BY <1>1, <1>9 DEF AccessGoes
  <2> QED BY <1>2, <1>9, <2>1, <2>2
<1> QED BY <1>1, <1>3, <1>4, <1>5, <1>6, <1>7, <1>8, <1>9

-----------------------------------------------------------------------------
(* The LLKI-PP follows *)

\* The branch of the LLKI-PP is that of its state.
LEMMA PpBranch ==
    ASSUME NEW r, Core!PpStep(r)
    PROVE  /\ llkipp_current_state = "IDLE" => Core!PpIdle(r)
           /\ llkipp_current_state = "MESSAGE_CHECK" => Core!PpMessageCheck
           /\ llkipp_current_state = "LOAD_KEY_WORDS" =>
                  \/ Core!PpLoadStay(r) \/ Core!PpLoadNotReady(r)
                  \/ Core!PpLoadTooLong(r) \/ Core!PpLoadWord(r)
           /\ llkipp_current_state = "WAIT_FOR_COMPLETE" => Core!PpWaitForComplete
           /\ llkipp_current_state = "CLEAR_KEY" => Core!PpClearKey
           /\ llkipp_current_state = "RESPONSE" => Core!PpResponse(r)
           /\ llkipp_ctrlstatus_register' =
                  [resp_waiting |-> llkipp_response_waiting,
                   ready_for_key |-> llkid_key_ready]
<1>1. /\ Core!PpIdle(r) => llkipp_current_state = "IDLE"
      /\ Core!PpMessageCheck => llkipp_current_state = "MESSAGE_CHECK"
      BY DEF Core!PpIdle, Core!PpMessageCheck
<1>2. Core!PpLoadStay(r) \/ Core!PpLoadNotReady(r) \/ Core!PpLoadTooLong(r)
        \/ Core!PpLoadWord(r) => llkipp_current_state = "LOAD_KEY_WORDS"
      BY DEF Core!PpLoadStay, Core!PpLoadNotReady, Core!PpLoadTooLong, Core!PpLoadWord,
         Core!PpLoadDefault
<1>3. /\ Core!PpWaitForComplete => llkipp_current_state = "WAIT_FOR_COMPLETE"
      /\ Core!PpClearKey => llkipp_current_state = "CLEAR_KEY"
      /\ Core!PpResponse(r) => llkipp_current_state = "RESPONSE"
      BY DEF Core!PpWaitForComplete, Core!PpClearKey, Core!PpResponse
<1> QED BY <1>1, <1>2, <1>3 DEF Core!PpStep, Core!WriteDecode

\* What the LLKI-PP does in its states, by what it sees on its port.
PpMoves(r) ==
    /\ llkipp_current_state = "IDLE" =>
           /\ ~llkid_key_valid' /\ ~llkid_clear_key' /\ ~llkipp_response_waiting'
           /\ IF Core!SendrecvWrite(r)
              THEN /\ llkipp_current_state' = "MESSAGE_CHECK"
                   /\ pp_msg_id' = r.wdata.id /\ pp_msg_len' = r.wdata.len
              ELSE llkipp_current_state' = "IDLE"
    /\ llkipp_current_state = "MESSAGE_CHECK" =>
           /\ ~llkid_key_valid' /\ ~llkid_clear_key' /\ ~llkipp_response_waiting'
           /\ llkipp_current_state' \in {"LOAD_KEY_WORDS", "CLEAR_KEY", "RESPONSE"}
    /\ llkipp_current_state = "LOAD_KEY_WORDS" =>
           /\ ~llkid_clear_key' /\ ~llkipp_response_waiting'
           /\ ~Core!SendrecvWrite(r) =>
                  /\ ~llkid_key_valid'
                  /\ UNCHANGED <<llkipp_current_state, pp_msg_id, pp_status,
                                 pp_msg_len>>
           /\ Core!SendrecvWrite(r) /\ ~llkid_key_ready =>
                  /\ ~llkid_key_valid' /\ llkipp_current_state' = "RESPONSE"
                  /\ pp_msg_id' = "ERRORRESP"
           /\ Core!SendrecvWrite(r) /\ llkid_key_ready /\ llkid_key_complete =>
                  /\ ~llkid_key_valid' /\ llkipp_current_state' = "CLEAR_KEY"
                  /\ pp_msg_id' = "ERRORRESP" /\ pp_status' = "KL_BAD_KEY_LEN"
           /\ Core!SendrecvWrite(r) /\ llkid_key_ready /\ ~llkid_key_complete =>
                  /\ llkid_key_data' = r.wdata /\ llkid_key_valid'
                  /\ IF pp_msg_len = 2
                     THEN /\ llkipp_current_state' = "WAIT_FOR_COMPLETE"
                          /\ pp_msg_id' = "KLLOADKEYACK" /\ pp_status' = "GOOD"
                     ELSE /\ pp_msg_len' = pp_msg_len - 1
                          /\ UNCHANGED <<llkipp_current_state, pp_msg_id, pp_status>>
    /\ llkipp_current_state = "WAIT_FOR_COMPLETE" =>
           /\ ~llkid_key_valid' /\ ~llkid_clear_key' /\ ~llkipp_response_waiting'
           /\ llkipp_current_state' = IF llkid_key_complete THEN "RESPONSE"
                                                            ELSE "WAIT_FOR_COMPLETE"
           /\ UNCHANGED <<pp_msg_id, pp_status, pp_msg_len>>
    /\ llkipp_current_state = "CLEAR_KEY" =>
           /\ ~llkid_key_valid' /\ ~llkipp_response_waiting'
           /\ IF llkid_clear_key_ack /\ pp_msg_id # "ERRORRESP"
              THEN pp_msg_id' = "KLCLEARKEYACK" /\ pp_status' = "GOOD"
              ELSE UNCHANGED <<pp_msg_id, pp_status>>
           /\ llkipp_current_state' = IF llkid_clear_key_ack THEN "RESPONSE"
                                                             ELSE "CLEAR_KEY"
    /\ llkipp_current_state = "RESPONSE" =>
           /\ ~llkid_key_valid' /\ ~llkid_clear_key' /\ llkipp_response_waiting'
           /\ llkipp_response_word' = Core!HeaderWord(pp_msg_id, pp_status, 1)
           /\ llkipp_current_state' = IF Core!SendrecvRead(r) THEN "IDLE"
                                                             ELSE "RESPONSE"
           /\ UNCHANGED <<pp_msg_id, pp_status>>
    /\ llkipp_ctrlstatus_register'.resp_waiting = llkipp_response_waiting
    /\ llkipp_ctrlstatus_register'.ready_for_key = llkid_key_ready

LEMMA PpMovesIs ==
    ASSUME NEW r, Core!PpStep(r), llkipp_response_waiting \in BOOLEAN,
           llkid_key_ready \in BOOLEAN
    PROVE  PpMoves(r)
<1> DEFINE w == Core!SendrecvWrite(r)
           q == Core!SendrecvRead(r)
<1> HIDE DEF w, q
<1> USE DEF Core!Quiet, Core!NoClear, Core!NotWaiting, Core!ppMessage, Core!Reject,
        Core!PpLoadDefault
<1>1. llkipp_current_state = "IDLE" =>
           /\ ~llkid_key_valid' /\ ~llkid_clear_key' /\ ~llkipp_response_waiting'
           /\ IF w
              THEN /\ llkipp_current_state' = "MESSAGE_CHECK"
                   /\ pp_msg_id' = r.wdata.id /\ pp_msg_len' = r.wdata.len
              ELSE llkipp_current_state' = "IDLE"
      BY PpBranch DEF Core!PpIdle, w
<1>2. llkipp_current_state = "MESSAGE_CHECK" =>
           /\ ~llkid_key_valid' /\ ~llkid_clear_key' /\ ~llkipp_response_waiting'
           /\ llkipp_current_state' \in {"LOAD_KEY_WORDS", "CLEAR_KEY", "RESPONSE"}
      BY PpBranch DEF Core!PpMessageCheck, Core!CheckLoadKey, Core!CheckClearKey,
         Core!CheckKeyStatus, Core!CheckBadId
<1>3. ASSUME llkipp_current_state = "LOAD_KEY_WORDS"
      PROVE
           /\ ~llkid_clear_key' /\ ~llkipp_response_waiting'
           /\ ~w => /\ ~llkid_key_valid'
                    /\ UNCHANGED <<llkipp_current_state, pp_msg_id, pp_status,
                                   pp_msg_len>>
           /\ w /\ ~llkid_key_ready =>
                  /\ ~llkid_key_valid' /\ llkipp_current_state' = "RESPONSE"
                  /\ pp_msg_id' = "ERRORRESP"
           /\ w /\ llkid_key_ready /\ llkid_key_complete =>
                  /\ ~llkid_key_valid' /\ llkipp_current_state' = "CLEAR_KEY"
                  /\ pp_msg_id' = "ERRORRESP" /\ pp_status' = "KL_BAD_KEY_LEN"
           /\ w /\ llkid_key_ready /\ ~llkid_key_complete =>
                  /\ llkid_key_data' = r.wdata /\ llkid_key_valid'
                  /\ IF pp_msg_len = 2
                     THEN /\ llkipp_current_state' = "WAIT_FOR_COMPLETE"
                          /\ pp_msg_id' = "KLLOADKEYACK" /\ pp_status' = "GOOD"
                     ELSE /\ pp_msg_len' = pp_msg_len - 1
                          /\ UNCHANGED <<llkipp_current_state, pp_msg_id, pp_status>>
  <2>1. CASE Core!PpLoadStay(r)
        BY <1>3, <2>1 DEF Core!PpLoadStay, w
  <2>2. CASE Core!PpLoadNotReady(r)
        BY <1>3, <2>2 DEF Core!PpLoadNotReady, w
  <2>3. CASE Core!PpLoadTooLong(r)
        BY <1>3, <2>3 DEF Core!PpLoadTooLong, w
  <2>4. CASE Core!PpLoadWord(r)
        BY <1>3, <2>4 DEF Core!PpLoadWord, w
  <2> QED BY <1>3, <2>1, <2>2, <2>3, <2>4, PpBranch
<1>4. llkipp_current_state = "WAIT_FOR_COMPLETE" =>
           /\ ~llkid_key_valid' /\ ~llkid_clear_key' /\ ~llkipp_response_waiting'
           /\ llkipp_current_state' = IF llkid_key_complete THEN "RESPONSE"
                                                            ELSE "WAIT_FOR_COMPLETE"
           /\ UNCHANGED <<pp_msg_id, pp_status, pp_msg_len>>
      BY PpBranch DEF Core!PpWaitForComplete
<1>5. llkipp_current_state = "CLEAR_KEY" =>
           /\ ~llkid_key_valid' /\ ~llkipp_response_waiting'
           /\ IF llkid_clear_key_ack /\ pp_msg_id # "ERRORRESP"
              THEN pp_msg_id' = "KLCLEARKEYACK" /\ pp_status' = "GOOD"
              ELSE UNCHANGED <<pp_msg_id, pp_status>>
           /\ llkipp_current_state' = IF llkid_clear_key_ack THEN "RESPONSE"
                                                             ELSE "CLEAR_KEY"
      BY PpBranch DEF Core!PpClearKey
<1>6. llkipp_current_state = "RESPONSE" =>
           /\ ~llkid_key_valid' /\ ~llkid_clear_key' /\ llkipp_response_waiting'
           /\ llkipp_response_word' = Core!HeaderWord(pp_msg_id, pp_status, 1)
           /\ llkipp_current_state' = IF q THEN "IDLE" ELSE "RESPONSE"
           /\ UNCHANGED <<pp_msg_id, pp_status>>
      BY PpBranch DEF Core!PpResponse, q
<1>7. /\ llkipp_ctrlstatus_register'.resp_waiting = llkipp_response_waiting
      /\ llkipp_ctrlstatus_register'.ready_for_key = llkid_key_ready
      BY PpBranch
<1> QED BY <1>1, <1>2, <1>3, <1>4, <1>5, <1>6, <1>7, Zenon DEF PpMoves, w, q

\* The header announces the key words and itself.
LEMMA HeaderCounts ==
    ASSUME TypeOK, RequestKnown, RequestStays, srot_current_state \in Dialogue
    PROVE  /\ msg_id \in C2Request
           /\ msg_id = "C2LOADKEYREQ" =>
                  /\ Header.id = "KLLOADKEYREQ"
                  /\ Header.len = (Asked.high - Asked.low) + 2
           /\ msg_id = "C2CLEARKEYREQ" =>
                  Header.id = "KLCLEARKEYREQ" /\ Header.len = 1
           /\ msg_id = "C2KEYSTATUSREQ" =>
                  Header.id = "KLKEYSTATUSREQ" /\ Header.len = 1
<1>1. /\ Asked.low \in Nat /\ Asked.high \in Nat /\ KeyRamSize \in Nat
      /\ Asked.low <= Asked.high /\ Asked.high < KeyRamSize
      /\ keyindexram_rdata_o = Asked
      BY AskedInRam
<1>2. KeyRamSize <= 65534 BY SrotAssumption
<1>3. ((high_pointer - low_pointer) + 2) % 65536 = (Asked.high - Asked.low) + 2
  <2>1. high_pointer = Asked.high /\ low_pointer = Asked.low
        BY <1>1 DEF high_pointer, low_pointer
  <2> DEFINE n == (Asked.high - Asked.low) + 2
  <2>2. n \in Nat /\ n < 65536
        BY <1>1, <1>2
  <2>3. \A x \in Nat : x < 65536 => x % 65536 = x
        OBVIOUS
  <2>4. n % 65536 = n
    <3> HIDE DEF n
    <3> QED BY <2>2, <2>3
  <2> QED BY <2>1, <2>4
<1>4. msg_id \in C2Request BY DEF RequestKnown, MessageInHand
<1> QED BY <1>3, <1>4 DEF Header, HeaderWord

\* What comes of it.
LEMMA Checked ==
    ASSUME TypeOK, RequestKnown, RequestStays, PpIdleKnown,
           NEW r, Core!PpStep(r), llkipp_current_state = "MESSAGE_CHECK"
    PROVE  /\ srot_current_state = "KL_REQ_WAIT_FOR_ACK" /\ CoreWriting
           /\ srot_current_state \in Dialogue /\ msg_id \in C2Request
           /\ msg_id = "C2LOADKEYREQ" /\ llkid_key_complete =>
                  /\ llkipp_current_state' = "RESPONSE"
                  /\ pp_msg_id' = "ERRORRESP" /\ pp_status' = "KL_KEY_OVERWRITE"
           /\ msg_id = "C2LOADKEYREQ" /\ ~llkid_key_complete =>
                  /\ llkipp_current_state' = "LOAD_KEY_WORDS"
                  /\ pp_msg_id' = "KLLOADKEYREQ"
                  /\ pp_msg_len' = (Asked.high - Asked.low) + 2
           /\ msg_id = "C2CLEARKEYREQ" =>
                  /\ llkipp_current_state' = "CLEAR_KEY"
                  /\ pp_msg_id' = "KLCLEARKEYREQ"
           /\ msg_id = "C2KEYSTATUSREQ" =>
                  /\ llkipp_current_state' = "RESPONSE"
                  /\ pp_msg_id' = "KLKEYSTATUSRESP"
                  /\ pp_status' = IF llkid_key_complete THEN "KEY_PRESENT"
                                                        ELSE "KEY_NOT_PRESENT"
<1>1. /\ srot_current_state = "KL_REQ_WAIT_FOR_ACK" /\ CoreWriting
      /\ pp_msg_id = Header.id /\ pp_msg_len = Header.len
      BY DEF PpIdleKnown
<1>2. srot_current_state \in Dialogue BY <1>1 DEF Dialogue
<1>3. Core!PpMessageCheck BY PpBranch
<1>4. msg_id \in C2Request BY <1>2, HeaderCounts
<1>5. Asked.low \in Nat /\ Asked.high \in Nat /\ Asked.low <= Asked.high
      BY <1>2, AskedInRam
<1> USE DEF Core!PpMessageCheck, Core!CheckLoadKey, Core!CheckClearKey,
         Core!CheckKeyStatus, Core!CheckBadId, Core!Reject, Core!KLRequest
<1>6. msg_id = "C2LOADKEYREQ" /\ llkid_key_complete =>
          /\ llkipp_current_state' = "RESPONSE"
          /\ pp_msg_id' = "ERRORRESP" /\ pp_status' = "KL_KEY_OVERWRITE"
  <2>1. msg_id = "C2LOADKEYREQ" =>
            pp_msg_id = "KLLOADKEYREQ" /\ ~(pp_msg_len <= 1)
        BY <1>1, <1>2, <1>5, HeaderCounts
  <2> QED BY <1>3, <2>1
<1>7. msg_id = "C2LOADKEYREQ" /\ ~llkid_key_complete =>
          /\ llkipp_current_state' = "LOAD_KEY_WORDS"
          /\ pp_msg_id' = "KLLOADKEYREQ"
          /\ pp_msg_len' = (Asked.high - Asked.low) + 2
  <2>1. msg_id = "C2LOADKEYREQ" =>
            /\ pp_msg_id = "KLLOADKEYREQ" /\ ~(pp_msg_len <= 1)
            /\ pp_msg_len = (Asked.high - Asked.low) + 2
        BY <1>1, <1>2, <1>5, HeaderCounts
  <2> QED BY <1>3, <2>1
<1>8. msg_id = "C2CLEARKEYREQ" =>
          llkipp_current_state' = "CLEAR_KEY" /\ pp_msg_id' = "KLCLEARKEYREQ"
  <2>1. msg_id = "C2CLEARKEYREQ" => pp_msg_id = "KLCLEARKEYREQ" /\ pp_msg_len = 1
        BY <1>1, <1>2, HeaderCounts
  <2> QED BY <1>3, <2>1
<1>9. msg_id = "C2KEYSTATUSREQ" =>
          /\ llkipp_current_state' = "RESPONSE"
          /\ pp_msg_id' = "KLKEYSTATUSRESP"
          /\ pp_status' = IF llkid_key_complete THEN "KEY_PRESENT"
                                                ELSE "KEY_NOT_PRESENT"
  <2>1. msg_id = "C2KEYSTATUSREQ" => pp_msg_id = "KLKEYSTATUSREQ" /\ pp_msg_len = 1
        BY <1>1, <1>2, HeaderCounts
  <2> QED BY <1>3, <2>1
<1> QED BY <1>1, <1>2, <1>4, <1>6, <1>7, <1>8, <1>9

\* What a clock edge does to the dialogue: one name for all that is known of it.
Moves(d, r, fwd) ==
    /\ Edge(d, r, fwd) /\ MessageMoves /\ DialogueMoves(d) /\ DialogueFrom(d)
    /\ Phase(r) /\ PpMoves(r)

LEMMA MovesSo ==
    ASSUME TypeOK, RequestKnown, NEW d, NEW r, NEW fwd, Edge(d, r, fwd)
    PROVE  Moves(d, r, fwd) /\ RequestKnown'
<1>1. RequestKnown' /\ MessageMoves /\ DialogueMoves(d) /\ DialogueFrom(d)
      BY RequestKnownStep
<1>2. srot_current_state \in SrotState
      BY DEF TypeOK, SrotTypeOK, StmTypeOK
<1>3. Phase(r) BY <1>1, <1>2, PhaseSo
<1>4. llkipp_response_waiting \in BOOLEAN
      BY DEF TypeOK, Core!TypeOK, Core!PpTypeOK
<1>5. llkid_key_ready \in BOOLEAN
      BY DEF TypeOK, Core!TypeOK, Core!TssTypeOK
<1>6. PpMoves(r)
      BY <1>4, <1>5, PpMovesIs DEF Edge
<1> QED BY <1>1, <1>3, <1>6 DEF Moves

LEMMA PpIdleKnownStep ==
    ASSUME TypeOK, RequestKnown, PpIdleKnown, WaitingKnown,
           NEW d, NEW r, NEW fwd, Moves(d, r, fwd)
    PROVE  PpIdleKnown'
<1>1. Phase(r) /\ PpMoves(r) /\ PortSeen(r, fwd) /\ MessageMoves /\ RequestStays
      BY DEF Moves, Edge
<1>2. llkipp_current_state = "IDLE" <=> ~Open
      BY DEF PpIdleKnown, Open
<1>3. Ends(r) => llkipp_current_state = "RESPONSE"
      BY <1>1, <1>2 DEF Phase, WaitingKnown, Open
<1>4. llkipp_current_state \in {"IDLE", "MESSAGE_CHECK", "LOAD_KEY_WORDS",
                                "WAIT_FOR_COMPLETE", "CLEAR_KEY", "RESPONSE"}
      BY DEF TypeOK, Core!TypeOK, Core!PpTypeOK, Core!PpState
<1>5. Begins(r) => llkipp_current_state = "IDLE"
      BY <1>1, <1>2 DEF Phase
<1>6. llkipp_current_state' = "MESSAGE_CHECK" <=> Begins(r)
  <2>1. llkipp_current_state = "IDLE" => (Core!SendrecvWrite(r) <=> Begins(r))
        BY <1>1, <1>2 DEF Phase, Begins
  <2>2. llkipp_current_state = "IDLE" =>
            llkipp_current_state' = IF Core!SendrecvWrite(r) THEN "MESSAGE_CHECK"
                                                             ELSE "IDLE"
        BY <1>1 DEF PpMoves
  <2>3. llkipp_current_state # "IDLE" => llkipp_current_state' # "MESSAGE_CHECK"
        BY <1>1, <1>4 DEF PpMoves
  <2> QED BY <1>5, <2>1, <2>2, <2>3
<1>7. llkipp_current_state' = "IDLE" <=>
          \/ llkipp_current_state = "IDLE" /\ ~Begins(r)
          \/ llkipp_current_state = "RESPONSE" /\ Ends(r)
  <2>1. llkipp_current_state = "IDLE" =>
            llkipp_current_state' \in {"IDLE", "MESSAGE_CHECK"}
        BY <1>1 DEF PpMoves
  <2>2. llkipp_current_state = "RESPONSE" =>
            llkipp_current_state' = IF Ends(r) THEN "IDLE" ELSE "RESPONSE"
        BY <1>1 DEF PpMoves, Ends
  <2>3. llkipp_current_state \notin {"IDLE", "RESPONSE"} =>
            llkipp_current_state' # "IDLE"
        BY <1>1, <1>4 DEF PpMoves
  <2> QED BY <1>6, <2>1, <2>2, <2>3
<1>8. llkipp_current_state' = "IDLE" <=> ~Open'
      BY <1>1, <1>2, <1>3, <1>5, <1>7 DEF Phase
<1>9. ASSUME Begins(r)
      PROVE  pp_msg_id' = Header'.id /\ pp_msg_len' = Header'.len
  <2>1. pp_msg_id' = r.wdata.id /\ pp_msg_len' = r.wdata.len
        BY <1>1, <1>5, <1>9 DEF PpMoves, Begins
  <2>2. r.wdata = Pending.wdata
        BY <1>1, <1>9 DEF PortSeen, Begins
  <2>3. /\ srot_current_state = "KL_REQ_WAIT_FOR_ACK" /\ InFabric
        /\ srot_current_state' = "KL_REQ_WAIT_FOR_ACK"
        BY <1>1, <1>9 DEF Phase, Begins
  <2>4. Pending.wdata = Header
        BY <2>3 DEF RequestKnown, RightData
  <2>5. Header' = Header
        BY <1>1, <2>3, HeaderStays DEF Dialogue
  <2> QED BY <2>1, <2>2, <2>4, <2>5
<1>10. srot_current_state' = "KL_REQ_WAIT_FOR_ACK" /\ CoreWriting' <=> Begins(r)
      BY <1>1 DEF Phase
<1> QED BY <1>6, <1>8, <1>9, <1>10 DEF PpIdleKnown, Open

\* What LlkiTarget_proofs knows of the core, as far as it is needed here.
CoreKnown ==
    /\ llkipp_current_state = "LOAD_KEY_WORDS" => pp_msg_len >= 2
    /\ llkid_key_valid =>
           /\ llkipp_current_state \in {"LOAD_KEY_WORDS", "WAIT_FOR_COMPLETE"}
           /\ tss_state \in {"IDLE", "WAIT_FOR_NEXT_KEY_WORD"}
           /\ ~llkid_key_complete
    /\ llkid_key_ready =>
           tss_state \in {"IDLE", "WAIT_FOR_NEXT_KEY_WORD", "CLEAR_KEY"}
    /\ llkid_key_complete => tss_state = "IDLE"
    /\ llkid_clear_key =>
           \/ llkipp_current_state = "CLEAR_KEY"
           \/ llkipp_current_state = "RESPONSE" /\ tss_state = "IDLE"
    /\ tss_state \in {"CLEAR_KEY", "WAIT_STATE1"} =>
           llkipp_current_state = "CLEAR_KEY" /\ llkid_clear_key
    /\ llkid_clear_key_ack =>
           /\ tss_state = "IDLE"
           /\ ~llkid_key_complete /\ llkid_key_register = Core!NoKey
    /\ llkipp_current_state = "WAIT_FOR_COMPLETE" =>
           pp_msg_id = "KLLOADKEYACK" /\ pp_status = "GOOD"
    /\ llkipp_current_state = "CLEAR_KEY" =>
           \/ pp_msg_id = "KLCLEARKEYREQ"
           \/ pp_msg_id = "ERRORRESP" /\ pp_status = "KL_BAD_KEY_LEN"
    /\ llkipp_current_state = "RESPONSE" =>
           /\ pp_msg_id = "KLLOADKEYACK" =>
                  /\ llkid_key_complete /\ ~llkid_clear_key
                  /\ pp_status = "GOOD"
           /\ (pp_msg_id = "KLCLEARKEYACK" \/ pp_status = "KL_BAD_KEY_LEN") =>
                  /\ ~llkid_key_complete /\ llkid_key_register = Core!NoKey
                  /\ tss_state = "IDLE"

LEMMA CoreKnownSo == Target!IInv => CoreKnown
<1> SUFFICES ASSUME Target!IInv PROVE CoreKnown
    OBVIOUS
<1>1. Target!NoKey = Core!NoKey
      BY SamePackage DEF Target!NoKey, Core!NoKey, Target!KeyIndex, Core!KeyIndex
<1>2. llkipp_current_state = "LOAD_KEY_WORDS" => pp_msg_len >= 2
      BY DEF Target!IInv, Target!TInv, Target!CountsDown
<1>3. Target!WordOnWires /\ Target!ClearOnWires
      BY DEF Target!IInv
<1>4. Target!MessageKnown /\ Target!AckStaysTrue
      BY DEF Target!IInv
<1>5. /\ llkid_key_valid =>
             /\ llkipp_current_state \in {"LOAD_KEY_WORDS", "WAIT_FOR_COMPLETE"}
             /\ tss_state \in {"IDLE", "WAIT_FOR_NEXT_KEY_WORD"}
             /\ ~llkid_key_complete
      /\ llkid_key_ready =>
             tss_state \in {"IDLE", "WAIT_FOR_NEXT_KEY_WORD", "CLEAR_KEY"}
      /\ llkid_key_complete => tss_state = "IDLE"
      BY <1>3 DEF Target!WordOnWires
<1>6. /\ llkid_clear_key =>
             \/ llkipp_current_state = "CLEAR_KEY"
             \/ llkipp_current_state = "RESPONSE" /\ tss_state = "IDLE"
      /\ tss_state \in {"CLEAR_KEY", "WAIT_STATE1"} =>
             llkipp_current_state = "CLEAR_KEY" /\ llkid_clear_key
      /\ llkid_clear_key_ack =>
             /\ tss_state = "IDLE"
             /\ ~llkid_key_complete /\ llkid_key_register = Core!NoKey
      BY <1>1, <1>3 DEF Target!ClearOnWires
<1>7. /\ llkipp_current_state = "WAIT_FOR_COMPLETE" =>
             pp_msg_id = "KLLOADKEYACK" /\ pp_status = "GOOD"
      /\ llkipp_current_state = "CLEAR_KEY" =>
             \/ pp_msg_id = "KLCLEARKEYREQ"
             \/ pp_msg_id = "ERRORRESP" /\ pp_status = "KL_BAD_KEY_LEN"
      BY <1>4 DEF Target!MessageKnown
<1>8. llkipp_current_state = "RESPONSE" =>
             /\ pp_msg_id = "KLLOADKEYACK" =>
                    /\ llkid_key_complete /\ ~llkid_clear_key
                    /\ pp_status = "GOOD"
             /\ (pp_msg_id = "KLCLEARKEYACK" \/ pp_status = "KL_BAD_KEY_LEN") =>
                    /\ ~llkid_key_complete /\ llkid_key_register = Core!NoKey
                    /\ tss_state = "IDLE"
      BY <1>1, <1>4 DEF Target!AckStaysTrue
<1> QED BY <1>2, <1>5, <1>6, <1>7, <1>8 DEF CoreKnown

\* The states of the LLKI-PP and of the TSS.
LEMMA CoreStates ==
    ASSUME TypeOK
    PROVE  /\ llkipp_current_state \in Core!PpState /\ tss_state \in Core!TssState
           /\ pp_msg_len \in Nat
           /\ llkid_key_valid \in BOOLEAN /\ llkid_key_complete \in BOOLEAN
           /\ llkid_key_ready \in BOOLEAN /\ llkid_clear_key \in BOOLEAN
           /\ llkid_clear_key_ack \in BOOLEAN
<1>1. /\ llkipp_current_state \in Core!PpState /\ pp_msg_len \in MsgLen
      /\ llkid_key_valid \in BOOLEAN /\ llkid_clear_key \in BOOLEAN
      BY SamePackage DEF TypeOK, Core!TypeOK, Core!PpTypeOK
<1>2. /\ tss_state \in Core!TssState
      /\ llkid_key_complete \in BOOLEAN /\ llkid_key_ready \in BOOLEAN
      /\ llkid_clear_key_ack \in BOOLEAN
      BY DEF TypeOK, Core!TypeOK, Core!TssTypeOK
<1> QED BY <1>1, <1>2, Ranges

\* While it is open the dialogue is about one request.
LEMMA OpenStays ==
    ASSUME TypeOK, RequestKnown, MessageMoves, RequestStays, Open, Open'
    PROVE  /\ srot_current_state \in Dialogue /\ srot_current_state' \in Dialogue
           /\ srot_current_state # "KL_REQ_HEADER"
           /\ msg_id' = msg_id /\ sw_request' = sw_request /\ Asked' = Asked
           /\ keyram' = keyram /\ keyindexram' = keyindexram
           /\ sw_request # None
<1>1. /\ srot_current_state \in Dialogue /\ srot_current_state' \in Dialogue
      /\ srot_current_state # "KL_REQ_HEADER"
      BY DEF Open, Undelivered
<1>2. srot_current_state # "IDLE"
      BY <1>1 DEF Dialogue, LoadStates, ReadyStates, RespStates
<1>3. sw_request # None /\ keyindexram' = keyindexram
      BY <1>2 DEF RequestStays
<1> QED BY <1>1, <1>3, AskedInRam, HeaderStays

\* A key word reaches the LLKI-PP.
LEMMA WordWrite ==
    ASSUME TypeOK, RequestKnown, NEW d, NEW r, NEW fwd, Moves(d, r, fwd),
           Core!SendrecvWrite(r), Open
    PROVE  /\ srot_current_state = "KL_LOAD_KEY_WORD_WAIT_FOR_ACK" /\ InFabric
           /\ srot_current_state' = srot_current_state /\ ~InFabric' /\ CoreWriting'
           /\ current_pointer' = current_pointer
           /\ r.wdata = keyram[current_pointer]
<1>1. Phase(r) /\ PortSeen(r, fwd) /\ AccessGoes(d, fwd) /\ DialogueMoves(d)
      BY DEF Moves, Edge
<1>2. srot_current_state = "KL_LOAD_KEY_WORD_WAIT_FOR_ACK" /\ InFabric
      BY <1>1 DEF Phase
<1>3. fwd /\ r.wdata = Pending.wdata
      BY <1>1 DEF PortSeen
<1>4. ~d.valid
      BY <1>1, <1>2 DEF AccessGoes
<1>5. srot_current_state' = srot_current_state /\ ~InFabric' /\ CoreWriting'
      BY <1>1, <1>2, <1>3, <1>4 DEF AccessGoes, WaitStates, WriteStates
<1>6. current_pointer' = current_pointer
      BY <1>1, <1>2, <1>4 DEF DialogueMoves
<1> QED BY <1>2, <1>3, <1>5, <1>6 DEF RequestKnown, RightData

\* While the LLKI-PP expects key words the state machine sends them.
LEMMA LoadGoes ==
    ASSUME TypeOK, RequestKnown, PpKnown, WaitingKnown, CoreKnown,
           NEW d, NEW r, NEW fwd, Moves(d, r, fwd),
           llkipp_current_state = "LOAD_KEY_WORDS"
    PROVE  /\ srot_current_state \in {"KL_REQ_WAIT_FOR_ACK"} \cup LoadStates
           /\ srot_current_state' \in {"KL_REQ_WAIT_FOR_ACK"} \cup LoadStates
           /\ Open /\ Open'
           /\ msg_id = "C2LOADKEYREQ"
<1>1. /\ Phase(r) /\ DialogueMoves(d) /\ DialogueFrom(d) /\ AccessGoes(d, fwd)
      /\ MessageMoves /\ RequestStays /\ d.rdata = rdata
      BY DEF Moves, Edge
<1>2. Open BY DEF PpKnown, PpIdleKnown, Open
<1>3. ~Ends(r)
      BY <1>1, <1>2 DEF Phase, WaitingKnown, Open
<1>4. Open' BY <1>1, <1>2, <1>3 DEF Phase
<1>5. msg_id = "C2LOADKEYREQ" /\ srot_current_state \notin RespStates
      BY DEF PpKnown, PpLoadKnown
<1>6. /\ srot_current_state \in Dialogue /\ srot_current_state' \in Dialogue
      /\ srot_current_state # "KL_REQ_HEADER"
      /\ srot_current_state' # "KL_REQ_HEADER"
      BY <1>2, <1>4 DEF Open, Undelivered
<1>7. srot_current_state \in {"KL_REQ_WAIT_FOR_ACK"} \cup LoadStates
      BY <1>5, <1>6 DEF Dialogue
<1>8. srot_current_state' \notin RespStates
  <2> SUFFICES ASSUME srot_current_state' \in RespStates PROVE FALSE
      OBVIOUS
  <2>1. CASE srot_current_state = "KL_LOAD_KEY_WORD_WAIT_FOR_ACK" /\ d.valid /\ LastWord
    <3>1. ~InFabric BY <1>1, <2>1 DEF AccessGoes
    <3>2. Sent BY <2>1, <3>1 DEF Sent
    <3>3. pp_msg_len = (Asked.high - current_pointer) + 1
          BY <3>2 DEF PpKnown, PpLoadKnown
    <3>4. /\ Asked.high \in Nat /\ keyindexram_rdata_o = Asked
          BY <1>1, <1>6, AskedInRam
    <3>5. current_pointer = Asked.high
          BY <2>1, <3>4 DEF LastWord, high_pointer
    <3>6. pp_msg_len = 1 BY <3>3, <3>4, <3>5
    <3> QED BY <3>6 DEF CoreKnown
  <2>2. CASE srot_current_state = "KL_CHECK_READY_STATUS" /\ d.valid /\ d.rdata.resp_waiting
    <3>1. ~InFabric BY <1>1, <2>2 DEF AccessGoes
    <3>2. llkipp_response_waiting
          BY <1>1, <2>2, <3>1 DEF WaitingKnown, StatusStates
    <3> QED BY <1>2, <3>2 DEF WaitingKnown, Open
  <2> QED BY <1>1, <1>5, <2>1, <2>2 DEF DialogueFrom
<1>9. srot_current_state' \in {"KL_REQ_WAIT_FOR_ACK"} \cup LoadStates
      BY <1>6, <1>8 DEF Dialogue
<1> QED BY <1>2, <1>4, <1>5, <1>7, <1>9

\* The LLKI-PP goes on expecting as many key words as are still to be sent.
LEMMA LoadStays ==
    ASSUME TypeOK, RequestKnown, PpKnown, WaitingKnown, CoreKnown,
           NEW d, NEW r, NEW fwd, Moves(d, r, fwd),
           llkipp_current_state = "LOAD_KEY_WORDS",
           llkipp_current_state' = "LOAD_KEY_WORDS"
    PROVE  /\ pp_msg_id' = "KLLOADKEYREQ"
           /\ pp_msg_len' = IF Sent' THEN (Asked'.high - current_pointer') + 1
                                     ELSE (Asked'.high - current_pointer') + 2
<1>1. /\ DialogueFrom(d) /\ DialogueMoves(d) /\ AccessGoes(d, fwd) /\ PortSeen(r, fwd)
      /\ MessageMoves /\ RequestStays /\ PpMoves(r) /\ d.valid \in BOOLEAN
      /\ fwd \in BOOLEAN
      BY DEF Moves, Edge
<1>2. /\ srot_current_state \in {"KL_REQ_WAIT_FOR_ACK"} \cup LoadStates
      /\ srot_current_state' \in {"KL_REQ_WAIT_FOR_ACK"} \cup LoadStates
      /\ Open /\ Open' /\ srot_current_state \in Dialogue
      BY LoadGoes DEF Dialogue
<1>3. /\ Asked' = Asked /\ Asked.high \in Nat /\ current_pointer \in Nat
      /\ keyindexram_rdata_o = Asked
      BY <1>1, <1>2, AskedInRam
<1>4. /\ pp_msg_id = "KLLOADKEYREQ"
      /\ pp_msg_len = IF Sent THEN (Asked.high - current_pointer) + 1
                              ELSE (Asked.high - current_pointer) + 2
      BY DEF PpKnown, PpLoadKnown
<1>5. CASE Core!SendrecvWrite(r)
  <2>1. /\ srot_current_state = "KL_LOAD_KEY_WORD_WAIT_FOR_ACK" /\ InFabric
        /\ srot_current_state' = srot_current_state /\ ~InFabric'
        /\ current_pointer' = current_pointer
        BY <1>2, <1>5, WordWrite
  <2>2. ~Sent /\ Sent' BY <2>1 DEF Sent
  <2>3. pp_msg_id' = pp_msg_id /\ pp_msg_len' = pp_msg_len - 1
    <3>1. llkid_key_ready \in BOOLEAN /\ llkid_key_complete \in BOOLEAN
          BY CoreStates
    <3> QED BY <1>1, <1>5, <3>1 DEF PpMoves
  <2> QED BY <1>3, <1>4, <2>1, <2>2, <2>3
<1>6. CASE ~Core!SendrecvWrite(r)
  <2>1. pp_msg_id' = pp_msg_id /\ pp_msg_len' = pp_msg_len
        BY <1>1, <1>6 DEF PpMoves
  <2>2. CASE srot_current_state = "KL_REQ_WAIT_FOR_ACK"
    <3>1. /\ srot_current_state' \in {"KL_REQ_WAIT_FOR_ACK", "KL_READ_READY_STATUS"}
          /\ current_pointer' = current_pointer
          BY <1>1, <1>2, <2>2 DEF DialogueMoves, LoadStates, ReadyStates
    <3>2. ~Sent /\ ~Sent' BY <2>2, <3>1 DEF Sent
    <3> QED BY <1>3, <1>4, <2>1, <3>1, <3>2
  <2>3. CASE srot_current_state \in LoadStates \ {"KL_LOAD_KEY_WORD_WAIT_FOR_ACK"}
    <3>1. current_pointer' = current_pointer
          BY <1>1, <2>3 DEF DialogueMoves
    <3>2. ASSUME srot_current_state' = "KL_LOAD_KEY_WORD_WAIT_FOR_ACK"
          PROVE  InFabric'
      <4>1. srot_current_state = "KL_LOAD_KEY_WORD"
            BY <1>1, <1>2, <2>3, <3>2 DEF DialogueFrom, LoadStates
      <4> QED BY <1>1, <3>2, <4>1 DEF AccessGoes, WaitStates, WriteStates, StatusStates
    <3>3. ~Sent /\ ~Sent' BY <2>3, <3>2 DEF Sent
    <3> QED BY <1>3, <1>4, <2>1, <3>1, <3>3
  <2>4. CASE srot_current_state = "KL_LOAD_KEY_WORD_WAIT_FOR_ACK" /\ ~d.valid
    <3>1. /\ srot_current_state' = srot_current_state
          /\ current_pointer' = current_pointer
          BY <1>1, <2>4 DEF DialogueMoves
    <3>2. InFabric <=> InFabric'
      <4>1. InFabric => ~fwd
            BY <1>1, <1>6, <2>4 DEF PortSeen, WriteStates
      <4> QED BY <1>1, <2>4, <4>1 DEF AccessGoes, WaitStates, WriteStates
    <3>3. Sent <=> Sent' BY <2>4, <3>1, <3>2 DEF Sent
    <3> QED BY <1>3, <1>4, <2>1, <3>1, <3>3
  <2>5. CASE srot_current_state = "KL_LOAD_KEY_WORD_WAIT_FOR_ACK" /\ d.valid
    <3>1. Sent BY <1>1, <2>5 DEF AccessGoes, Sent
    <3>2. ~LastWord /\ srot_current_state' = "KL_READ_READY_STATUS"
          /\ current_pointer' = (current_pointer + 1) % 65536
          BY <1>1, <1>2, <2>5 DEF DialogueMoves, LoadStates, ReadyStates
    <3>3. current_pointer' = current_pointer + 1
          BY <1>1, <2>5, <3>2, NextWordInRam DEF LoadStates
    <3>4. ~Sent' BY <3>2 DEF Sent
    <3> QED BY <1>3, <1>4, <2>1, <3>1, <3>3, <3>4
  <2> QED BY <1>1, <1>2, <2>2, <2>3, <2>4, <2>5
<1> QED BY <1>5, <1>6

\* What the LLKI-PP may have done to get to where it is.
LEMMA PpFrom ==
    ASSUME TypeOK, NEW r, PpMoves(r)
    PROVE  /\ llkipp_current_state' = "LOAD_KEY_WORDS" =>
                  llkipp_current_state \in {"MESSAGE_CHECK", "LOAD_KEY_WORDS"}
           /\ llkipp_current_state' = "WAIT_FOR_COMPLETE" =>
                  \/ /\ llkipp_current_state = "LOAD_KEY_WORDS"
                     /\ Core!SendrecvWrite(r) /\ llkid_key_ready /\ ~llkid_key_complete
                     /\ pp_msg_len = 2
                  \/ llkipp_current_state = "WAIT_FOR_COMPLETE" /\ ~llkid_key_complete
           /\ llkipp_current_state' = "CLEAR_KEY" =>
                  \/ llkipp_current_state = "MESSAGE_CHECK"
                  \/ /\ llkipp_current_state = "LOAD_KEY_WORDS"
                     /\ Core!SendrecvWrite(r) /\ llkid_key_ready /\ llkid_key_complete
                     /\ pp_msg_id' = "ERRORRESP" /\ pp_status' = "KL_BAD_KEY_LEN"
                  \/ /\ llkipp_current_state = "CLEAR_KEY"
                     /\ UNCHANGED <<pp_msg_id, pp_status>>
           /\ llkipp_current_state' = "RESPONSE" =>
                  \/ llkipp_current_state = "MESSAGE_CHECK"
                  \/ /\ llkipp_current_state = "LOAD_KEY_WORDS"
                     /\ Core!SendrecvWrite(r) /\ ~llkid_key_ready
                     /\ pp_msg_id' = "ERRORRESP"
                  \/ /\ llkipp_current_state = "WAIT_FOR_COMPLETE" /\ llkid_key_complete
                     /\ UNCHANGED <<pp_msg_id, pp_status>>
                  \/ /\ llkipp_current_state = "CLEAR_KEY" /\ llkid_clear_key_ack
                     /\ IF pp_msg_id # "ERRORRESP"
                        THEN pp_msg_id' = "KLCLEARKEYACK" /\ pp_status' = "GOOD"
                        ELSE UNCHANGED <<pp_msg_id, pp_status>>
                  \/ /\ llkipp_current_state = "RESPONSE" /\ ~Ends(r)
                     /\ UNCHANGED <<pp_msg_id, pp_status>>
           /\ llkid_key_valid' =>
                  /\ llkipp_current_state = "LOAD_KEY_WORDS"
                  /\ Core!SendrecvWrite(r) /\ llkid_key_ready /\ ~llkid_key_complete
           /\ llkid_clear_key' => llkipp_current_state = "CLEAR_KEY"
           /\ llkipp_response_waiting' => llkipp_current_state = "RESPONSE"
<1>1. /\ llkipp_current_state \in Core!PpState
      /\ llkid_key_valid \in BOOLEAN /\ llkid_key_complete \in BOOLEAN
      /\ llkid_key_ready \in BOOLEAN /\ llkid_clear_key \in BOOLEAN
      /\ llkid_clear_key_ack \in BOOLEAN
      BY CoreStates
<1> DEFINE w == Core!SendrecvWrite(r)
<1>2. llkipp_current_state = "IDLE" =>
          /\ llkipp_current_state' \in {"IDLE", "MESSAGE_CHECK"}
          /\ ~llkid_key_valid' /\ ~llkid_clear_key' /\ ~llkipp_response_waiting'
      BY DEF PpMoves
<1>3. llkipp_current_state = "MESSAGE_CHECK" =>
          /\ llkipp_current_state' \in {"LOAD_KEY_WORDS", "CLEAR_KEY", "RESPONSE"}
          /\ ~llkid_key_valid' /\ ~llkid_clear_key' /\ ~llkipp_response_waiting'
      BY DEF PpMoves
<1>4. llkipp_current_state = "LOAD_KEY_WORDS" =>
          /\ ~llkid_clear_key' /\ ~llkipp_response_waiting'
          /\ llkid_key_valid' => w /\ llkid_key_ready /\ ~llkid_key_complete
          /\ llkipp_current_state' \in {"LOAD_KEY_WORDS", "WAIT_FOR_COMPLETE",
                                        "CLEAR_KEY", "RESPONSE"}
          /\ llkipp_current_state' = "WAIT_FOR_COMPLETE" =>
                 w /\ llkid_key_ready /\ ~llkid_key_complete /\ pp_msg_len = 2
          /\ llkipp_current_state' = "CLEAR_KEY" =>
                 /\ w /\ llkid_key_ready /\ llkid_key_complete
                 /\ pp_msg_id' = "ERRORRESP" /\ pp_status' = "KL_BAD_KEY_LEN"
          /\ llkipp_current_state' = "RESPONSE" =>
                 w /\ ~llkid_key_ready /\ pp_msg_id' = "ERRORRESP"
      BY <1>1 DEF PpMoves
<1>5. llkipp_current_state = "WAIT_FOR_COMPLETE" =>
          /\ llkipp_current_state' = IF llkid_key_complete THEN "RESPONSE"
                                                           ELSE "WAIT_FOR_COMPLETE"
          /\ UNCHANGED <<pp_msg_id, pp_status>>
          /\ ~llkid_key_valid' /\ ~llkid_clear_key' /\ ~llkipp_response_waiting'
      BY DEF PpMoves
<1>6. llkipp_current_state = "CLEAR_KEY" =>
          /\ ~llkid_key_valid' /\ ~llkipp_response_waiting'
          /\ llkipp_current_state' = IF llkid_clear_key_ack THEN "RESPONSE"
                                                            ELSE "CLEAR_KEY"
          /\ IF llkid_clear_key_ack /\ pp_msg_id # "ERRORRESP"
             THEN pp_msg_id' = "KLCLEARKEYACK" /\ pp_status' = "GOOD"
             ELSE UNCHANGED <<pp_msg_id, pp_status>>
      BY DEF PpMoves
<1>7. llkipp_current_state = "RESPONSE" =>
          /\ ~llkid_key_valid' /\ ~llkid_clear_key'
          /\ llkipp_current_state' = IF Ends(r) THEN "IDLE" ELSE "RESPONSE"
          /\ UNCHANGED <<pp_msg_id, pp_status>>
      BY DEF PpMoves, Ends
<1> HIDE DEF w
<1>8. llkipp_current_state \in {"IDLE", "MESSAGE_CHECK", "LOAD_KEY_WORDS",
                                "WAIT_FOR_COMPLETE", "CLEAR_KEY", "RESPONSE"}
      BY <1>1 DEF Core!PpState
<1>9. /\ llkipp_current_state' = "LOAD_KEY_WORDS" =>
             llkipp_current_state \in {"MESSAGE_CHECK", "LOAD_KEY_WORDS"}
      /\ llkipp_current_state' = "WAIT_FOR_COMPLETE" =>
             \/ /\ llkipp_current_state = "LOAD_KEY_WORDS"
                /\ w /\ llkid_key_ready /\ ~llkid_key_complete
                /\ pp_msg_len = 2
             \/ llkipp_current_state = "WAIT_FOR_COMPLETE" /\ ~llkid_key_complete
      BY <1>2, <1>3, <1>4, <1>5, <1>6, <1>7, <1>8
<1>10. llkipp_current_state' = "CLEAR_KEY" =>
             \/ llkipp_current_state = "MESSAGE_CHECK"
             \/ /\ llkipp_current_state = "LOAD_KEY_WORDS"
                /\ w /\ llkid_key_ready /\ llkid_key_complete
                /\ pp_msg_id' = "ERRORRESP" /\ pp_status' = "KL_BAD_KEY_LEN"
             \/ /\ llkipp_current_state = "CLEAR_KEY"
                /\ UNCHANGED <<pp_msg_id, pp_status>>
      BY <1>2, <1>3, <1>4, <1>5, <1>6, <1>7, <1>8
<1>11. llkipp_current_state' = "RESPONSE" =>
             \/ llkipp_current_state = "MESSAGE_CHECK"
             \/ /\ llkipp_current_state = "LOAD_KEY_WORDS"
                /\ w /\ ~llkid_key_ready /\ pp_msg_id' = "ERRORRESP"
             \/ /\ llkipp_current_state = "WAIT_FOR_COMPLETE" /\ llkid_key_complete
                /\ UNCHANGED <<pp_msg_id, pp_status>>
             \/ /\ llkipp_current_state = "CLEAR_KEY" /\ llkid_clear_key_ack
                /\ IF pp_msg_id # "ERRORRESP"
                   THEN pp_msg_id' = "KLCLEARKEYACK" /\ pp_status' = "GOOD"
                   ELSE UNCHANGED <<pp_msg_id, pp_status>>
             \/ /\ llkipp_current_state = "RESPONSE" /\ ~Ends(r)
                /\ UNCHANGED <<pp_msg_id, pp_status>>
      BY <1>2, <1>3, <1>4, <1>5, <1>6, <1>7, <1>8
<1>12. /\ llkid_key_valid' => /\ llkipp_current_state = "LOAD_KEY_WORDS"
                              /\ w /\ llkid_key_ready /\ ~llkid_key_complete
       /\ llkid_clear_key' => llkipp_current_state = "CLEAR_KEY"
       /\ llkipp_response_waiting' => llkipp_current_state = "RESPONSE"
      BY <1>2, <1>3, <1>4, <1>5, <1>6, <1>7, <1>8
<1> QED BY <1>9, <1>10, <1>11, <1>12 DEF w

\* Once the LLKI-PP has all the key words the state machine has none left.
LEMMA AllWordsSent ==
    ASSUME TypeOK, RequestKnown, PpKnown, NEW d, NEW r, NEW fwd, Moves(d, r, fwd),
           llkipp_current_state \in {"WAIT_FOR_COMPLETE", "RESPONSE"},
           pp_msg_id = "KLLOADKEYACK", Open, Open'
    PROVE  /\ srot_current_state' # "KL_REQ_WAIT_FOR_ACK" /\ ~Sending'
           /\ Sent' => current_pointer' = Asked'.high
<1>1. /\ DialogueMoves(d) /\ AccessGoes(d, fwd) /\ MessageMoves /\ RequestStays
      /\ d.valid \in BOOLEAN
      BY DEF Moves, Edge
<1>2. /\ srot_current_state \in Dialogue /\ srot_current_state' \in Dialogue
      /\ srot_current_state # "KL_REQ_HEADER" /\ Asked' = Asked
      BY <1>1, OpenStays
<1>3. /\ srot_current_state # "KL_REQ_WAIT_FOR_ACK" /\ ~Sending
      /\ Sent => current_pointer = Asked.high
      BY DEF PpKnown, PpLoadKnown
<1>4. CASE srot_current_state \in RespStates
  <2>1. srot_current_state' \in RespStates
        BY <1>1, <1>2, <1>4 DEF DialogueMoves, RespStates, Dialogue, LoadStates,
           ReadyStates
  <2> QED BY <2>1 DEF Sending, Sent, RespStates, LoadStates, ReadyStates
<1>5. CASE srot_current_state = "KL_LOAD_KEY_WORD_WAIT_FOR_ACK" /\ ~InFabric
  <2>1. current_pointer = Asked.high
        BY <1>3, <1>5 DEF Sent
  <2>2. CASE d.valid
    <3>1. LastWord
          BY <1>1, <1>2, <2>1, AskedInRam DEF LastWord, high_pointer
    <3>2. srot_current_state' = "KL_READ_RESP_STATUS"
          BY <1>1, <1>5, <2>2, <3>1 DEF DialogueMoves
    <3> QED BY <3>2 DEF Sending, Sent, LoadStates, ReadyStates
  <2>3. CASE ~d.valid
    <3>1. /\ srot_current_state' = srot_current_state
          /\ current_pointer' = current_pointer
          BY <1>1, <1>5, <2>3 DEF DialogueMoves
    <3>2. ~InFabric'
          BY <1>1, <1>5, <2>3 DEF AccessGoes, WaitStates, WriteStates
    <3> QED BY <1>2, <1>5, <2>1, <3>1, <3>2 DEF Sending, Sent
  <2> QED BY <1>1, <2>2, <2>3
<1> QED BY <1>2, <1>3, <1>4, <1>5 DEF Dialogue, Sending

LEMMA PpLoadKnownStep ==
    ASSUME TypeOK, RequestKnown, PpKnown, WaitingKnown, CoreKnown,
           NEW d, NEW r, NEW fwd, Moves(d, r, fwd), PpIdleKnown'
    PROVE  PpLoadKnown'
<1>1. /\ MessageMoves /\ RequestStays /\ AccessGoes(d, fwd) /\ PpMoves(r)
      /\ DialogueMoves(d) /\ Core!PpStep(r)
      BY DEF Moves, Edge
<1>2. llkipp_current_state = "IDLE" <=> ~Open
      BY DEF PpKnown, PpIdleKnown, Open
<1>3. llkipp_current_state' = "IDLE" <=> ~Open'
      BY DEF PpIdleKnown, Open
<1>5. ASSUME llkipp_current_state' = "LOAD_KEY_WORDS"
      PROVE  /\ pp_msg_id' = "KLLOADKEYREQ" /\ msg_id' = "C2LOADKEYREQ"
             /\ srot_current_state' \notin RespStates
             /\ pp_msg_len' = IF Sent' THEN (Asked'.high - current_pointer') + 1
                                       ELSE (Asked'.high - current_pointer') + 2
  <2>1. CASE llkipp_current_state = "MESSAGE_CHECK"
    <3>1. /\ srot_current_state = "KL_REQ_WAIT_FOR_ACK" /\ CoreWriting
          /\ msg_id \in C2Request
          BY <1>1, <2>1, Checked DEF PpKnown
    <3>2. /\ msg_id = "C2LOADKEYREQ" /\ pp_msg_id' = "KLLOADKEYREQ"
          /\ pp_msg_len' = (Asked.high - Asked.low) + 2
      <4>1. llkid_key_complete \in BOOLEAN BY CoreStates
      <4>2. /\ msg_id = "C2CLEARKEYREQ" => llkipp_current_state' = "CLEAR_KEY"
            /\ msg_id = "C2KEYSTATUSREQ" => llkipp_current_state' = "RESPONSE"
            /\ msg_id = "C2LOADKEYREQ" /\ llkid_key_complete =>
                   llkipp_current_state' = "RESPONSE"
            /\ msg_id = "C2LOADKEYREQ" /\ ~llkid_key_complete =>
                   /\ pp_msg_id' = "KLLOADKEYREQ"
                   /\ pp_msg_len' = (Asked.high - Asked.low) + 2
            BY <1>1, <2>1, Checked DEF PpKnown
      <4> QED BY <1>5, <3>1, <4>1, <4>2 DEF C2Request
    <3>3. ~d.valid BY <1>1, <3>1 DEF AccessGoes
    <3>4. /\ srot_current_state' = "KL_REQ_WAIT_FOR_ACK"
          /\ current_pointer' = current_pointer
          BY <1>1, <3>1, <3>3 DEF DialogueMoves
    <3>5. current_pointer = Asked.low
          BY <3>1 DEF RequestKnown, WordInHand
    <3>6. msg_id' = msg_id /\ Asked' = Asked
          BY <1>1, <3>1, <3>4, HeaderStays, AskedInRam DEF Dialogue
    <3>7. ~Sent' /\ srot_current_state' \notin RespStates
          BY <3>4 DEF Sent, RespStates
    <3> QED BY <3>2, <3>4, <3>5, <3>6, <3>7
  <2>2. CASE llkipp_current_state = "LOAD_KEY_WORDS"
    <3>1. /\ srot_current_state' \in {"KL_REQ_WAIT_FOR_ACK"} \cup LoadStates
          /\ Open /\ Open' /\ msg_id = "C2LOADKEYREQ"
          BY <2>2, LoadGoes
    <3>2. msg_id' = "C2LOADKEYREQ"
          BY <1>1, <3>1, OpenStays
    <3>3. srot_current_state' \notin RespStates
          BY <3>1 DEF LoadStates, ReadyStates, RespStates
    <3>4. /\ pp_msg_id' = "KLLOADKEYREQ"
          /\ pp_msg_len' = IF Sent' THEN (Asked'.high - current_pointer') + 1
                                    ELSE (Asked'.high - current_pointer') + 2
          BY <1>5, <2>2, LoadStays
    <3> QED BY <3>2, <3>3, <3>4
  <2> QED BY <1>1, <1>5, <2>1, <2>2, PpFrom
<1>6. ASSUME llkipp_current_state = "LOAD_KEY_WORDS",
             llkipp_current_state' = "WAIT_FOR_COMPLETE"
      PROVE  /\ pp_msg_id' = "KLLOADKEYACK" /\ msg_id' = "C2LOADKEYREQ"
             /\ srot_current_state' # "KL_REQ_WAIT_FOR_ACK" /\ ~Sending'
             /\ current_pointer' = Asked'.high
  <2>1. /\ Core!SendrecvWrite(r) /\ llkid_key_ready /\ ~llkid_key_complete
        /\ pp_msg_len = 2
        BY <1>1, <1>6, PpFrom
  <2>2. Open /\ Open' /\ msg_id = "C2LOADKEYREQ" /\ srot_current_state \in Dialogue
        BY <1>1, <1>6, LoadGoes, OpenStays
  <2>3. msg_id' = msg_id /\ Asked' = Asked
        BY <1>1, <2>2, OpenStays
  <2>4. /\ srot_current_state = "KL_LOAD_KEY_WORD_WAIT_FOR_ACK" /\ InFabric
        /\ srot_current_state' = srot_current_state /\ ~InFabric'
        /\ current_pointer' = current_pointer
        BY <2>1, <2>2, WordWrite
  <2>5. pp_msg_len = (Asked.high - current_pointer) + 2
        BY <1>6, <2>4 DEF PpKnown, PpLoadKnown, Sent
  <2>6. current_pointer = Asked.high
    <3>1. Asked.high \in Nat /\ current_pointer \in Nat
          BY <1>1, <2>2, AskedInRam
    <3> QED BY <2>1, <2>5, <3>1
  <2>7. pp_msg_id' = "KLLOADKEYACK"
        BY <1>1, <1>6, <2>1 DEF PpMoves
  <2>8. ~Sending' BY <2>4 DEF Sending
  <2> QED BY <2>2, <2>3, <2>4, <2>6, <2>7, <2>8
<1>7. ASSUME llkipp_current_state' = "WAIT_FOR_COMPLETE"
      PROVE  pp_msg_id' = "KLLOADKEYACK" /\ msg_id' = "C2LOADKEYREQ"
  <2>1. CASE llkipp_current_state = "LOAD_KEY_WORDS"
        BY <1>6, <1>7, <2>1
  <2>2. CASE llkipp_current_state = "WAIT_FOR_COMPLETE"
    <3>1. pp_msg_id' = pp_msg_id BY <1>1, <2>2 DEF PpMoves
    <3>2. Open /\ Open' BY <1>2, <1>3, <1>7, <2>2
    <3>3. msg_id' = msg_id BY <1>1, <3>2, OpenStays
    <3> QED BY <2>2, <3>1, <3>3 DEF PpKnown, PpLoadKnown
  <2> QED BY <1>1, <1>7, <2>1, <2>2, PpFrom
<1>8. ASSUME llkipp_current_state' \in {"WAIT_FOR_COMPLETE", "RESPONSE"},
             pp_msg_id' = "KLLOADKEYACK"
      PROVE  /\ srot_current_state' # "KL_REQ_WAIT_FOR_ACK" /\ ~Sending'
             /\ Sent' => current_pointer' = Asked'.high
  <2>1. CASE /\ llkipp_current_state = "LOAD_KEY_WORDS"
             /\ llkipp_current_state' = "WAIT_FOR_COMPLETE"
        BY <1>6, <2>1
  <2>2. CASE /\ llkipp_current_state \in {"WAIT_FOR_COMPLETE", "RESPONSE"}
             /\ pp_msg_id = "KLLOADKEYACK"
    <3>1. Open /\ Open' BY <1>2, <1>3, <1>8, <2>2
    <3> QED BY <2>2, <3>1, AllWordsSent
  <2>3. CASE llkipp_current_state = "MESSAGE_CHECK"
    <3>1. llkid_key_complete \in BOOLEAN BY CoreStates
    <3>2. msg_id \in C2Request BY <1>1, <2>3, Checked DEF PpKnown
    <3>3. /\ msg_id = "C2CLEARKEYREQ" => llkipp_current_state' = "CLEAR_KEY"
          /\ msg_id = "C2KEYSTATUSREQ" => pp_msg_id' = "KLKEYSTATUSRESP"
          /\ msg_id = "C2LOADKEYREQ" /\ llkid_key_complete =>
                 pp_msg_id' = "ERRORRESP"
          /\ msg_id = "C2LOADKEYREQ" /\ ~llkid_key_complete =>
                 llkipp_current_state' = "LOAD_KEY_WORDS"
          BY <1>1, <2>3, Checked DEF PpKnown
    <3> QED BY <1>8, <3>1, <3>2, <3>3 DEF C2Request
  <2>4. CASE llkipp_current_state = "CLEAR_KEY"
    <3>1. pp_msg_id # "ERRORRESP" => pp_msg_id' = "KLCLEARKEYACK"
          BY <1>1, <1>8, <2>4, PpFrom
    <3>2. pp_msg_id = "ERRORRESP" => pp_msg_id' = pp_msg_id
          BY <1>1, <1>8, <2>4, PpFrom
    <3> QED BY <1>8, <3>1, <3>2
  <2>5. llkipp_current_state' = "RESPONSE" =>
            \/ llkipp_current_state \in {"MESSAGE_CHECK", "CLEAR_KEY"}
            \/ llkipp_current_state = "LOAD_KEY_WORDS" /\ pp_msg_id' = "ERRORRESP"
            \/ llkipp_current_state \in {"WAIT_FOR_COMPLETE", "RESPONSE"}
                 /\ pp_msg_id' = pp_msg_id
        BY <1>1, PpFrom
  <2>6. llkipp_current_state' = "WAIT_FOR_COMPLETE" =>
            \/ llkipp_current_state = "LOAD_KEY_WORDS"
            \/ llkipp_current_state = "WAIT_FOR_COMPLETE" /\ pp_msg_id' = pp_msg_id
        BY <1>1, PpFrom DEF PpMoves
  <2> QED BY <1>8, <2>1, <2>2, <2>3, <2>4, <2>5, <2>6
<1> QED BY <1>5, <1>7, <1>8 DEF PpLoadKnown

-----------------------------------------------------------------------------
(* What the LLKI-PP answers is true *)

\* A TSS at rest changes nothing; a clear of what is clear neither.
LEMMA CoreRests ==
    ASSUME TypeOK, Core!TssStep, tss_state = "IDLE", ~llkid_key_valid,
           llkid_clear_key => ~llkid_key_complete /\ llkid_key_register = Core!NoKey
    PROVE  /\ llkid_key_complete' = llkid_key_complete
           /\ llkid_key_register' = llkid_key_register
           /\ tss_state' = "IDLE"
<1>1. llkid_key_complete \in BOOLEAN BY CoreStates
<1>2. Core!TssIdleClear \/ Core!TssIdleStay
      BY DEF Core!TssStep, Core!TssIdleLoad, Core!TssWaitState0Last,
         Core!TssWaitState0More, Core!TssWaitState0Count, Core!TssNextWordClear,
         Core!TssNextWordLoad, Core!TssNextWordStay, Core!TssNextWordDefault,
         Core!TssClearKey, Core!TssWaitState1, Core!TssWaitState2
<1>3. CASE Core!TssIdleClear
      BY <1>1, <1>3 DEF Core!TssIdleClear, Core!TssIdleDefault
<1>4. CASE Core!TssIdleStay
      BY <1>4 DEF Core!TssIdleStay, Core!TssIdleDefault
<1> QED BY <1>2, <1>3, <1>4

LEMMA SameKey ==
    ASSUME sw_request' = sw_request, keyram' = keyram, keyindexram' = keyindexram
    PROVE  /\ KeyLength(sw_request)' = KeyLength(sw_request)
           /\ KeyOf(sw_request)' = KeyOf(sw_request)
BY DEF KeyLength, KeyOf, EntryOf

\* What is true of a core at rest stays true.
LEMMA ToldStays ==
    ASSUME TypeOK, Core!TssStep, tss_state = "IDLE", ~llkid_key_valid,
           llkid_clear_key => ~llkid_key_complete /\ llkid_key_register = Core!NoKey,
           sw_request' = sw_request, keyram' = keyram, keyindexram' = keyindexram,
           UNCHANGED <<pp_msg_id, pp_status>>,
           Told(pp_msg_id, pp_status)
    PROVE  Told(pp_msg_id, pp_status)'
<1>1. /\ llkid_key_complete' = llkid_key_complete
      /\ llkid_key_register' = llkid_key_register
      BY CoreRests
<1>2. /\ KeyLength(sw_request)' = KeyLength(sw_request)
      /\ KeyOf(sw_request)' = KeyOf(sw_request)
      BY SameKey
<1>3. Core!NoKey' = Core!NoKey
      BY DEF Core!NoKey, Core!KeyIndex, Core!ZeroWord, Core!HeaderWord, Core!MidReset,
         Core!StatusReset
<1> QED BY <1>1, <1>2, <1>3 DEF Told

\* The words the TSS has counted are the key.
LEMMA KeyIsThere ==
    ASSUME TypeOK, RequestKnown, WordsKnown, CoreKnown, Open,
           llkipp_current_state = "WAIT_FOR_COMPLETE", llkid_key_complete
    PROVE  /\ KeyLength(sw_request) = KeyWords
           /\ llkid_key_register = KeyOf(sw_request)
<1>1. srot_current_state \in Dialogue BY DEF Open, Undelivered
<1>2. /\ Asked.low \in Nat /\ Asked.high \in Nat
  <2>1. keyindexram_rdata_o = Asked
        BY <1>1 DEF RequestKnown, EntryInHand
  <2>2. keyindexram_rdata_o.low \in Pointer /\ keyindexram_rdata_o.high \in Pointer
        BY DEF TypeOK, SrotTypeOK, MemTypeOK, IndexEntry
  <2> QED BY <2>1, <2>2, Ranges
<1>3. ~llkid_key_valid BY DEF CoreKnown
<1>4. Loading BY DEF Loading
<1>5. Stored = (Asked.high - Asked.low) + 1
      BY <1>3 DEF Stored, Accepted
<1>6. Stored = KeyWords
      BY <1>4 DEF WordsKnown, WordsCounted
<1>7. \A i \in 0 .. KeyWords - 1 : llkid_key_register[i] = keyram[Asked.low + i]
  <2>1. KeyWords \in Nat BY CoreAssumption
  <2>2. \A i \in 0 .. KeyWords - 1 :
            i < Stored => llkid_key_register[i] = keyram[Asked.low + i]
        BY <1>4 DEF WordsKnown, WordsRight
  <2> QED BY <1>6, <2>1, <2>2
<1>8. llkid_key_register \in [0 .. KeyWords - 1 -> Word]
      BY SamePackage DEF TypeOK, Core!TypeOK, Core!TssTypeOK, Core!KeyIndex
<1>9. llkid_key_register = [i \in 0 .. KeyWords - 1 |-> keyram[Asked.low + i]]
      BY <1>7, <1>8
<1>10. KeyLength(sw_request) = KeyWords
      BY <1>2, <1>5, <1>6 DEF KeyLength, Asked
<1> QED BY <1>9, <1>10 DEF KeyOf, Asked

LEMMA PpAnswerKnownStep ==
    ASSUME TypeOK, RequestKnown, PpKnown, StatusKnown, WordsKnown, CoreKnown, CoreKnown',
           NEW d, NEW r, NEW fwd, Moves(d, r, fwd), PpIdleKnown'
    PROVE  PpAnswerKnown'
<1>1. /\ MessageMoves /\ RequestStays /\ PpMoves(r)
      /\ Core!PpStep(r) /\ Core!TssStep
      BY DEF Moves, Edge
<1>2. llkipp_current_state = "IDLE" <=> ~Open
      BY DEF PpKnown, PpIdleKnown, Open
<1>3. llkipp_current_state' = "IDLE" <=> ~Open'
      BY DEF PpIdleKnown, Open
<1>4. llkid_key_complete \in BOOLEAN BY CoreStates
<1>5. ASSUME Open, Open'
      PROVE  /\ msg_id' = msg_id /\ sw_request' = sw_request
             /\ keyram' = keyram /\ keyindexram' = keyindexram
             /\ msg_id = sw_request.id
  <2>1. srot_current_state \in Dialogue BY <1>1, <1>5, OpenStays
  <2> QED BY <1>1, <1>5, <2>1, OpenStays DEF RequestKnown, MessageInHand
<1>6. ASSUME llkipp_current_state = "MESSAGE_CHECK"
      PROVE  /\ msg_id \in C2Request
             /\ msg_id = "C2LOADKEYREQ" /\ llkid_key_complete =>
                  /\ llkipp_current_state' = "RESPONSE"
                  /\ pp_msg_id' = "ERRORRESP" /\ pp_status' = "KL_KEY_OVERWRITE"
             /\ msg_id = "C2LOADKEYREQ" /\ ~llkid_key_complete =>
                  llkipp_current_state' = "LOAD_KEY_WORDS"
             /\ msg_id = "C2CLEARKEYREQ" =>
                  llkipp_current_state' = "CLEAR_KEY" /\ pp_msg_id' = "KLCLEARKEYREQ"
             /\ msg_id = "C2KEYSTATUSREQ" =>
                  /\ llkipp_current_state' = "RESPONSE"
                  /\ pp_msg_id' = "KLKEYSTATUSRESP"
                  /\ pp_status' = IF llkid_key_complete THEN "KEY_PRESENT"
                                                        ELSE "KEY_NOT_PRESENT"
      BY <1>1, <1>6, Checked DEF PpKnown
<1>7. ASSUME llkipp_current_state' = "CLEAR_KEY"
      PROVE  IF msg_id' = "C2CLEARKEYREQ" THEN pp_msg_id' = "KLCLEARKEYREQ"
             ELSE msg_id' = "C2LOADKEYREQ" /\ pp_msg_id' = "ERRORRESP"
                    /\ pp_status' = "KL_BAD_KEY_LEN"
  <2>1. CASE llkipp_current_state = "MESSAGE_CHECK"
        BY <1>2, <1>3, <1>4, <1>5, <1>6, <1>7, <2>1 DEF C2Request
  <2>2. CASE /\ llkipp_current_state = "LOAD_KEY_WORDS"
             /\ pp_msg_id' = "ERRORRESP" /\ pp_status' = "KL_BAD_KEY_LEN"
        BY <1>2, <1>3, <1>5, <1>7, <2>2 DEF PpKnown, PpLoadKnown
  <2>3. CASE llkipp_current_state = "CLEAR_KEY" /\ UNCHANGED <<pp_msg_id, pp_status>>
        BY <1>2, <1>3, <1>5, <1>7, <2>3 DEF PpKnown, PpAnswerKnown
  <2> QED BY <1>1, <1>7, <2>1, <2>2, <2>3, PpFrom
<1>8. ASSUME llkipp_current_state' = "RESPONSE"
      PROVE  Told(pp_msg_id, pp_status)'
  <2>1. CASE llkipp_current_state = "MESSAGE_CHECK"
    <3>1. llkid_key_complete' = llkid_key_complete
      <4>1. ~llkid_clear_key /\ tss_state = "IDLE"
            BY <2>1 DEF StatusKnown, TssKnown
      <4>2. ~llkid_key_valid BY <2>1 DEF CoreKnown
      <4> QED BY <1>1, <4>1, <4>2, CoreRests
    <3>2. sw_request' = sw_request /\ msg_id = sw_request.id
          BY <1>2, <1>3, <1>5, <1>8, <2>1
    <3>3. \/ /\ msg_id = "C2LOADKEYREQ" /\ llkid_key_complete
             /\ pp_msg_id' = "ERRORRESP" /\ pp_status' = "KL_KEY_OVERWRITE"
          \/ /\ msg_id = "C2KEYSTATUSREQ"
             /\ pp_msg_id' = "KLKEYSTATUSRESP"
             /\ pp_status' = IF llkid_key_complete THEN "KEY_PRESENT"
                                                   ELSE "KEY_NOT_PRESENT"
          BY <1>4, <1>6, <1>8, <2>1 DEF C2Request
    <3> QED BY <1>4, <3>1, <3>2, <3>3 DEF Told
  <2>2. CASE /\ llkipp_current_state = "LOAD_KEY_WORDS"
             /\ Core!SendrecvWrite(r) /\ ~llkid_key_ready
    <3>1. Open BY <1>2, <2>2
    <3>2. srot_current_state = "KL_LOAD_KEY_WORD_WAIT_FOR_ACK" /\ InFabric
          BY <2>2, <3>1, WordWrite
    <3>3. llkid_key_ready
          BY <2>2, <3>2 DEF StatusKnown, ReadyKnown
    <3> QED BY <2>2, <3>3
  <2>3. CASE /\ llkipp_current_state = "WAIT_FOR_COMPLETE" /\ llkid_key_complete
             /\ UNCHANGED <<pp_msg_id, pp_status>>
    <3>1. /\ pp_msg_id = "KLLOADKEYACK" /\ pp_status = "GOOD"
          /\ tss_state = "IDLE" /\ ~llkid_key_valid /\ ~llkid_clear_key
          BY <2>3 DEF CoreKnown
    <3>2. Open /\ Open' BY <1>2, <1>3, <1>8, <2>3
    <3>3. /\ KeyLength(sw_request) = KeyWords
          /\ llkid_key_register = KeyOf(sw_request)
          BY <2>3, <3>2, KeyIsThere
    <3>4. sw_request.id = "C2LOADKEYREQ"
          BY <1>5, <2>3, <3>2 DEF PpKnown, PpLoadKnown
    <3>5. Told(pp_msg_id, pp_status)
          BY <2>3, <3>1, <3>3, <3>4 DEF Told
    <3> QED BY <1>1, <1>5, <2>3, <3>1, <3>2, <3>5, ToldStays
  <2>4. CASE /\ llkipp_current_state = "CLEAR_KEY" /\ llkid_clear_key_ack
             /\ IF pp_msg_id # "ERRORRESP"
                THEN pp_msg_id' = "KLCLEARKEYACK" /\ pp_status' = "GOOD"
                ELSE UNCHANGED <<pp_msg_id, pp_status>>
    <3>1. Open /\ Open' BY <1>2, <1>3, <1>8, <2>4
    <3>2. sw_request' = sw_request /\ msg_id = sw_request.id
          BY <1>5, <3>1
    <3>3. CASE msg_id = "C2CLEARKEYREQ"
      <4>1. pp_msg_id = "KLCLEARKEYREQ"
            BY <2>4, <3>3 DEF PpKnown, PpAnswerKnown
      <4>2. pp_msg_id' = "KLCLEARKEYACK" /\ pp_status' = "GOOD"
            BY <2>4, <4>1
      <4>3. ~llkid_key_complete' /\ llkid_key_register' = Core!NoKey
            BY <1>8, <4>2 DEF CoreKnown
      <4> QED BY <3>2, <3>3, <4>2, <4>3 DEF Told
    <3>4. CASE msg_id # "C2CLEARKEYREQ"
      <4>1. /\ msg_id = "C2LOADKEYREQ" /\ pp_msg_id = "ERRORRESP"
            /\ pp_status = "KL_BAD_KEY_LEN"
            BY <2>4, <3>4 DEF PpKnown, PpAnswerKnown
      <4>2. pp_msg_id' = "ERRORRESP" /\ pp_status' = "KL_BAD_KEY_LEN"
            BY <2>4, <4>1
      <4>3. ~llkid_key_complete'
            BY <1>8, <4>2 DEF CoreKnown
      <4> QED BY <3>2, <4>1, <4>2, <4>3 DEF Told
    <3> QED BY <3>3, <3>4
  <2>5. CASE /\ llkipp_current_state = "RESPONSE" /\ ~Ends(r)
             /\ UNCHANGED <<pp_msg_id, pp_status>>
    <3>1. Open /\ Open' BY <1>2, <1>3, <1>8, <2>5
    <3>2. Told(pp_msg_id, pp_status)
          BY <2>5 DEF PpKnown, PpAnswerKnown
    <3>3. /\ tss_state = "IDLE"
          /\ llkid_clear_key => ~llkid_key_complete /\ llkid_key_register = Core!NoKey
          BY <2>5 DEF StatusKnown, TssKnown
    <3>4. ~llkid_key_valid BY <2>5 DEF CoreKnown
    <3> QED BY <1>1, <1>5, <2>5, <3>1, <3>2, <3>3, <3>4, ToldStays
  <2> QED BY <1>1, <1>8, <2>1, <2>2, <2>3, <2>4, <2>5, PpFrom
<1> QED BY <1>7, <1>8 DEF PpAnswerKnown

-----------------------------------------------------------------------------
(* What the state machine reads of the core is not too old *)

\* How it comes to read the response.
LEMMA ToRespRead ==
    ASSUME TypeOK, NEW d, NEW r, NEW fwd, Moves(d, r, fwd),
           srot_current_state' = "KL_RESP_READ"
    PROVE  \/ /\ srot_current_state = "KL_CHECK_RESP_STATUS" /\ d.valid
              /\ d.rdata.resp_waiting
           \/ srot_current_state = "KL_RESP_READ" /\ ~d.valid
<1>1. DialogueMoves(d) /\ MessageMoves
      BY DEF Moves
<1>2. srot_current_state \in SrotState
      BY DEF TypeOK, SrotTypeOK, StmTypeOK
<1>3. srot_current_state \in Dialogue
      BY <1>1, <1>2 DEF MessageMoves, SrotState, Dialogue, LoadStates, ReadyStates,
                          RespStates, Checking
<1> QED BY <1>1, <1>3 DEF DialogueMoves, Dialogue, LoadStates, ReadyStates, RespStates,
        NextReadyState

\* A response that waits is still there a clock later, or read.
LEMMA WaitingStays ==
    ASSUME TypeOK, WaitingKnown, NEW d, NEW r, NEW fwd, Moves(d, r, fwd),
           llkipp_response_waiting
    PROVE  /\ ~Closed => llkipp_response_waiting'
           /\ Closed => Closed' \/ srot_current_state' = "C2_RESPONSE"
<1>1. PpMoves(r) /\ AccessGoes(d, fwd) /\ DialogueMoves(d) /\ d.valid \in BOOLEAN
      BY DEF Moves, Edge
<1>2. ~Closed => llkipp_current_state = "RESPONSE"
      BY DEF WaitingKnown
<1>3. ~Closed => llkipp_response_waiting'
      BY <1>1, <1>2 DEF PpMoves
<1>4. ASSUME Closed PROVE Closed' \/ srot_current_state' = "C2_RESPONSE"
  <2>1. srot_current_state = "KL_RESP_READ" /\ ~InFabric BY <1>4 DEF Closed
  <2>2. CASE d.valid BY <1>1, <2>1, <2>2 DEF DialogueMoves
  <2>3. CASE ~d.valid
        BY <1>1, <2>1, <2>3 DEF AccessGoes, WaitStates, WriteStates, Closed
  <2> QED BY <1>1, <2>2, <2>3
<1> QED BY <1>3, <1>4

LEMMA WaitingKnownStep ==
    ASSUME TypeOK, WaitingKnown, NEW d, NEW r, NEW fwd, Moves(d, r, fwd)
    PROVE  WaitingKnown'
<1>1. /\ PpMoves(r) /\ AccessGoes(d, fwd) /\ Phase(r) /\ d.rdata = rdata
      /\ d.valid \in BOOLEAN /\ fwd \in BOOLEAN /\ PortSeen(r, fwd)
      BY DEF Moves, Edge
<1>2. ASSUME llkipp_response_waiting'
      PROVE  /\ ~llkid_clear_key'
             /\ \/ llkipp_current_state' = "RESPONSE"
                     /\ llkipp_response_word' = Core!HeaderWord(pp_msg_id', pp_status', 1)
                \/ Closed'
  <2>1. llkipp_current_state = "RESPONSE"
        BY <1>1, <1>2, PpFrom
  <2>2. /\ ~llkid_clear_key'
        /\ llkipp_response_word' = Core!HeaderWord(pp_msg_id, pp_status, 1)
        /\ llkipp_current_state' = IF Ends(r) THEN "IDLE" ELSE "RESPONSE"
        /\ pp_msg_id' = pp_msg_id /\ pp_status' = pp_status
        BY <1>1, <2>1 DEF PpMoves, Ends
  <2>3. ASSUME Ends(r) PROVE Closed'
    <3>1. srot_current_state = "KL_RESP_READ" /\ InFabric
          BY <1>1, <2>3 DEF Phase
    <3>2. fwd BY <1>1, <2>3 DEF PortSeen, Ends
    <3>3. ~d.valid BY <1>1, <3>1 DEF AccessGoes
    <3> QED BY <1>1, <3>1, <3>2, <3>3 DEF AccessGoes, WaitStates, Closed
  <2> QED BY <2>2, <2>3
<1>3. ASSUME llkipp_ctrlstatus_register'.resp_waiting
      PROVE  \/ llkipp_response_waiting'
             \/ Closed' \/ srot_current_state' = "C2_RESPONSE"
  <2>1. llkipp_response_waiting BY <1>1, <1>3 DEF PpMoves
  <2> QED BY <2>1, WaitingStays
<1>4. ASSUME srot_current_state' \in StatusStates, ~InFabric', rdata'.resp_waiting
      PROVE  llkipp_response_waiting'
  <2>1. srot_current_state \in WaitStates /\ ~d.valid
        BY <1>1, <1>4 DEF AccessGoes, WaitStates
  <2>2. srot_current_state' = srot_current_state
        BY <1>1, <2>1 DEF AccessGoes
  <2>3. /\ srot_current_state \notin WriteStates /\ srot_current_state # "KL_RESP_READ"
        /\ srot_current_state # "C2_RESPONSE"
        BY <1>4, <2>2 DEF StatusStates, WriteStates
  <2>4. ~Closed BY <2>3 DEF Closed
  <2>5. CASE InFabric
    <3>1. rdata' = llkipp_ctrlstatus_register
          BY <1>1, <1>4, <2>1, <2>2, <2>5 DEF AccessGoes
    <3>2. llkipp_response_waiting
          BY <1>4, <2>3, <2>4, <3>1 DEF WaitingKnown
    <3> QED BY <2>4, <3>2, WaitingStays
  <2>6. CASE ~InFabric
    <3>1. rdata' = rdata
          BY <1>1, <2>1, <2>3, <2>6 DEF AccessGoes
    <3>2. llkipp_response_waiting
          BY <1>4, <2>2, <2>6, <3>1 DEF WaitingKnown
    <3> QED BY <2>4, <3>2, WaitingStays
  <2> QED BY <2>5, <2>6
<1>5. ASSUME srot_current_state' = "KL_RESP_READ", InFabric'
      PROVE  llkipp_response_waiting'
  <2>1. CASE srot_current_state = "KL_CHECK_RESP_STATUS" /\ d.valid /\ d.rdata.resp_waiting
    <3>1. ~InFabric BY <1>1, <2>1 DEF AccessGoes
    <3>2. llkipp_response_waiting
          BY <1>1, <2>1, <3>1 DEF WaitingKnown, StatusStates
    <3>3. ~Closed BY <2>1 DEF Closed
    <3> QED BY <3>2, <3>3, WaitingStays
  <2>2. CASE srot_current_state = "KL_RESP_READ" /\ ~d.valid
    <3>1. InFabric BY <1>1, <1>5, <2>2 DEF AccessGoes, WaitStates
    <3>2. llkipp_response_waiting /\ ~Closed
          BY <2>2, <3>1 DEF WaitingKnown, Closed
    <3> QED BY <3>2, WaitingStays
  <2> QED BY <1>5, <2>1, <2>2, ToRespRead
<1> QED BY <1>2, <1>3, <1>4, <1>5 DEF WaitingKnown, Core!HeaderWord

\* A TSS that is ready stays so until it gets a word or a clear.
LEMMA ReadyStays ==
    ASSUME TypeOK, CoreKnown, Core!TssStep, llkid_key_ready, ~llkid_key_valid,
           llkipp_current_state \in {"MESSAGE_CHECK", "LOAD_KEY_WORDS"}
    PROVE  llkid_key_ready'
<1>1. tss_state \in {"IDLE", "WAIT_FOR_NEXT_KEY_WORD"} /\ ~llkid_clear_key
      BY DEF CoreKnown
<1>2. Core!TssIdleStay \/ Core!TssNextWordStay
      BY <1>1 DEF Core!TssStep, Core!TssIdleClear, Core!TssIdleLoad,
         Core!TssWaitState0Last,
         Core!TssWaitState0More, Core!TssWaitState0Count, Core!TssNextWordClear,
         Core!TssNextWordLoad, Core!TssNextWordDefault,
         Core!TssClearKey, Core!TssWaitState1, Core!TssWaitState2
<1> QED BY <1>2 DEF Core!TssIdleStay, Core!TssNextWordStay

LEMMA ReadyKnownStep ==
    ASSUME TypeOK, PpKnown, StatusKnown, WordsKnown, CoreKnown,
           NEW d, NEW r, NEW fwd, Moves(d, r, fwd)
    PROVE  ReadyKnown'
<1> SUFFICES ASSUME llkipp_current_state' = "LOAD_KEY_WORDS"
             PROVE  /\ llkipp_ctrlstatus_register'.ready_for_key
                         /\ srot_current_state' \in ReadyStates => llkid_key_ready'
                    /\ srot_current_state' = "KL_CHECK_READY_STATUS" /\ ~InFabric'
                         /\ rdata'.ready_for_key => llkid_key_ready'
                    /\ srot_current_state' = "KL_LOAD_KEY_WORD" => llkid_key_ready'
                    /\ srot_current_state' = "KL_LOAD_KEY_WORD_WAIT_FOR_ACK" /\ InFabric'
                         => llkid_key_ready'
    BY DEF ReadyKnown
<1>1. /\ PpMoves(r) /\ AccessGoes(d, fwd) /\ d.rdata = rdata /\ DialogueFrom(d)
      /\ d.valid \in BOOLEAN /\ fwd \in BOOLEAN /\ Core!TssStep /\ DialogueMoves(d)
      BY DEF Moves, Edge
<1>2. llkipp_current_state \in {"MESSAGE_CHECK", "LOAD_KEY_WORDS"}
      BY <1>1, PpFrom
<1>3. llkid_key_ready /\ ~llkid_key_valid => llkid_key_ready'
      BY <1>1, <1>2, ReadyStays
<1>4. llkid_key_valid =>
          /\ srot_current_state = "KL_LOAD_KEY_WORD_WAIT_FOR_ACK"
          /\ CoreWriting /\ srot_current_state' = srot_current_state
  <2>1. llkid_key_valid =>
            srot_current_state = "KL_LOAD_KEY_WORD_WAIT_FOR_ACK" /\ CoreWriting
        BY DEF WordsKnown, WordOnItsWay
  <2> QED BY <1>1, <2>1 DEF AccessGoes, WaitStates, WriteStates
<1>5. llkipp_current_state = "MESSAGE_CHECK" =>
          srot_current_state' = "KL_REQ_WAIT_FOR_ACK"
  <2>1. llkipp_current_state = "MESSAGE_CHECK" =>
            srot_current_state = "KL_REQ_WAIT_FOR_ACK" /\ CoreWriting
        BY DEF PpKnown, PpIdleKnown
  <2> QED BY <1>1, <2>1 DEF AccessGoes, WaitStates, WriteStates
<1>6. ASSUME llkipp_ctrlstatus_register'.ready_for_key,
             srot_current_state' \in ReadyStates
      PROVE  llkid_key_ready'
  <2>1. llkid_key_ready BY <1>1, <1>6 DEF PpMoves
  <2>2. ~llkid_key_valid BY <1>4, <1>6 DEF ReadyStates
  <2> QED BY <1>3, <2>1, <2>2
<1>7. ASSUME srot_current_state' = "KL_CHECK_READY_STATUS", ~InFabric',
             rdata'.ready_for_key
      PROVE  llkid_key_ready'
  <2>1. srot_current_state \in WaitStates /\ ~d.valid
        BY <1>1, <1>7 DEF AccessGoes, WaitStates, StatusStates
  <2>2. srot_current_state = "KL_CHECK_READY_STATUS"
        BY <1>1, <1>7, <2>1 DEF AccessGoes
  <2>3. ~llkid_key_valid /\ llkipp_current_state = "LOAD_KEY_WORDS"
        BY <1>2, <1>4, <1>5, <1>7, <2>2
  <2>4. CASE InFabric
    <3>1. rdata' = llkipp_ctrlstatus_register
          BY <1>1, <1>7, <2>1, <2>2, <2>4 DEF AccessGoes, StatusStates
    <3>2. llkid_key_ready
          BY <1>7, <2>2, <2>3, <3>1 DEF StatusKnown, ReadyKnown, ReadyStates
    <3> QED BY <1>3, <2>3, <3>2
  <2>5. CASE ~InFabric
    <3>1. rdata' = rdata
          BY <1>1, <2>1, <2>2, <2>5 DEF AccessGoes, WriteStates
    <3>2. llkid_key_ready
          BY <1>7, <2>2, <2>3, <2>5, <3>1 DEF StatusKnown, ReadyKnown
    <3> QED BY <1>3, <2>3, <3>2
  <2> QED BY <2>4, <2>5
<1>8. ASSUME srot_current_state' = "KL_LOAD_KEY_WORD" PROVE llkid_key_ready'
  <2>1. llkipp_current_state = "LOAD_KEY_WORDS" BY <1>2, <1>5, <1>8
  <2>2. ~llkid_key_valid BY <1>4, <1>8
  <2>3. \/ srot_current_state = "KL_LOAD_KEY_WORD"
        \/ /\ srot_current_state = "KL_CHECK_READY_STATUS" /\ d.valid
           /\ d.rdata.ready_for_key
        BY <1>1, <1>8 DEF DialogueFrom, LoadStates
  <2>4. d.valid => ~InFabric BY <1>1 DEF AccessGoes
  <2>5. llkid_key_ready
        BY <1>1, <2>1, <2>3, <2>4 DEF StatusKnown, ReadyKnown
  <2> QED BY <1>3, <2>2, <2>5
<1>9. ASSUME srot_current_state' = "KL_LOAD_KEY_WORD_WAIT_FOR_ACK", InFabric'
      PROVE  llkid_key_ready'
  <2>1. llkipp_current_state = "LOAD_KEY_WORDS" BY <1>2, <1>5, <1>9
  <2>2. \/ srot_current_state = "KL_LOAD_KEY_WORD"
        \/ srot_current_state = "KL_LOAD_KEY_WORD_WAIT_FOR_ACK" /\ ~d.valid
        BY <1>1, <1>9 DEF DialogueFrom, LoadStates, ReadyStates
  <2>3. CASE srot_current_state = "KL_LOAD_KEY_WORD"
    <3>1. ~llkid_key_valid BY <1>4, <2>3
    <3>2. llkid_key_ready BY <2>1, <2>3 DEF StatusKnown, ReadyKnown
    <3> QED BY <1>3, <3>1, <3>2
  <2>4. CASE srot_current_state = "KL_LOAD_KEY_WORD_WAIT_FOR_ACK" /\ ~d.valid
    <3>1. InFabric BY <1>1, <1>9, <2>4 DEF AccessGoes, WaitStates, WriteStates
    <3>2. ~CoreWriting BY <3>1, OnePlace
    <3>3. ~llkid_key_valid BY <1>4, <3>2
    <3>4. llkid_key_ready BY <2>1, <2>4, <3>1 DEF StatusKnown, ReadyKnown
    <3> QED BY <1>3, <3>3, <3>4
  <2> QED BY <2>2, <2>3, <2>4
<1> QED BY <1>6, <1>7, <1>8, <1>9

\* The TSS is at rest when the LLKI-PP is between messages or answers one.
LEMMA TssKnownStep ==
    ASSUME TypeOK, RequestKnown, PpKnown, StatusKnown, CoreKnown, CoreKnown',
           NEW d, NEW r, NEW fwd, Moves(d, r, fwd)
    PROVE  TssKnown'
<1>1. PpMoves(r) /\ Core!TssStep
      BY DEF Moves, Edge
<1>2. /\ llkipp_current_state \in Core!PpState
      /\ llkid_key_valid \in BOOLEAN /\ llkid_clear_key \in BOOLEAN
      /\ llkid_key_complete \in BOOLEAN
      BY CoreStates
<1>3. /\ llkipp_current_state \in {"IDLE", "MESSAGE_CHECK"} => ~llkid_clear_key
      /\ llkipp_current_state = "RESPONSE" /\ llkid_clear_key =>
             ~llkid_key_complete /\ llkid_key_register = Core!NoKey
      /\ llkipp_current_state \in {"IDLE", "MESSAGE_CHECK", "RESPONSE"} =>
             tss_state = "IDLE"
      BY DEF StatusKnown, TssKnown
<1>4. llkipp_current_state \in {"IDLE", "MESSAGE_CHECK", "RESPONSE"} =>
          tss_state' = "IDLE"
  <2>1. llkipp_current_state \in {"IDLE", "MESSAGE_CHECK", "RESPONSE"} =>
            ~llkid_key_valid
        BY DEF CoreKnown
  <2> QED BY <1>1, <1>3, <2>1, CoreRests
<1>5. llkipp_current_state' \in {"IDLE", "MESSAGE_CHECK"} =>
          llkipp_current_state \in {"IDLE", "RESPONSE"}
  <2>1. llkipp_current_state = "MESSAGE_CHECK" =>
            llkipp_current_state' \notin {"IDLE", "MESSAGE_CHECK"}
        BY <1>1 DEF PpMoves
  <2>2. llkipp_current_state = "LOAD_KEY_WORDS" =>
            llkipp_current_state' \notin {"IDLE", "MESSAGE_CHECK"}
        BY <1>1, <1>2 DEF PpMoves
  <2>3. llkipp_current_state = "WAIT_FOR_COMPLETE" =>
            llkipp_current_state' \notin {"IDLE", "MESSAGE_CHECK"}
        BY <1>1 DEF PpMoves
  <2>4. llkipp_current_state = "CLEAR_KEY" =>
            llkipp_current_state' \notin {"IDLE", "MESSAGE_CHECK"}
        BY <1>1 DEF PpMoves
  <2> QED BY <1>2, <2>1, <2>2, <2>3, <2>4 DEF Core!PpState
<1>6. llkid_clear_key' => llkipp_current_state = "CLEAR_KEY"
      BY <1>1, PpFrom
<1>7. ASSUME llkipp_current_state = "CLEAR_KEY", llkipp_current_state' = "RESPONSE"
      PROVE  /\ ~llkid_key_complete' /\ llkid_key_register' = Core!NoKey
             /\ tss_state' = "IDLE"
  <2>1. IF llkid_clear_key_ack /\ pp_msg_id # "ERRORRESP"
        THEN pp_msg_id' = "KLCLEARKEYACK" /\ pp_status' = "GOOD"
        ELSE UNCHANGED <<pp_msg_id, pp_status>>
        BY <1>1, <1>7 DEF PpMoves
  <2>2. llkid_clear_key_ack
        BY <1>1, <1>7 DEF PpMoves
  <2>3. \/ pp_msg_id = "KLCLEARKEYREQ"
        \/ pp_msg_id = "ERRORRESP" /\ pp_status = "KL_BAD_KEY_LEN"
        BY <1>7 DEF CoreKnown
  <2>4. pp_msg_id' = "KLCLEARKEYACK" \/ pp_status' = "KL_BAD_KEY_LEN"
        BY <2>1, <2>2, <2>3
  <2> QED BY <1>7, <2>4 DEF CoreKnown
<1>8. ASSUME llkipp_current_state' = "RESPONSE" PROVE tss_state' = "IDLE"
  <2>1. CASE llkipp_current_state = "LOAD_KEY_WORDS" /\ Core!SendrecvWrite(r)
               /\ ~llkid_key_ready
    <3>1. Open BY <2>1 DEF PpKnown, PpIdleKnown, Open
    <3>2. srot_current_state = "KL_LOAD_KEY_WORD_WAIT_FOR_ACK" /\ InFabric
          BY <2>1, <3>1, WordWrite
    <3> QED BY <2>1, <3>2 DEF StatusKnown, ReadyKnown
  <2>2. CASE llkipp_current_state = "WAIT_FOR_COMPLETE" /\ llkid_key_complete
    <3>1. tss_state = "IDLE" /\ ~llkid_key_valid /\ ~llkid_clear_key
          BY <2>2 DEF CoreKnown
    <3> QED BY <1>1, <3>1, CoreRests
  <2> QED BY <1>1, <1>4, <1>7, <1>8, <2>1, <2>2, PpFrom
<1>9. llkipp_current_state' \in {"IDLE", "MESSAGE_CHECK"} => ~llkid_clear_key'
      BY <1>5, <1>6
<1>10. llkipp_current_state' = "RESPONSE" /\ llkid_clear_key' =>
           ~llkid_key_complete' /\ llkid_key_register' = Core!NoKey
      BY <1>6, <1>7
<1>11. llkipp_current_state' \in {"IDLE", "MESSAGE_CHECK", "RESPONSE"} =>
           tss_state' = "IDLE"
      BY <1>4, <1>5, <1>8
<1>12. Core!NoKey' = Core!NoKey
      BY DEF Core!NoKey, Core!KeyIndex, Core!ZeroWord, Core!HeaderWord, Core!MidReset,
         Core!StatusReset
<1> QED BY <1>9, <1>10, <1>11, <1>12 DEF TssKnown

-----------------------------------------------------------------------------
(* The key words *)

\* What the TSS does while nothing is cleared.
TssMoves ==
    /\ tss_state = "IDLE" =>
           /\ llkid_key_word_counter' = 0
           /\ llkid_key_complete' = llkid_key_complete
           /\ tss_state' = IF llkid_key_valid THEN "WAIT_STATE0" ELSE "IDLE"
    /\ tss_state = "WAIT_STATE0" =>
           /\ ~llkid_key_complete'
           /\ \/ /\ tss_state' = "WAIT_STATE2"
                 /\ llkid_key_word_counter = KeyWords - 1
              \/ /\ tss_state' = "WAIT_FOR_NEXT_KEY_WORD"
                 /\ llkid_key_word_counter' = llkid_key_word_counter + 1
              \/ /\ tss_state' = "WAIT_STATE0"
                 /\ llkid_key_word_counter' = llkid_key_word_counter
    /\ tss_state = "WAIT_FOR_NEXT_KEY_WORD" =>
           /\ ~llkid_key_complete'
           /\ llkid_key_word_counter' = llkid_key_word_counter
           /\ tss_state' = IF llkid_key_valid THEN "WAIT_STATE0"
                           ELSE "WAIT_FOR_NEXT_KEY_WORD"
    /\ tss_state = "WAIT_STATE2" =>
           tss_state' = IF llkid_key_complete' THEN "IDLE" ELSE "WAIT_STATE2"
    /\ llkid_key_register' =
           IF /\ tss_state \in {"IDLE", "WAIT_FOR_NEXT_KEY_WORD"}
              /\ llkid_key_valid
           THEN [llkid_key_register EXCEPT ![llkid_key_word_counter] = llkid_key_data]
           ELSE llkid_key_register

LEMMA TssMovesSo ==
    ASSUME TypeOK, Core!TssStep, ~llkid_clear_key,
           tss_state \notin {"CLEAR_KEY", "WAIT_STATE1"}
    PROVE  TssMoves
<1>1. llkid_key_valid \in BOOLEAN /\ llkid_key_complete \in BOOLEAN
      BY CoreStates
<1> USE <1>1 DEF TssMoves, Core!StoreKeyWord, Core!Busy, Core!TssIdleDefault,
        Core!TssNextWordDefault
<1>2. ~Core!TssIdleClear /\ ~Core!TssNextWordClear
      BY DEF Core!TssIdleClear, Core!TssNextWordClear
<1>3. ~Core!TssClearKey /\ ~Core!TssWaitState1
      BY DEF Core!TssClearKey, Core!TssWaitState1
<1>4. CASE Core!TssIdleLoad BY <1>4 DEF Core!TssIdleLoad
<1>5. CASE Core!TssIdleStay BY <1>5 DEF Core!TssIdleStay
<1>6. CASE Core!TssWaitState0Last BY <1>6 DEF Core!TssWaitState0Last
<1>7. CASE Core!TssWaitState0More BY <1>7 DEF Core!TssWaitState0More
<1>8. CASE Core!TssWaitState0Count BY <1>8 DEF Core!TssWaitState0Count
<1>9. CASE Core!TssNextWordLoad BY <1>9 DEF Core!TssNextWordLoad
<1>10. CASE Core!TssNextWordStay BY <1>10 DEF Core!TssNextWordStay
<1>11. CASE Core!TssWaitState2 BY <1>11 DEF Core!TssWaitState2
<1> QED BY <1>2, <1>3, <1>4, <1>5, <1>6, <1>7, <1>8, <1>9, <1>10, <1>11
        DEF Core!TssStep

\* During a load the LLKI-PP accepts one word after the other, and the word it
\* accepts is the next of the key.
LEMMA WordsGo ==
    ASSUME TypeOK, RequestKnown, PpKnown, StatusKnown, CoreKnown,
           NEW d, NEW r, NEW fwd, Moves(d, r, fwd), PpIdleKnown', Loading, Loading'
    PROVE  /\ Accepted \in Int /\ Asked' = Asked /\ keyram' = keyram
           /\ Asked.low \in Nat
           /\ Accepted' = IF llkid_key_valid' THEN Accepted + 1 ELSE Accepted
           /\ llkid_key_valid' => llkid_key_data' = keyram[Asked.low + Accepted]
<1>1. PpMoves(r) /\ RequestStays /\ MessageMoves
      BY DEF Moves, Edge
<1>2. Open /\ Open'
      BY DEF PpKnown, PpIdleKnown, Open, Loading
<1>3. /\ srot_current_state \in Dialogue
      /\ Asked' = Asked /\ keyram' = keyram
      BY <1>1, <1>2, OpenStays
<1>4. /\ Asked.low \in Nat /\ Asked.high \in Nat /\ current_pointer \in Nat
      BY <1>1, <1>3, AskedInRam
<1>5. /\ pp_msg_len \in Nat /\ llkid_key_valid \in BOOLEAN
      /\ llkid_key_complete \in BOOLEAN /\ llkid_key_ready \in BOOLEAN
      BY CoreStates
<1>6. Accepted \in Int
      BY <1>4, <1>5 DEF Accepted
<1>7. CASE llkipp_current_state = "WAIT_FOR_COMPLETE"
  <2>1. ~llkid_key_valid' /\ llkipp_current_state' # "LOAD_KEY_WORDS"
        BY <1>1, <1>7 DEF PpMoves
  <2>2. Accepted' = Accepted
        BY <1>3, <1>7, <2>1 DEF Accepted
  <2> QED BY <1>3, <1>4, <1>6, <2>1, <2>2
<1>8. CASE llkipp_current_state = "LOAD_KEY_WORDS" /\ ~Core!SendrecvWrite(r)
  <2>1. /\ ~llkid_key_valid' /\ llkipp_current_state' = "LOAD_KEY_WORDS"
        /\ pp_msg_len' = pp_msg_len
        BY <1>1, <1>8 DEF PpMoves
  <2>2. Accepted' = Accepted
        BY <1>3, <1>8, <2>1 DEF Accepted
  <2> QED BY <1>3, <1>4, <1>6, <2>1, <2>2
<1>9. CASE llkipp_current_state = "LOAD_KEY_WORDS" /\ Core!SendrecvWrite(r)
  <2>1. /\ srot_current_state = "KL_LOAD_KEY_WORD_WAIT_FOR_ACK" /\ InFabric
        /\ r.wdata = keyram[current_pointer]
        BY <1>2, <1>9, WordWrite
  <2>2. pp_msg_len = (Asked.high - current_pointer) + 2
        BY <1>9, <2>1 DEF PpKnown, PpLoadKnown, Sent
  <2>3. Asked.low + Accepted = current_pointer
        BY <1>4, <1>9, <2>2 DEF Accepted
  <2>4. llkid_key_ready
        BY <1>9, <2>1 DEF StatusKnown, ReadyKnown
  <2>5. ~llkid_key_complete
    <3>1. llkid_key_complete => llkipp_current_state' = "CLEAR_KEY"
          BY <1>1, <1>9, <2>4 DEF PpMoves
    <3> QED BY <3>1 DEF Loading
  <2>6. /\ llkid_key_data' = r.wdata /\ llkid_key_valid'
        /\ IF pp_msg_len = 2
           THEN llkipp_current_state' = "WAIT_FOR_COMPLETE"
           ELSE /\ pp_msg_len' = pp_msg_len - 1
                /\ llkipp_current_state' = llkipp_current_state
        BY <1>1, <1>9, <2>4, <2>5 DEF PpMoves
  <2>7. Accepted' = Accepted + 1
    <3>1. CASE pp_msg_len = 2
          BY <1>3, <1>4, <1>9, <2>6, <3>1 DEF Accepted
    <3>2. CASE pp_msg_len # 2
          BY <1>3, <1>4, <1>5, <1>9, <2>6, <3>2 DEF Accepted
    <3> QED BY <3>1, <3>2
  <2> QED BY <1>3, <1>4, <1>6, <2>1, <2>3, <2>6, <2>7
<1> QED BY <1>7, <1>8, <1>9 DEF Loading

\* A load begins with no word accepted.
LEMMA LoadBegins ==
    ASSUME TypeOK, RequestKnown, PpKnown, StatusKnown, CoreKnown,
           NEW d, NEW r, NEW fwd, Moves(d, r, fwd),
           llkipp_current_state = "MESSAGE_CHECK", Loading'
    PROVE  /\ ~llkid_key_valid' /\ Stored' = 0
           /\ tss_state' = "IDLE" /\ ~llkid_key_complete'
<1>1. PpMoves(r) /\ RequestStays /\ Core!PpStep(r) /\ Core!TssStep
      BY DEF Moves, Edge
<1>2. ~llkid_key_valid'
      BY <1>1 DEF PpMoves
<1>3. PpIdleKnown BY DEF PpKnown
<1>4. /\ srot_current_state \in Dialogue /\ msg_id = "C2LOADKEYREQ"
      /\ ~llkid_key_complete /\ llkipp_current_state' = "LOAD_KEY_WORDS"
      /\ pp_msg_len' = (Asked.high - Asked.low) + 2
  <2>1. /\ srot_current_state \in Dialogue /\ msg_id \in C2Request
        /\ msg_id = "C2LOADKEYREQ" /\ llkid_key_complete =>
               llkipp_current_state' = "RESPONSE"
        /\ msg_id = "C2LOADKEYREQ" /\ ~llkid_key_complete =>
               /\ llkipp_current_state' = "LOAD_KEY_WORDS"
               /\ pp_msg_len' = (Asked.high - Asked.low) + 2
        /\ msg_id = "C2CLEARKEYREQ" => llkipp_current_state' = "CLEAR_KEY"
        /\ msg_id = "C2KEYSTATUSREQ" => llkipp_current_state' = "RESPONSE"
        BY <1>1, <1>3, Checked
  <2> QED BY <2>1 DEF Loading, C2Request
<1>5. /\ Asked' = Asked /\ Asked.low \in Nat /\ Asked.high \in Nat
      BY <1>1, <1>4, AskedStays, AskedInRam
<1>6. Accepted' = 0
      BY <1>4, <1>5 DEF Accepted
<1>7. Stored' = 0
      BY <1>2, <1>6 DEF Stored
<1>8. tss_state = "IDLE" /\ ~llkid_clear_key /\ ~llkid_key_valid
      BY DEF StatusKnown, TssKnown, CoreKnown
<1>9. tss_state' = "IDLE" /\ llkid_key_complete' = llkid_key_complete
      BY <1>1, <1>8, CoreRests
<1> QED BY <1>2, <1>4, <1>7, <1>9

\* While it lasts the TSS stores the word it is given.
LEMMA LoadGoesOn ==
    ASSUME TypeOK, RequestKnown, PpKnown, StatusKnown, CoreKnown,
           NEW d, NEW r, NEW fwd, Moves(d, r, fwd), PpIdleKnown', Loading, Loading'
    PROVE  /\ Stored \in Int /\ TssMoves
           /\ Stored' = IF llkid_key_valid THEN Stored + 1 ELSE Stored
           /\ tss_state \in {"IDLE", "WAIT_STATE0", "WAIT_FOR_NEXT_KEY_WORD",
                             "WAIT_STATE2"}
           /\ llkid_key_valid =>
                  /\ tss_state \in {"IDLE", "WAIT_FOR_NEXT_KEY_WORD"}
                  /\ ~llkid_key_complete
<1>1. Core!TssStep BY DEF Moves, Edge
<1>2. /\ Accepted \in Int
      /\ Accepted' = IF llkid_key_valid' THEN Accepted + 1 ELSE Accepted
      BY WordsGo
<1>3. llkid_key_valid \in BOOLEAN /\ tss_state \in Core!TssState
      BY CoreStates
<1>4. Stored \in Int /\ Stored' = Accepted
  <2>1. CASE llkid_key_valid' BY <1>2, <1>3, <2>1 DEF Stored
  <2>2. CASE ~llkid_key_valid' BY <1>2, <1>3, <2>2 DEF Stored
  <2> QED BY <2>1, <2>2
<1>5. Accepted = IF llkid_key_valid THEN Stored + 1 ELSE Stored
      BY <1>2 DEF Stored
<1>6. ~llkid_clear_key /\ tss_state \notin {"CLEAR_KEY", "WAIT_STATE1"}
      BY DEF CoreKnown, Loading
<1>7. TssMoves BY <1>1, <1>6, TssMovesSo
<1>8. llkid_key_valid => /\ tss_state \in {"IDLE", "WAIT_FOR_NEXT_KEY_WORD"}
                         /\ ~llkid_key_complete
      BY DEF CoreKnown
<1> QED BY <1>3, <1>4, <1>5, <1>6, <1>7, <1>8 DEF Core!TssState

LEMMA LoadingFrom ==
    ASSUME TypeOK, NEW r, PpMoves(r), Loading'
    PROVE  llkipp_current_state = "MESSAGE_CHECK" \/ Loading
BY PpFrom DEF Loading

LEMMA WordsCountedStep ==
    ASSUME TypeOK, RequestKnown, PpKnown, StatusKnown, WordsKnown, CoreKnown,
           NEW d, NEW r, NEW fwd, Moves(d, r, fwd), PpIdleKnown'
    PROVE  WordsCounted'
<1> SUFFICES ASSUME Loading'
             PROVE  /\ tss_state' = "IDLE" /\ ~llkid_key_complete' => Stored' = 0
                    /\ tss_state' = "WAIT_FOR_NEXT_KEY_WORD" =>
                           Stored' = llkid_key_word_counter'
                    /\ tss_state' = "WAIT_STATE0" =>
                           Stored' = llkid_key_word_counter' + 1
                    /\ tss_state' = "WAIT_STATE2" \/ llkid_key_complete' =>
                           Stored' = KeyWords
    BY DEF WordsCounted
<1>1. PpMoves(r) BY DEF Moves
<1>2. CASE llkipp_current_state = "MESSAGE_CHECK"
      BY <1>2, LoadBegins
<1>3. CASE Loading
  <2>1. /\ Stored \in Int /\ TssMoves
        /\ Stored' = IF llkid_key_valid THEN Stored + 1 ELSE Stored
        /\ tss_state \in {"IDLE", "WAIT_STATE0", "WAIT_FOR_NEXT_KEY_WORD",
                          "WAIT_STATE2"}
        /\ llkid_key_valid =>
               /\ tss_state \in {"IDLE", "WAIT_FOR_NEXT_KEY_WORD"}
               /\ ~llkid_key_complete
        BY <1>3, LoadGoesOn
  <2>2. /\ tss_state = "IDLE" /\ ~llkid_key_complete => Stored = 0
        /\ tss_state = "WAIT_FOR_NEXT_KEY_WORD" => Stored = llkid_key_word_counter
        /\ tss_state = "WAIT_STATE0" => Stored = llkid_key_word_counter + 1
        /\ tss_state = "WAIT_STATE2" \/ llkid_key_complete => Stored = KeyWords
        BY <1>3 DEF WordsKnown, WordsCounted
  <2>3. /\ KeyWords \in Nat /\ llkid_key_word_counter \in Nat
        /\ llkid_key_valid \in BOOLEAN /\ llkid_key_complete \in BOOLEAN
    <3>1. llkid_key_word_counter \in 0 .. KeyWords - 1
          BY DEF TypeOK, Core!TypeOK, Core!TssTypeOK, Core!KeyIndex
    <3> QED BY <3>1, CoreAssumption, CoreStates
  <2>4. CASE tss_state = "IDLE" /\ llkid_key_valid
        BY <2>1, <2>2, <2>3, <2>4 DEF TssMoves
  <2>5. CASE tss_state = "IDLE" /\ ~llkid_key_valid
        BY <2>1, <2>2, <2>3, <2>5 DEF TssMoves
  <2>6. CASE tss_state = "WAIT_FOR_NEXT_KEY_WORD"
        BY <2>1, <2>2, <2>3, <2>6 DEF TssMoves
  <2>7. CASE tss_state = "WAIT_STATE0"
        BY <2>1, <2>2, <2>3, <2>7 DEF TssMoves
  <2>8. CASE tss_state = "WAIT_STATE2"
        BY <2>1, <2>2, <2>3, <2>8 DEF TssMoves
  <2> QED BY <2>1, <2>4, <2>5, <2>6, <2>7, <2>8
<1> QED BY <1>1, <1>2, <1>3, LoadingFrom

LEMMA WordsRightStep ==
    ASSUME TypeOK, RequestKnown, PpKnown, StatusKnown, WordsKnown, CoreKnown,
           NEW d, NEW r, NEW fwd, Moves(d, r, fwd), PpIdleKnown'
    PROVE  WordsRight'
<1> SUFFICES ASSUME Loading'
             PROVE  /\ \A i \in 0 .. KeyWords - 1 :
                           i < Stored' => llkid_key_register'[i] = keyram'[Asked'.low + i]
                    /\ llkid_key_valid' =>
                           llkid_key_data' = keyram'[(Asked'.low + Accepted') - 1]
    BY DEF WordsRight
<1>1. PpMoves(r) BY DEF Moves
<1>2. CASE llkipp_current_state = "MESSAGE_CHECK"
  <2>1. ~llkid_key_valid' /\ Stored' = 0
        BY <1>2, LoadBegins
  <2>2. \A i \in 0 .. KeyWords - 1 : ~(i < 0)
        BY CoreAssumption
  <2> QED BY <2>1, <2>2
<1>3. CASE Loading
  <2>1. /\ Accepted \in Int /\ Asked' = Asked /\ keyram' = keyram
        /\ Asked.low \in Nat
        /\ Accepted' = IF llkid_key_valid' THEN Accepted + 1 ELSE Accepted
        /\ llkid_key_valid' => llkid_key_data' = keyram[Asked.low + Accepted]
        BY <1>3, WordsGo
  <2>2. llkid_key_valid' =>
            llkid_key_data' = keyram'[(Asked'.low + Accepted') - 1]
        BY <2>1
  <2>3. /\ Stored \in Int /\ TssMoves
        /\ Stored' = IF llkid_key_valid THEN Stored + 1 ELSE Stored
        /\ llkid_key_valid =>
               /\ tss_state \in {"IDLE", "WAIT_FOR_NEXT_KEY_WORD"}
               /\ ~llkid_key_complete
        BY <1>3, LoadGoesOn
  <2>4. \A i \in 0 .. KeyWords - 1 :
            i < Stored => llkid_key_register[i] = keyram[Asked.low + i]
        BY <1>3 DEF WordsKnown, WordsRight
  <2>5. CASE ~llkid_key_valid
    <3>1. llkid_key_register' = llkid_key_register /\ Stored' = Stored
          BY <2>3, <2>5 DEF TssMoves
    <3> QED BY <2>1, <2>2, <2>4, <3>1
  <2>6. CASE llkid_key_valid
    <3>1. llkid_key_word_counter = Stored
      <4>1. CASE tss_state = "IDLE"
            BY <1>3, <2>3, <2>6, <4>1
            DEF WordsKnown, WordsCounted, WordOnItsWay
      <4>2. CASE tss_state = "WAIT_FOR_NEXT_KEY_WORD"
            BY <1>3, <4>2 DEF WordsKnown, WordsCounted
      <4> QED BY <2>3, <2>6, <4>1, <4>2
    <3>2. llkid_key_data = keyram[Asked.low + Stored]
      <4>1. llkid_key_data = keyram[(Asked.low + Accepted) - 1]
            BY <1>3, <2>6 DEF WordsKnown, WordsRight
      <4>2. Stored = Accepted - 1 BY <2>6 DEF Stored
      <4>3. (Asked.low + Accepted) - 1 = Asked.low + Stored
            BY <2>1, <4>2
      <4> QED BY <4>1, <4>3
    <3>3. llkid_key_register' =
              [llkid_key_register EXCEPT ![Stored] = keyram[Asked.low + Stored]]
          BY <2>3, <2>6, <3>1, <3>2 DEF TssMoves
    <3>4. llkid_key_register \in [0 .. KeyWords - 1 -> Word]
          BY SamePackage DEF TypeOK, Core!TypeOK, Core!TssTypeOK, Core!KeyIndex
    <3>5. Stored' = Stored + 1 BY <2>3, <2>6
    <3>6. \A i \in 0 .. KeyWords - 1 :
              i < Stored' => llkid_key_register'[i] = keyram[Asked.low + i]
      <4> SUFFICES ASSUME NEW i \in 0 .. KeyWords - 1, i < Stored + 1
                   PROVE  llkid_key_register'[i] = keyram[Asked.low + i]
          BY <3>5
      <4>1. KeyWords \in Nat BY CoreAssumption
      <4>2. CASE i = Stored BY <3>3, <3>4, <4>2
      <4>3. CASE i < Stored BY <2>3, <2>4, <3>3, <3>4, <4>1, <4>3
      <4> QED BY <2>3, <4>1, <4>2, <4>3
    <3> QED BY <2>1, <2>2, <3>6
  <2> QED BY <2>5, <2>6
<1> QED BY <1>1, <1>2, <1>3, LoadingFrom

LEMMA WordOnItsWayStep ==
    ASSUME TypeOK, RequestKnown, PpKnown, StatusKnown, WordsKnown, CoreKnown,
           NEW d, NEW r, NEW fwd, Moves(d, r, fwd), PpIdleKnown'
    PROVE  WordOnItsWay'
<1>1. /\ PpMoves(r) /\ AccessGoes(d, fwd) /\ PortSeen(r, fwd) /\ Core!TssStep
      /\ d.valid \in BOOLEAN /\ fwd \in BOOLEAN
      BY DEF Moves, Edge
<1>2. ASSUME llkid_key_valid'
      PROVE  /\ srot_current_state' = "KL_LOAD_KEY_WORD_WAIT_FOR_ACK" /\ CoreWriting'
             /\ tss_state' = "IDLE" => llkid_key_word_counter' = 0
  <2>1. llkipp_current_state = "LOAD_KEY_WORDS" /\ Core!SendrecvWrite(r)
          /\ llkid_key_ready
        BY <1>1, <1>2, PpFrom
  <2>2. Open BY <2>1 DEF PpKnown, PpIdleKnown, Open
  <2>3. srot_current_state' = "KL_LOAD_KEY_WORD_WAIT_FOR_ACK" /\ CoreWriting'
        BY <2>1, <2>2, WordWrite
  <2>4. /\ tss_state \in {"IDLE", "WAIT_FOR_NEXT_KEY_WORD"}
        /\ ~llkid_clear_key
        BY <2>1 DEF CoreKnown
  <2>5. TssMoves BY <1>1, <2>4, TssMovesSo
  <2>6. tss_state' = "IDLE" => llkid_key_word_counter' = 0
    <3>1. llkid_key_valid \in BOOLEAN BY CoreStates
    <3> QED BY <2>4, <2>5, <3>1 DEF TssMoves
  <2> QED BY <2>3, <2>6
<1>3. ASSUME srot_current_state' = "KL_LOAD_KEY_WORD_WAIT_FOR_ACK", CoreWriting'
      PROVE  llkid_key_valid' \/ pp_msg_id' = "ERRORRESP"
  <2>1. srot_current_state \in WaitStates /\ ~d.valid
        BY <1>1, <1>3 DEF AccessGoes
  <2>2. srot_current_state = "KL_LOAD_KEY_WORD_WAIT_FOR_ACK" /\ InFabric /\ fwd
    <3>1. ~InFabric' BY <1>3 DEF InFabric, CoreIdle, CoreWriting
    <3> QED BY <1>1, <1>3, <2>1, <3>1 DEF AccessGoes
  <2>3. Core!SendrecvWrite(r)
        BY <1>1, <2>2 DEF PortSeen, WriteStates
  <2>4. Open /\ Sending /\ srot_current_state \in LoadStates
        BY <2>2 DEF Open, Undelivered, Closed, Sending, LoadStates, Dialogue
  <2>5. sw_request.id = "C2LOADKEYREQ" /\ msg_id = "C2LOADKEYREQ"
        BY <2>4 DEF RequestKnown, MessageInHand, Dialogue
  <2>6. llkipp_current_state \in {"LOAD_KEY_WORDS", "CLEAR_KEY", "RESPONSE",
                                  "WAIT_FOR_COMPLETE"}
    <3>1. llkipp_current_state \in Core!PpState BY CoreStates
    <3>2. llkipp_current_state # "IDLE" /\ llkipp_current_state # "MESSAGE_CHECK"
          BY <2>2, <2>4 DEF PpKnown, PpIdleKnown, Open
    <3> QED BY <3>1, <3>2 DEF Core!PpState
  <2>7. llkipp_current_state \in {"WAIT_FOR_COMPLETE", "RESPONSE"} =>
            pp_msg_id # "KLLOADKEYACK"
        BY <2>4 DEF PpKnown, PpLoadKnown
  <2>8. llkipp_current_state # "WAIT_FOR_COMPLETE"
        BY <2>7 DEF PpKnown, PpLoadKnown
  <2>9. CASE llkipp_current_state = "LOAD_KEY_WORDS"
    <3>1. llkid_key_ready BY <2>2, <2>9 DEF StatusKnown, ReadyKnown
    <3>2. llkid_key_complete \in BOOLEAN BY CoreStates
    <3> QED BY <1>1, <2>3, <2>9, <3>1, <3>2 DEF PpMoves
  <2>10. CASE llkipp_current_state = "CLEAR_KEY"
    <3>1. pp_msg_id = "ERRORRESP"
          BY <2>5, <2>10 DEF PpKnown, PpAnswerKnown
    <3> QED BY <1>1, <2>10, <3>1 DEF PpMoves
  <2>11. CASE llkipp_current_state = "RESPONSE"
    <3>1. Told(pp_msg_id, pp_status)
          BY <2>11 DEF PpKnown, PpAnswerKnown
    <3>2. pp_msg_id = "ERRORRESP"
          BY <2>5, <2>7, <2>11, <3>1 DEF Told
    <3> QED BY <1>1, <2>11, <3>2 DEF PpMoves
  <2> QED BY <2>6, <2>8, <2>9, <2>10, <2>11
<1> QED BY <1>2, <1>3 DEF WordOnItsWay

\* All that is known of the core and of what the SRoT has seen of it.
LEMMA CoreSideStep ==
    ASSUME TypeOK, RequestKnown, PpKnown, StatusKnown, WordsKnown, CoreKnown, CoreKnown',
           NEW d, NEW r, NEW fwd, Moves(d, r, fwd)
    PROVE  PpKnown' /\ StatusKnown' /\ WordsKnown'
<1>1. PpIdleKnown' /\ WaitingKnown'
      BY PpIdleKnownStep, WaitingKnownStep DEF PpKnown, StatusKnown
<1>2. PpLoadKnown'
      BY <1>1, PpLoadKnownStep DEF StatusKnown
<1>3. PpAnswerKnown' BY <1>1, PpAnswerKnownStep
<1>4. ReadyKnown' /\ TssKnown' BY ReadyKnownStep, TssKnownStep
<1>5. WordOnItsWay' /\ WordsCounted' /\ WordsRight'
      BY <1>1, WordOnItsWayStep, WordsCountedStep, WordsRightStep
<1> QED BY <1>1, <1>2, <1>3, <1>4, <1>5 DEF PpKnown, StatusKnown, WordsKnown

-----------------------------------------------------------------------------
(* The response reaches the software as it was made *)

\* Responses are nowhere but where TokenKnown says.
LEMMA InFlightIs ==
    ASSUME TypeOK, SlaveKnown, TokenKnown, NEW resp \in ResponsesInFlight
    PROVE  /\ \/ Offered /\ resp = respfifo_wdata_i
              \/ Ready /\ resp = Head(llkic2_respfifo)
              \/ Fetched /\ resp = s_rdata
           /\ ResponsesInFlight = {resp} /\ Len(llkic2_respfifo) <= 1
           /\ sw_request # None /\ Resting
<1>1. sw_op = "FETCH" => Ready \/ Fetched
      BY DEF SlaveKnown, TokenKnown
<1>2. \A x : /\ {<<x>>[i] : i \in DOMAIN <<x>>} = {x}
             /\ Len(<<x>>) = 1 /\ <<x>> # <<>>
      OBVIOUS
<1>3. {<<>>[i] : i \in DOMAIN <<>>} = {} /\ Len(<<>>) = 0
      OBVIOUS
<1> DEFINE x == Head(llkic2_respfifo)
<1>4. CASE Ready
  <2>1. /\ respfifo_wdata_i = None /\ llkic2_respfifo = <<x>>
        /\ ~(sw_op = "FETCH" /\ s_d_valid)
        BY <1>4 DEF Ready, Holds, SlaveKnown
  <2> HIDE DEF x
  <2>2. ResponsesInFlight = {x} /\ Len(llkic2_respfifo) = 1
        BY <1>2, <2>1 DEF ResponsesInFlight
  <2> QED BY <1>4, <2>2 DEF Ready, x
<1>5. CASE Fetched
  <2>1. /\ respfifo_wdata_i = None /\ llkic2_respfifo = <<>>
        /\ sw_op = "FETCH" /\ s_d_valid
        BY <1>5 DEF Fetched, Holds
  <2>2. ResponsesInFlight = {s_rdata} /\ Len(llkic2_respfifo) = 0
        BY <1>3, <2>1 DEF ResponsesInFlight
  <2>3. sw_request # None
        BY <2>1 DEF SlaveKnown
  <2> QED BY <1>5, <2>2, <2>3 DEF Fetched
<1>6. CASE Offered
  <2>1. ~Ready /\ ~Fetched
        BY <1>6 DEF Offered, Ready, Fetched, Holds
  <2>2. llkic2_respfifo = <<>> /\ sw_op # "FETCH"
        BY <1>1, <1>6, <2>1 DEF Offered, Holds
  <2>3. ResponsesInFlight = {respfifo_wdata_i} /\ Len(llkic2_respfifo) = 0
    <3>1. respfifo_wdata_i # None BY <1>6 DEF Offered
    <3> QED BY <1>3, <2>2, <3>1 DEF ResponsesInFlight
  <2> QED BY <1>6, <2>3 DEF Offered
<1>7. CASE ~Ready /\ ~Fetched /\ ~Offered
  <2>1. respfifo_wdata_i = None /\ llkic2_respfifo = <<>> /\ sw_op # "FETCH"
        BY <1>1, <1>7 DEF TokenKnown, Nowhere, Written, Queued, Taken, Working, Holds
  <2>2. ResponsesInFlight = {}
        BY <1>3, <2>1 DEF ResponsesInFlight
  <2> QED BY <2>2
<1> QED BY <1>4, <1>5, <1>6, <1>7

LEMMA InFlightWhere ==
    TypeOK /\ SlaveKnown /\ TokenKnown =>
        \A q \in ResponsesInFlight :
            \/ Offered /\ q = respfifo_wdata_i
            \/ Ready /\ q = Head(llkic2_respfifo)
            \/ Fetched /\ q = s_rdata
BY InFlightIs

\* One place excludes the others.
LEMMA OnePlaceOnly ==
    SlaveKnown =>
        /\ Nowhere \/ Written \/ Queued \/ Taken \/ Working =>
               ~Offered /\ ~Ready /\ ~Fetched
        /\ Offered => ~Ready /\ ~Fetched
        /\ Ready => ~Fetched
<1>1. \A x : <<x>> # <<>>
      OBVIOUS
<1>2. Offered => ~Ready /\ ~Fetched
      BY DEF Offered, Ready, Fetched, Holds
<1>3. Ready => ~Fetched
      BY <1>1 DEF Ready, Fetched, Holds
<1>4. Nowhere \/ Written \/ Queued \/ Taken \/ Working => ~Offered /\ ~Ready
      BY <1>1 DEF Nowhere, Written, Queued, Taken, Working, Offered, Ready, Holds
<1>5. SlaveKnown /\ (Nowhere \/ Written \/ Queued \/ Taken \/ Working) => ~Fetched
  <2>1. SlaveKnown /\ Fetched => sw_request # None /\ sw_op # "SEND"
        BY DEF SlaveKnown, Fetched
  <2> QED BY <1>1, <2>1 DEF Nowhere, Written, Queued, Taken, Working, Fetched, Holds,
          Resting
<1> QED BY <1>2, <1>3, <1>4, <1>5

\* A response in flight is one the state machine has just made, or was in flight
\* before.
LEMMA InFlightFrom ==
    ASSUME TypeOK, SlaveKnown, TokenKnown, TypeOK', SlaveKnown', TokenKnown',
           NEW a, TokenStep(a), NEW resp \in ResponsesInFlight'
    PROVE  \/ srot_current_state = "C2_RESPONSE" /\ resp = C2ResponseMessage
           \/ /\ resp \in ResponsesInFlight
              /\ sw_request' = sw_request /\ sw_request # None /\ Resting
<1>1. \/ Offered' /\ resp = respfifo_wdata_i'
      \/ Ready' /\ resp = Head(llkic2_respfifo')
      \/ Fetched' /\ resp = s_rdata'
  <2>1. (TypeOK /\ SlaveKnown /\ TokenKnown =>
            \A q \in ResponsesInFlight :
                \/ Offered /\ q = respfifo_wdata_i
                \/ Ready /\ q = Head(llkic2_respfifo)
                \/ Fetched /\ q = s_rdata)'
        BY InFlightWhere, PTL
  <2> QED BY <2>1
<1>2. (SlaveKnown =>
        /\ Nowhere \/ Written \/ Queued \/ Taken \/ Working =>
               ~Offered /\ ~Ready /\ ~Fetched
        /\ Offered => ~Ready /\ ~Fetched
        /\ Ready => ~Fetched)'
      BY OnePlaceOnly, PTL
<1>3. ~Ready /\ ~Fetched => sw_state # "WAITING"
      BY DEF TokenKnown
<1>4. CASE Ready
  <2>1. IF sw_op = "FETCH"
        THEN Fetched' /\ s_rdata' = Head(llkic2_respfifo)
        ELSE Ready' /\ Head(llkic2_respfifo') = Head(llkic2_respfifo)
        BY <1>4, ReadyMoves
  <2>2. resp = Head(llkic2_respfifo)
        BY <1>1, <1>2, <2>1
  <2>3. sw_request' = sw_request /\ sw_request # None /\ Resting
        BY <1>4, ReadyMoves DEF Ready
  <2>4. llkic2_respfifo = <<resp>>
        BY <1>4, <2>2 DEF Ready, Holds
  <2>5. \A x : x \in {<<x>>[i] : i \in DOMAIN <<x>>}
        OBVIOUS
  <2>6. resp \in ResponsesInFlight
        BY <2>4, <2>5 DEF ResponsesInFlight
  <2> QED BY <2>3, <2>6
<1>5. CASE Offered
  <2>1. /\ Ready' /\ Head(llkic2_respfifo') = respfifo_wdata_i
        /\ sw_state # "WAITING" /\ ~Ready /\ ~Fetched
        BY <1>3, <1>5, OfferedMoves, OnePlaceOnly
  <2>2. resp = respfifo_wdata_i
        BY <1>1, <1>2, <2>1
  <2>3. resp # None /\ resp \in ResponsesInFlight
        BY <1>5, <2>2 DEF Offered, ResponsesInFlight
  <2>4. sw_op = "FETCH" => sw_state = "WAITING"
        BY DEF SlaveKnown
  <2>5. sw_request' = sw_request /\ sw_request # None /\ Resting
        BY <1>5, <2>1, <2>4, WhileAsked DEF Offered
  <2> QED BY <2>3, <2>5
<1>6. CASE Working
  <2>1. Working' \/ Offered'
        BY <1>3, <1>6, WorkingMoves, OnePlaceOnly
  <2>2. Offered' /\ resp = respfifo_wdata_i' /\ respfifo_wdata_i' # None
        BY <1>1, <1>2, <2>1 DEF Offered
  <2>3. /\ srot_current_state \notin {"IDLE", "MESSAGE_CHECK"}
        /\ respfifo_wdata_i = None
        BY <1>6 DEF Working, Holds
  <2>4. srot_current_state = "C2_RESPONSE"
        BY <2>2, <2>3 DEF TokenStep, TokenMoves
  <2> QED BY <2>2, <2>4 DEF TokenStep, TokenMoves
<1>7. CASE Nowhere \/ Written \/ Queued \/ Taken \/ Fetched
  <2>1. Nowhere' \/ Written' \/ Queued' \/ Taken' \/ Working'
        BY <1>3, <1>7, OnePlaceOnly, NowhereMoves, WrittenMoves, QueuedMoves,
           TakenMoves, FetchedMoves
  <2> QED BY <1>1, <1>2, <2>1
<1> QED BY <1>4, <1>5, <1>6, <1>7 DEF TokenKnown

-----------------------------------------------------------------------------
(* What the software is told *)

\* Where the state machine gets its response from.
ResponseFrom(d) ==
    srot_current_state' = "C2_RESPONSE" =>
        \/ status' \in Refusal
        \/ /\ srot_current_state = "KL_RESP_READ" /\ d.valid
           /\ msg_id' = d.rdata.id /\ status' = d.rdata.status

LEMMA ResponseFromSo ==
    ASSUME NEW d, ~d.err, StmStep(d)
    PROVE  ResponseFrom(d)
<1> SUFFICES ASSUME srot_current_state' = "C2_RESPONSE"
             PROVE  \/ status' \in Refusal
                    \/ /\ srot_current_state = "KL_RESP_READ" /\ d.valid
                       /\ msg_id' = d.rdata.id /\ status' = d.rdata.status
    BY DEF ResponseFrom
<1> USE DEF Goto, Proceed, Refuse, stmStatus
<1>1. ~StmIdle BY DEF StmIdle
<1>2. CASE StmMessageCheck BY <1>2 DEF StmMessageCheck, Refusal
<1>3. ~StmRetrieveWait BY DEF StmRetrieveWait
<1>4. CASE StmRetrieve BY <1>4 DEF StmRetrieve, Refusal
<1>5. CASE StmReqHeader
  <2>1. srot_current_state = "KL_REQ_HEADER" /\ status' = "BAD_CORE_INDEX"
    <3>1. srot_current_state # srot_current_state' BY <1>5 DEF StmReqHeader
    <3> QED BY <1>5, <3>1, Zenon DEF StmReqHeader
  <2> QED BY <2>1 DEF Refusal
<1>6. ~StmReqWaitForAck(d) BY DEF StmReqWaitForAck
<1>7. ~StmReadReadyStatus BY DEF StmReadReadyStatus
<1>8. ~StmCheckReadyStatus(d) BY DEF StmCheckReadyStatus, NextReadyState
<1>9. ~StmReadyWaitState(d) BY DEF StmReadyWaitState
<1>10. ~StmLoadKeyWord BY DEF StmLoadKeyWord
<1>11. ~StmLoadKeyWordWaitForAck(d) BY DEF StmLoadKeyWordWaitForAck
<1>12. ~StmReadRespStatus BY DEF StmReadRespStatus
<1>13. ~StmCheckRespStatus(d) BY DEF StmCheckRespStatus
<1>14. ~StmRespWaitState(d) BY DEF StmRespWaitState
<1>15. CASE StmRespRead(d) BY <1>15 DEF StmRespRead
<1>16. ~StmC2Response BY DEF StmC2Response
<1> QED BY <1>1, <1>2, <1>3, <1>4, <1>5, <1>6, <1>7, <1>8, <1>9, <1>10, <1>11,
           <1>12, <1>13, <1>14, <1>15, <1>16 DEF StmStep

\* All that a response can be about.
NothingNew ==
    /\ llkid_key_complete' = llkid_key_complete
    /\ llkid_key_register' = llkid_key_register
    /\ sw_request' = sw_request
    /\ KeyLength(sw_request)' = KeyLength(sw_request)
    /\ KeyOf(sw_request)' = KeyOf(sw_request)

LEMMA NothingNewSo ==
    ASSUME TypeOK, StatusKnown, CoreKnown, Core!TssStep,
           llkipp_current_state \in {"IDLE", "RESPONSE"},
           sw_request' = sw_request, keyram' = keyram, keyindexram' = keyindexram
    PROVE  NothingNew
<1>1. /\ tss_state = "IDLE" /\ ~llkid_key_valid
      /\ llkid_clear_key => ~llkid_key_complete /\ llkid_key_register = Core!NoKey
      BY DEF StatusKnown, TssKnown, CoreKnown
<1> QED BY <1>1, CoreRests, SameKey DEF NothingNew

\* What the SRoT has read of the core is true.
LEMMA ReadIsTrue ==
    ASSUME TypeOK, RequestKnown, PpKnown, StatusKnown, CoreKnown, ResponsesKnown,
           NEW d, NEW r, NEW fwd, Moves(d, r, fwd), Closed'
    PROVE  Told(rdata.id, rdata.status)'
<1>1. /\ AccessGoes(d, fwd) /\ RequestStays /\ Core!TssStep
      /\ d.valid \in BOOLEAN /\ fwd \in BOOLEAN
      BY DEF Moves, Edge
<1>2. srot_current_state' = "KL_RESP_READ" /\ ~InFabric'
      BY DEF Closed
<1>3. srot_current_state = "KL_RESP_READ" /\ ~d.valid
  <2>1. srot_current_state = "KL_CHECK_RESP_STATUS" /\ d.valid => InFabric'
        BY <1>1, <1>2 DEF AccessGoes, WaitStates
  <2> QED BY <1>2, <2>1, ToRespRead
<1>4. /\ sw_request' = sw_request /\ keyram' = keyram /\ keyindexram' = keyindexram
      BY <1>1, <1>3 DEF RequestStays
<1>5. Core!NoKey' = Core!NoKey
      BY DEF Core!NoKey, Core!KeyIndex, Core!ZeroWord, Core!HeaderWord, Core!MidReset,
         Core!StatusReset
<1>6. CASE InFabric
  <2>1. rdata' = llkipp_response_word
        BY <1>1, <1>2, <1>3, <1>6 DEF AccessGoes, WaitStates
  <2>2. /\ llkipp_current_state = "RESPONSE"
        /\ llkipp_response_word = Core!HeaderWord(pp_msg_id, pp_status, 1)
        BY <1>3, <1>6 DEF StatusKnown, WaitingKnown, Closed
  <2>3. rdata'.id = pp_msg_id /\ rdata'.status = pp_status
        BY <2>1, <2>2 DEF Core!HeaderWord
  <2>4. Told(pp_msg_id, pp_status)
        BY <2>2 DEF PpKnown, PpAnswerKnown
  <2>5. NothingNew BY <1>1, <1>4, <2>2, NothingNewSo
  <2> QED BY <1>5, <2>3, <2>4, <2>5 DEF NothingNew, Told
<1>7. CASE ~InFabric
  <2>1. Closed BY <1>3, <1>7 DEF Closed
  <2>2. rdata' = rdata
        BY <1>1, <1>3, <1>7 DEF AccessGoes, WaitStates, WriteStates
  <2>3. llkipp_current_state = "IDLE"
        BY <2>1 DEF PpKnown, PpIdleKnown
  <2>4. NothingNew BY <1>1, <1>4, <2>3, NothingNewSo
  <2>5. Told(rdata.id, rdata.status)
        BY <2>1 DEF ResponsesKnown
  <2> QED BY <1>5, <2>2, <2>4, <2>5 DEF NothingNew, Told
<1> QED BY <1>6, <1>7

\* The state machine passes it on, or gives the reason of its refusal.
LEMMA ResponseIsMade ==
    ASSUME TypeOK, RequestKnown, PpKnown, StatusKnown, CoreKnown, ResponsesKnown,
           NEW d, NEW r, NEW fwd, Moves(d, r, fwd),
           srot_current_state' = "C2_RESPONSE"
    PROVE  Told(msg_id, status)' \/ status' \in Refusal
<1>1. /\ AccessGoes(d, fwd) /\ RequestStays /\ Core!TssStep /\ StmStep(d)
      /\ ~d.err /\ d.rdata = rdata
      BY DEF Moves, Edge
<1>2. ResponseFrom(d) BY <1>1, ResponseFromSo
<1>3. Core!NoKey' = Core!NoKey
      BY DEF Core!NoKey, Core!KeyIndex, Core!ZeroWord, Core!HeaderWord, Core!MidReset,
         Core!StatusReset
<1>4. ASSUME srot_current_state = "KL_RESP_READ", d.valid,
             msg_id' = rdata.id, status' = rdata.status
      PROVE  Told(msg_id, status)'
  <2>1. Closed BY <1>1, <1>4 DEF AccessGoes, Closed
  <2>2. Told(rdata.id, rdata.status) /\ llkipp_current_state = "IDLE"
        BY <2>1 DEF ResponsesKnown, PpKnown, PpIdleKnown
  <2>3. sw_request' = sw_request /\ keyram' = keyram /\ keyindexram' = keyindexram
        BY <1>1, <1>4 DEF RequestStays
  <2>4. NothingNew BY <1>1, <2>2, <2>3, NothingNewSo
  <2> QED BY <1>3, <1>4, <2>2, <2>4 DEF NothingNew, Told
<1> QED BY <1>1, <1>2, <1>4 DEF ResponseFrom

\* The response made of it says the same to the software.
LEMMA MadeOfTold ==
    ASSUME Told(msg_id, status) \/ status \in Refusal
    PROVE  Passed(C2ResponseMessage.id, C2ResponseMessage.status)
<1> DEFINE q == C2ResponseMessage
<1>1. \A id, st : C2Message(id, st).id = id /\ C2Message(id, st).status = st
      BY DEF C2Message
<1>2. CASE status \in Refusal
  <2>1. q = C2Message("ERRORRESP", status)
        BY <1>2 DEF C2ResponseMessage, Refusal
  <2> QED BY <1>1, <1>2, <2>1 DEF Passed
<1>3. CASE Told(msg_id, status)
  <2>1. CASE msg_id = "KLLOADKEYACK"
    <3>1. status = "GOOD" BY <1>3, <2>1 DEF Told
    <3>2. q = C2Message("C2LOADKEYACK", status)
          BY <2>1, <3>1 DEF C2ResponseMessage
    <3> QED BY <1>1, <1>3, <2>1, <3>2 DEF Passed
  <2>2. CASE msg_id = "KLCLEARKEYACK"
    <3>1. status = "GOOD" BY <1>3, <2>2 DEF Told
    <3>2. q = C2Message("C2CLEARKEYACK", status)
          BY <2>2, <3>1 DEF C2ResponseMessage
    <3> QED BY <1>1, <1>3, <2>2, <3>2 DEF Passed
  <2>3. CASE msg_id = "KLKEYSTATUSRESP"
    <3>1. status \in {"KEY_PRESENT", "KEY_NOT_PRESENT"} BY <1>3, <2>3 DEF Told
    <3>2. q = C2Message("C2KEYSTATUSRESP", status)
          BY <2>3, <3>1 DEF C2ResponseMessage
    <3> QED BY <1>1, <1>3, <2>3, <3>2 DEF Passed
  <2>4. CASE msg_id = "ERRORRESP"
    <3>1. status \in {"KL_KEY_OVERWRITE", "KL_BAD_KEY_LEN"} BY <1>3, <2>4 DEF Told
    <3>2. q = C2Message("ERRORRESP", status)
          BY <2>4, <3>1 DEF C2ResponseMessage
    <3> QED BY <1>1, <1>3, <2>4, <3>2 DEF Passed
  <2> QED BY <1>3, <2>1, <2>2, <2>3, <2>4 DEF Told
<1> QED BY <1>2, <1>3

LEMMA ResponsesKnownStep ==
    ASSUME Known, Known', RequestKnown, PpKnown, StatusKnown, CoreKnown, ResponsesKnown,
           NEW d, NEW r, NEW fwd, Moves(d, r, fwd), NEW a, TokenStep(a)
    PROVE  ResponsesKnown'
<1>0. TypeOK /\ SlaveKnown /\ TokenKnown /\ TypeOK' /\ SlaveKnown' /\ TokenKnown'
      BY DEF Known
<1>1. Closed' => Told(rdata.id, rdata.status)'
      BY <1>0, ReadIsTrue
<1>2. srot_current_state' = "C2_RESPONSE" =>
          Told(msg_id, status)' \/ status' \in Refusal
      BY <1>0, ResponseIsMade
<1>3. ASSUME NEW resp \in ResponsesInFlight'
      PROVE  resp.rsvd = sw_request'.rsvd /\ Passed(resp.id, resp.status)'
  <2>1. RequestStays /\ Core!TssStep BY DEF Moves, Edge
  <2>2. /\ resp.rsvd = sw_request.rsvd /\ Passed(resp.id, resp.status)
        /\ sw_request' = sw_request
        /\ keyram' = keyram /\ keyindexram' = keyindexram
        /\ llkipp_current_state = "IDLE"
    <3>1. CASE srot_current_state = "C2_RESPONSE" /\ resp = C2ResponseMessage
      <4>1. Passed(resp.id, resp.status)
            BY <3>1, MadeOfTold DEF ResponsesKnown
      <4>2. /\ sw_request' = sw_request
            /\ keyram' = keyram /\ keyindexram' = keyindexram
            BY <2>1, <3>1 DEF RequestStays
      <4>3. resp.rsvd = rsvd
            BY <3>1 DEF C2ResponseMessage, C2Message
      <4>4. rsvd = sw_request.rsvd
            BY <3>1 DEF RequestKnown, MessageInHand
      <4>5. srot_current_state \notin Dialogue
            BY <3>1 DEF Dialogue, LoadStates, ReadyStates, RespStates
      <4>6. llkipp_current_state = "IDLE"
            BY <4>5 DEF PpKnown, PpIdleKnown, Undelivered
      <4> QED BY <4>1, <4>2, <4>3, <4>4, <4>6
    <3>2. CASE /\ resp \in ResponsesInFlight
               /\ sw_request' = sw_request /\ sw_request # None /\ Resting
      <4>1. resp.rsvd = sw_request.rsvd /\ Passed(resp.id, resp.status)
            BY <3>2 DEF ResponsesKnown
      <4>2. keyram' = keyram /\ keyindexram' = keyindexram
            BY <2>1, <3>2 DEF RequestStays
      <4>3. srot_current_state \notin Dialogue
            BY <3>2 DEF Resting, Dialogue, LoadStates, ReadyStates, RespStates
      <4>4. llkipp_current_state = "IDLE"
            BY <4>3 DEF PpKnown, PpIdleKnown, Undelivered
      <4> QED BY <3>2, <4>1, <4>2, <4>4
    <3> QED BY <1>0, <3>1, <3>2, InFlightFrom
  <2>3. NothingNew BY <1>0, <2>1, <2>2, NothingNewSo
  <2>4. Core!NoKey' = Core!NoKey
        BY DEF Core!NoKey, Core!KeyIndex, Core!ZeroWord, Core!HeaderWord, Core!MidReset,
           Core!StatusReset
  <2>5. \A st : /\ Told("KLLOADKEYACK", st) => Told("KLLOADKEYACK", st)'
                /\ Told("KLCLEARKEYACK", st) => Told("KLCLEARKEYACK", st)'
                /\ Told("KLKEYSTATUSRESP", st) => Told("KLKEYSTATUSRESP", st)'
                /\ Told("ERRORRESP", st) => Told("ERRORRESP", st)'
        BY <2>3, <2>4 DEF NothingNew, Told
  <2> QED BY <2>2, <2>3, <2>5 DEF NothingNew, Passed
<1> QED BY <1>1, <1>2, <1>3 DEF ResponsesKnown

-----------------------------------------------------------------------------
(* IInv is an invariant *)

LEMMA IInvInit == Init => IInv /\ Target!IInv
<1> SUFFICES ASSUME Init PROVE IInv /\ Target!IInv
    OBVIOUS
<1>1. Known /\ Target!IInv BY KnownInit
<1>2. /\ srot_current_state = "IDLE" /\ respfifo_wdata_i = None
      /\ llkic2_respfifo = <<>> /\ sw_op = None
      BY DEF Init, SrotInit
<1>3. /\ llkipp_current_state = "IDLE" /\ ~llkid_clear_key /\ ~llkid_key_valid
      /\ tss_state = "IDLE" /\ ~llkipp_response_waiting
      /\ ~llkipp_ctrlstatus_register.resp_waiting
      BY DEF Init, Core!TargetInit, Core!PpInit, Core!TssInit
<1> USE DEF Checking, Dialogue, LoadStates, ReadyStates, RespStates
<1>4. RequestKnown
      BY <1>2 DEF RequestKnown, MessageInHand, EntryInHand, WordInHand, RightData
<1>5. PpKnown
      BY <1>2, <1>3 DEF PpKnown, PpIdleKnown, PpLoadKnown, PpAnswerKnown, Undelivered,
         Closed
<1>6. StatusKnown
      BY <1>2, <1>3 DEF StatusKnown, WaitingKnown, ReadyKnown, TssKnown, StatusStates
<1>7. WordsKnown
      BY <1>2, <1>3 DEF WordsKnown, WordOnItsWay, WordsCounted, WordsRight, Loading
<1>8. ResponsesKnown
  <2>1. ResponsesInFlight = {}
    <3>1. {<<>>[i] : i \in DOMAIN <<>>} = {} OBVIOUS
    <3> QED BY <1>2, <3>1, NoneIsNew DEF ResponsesInFlight
  <2> QED BY <1>2, <2>1 DEF ResponsesKnown, Closed
<1> QED BY <1>1, <1>4, <1>5, <1>6, <1>7, <1>8 DEF IInv

LEMMA IInvNext ==
    ASSUME IInv, Target!IInv, Next
    PROVE  IInv' /\ Target!IInv'
<1>1. PICK fwd \in BOOLEAN, back \in BOOLEAN : Step(fwd, back)
      BY DEF Next
<1>2. /\ Known /\ TypeOK /\ RequestKnown /\ PpKnown /\ StatusKnown /\ WordsKnown
      /\ ResponsesKnown
      BY DEF IInv, Known
<1>3. Known' /\ Target!IInv'
      BY <1>2, KnownStep
<1>4. PICK a : /\ Clock(a, fwd, back)
               /\ Accesses(a) \/ IsAnswered(a) \/ Pauses(a)
      BY <1>1, SoftwareStep
<1>5. TokenStep(a)
      BY <1>2, <1>4, TokenStepSo DEF Known
<1> DEFINE d == KLAnswerChannel(back)
           r == Core!Strobe(KLRequestChannel(fwd))
<1>6. Edge(d, r, fwd)
      BY <1>1, <1>2, EdgeSo
<1> HIDE DEF d, r
<1>7. Moves(d, r, fwd) /\ RequestKnown'
      BY <1>2, <1>6, MovesSo
<1>8. CoreKnown BY CoreKnownSo
<1>9. CoreKnown'
  <2>1. (Target!IInv => CoreKnown)' BY CoreKnownSo, PTL
  <2> QED BY <1>3, <2>1
<1>10. PpKnown' /\ StatusKnown' /\ WordsKnown'
      BY <1>2, <1>7, <1>8, <1>9, CoreSideStep
<1>11. ResponsesKnown'
      BY <1>2, <1>3, <1>5, <1>7, <1>8, ResponsesKnownStep
<1> QED BY <1>3, <1>7, <1>10, <1>11 DEF IInv

LEMMA IInvStutters ==
    ASSUME IInv, UNCHANGED vars
    PROVE  /\ RequestKnown' /\ PpKnown' /\ StatusKnown' /\ WordsKnown'
           /\ ResponsesKnown'
<1> USE DEF vars, swVars, slaveVars, srotVars, decodeVars, memVars, stmVars, coreVars
<1>1. /\ InFabric' = InFabric /\ CoreWriting' = CoreWriting /\ Pending' = Pending
      BY DEF InFabric, CoreIdle, CoreWriting, Pending
<1>2. Asked' = Asked /\ Header' = Header
      BY DEF Asked, EntryOf, Header, low_pointer, high_pointer
<1>3. RequestKnown'
      BY <1>1, <1>2 DEF IInv, RequestKnown, MessageInHand, EntryInHand, WordInHand,
         RightData
<1>4. /\ Undelivered' = Undelivered /\ Closed' = Closed
      /\ Sending' = Sending /\ Sent' = Sent
      BY <1>1 DEF Undelivered, Closed, Sending, Sent
<1>5. /\ KeyLength(sw_request)' = KeyLength(sw_request)
      /\ KeyOf(sw_request)' = KeyOf(sw_request)
      BY SameKey
<1>6. Core!NoKey' = Core!NoKey
      BY DEF Core!NoKey, Core!KeyIndex, Core!ZeroWord, Core!HeaderWord, Core!MidReset,
         Core!StatusReset
<1>7. PpKnown'
  <2>1. PpIdleKnown'
        BY <1>1, <1>2, <1>4 DEF IInv, PpKnown, PpIdleKnown
  <2>2. PpLoadKnown'
        BY <1>2, <1>4 DEF IInv, PpKnown, PpLoadKnown
  <2>3. PpAnswerKnown'
        BY <1>5, <1>6 DEF IInv, PpKnown, PpAnswerKnown, Told
  <2> QED BY <2>1, <2>2, <2>3 DEF PpKnown
<1>8. StatusKnown'
  <2>1. WaitingKnown'
        BY <1>1, <1>4 DEF IInv, StatusKnown, WaitingKnown
  <2>2. ReadyKnown' BY <1>1 DEF IInv, StatusKnown, ReadyKnown
  <2>3. TssKnown' BY <1>6 DEF IInv, StatusKnown, TssKnown
  <2> QED BY <2>1, <2>2, <2>3 DEF StatusKnown
<1>9. WordsKnown'
  <2>1. Accepted' = Accepted /\ Stored' = Stored /\ Loading' = Loading
        BY <1>2 DEF Accepted, Stored, Loading
  <2>2. WordOnItsWay' BY <1>1 DEF IInv, WordsKnown, WordOnItsWay
  <2>3. WordsCounted' BY <2>1 DEF IInv, WordsKnown, WordsCounted
  <2>4. WordsRight' BY <1>2, <2>1 DEF IInv, WordsKnown, WordsRight
  <2> QED BY <2>2, <2>3, <2>4 DEF WordsKnown
<1>10. ResponsesKnown'
  <2>1. ResponsesInFlight' = ResponsesInFlight
        BY DEF ResponsesInFlight
  <2>2. \A id, st : Passed(id, st)' <=> Passed(id, st)
        BY <1>5, <1>6 DEF Passed, Told
  <2>3. Closed' => Told(rdata.id, rdata.status)'
        BY <1>4, <1>5, <1>6 DEF IInv, ResponsesKnown, Told
  <2>4. srot_current_state' = "C2_RESPONSE" =>
            Told(msg_id, status)' \/ status' \in Refusal
        BY <1>5, <1>6 DEF IInv, ResponsesKnown, Told
  <2>5. \A resp \in ResponsesInFlight' :
            resp.rsvd = sw_request'.rsvd /\ Passed(resp.id, resp.status)'
    <3>1. \A resp \in ResponsesInFlight :
              resp.rsvd = sw_request.rsvd /\ Passed(resp.id, resp.status)
          BY DEF IInv, ResponsesKnown
    <3> QED BY <1>5, <1>6, <2>1, <3>1 DEF Passed, Told
  <2> QED BY <2>3, <2>4, <2>5 DEF ResponsesKnown
<1> QED BY <1>3, <1>7, <1>8, <1>9, <1>10

LEMMA IInvHolds == Spec => [](IInv /\ Target!IInv)
<1>1. IInv /\ Target!IInv /\ [Next]_vars => IInv' /\ Target!IInv'
  <2> SUFFICES ASSUME IInv, Target!IInv, [Next]_vars
               PROVE  IInv' /\ Target!IInv'
      OBVIOUS
  <2>1. CASE Next BY <2>1, IInvNext
  <2>2. CASE UNCHANGED vars
    <3>1. Known' /\ Target!IInv'
          BY KnownStep DEF IInv
    <3> QED BY <2>2, <3>1, IInvStutters DEF IInv
  <2> QED BY <2>1, <2>2
<1> QED BY <1>1, IInvInit, PTL DEF Spec

-----------------------------------------------------------------------------
(* What the software is told, and what the dialogue may never do *)

\* When the software's next response says that a key is loaded, the core holds
\* every word of the key the request delimits, and of the right length; that it
\* is cleared, the core holds none of it; and a status, an overwrite or a bad
\* length agrees with the core.
THEOREM ResponsesAreTrue == Spec => []ResponseIsTrue
<1>1. IInv => ResponseIsTrue
  <2> SUFFICES ASSUME IInv, NEW resp \in ResponsesInFlight
               PROVE  CASE resp.id = "C2LOADKEYACK" ->
                               /\ llkid_key_complete
                               /\ KeyLength(sw_request) = KeyWords
                               /\ llkid_key_register = KeyOf(sw_request)
                        [] resp.id = "C2CLEARKEYACK" ->
                               ~llkid_key_complete /\ llkid_key_register = Core!NoKey
                        [] resp.id = "C2KEYSTATUSRESP" ->
                               (resp.status = "KEY_PRESENT") = llkid_key_complete
                        [] OTHER ->
                               /\ resp.status = "KL_KEY_OVERWRITE" => llkid_key_complete
                               /\ resp.status = "KL_BAD_KEY_LEN" => ~llkid_key_complete
      BY DEF ResponseIsTrue
  <2>1. Passed(resp.id, resp.status)
        BY DEF IInv, ResponsesKnown
  <2>2. TypeOK
        BY DEF IInv, Known
  <2>3. llkid_key_complete \in BOOLEAN
        BY <2>2 DEF TypeOK, Core!TypeOK, Core!TssTypeOK
  <2>4. CASE resp.id = "C2LOADKEYACK" /\ Told("KLLOADKEYACK", resp.status)
        BY <2>4 DEF Told
  <2>5. CASE resp.id = "C2CLEARKEYACK" /\ Told("KLCLEARKEYACK", resp.status)
        BY <2>5 DEF Told
  <2>6. CASE resp.id = "C2KEYSTATUSRESP" /\ Told("KLKEYSTATUSRESP", resp.status)
    <3>1. resp.status = IF llkid_key_complete THEN "KEY_PRESENT" ELSE "KEY_NOT_PRESENT"
          BY <2>6 DEF Told
    <3>2. (resp.status = "KEY_PRESENT") = llkid_key_complete
          BY <2>3, <3>1
    <3> QED BY <2>6, <3>2
  <2>7. CASE resp.id = "ERRORRESP" /\ Told("ERRORRESP", resp.status)
        BY <2>7 DEF Told
  <2>8. CASE resp.id = "ERRORRESP" /\ resp.status \in Refusal
        BY <2>8 DEF Refusal
  <2> QED BY <2>1, <2>4, <2>5, <2>6, <2>7, <2>8 DEF Passed
<1> QED BY <1>1, IInvHolds, PTL

\* A response on its way carries the tag of the request the software waits for,
\* is of its kind or an error, and is the only one: an answer of an earlier
\* request, or a second answer, cannot be taken for it.
THEOREM ResponsesMatch == Spec => []ResponseMatchesRequest
<1>1. IInv => ResponseMatchesRequest
  <2> SUFFICES ASSUME IInv, NEW resp \in ResponsesInFlight
               PROVE  /\ sw_request # None
                      /\ resp.rsvd = sw_request.rsvd
                      /\ \/ resp.id = "ERRORRESP"
                         \/ sw_request.id \in C2Request
                              /\ resp.id = AckOf[sw_request.id]
                      /\ ResponsesInFlight = {resp}
                      /\ Len(llkic2_respfifo) <= 1
      BY DEF ResponseMatchesRequest
  <2>1. resp.rsvd = sw_request.rsvd /\ Passed(resp.id, resp.status)
        BY DEF IInv, ResponsesKnown
  <2>2. TypeOK /\ SlaveKnown /\ TokenKnown
        BY DEF IInv, Known
  <2>3. /\ sw_request # None /\ ResponsesInFlight = {resp}
        /\ Len(llkic2_respfifo) <= 1
        BY <2>2, InFlightIs
  <2>4. \/ resp.id = "ERRORRESP"
        \/ sw_request.id \in C2Request /\ resp.id = AckOf[sw_request.id]
        BY <2>1 DEF Passed, Told, AckOf, C2Request
  <2> QED BY <2>1, <2>3, <2>4
<1> QED BY <1>1, IInvHolds, PTL

\* When the software has its response nothing of the request is left: the FIFOs,
\* the bus, the LLKI-PP and the TSS are as before it, so the next request cannot
\* be disturbed by it; and no access of the software gets a TileLink error.
THEOREM QuietBetween == Spec => []QuietBetweenRequests
<1>1. IInv => QuietBetweenRequests
  <2> SUFFICES ASSUME IInv PROVE QuietBetweenRequests
      OBVIOUS
  <2>1. TypeOK /\ SlaveKnown /\ TokenKnown /\ AccessKnown
        BY DEF IInv, Known
  <2>2. s_d_valid => ~s_error
        BY <2>1 DEF SlaveKnown
  <2>3. ASSUME sw_state = "FREE", sw_op = None
        PROVE  /\ llkic2_reqfifo = <<>> /\ reqfifo_wdata_i = None
               /\ ResponsesInFlight = {}
               /\ srot_current_state = "IDLE"
               /\ MasterOut = <<>> /\ Core!a_ready
               /\ llkipp_current_state = "IDLE"
               /\ ~llkid_key_valid /\ ~llkid_clear_key
               /\ tss_state = "IDLE"
    <3>1. sw_request = None
          BY <2>1, <2>3 DEF SlaveKnown
    <3>2. Nowhere
          BY <2>1, <2>3, <3>1, NoneIsNew
             DEF TokenKnown, Written, Queued, Taken, Working, Offered, Ready, Fetched
    <3>3. /\ llkic2_reqfifo = <<>> /\ reqfifo_wdata_i = None
          /\ srot_current_state = "IDLE"
          BY <3>2 DEF Nowhere, Resting, Holds
    <3>4. ResponsesInFlight = {}
          BY <2>1, <3>1, InFlightIs
    <3>5. NoAccess /\ CoreIdle
          BY <2>1, <3>3
             DEF AccessKnown, WaitStates, WriteStates, StatusStates
    <3>6. MasterOut = <<>>
      <4>1. SrotTypeOK
            BY <2>1 DEF TypeOK
      <4> QED BY <3>5, <4>1, MasterOutIs
    <3>7. Core!a_ready
          BY <3>5 DEF CoreIdle, Core!a_ready
    <3>8. llkipp_current_state = "IDLE"
      <4>1. Undelivered
            BY <3>3 DEF Undelivered, Dialogue, LoadStates, ReadyStates, RespStates
      <4> QED BY <4>1 DEF IInv, PpKnown, PpIdleKnown
    <3>9. ~llkid_key_valid
          BY <3>3 DEF IInv, WordsKnown, WordOnItsWay
    <3>10. ~llkid_clear_key /\ tss_state = "IDLE"
          BY <3>8 DEF IInv, StatusKnown, TssKnown
    <3> QED BY <3>3, <3>4, <3>6, <3>7, <3>8, <3>9, <3>10
  <2> QED BY <2>2, <2>3 DEF QuietBetweenRequests
<1> QED BY <1>1, IInvHolds, PTL

\* The SRoT never sends a key word the TSS is not ready for, and neither side
\* ever finds a message of the other it cannot make sense of: no response says
\* so.
THEOREM InStep == Spec => []NeverOutOfStep
<1>1. IInv => NeverOutOfStep
  <2> SUFFICES ASSUME IInv PROVE NeverOutOfStep
      OBVIOUS
  <2> DEFINE Lost == {"KL_LOSS_OF_SYNC", "KL_REQ_BAD_MSG_ID", "KL_REQ_BAD_MSG_LEN",
                      "KL_RESP_BAD_MSG_ID", "KL_TILELINK_ERROR", "UNKNOWN_ERROR"}
  <2>1. \A id, st : Told(id, st) => st \notin Lost
        BY DEF Told
  <2>2. \A st \in Refusal : st \notin Lost
        BY DEF Refusal
  <2>3. llkipp_current_state = "RESPONSE" => pp_status \notin Lost
        BY <2>1 DEF IInv, PpKnown, PpAnswerKnown
  <2>4. \A resp \in ResponsesInFlight : resp.status \notin Lost
    <3>1. \A resp \in ResponsesInFlight : Passed(resp.id, resp.status)
          BY DEF IInv, ResponsesKnown
    <3>2. \A id, st : Passed(id, st) => st \notin Lost
          BY <2>1, <2>2 DEF Passed
    <3> QED BY <3>1, <3>2
  <2> QED BY <2>3, <2>4 DEF NeverOutOfStep
<1> QED BY <1>1, IInvHolds, PTL

\* A key word is never taken for a header, whatever its value, and reaches the
\* TSS unless the LLKI-PP has already found an error in its message.
THEOREM NoWordIsMistaken == Spec => []NoWordMistaken
<1>1. IInv => NoWordMistaken
  <2> SUFFICES ASSUME IInv PROVE NoWordMistaken
      OBVIOUS
  <2>1. llkipp_current_state = "MESSAGE_CHECK" <=>
            srot_current_state = "KL_REQ_WAIT_FOR_ACK" /\ CoreWriting
        BY DEF IInv, PpKnown, PpIdleKnown
  <2>2. ASSUME pp_reg_we_o_d1
        PROVE  \/ llkipp_current_state = "MESSAGE_CHECK"
               \/ llkid_key_valid
               \/ pp_msg_id = "ERRORRESP"
    <3>1. srot_current_state \in WriteStates /\ CoreWriting
          BY <2>2 DEF IInv, Known, AccessKnown, CoreIdle, InFabric, CoreWritten, CoreRead
    <3>2. CASE srot_current_state = "KL_REQ_WAIT_FOR_ACK"
          BY <2>1, <3>1, <3>2
    <3>3. CASE srot_current_state = "KL_LOAD_KEY_WORD_WAIT_FOR_ACK"
          BY <3>1, <3>3 DEF IInv, WordsKnown, WordOnItsWay
    <3> QED BY <3>1, <3>2, <3>3 DEF WriteStates
  <2> QED BY <2>1, <2>2 DEF NoWordMistaken
<1> QED BY <1>1, IInvHolds, PTL

-----------------------------------------------------------------------------
(* LLKI implements KeyService *)

LEMMA SoundKnownStep ==
    ASSUME TypeOK, RequestKnown, SoundKnown, NEW d, NEW r, NEW fwd, Moves(d, r, fwd)
    PROVE  SoundKnown'
<1> DEFINE s == srot_current_state
           t == srot_current_state'
<1> USE DEF Checking, Dialogue, LoadStates, ReadyStates, RespStates
<1>1. /\ StmStep(d) /\ RequestStays /\ MessageMoves
      BY DEF Moves, Edge
<1>2. s \in SrotState
      BY DEF TypeOK, SrotTypeOK, StmTypeOK
<1>3. t = "MESSAGE_CHECK" => s = "IDLE" /\ llkic2_reqfifo # <<>>
      BY <1>1, <1>2 DEF MessageMoves, SrotState
<1>4. ASSUME t = "MESSAGE_CHECK"
      PROVE  msg_len' = sw_request'.len
  <2>1. StmIdle BY <1>1, <1>3, <1>4, StmBranch
  <2>2. msg_len' = Head(llkic2_reqfifo).len
        BY <1>3, <1>4, <2>1 DEF StmIdle
  <2> QED BY <1>1, <1>3, <1>4, <2>2 DEF RequestStays
<1>5. ASSUME t \in Checking \cup Dialogue
      PROVE  sw_request'.len = 1
  <2>1. s # "IDLE" BY <1>1, <1>5 DEF MessageMoves
  <2>2. sw_request' = sw_request BY <1>1, <2>1 DEF RequestStays
  <2>3. CASE s = "MESSAGE_CHECK"
    <3>1. StmMessageCheck BY <1>1, <2>3, StmBranch
    <3>2. t # "C2_RESPONSE" BY <1>5
    <3>3. msg_len = 1 BY <3>1, <3>2 DEF StmMessageCheck, Refuse, Goto
    <3> QED BY <2>2, <2>3, <3>3 DEF SoundKnown
  <2>4. CASE s \in Checking \cup Dialogue
    BY <2>2, <2>4 DEF SoundKnown
  <2>5. s \in {"MESSAGE_CHECK"} \cup Checking \cup Dialogue
    BY <1>1, <1>2, <1>5, <2>1 DEF MessageMoves, SrotState
  <2> QED BY <2>3, <2>4, <2>5
<1>6. ASSUME t \in Dialogue
      PROVE  Asked'.valid /\ Asked'.core <= NumCores - 1
  <2>1. s \in {"RETRIEVE_KEY_INDEX"} \cup Dialogue
    BY <1>1, <1>2, <1>6 DEF MessageMoves, SrotState
  <2>2. Asked' = Asked BY <1>1, <2>1, AskedStays
  <2>3. CASE s = "RETRIEVE_KEY_INDEX"
    <3>1. StmRetrieve BY <1>1, <2>3, StmBranch
    <3>2. t # "C2_RESPONSE" BY <1>6
    <3>3. keyindexram_rdata_o.valid /\ ~(core_index > NumCores - 1)
      BY <3>1, <3>2 DEF StmRetrieve, Refuse, Goto
    <3>4. keyindexram_rdata_o = Asked
      BY <2>3 DEF RequestKnown, EntryInHand
    <3>5. Asked.core \in Nat /\ NumCores \in Nat
      <4>1. keyindexram_rdata_o \in IndexEntry
        BY DEF TypeOK, SrotTypeOK, MemTypeOK
      <4> QED BY <3>4, <4>1, SrotAssumption DEF IndexEntry, Byte
    <3> QED BY <2>2, <3>3, <3>4, <3>5 DEF core_index
  <2>4. CASE s \in Dialogue
    BY <2>2, <2>4 DEF SoundKnown
  <2> QED BY <2>1, <2>3, <2>4
<1> QED BY <1>4, <1>5, <1>6 DEF SoundKnown

\* A TSS at rest that is given no word stays at rest.
LEMMA TssRests ==
    ASSUME TypeOK, Core!TssStep, tss_state = "IDLE", ~llkid_key_valid
    PROVE  /\ tss_state' = "IDLE"
           /\ llkid_key_complete' =>
                  llkid_key_complete /\ llkid_key_register' = llkid_key_register
<1>1. llkid_key_complete \in BOOLEAN BY CoreStates
<1>2. Core!TssIdleClear \/ Core!TssIdleStay
      BY DEF Core!TssStep, Core!TssIdleLoad, Core!TssWaitState0Last,
         Core!TssWaitState0More, Core!TssWaitState0Count, Core!TssNextWordClear,
         Core!TssNextWordLoad, Core!TssNextWordStay, Core!TssNextWordDefault,
         Core!TssClearKey, Core!TssWaitState1, Core!TssWaitState2
<1> QED BY <1>1, <1>2 DEF Core!TssIdleClear, Core!TssIdleStay, Core!TssIdleDefault

LEMMA ClearKnownStep ==
    ASSUME TypeOK, TssKnown, CoreKnown, ClearKnown, NEW r, PpMoves(r), Core!TssStep
    PROVE  ClearKnown'
<1> SUFFICES ASSUME llkipp_current_state' = "CLEAR_KEY" PROVE tss_state' = "IDLE"
    BY DEF ClearKnown
<1>1. \/ llkipp_current_state \in {"MESSAGE_CHECK", "CLEAR_KEY"}
      \/ llkipp_current_state = "LOAD_KEY_WORDS" /\ llkid_key_complete
      BY PpFrom
<1>2. tss_state = "IDLE" /\ ~llkid_key_valid
      BY <1>1 DEF TssKnown, CoreKnown, ClearKnown
<1> QED BY <1>2, TssRests

CoreHolds == IF llkid_key_complete THEN {llkid_key_register} ELSE {}

LEMMA DecidedIs ==
    PpIdleKnown =>
        /\ Closed => Decided = {<<rdata.id, rdata.status>>}
        /\ llkipp_current_state = "IDLE" =>
               (~Closed => Decided = {}) /\ HeldKey = CoreHolds
        /\ llkipp_current_state = "MESSAGE_CHECK" =>
               Decided = {} /\ HeldKey = CoreHolds
        /\ llkipp_current_state = "LOAD_KEY_WORDS" =>
               Decided = {} /\ HeldKey = {}
        /\ llkipp_current_state = "WAIT_FOR_COMPLETE" =>
               /\ Decided = IF llkid_key_complete THEN {<<"KLLOADKEYACK", "GOOD">>}
                                                  ELSE {}
               /\ HeldKey = CoreHolds
        /\ llkipp_current_state = "CLEAR_KEY" /\ pp_msg_id = "ERRORRESP" =>
               Decided = {<<"ERRORRESP", pp_status>>} /\ HeldKey = {}
        /\ llkipp_current_state = "CLEAR_KEY" /\ pp_msg_id # "ERRORRESP" =>
               /\ Decided = IF llkid_key_complete THEN {}
                            ELSE {<<"KLCLEARKEYACK", "GOOD">>}
               /\ HeldKey = CoreHolds
        /\ llkipp_current_state = "RESPONSE" =>
               Decided = {<<pp_msg_id, pp_status>>} /\ HeldKey = CoreHolds
<1> SUFFICES ASSUME PpIdleKnown
             PROVE  LET s == llkipp_current_state IN
        /\ Closed => Decided = {<<rdata.id, rdata.status>>}
        /\ s = "IDLE" => (~Closed => Decided = {}) /\ HeldKey = CoreHolds
        /\ s = "MESSAGE_CHECK" => Decided = {} /\ HeldKey = CoreHolds
        /\ s = "LOAD_KEY_WORDS" => Decided = {} /\ HeldKey = {}
        /\ s = "WAIT_FOR_COMPLETE" =>
               /\ Decided = IF llkid_key_complete THEN {<<"KLLOADKEYACK", "GOOD">>}
                                                  ELSE {}
               /\ HeldKey = CoreHolds
        /\ s = "CLEAR_KEY" /\ pp_msg_id = "ERRORRESP" =>
               Decided = {<<"ERRORRESP", pp_status>>} /\ HeldKey = {}
        /\ s = "CLEAR_KEY" /\ pp_msg_id # "ERRORRESP" =>
               /\ Decided = IF llkid_key_complete THEN {}
                            ELSE {<<"KLCLEARKEYACK", "GOOD">>}
               /\ HeldKey = CoreHolds
        /\ s = "RESPONSE" =>
               Decided = {<<pp_msg_id, pp_status>>} /\ HeldKey = CoreHolds
    BY Zenon
<1>1. Closed => llkipp_current_state = "IDLE" BY DEF PpIdleKnown
<1>2. CASE Closed
  <2>1. Decided = {<<rdata.id, rdata.status>>} BY <1>1, <1>2 DEF Decided
  <2> QED BY <1>1, <1>2, <2>1 DEF HeldKey, Tentative, CoreHolds
<1>3. CASE ~Closed
  <2> HIDE DEF Closed
  <2> QED BY <1>3 DEF Decided, HeldKey, Tentative, CoreHolds
<1> QED BY <1>2, <1>3

\* How the core serves a request, as KeyService does: what it decides, and what
\* becomes of the key at that moment.
CoreServes ==
    /\ Decided = {}
    /\ \/ /\ sw_request.id = "C2LOADKEYREQ" /\ HeldKey # {}
          /\ Decided' = {<<"ERRORRESP", "KL_KEY_OVERWRITE">>} /\ HeldKey' = HeldKey
       \/ /\ sw_request.id = "C2LOADKEYREQ" /\ HeldKey = {}
          /\ KeyLength(sw_request) > KeyWords
          /\ Decided' = {<<"ERRORRESP", "KL_BAD_KEY_LEN">>} /\ HeldKey' = HeldKey
       \/ /\ sw_request.id = "C2LOADKEYREQ" /\ HeldKey = {}
          /\ KeyLength(sw_request) = KeyWords
          /\ Decided' = {<<"KLLOADKEYACK", "GOOD">>}
          /\ HeldKey' = {KeyOf(sw_request)}
       \/ /\ sw_request.id = "C2CLEARKEYREQ"
          /\ Decided' = {<<"KLCLEARKEYACK", "GOOD">>} /\ HeldKey' = {}
       \/ /\ sw_request.id = "C2KEYSTATUSREQ"
          /\ Decided' = {<<"KLKEYSTATUSRESP",
                           IF HeldKey = {} THEN "KEY_NOT_PRESENT" ELSE "KEY_PRESENT">>}
          /\ HeldKey' = HeldKey
CoreIdles == Decided' = Decided /\ HeldKey' = HeldKey

\* All that is known when the state machine is in a dialogue.
Served(d, r, fwd) ==
    /\ IInv /\ IInv' /\ CoreKnown /\ CoreKnown' /\ SoundKnown /\ ClearKnown
    /\ Moves(d, r, fwd)

LEMMA ServedFacts ==
    ASSUME NEW d, NEW r, NEW fwd, Served(d, r, fwd)
    PROVE  /\ TypeOK /\ RequestKnown /\ PpKnown /\ StatusKnown /\ WordsKnown
           /\ PpIdleKnown /\ TssKnown /\ CoreKnown /\ CoreKnown'
           /\ PpIdleKnown' /\ PpKnown' /\ ClearKnown
           /\ PpMoves(r) /\ Phase(r) /\ MessageMoves /\ RequestStays
           /\ Core!TssStep /\ Core!PpStep(r)
           /\ llkid_key_complete \in BOOLEAN /\ llkid_key_complete' \in BOOLEAN
<1>1. TypeOK /\ TypeOK' BY DEF Served, IInv, Known
<1>2. llkid_key_complete \in BOOLEAN /\ llkid_key_complete' \in BOOLEAN
  BY <1>1 DEF TypeOK, Core!TypeOK, Core!TssTypeOK
<1> QED BY <1>1, <1>2 DEF Served, IInv, PpKnown, StatusKnown, Moves, Edge

LEMMA DecidedIsNext == (PpIdleKnown =>
        /\ Closed => Decided = {<<rdata.id, rdata.status>>}
        /\ llkipp_current_state = "IDLE" =>
               (~Closed => Decided = {}) /\ HeldKey = CoreHolds
        /\ llkipp_current_state = "MESSAGE_CHECK" =>
               Decided = {} /\ HeldKey = CoreHolds
        /\ llkipp_current_state = "LOAD_KEY_WORDS" =>
               Decided = {} /\ HeldKey = {}
        /\ llkipp_current_state = "WAIT_FOR_COMPLETE" =>
               /\ Decided = IF llkid_key_complete THEN {<<"KLLOADKEYACK", "GOOD">>}
                                                  ELSE {}
               /\ HeldKey = CoreHolds
        /\ llkipp_current_state = "CLEAR_KEY" /\ pp_msg_id = "ERRORRESP" =>
               Decided = {<<"ERRORRESP", pp_status>>} /\ HeldKey = {}
        /\ llkipp_current_state = "CLEAR_KEY" /\ pp_msg_id # "ERRORRESP" =>
               /\ Decided = IF llkid_key_complete THEN {}
                            ELSE {<<"KLCLEARKEYACK", "GOOD">>}
               /\ HeldKey = CoreHolds
        /\ llkipp_current_state = "RESPONSE" =>
               Decided = {<<pp_msg_id, pp_status>>} /\ HeldKey = CoreHolds)'
BY DecidedIs, PTL

\* What a state machine in a dialogue does with the dialogue, in one step.
Serves ==
    \/ CoreIdles /\ srot_current_state' \in Dialogue
    \/ CoreServes /\ srot_current_state' \in Dialogue
    \/ /\ Closed /\ srot_current_state' = "C2_RESPONSE"
       /\ msg_id' = rdata.id /\ status' = rdata.status
       /\ HeldKey' = HeldKey

LEMMA StaysOpen ==
    ASSUME NEW d, NEW r, NEW fwd, Served(d, r, fwd),
           llkipp_current_state # "IDLE", llkipp_current_state' # "IDLE"
    PROVE  /\ srot_current_state' \in Dialogue
           /\ msg_id = sw_request.id
           /\ keyram' = keyram /\ keyindexram' = keyindexram
           /\ sw_request' = sw_request
<1>1. Open /\ Open'
      BY ServedFacts DEF PpIdleKnown, Open
<1>2. srot_current_state \in Dialogue
      BY <1>1 DEF Open, Undelivered
<1>3. msg_id = sw_request.id
      BY <1>2, ServedFacts DEF RequestKnown, MessageInHand
<1> QED BY <1>1, <1>3, ServedFacts, OpenStays

\* A core at rest.
LEMMA HoldsStays ==
    ASSUME llkid_key_complete' = llkid_key_complete,
           llkid_key_register' = llkid_key_register
    PROVE  CoreHolds' = CoreHolds
BY DEF CoreHolds

LEMMA IdleServes ==
    ASSUME NEW d, NEW r, NEW fwd, Served(d, r, fwd),
           srot_current_state \in Dialogue, llkipp_current_state = "IDLE"
    PROVE  Serves
<1> DEFINE s == srot_current_state
           t == srot_current_state'
<1>1. /\ StmStep(d) /\ d.valid \in BOOLEAN /\ ~d.err /\ d.rdata = rdata
      /\ AccessGoes(d, fwd) /\ DialogueMoves(d) /\ PpMoves(r)
      BY DEF Served, Moves, Edge
<1>2. HeldKey = CoreHolds BY ServedFacts, DecidedIs
<1>3. CoreHolds' = CoreHolds
  <2>1. tss_state = "IDLE" /\ ~llkid_clear_key /\ ~llkid_key_valid
        BY ServedFacts DEF TssKnown, CoreKnown
  <2> QED BY <2>1, ServedFacts, CoreRests, HoldsStays
<1>4. HeldKey' = CoreHolds'
  <2>1. llkipp_current_state' \in {"IDLE", "MESSAGE_CHECK"} BY <1>1 DEF PpMoves
  <2> QED BY <2>1, ServedFacts, DecidedIsNext
<1>5. CASE Undelivered
  <2>1. t \in {"KL_REQ_HEADER", "KL_REQ_WAIT_FOR_ACK"}
    <3>1. CASE s = "KL_REQ_HEADER"
      <4>1. StmReqHeader BY <1>1, <3>1, StmBranch
      <4>2. msg_id \in C2Request
            BY ServedFacts DEF RequestKnown, MessageInHand
      <4> QED BY <3>1, <4>1, <4>2 DEF StmReqHeader, stmStatus, Proceed, Goto
    <3>2. CASE s = "KL_REQ_WAIT_FOR_ACK" /\ InFabric
      <4>1. ~d.valid BY <1>1, <3>2 DEF AccessGoes
      <4> QED BY <1>1, <3>2, <4>1 DEF DialogueMoves
    <3> QED BY <1>5, <3>1, <3>2 DEF Undelivered
  <2>2. ~Closed /\ ~Closed'
        BY <1>5, <2>1 DEF Undelivered, Closed, Dialogue
  <2>3. Decided = {} BY <2>2, ServedFacts, DecidedIs
  <2>4. llkipp_current_state' \in {"IDLE", "MESSAGE_CHECK"} BY <1>1 DEF PpMoves
  <2>5. Decided' = {} BY <2>2, <2>4, ServedFacts, DecidedIsNext
  <2> QED BY <1>2, <1>3, <1>4, <2>1, <2>3, <2>5 DEF Serves, CoreIdles, Dialogue
<1>6. CASE Closed
  <2>1. s = "KL_RESP_READ" /\ ~InFabric BY <1>6 DEF Closed
  <2>2. CASE d.valid
    <3>1. t = "C2_RESPONSE" /\ msg_id' = rdata.id /\ status' = rdata.status
          BY <1>1, <2>1, <2>2 DEF DialogueMoves
    <3> QED BY <1>2, <1>3, <1>4, <1>6, <3>1 DEF Serves
  <2>3. CASE ~d.valid
    <3>1. t = s /\ ~InFabric' /\ rdata' = rdata
          BY <1>1, <2>1, <2>3 DEF AccessGoes, WaitStates, WriteStates
    <3>2. Closed' BY <2>1, <3>1 DEF Closed
    <3>3. Decided' = {<<rdata'.id, rdata'.status>>}
          BY <3>2, ServedFacts, DecidedIsNext
    <3>4. Decided = {<<rdata.id, rdata.status>>}
          BY <1>6, ServedFacts, DecidedIs
    <3> QED BY <1>2, <1>3, <1>4, <2>1, <3>1, <3>3, <3>4
            DEF Serves, CoreIdles, Dialogue, RespStates
  <2> QED BY <1>1, <2>2, <2>3
<1> QED BY <1>5, <1>6, ServedFacts DEF PpIdleKnown

LEMMA CheckServes ==
    ASSUME NEW d, NEW r, NEW fwd, Served(d, r, fwd),
           llkipp_current_state = "MESSAGE_CHECK"
    PROVE  Serves
<1> DEFINE c == llkid_key_complete
<1>1. Decided = {} /\ HeldKey = CoreHolds BY ServedFacts, DecidedIs
<1>2. c' = c /\ CoreHolds' = CoreHolds
  <2>1. tss_state = "IDLE" /\ ~llkid_clear_key /\ ~llkid_key_valid
        BY ServedFacts DEF TssKnown, CoreKnown
  <2> QED BY <2>1, ServedFacts, CoreRests, HoldsStays
<1>3. llkipp_current_state' \in {"LOAD_KEY_WORDS", "CLEAR_KEY", "RESPONSE"}
      BY ServedFacts DEF PpMoves
<1>4. srot_current_state' \in Dialogue /\ msg_id = sw_request.id
      BY <1>3, StaysOpen
<1>5. /\ msg_id \in C2Request
      /\ msg_id = "C2LOADKEYREQ" /\ c =>
             /\ llkipp_current_state' = "RESPONSE"
             /\ pp_msg_id' = "ERRORRESP" /\ pp_status' = "KL_KEY_OVERWRITE"
      /\ msg_id = "C2LOADKEYREQ" /\ ~c => llkipp_current_state' = "LOAD_KEY_WORDS"
      /\ msg_id = "C2CLEARKEYREQ" =>
             llkipp_current_state' = "CLEAR_KEY" /\ pp_msg_id' = "KLCLEARKEYREQ"
      /\ msg_id = "C2KEYSTATUSREQ" =>
             /\ llkipp_current_state' = "RESPONSE"
             /\ pp_msg_id' = "KLKEYSTATUSRESP"
             /\ pp_status' = IF c THEN "KEY_PRESENT" ELSE "KEY_NOT_PRESENT"
      BY ServedFacts, Checked
<1>6. c \in BOOLEAN BY ServedFacts
<1>7. c <=> CoreHolds # {} BY DEF CoreHolds
<1>8. CASE msg_id = "C2LOADKEYREQ" /\ c
  <2>1. Decided' = {<<"ERRORRESP", "KL_KEY_OVERWRITE">>} /\ HeldKey' = CoreHolds'
        BY <1>5, <1>8, ServedFacts, DecidedIsNext
  <2> QED BY <1>1, <1>2, <1>4, <1>7, <1>8, <2>1 DEF Serves, CoreServes
<1>9. CASE msg_id = "C2LOADKEYREQ" /\ ~c
  <2>1. Decided' = {} /\ HeldKey' = {}
        BY <1>5, <1>9, ServedFacts, DecidedIsNext
  <2> QED BY <1>1, <1>4, <1>7, <1>9, <2>1 DEF Serves, CoreIdles
<1>10. CASE msg_id = "C2CLEARKEYREQ"
  <2>1. /\ Decided' = IF c' THEN {} ELSE {<<"KLCLEARKEYACK", "GOOD">>}
        /\ HeldKey' = CoreHolds'
        BY <1>5, <1>10, ServedFacts, DecidedIsNext
  <2> QED BY <1>1, <1>2, <1>4, <1>7, <1>10, <2>1 DEF Serves, CoreServes, CoreIdles
<1>11. CASE msg_id = "C2KEYSTATUSREQ"
  <2>1. /\ Decided' = {<<"KLKEYSTATUSRESP",
                         IF c THEN "KEY_PRESENT" ELSE "KEY_NOT_PRESENT">>}
        /\ HeldKey' = CoreHolds'
        BY <1>5, <1>11, ServedFacts, DecidedIsNext
  <2> QED BY <1>1, <1>2, <1>4, <1>7, <1>11, <2>1 DEF Serves, CoreServes
<1> QED BY <1>5, <1>6, <1>8, <1>9, <1>10, <1>11 DEF C2Request

LEMMA LoadServes ==
    ASSUME NEW d, NEW r, NEW fwd, Served(d, r, fwd),
           llkipp_current_state = "LOAD_KEY_WORDS"
    PROVE  Serves
<1> DEFINE w == Core!SendrecvWrite(r)
<1>1. /\ Open /\ srot_current_state \in {"KL_REQ_WAIT_FOR_ACK"} \cup LoadStates
      /\ srot_current_state' \in Dialogue /\ msg_id = "C2LOADKEYREQ"
      BY ServedFacts, LoadGoes DEF Served, StatusKnown, Dialogue
<1>2. Decided = {} /\ HeldKey = {} BY ServedFacts, DecidedIs
<1>3. srot_current_state \in Dialogue /\ msg_id = sw_request.id
  <2>1. srot_current_state \in Dialogue BY <1>1 DEF Dialogue
  <2> QED BY <2>1, ServedFacts DEF RequestKnown, MessageInHand
<1>4. w => llkid_key_ready
  <2>1. w => srot_current_state = "KL_LOAD_KEY_WORD_WAIT_FOR_ACK" /\ InFabric
        BY <1>1, ServedFacts, WordWrite DEF Served
  <2> QED BY <2>1, ServedFacts DEF StatusKnown, ReadyKnown
<1>5. CASE llkipp_current_state' = "LOAD_KEY_WORDS"
  <2>1. Decided' = {} /\ HeldKey' = {}
        BY <1>5, ServedFacts, DecidedIsNext
  <2> QED BY <1>1, <1>2, <2>1 DEF Serves, CoreIdles
<1>6. CASE w /\ llkid_key_complete
  <2>1. /\ llkipp_current_state' = "CLEAR_KEY"
        /\ pp_msg_id' = "ERRORRESP" /\ pp_status' = "KL_BAD_KEY_LEN"
        BY <1>4, <1>6, ServedFacts DEF PpMoves
  <2>2. Decided' = {<<"ERRORRESP", "KL_BAD_KEY_LEN">>} /\ HeldKey' = {}
        BY <2>1, ServedFacts, DecidedIsNext
  <2>3. KeyLength(sw_request) > KeyWords
    <3>1. /\ Asked.low \in Nat /\ Asked.high \in Nat
          BY <1>3, ServedFacts, AskedInRam
    <3>2. pp_msg_len \in Nat /\ pp_msg_len >= 2
          BY ServedFacts, CoreStates DEF CoreKnown
    <3>3. Stored = ((Asked.high - Asked.low) + 2) - pp_msg_len
          BY <1>6, ServedFacts DEF Stored, Accepted, CoreKnown
    <3>4. Stored = KeyWords
          BY <1>6, ServedFacts DEF WordsKnown, WordsCounted, Loading
    <3> QED BY <3>1, <3>2, <3>3, <3>4 DEF KeyLength, Asked
  <2> QED BY <1>1, <1>2, <1>3, <2>2, <2>3 DEF Serves, CoreServes
<1>7. CASE w /\ ~llkid_key_complete
  <2>1. /\ llkid_key_valid'
        /\ llkipp_current_state' \in {"LOAD_KEY_WORDS", "WAIT_FOR_COMPLETE"}
        BY <1>4, <1>7, ServedFacts DEF PpMoves
  <2>2. ~llkid_key_complete' BY <2>1, ServedFacts DEF CoreKnown
  <2>3. CASE llkipp_current_state' = "WAIT_FOR_COMPLETE"
    <3>1. Decided' = {} /\ HeldKey' = CoreHolds'
          BY <2>2, <2>3, ServedFacts, DecidedIsNext
    <3>2. CoreHolds' = {} BY <2>2 DEF CoreHolds
    <3> QED BY <1>1, <1>2, <3>1, <3>2 DEF Serves, CoreIdles
  <2> QED BY <1>5, <2>1, <2>3
<1>8. ~w => llkipp_current_state' = "LOAD_KEY_WORDS"
      BY ServedFacts DEF PpMoves
<1> QED BY <1>5, <1>6, <1>7, <1>8

LEMMA KeyIsThereNow ==
    IInv /\ CoreKnown =>
        (llkipp_current_state = "WAIT_FOR_COMPLETE" /\ llkid_key_complete =>
            /\ KeyLength(sw_request) = KeyWords
            /\ llkid_key_register = KeyOf(sw_request))
<1> SUFFICES ASSUME IInv, CoreKnown,
                    llkipp_current_state = "WAIT_FOR_COMPLETE", llkid_key_complete
             PROVE  /\ KeyLength(sw_request) = KeyWords
                    /\ llkid_key_register = KeyOf(sw_request)
    OBVIOUS
<1>1. Open BY DEF IInv, PpKnown, PpIdleKnown, Open
<1> QED BY <1>1, KeyIsThere DEF IInv, Known

LEMMA KeyIsThereNext ==
    (IInv /\ CoreKnown =>
        (llkipp_current_state = "WAIT_FOR_COMPLETE" /\ llkid_key_complete =>
            /\ KeyLength(sw_request) = KeyWords
            /\ llkid_key_register = KeyOf(sw_request)))'
BY KeyIsThereNow, PTL

LEMMA WaitServes ==
    ASSUME NEW d, NEW r, NEW fwd, Served(d, r, fwd),
           llkipp_current_state = "WAIT_FOR_COMPLETE"
    PROVE  Serves
<1> DEFINE c == llkid_key_complete
<1>1. /\ Decided = IF c THEN {<<"KLLOADKEYACK", "GOOD">>} ELSE {}
      /\ HeldKey = CoreHolds
      BY ServedFacts, DecidedIs
<1>2. /\ llkipp_current_state' = IF c THEN "RESPONSE" ELSE "WAIT_FOR_COMPLETE"
      /\ UNCHANGED <<pp_msg_id, pp_status>>
      BY ServedFacts DEF PpMoves
<1>3. /\ srot_current_state' \in Dialogue
      /\ msg_id = sw_request.id
      /\ keyram' = keyram /\ keyindexram' = keyindexram
      /\ sw_request' = sw_request
      BY <1>2, StaysOpen
<1>4. pp_msg_id = "KLLOADKEYACK" /\ pp_status = "GOOD"
      BY ServedFacts DEF CoreKnown
<1>5. CASE c
  <2>1. CoreHolds' = CoreHolds
    <3>1. tss_state = "IDLE" /\ ~llkid_clear_key /\ ~llkid_key_valid
          BY <1>5, ServedFacts DEF CoreKnown
    <3> QED BY <3>1, ServedFacts, CoreRests, HoldsStays
  <2>2. Decided' = {<<"KLLOADKEYACK", "GOOD">>} /\ HeldKey' = CoreHolds'
        BY <1>2, <1>4, <1>5, ServedFacts, DecidedIsNext
  <2> QED BY <1>1, <1>3, <1>5, <2>1, <2>2 DEF Serves, CoreIdles
<1>6. CASE ~c
  <2>1. /\ Decided' = IF c' THEN {<<"KLLOADKEYACK", "GOOD">>} ELSE {}
        /\ HeldKey' = CoreHolds'
        BY <1>2, <1>6, ServedFacts, DecidedIsNext
  <2>2. CoreHolds = {} BY <1>6 DEF CoreHolds
  <2>3. CASE ~c'
    <3>1. CoreHolds' = {} BY <2>3 DEF CoreHolds
    <3> QED BY <1>1, <1>3, <1>6, <2>1, <2>2, <2>3, <3>1 DEF Serves, CoreIdles
  <2>4. CASE c'
    <3>1. /\ KeyLength(sw_request)' = KeyWords
          /\ llkid_key_register' = KeyOf(sw_request)'
          BY <1>2, <1>6, <2>4, KeyIsThereNext DEF Served
    <3>2. CoreHolds' = {KeyOf(sw_request)}
      <4>1. CoreHolds' = {llkid_key_register'} BY <2>4 DEF CoreHolds
      <4> QED BY <1>3, <3>1, <4>1, SameKey
    <3>3. KeyLength(sw_request) = KeyWords BY <1>3, <3>1, SameKey
    <3>4. sw_request.id = "C2LOADKEYREQ"
          BY <1>3, ServedFacts DEF PpKnown, PpLoadKnown
    <3> QED BY <1>1, <1>3, <1>6, <2>1, <2>2, <2>4, <3>2, <3>3, <3>4
            DEF Serves, CoreServes
  <2> QED BY <2>3, <2>4
<1> QED BY <1>5, <1>6

LEMMA ClearServes ==
    ASSUME NEW d, NEW r, NEW fwd, Served(d, r, fwd),
           llkipp_current_state = "CLEAR_KEY"
    PROVE  Serves
<1> DEFINE c == llkid_key_complete
           ack == llkid_clear_key_ack
<1>1. /\ llkipp_current_state' = IF ack THEN "RESPONSE" ELSE "CLEAR_KEY"
      /\ IF ack /\ pp_msg_id # "ERRORRESP"
         THEN pp_msg_id' = "KLCLEARKEYACK" /\ pp_status' = "GOOD"
         ELSE UNCHANGED <<pp_msg_id, pp_status>>
      BY ServedFacts DEF PpMoves
<1>2. srot_current_state' \in Dialogue /\ msg_id = sw_request.id
      BY <1>1, StaysOpen
<1>3. ~c => CoreHolds = {} BY DEF CoreHolds
<1>4. ~c' => CoreHolds' = {} BY DEF CoreHolds
<1>5. CASE pp_msg_id = "ERRORRESP"
  <2>1. pp_msg_id' = "ERRORRESP" /\ pp_status' = pp_status BY <1>1, <1>5
  <2>2. Decided = {<<"ERRORRESP", pp_status>>} /\ HeldKey = {}
        BY <1>5, ServedFacts, DecidedIs
  <2>3. CASE ack
    <3>1. pp_status = "KL_BAD_KEY_LEN" BY <1>5, ServedFacts DEF CoreKnown
    <3>2. ~c' BY <1>1, <2>1, <2>3, <3>1, ServedFacts DEF CoreKnown
    <3>3. Decided' = {<<"ERRORRESP", pp_status>>} /\ HeldKey' = CoreHolds'
          BY <1>1, <2>1, <2>3, ServedFacts, DecidedIsNext
    <3> QED BY <1>2, <1>4, <2>2, <3>2, <3>3 DEF Serves, CoreIdles
  <2>4. CASE ~ack
    <3>1. Decided' = {<<"ERRORRESP", pp_status>>} /\ HeldKey' = {}
          BY <1>1, <2>1, <2>4, ServedFacts, DecidedIsNext
    <3> QED BY <1>2, <2>2, <3>1 DEF Serves, CoreIdles
  <2> QED BY <2>3, <2>4
<1>6. CASE pp_msg_id # "ERRORRESP"
  <2>1. /\ Decided = IF c THEN {} ELSE {<<"KLCLEARKEYACK", "GOOD">>}
        /\ HeldKey = CoreHolds
        BY <1>6, ServedFacts, DecidedIs
  <2>2. /\ tss_state = "IDLE" /\ ~llkid_key_valid
        BY ServedFacts DEF ClearKnown, CoreKnown
  <2>3. c' => c /\ llkid_key_register' = llkid_key_register
        BY <2>2, ServedFacts, TssRests
  <2>4. CASE ack
    <3>1. ~c BY <2>4, ServedFacts DEF CoreKnown
    <3>2. ~c' BY <2>3, <3>1
    <3>3. Decided' = {<<"KLCLEARKEYACK", "GOOD">>} /\ HeldKey' = CoreHolds'
          BY <1>1, <1>6, <2>4, ServedFacts, DecidedIsNext
    <3> QED BY <1>2, <1>3, <1>4, <2>1, <3>1, <3>2, <3>3 DEF Serves, CoreIdles
  <2>5. CASE ~ack
    <3>1. /\ Decided' = IF c' THEN {} ELSE {<<"KLCLEARKEYACK", "GOOD">>}
          /\ HeldKey' = CoreHolds'
          BY <1>1, <1>6, <2>5, ServedFacts, DecidedIsNext
    <3>2. CASE c'
      <4>1. CoreHolds' = CoreHolds BY <2>3, <3>2 DEF CoreHolds
      <4> QED BY <1>2, <2>1, <2>3, <3>1, <3>2, <4>1 DEF Serves, CoreIdles
    <3>3. CASE ~c' /\ ~c
      BY <1>2, <1>3, <1>4, <2>1, <3>1, <3>3 DEF Serves, CoreIdles
    <3>4. CASE ~c' /\ c
      <4>1. sw_request.id = "C2CLEARKEYREQ"
            BY <1>2, <1>6, ServedFacts DEF PpKnown, PpAnswerKnown
      <4> QED BY <1>2, <1>4, <2>1, <3>1, <3>4, <4>1 DEF Serves, CoreServes
    <3> QED BY <3>2, <3>3, <3>4
  <2> QED BY <2>4, <2>5
<1> QED BY <1>5, <1>6

LEMMA ResponseServes ==
    ASSUME NEW d, NEW r, NEW fwd, Served(d, r, fwd),
           llkipp_current_state = "RESPONSE"
    PROVE  Serves
<1> DEFINE q == Core!SendrecvRead(r)
<1>1. Decided = {<<pp_msg_id, pp_status>>} /\ HeldKey = CoreHolds
      BY ServedFacts, DecidedIs
<1>2. CoreHolds' = CoreHolds
  <2>1. /\ tss_state = "IDLE" /\ ~llkid_key_valid
        /\ llkid_clear_key => ~llkid_key_complete /\ llkid_key_register = Core!NoKey
        BY ServedFacts DEF TssKnown, CoreKnown
  <2> QED BY <2>1, ServedFacts, CoreRests, HoldsStays
<1>3. /\ llkipp_current_state' = IF q THEN "IDLE" ELSE "RESPONSE"
      /\ UNCHANGED <<pp_msg_id, pp_status>>
      BY ServedFacts DEF PpMoves
<1>4. CASE ~q
  <2>1. srot_current_state' \in Dialogue BY <1>3, <1>4, StaysOpen
  <2>2. Decided' = {<<pp_msg_id, pp_status>>} /\ HeldKey' = CoreHolds'
        BY <1>3, <1>4, ServedFacts, DecidedIsNext
  <2> QED BY <1>1, <1>2, <2>1, <2>2 DEF Serves, CoreIdles
<1>5. CASE q
  <2>1. AccessGoes(d, fwd) /\ PortSeen(r, fwd) /\ d.valid \in BOOLEAN
        BY DEF Served, Moves, Edge
  <2>2. InFabric /\ fwd /\ srot_current_state = "KL_RESP_READ" /\ ~d.valid
        BY <1>5, <2>1 DEF PortSeen, AccessGoes
  <2>3. /\ srot_current_state' = "KL_RESP_READ" /\ ~InFabric'
        /\ rdata' = llkipp_response_word
        BY <2>1, <2>2 DEF AccessGoes, WaitStates
  <2>4. llkipp_response_word = Core!HeaderWord(pp_msg_id, pp_status, 1)
        BY <2>2, ServedFacts DEF StatusKnown, WaitingKnown, Closed
  <2>5. Closed' BY <2>3 DEF Closed
  <2>6. rdata'.id = pp_msg_id /\ rdata'.status = pp_status
        BY <2>3, <2>4 DEF Core!HeaderWord
  <2>7. Decided' = {<<rdata'.id, rdata'.status>>} BY <2>5, ServedFacts, DecidedIsNext
  <2>8. HeldKey' = CoreHolds' BY <1>3, <1>5, ServedFacts, DecidedIsNext
  <2> QED BY <1>1, <1>2, <2>3, <2>6, <2>7, <2>8
          DEF Serves, CoreIdles, Dialogue, RespStates
<1> QED BY <1>4, <1>5

LEMMA DialogueServes ==
    ASSUME NEW d, NEW r, NEW fwd, Served(d, r, fwd), srot_current_state \in Dialogue
    PROVE  Serves
<1>1. llkipp_current_state \in {"IDLE", "MESSAGE_CHECK", "LOAD_KEY_WORDS",
                               "WAIT_FOR_COMPLETE", "CLEAR_KEY", "RESPONSE"}
      BY ServedFacts DEF TypeOK, Core!TypeOK, Core!PpTypeOK, Core!PpState
<1> QED BY <1>1, IdleServes, CheckServes, LoadServes, WaitServes, ClearServes,
           ResponseServes

-----------------------------------------------------------------------------
(* The answer, from the moment it is decided *)

\* Where the responses in flight are.
LEMMA InFlightAt ==
    Known =>
        /\ Nowhere \/ Written \/ Queued \/ Taken \/ Working => ResponsesInFlight = {}
        /\ Offered => ResponsesInFlight = {respfifo_wdata_i}
        /\ Ready => ResponsesInFlight = {Head(llkic2_respfifo)}
        /\ Fetched => ResponsesInFlight = {s_rdata}
        /\ srot_current_state # "IDLE" => ResponsesInFlight = {}
        /\ sw_state = "WAITING" => Ready \/ Fetched
<1> SUFFICES ASSUME Known
             PROVE  /\ Nowhere \/ Written \/ Queued \/ Taken \/ Working =>
                           ResponsesInFlight = {}
                    /\ Offered => ResponsesInFlight = {respfifo_wdata_i}
                    /\ Ready => ResponsesInFlight = {Head(llkic2_respfifo)}
                    /\ Fetched => ResponsesInFlight = {s_rdata}
                    /\ srot_current_state # "IDLE" => ResponsesInFlight = {}
                    /\ sw_state = "WAITING" => Ready \/ Fetched
    OBVIOUS
<1>1. TypeOK /\ SlaveKnown /\ TokenKnown BY DEF Known
<1>2. \A q \in ResponsesInFlight :
          /\ \/ Offered /\ q = respfifo_wdata_i
             \/ Ready /\ q = Head(llkic2_respfifo)
             \/ Fetched /\ q = s_rdata
          /\ ResponsesInFlight = {q} /\ Resting
      BY <1>1, InFlightIs
<1>3. Nowhere \/ Written \/ Queued \/ Taken \/ Working => ResponsesInFlight = {}
      BY <1>1, <1>2, OnePlaceOnly
<1>4. Offered => ResponsesInFlight = {respfifo_wdata_i}
  <2>1. Offered => respfifo_wdata_i \in ResponsesInFlight
        BY DEF Offered, ResponsesInFlight
  <2> QED BY <1>2, <2>1
<1>5. Ready => ResponsesInFlight = {Head(llkic2_respfifo)}
  <2>1. Ready => Head(llkic2_respfifo) \in ResponsesInFlight
    <3> SUFFICES ASSUME Ready PROVE Head(llkic2_respfifo) \in ResponsesInFlight
        OBVIOUS
    <3>1. llkic2_respfifo = <<Head(llkic2_respfifo)>> BY DEF Ready, Holds
    <3>2. 1 \in DOMAIN llkic2_respfifo /\ llkic2_respfifo[1] = Head(llkic2_respfifo)
          BY <3>1
    <3> QED BY <3>2 DEF ResponsesInFlight
  <2> QED BY <1>2, <2>1
<1>6. Fetched => ResponsesInFlight = {s_rdata}
  <2>1. Fetched => s_rdata \in ResponsesInFlight
        BY DEF Fetched, ResponsesInFlight
  <2> QED BY <1>2, <2>1
<1>7. srot_current_state # "IDLE" => ResponsesInFlight = {}
      BY <1>2 DEF Resting
<1> QED BY <1>1, <1>3, <1>4, <1>5, <1>6, <1>7 DEF TokenKnown

\* Where the answer of the service is.
LEMMA AnswersWhere ==
    Known /\ PpIdleKnown =>
        /\ srot_current_state = "IDLE" => Answers = ResponsesInFlight
        /\ srot_current_state = "C2_RESPONSE" => Answers = {C2ResponseMessage}
        /\ srot_current_state \notin {"IDLE", "C2_RESPONSE"} =>
               Answers = {ToSoftware(x) : x \in Decided}
        /\ srot_current_state \notin Dialogue => Decided = {} /\ HeldKey = CoreHolds
<1> SUFFICES ASSUME Known, PpIdleKnown
             PROVE  /\ srot_current_state = "IDLE" => Answers = ResponsesInFlight
                    /\ srot_current_state = "C2_RESPONSE" =>
                           Answers = {C2ResponseMessage}
                    /\ srot_current_state \notin {"IDLE", "C2_RESPONSE"} =>
                           Answers = {ToSoftware(x) : x \in Decided}
                    /\ srot_current_state \notin Dialogue =>
                           Decided = {} /\ HeldKey = CoreHolds
    OBVIOUS
<1>1. srot_current_state \notin Dialogue => Decided = {} /\ HeldKey = CoreHolds
  <2>1. srot_current_state \notin Dialogue =>
            llkipp_current_state = "IDLE" /\ ~Closed
        BY DEF PpIdleKnown, Undelivered, Closed, Dialogue, RespStates
  <2> QED BY <2>1, DecidedIs
<1>2. srot_current_state \in {"IDLE", "C2_RESPONSE"} =>
          srot_current_state \notin Dialogue
      BY DEF Dialogue, LoadStates, ReadyStates, RespStates
<1>3. srot_current_state # "IDLE" => ResponsesInFlight = {}
      BY InFlightAt
<1>4. Decided = {} => {ToSoftware(x) : x \in Decided} = {}
      OBVIOUS
<1> HIDE DEF Decided
<1> QED BY <1>1, <1>2, <1>3, <1>4 DEF Answers

\* A dialogue that ends gives the answer it has.
LEMMA MessageIs ==
    /\ Told(msg_id, status) /\ rsvd = sw_request.rsvd =>
           C2ResponseMessage = ToSoftware(<<msg_id, status>>)
    /\ status \in Refusal /\ rsvd = sw_request.rsvd =>
           C2ResponseMessage = [id |-> "ERRORRESP", status |-> status, len |-> 1,
                                rsvd |-> sw_request.rsvd]
<1>1. ASSUME status \in Refusal, rsvd = sw_request.rsvd
      PROVE  C2ResponseMessage = [id |-> "ERRORRESP", status |-> status, len |-> 1,
                                  rsvd |-> sw_request.rsvd]
      BY <1>1 DEF C2ResponseMessage, C2Message, Refusal
<1>2. ASSUME Told(msg_id, status), rsvd = sw_request.rsvd
      PROVE  C2ResponseMessage = ToSoftware(<<msg_id, status>>)
  <2>1. ToSoftware(<<msg_id, status>>) = C2Message(PassedOn(msg_id), status)
        BY <1>2 DEF ToSoftware, C2Message
  <2>2. CASE msg_id = "KLLOADKEYACK"
    <3>1. status = "GOOD" BY <1>2, <2>2 DEF Told
    <3> QED BY <2>1, <2>2, <3>1 DEF C2ResponseMessage, PassedOn
  <2>3. CASE msg_id = "KLCLEARKEYACK"
    <3>1. status = "GOOD" BY <1>2, <2>3 DEF Told
    <3> QED BY <2>1, <2>3, <3>1 DEF C2ResponseMessage, PassedOn
  <2>4. CASE msg_id = "KLKEYSTATUSRESP"
    <3>1. status \in {"KEY_PRESENT", "KEY_NOT_PRESENT"} BY <1>2, <2>4 DEF Told
    <3> QED BY <2>1, <2>4, <3>1 DEF C2ResponseMessage, PassedOn
  <2>5. CASE msg_id = "ERRORRESP"
    <3>1. status \in {"KL_KEY_OVERWRITE", "KL_BAD_KEY_LEN"} BY <1>2, <2>5 DEF Told
    <3> QED BY <2>1, <2>5, <3>1 DEF C2ResponseMessage, PassedOn
  <2> QED BY <1>2, <2>2, <2>3, <2>4, <2>5 DEF Told
<1> QED BY <1>1, <1>2

\* The same of the next state.
LEMMA AnswersNext ==
    /\ (Known =>
            /\ Nowhere \/ Written \/ Queued \/ Taken \/ Working =>
                   ResponsesInFlight = {}
            /\ Offered => ResponsesInFlight = {respfifo_wdata_i}
            /\ Ready => ResponsesInFlight = {Head(llkic2_respfifo)}
            /\ Fetched => ResponsesInFlight = {s_rdata}
            /\ srot_current_state # "IDLE" => ResponsesInFlight = {}
            /\ sw_state = "WAITING" => Ready \/ Fetched)'
    /\ (Known /\ PpIdleKnown =>
            /\ srot_current_state = "IDLE" => Answers = ResponsesInFlight
            /\ srot_current_state = "C2_RESPONSE" => Answers = {C2ResponseMessage}
            /\ srot_current_state \notin {"IDLE", "C2_RESPONSE"} =>
                   Answers = {ToSoftware(x) : x \in Decided}
            /\ srot_current_state \notin Dialogue =>
                   Decided = {} /\ HeldKey = CoreHolds)'
    /\ (Told(msg_id, status) /\ rsvd = sw_request.rsvd =>
            C2ResponseMessage = ToSoftware(<<msg_id, status>>))'
    /\ (status \in Refusal /\ rsvd = sw_request.rsvd =>
            C2ResponseMessage = [id |-> "ERRORRESP", status |-> status, len |-> 1,
                                 rsvd |-> sw_request.rsvd])'
BY InFlightAt, AnswersWhere, MessageIs, PTL

-----------------------------------------------------------------------------
(* What the software provisions *)

Mode == srot_ctrlstatus_register.mode

\* One word of one RAM changes, and only while no mode bit is set.
ProvisionsMove(a) ==
    /\ Mode \subseteq Mode'
    /\ ~SetsUp(a) => Mode' = Mode
    /\ \/ UNCHANGED <<keyram, keyindexram>>
       \/ /\ Pauses(a) /\ Mode = {}
          /\ \/ /\ \E i \in DOMAIN keyram : keyram' = [keyram EXCEPT ![i] = keyram'[i]]
                /\ UNCHANGED keyindexram
             \/ /\ \E i \in DOMAIN keyindexram :
                       keyindexram' = [keyindexram EXCEPT ![i] = keyindexram'[i]]
                /\ UNCHANGED keyram

LEMMA ProvisionsMoveSo ==
    ASSUME TypeOK, SlaveKnown, NEW fwd, NEW back, NEW a, Clock(a, fwd, back),
           Accesses(a) \/ IsAnswered(a) \/ Pauses(a), SlaveMoves(a)
    PROVE  ProvisionsMove(a)
<1> DEFINE r == SlaveStrobe(a)
<1>1. SrotWriteDecode(r) /\ RamStep(r) /\ r.addr = a.addr
  <2>1. SrotWriteDecode(r) /\ RamStep(r)
        BY DEF Clock, Hardware, SrotStep
  <2> QED BY <2>1 DEF SlaveMoves
<1>2. Mode' = Mode \cup (IF r.we /\ r.addr.unit = "CTRLSTS" THEN r.wdata ELSE {})
      BY <1>1 DEF SrotWriteDecode, Mode
<1>3. ~SetsUp(a) => ~(r.we /\ r.addr.unit = "CTRLSTS")
  <2>1. CASE Sends(a)
    <3>1. a = Write("SENDRECV", 0, sw_request') BY <2>1 DEF Sends
    <3>2. \A data : Write("SENDRECV", 0, data).addr = [unit |-> "SENDRECV", idx |-> 0]
          BY DEF Write, SlaveChannel
    <3>3. a.addr.unit = "SENDRECV" BY <3>1, <3>2
    <3> QED BY <1>1, <3>3
  <2>2. CASE Polls(a) \/ Fetches(a)
        BY <2>2, Fields DEF Polls, Fetches, SlaveMoves
  <2>3. CASE IsAnswered(a) \/ Pauses(a)
    <3>1. a = Silent /\ ~a.valid BY <2>3, Fields DEF IsAnswered, Pauses
    <3>2. ~r.we
      <4>1. CASE sw_op = None BY <3>1, <4>1 DEF SlaveMoves
      <4>2. CASE sw_op # None BY <4>2 DEF SlaveMoves
      <4> QED BY <4>1, <4>2
    <3> QED BY <3>2
  <2> QED BY <2>1, <2>2, <2>3 DEF Accesses
<1>4. CASE ram_write_i = None
  <2>1. UNCHANGED <<keyram, keyindexram>> BY <1>1, <1>4 DEF RamStep
  <2> QED BY <1>2, <1>3, <2>1 DEF ProvisionsMove
<1>5. CASE ram_write_i # None
  <2>1. /\ Mode = {} /\ sw_op = "SETUP" /\ ~s_d_valid
        BY <1>5 DEF SlaveKnown, Mode
  <2>2. Pauses(a)
        BY <2>1, NoneIsNew DEF Accesses, Sends, Polls, Fetches, SetsUp, IsAnswered
  <2> DEFINE k == RamIndex(r, "KEYRAM", keyram_stm_addr_i, KeyRamSize)
             x == RamIndex(r, "KEYINDEXRAM", keyindexram_stm_addr_i,
                           KeyIndexRamSize)
  <2>3. k \in DOMAIN keyram /\ x \in DOMAIN keyindexram
    <3>1. /\ DOMAIN keyram = 0 .. KeyRamSize - 1
          /\ DOMAIN keyindexram = 0 .. KeyIndexRamSize - 1
          BY DEF TypeOK, SrotTypeOK, MemTypeOK
    <3> QED BY <1>1, <3>1, RamIndexInRange
  <2>4. ram_write_i.ram \in {"KEYRAM", "KEYINDEXRAM"}
        BY <1>5 DEF TypeOK, SrotTypeOK, DecodeTypeOK
  <2>5. CASE ram_write_i.ram = "KEYRAM"
    <3>1. /\ keyram' = [keyram EXCEPT ![k] = ram_write_i.wdata]
          /\ UNCHANGED keyindexram
          BY <1>1, <1>5, <2>5 DEF RamStep
    <3> HIDE DEF k
    <3>2. keyram' = [keyram EXCEPT ![k] = keyram'[k]]
          BY <2>3, <3>1
    <3> QED BY <1>2, <1>3, <2>1, <2>2, <2>3, <3>1, <3>2 DEF ProvisionsMove
  <2>6. CASE ram_write_i.ram = "KEYINDEXRAM"
    <3>1. /\ keyindexram' = [keyindexram EXCEPT ![x] = ram_write_i.wdata]
          /\ UNCHANGED keyram
          BY <1>1, <1>5, <2>6 DEF RamStep
    <3> HIDE DEF x
    <3>2. keyindexram' = [keyindexram EXCEPT ![x] = keyindexram'[x]]
          BY <2>3, <3>1
    <3> QED BY <1>2, <1>3, <2>1, <2>2, <2>3, <3>1, <3>2 DEF ProvisionsMove
  <2> QED BY <2>4, <2>5, <2>6
<1> QED BY <1>4, <1>5

-----------------------------------------------------------------------------
(* Every step is one of the service, or changes nothing it sees *)

\* All that is known of a step.
Steps(d, r, fwd, a) ==
    Served(d, r, fwd) /\ SoundKnown' /\ TokenStep(a) /\ ProvisionsMove(a)

\* Nothing happens to a core that the state machine does not talk to.
LEMMA CoreStays ==
    ASSUME NEW d, NEW r, NEW fwd, Served(d, r, fwd), srot_current_state \notin Dialogue
    PROVE  HeldKey' = HeldKey
<1>1. llkipp_current_state = "IDLE"
      BY ServedFacts DEF PpIdleKnown, Undelivered
<1>2. HeldKey = CoreHolds BY <1>1, ServedFacts, DecidedIs
<1>3. CoreHolds' = CoreHolds
  <2>1. tss_state = "IDLE" /\ ~llkid_clear_key /\ ~llkid_key_valid
        BY <1>1, ServedFacts DEF TssKnown, CoreKnown
  <2> QED BY <2>1, ServedFacts, CoreRests, HoldsStays
<1>4. llkipp_current_state' \in {"IDLE", "MESSAGE_CHECK"}
      BY <1>1, ServedFacts DEF PpMoves
<1>5. HeldKey' = CoreHolds' BY <1>4, ServedFacts, DecidedIsNext
<1> QED BY <1>2, <1>3, <1>5

LEMMA ServiceStutters ==
    ASSUME keyram' = keyram, keyindexram' = keyindexram, Mode' = Mode,
           sw_request' = sw_request, Answers' = Answers, HeldKey' = HeldKey
    PROVE  UNCHANGED Service!serviceVars
BY DEF Service!serviceVars, Service!provisions, Mode

\* While a request is worked on nothing is provisioned.
LEMMA RequestHolds ==
    ASSUME NEW d, NEW r, NEW fwd, NEW a, Steps(d, r, fwd, a), sw_request # None
    PROVE  keyram' = keyram /\ keyindexram' = keyindexram /\ Mode' = Mode
<1>1. keyram' = keyram /\ keyindexram' = keyindexram
      BY ServedFacts DEF Steps, RequestStays
<1>2. ~SetsUp(a)
  <2>1. SlaveKnown BY DEF Steps, Served, IInv, Known
  <2> QED BY <2>1, NoneIsNew DEF SetsUp, SlaveKnown
<1> QED BY <1>1, <1>2 DEF Steps, ProvisionsMove

\* Between requests.
LEMMA NoRequestStep ==
    ASSUME NEW d, NEW r, NEW fwd, NEW a, Steps(d, r, fwd, a), sw_request = None
    PROVE  [Service!ServiceNext]_Service!serviceVars
<1>1. /\ Known /\ TypeOK /\ SlaveKnown /\ TokenKnown /\ PpIdleKnown
      /\ Known' /\ PpIdleKnown' /\ TokenStep(a) /\ ProvisionsMove(a)
      BY DEF Steps, Served, IInv, Known, PpKnown
<1>2. sw_state = "FREE" /\ sw_op \notin {"SEND", "POLL", "FETCH"}
      BY <1>1 DEF SlaveKnown
<1>3. Nowhere
  <2>1. sw_op # "SEND" /\ sw_op # "FETCH" BY <1>2
  <2> QED BY <1>1, <2>1
          DEF TokenKnown, Written, Queued, Taken, Working, Offered, Ready, Fetched
<1>4. Nowhere' \/ Written' BY <1>1, <1>3, NowhereMoves
<1>5. srot_current_state = "IDLE" /\ srot_current_state' = "IDLE"
      BY <1>3, <1>4 DEF Nowhere, Written, Resting
<1>6. Answers = {} /\ Answers' = {}
  <2>1. ResponsesInFlight = {} BY <1>1, <1>3, InFlightAt
  <2>2. ResponsesInFlight' = {} BY <1>1, <1>4, AnswersNext
  <2> QED BY <1>1, <1>5, <2>1, <2>2, AnswersWhere, AnswersNext
<1>7. HeldKey' = HeldKey
  <2>1. srot_current_state \notin Dialogue
        BY <1>5 DEF Dialogue, LoadStates, ReadyStates, RespStates
  <2> QED BY <2>1, CoreStays DEF Steps
<1> HIDE DEF Answers, HeldKey
<1>8. CASE Sends(a)
  <2>1. sw_request' \in C2Requests BY <1>8 DEF Sends
  <2>2. ~SetsUp(a) /\ ~Pauses(a)
        BY <1>8, NoneIsNew DEF Sends, SetsUp, Pauses
  <2>3. keyram' = keyram /\ keyindexram' = keyindexram /\ Mode' = Mode
        BY <1>1, <2>2 DEF ProvisionsMove
  <2>4. Service!Ask
        BY <1>6, <1>7, <2>1, <2>3 DEF Service!Ask, Service!provisions, Mode
  <2> QED BY <2>4 DEF Service!ServiceNext
<1>9. CASE SetsUp(a)
  <2>1. ~Pauses(a) /\ sw_request' = sw_request
        BY <1>9, NoneIsNew DEF SetsUp, Pauses
  <2>2. keyram' = keyram /\ keyindexram' = keyindexram /\ Mode \subseteq Mode'
        BY <1>1, <2>1 DEF ProvisionsMove
  <2>3. Service!Lock
        BY <1>6, <1>7, <2>1, <2>2 DEF Service!Lock, Mode
  <2> QED BY <2>3 DEF Service!ServiceNext
<1>10. CASE IsAnswered(a) \/ Pauses(a)
  <2>1. sw_request' = sw_request /\ ~SetsUp(a)
        BY <1>2, <1>10, NoneIsNew DEF IsAnswered, Pauses, SetsUp
  <2>2. Mode' = Mode BY <1>1, <2>1 DEF ProvisionsMove
  <2>3. CASE UNCHANGED <<keyram, keyindexram>>
        BY <1>6, <1>7, <2>1, <2>2, <2>3, ServiceStutters
  <2>4. CASE /\ Mode = {}
             /\ \/ /\ \E i \in DOMAIN keyram :
                          keyram' = [keyram EXCEPT ![i] = keyram'[i]]
                   /\ UNCHANGED keyindexram
                \/ /\ \E i \in DOMAIN keyindexram :
                          keyindexram' = [keyindexram EXCEPT ![i] = keyindexram'[i]]
                   /\ UNCHANGED keyram
    <3>1. Service!Provision
          BY <1>6, <1>7, <2>1, <2>2, <2>4 DEF Service!Provision, Mode
    <3> QED BY <3>1 DEF Service!ServiceNext
  <2> QED BY <1>1, <2>3, <2>4 DEF ProvisionsMove
<1>11. ~Polls(a) /\ ~Fetches(a) BY <1>2 DEF Polls, Fetches
<1> QED BY <1>1, <1>8, <1>9, <1>10, <1>11 DEF TokenStep, Accesses

\* A request on its way to the state machine, or its response to the software.
LEMMA RestingStep ==
    ASSUME NEW d, NEW r, NEW fwd, NEW a, Steps(d, r, fwd, a),
           sw_request # None, srot_current_state = "IDLE"
    PROVE  [Service!ServiceNext]_Service!serviceVars
<1>1. /\ Known /\ TypeOK /\ SlaveKnown /\ TokenKnown /\ PpIdleKnown
      /\ Known' /\ PpIdleKnown' /\ TokenStep(a) /\ RequestStays
      BY DEF Steps, Served, IInv, Known, PpKnown, Moves, Edge
<1>2. keyram' = keyram /\ keyindexram' = keyindexram /\ Mode' = Mode
      BY RequestHolds
<1>3. HeldKey' = HeldKey
  <2>1. srot_current_state \notin Dialogue
        BY DEF Dialogue, LoadStates, ReadyStates, RespStates
  <2> QED BY <2>1, CoreStays DEF Steps
<1>4. Answers = ResponsesInFlight BY <1>1, AnswersWhere
<1>5. srot_current_state' \in {"IDLE", "MESSAGE_CHECK"}
      BY <1>1 DEF TokenStep, TokenMoves
<1>6. Answers' = ResponsesInFlight'
  <2>1. CASE srot_current_state' = "IDLE" BY <1>1, <2>1, AnswersNext
  <2>2. CASE srot_current_state' = "MESSAGE_CHECK"
    <3>1. srot_current_state' \notin Dialogue
          BY <2>2 DEF Dialogue, LoadStates, ReadyStates, RespStates
    <3>2. Decided' = {} BY <1>1, <3>1, AnswersNext
    <3>3. Answers' = {ToSoftware(x)' : x \in Decided'}
          BY <1>1, <2>2, AnswersNext
    <3>4. ResponsesInFlight' = {} BY <1>1, <2>2, AnswersNext
    <3> QED BY <3>2, <3>3, <3>4
  <2> QED BY <1>5, <2>1, <2>2
<1> HIDE DEF Answers, HeldKey
<1>7. Written \/ Queued \/ Offered \/ Ready \/ Fetched
      BY <1>1 DEF TokenKnown, Nowhere, Taken, Working
<1>8. ~Fetched => sw_request' = sw_request
  <2>1. sw_op = "FETCH" => Ready \/ Fetched
        BY <1>1 DEF SlaveKnown, TokenKnown
  <2>2. Ready => ~(sw_op = "FETCH" /\ s_d_valid)
        BY <1>1 DEF SlaveKnown, Ready
  <2> QED BY <1>1, <2>1, <2>2 DEF RequestStays
<1>9. Written \/ Queued \/ Offered => sw_state # "WAITING"
      BY <1>1, OnePlaceOnly DEF TokenKnown
<1>10. ~Fetched => ResponsesInFlight' = ResponsesInFlight
  <2>1. CASE Written
    <3>1. Queued' BY <1>1, <2>1, WrittenMoves
    <3> QED BY <1>1, <2>1, <3>1, InFlightAt, AnswersNext
  <2>2. CASE Queued
    <3>1. Taken' BY <1>1, <1>9, <2>2, QueuedMoves
    <3> QED BY <1>1, <2>2, <3>1, InFlightAt, AnswersNext
  <2>3. CASE Offered
    <3>1. Ready' /\ Head(llkic2_respfifo') = respfifo_wdata_i
          BY <1>1, <1>9, <2>3, OfferedMoves
    <3> QED BY <1>1, <2>3, <3>1, InFlightAt, AnswersNext
  <2>4. CASE Ready
    <3>1. IF sw_op = "FETCH"
          THEN Fetched' /\ s_rdata' = Head(llkic2_respfifo)
          ELSE Ready' /\ Head(llkic2_respfifo') = Head(llkic2_respfifo)
          BY <1>1, <2>4, ReadyMoves
    <3>2. ResponsesInFlight = {Head(llkic2_respfifo)} BY <1>1, <2>4, InFlightAt
    <3>3. CASE sw_op = "FETCH"
      <4>1. ResponsesInFlight' = {s_rdata'} BY <1>1, <3>1, <3>3, AnswersNext
      <4> QED BY <3>1, <3>2, <3>3, <4>1
    <3>4. CASE sw_op # "FETCH"
      <4>1. ResponsesInFlight' = {Head(llkic2_respfifo')}
            BY <1>1, <3>1, <3>4, AnswersNext
      <4> QED BY <3>1, <3>2, <3>4, <4>1
    <3> QED BY <3>3, <3>4
  <2> QED BY <1>7, <2>1, <2>2, <2>3, <2>4
<1>11. CASE ~Fetched
      BY <1>2, <1>3, <1>4, <1>6, <1>8, <1>10, <1>11, ServiceStutters
<1>12. CASE Fetched
  <2>1. Nowhere' BY <1>1, <1>12, FetchedMoves
  <2>2. sw_request' = None BY <2>1 DEF Nowhere
  <2>3. Answers' = {} BY <1>1, <1>6, <2>1, AnswersNext
  <2>4. Answers # {} BY <1>1, <1>4, <1>12, InFlightAt
  <2>5. Service!Receive
        BY <1>2, <1>3, <2>2, <2>3, <2>4 DEF Service!Receive, Service!provisions, Mode
  <2> QED BY <2>5 DEF Service!ServiceNext
<1> QED BY <1>11, <1>12

\* What the state machine works on, it works on in one place.
LEMMA WorkFacts ==
    ASSUME NEW d, NEW r, NEW fwd, NEW a, Steps(d, r, fwd, a),
           srot_current_state # "IDLE"
    PROVE  /\ Known /\ TypeOK /\ PpIdleKnown /\ RequestKnown /\ ResponsesKnown
           /\ SoundKnown
           /\ Known' /\ PpIdleKnown' /\ RequestKnown' /\ ResponsesKnown'
           /\ MessageMoves /\ TokenMoves /\ StmStep(d) /\ ~d.err
           /\ sw_request # None /\ sw_request' = sw_request
           /\ keyram' = keyram /\ keyindexram' = keyindexram /\ Mode' = Mode
           /\ srot_current_state \in SrotState
           /\ TokenStep(a)
<1>1. /\ Known /\ TypeOK /\ PpIdleKnown /\ RequestKnown /\ ResponsesKnown
      /\ SoundKnown
      /\ Known' /\ PpIdleKnown' /\ RequestKnown' /\ ResponsesKnown'
      /\ TokenStep(a)
      BY DEF Steps, Served, IInv, Known, PpKnown
<1>2. MessageMoves /\ StmStep(d) /\ ~d.err /\ RequestStays
      BY DEF Steps, Served, Moves, Edge
<1>3. TokenMoves BY <1>1 DEF TokenStep
<1>4. sw_request # None /\ sw_request' = sw_request BY <1>2 DEF RequestStays
<1>5. srot_current_state \in SrotState
      BY <1>1 DEF TypeOK, SrotTypeOK, StmTypeOK
<1> QED BY <1>1, <1>2, <1>3, <1>4, <1>5, RequestHolds

\* The checks before a dialogue.
LEMMA CheckingStep ==
    ASSUME NEW d, NEW r, NEW fwd, NEW a, Steps(d, r, fwd, a),
           srot_current_state \in {"MESSAGE_CHECK"} \cup Checking
    PROVE  [Service!ServiceNext]_Service!serviceVars
<1> DEFINE s == srot_current_state
           t == srot_current_state'
<1> USE DEF Checking
<1>1. s \notin Dialogue /\ s # "IDLE" /\ s # "C2_RESPONSE"
      BY DEF Dialogue, LoadStates, ReadyStates, RespStates
<1>2. HeldKey' = HeldKey BY <1>1, CoreStays DEF Steps
<1>3. Answers = {} BY <1>1, WorkFacts, AnswersWhere
<1>4. t \in Checking \cup {"KL_REQ_HEADER", "C2_RESPONSE"}
      BY <1>1, WorkFacts DEF MessageMoves
<1>5. /\ msg_id = sw_request.id /\ key_index = sw_request.key_index
      /\ s \in Checking => key_index < KeyIndexRamSize
      /\ s = "RETRIEVE_KEY_INDEX" => keyindexram_rdata_o = Asked
      /\ s = "MESSAGE_CHECK" => msg_len = sw_request.len
      BY <1>1, WorkFacts DEF RequestKnown, MessageInHand, EntryInHand, SoundKnown
<1> HIDE DEF Answers, HeldKey
<1>6. CASE t # "C2_RESPONSE"
  <2>1. Answers' = {ToSoftware(x)' : x \in Decided'}
        BY <1>1, <1>4, <1>6, WorkFacts, AnswersNext
  <2>2. Decided' = {}
    <3>1. CASE t = "KL_REQ_HEADER"
      <4>1. Undelivered' BY <3>1 DEF Undelivered
      <4>2. ~Closed' BY <3>1 DEF Closed
      <4>3. llkipp_current_state' = "IDLE"
            BY <1>1, <4>1, WorkFacts DEF PpIdleKnown
      <4> QED BY <1>1, <4>2, <4>3, WorkFacts, DecidedIsNext
    <3>2. CASE t \in Checking
      <4>1. t \notin Dialogue
            BY <3>2 DEF Dialogue, LoadStates, ReadyStates, RespStates
      <4> QED BY <1>1, <4>1, WorkFacts, AnswersNext
    <3> QED BY <1>4, <1>6, <3>1, <3>2
  <2>3. Answers' = {} BY <2>1, <2>2
  <2> QED BY <1>1, <1>2, <1>3, <2>3, WorkFacts, ServiceStutters
<1>7. CASE t = "C2_RESPONSE"
  <2>1. /\ status' \in Refusal
        /\ Service!Fault(status')
    <3>1. CASE s = "MESSAGE_CHECK"
      <4>1. StmMessageCheck BY <1>1, <3>1, WorkFacts, StmBranch
      <4>2. \/ status' = "KEY_INDEX_EXCEED" /\ key_index >= KeyIndexRamSize
            \/ status' = "BAD_MSG_LEN" /\ msg_len # 1
            \/ status' = "BAD_MSG_ID" /\ msg_id \notin C2Request
            BY <1>7, <4>1 DEF StmMessageCheck, Refuse, Proceed, Goto
      <4> QED BY <1>5, <3>1, <4>2 DEF Refusal, Service!Fault, Service!C2Request, C2Request
    <3>2. CASE s = "RETRIEVE_KEY_INDEX"
      <4>1. StmRetrieve BY <1>1, <3>2, WorkFacts, StmBranch
      <4>2. \/ status' = "KEY_INDEX_INVALID" /\ ~keyindexram_rdata_o.valid
            \/ status' = "BAD_POINTER_PAIR" /\ BadPointerPair
            \/ status' = "BAD_CORE_INDEX" /\ core_index > NumCores - 1
            BY <1>7, <4>1 DEF StmRetrieve, Refuse, Proceed, Goto
      <4>3. Service!Entry = keyindexram_rdata_o
            BY <1>5, <3>2 DEF Service!Entry, Asked, EntryOf
      <4>4. sw_request.key_index < KeyIndexRamSize BY <1>5, <3>2
      <4> QED BY <4>2, <4>3, <4>4 DEF Refusal, Service!Fault, BadPointerPair,
              low_pointer, high_pointer, core_index
    <3>3. s # "RETRIEVE_KEY_INDEX_WAIT_STATE"
          BY <1>1, <1>7, WorkFacts DEF MessageMoves
    <3> QED BY <3>1, <3>2, <3>3
  <2>2. rsvd' = sw_request'.rsvd
        BY <1>1, <1>7, WorkFacts DEF RequestKnown, MessageInHand
  <2>3. Answers' = {[id |-> "ERRORRESP", status |-> status', len |-> 1,
                     rsvd |-> sw_request.rsvd]}
    <3>1. Answers' = {C2ResponseMessage'}
          BY <1>1, <1>7, WorkFacts, AnswersNext
    <3>2. C2ResponseMessage' = [id |-> "ERRORRESP", status |-> status', len |-> 1,
                                rsvd |-> sw_request'.rsvd]
          BY <2>1, <2>2, AnswersNext
    <3> QED BY <1>1, <3>1, <3>2, WorkFacts
  <2>4. status' \in Service!Status BY <2>1 DEF Service!Status, Refusal
  <2>5. Service!Refuse
        BY <1>2, <2>1, <2>3, <2>4 DEF Service!Refuse, Service!Reply
  <2>6. Service!Serve
        BY <1>1, <1>3, <2>5, WorkFacts DEF Service!Serve, Service!provisions, Mode
  <2> QED BY <2>6 DEF Service!ServiceNext
<1> QED BY <1>6, <1>7

\* The response is written.
LEMMA RespondingStep ==
    ASSUME NEW d, NEW r, NEW fwd, NEW a, Steps(d, r, fwd, a),
           srot_current_state = "C2_RESPONSE"
    PROVE  [Service!ServiceNext]_Service!serviceVars
<1>1. srot_current_state # "IDLE" /\ srot_current_state \notin Dialogue
      BY DEF Dialogue, LoadStates, ReadyStates, RespStates
<1>2. HeldKey' = HeldKey BY <1>1, CoreStays DEF Steps
<1>3. Answers = {C2ResponseMessage} BY <1>1, WorkFacts, AnswersWhere
<1>4. srot_current_state' = "IDLE" /\ respfifo_wdata_i' = C2ResponseMessage
      BY <1>1, WorkFacts DEF TokenMoves
<1>5. Working
      BY <1>1, WorkFacts DEF Known, TokenKnown, Nowhere, Written, Queued, Taken,
         Offered, Ready, Fetched, Resting
<1>6. sw_state # "WAITING"
      BY <1>1, <1>5, WorkFacts, InFlightAt, OnePlaceOnly DEF Known
<1>7. Offered'
  <2>1. Working' \/ Offered'
        BY <1>1, <1>5, <1>6, WorkFacts, WorkingMoves DEF Known
  <2> QED BY <1>4, <2>1 DEF Working
<1>8. Answers' = {C2ResponseMessage}
      BY <1>1, <1>4, <1>7, WorkFacts, AnswersNext
<1> QED BY <1>1, <1>2, <1>3, <1>8, WorkFacts, ServiceStutters

\* How the service sees the request of a dialogue.
LEMMA RequestIs ==
    TypeOK /\ RequestKnown /\ SoundKnown /\ srot_current_state \in Dialogue =>
        /\ Service!Sound
        /\ Service!KeyLength = KeyLength(sw_request)
        /\ Service!Key = KeyOf(sw_request)
<1> SUFFICES ASSUME TypeOK, RequestKnown, SoundKnown, srot_current_state \in Dialogue
             PROVE  /\ Service!Sound
                    /\ Service!KeyLength = KeyLength(sw_request)
                    /\ Service!Key = KeyOf(sw_request)
    OBVIOUS
<1>1. /\ msg_id = sw_request.id /\ msg_id \in C2Request
      /\ key_index = sw_request.key_index /\ key_index < KeyIndexRamSize
      /\ Asked.low <= Asked.high /\ Asked.high < KeyRamSize
      /\ sw_request.len = 1 /\ Asked.valid /\ Asked.core <= NumCores - 1
      BY DEF RequestKnown, MessageInHand, EntryInHand, SoundKnown
<1>2. keyindexram_rdata_o = Asked BY DEF RequestKnown, EntryInHand
<1>3. /\ Asked.low \in Nat /\ Asked.high \in Nat /\ Asked.core \in Nat
      /\ key_index \in Nat
      /\ KeyIndexRamSize \in Nat /\ KeyRamSize \in Nat /\ NumCores \in Nat
  <2>1. /\ keyindexram_rdata_o.low \in Pointer /\ keyindexram_rdata_o.high \in Pointer
        /\ keyindexram_rdata_o.core \in Byte
        BY DEF TypeOK, SrotTypeOK, MemTypeOK, IndexEntry
  <2>2. key_index \in Byte BY DEF TypeOK, SrotTypeOK, StmTypeOK
  <2> QED BY <1>2, <2>1, <2>2, Ranges, SrotAssumption DEF Byte
<1>4. Service!Entry = Asked BY DEF Service!Entry, Asked, EntryOf
<1>5. ASSUME NEW st \in Service!Status
      PROVE  ~Service!Fault(st)
  <2>1. ~(sw_request.key_index >= KeyIndexRamSize) BY <1>1, <1>3
  <2>2. ~(sw_request.len # 1) BY <1>1
  <2>3. sw_request.id \in Service!C2Request
        BY <1>1 DEF Service!C2Request, C2Request
  <2>4. ~(Asked.low >= KeyRamSize \/ Asked.high >= KeyRamSize \/ Asked.low > Asked.high)
        BY <1>1, <1>3
  <2>5. ~(Asked.core > NumCores - 1) BY <1>1, <1>3
  <2> QED BY <1>1, <1>4, <2>1, <2>2, <2>3, <2>4, <2>5 DEF Service!Fault
<1>6. Service!KeyLength = KeyLength(sw_request)
      BY <1>4 DEF Service!KeyLength, KeyLength, Asked
<1>7. Service!Key = KeyOf(sw_request)
      BY <1>4 DEF Service!Key, KeyOf, Asked
<1> QED BY <1>5, <1>6, <1>7 DEF Service!Sound

LEMMA RequestIsNow ==
    ASSUME NEW d, NEW r, NEW fwd, NEW a, Steps(d, r, fwd, a),
           srot_current_state \in Dialogue
    PROVE  /\ Service!Sound
           /\ Service!KeyLength = KeyLength(sw_request)
           /\ Service!Key = KeyOf(sw_request)
<1>1. srot_current_state # "IDLE"
      BY DEF Dialogue, LoadStates, ReadyStates, RespStates
<1> QED BY <1>1, WorkFacts, RequestIs

\* The dialogue with the core.
LEMMA DialogueStep ==
    ASSUME NEW d, NEW r, NEW fwd, NEW a, Steps(d, r, fwd, a),
           srot_current_state \in Dialogue
    PROVE  [Service!ServiceNext]_Service!serviceVars
<1> DEFINE t == srot_current_state'
<1>1. srot_current_state \notin {"IDLE", "C2_RESPONSE"}
      BY DEF Dialogue, LoadStates, ReadyStates, RespStates
<1>2. Answers = {ToSoftware(x) : x \in Decided} BY <1>1, WorkFacts, AnswersWhere
<1>3. Serves BY DialogueServes DEF Steps
<1>4. ASSUME t \in Dialogue
      PROVE  Answers' = {ToSoftware(x)' : x \in Decided'}
  <2>1. t \notin {"IDLE", "C2_RESPONSE"}
        BY <1>4 DEF Dialogue, LoadStates, ReadyStates, RespStates
  <2> QED BY <1>1, <2>1, WorkFacts, AnswersNext
<1>5. \A x : ToSoftware(x)' = ToSoftware(x)
  <2>1. sw_request' = sw_request BY <1>1, WorkFacts
  <2> QED BY <2>1 DEF ToSoftware
<1> HIDE DEF Answers, HeldKey, Decided
<1>6. CASE CoreIdles /\ t \in Dialogue
  <2>1. Answers' = Answers BY <1>2, <1>4, <1>5, <1>6 DEF CoreIdles
  <2> QED BY <1>1, <1>6, <2>1, WorkFacts, ServiceStutters DEF CoreIdles
<1>7. CASE CoreServes /\ t \in Dialogue
  <2>1. Answers = {} BY <1>2, <1>7 DEF CoreServes
  <2>2. ASSUME NEW id, NEW st, Decided' = {<<id, st>>}
        PROVE  Service!Reply(PassedOn(id), st)
    <3>1. Answers' = {ToSoftware(<<id, st>>)} BY <1>4, <1>5, <1>7, <2>2
    <3> QED BY <3>1 DEF Service!Reply, ToSoftware
  <2>3. /\ PassedOn("ERRORRESP") = "ERRORRESP"
        /\ PassedOn("KLLOADKEYACK") = "C2LOADKEYACK"
        /\ PassedOn("KLCLEARKEYACK") = "C2CLEARKEYACK"
        /\ PassedOn("KLKEYSTATUSRESP") = "C2KEYSTATUSRESP"
        BY DEF PassedOn
  <2>4. /\ Service!Sound
        /\ Service!KeyLength = KeyLength(sw_request)
        /\ Service!Key = KeyOf(sw_request)
        BY RequestIsNow
  <2>5. Service!LoadKey \/ Service!ClearKey \/ Service!KeyStatus
    <3>1. CASE /\ sw_request.id = "C2LOADKEYREQ" /\ HeldKey # {}
               /\ Decided' = {<<"ERRORRESP", "KL_KEY_OVERWRITE">>}
               /\ HeldKey' = HeldKey
      <4>1. Service!Reply("ERRORRESP", "KL_KEY_OVERWRITE") BY <2>2, <2>3, <3>1
      <4> QED BY <2>4, <3>1, <4>1 DEF Service!LoadKey
    <3>2. CASE /\ sw_request.id = "C2LOADKEYREQ" /\ HeldKey = {}
               /\ KeyLength(sw_request) > KeyWords
               /\ Decided' = {<<"ERRORRESP", "KL_BAD_KEY_LEN">>}
               /\ HeldKey' = HeldKey
      <4>1. Service!Reply("ERRORRESP", "KL_BAD_KEY_LEN") BY <2>2, <2>3, <3>2
      <4> QED BY <2>4, <3>2, <4>1 DEF Service!LoadKey
    <3>3. CASE /\ sw_request.id = "C2LOADKEYREQ" /\ HeldKey = {}
               /\ KeyLength(sw_request) = KeyWords
               /\ Decided' = {<<"KLLOADKEYACK", "GOOD">>}
               /\ HeldKey' = {KeyOf(sw_request)}
      <4>1. Service!Reply("C2LOADKEYACK", "GOOD") BY <2>2, <2>3, <3>3
      <4> QED BY <2>4, <3>3, <4>1 DEF Service!LoadKey
    <3>4. CASE /\ sw_request.id = "C2CLEARKEYREQ"
               /\ Decided' = {<<"KLCLEARKEYACK", "GOOD">>} /\ HeldKey' = {}
      <4>1. Service!Reply("C2CLEARKEYACK", "GOOD") BY <2>2, <2>3, <3>4
      <4> QED BY <2>4, <3>4, <4>1 DEF Service!ClearKey
    <3>5. CASE /\ sw_request.id = "C2KEYSTATUSREQ"
               /\ Decided' = {<<"KLKEYSTATUSRESP",
                                IF HeldKey = {} THEN "KEY_NOT_PRESENT"
                                                ELSE "KEY_PRESENT">>}
               /\ HeldKey' = HeldKey
      <4>1. Service!Reply("C2KEYSTATUSRESP",
                          IF HeldKey = {} THEN "KEY_NOT_PRESENT" ELSE "KEY_PRESENT")
            BY <2>2, <2>3, <3>5
      <4> QED BY <2>4, <3>5, <4>1 DEF Service!KeyStatus
    <3> QED BY <1>7, <3>1, <3>2, <3>3, <3>4, <3>5 DEF CoreServes
  <2>6. Service!Serve
        BY <1>1, <2>1, <2>5, WorkFacts DEF Service!Serve, Service!provisions, Mode
  <2> QED BY <2>6 DEF Service!ServiceNext
<1>8. CASE /\ Closed /\ t = "C2_RESPONSE"
           /\ msg_id' = rdata.id /\ status' = rdata.status /\ HeldKey' = HeldKey
  <2>1. PpIdleKnown /\ ResponsesKnown BY <1>1, WorkFacts
  <2>2. Decided = {<<rdata.id, rdata.status>>} BY <1>8, <2>1, DecidedIs
  <2>3. Answers = {ToSoftware(<<rdata.id, rdata.status>>)} BY <1>2, <2>2
  <2>4. Told(rdata.id, rdata.status) BY <1>8, <2>1 DEF ResponsesKnown
  <2>5. Told(msg_id, status)'
    <3>1. Told(msg_id, status)' \/ status' \in Refusal
          BY <1>1, <1>8, WorkFacts DEF ResponsesKnown
    <3>2. status' \notin Refusal
          BY <1>8, <2>4 DEF Told, Refusal
    <3> QED BY <3>1, <3>2
  <2>6. rsvd' = sw_request'.rsvd
        BY <1>1, <1>8, WorkFacts DEF RequestKnown, MessageInHand
  <2>7. Answers' = {C2ResponseMessage'}
        BY <1>1, <1>8, WorkFacts, AnswersNext
  <2>8. C2ResponseMessage' = ToSoftware(<<msg_id, status>>)'
        BY <2>5, <2>6, AnswersNext
  <2>9. ToSoftware(<<msg_id, status>>)' = ToSoftware(<<rdata.id, rdata.status>>)
    <3>1. sw_request' = sw_request BY <1>1, WorkFacts
    <3> QED BY <1>8, <3>1 DEF ToSoftware
  <2>10. Answers' = Answers BY <2>3, <2>7, <2>8, <2>9
  <2> QED BY <1>1, <1>8, <2>10, WorkFacts, ServiceStutters
<1> QED BY <1>3, <1>6, <1>7, <1>8 DEF Serves

\* Every step is a step of the service, or none.
LEMMA ServiceStep ==
    ASSUME NEW d, NEW r, NEW fwd, NEW a, Steps(d, r, fwd, a)
    PROVE  [Service!ServiceNext]_Service!serviceVars
<1>1. srot_current_state \in SrotState
      BY DEF Steps, Served, IInv, Known, TypeOK, SrotTypeOK, StmTypeOK
<1>2. \/ srot_current_state \in {"IDLE", "C2_RESPONSE"}
      \/ srot_current_state \in {"MESSAGE_CHECK"} \cup Checking
      \/ srot_current_state \in Dialogue
      BY <1>1 DEF SrotState, Checking, Dialogue, LoadStates, ReadyStates, RespStates
<1> QED BY <1>2, NoRequestStep, RestingStep, CheckingStep, RespondingStep,
           DialogueStep

-----------------------------------------------------------------------------
(* LLKI implements KeyService *)

ServiceInv == IInv /\ Target!IInv /\ SoundKnown /\ ClearKnown

LEMMA ServiceInvInit == Init => ServiceInv /\ Service!ServiceInit
<1> SUFFICES ASSUME Init PROVE ServiceInv /\ Service!ServiceInit
    OBVIOUS
<1>1. IInv /\ Target!IInv BY IInvInit
<1>2. /\ srot_current_state = "IDLE" /\ sw_request = None /\ Mode = {}
      /\ respfifo_wdata_i = None /\ llkic2_respfifo = <<>> /\ sw_op = None
      BY DEF Init, SrotInit, Mode
<1>3. llkipp_current_state = "IDLE" /\ ~llkid_key_complete
      BY DEF Init, Core!TargetInit, Core!PpInit, Core!TssInit
<1>4. SoundKnown /\ ClearKnown
      BY <1>2, <1>3
      DEF SoundKnown, ClearKnown, Checking, Dialogue, LoadStates, ReadyStates, RespStates
<1>5. Known /\ PpIdleKnown BY <1>1 DEF IInv, PpKnown
<1>6. ResponsesInFlight = {}
  <2>1. {<<>>[i] : i \in DOMAIN <<>>} = {} OBVIOUS
  <2> QED BY <1>2, <2>1, NoneIsNew DEF ResponsesInFlight
<1>7. Answers = {} BY <1>2, <1>5, <1>6, AnswersWhere
<1>8. HeldKey = {} BY <1>3 DEF HeldKey
<1> QED BY <1>1, <1>2, <1>4, <1>7, <1>8 DEF ServiceInv, Service!ServiceInit, Mode

LEMMA ServiceInvNext ==
    ASSUME ServiceInv, Next
    PROVE  ServiceInv' /\ [Service!ServiceNext]_Service!serviceVars
<1>1. PICK fwd \in BOOLEAN, back \in BOOLEAN : Step(fwd, back)
      BY DEF Next
<1>2. /\ IInv /\ Target!IInv /\ SoundKnown /\ ClearKnown
      /\ Known /\ TypeOK /\ SlaveKnown /\ TokenKnown /\ RequestKnown /\ StatusKnown
      BY DEF ServiceInv, IInv, Known
<1>3. IInv' /\ Target!IInv'
      BY <1>2, IInvNext
<1>4. PICK a : /\ Clock(a, fwd, back)
               /\ Accesses(a) \/ IsAnswered(a) \/ Pauses(a)
      BY <1>1, SoftwareStep
<1>5. TokenStep(a)
      BY <1>2, <1>4, TokenStepSo
<1>6. ProvisionsMove(a)
  <2>1. SlaveMoves(a) BY <1>5 DEF TokenStep
  <2> QED BY <1>2, <1>4, <2>1, ProvisionsMoveSo
<1> DEFINE d == KLAnswerChannel(back)
           r == Core!Strobe(KLRequestChannel(fwd))
<1>7. Edge(d, r, fwd)
      BY <1>1, <1>2, EdgeSo
<1> HIDE DEF d, r
<1>8. Moves(d, r, fwd)
      BY <1>2, <1>7, MovesSo
<1>9. SoundKnown' BY <1>2, <1>8, SoundKnownStep
<1>10. CoreKnown BY <1>2, CoreKnownSo
<1>11. CoreKnown'
  <2>1. (Target!IInv => CoreKnown)' BY CoreKnownSo, PTL
  <2> QED BY <1>3, <2>1
<1>12. Served(d, r, fwd)
       BY <1>2, <1>3, <1>8, <1>10, <1>11 DEF Served
<1>13. ClearKnown' BY <1>12, ServedFacts, ClearKnownStep
<1>14. Steps(d, r, fwd, a) BY <1>5, <1>6, <1>9, <1>12 DEF Steps
<1> QED BY <1>3, <1>9, <1>13, <1>14, ServiceStep DEF ServiceInv

LEMMA ServiceInvStutters ==
    ASSUME ServiceInv, UNCHANGED vars
    PROVE  ServiceInv' /\ UNCHANGED Service!serviceVars
<1>1. IInv' /\ Target!IInv'
  <2>1. Known' /\ Target!IInv' BY KnownStep DEF ServiceInv, IInv
  <2> QED BY <2>1, IInvStutters DEF ServiceInv, IInv
<1> USE DEF vars, swVars, slaveVars, srotVars, decodeVars, memVars, stmVars, coreVars
<1>2. SoundKnown' /\ ClearKnown'
      BY DEF ServiceInv, SoundKnown, ClearKnown, Asked, EntryOf
<1>3. HeldKey' = HeldKey
      BY DEF HeldKey, Tentative
<1>4. Answers' = Answers
  <2>1. Closed' = Closed
    <3>1. InFabric' = InFabric BY DEF InFabric, CoreIdle, Pending
    <3> QED BY <3>1 DEF Closed
  <2>2. Decided' = Decided BY <2>1 DEF Decided
  <2>3. \A x : ToSoftware(x)' = ToSoftware(x) BY DEF ToSoftware
  <2>4. ResponsesInFlight' = ResponsesInFlight BY DEF ResponsesInFlight
  <2>5. C2ResponseMessage' = C2ResponseMessage BY DEF C2ResponseMessage, C2Message
  <2> QED BY <2>2, <2>3, <2>4, <2>5 DEF Answers
<1>5. Mode' = Mode BY DEF Mode
<1> QED BY <1>1, <1>2, <1>3, <1>4, <1>5, ServiceStutters DEF ServiceInv

\* A request of the software takes effect at one moment between the asking and
\* the answer, wholly or not at all, and the answer says what happened then; no
\* key changes in between, and nothing is provisioned meanwhile.
THEOREM KeyServiceImplemented == Spec => KeyServed
<1>1. ServiceInv /\ [Next]_vars =>
          ServiceInv' /\ [Service!ServiceNext]_Service!serviceVars
  <2> SUFFICES ASSUME ServiceInv, [Next]_vars
               PROVE  ServiceInv' /\ [Service!ServiceNext]_Service!serviceVars
      OBVIOUS
  <2>1. CASE Next BY <2>1, ServiceInvNext
  <2>2. CASE UNCHANGED vars BY <2>2, ServiceInvStutters
  <2> QED BY <2>1, <2>2
<1> QED BY <1>1, ServiceInvInit, PTL DEF Spec, KeyServed, Service!ServiceSpec
=============================================================================
