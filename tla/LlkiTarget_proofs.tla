-------------------------- MODULE LlkiTarget_proofs --------------------------
(***************************************************************************)
(* Proofs about LlkiTarget, for every key length, wait-state count and     *)
(* master: type correctness, then the safety properties of LlkiTarget from *)
(* one inductive invariant.                                                *)
(***************************************************************************)
EXTENDS LlkiTarget, TLAPS

-----------------------------------------------------------------------------
(* Type correctness *)

\* msg_len counts down in LOAD_KEY_WORDS and must not run past zero.
CountsDown == llkipp_current_state = "LOAD_KEY_WORDS" => msg_len >= 2
TInv == TypeOK /\ CountsDown

\* A message length is a natural number that may be counted down to zero.
LEMMA MsgLenCounts ==
    /\ 0 \in MsgLen /\ 1 \in MsgLen
    /\ \A n \in MsgLen : n \in Nat /\ (n # 0 => n - 1 \in MsgLen)
<1>1. MaxMsgLen \in Nat /\ 1 <= MaxMsgLen
      BY DEF MaxMsgLen
<1> QED BY <1>1 DEF MsgLen

\* The registers' reset values.
LEMMA WordReset == ZeroWord \in Word /\ MidReset \in Mid /\ StatusReset \in Status
BY ZeroBodyAssumption, MsgLenCounts
   DEF ZeroWord, HeaderWord, Word, MidReset, StatusReset, Mid, Status,
       C2Request

\* What the LLKI-PP answers to a register access is of the type of rdata.
LEMMA RdataType ==
    ASSUME PpTypeOK, NEW r
    PROVE  reg_rdata_i(r) \in KLRdata /\ ack_i(r) = (r.re \/ reg_we_o_d1)
BY WordReset DEF PpTypeOK, reg_rdata_i, KLRdata, ack_i

\* A request of the master, or none, is an A-channel value.
LEMMA Channel ==
    ASSUME NEW a \in Requests \cup {NoRequest}
    PROVE  a \in AChannel
BY RequestsAssumption

\* The adapter keeps its registers typed whatever the LLKI-PP answers.
LEMMA AdapterTyped ==
    ASSUME AdapterTypeOK,
           NEW a \in AChannel, NEW ack, NEW err, NEW rd \in KLRdata,
           NEW d_ready, AdapterStep(a, ack, err, rd, d_ready)
    PROVE  AdapterTypeOK'
<1>1. a.source = 0 BY DEF AChannel
<1> USE DEF AdapterTypeOK
<1>2. CASE AcceptAndAnswer(a, ack, err, rd)
      BY <1>1, <1>2 DEF AcceptAndAnswer, Capture, wr_req, rd_req, a_ack, a_ready
<1>3. CASE Accept(a, ack)
      BY <1>1, <1>3 DEF Accept, Capture, wr_req, rd_req, a_ack, a_ready, AChannel
<1>4. CASE AnswerRead(a, ack, err, rd)
      BY <1>4 DEF AnswerRead
<1>5. CASE AnswerWrite(a, ack, err)
      BY <1>5 DEF AnswerWrite
<1>6. CASE Release(a, ack, d_ready)
      BY <1>6, WordReset DEF Release, KLRdata
<1>7. CASE Hold(a, ack, d_ready)
      BY <1>7 DEF Hold, adapterVars
<1> QED BY <1>2, <1>3, <1>4, <1>5, <1>6, <1>7 DEF AdapterStep

LEMMA KeyReset ==
    NoKey \in [KeyIndex -> Word] /\ TssWaitInit \in Byte /\ 0 \in KeyIndex
BY WordReset, KeyWordsAssumption, TssWaitInitAssumption DEF NoKey, KeyIndex

\* The wait-state counters wrap within a byte.
LEMMA Dec8Type == \A n \in Byte : Dec8(n) \in Byte
BY DEF Byte, Dec8

\* The TSS keeps its registers typed; in particular the word counter never
\* leaves the key register.
LEMMA TssTyped ==
    ASSUME TssTypeOK, PpTypeOK, TssStep
    PROVE  TssTypeOK'
<1>1. llkid_key_data \in Word /\ llkid_clear_key \in BOOLEAN
      BY DEF PpTypeOK
<1>2. NoKey \in [KeyIndex -> Word] /\ TssWaitInit \in Byte /\ 0 \in KeyIndex
      BY KeyReset
<1>3. Dec8(tss_wait_state_counter) \in Byte
      BY Dec8Type DEF TssTypeOK
<1>4. ASSUME StoreKeyWord PROVE llkid_key_register' \in [KeyIndex -> Word]
      BY <1>1, <1>4 DEF StoreKeyWord, TssTypeOK
<1> USE <1>1, <1>2, <1>3 DEF TssTypeOK, TssState
<1>5. CASE TssIdleClear BY <1>5 DEF TssIdleClear, TssIdleDefault
<1>6. CASE TssIdleLoad BY <1>4, <1>6 DEF TssIdleLoad, TssIdleDefault
<1>7. CASE TssIdleStay BY <1>7 DEF TssIdleStay, TssIdleDefault
<1>8. CASE TssWaitState0Last BY <1>8 DEF TssWaitState0Last, Busy
<1>9. CASE TssWaitState0More
  <2>1. llkid_key_word_counter + 1 \in KeyIndex
        BY <1>9, KeyWordsAssumption DEF TssWaitState0More, KeyIndex
  <2> QED BY <1>9, <2>1 DEF TssWaitState0More, Busy
<1>10. CASE TssWaitState0Count BY <1>10 DEF TssWaitState0Count, Busy
<1>11. CASE TssNextWordClear BY <1>11 DEF TssNextWordClear, TssNextWordDefault
<1>12. CASE TssNextWordLoad
       BY <1>4, <1>12 DEF TssNextWordLoad, TssNextWordDefault
<1>13. CASE TssNextWordStay BY <1>13 DEF TssNextWordStay, TssNextWordDefault
<1>14. CASE TssClearKey BY <1>14 DEF TssClearKey, Busy
<1>15. CASE TssWaitState1 BY <1>15 DEF TssWaitState1
<1>16. CASE TssWaitState2 BY <1>16 DEF TssWaitState2
<1> QED
    BY <1>5, <1>6, <1>7, <1>8, <1>9, <1>10, <1>11, <1>12, <1>13, <1>14,
       <1>15, <1>16
    DEF TssStep

\* What the adapter strobes is an access of the LLKI-PP's type.
LEMMA StrobeType ==
    ASSUME NEW a \in AChannel, AdapterTypeOK
    PROVE  Strobe(a) \in RegAccess
BY DEF Strobe, RegAccess, AChannel, we_o, re_o, wr_req, rd_req, a_ack,
       a_ready, AdapterTypeOK, Put

\* The LLKI-PP keeps its registers typed, and msg_len does not run past zero.
LEMMA PpTyped ==
    ASSUME PpTypeOK, TssTypeOK, CountsDown, NEW r \in RegAccess, PpStep(r)
    PROVE  PpTypeOK' /\ CountsDown'
<1>1. /\ r.we \in BOOLEAN /\ r.wdata \in Word
      /\ r.wdata.id \in Mid /\ r.wdata.status \in Status
      /\ r.wdata.len \in MsgLen
      BY DEF RegAccess, Word
<1>2. /\ llkid_key_ready \in BOOLEAN
      /\ llkipp_response_waiting \in BOOLEAN
      BY DEF TssTypeOK, PpTypeOK
<1>3. /\ llkipp_ctrlstatus_register' \in CtrlStatus
      /\ write_error' \in BOOLEAN
      /\ reg_we_o_d1' \in BOOLEAN
      BY <1>1, <1>2 DEF PpStep, WriteDecode, CtrlStatus
<1>4. HeaderWord(msg_id, status, 1) \in Word
  <2>1. 1 \in MsgLen BY MsgLenCounts
  <2> QED BY <2>1, ZeroBodyAssumption DEF HeaderWord, Word, PpTypeOK
<1>5. {"KLKEYSTATUSRESP", "KLLOADKEYACK", "KLCLEARKEYACK", "ERRORRESP"}
          \subseteq Mid
      BY DEF Mid, KLResponse
<1>6. {"GOOD", "KEY_PRESENT", "KEY_NOT_PRESENT", "KL_REQ_BAD_MSG_LEN",
       "KL_KEY_OVERWRITE", "KL_REQ_BAD_MSG_ID", "KL_LOSS_OF_SYNC",
       "KL_BAD_KEY_LEN"} \subseteq Status
      BY DEF Status
<1>7. 0 \in MsgLen /\ ZeroWord \in Word /\ MidReset \in Mid
      /\ StatusReset \in Status
      BY WordReset, MsgLenCounts
<1> USE DEF PpTypeOK, PpState, CountsDown, Quiet, NoClear, NotWaiting
<1>8. CASE PpIdle(r) BY <1>1, <1>3, <1>7, <1>8 DEF PpIdle
<1>9. CASE PpMessageCheck
  <2>1. CASE CheckLoadKey
    <3>1. ~(msg_len <= 1) => msg_len >= 2
          BY MsgLenCounts
    <3> QED BY <1>3, <1>5, <1>6, <1>7, <1>9, <2>1, <3>1
            DEF PpMessageCheck, CheckLoadKey, Reject
  <2>2. CASE CheckClearKey
        BY <1>3, <1>5, <1>6, <1>7, <1>9, <2>2
        DEF PpMessageCheck, CheckClearKey, Reject
  <2>3. CASE CheckKeyStatus
        BY <1>3, <1>5, <1>6, <1>7, <1>9, <2>3
        DEF PpMessageCheck, CheckKeyStatus, Reject
  <2>4. CASE CheckBadId
        BY <1>3, <1>5, <1>6, <1>7, <1>9, <2>4
        DEF PpMessageCheck, CheckBadId, Reject
  <2> QED BY <1>9, <2>1, <2>2, <2>3, <2>4 DEF PpMessageCheck
<1>10. CASE PpLoadStay(r)
       BY <1>3, <1>7, <1>10 DEF PpLoadStay, PpLoadDefault, ppMessage
<1>11. CASE PpLoadNotReady(r)
       BY <1>3, <1>5, <1>6, <1>7, <1>11
       DEF PpLoadNotReady, PpLoadDefault, Reject
<1>12. CASE PpLoadTooLong(r)
       BY <1>3, <1>5, <1>6, <1>7, <1>12 DEF PpLoadTooLong, PpLoadDefault
<1>13. CASE PpLoadWord(r)
  <2>1. msg_len >= 2 BY <1>13 DEF PpLoadWord, PpLoadDefault
  <2>2. msg_len # 2 => msg_len - 1 \in MsgLen /\ msg_len - 1 >= 2
        BY <2>1, MsgLenCounts
  <2>3. CASE msg_len = 2
        BY <1>1, <1>3, <1>5, <1>6, <1>7, <1>13, <2>1, <2>3
        DEF PpLoadWord, PpLoadDefault
  <2>4. CASE msg_len # 2
        BY <1>1, <1>3, <1>5, <1>6, <1>7, <1>13, <2>2, <2>4
        DEF PpLoadWord, PpLoadDefault
  <2> QED BY <2>3, <2>4
<1>14. CASE PpWaitForComplete
       BY <1>3, <1>7, <1>14 DEF PpWaitForComplete, ppMessage
<1>15. CASE PpClearKey
       BY <1>3, <1>5, <1>6, <1>7, <1>15 DEF PpClearKey
<1>16. CASE PpResponse(r)
       BY <1>3, <1>4, <1>7, <1>16 DEF PpResponse, ppMessage
<1> QED BY <1>8, <1>9, <1>10, <1>11, <1>12, <1>13, <1>14, <1>15, <1>16
        DEF PpStep

LEMMA TInvInit == Init => TInv
<1> SUFFICES ASSUME Init PROVE TInv
    OBVIOUS
<1>1. AdapterTypeOK
      BY WordReset DEF Init, TargetInit, AdapterInit, AdapterTypeOK, KLRdata
<1>2. TssTypeOK
      BY KeyReset DEF Init, TargetInit, TssInit, TssTypeOK, TssState
<1>3. PpTypeOK /\ CountsDown
  <2>1. 0 \in MsgLen BY MsgLenCounts
  <2>2. [resp_waiting |-> FALSE, ready_for_key |-> FALSE] \in CtrlStatus
        BY DEF CtrlStatus
  <2>3. PpInit BY DEF Init, TargetInit
  <2> QED BY <2>1, <2>2, <2>3, WordReset
          DEF PpInit, PpTypeOK, CountsDown, PpState
<1> QED BY <1>1, <1>2, <1>3 DEF TInv, TypeOK

LEMMA TInvStep == TInv /\ [Next]_vars => TInv'
<1> SUFFICES ASSUME TInv, [Next]_vars PROVE TInv'
    OBVIOUS
<1>1. ASSUME NEW a \in Requests \cup {NoRequest}, NEW d_ready \in BOOLEAN,
             Clock(a, d_ready)
      PROVE  TInv'
  <2>1. a \in AChannel BY Channel
  <2>2. Strobe(a) \in RegAccess BY <2>1, StrobeType DEF TInv, TypeOK
  <2>3. AdapterTypeOK'
    <3>1. reg_rdata_i(Strobe(a)) \in KLRdata BY RdataType DEF TInv, TypeOK
    <3> QED BY <1>1, <2>1, <3>1, AdapterTyped DEF Clock, TInv, TypeOK
  <2>4. PpTypeOK' /\ CountsDown'
        BY <1>1, <2>2, PpTyped DEF Clock, TInv, TypeOK
  <2>5. TssTypeOK' BY <1>1, TssTyped DEF Clock, TInv, TypeOK
  <2> QED BY <2>3, <2>4, <2>5 DEF TInv, TypeOK
<1>2. CASE UNCHANGED vars
      BY <1>2 DEF TInv, TypeOK, CountsDown, AdapterTypeOK, PpTypeOK,
                  TssTypeOK, vars, adapterVars, ppVars, ppWires,
                  ppDecodeRegs, ppMessage, tssVars, tssWires, tssRegs
<1> QED BY <1>1, <1>2 DEF Next

\* Every register of the adapter, the LLKI-PP and the TSS keeps a value of its
\* type: the word counter stays inside the key register and msg_len above zero
\* while key words are counted down.
THEOREM TypeCorrect == Spec => []TypeOK
<1>1. Spec => []TInv BY TInvInit, TInvStep, PTL DEF Spec
<1>2. TInv => TypeOK BY DEF TInv
<1> QED BY <1>1, <1>2, PTL

-----------------------------------------------------------------------------
(* The inductive invariant behind the safety properties *)

\* A key word on the wires: the write that brought it is still outstanding on
\* TileLink, so no second one can follow in this clock, and the TSS is where
\* it was when it said that it was ready.  The TSS says so in states that
\* take a word, and in CLEAR_KEY, when the LLKI-PP sends none.
WordOnWires ==
    /\ llkid_key_valid =>
           /\ outstanding_write
           /\ llkipp_current_state \in {"LOAD_KEY_WORDS", "WAIT_FOR_COMPLETE"}
           /\ tss_state \in {"IDLE", "WAIT_FOR_NEXT_KEY_WORD"}
           /\ ~llkid_key_complete
    /\ llkid_key_ready =>
           tss_state \in {"IDLE", "WAIT_FOR_NEXT_KEY_WORD", "CLEAR_KEY"}
    /\ llkid_key_complete => tss_state = "IDLE"

\* A clear: the request is up in CLEAR_KEY and for one clock after it, the TSS
\* never outlives it in its own clearing states, and an acknowledgement means
\* that the key is gone and is not left over from the clear before.
ClearOnWires ==
    /\ llkid_clear_key =>
           \/ llkipp_current_state = "CLEAR_KEY"
           \/ llkipp_current_state = "RESPONSE" /\ tss_state = "IDLE"
    /\ tss_state \in {"CLEAR_KEY", "WAIT_STATE1"} =>
           llkipp_current_state = "CLEAR_KEY" /\ llkid_clear_key
    /\ tss_state = "WAIT_STATE1" => llkid_key_register = NoKey
    /\ llkid_clear_key_ack =>
           /\ tss_state = "IDLE"
           /\ ~llkid_key_complete /\ llkid_key_register = NoKey
           /\ \/ llkipp_current_state = "CLEAR_KEY" /\ llkid_clear_key
              \/ llkipp_current_state \in {"RESPONSE", "IDLE"}

\* What msg_id and status are when the LLKI-PP gets to answer.
MessageKnown ==
    /\ llkipp_current_state = "WAIT_FOR_COMPLETE" =>
           msg_id = "KLLOADKEYACK" /\ status = "GOOD"
    /\ llkipp_current_state = "CLEAR_KEY" =>
           \/ msg_id = "KLCLEARKEYREQ"
           \/ msg_id = "ERRORRESP" /\ status = "KL_BAD_KEY_LEN"

\* AckIsTrue, with what keeps it true until the response is read.
AckStaysTrue ==
    llkipp_current_state = "RESPONSE" =>
        /\ msg_id = "KLLOADKEYACK" =>
               /\ llkid_key_complete /\ ~llkid_clear_key
               /\ status = "GOOD"
        /\ (msg_id = "KLCLEARKEYACK" \/ status = "KL_BAD_KEY_LEN") =>
               /\ ~llkid_key_complete /\ llkid_key_register = NoKey
               /\ tss_state = "IDLE"

IInv == TInv /\ WordOnWires /\ ClearOnWires /\ MessageKnown /\ AckStaysTrue

-----------------------------------------------------------------------------
(* What one clock edge does, as far as the invariant is concerned *)

\* The adapter strobes a write only when none is outstanding, and one is then.
LEMMA OneWriteAtATime ==
    ASSUME NEW a \in AChannel, NEW ack, NEW err, NEW rd, NEW d_ready,
           AdapterStep(a, ack, err, rd, d_ready), SendrecvWrite(Strobe(a))
    PROVE  outstanding_write' /\ ~outstanding_write
<1>1. a_ack(a) /\ wr_req(a)
      BY DEF SendrecvWrite, Strobe, we_o, wr_req
<1>2. Capture(a)
      BY <1>1 DEF AdapterStep, AcceptAndAnswer, Accept, AnswerRead,
                  AnswerWrite, Release, Hold
<1> QED BY <1>1, <1>2 DEF Capture, a_ack, a_ready

\* How the LLKI-PP drives LLKI-Discrete and how it comes to each state.
PpMoves(r) ==
    /\ llkid_key_valid' =>
           /\ llkipp_current_state = "LOAD_KEY_WORDS"
           /\ SendrecvWrite(r) /\ llkid_key_ready /\ ~llkid_key_complete
           /\ llkipp_current_state' \in {"LOAD_KEY_WORDS",
                                         "WAIT_FOR_COMPLETE"}
    /\ llkid_clear_key' = (llkipp_current_state = "CLEAR_KEY")
    /\ llkipp_current_state' = "WAIT_FOR_COMPLETE" =>
           /\ llkipp_current_state \in {"WAIT_FOR_COMPLETE", "LOAD_KEY_WORDS"}
           /\ \/ llkipp_current_state = "WAIT_FOR_COMPLETE"
                   /\ UNCHANGED <<msg_id, status>>
              \/ msg_id' = "KLLOADKEYACK" /\ status' = "GOOD"
    /\ llkipp_current_state = "CLEAR_KEY" =>
           llkipp_current_state' = IF llkid_clear_key_ack THEN "RESPONSE"
                                                          ELSE "CLEAR_KEY"
    /\ llkipp_current_state' = "CLEAR_KEY" =>
           \/ llkipp_current_state = "CLEAR_KEY"
                /\ UNCHANGED <<msg_id, status>>
           \/ llkipp_current_state = "MESSAGE_CHECK"
                /\ msg_id' = "KLCLEARKEYREQ"
           \/ llkipp_current_state = "LOAD_KEY_WORDS"
                /\ msg_id' = "ERRORRESP" /\ status' = "KL_BAD_KEY_LEN"
    /\ llkipp_current_state = "RESPONSE" =>
           /\ llkipp_current_state' \in {"RESPONSE", "IDLE"}
           /\ UNCHANGED <<msg_id, status>>
    /\ llkipp_current_state' = "RESPONSE" =>
           \/ llkipp_current_state = "RESPONSE"
           \/ llkipp_current_state = "WAIT_FOR_COMPLETE"
                /\ llkid_key_complete /\ UNCHANGED <<msg_id, status>>
           \/ llkipp_current_state = "CLEAR_KEY" /\ llkid_clear_key_ack
                /\ (msg_id = "KLCLEARKEYREQ" \/ msg_id = "ERRORRESP" =>
                       msg_id' \in {"KLCLEARKEYACK", "ERRORRESP"})
           \/ /\ llkipp_current_state \in {"MESSAGE_CHECK", "LOAD_KEY_WORDS"}
              /\ msg_id' \in {"ERRORRESP", "KLKEYSTATUSRESP"}
              /\ status' # "KL_BAD_KEY_LEN"

LEMMA PpMovesSo ==
    ASSUME NEW r, PpStep(r)
    PROVE  PpMoves(r)
<1> USE DEF PpMoves, Quiet, NoClear, Reject
<1>1. CASE PpIdle(r) BY <1>1 DEF PpIdle
<1>2. CASE PpMessageCheck
      BY <1>2 DEF PpMessageCheck, CheckLoadKey, CheckClearKey, CheckKeyStatus,
                  CheckBadId
<1>3. CASE PpLoadStay(r)
      BY <1>3 DEF PpLoadStay, PpLoadDefault, ppMessage
<1>4. CASE PpLoadNotReady(r) BY <1>4 DEF PpLoadNotReady, PpLoadDefault
<1>5. CASE PpLoadTooLong(r) BY <1>5 DEF PpLoadTooLong, PpLoadDefault
<1>6. CASE PpLoadWord(r) BY <1>6 DEF PpLoadWord, PpLoadDefault
<1>7. CASE PpWaitForComplete BY <1>7 DEF PpWaitForComplete, ppMessage
<1>8. CASE PpClearKey BY <1>8 DEF PpClearKey
<1>9. CASE PpResponse(r) BY <1>9 DEF PpResponse, ppMessage
<1> QED BY <1>1, <1>2, <1>3, <1>4, <1>5, <1>6, <1>7, <1>8, <1>9 DEF PpStep

-----------------------------------------------------------------------------
(* The invariant is inductive *)

LEMMA IInvInit == Init => IInv
<1> SUFFICES ASSUME Init PROVE IInv
    OBVIOUS
<1>1. TInv BY TInvInit
<1>2. PpInit /\ TssInit BY DEF Init, TargetInit
<1> QED BY <1>1, <1>2 DEF PpInit, TssInit, IInv, WordOnWires, ClearOnWires,
                          MessageKnown, AckStaysTrue

\* The parts of the invariant that a clock edge must restore.
Restored == WordOnWires /\ ClearOnWires /\ MessageKnown /\ AckStaysTrue

LEMMA ClockRestores ==
    ASSUME IInv, NEW a \in AChannel, NEW d_ready \in BOOLEAN,
           Clock(a, d_ready)
    PROVE  Restored'
<1> DEFINE r == Strobe(a)
<1>1. PpMoves(r) /\ TssStep BY PpMovesSo DEF Clock
<1>2. SendrecvWrite(r) => outstanding_write' /\ ~outstanding_write
      BY OneWriteAtATime DEF Clock
<1>3. /\ llkid_key_valid \in BOOLEAN /\ llkid_clear_key \in BOOLEAN
      /\ llkid_key_ready \in BOOLEAN /\ llkid_key_complete \in BOOLEAN
      /\ llkid_clear_key_ack \in BOOLEAN /\ outstanding_write \in BOOLEAN
      BY DEF IInv, TInv, TypeOK, AdapterTypeOK, PpTypeOK, TssTypeOK
<1> HIDE DEF r
<1> USE <1>1, <1>2, <1>3 DEF IInv, PpMoves, Restored, WordOnWires,
        ClearOnWires, MessageKnown, AckStaysTrue
<1>4. CASE TssIdleClear BY <1>4 DEF TssIdleClear, TssIdleDefault
<1>5. CASE TssIdleLoad BY <1>5 DEF TssIdleLoad, TssIdleDefault
<1>6. CASE TssIdleStay BY <1>6 DEF TssIdleStay, TssIdleDefault
<1>7. CASE TssWaitState0Last BY <1>7 DEF TssWaitState0Last, Busy
<1>8. CASE TssWaitState0More BY <1>8 DEF TssWaitState0More, Busy
<1>9. CASE TssWaitState0Count BY <1>9 DEF TssWaitState0Count, Busy
<1>10. CASE TssNextWordClear BY <1>10 DEF TssNextWordClear, TssNextWordDefault
<1>11. CASE TssNextWordLoad BY <1>11 DEF TssNextWordLoad, TssNextWordDefault
<1>12. CASE TssNextWordStay BY <1>12 DEF TssNextWordStay, TssNextWordDefault
<1>13. CASE TssClearKey BY <1>13 DEF TssClearKey, Busy
<1>14. CASE TssWaitState1 BY <1>14 DEF TssWaitState1
<1>15. CASE TssWaitState2 BY <1>15 DEF TssWaitState2
<1> QED BY <1>4, <1>5, <1>6, <1>7, <1>8, <1>9, <1>10, <1>11, <1>12, <1>13,
           <1>14, <1>15
        DEF TssStep

LEMMA IInvStep == IInv /\ [Next]_vars => IInv'
<1> SUFFICES ASSUME IInv, [Next]_vars PROVE IInv'
    OBVIOUS
<1>1. TInv' BY TInvStep DEF IInv
<1>2. CASE Next
  <2>1. PICK a \in Requests \cup {NoRequest}, d_ready \in BOOLEAN :
            Clock(a, d_ready)
        BY <1>2 DEF Next
  <2>2. Restored' BY <2>1, Channel, ClockRestores
  <2> QED BY <1>1, <2>2 DEF IInv, Restored
<1>3. CASE UNCHANGED vars
      BY <1>1, <1>3 DEF IInv, WordOnWires, ClearOnWires, MessageKnown,
          AckStaysTrue, vars, adapterVars, ppVars, ppWires, ppDecodeRegs,
          ppMessage, tssVars, tssWires, tssRegs
<1> QED BY <1>2, <1>3

LEMMA InvariantHolds == Spec => []IInv
BY IInvInit, IInvStep, PTL DEF Spec

-----------------------------------------------------------------------------
(* The safety properties *)

\* Whenever the LLKI-PP presents a key word, the TSS takes it: it is in a state
\* that stores words, is not told to clear and holds no complete key.
THEOREM NoWordIsLost == Spec => []NoWordLost
<1>1. IInv => NoWordLost
      BY DEF IInv, WordOnWires, ClearOnWires, NoWordLost
<1> QED BY <1>1, InvariantHolds, PTL

\* What the LLKI-PP acknowledges is true of the TSS: a key that is complete, or
\* one that is wiped.
THEOREM AcknowledgementsTrue == Spec => []AckIsTrue
<1>1. IInv => AckIsTrue
      BY DEF IInv, AckStaysTrue, AckIsTrue
<1> QED BY <1>1, InvariantHolds, PTL

\* A complete key in the TSS changes only by being wiped on request.
THEOREM CompleteKeysKept == Spec => CompleteKeyKept
<1> DEFINE Kept == llkid_key_complete /\ llkid_key_register' # llkid_key_register
                   => llkid_clear_key /\ llkid_key_register' = NoKey
                      /\ ~llkid_key_complete'
<1>1. IInv /\ [Next]_vars => [Kept]_vars
  <2> SUFFICES ASSUME IInv, NEW a \in Requests \cup {NoRequest},
                      NEW d_ready \in BOOLEAN, Clock(a, d_ready)
               PROVE  Kept
      BY DEF Next
  <2>1. TssStep BY DEF Clock
  <2>2. llkid_key_complete => tss_state = "IDLE" /\ ~llkid_key_valid
        BY DEF IInv, WordOnWires
  <2>3. llkid_key_complete => TssIdleClear \/ TssIdleStay
        BY <2>1, <2>2 DEF TssStep, TssIdleLoad, TssWaitState0Last,
           TssWaitState0More, TssWaitState0Count, TssNextWordClear,
           TssNextWordLoad, TssNextWordStay, TssNextWordDefault, TssClearKey,
           TssWaitState1, TssWaitState2
  <2> QED BY <2>3 DEF TssIdleClear, TssIdleStay
<1> QED BY <1>1, InvariantHolds, PTL DEF Spec, CompleteKeyKept
=============================================================================
