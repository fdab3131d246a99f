-------------------------- MODULE RegisterPort_proofs --------------------------
(***************************************************************************)
(* Proof that the adapter with its register file implements TlulPort, for  *)
(* every set of addresses, data, sources and requests, whichever addresses *)
(* answer at once, as long as no request is malformed.                     *)
(***************************************************************************)
EXTENDS RegisterPort, TLAPS

Busy == outstanding_read \/ outstanding_write

\* While a request is served and not answered its acknowledgement is due in
\* this very clock; this is what makes it safe for the adapter to end a
\* transaction on d_ready without looking at d_valid.
InStep ==
    /\ Busy = (asked # None)
    /\ ack_d1 => Busy /\ ~d_valid
    /\ d_valid => Busy
    /\ Busy =>
           /\ outstanding_read = asked.read
           /\ outstanding_write = ~asked.read
           /\ req_id = asked.source
           /\ resp_opcode = IF asked.read THEN "AccessAckData" ELSE "AccessAck"
    /\ Busy /\ ~d_valid => ack_d1 /\ addr_d1 = asked.addr
    /\ d_valid =>
           /\ error = (asked.addr \in BadAddr)
           /\ asked.read => rdata = Contents[asked.addr]
    /\ ~d_valid => ~error

Inv == TypeOK /\ InStep

LEMMA InvInit == Init => Inv
BY ResetAssumption
   DEF Init, AdapterInit, Inv, TypeOK, AdapterTypeOK, InStep, Busy

\* What is true of the channel and of the stored request in every clock.
LEMMA Inputs ==
    ASSUME \A q \in Requests : ~q.malformed, Inv,
           NEW a \in Requests \cup {NoRequest}
    PROVE  /\ a.addr \in Addr /\ a.source \in Source
           /\ a.opcode \in Put \cup {"Get"}
           /\ a.valid => ~a.malformed
           /\ Contents[a.addr] \in Rdata /\ Contents[addr_d1] \in Rdata
           /\ [read |-> a.opcode = "Get", addr |-> a.addr,
               source |-> a.source] \in Port!Request
           /\ asked \in {None} \cup Port!Request /\ None \notin Port!Request
           /\ outstanding_read \in BOOLEAN /\ outstanding_write \in BOOLEAN
           /\ d_valid \in BOOLEAN /\ error \in BOOLEAN /\ ack_d1 \in BOOLEAN
<1>1. a \in AChannel /\ (a.valid => ~a.malformed)
      BY PortAssumption
<1>2. a.addr \in Addr /\ a.source \in Source /\ a.opcode \in Put \cup {"Get"}
      BY <1>1 DEF AChannel
<1>3. TypeOK BY DEF Inv
<1>4. Contents[a.addr] \in Rdata /\ Contents[addr_d1] \in Rdata
      BY <1>2, <1>3, PortAssumption DEF TypeOK
<1>5. /\ [read |-> a.opcode = "Get", addr |-> a.addr, source |-> a.source]
             \in Port!Request
      /\ asked \in {None} \cup Port!Request /\ None \notin Port!Request
      BY <1>2, <1>3, PortAssumption DEF TypeOK, Port!Request
<1> QED BY <1>1, <1>2, <1>3, <1>4, <1>5 DEF TypeOK, AdapterTypeOK

\* A request is accepted: the port was free, and what the register file says
\* in this clock is said of this request.
LEMMA Accepting ==
    ASSUME \A q \in Requests : ~q.malformed, Inv,
           NEW a \in Requests \cup {NoRequest}, NEW d_ready \in BOOLEAN,
           Clock(a, d_ready), a_ack(a)
    PROVE  Inv' /\ Port!Accept
<1>1. ~Busy /\ ~ack_d1 /\ ~d_valid /\ ~error /\ asked = None
      BY Inputs DEF a_ack, a_ready, Busy, Inv, InStep
<1>2. asked' = [read |-> a.opcode = "Get", addr |-> a.addr,
                source |-> a.source]
      BY DEF Clock
<1>3. asked' \in Port!Request /\ asked' # None /\ asked'.read \in BOOLEAN
      BY <1>2, Inputs DEF Port!Request
<1>4. ~a.malformed BY Inputs DEF a_ack
<1>5. /\ wr_req(a) = ~asked'.read
      /\ rd_req(a) = asked'.read
      BY <1>2, Inputs DEF wr_req, rd_req, Put
<1>6. /\ we_o(a) = ~asked'.read
      /\ re_o(a) = asked'.read
      BY <1>3, <1>4, <1>5 DEF we_o, re_o
<1>7. Capture(a)
      BY DEF Clock, AdapterStep, AcceptAndAnswer, Accept, AnswerRead,
             AnswerWrite, Release, Hold
<1>8. /\ outstanding_read' = asked'.read
      /\ outstanding_write' = ~asked'.read
      /\ req_id' = asked'.source
      /\ resp_opcode' = IF asked'.read THEN "AccessAckData" ELSE "AccessAck"
      /\ Busy' /\ req_id' \in Source
      BY <1>2, <1>3, <1>5, <1>7, Inputs DEF Capture, Busy, Port!Request
<1>9. addr_d1' = asked'.addr /\ ack_d1' = ~AnswersNow(a) /\ addr_d1' \in Addr
  <2>1. ack_d1' = (we_o(a) \/ (re_o(a) /\ ~AnswersNow(a))) /\ addr_d1' = a.addr
        BY DEF Clock, RegisterStep
  <2>2. AnswersNow(a) => re_o(a) BY DEF AnswersNow
  <2>3. AnswersNow(a) \in BOOLEAN BY DEF AnswersNow
  <2> QED BY <1>2, <1>3, <1>6, <2>1, <2>2, <2>3, Inputs
<1>10. CASE AnswersNow(a)
  <2>1. ack_i(a) /\ Served(a) = asked'.addr
        BY <1>2, <1>10 DEF ack_i, Served
  <2>2. /\ d_valid' = TRUE /\ rdata' = Contents[asked'.addr]
        /\ error' = (asked'.addr \in BadAddr)
        BY <1>1, <2>1 DEF Clock, AdapterStep, AcceptAndAnswer, Accept,
           AnswerRead, AnswerWrite, Release, Hold, rdata_i, error_i
  <2>3. rdata' \in Rdata BY <1>2, <2>2, Inputs
  <2>4. Inv'
    <3>1. TypeOK'
          BY <1>3, <1>8, <1>9, <1>10, <2>2, <2>3
          DEF TypeOK, AdapterTypeOK, Port!Request
    <3>2. InStep' BY <1>3, <1>8, <1>9, <1>10, <2>2 DEF InStep
    <3> QED BY <3>1, <3>2 DEF Inv
  <2>5. Port!Accept
        BY <1>1, <1>3, <1>8, <2>2 DEF Port!Accept, Port!IsAnswer
  <2> QED BY <2>4, <2>5
<1>11. CASE ~AnswersNow(a)
  <2>1. ~ack_i(a) BY <1>1, <1>11 DEF ack_i
  <2>2. d_valid' = FALSE /\ error' = FALSE /\ rdata' = rdata
        BY <1>1, <1>4, <2>1, Inputs DEF Clock, AdapterStep, AcceptAndAnswer,
           Accept, AnswerRead, AnswerWrite, Release, Hold, AChannel
  <2>3. Inv'
        BY <1>3, <1>8, <1>9, <1>11, <2>2
        DEF Inv, InStep, TypeOK, AdapterTypeOK, Port!Request
  <2>4. Port!Accept BY <1>1, <1>3, <2>2 DEF Port!Accept
  <2> QED BY <2>3, <2>4
<1> QED BY <1>10, <1>11

\* Nothing is accepted: the acknowledgement, if it comes, is of the request
\* being served; without it the transaction ends only when it is answered.
LEMMA Serving ==
    ASSUME \A q \in Requests : ~q.malformed, Inv,
           NEW a \in Requests \cup {NoRequest}, NEW d_ready \in BOOLEAN,
           Clock(a, d_ready), ~a_ack(a)
    PROVE  Inv' /\ [Port!Next]_Port!portVars
<1>1. ~we_o(a) /\ ~re_o(a) /\ ~AnswersNow(a)
      BY DEF we_o, re_o, wr_req, rd_req, AnswersNow
<1>2. ack_i(a) = ack_d1 /\ Served(a) = addr_d1
      BY <1>1, Inputs DEF ack_i, Served
<1>3. ack_d1' = FALSE /\ addr_d1' \in Addr
      BY <1>1, Inputs DEF Clock, RegisterStep
<1>4. CASE ack_d1
  <2>1. /\ Busy /\ ~d_valid /\ ~error /\ asked # None
        /\ addr_d1 = asked.addr
        /\ asked.read \in BOOLEAN
        /\ outstanding_read = asked.read /\ outstanding_write = ~asked.read
        BY <1>4, Inputs DEF Inv, InStep, Port!Request
  <2>2. /\ UNCHANGED <<outstanding_read, outstanding_write, req_id,
                       resp_opcode>>
        /\ d_valid' = TRUE
        /\ error' = (asked.addr \in BadAddr) /\ error' \in BOOLEAN
        /\ outstanding_read => rdata' = Contents[asked.addr]
        /\ rdata' \in {rdata, Contents[addr_d1]}
    <3>1. ack_i(a) /\ Served(a) = asked.addr
          BY <1>2, <1>4, <2>1
    <3>2. \/ AnswerRead(a, ack_i(a), error_i(a), rdata_i(a))
          \/ ~outstanding_read /\ AnswerWrite(a, ack_i(a), error_i(a))
          BY <2>1, <3>1 DEF Clock, AdapterStep, AcceptAndAnswer, Accept,
             AnswerRead, AnswerWrite, Release, Hold, Capture, Busy, a_ready
    <3>3. error = FALSE BY <2>1, Inputs
    <3>4. error' = (asked.addr \in BadAddr)
          BY <3>1, <3>2, <3>3 DEF AnswerRead, AnswerWrite, error_i
    <3>5. /\ outstanding_read => rdata' = Contents[asked.addr]
          /\ rdata' \in {rdata, Contents[addr_d1]}
          BY <2>1, <3>1, <3>2 DEF AnswerRead, AnswerWrite, rdata_i
    <3>6. error' \in BOOLEAN BY <3>4
    <3> QED BY <3>2, <3>4, <3>5, <3>6 DEF AnswerRead, AnswerWrite
  <2>3. asked' = asked BY <2>1, <2>2 DEF Clock, Busy
  <2>4. rdata' \in Rdata BY <2>2, Inputs DEF Inv, TypeOK, AdapterTypeOK
  <2>5. Inv'
    <3>1. TypeOK'
      <4>1. error' \in BOOLEAN /\ ack_d1' \in BOOLEAN
            BY <1>3, <2>2
      <4>2. TypeOK BY DEF Inv
      <4> QED BY <1>3, <2>2, <2>3, <2>4, <4>1, <4>2 DEF TypeOK, AdapterTypeOK
    <3>2. InStep'
          BY <1>3, <2>1, <2>2, <2>3 DEF Inv, InStep, Busy
    <3> QED BY <3>1, <3>2 DEF Inv
  <2>6. Port!Answer
        BY <2>1, <2>2, <2>3 DEF Port!Answer, Port!IsAnswer, Inv, InStep
  <2> QED BY <2>5, <2>6 DEF Port!Next
<1>5. CASE ~ack_d1 /\ Busy /\ d_ready
  <2>1. d_valid /\ asked # None BY <1>5, Inputs DEF Inv, InStep
  <2>2. Release(a, ack_i(a), d_ready)
        BY <1>2, <1>5 DEF Clock, AdapterStep, AcceptAndAnswer, Accept,
           AnswerRead, AnswerWrite, Hold, Capture, Busy, a_ready
  <2>3. asked' = None BY <2>2 DEF Clock, Release
  <2>4. Inv'
        BY <1>3, <2>2, <2>3, ResetAssumption
        DEF Release, Inv, InStep, Busy, TypeOK, AdapterTypeOK
  <2>5. Port!Take
    <3>1. [source |-> req_id, opcode |-> resp_opcode, error |-> error,
           rdata |-> rdata] # None
          BY PortAssumption DEF Inv, TypeOK, AdapterTypeOK
    <3> QED BY <2>1, <2>2, <2>3, <3>1 DEF Port!Take, Release
  <2> QED BY <2>4, <2>5 DEF Port!Next
<1>6. CASE ~ack_d1 /\ ~(Busy /\ d_ready)
  <2>1. UNCHANGED adapterVars
        BY <1>2, <1>6 DEF Clock, AdapterStep, AcceptAndAnswer, Accept,
           AnswerRead, AnswerWrite, Release, Hold, Capture, Busy, a_ready
  <2>2. asked' = asked
        BY <2>1, Inputs DEF Clock, adapterVars, Inv, InStep, Busy
  <2>3. Inv'
        BY <1>3, <1>6, <2>1, <2>2
        DEF adapterVars, Inv, InStep, Busy, TypeOK, AdapterTypeOK
  <2>4. UNCHANGED Port!portVars
        BY <2>1, <2>2 DEF adapterVars, Port!portVars
  <2> QED BY <2>3, <2>4
<1> QED BY <1>4, <1>5, <1>6

\* With a master that makes no malformed request, the port keeps the promise of
\* TlulPort: one answer for every accepted request, its own, of the register
\* it addressed, and none for nothing.
THEOREM PortImplemented ==
    ASSUME \A q \in Requests : ~q.malformed
    PROVE  Spec => ImplementsPort
<1>1. Init => Port!Init
      BY DEF Init, AdapterInit, Port!Init
<1>2. Inv /\ [Next]_vars => Inv' /\ [Port!Next]_Port!portVars
  <2> SUFFICES ASSUME Inv, [Next]_vars
               PROVE  Inv' /\ [Port!Next]_Port!portVars
      OBVIOUS
  <2>1. ASSUME NEW a \in Requests \cup {NoRequest}, NEW d_ready \in BOOLEAN,
               Clock(a, d_ready)
        PROVE  Inv' /\ [Port!Next]_Port!portVars
        BY <2>1, Accepting, Serving DEF Port!Next
  <2>2. CASE UNCHANGED vars
        BY <2>2 DEF vars, adapterVars, Inv, InStep, Busy, TypeOK,
                    AdapterTypeOK, Port!portVars
  <2> QED BY <2>1, <2>2 DEF Next
<1> QED BY <1>1, <1>2, InvInit, PTL DEF Spec, ImplementsPort, Port!Spec

\* Every register of the adapter keeps a value of its type.
THEOREM PortTyped ==
    ASSUME \A q \in Requests : ~q.malformed
    PROVE  Spec => []TypeOK
<1>1. Inv /\ [Next]_vars => Inv'
  <2> SUFFICES ASSUME Inv, [Next]_vars PROVE Inv'
      OBVIOUS
  <2>1. ASSUME NEW a \in Requests \cup {NoRequest}, NEW d_ready \in BOOLEAN,
               Clock(a, d_ready)
        PROVE  Inv'
        BY <2>1, Accepting, Serving
  <2>2. CASE UNCHANGED vars
        BY <2>2 DEF vars, adapterVars, Inv, InStep, Busy, TypeOK,
                    AdapterTypeOK
  <2> QED BY <2>1, <2>2 DEF Next
<1>2. Inv => TypeOK BY DEF Inv
<1> QED BY <1>1, <1>2, InvInit, PTL DEF Spec
=============================================================================
