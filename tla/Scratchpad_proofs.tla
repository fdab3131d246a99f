--------------------------- MODULE Scratchpad_proofs ---------------------------
(***************************************************************************)
(* The scratchpad is a RAM with a queue of answers, for every size of RAM  *)
(* and FIFO and every set of requests.  The margin of the FIFO is the      *)
(* invariant: what is in the FIFO never exceeds the almost-full mark by    *)
(* more than one, and does not exceed it at all while a response is on     *)
(* its way.                                                                *)
(***************************************************************************)
EXTENDS Scratchpad, TLAPS

-----------------------------------------------------------------------------
(* The request checker meets the definition of a well-formed request *)

\* The lane of an aligned address within its bus word.
LEMMA LaneOfPair ==
    ASSUME NEW x \in Nat, x % 2 = 0
    PROVE  2 * ((x \div 2) % 4) = x % 8
<1>1. PICK q \in Nat : x = 2 * q /\ q = x \div 2 OBVIOUS
<1>2. q % 4 \in 0 .. 3 /\ (2 * q) % 8 = 2 * (q % 4) BY SMT
<1> QED BY <1>1, <1>2

LEMMA LaneOfHalf ==
    ASSUME NEW x \in Nat, x % 4 = 0
    PROVE  IF (x \div 4) % 2 = 1 THEN x % 8 = 4 ELSE x % 8 = 0
<1>1. PICK q \in Nat : x = 4 * q /\ q = x \div 4 OBVIOUS
<1>2. IF q % 2 = 1 THEN (4 * q) % 8 = 4 ELSE (4 * q) % 8 = 0 BY SMT
<1> QED BY <1>1, <1>2

\* The reference definition for transfers of n bytes.
LanesOf(a, n) == (a.address % 8) .. ((a.address % 8) + n - 1)

LEMMA ReferenceBySize ==
    ASSUME NEW a
    PROVE  WellFormed(a) <=>
             /\ a.opcode \in Opcodes
             /\ \/ a.size = 0 /\ Fits(a, 1, LanesOf(a, 1))
                \/ a.size = 1 /\ Fits(a, 2, LanesOf(a, 2))
                \/ a.size = 2 /\ Fits(a, 4, LanesOf(a, 4))
                \/ a.size = 3 /\ Fits(a, 8, LanesOf(a, 8))
<1> DEFINE Ref(n) == /\ a.address % n = 0
                     /\ a.mask \subseteq LanesOf(a, n)
                     /\ a.opcode = "PutFullData" => a.mask = LanesOf(a, n)
<1>1. ASSUME NEW n PROVE Ref(n) <=> Fits(a, n, LanesOf(a, n))
  BY DEF Fits, Aligned
<1>2. WellFormed(a) <=>
        /\ a.opcode \in Opcodes
        /\ \E n \in {1, 2, 4, 8} :
             /\ a.size = CASE n = 1 -> 0 [] n = 2 -> 1 [] n = 4 -> 2 [] n = 8 -> 3
             /\ Ref(n)
  BY DEF WellFormed, LanesOf
<1> HIDE DEF Ref
<1>3. (\E n \in {1, 2, 4, 8} :
         /\ a.size = CASE n = 1 -> 0 [] n = 2 -> 1 [] n = 4 -> 2 [] n = 8 -> 3
         /\ Ref(n))
      <=> \/ a.size = 0 /\ Ref(1)
          \/ a.size = 1 /\ Ref(2)
          \/ a.size = 2 /\ Ref(4)
          \/ a.size = 3 /\ Ref(8)
  OBVIOUS
<1> QED BY <1>1, <1>2, <1>3

\* tlul_err raises an error exactly for the requests that are not well-formed,
\* whatever the address, the mask and the size (of at most a beat).
THEOREM CheckerExact ==
    ASSUME NEW a, a.address \in Nat, a.size \in (0 .. 15) \ {6}
    PROVE  err_o(a) <=> ~WellFormed(a)
<1> DEFINE x == a.address
<1>0. x \in Nat /\ x % 8 \in 0 .. 7 /\ x % 1 = 0 /\ (x % 8 = 0 <=> Aligned(a, 8))
  BY DEF Aligned
<1>1. OneByte(a) <=> Fits(a, 1, LanesOf(a, 1))
  <2>1. {x % 8} = LanesOf(a, 1) BY <1>0 DEF LanesOf
  <2> QED BY <2>1 DEF OneByte
<1>2. TwoBytes(a) <=> Fits(a, 2, LanesOf(a, 2))
  <2>1. CASE x % 2 = 0
    <3>1. 2 * ((x \div 2) % 4) = x % 8 BY <2>1, LaneOfPair
    <3>2. {x % 8, (x % 8) + 1} = LanesOf(a, 2) BY <1>0 DEF LanesOf
    <3> QED BY <3>1, <3>2 DEF TwoBytes
  <2>2. CASE x % 2 # 0
    BY <2>2 DEF TwoBytes, Fits, Aligned
  <2> QED BY <2>1, <2>2
<1>3. FourBytes(a) <=> Fits(a, 4, LanesOf(a, 4))
  <2>1. CASE x % 4 = 0
    <3>1. (IF (x \div 4) % 2 = 1 THEN 4 .. 7 ELSE 0 .. 3) = LanesOf(a, 4)
      <4>1. IF (x \div 4) % 2 = 1 THEN x % 8 = 4 ELSE x % 8 = 0
        BY <2>1, LaneOfHalf
      <4>2. x % 8 = 4 => LanesOf(a, 4) = 4 .. 7 BY DEF LanesOf
      <4>3. x % 8 = 0 => LanesOf(a, 4) = 0 .. 3 BY DEF LanesOf
      <4> QED BY <4>1, <4>2, <4>3
    <3> QED BY <3>1 DEF FourBytes
  <2>2. CASE x % 4 # 0
    BY <2>2 DEF FourBytes, Fits, Aligned
  <2> QED BY <2>1, <2>2
<1>4. EightBytes(a) <=> Fits(a, 8, LanesOf(a, 8))
  <2>1. CASE x % 8 = 0
    <3>1. Lanes = LanesOf(a, 8) BY <2>1 DEF LanesOf, Lanes
    <3> QED BY <3>1 DEF EightBytes
  <2>2. CASE x % 8 # 0
    BY <2>2 DEF EightBytes, Fits, Aligned
  <2> QED BY <2>1, <2>2
<1>5. err_o(a) <=>
        ~ /\ a.opcode \in Opcodes
          /\ \/ a.size = 0 /\ OneByte(a)
             \/ a.size = 1 /\ TwoBytes(a)
             \/ a.size = 2 /\ FourBytes(a)
             \/ a.size = 3 /\ EightBytes(a)
  BY DEF err_o
<1> QED BY <1>1, <1>2, <1>3, <1>4, <1>5, ReferenceBySize

-----------------------------------------------------------------------------
(* The margin *)

IInv ==
    /\ TypeOK
    /\ Len(fifo) < RspDepth
    /\ rsp.valid => Len(fifo) <= RspDepth - 2

Answers == IF rsp.valid THEN Append(fifo, Response) ELSE fifo

\* What every request is.
LEMMA Inputs ==
    ASSUME NEW a \in Requests \cup {NoRequest}
    PROVE  /\ a.valid \in BOOLEAN /\ (a.valid <=> a \in Requests)
           /\ a.valid => /\ a.opcode \in Opcodes /\ a.size \in (0 .. 15) \ {6}
                         /\ a.source \in Nat /\ a.address \in Nat
                         /\ a.mask \subseteq Lanes /\ a.data \in Word64
                         /\ RamAddr(a) \in 0 .. Words - 1
<1>1. CASE a = NoRequest
  BY <1>1, ScratchpadAssumption DEF NoRequest
<1>2. CASE a \in Requests
  <2>1. a \in [valid : {TRUE}, opcode : Opcodes, size : (0 .. 15) \ {6},
               source : Nat, address : Nat, mask : SUBSET Lanes, data : Word64]
    BY <1>2, ScratchpadAssumption
  <2>2. \A q, w \in Nat : w # 0 => q % w \in 0 .. w - 1 OBVIOUS
  <2>3. a.address \div 8 \in Nat BY <2>1
  <2>4. RamAddr(a) \in 0 .. Words - 1
    BY <2>2, <2>3, ScratchpadAssumption DEF RamAddr, scratchpad_addr_i
  <2> QED BY <1>2, <2>1, <2>4
<1> QED BY <1>1, <1>2

\* The response that enters the FIFO.
LEMMA ResponseTyped ==
    ASSUME TypeOK, rsp.valid
    PROVE  Response \in Responses
<1>1. rsp \in [valid : {TRUE}, opcode : {"AccessAck", "AccessAckData"},
              size : 0 .. 15, source : Nat, error : BOOLEAN]
  <2>1. rsp # NoRsp
    <3>1. NoRsp.valid = FALSE BY DEF NoRsp
    <3> QED BY <3>1
  <2> QED BY <2>1 DEF TypeOK
<1>2. rdata_o \in Word64 /\ [l \in Lanes |-> 0] \in Word64
  BY DEF TypeOK, Word64
<1> QED BY <1>1, <1>2 DEF Response, Responses

\* Under the invariant the FIFO takes the response on its way.
LEMMA QueueIsAnswers ==
    ASSUME IInv
    PROVE  /\ Queue = Answers
           /\ Queue \in Seq(Responses)
           /\ Len(Queue) <= RspDepth - 1
<1>1. fifo \in Seq(Responses) /\ Len(fifo) \in Nat BY DEF IInv, TypeOK
<1>2. CASE rsp.valid
  <2>1. Response \in Responses BY <1>2, ResponseTyped DEF IInv
  <2>2. Queue = Append(fifo, Response) BY <1>2 DEF IInv, Queue
  <2>3. Len(Queue) = Len(fifo) + 1 BY <1>1, <2>1, <2>2
  <2> QED BY <1>1, <1>2, <2>1, <2>2, <2>3, ScratchpadAssumption DEF IInv, Answers
<1>3. CASE ~rsp.valid
  BY <1>1, <1>3, ScratchpadAssumption DEF IInv, Queue, Answers
<1> QED BY <1>2, <1>3

LEMMA InvInit == Init => IInv
<1> SUFFICES ASSUME Init PROVE IInv OBVIOUS
<1>1. [l \in Lanes |-> 0] \in Word64 BY DEF Word64
<1>2. TypeOK BY <1>1 DEF Init, TypeOK, NoRsp
<1>3. Len(fifo) = 0 /\ ~rsp.valid BY DEF Init, NoRsp
<1> QED BY <1>2, <1>3, ScratchpadAssumption DEF IInv

\* A clock keeps the types; the word written is a word.
LEMMA RamTyped ==
    ASSUME TypeOK, NEW a \in Requests \cup {NoRequest}, RamStep(a)
    PROVE  mem' \in [0 .. Words - 1 -> Word64] /\ rdata_o' \in Word64
<1>1. /\ mem \in [0 .. Words - 1 -> Word64] /\ rdata_o \in Word64
  BY DEF TypeOK
<1>2. CASE scratchpad_write_i(a)
  <2>1. a.valid /\ a.data \in Word64 /\ RamAddr(a) \in 0 .. Words - 1
    BY <1>2, Inputs DEF scratchpad_write_i, Accepted
  <2>2. Masked(a, mem[RamAddr(a)]) \in Word64
    BY <1>1, <2>1 DEF Masked, Word64
  <2>3. mem' = [mem EXCEPT ![RamAddr(a)] = Masked(a, mem[RamAddr(a)])]
        /\ rdata_o' = rdata_o
    BY <1>2 DEF RamStep
  <2> QED BY <1>1, <2>1, <2>2, <2>3
<1>3. CASE ~scratchpad_write_i(a)
  <2>1. a.valid => RamAddr(a) \in 0 .. Words - 1 BY Inputs
  <2>2. mem' = mem /\ \E w \in 0 .. Words - 1 : rdata_o' = mem[w]
    BY <1>3, <2>1 DEF RamStep
  <2> QED BY <1>1, <2>2
<1> QED BY <1>2, <1>3

LEMMA RspTyped ==
    ASSUME NEW a \in Requests \cup {NoRequest}, ResponseStep(a)
    PROVE  /\ rsp' \in {NoRsp} \cup
                [valid : {TRUE}, opcode : {"AccessAck", "AccessAckData"},
                 size : 0 .. 15, source : Nat, error : BOOLEAN]
           /\ rsp'.valid <=> Accepted(a)
<1>1. CASE Accepted(a)
  <2>1. a.size \in 0 .. 15 /\ a.source \in Nat
    BY <1>1, Inputs DEF Accepted
  <2>2. err_o(a) \in BOOLEAN /\ addr_err(a) \in BOOLEAN
    BY DEF err_o, addr_err
  <2> QED BY <1>1, <2>1, <2>2 DEF ResponseStep
<1>2. CASE ~Accepted(a)
  BY <1>2 DEF ResponseStep, NoRsp
<1> QED BY <1>1, <1>2

LEMMA FifoTyped ==
    ASSUME IInv, NEW d \in BOOLEAN, FifoStep(d)
    PROVE  /\ fifo' \in Seq(Responses)
           /\ Len(fifo') <= Len(Queue)
           /\ Len(fifo') < RspDepth
<1>1. Queue \in Seq(Responses) /\ Len(Queue) <= RspDepth - 1
  BY QueueIsAnswers
<1>2. CASE d /\ slave_d_valid
  <2>1. Queue # <<>> /\ fifo' = Tail(Queue)
    BY <1>2 DEF FifoStep, slave_d_valid
  <2>2. Len(Tail(Queue)) = Len(Queue) - 1 /\ Tail(Queue) \in Seq(Responses)
    BY <1>1, <2>1
  <2> QED BY <1>1, <2>1, <2>2, ScratchpadAssumption
<1>3. CASE ~(d /\ slave_d_valid)
  BY <1>1, <1>3, ScratchpadAssumption DEF FifoStep
<1> QED BY <1>2, <1>3

LEMMA InvNext == IInv /\ [Next]_vars => IInv'
<1> SUFFICES ASSUME IInv, [Next]_vars PROVE IInv' OBVIOUS
<1>1. CASE UNCHANGED vars
  BY <1>1 DEF vars, IInv, TypeOK
<1>2. ASSUME NEW a \in Requests \cup {NoRequest}, NEW d \in BOOLEAN, Clock(a, d)
      PROVE  IInv'
  <2> USE <1>2 DEF Clock
  <2>1. TypeOK'
    BY RamTyped, RspTyped, FifoTyped DEF IInv, TypeOK
  <2>2. Len(fifo)' < RspDepth BY FifoTyped
  <2>3. ASSUME rsp'.valid PROVE Len(fifo)' <= RspDepth - 2
    \* What was accepted was accepted below the mark, and the clock adds at
    \* most the response that was on its way.
    <3>1. Len(fifo) < RspDepth - 2 /\ Len(fifo) \in Nat
      <4>1. Accepted(a) BY <2>3, RspTyped
      <4>2. ~(Len(fifo) >= RspDepth - 2)
        BY <4>1 DEF Accepted, a_ready, rsp_almost_full
      <4>3. fifo \in Seq(Responses) BY DEF IInv, TypeOK
      <4>4. Len(fifo) \in Nat BY <4>3
      <4> QED BY <4>2, <4>4, ScratchpadAssumption
    <3>2. Len(Queue) <= Len(fifo) + 1
      <4>1. CASE rsp.valid
        <5>1. fifo \in Seq(Responses) /\ Response \in Responses
          BY <4>1, ResponseTyped DEF IInv, TypeOK
        <5> QED BY <5>1, <3>1 DEF Queue
      <4>2. CASE ~rsp.valid
        BY <4>2, <3>1 DEF Queue
      <4> QED BY <4>1, <4>2
    <3>3. Len(fifo') <= Len(Queue) /\ Queue \in Seq(Responses)
          /\ fifo' \in Seq(Responses)
      BY FifoTyped, QueueIsAnswers
    <3> QED BY <3>1, <3>2, <3>3, ScratchpadAssumption
  <2> QED BY <2>1, <2>2, <2>3 DEF IInv
<1> QED BY <1>1, <1>2 DEF Next

LEMMA Invariant == Spec => []IInv
BY InvInit, InvNext, PTL DEF Spec

\* For every depth of the FIFO above two the RAM, the response registers and the
\* FIFO keep their types (scratchpad_wrapper.sv).
THEOREM ScratchpadTyped == Spec => []TypeOK
<1>1. IInv => TypeOK BY DEF IInv
<1> QED BY Invariant, <1>1, PTL

\* No response is lost for any depth of the FIFO: the margin of two entries
\* that scratchpad_wrapper.sv keeps is enough.
THEOREM NothingIsDropped == Spec => []NothingDropped
<1>1. IInv => NothingDropped BY ScratchpadAssumption DEF IInv, TypeOK, NothingDropped
<1> QED BY Invariant, <1>1, PTL

-----------------------------------------------------------------------------
(* The scratchpad implements RamService *)

\* What the Ram instance calls denied is what the wrapper reports as an error.
LEMMA DeniedIsError ==
    ASSUME NEW a \in Requests
    PROVE  Ram!Denied(a) <=> (err_o(a) \/ addr_err(a))
<1>1. a.address \in Nat /\ a.size \in (0 .. 15) \ {6}
  BY ScratchpadAssumption
<1>2. err_o(a) <=> ~WellFormed(a) BY <1>1, CheckerExact
<1>3. Ram!WellFormed(a) <=> WellFormed(a)
  BY DEF Ram!WellFormed, WellFormed, Ram!Opcodes, Opcodes, Ram!Put, Put, Ram!Get, Get
<1> QED BY <1>2, <1>3 DEF Ram!Denied, addr_err, Ram!Word, scratchpad_addr_i

\* What enters the response registers and the read data of the RAM is the
\* abstract answer to the request, and the RAM is written alike.
LEMMA AcceptedIsTaken ==
    ASSUME IInv, NEW a \in Requests, RamStep(a), ResponseStep(a), Accepted(a)
    PROVE  /\ mem' = IF a.opcode \in Put THEN Ram!Written(a) ELSE mem
           /\ rsp'.valid
           /\ Response' = Ram!Answer(a)
<1>1. /\ mem \in [0 .. Words - 1 -> Word64]
      /\ a.opcode \in Opcodes /\ RamAddr(a) \in 0 .. Words - 1 /\ a.valid
  BY Inputs DEF IInv, TypeOK, Accepted
<1>2. rsp' = [valid |-> TRUE,
              opcode |-> IF a.opcode \in Put THEN "AccessAck" ELSE "AccessAckData",
              size |-> a.size, source |-> a.source,
              error |-> err_o(a) \/ addr_err(a)]
  BY DEF ResponseStep
<1>3. Ram!Word(a) % Words = RamAddr(a) /\ Ram!Put = Put
      /\ (Ram!Denied(a) <=> (err_o(a) \/ addr_err(a)))
  BY DeniedIsError DEF Ram!Word, RamAddr, scratchpad_addr_i, Ram!Put, Put
<1>4. (err_o(a) \/ addr_err(a)) = Ram!Denied(a)
  <2>1. err_o(a) \in BOOLEAN /\ addr_err(a) \in BOOLEAN /\ Ram!Denied(a) \in BOOLEAN
    BY DEF err_o, addr_err, Ram!Denied
  <2> QED BY <1>3, <2>1
<1>5. CASE a.opcode \in Put
  <2>1. mem' = [mem EXCEPT ![RamAddr(a)] = Masked(a, mem[RamAddr(a)])]
    BY <1>5 DEF RamStep, scratchpad_write_i
  <2>2. Ram!Written(a) = [mem EXCEPT ![RamAddr(a)] = Masked(a, mem[RamAddr(a)])]
    BY <1>3 DEF Ram!Written, Masked, Ram!Lanes, Lanes
  <2>3. Response' = Ram!Answer(a)
    BY <1>2, <1>3, <1>4, <1>5 DEF Response, Ram!Answer, Ram!Zeros, Ram!Lanes, Lanes
  <2> QED BY <1>2, <1>5, <2>1, <2>2, <2>3
<1>6. CASE a.opcode \notin Put
  <2>1. mem' = mem /\ rdata_o' = mem[RamAddr(a)]
    BY <1>1, <1>6 DEF RamStep, scratchpad_write_i
  <2>2. Response' = Ram!Answer(a)
    BY <1>2, <1>3, <1>4, <1>6, <2>1 DEF Response, Ram!Answer
  <2> QED BY <1>2, <1>6, <2>1, <2>2
<1> QED BY <1>5, <1>6

LEMMA RefusedIsRest ==
    ASSUME IInv, NEW a \in Requests \cup {NoRequest}, RamStep(a), ResponseStep(a),
           ~Accepted(a)
    PROVE  mem' = mem /\ ~rsp'.valid
BY DEF RamStep, ResponseStep, scratchpad_write_i, NoRsp

\* A clock delivers the oldest answer, or not, and takes a request, or not.
LEMMA ClockImplements ==
    ASSUME IInv, NEW a \in Requests \cup {NoRequest}, NEW d \in BOOLEAN, Clock(a, d)
    PROVE  Ram!RamNext
<1> USE DEF Clock
<1> DEFINE deliver == d /\ slave_d_valid
<1>1. Queue = Answers BY QueueIsAnswers
<1>2. deliver \in BOOLEAN /\ (deliver => Answers # <<>>)
  BY <1>1 DEF slave_d_valid
<1>3. fifo' = Ram!Left(deliver)
  BY <1>1 DEF FifoStep, Ram!Left, Answers
<1>4. Answers' = IF rsp'.valid THEN Append(fifo', Response') ELSE fifo'
  BY DEF Answers
<1>5. CASE Accepted(a)
  <2>1. a \in Requests BY <1>5, Inputs DEF Accepted
  <2>2. Ram!Take(deliver, a)
    <3>1. /\ mem' = IF a.opcode \in Put THEN Ram!Written(a) ELSE mem
          /\ rsp'.valid /\ Response' = Ram!Answer(a)
      BY <1>5, <2>1, AcceptedIsTaken
    <3>2. Answers' = Append(Ram!Left(deliver), Ram!Answer(a))
      BY <1>3, <1>4, <3>1
    <3> QED BY <3>1, <3>2 DEF Ram!Take, Answers, Ram!Put, Put
  <2> QED BY <1>2, <2>1, <2>2 DEF Ram!RamNext, Answers
<1>6. CASE ~Accepted(a)
  <2>1. Ram!Rest(deliver)
    BY <1>3, <1>4, <1>6, RefusedIsRest DEF Ram!Rest, Answers
  <2> QED BY <1>2, <2>1 DEF Ram!RamNext, Answers
<1> QED BY <1>5, <1>6

LEMMA InitImplements == Init => Ram!RamInit
BY DEF Init, NoRsp, Ram!RamInit, Ram!Zeros, Ram!Lanes, Lanes

\* For every size of the RAM, depth of the FIFO and set of requests the
\* scratchpad is a RAM with a queue of answers.
THEOREM ScratchpadIsRam == Spec => ImplementsRam
<1>1. IInv /\ [Next]_vars => [Ram!RamNext]_(Ram!ramVars)
  <2> SUFFICES ASSUME IInv, [Next]_vars PROVE [Ram!RamNext]_(Ram!ramVars) OBVIOUS
  <2>1. CASE UNCHANGED vars
    BY <2>1 DEF vars, Ram!ramVars, Response
  <2>2. CASE Next
    BY <2>2, ClockImplements DEF Next
  <2> QED BY <2>1, <2>2
<1> QED BY InitImplements, Invariant, <1>1, PTL DEF Spec, ImplementsRam, Ram!RamSpec
=============================================================================
