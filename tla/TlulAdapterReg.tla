--------------------------- MODULE TlulAdapterReg ---------------------------
(***************************************************************************)
(* The TileLink-UL register adapter (tlul_adapter_reg.sv) in front of      *)
(* every LLKI register file.  It accepts one request at a time, strobes    *)
(* re_o or we_o in the cycle of acceptance and raises d_valid one cycle    *)
(* after the register file has acknowledged (ack_i).                       *)
(*                                                                         *)
(* An A-channel value is a record; "valid" is a_valid and "malformed" is   *)
(* err_internal, what tlul_err.sv says of it.                              *)
(***************************************************************************)
EXTENDS Naturals

CONSTANTS
    Addr,           \* register addresses
    Data,           \* the words written
    Rdata,          \* the words read
    RdataReset,     \* the all-zero word
    Source,         \* a_source values
    SourceReset     \* a_source 0

ASSUME ResetAssumption == RdataReset \in Rdata /\ SourceReset \in Source

VARIABLES
    outstanding_read,
    outstanding_write,
    req_id,
    resp_opcode,
    error,
    d_valid,
    rdata

adapterVars == <<outstanding_read, outstanding_write, req_id, resp_opcode,
                 error, d_valid, rdata>>

Put == {"PutFullData", "PutPartialData"}
AChannel == [valid : BOOLEAN, opcode : Put \cup {"Get"}, addr : Addr,
             data : Data, source : Source, malformed : BOOLEAN]

AdapterInit ==
    /\ outstanding_read = FALSE
    /\ outstanding_write = FALSE
    /\ req_id = SourceReset
    /\ resp_opcode = "AccessAck"
    /\ error = FALSE
    /\ d_valid = FALSE
    /\ rdata = RdataReset

(* Combinational outputs *)
a_ready_mutant == ~outstanding_read     \* forgets writes
a_ready == ~(outstanding_read \/ outstanding_write)
a_ack(a) == a.valid /\ a_ready
wr_req(a) == a_ack(a) /\ a.opcode \in Put
rd_req(a) == a_ack(a) /\ a.opcode = "Get"
we_o(a) == wr_req(a) /\ ~a.malformed
re_o(a) == rd_req(a) /\ ~a.malformed

-----------------------------------------------------------------------------
(* One action per branch of the clocked process.  a: the A channel; ack_i, *)
(* error_i, rdata_i: the register file's answer; d_ready: the D channel.   *)

Capture_mutant(a) ==                    \* answers with the request's opcode
    /\ a_ack(a)
    /\ req_id' = a.source
    /\ resp_opcode' = a.opcode
    /\ outstanding_write' = wr_req(a)
    /\ outstanding_read' = rd_req(a)

Capture(a) ==
    /\ a_ack(a)
    /\ req_id' = a.source
    /\ resp_opcode' = IF rd_req(a) THEN "AccessAckData" ELSE "AccessAck"
    /\ outstanding_write' = wr_req(a)
    /\ outstanding_read' = rd_req(a)

\* The register file answers in the cycle of acceptance.
AcceptAndAnswer(a, ack_i, error_i, rdata_i) ==
    /\ Capture(a)
    /\ ack_i
    /\ d_valid' = TRUE
    /\ rdata' = rdata_i
    /\ error' = (error \/ error_i)

Accept(a, ack_i) ==
    /\ Capture(a)
    /\ ~ack_i
    /\ error' = a.malformed
    /\ UNCHANGED <<d_valid, rdata>>

AnswerRead(a, ack_i, error_i, rdata_i) ==
    /\ ~a_ack(a)
    /\ ack_i
    /\ outstanding_read
    /\ d_valid' = TRUE
    /\ rdata' = rdata_i
    /\ error' = (error \/ error_i)
    /\ UNCHANGED <<outstanding_read, outstanding_write, req_id, resp_opcode>>

AnswerWrite(a, ack_i, error_i) ==
    /\ ~a_ack(a)
    /\ ack_i
    /\ ~outstanding_read /\ outstanding_write
    /\ d_valid' = TRUE
    /\ error' = (error \/ error_i)
    /\ UNCHANGED <<outstanding_read, outstanding_write, req_id, resp_opcode,
                   rdata>>

Release_mutant(a, ack_i, d_ready) ==    \* the error is not reset
    /\ ~a_ack(a)
    /\ ~ack_i
    /\ d_ready
    /\ ~a_ready
    /\ outstanding_read' = FALSE
    /\ outstanding_write' = FALSE
    /\ req_id' = SourceReset
    /\ resp_opcode' = "AccessAck"
    /\ d_valid' = FALSE
    /\ rdata' = RdataReset
    /\ UNCHANGED error

\* d_ready ends the transaction; d_valid is not looked at.
Release(a, ack_i, d_ready) ==
    /\ ~a_ack(a)
    /\ ~ack_i
    /\ d_ready
    /\ ~a_ready
    /\ outstanding_read' = FALSE
    /\ outstanding_write' = FALSE
    /\ req_id' = SourceReset
    /\ resp_opcode' = "AccessAck"
    /\ error' = FALSE
    /\ d_valid' = FALSE
    /\ rdata' = RdataReset

Hold(a, ack_i, d_ready) ==
    /\ ~a_ack(a)
    /\ IF a_ready THEN TRUE ELSE ~ack_i /\ ~d_ready
    /\ UNCHANGED adapterVars

AdapterStep(a, ack_i, error_i, rdata_i, d_ready) ==
    \/ AcceptAndAnswer(a, ack_i, error_i, rdata_i)
    \/ Accept(a, ack_i)
    \/ AnswerRead(a, ack_i, error_i, rdata_i)
    \/ AnswerWrite(a, ack_i, error_i)
    \/ Release(a, ack_i, d_ready)
    \/ Hold(a, ack_i, d_ready)

AdapterTypeOK ==
    /\ outstanding_read \in BOOLEAN
    /\ outstanding_write \in BOOLEAN
    /\ req_id \in Source
    /\ resp_opcode \in {"AccessAck", "AccessAckData"}
    /\ error \in BOOLEAN
    /\ d_valid \in BOOLEAN
    /\ rdata \in Rdata
=============================================================================
