----------------------------- MODULE RegisterPort -----------------------------
(***************************************************************************)
(* A TileLink adapter together with the register file behind it, reduced   *)
(* to what the adapter sees of it: when it acknowledges, with which data   *)
(* and with which error.  The SRoT acknowledges every access one clock     *)
(* after the strobe (ZeroCycle is empty); the LLKI-PP acknowledges reads   *)
(* in the clock of the strobe (ZeroCycle is Addr).  The master is any      *)
(* master at all.                                                          *)
(***************************************************************************)
EXTENDS TlulAdapterReg

CONSTANTS
    Requests,       \* A-channel requests the master may make
    NoRequest,      \* an A channel whose a_valid is low
    Contents,       \* Contents[a] is what a read of register a returns
    BadAddr,        \* the addresses that answer with an error
    ZeroCycle,      \* the addresses whose reads are acknowledged at once
    None

ASSUME PortAssumption ==
    /\ Requests \subseteq AChannel
    /\ NoRequest \in AChannel /\ ~NoRequest.valid
    /\ Contents \in [Addr -> Rdata]
    /\ BadAddr \subseteq Addr
    /\ ZeroCycle \subseteq Addr
    /\ None \notin [read : BOOLEAN, addr : Addr, source : Source]
    /\ None \notin [source : Source, opcode : {"AccessAck", "AccessAckData"},
                     error : BOOLEAN, rdata : Rdata]

VARIABLES
    ack_d1,         \* an access was strobed and is acknowledged now ...
    addr_d1,        \* ... for this address
    asked           \* the request being served, for the mapping to TlulPort

vars == <<adapterVars, ack_d1, addr_d1, asked>>

\* The register file, as in srot_wrapper.sv and llki_pp_wrapper.sv.
AnswersNow(a) == re_o(a) /\ a.addr \in ZeroCycle
Served(a) == IF AnswersNow(a) THEN a.addr ELSE addr_d1
ack_i(a) == ack_d1 \/ AnswersNow(a)
rdata_i(a) == Contents[Served(a)]
error_i(a) == Served(a) \in BadAddr
RegisterStep_mutant(a) ==               \* writes are not acknowledged
    /\ ack_d1' = (re_o(a) /\ ~AnswersNow(a))
    /\ addr_d1' = a.addr
RegisterStep(a) ==
    /\ ack_d1' = (we_o(a) \/ (re_o(a) /\ ~AnswersNow(a)))
    /\ addr_d1' = a.addr

Init ==
    /\ AdapterInit
    /\ ack_d1 = FALSE
    /\ addr_d1 \in Addr
    /\ asked = None

\* One clock edge with A channel a and D-channel ready d_ready.
Clock(a, d_ready) ==
    /\ AdapterStep(a, ack_i(a), error_i(a), rdata_i(a), d_ready)
    /\ RegisterStep(a)
    /\ asked' = IF a_ack(a)
                THEN [read |-> a.opcode = "Get", addr |-> a.addr,
                      source |-> a.source]
                ELSE IF outstanding_read' \/ outstanding_write' THEN asked
                ELSE None

Next == \E a \in Requests \cup {NoRequest}, d_ready \in BOOLEAN :
            Clock(a, d_ready)
Spec == Init /\ [][Next]_vars

\* The clock runs and the master takes its answers.
Taking == \E a \in Requests \cup {NoRequest} : Clock(a, TRUE)
FairSpec == Spec /\ WF_vars(Next) /\ WF_vars(~a_ready /\ Taking)

-----------------------------------------------------------------------------
(* Properties *)

\* Every register holds a value of its type.
TypeOK ==
    /\ AdapterTypeOK
    /\ ack_d1 \in BOOLEAN
    /\ addr_d1 \in Addr
    /\ asked \in {None} \cup [read : BOOLEAN, addr : Addr, source : Source]

\* The port keeps the promise of TlulPort.
Port == INSTANCE TlulPort WITH
    pending <- asked,
    answer <- IF d_valid
              THEN [source |-> req_id, opcode |-> resp_opcode,
                    error |-> error, rdata |-> rdata]
              ELSE None
ImplementsPort == Port!Spec

\* Every accepted request is answered.
RequestAnswered == ~a_ready ~> d_valid
=============================================================================
