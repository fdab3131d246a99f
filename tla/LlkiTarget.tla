----------------------------- MODULE LlkiTarget -----------------------------
(***************************************************************************)
(* One LLKI-enabled core as the SRoT sees it: the TileLink adapter, the    *)
(* LLKI-PP and the Mock TSS, clocked together.  A step is one clock edge:  *)
(* every register of the three blocks takes its next value from the        *)
(* current values of all of them.                                          *)
(*                                                                         *)
(* The TileLink side is any master at all: in every clock it may offer any *)
(* request of Requests or none, and may accept an answer or not.  What is  *)
(* stated here therefore does not depend on the SRoT polling as it should; *)
(* module LLKI replaces this master by the SRoT.                           *)
(***************************************************************************)
EXTENDS LlkiPP, MockTSS

CONSTANTS
    Requests,       \* A-channel requests the master may make
    NoRequest       \* an A channel whose a_valid is low

VARIABLES
    outstanding_read, outstanding_write, req_id, resp_opcode, error, d_valid,
    rdata

INSTANCE TlulAdapterReg WITH
    Addr <- KLAddr, Data <- Word, Rdata <- KLRdata, RdataReset <- ZeroWord,
    Source <- {0}, SourceReset <- 0

ASSUME RequestsAssumption ==
    /\ Requests \subseteq AChannel
    /\ NoRequest \in AChannel
    /\ ~NoRequest.valid

vars == <<adapterVars, ppVars, tssVars>>

TargetInit == AdapterInit /\ PpInit /\ TssInit

Strobe(a) == [we |-> we_o(a), re |-> re_o(a), addr |-> a.addr,
              wdata |-> a.data]

\* One clock edge with A channel a and D-channel ready d_ready.
Clock(a, d_ready) ==
    LET r == Strobe(a) IN
    /\ AdapterStep(a, ack_i(r), reg_error_i(r), reg_rdata_i(r), d_ready)
    /\ PpStep(r)
    /\ TssStep

Init == TargetInit
Next == \E a \in Requests \cup {NoRequest}, d_ready \in BOOLEAN :
            Clock(a, d_ready)
Spec == Init /\ [][Next]_vars

\* The clock runs.
FairSpec == Spec /\ WF_vars(Next)

-----------------------------------------------------------------------------
(* Properties *)

\* Every register holds a value of its type.
TypeOK == AdapterTypeOK /\ PpTypeOK /\ TssTypeOK

\* No key word is lost on LLKI-Discrete: whenever the LLKI-PP presents a word,
\* the TSS is in a state that stores it, is not also asked to clear, and does
\* not already hold a complete key.  The LLKI-PP samples llkid_key_ready one
\* clock before its llkid_key_valid arrives; only the pace of the TileLink
\* adapter keeps a second word from arriving before llkid_key_ready drops.
NoWordLost ==
    llkid_key_valid =>
        /\ tss_state \in {"IDLE", "WAIT_FOR_NEXT_KEY_WORD"}
        /\ ~llkid_clear_key
        /\ ~llkid_key_complete

\* What the LLKI-PP reports is true of the TSS: a load is acknowledged only
\* while the TSS holds a complete key, and a clear (or the clear after a key
\* that was too long) only when no key word is left in the TSS.
AckIsTrue ==
    llkipp_current_state = "RESPONSE" =>
        /\ msg_id = "KLLOADKEYACK" => llkid_key_complete
        /\ (msg_id = "KLCLEARKEYACK" \/ status = "KL_BAD_KEY_LEN") =>
               ~llkid_key_complete /\ llkid_key_register = NoKey

\* A complete key changes only by being cleared as a whole.
CompleteKeyKept ==
    [][llkid_key_complete /\ llkid_key_register' # llkid_key_register
           => llkid_clear_key /\ llkid_key_register' = NoKey
              /\ ~llkid_key_complete']_vars

\* A clear that the LLKI-PP has started is answered, whatever the TSS is doing.
ClearAnswered ==
    llkipp_current_state = "CLEAR_KEY" ~> llkipp_current_state = "RESPONSE"
=============================================================================
