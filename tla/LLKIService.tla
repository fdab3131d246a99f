------------------------------ MODULE LLKIService ------------------------------
(***************************************************************************)
(* LLKI implements KeyService.  Its request is that of the software until  *)
(* the response is fetched; its key is the one in the TSS, but for the     *)
(* words of a key that turns out to be too long; its answer is there as    *)
(* soon as it is decided, long before it is written: when the SRoT finds a *)
(* fault, when the LLKI-PP has looked at the header, when the TSS has the  *)
(* whole key, has cleared it, or is offered one word too many.             *)
(***************************************************************************)
EXTENDS LLKIInv

\* The TSS takes words of a load that may still be given up.
Tentative ==
    \/ llkipp_current_state = "LOAD_KEY_WORDS"
    \/ llkipp_current_state = "CLEAR_KEY" /\ pp_msg_id = "ERRORRESP"

HeldKey == IF llkid_key_complete /\ ~Tentative THEN {llkid_key_register} ELSE {}

\* What the core will answer, once it is decided.
Decided ==
    CASE Closed -> {<<rdata.id, rdata.status>>}
      [] llkipp_current_state = "RESPONSE" -> {<<pp_msg_id, pp_status>>}
      [] llkipp_current_state = "CLEAR_KEY" /\ pp_msg_id = "ERRORRESP" ->
             {<<"ERRORRESP", pp_status>>}
      [] llkipp_current_state = "CLEAR_KEY" /\ pp_msg_id # "ERRORRESP"
           /\ ~llkid_key_complete -> {<<"KLCLEARKEYACK", "GOOD">>}
      [] llkipp_current_state = "WAIT_FOR_COMPLETE" /\ llkid_key_complete ->
             {<<"KLLOADKEYACK", "GOOD">>}
      [] OTHER -> {}

PassedOn(id) ==
    CASE id = "KLLOADKEYACK" -> "C2LOADKEYACK"
      [] id = "KLCLEARKEYACK" -> "C2CLEARKEYACK"
      [] id = "KLKEYSTATUSRESP" -> "C2KEYSTATUSRESP"
      [] OTHER -> id
ToSoftware(a) ==
    [id |-> PassedOn(a[1]), status |-> a[2], len |-> 1, rsvd |-> sw_request.rsvd]

Answers ==
    ResponsesInFlight
      \cup (IF srot_current_state = "C2_RESPONSE" THEN {C2ResponseMessage} ELSE {})
      \cup {ToSoftware(a) : a \in Decided}

Service == INSTANCE KeyService WITH
    Requests <- C2Requests, mode <- srot_ctrlstatus_register.mode,
    request <- sw_request, answers <- Answers, key <- HeldKey

\* A request takes effect at one moment, wholly or not at all, and is answered
\* accordingly: LLKI implements KeyService.
KeyServed == Service!ServiceSpec

-----------------------------------------------------------------------------

\* What the checks of the SRoT have established of the request.
SoundKnown ==
    /\ srot_current_state = "MESSAGE_CHECK" => msg_len = sw_request.len
    /\ srot_current_state \in Checking \cup Dialogue => sw_request.len = 1
    /\ srot_current_state \in Dialogue => Asked.valid /\ Asked.core <= NumCores - 1

\* The TSS is at rest when it is told to clear the key.
ClearKnown == llkipp_current_state = "CLEAR_KEY" => tss_state = "IDLE"
=============================================================================
