------------------------------ MODULE LlkiPkg ------------------------------
(***************************************************************************)
(* The constants of the LLKI package (llki_pkg.sv): message identifiers,   *)
(* status codes, register addresses and the 64-bit word that carries       *)
(* either a message header or a key word.                                  *)
(*                                                                         *)
(* A word is abstracted to what its readers tell apart: its bits 7:0 (id), *)
(* 15:8 (status), 31:16 (len) and everything else (body).  A key word is   *)
(* such a record too: nothing on the bus marks it as a key word, so a      *)
(* receiver that expects a header will take its low bits for one.          *)
(***************************************************************************)
EXTENDS Naturals

CONSTANT Body        \* what else distinguishes two words

\* Request and response identifiers.  "C2LOADKEYREQ" is 8'h00, the value the
\* reset and the IDLE states give the msg_id registers; C2 and KL share one
\* error identifier (8'h06).  "OTHER" is every value without a name.
C2Request == {"C2LOADKEYREQ", "C2CLEARKEYREQ", "C2KEYSTATUSREQ"}
C2Response == {"C2LOADKEYACK", "C2CLEARKEYACK", "C2KEYSTATUSRESP"}
KLRequest == {"KLLOADKEYREQ", "KLCLEARKEYREQ", "KLKEYSTATUSREQ"}
KLResponse == {"KLLOADKEYACK", "KLCLEARKEYACK", "KLKEYSTATUSRESP"}
Mid == C2Request \cup C2Response \cup KLRequest \cup KLResponse
         \cup {"ERRORRESP", "OTHER"}
MidReset == "C2LOADKEYREQ"

Status == {"GOOD", "KEY_PRESENT", "KEY_NOT_PRESENT",
           "BAD_MSG_ID", "BAD_MSG_LEN", "KEY_INDEX_EXCEED",
           "KEY_INDEX_INVALID", "BAD_POINTER_PAIR", "BAD_CORE_INDEX",
           "KL_REQ_BAD_MSG_ID", "KL_REQ_BAD_MSG_LEN", "KL_RESP_BAD_MSG_ID",
           "KL_TILELINK_ERROR", "KL_LOSS_OF_SYNC", "KL_BAD_KEY_LEN",
           "KL_KEY_OVERWRITE", "UNKNOWN_ERROR", "OTHER"}
StatusReset == "GOOD"

CONSTANT ZeroBody    \* the body of the all-zero word
ASSUME ZeroBodyAssumption == ZeroBody \in Body

\* msg_len is 16 bits wide.
MaxMsgLen == 65535
MsgLen == 0 .. MaxMsgLen

Word == [id : Mid, status : Status, len : MsgLen, body : Body]
HeaderWord(id, st, len) ==
    [id |-> id, status |-> st, len |-> len, body |-> ZeroBody]
ZeroWord == HeaderWord(MidReset, StatusReset, 0)

\* The registers of an LLKI-PP, and every other address.
KLAddr == {"CTRLSTS", "SENDRECV", "OTHER"}

\* The two bits of an LLKI-PP control/status register.
CtrlStatus == [resp_waiting : BOOLEAN, ready_for_key : BOOLEAN]

\* An 8-bit wait-state counter counts down and wraps.
Byte == 0 .. 255
Dec8_mutant(n) == n - 1                 \* does not wrap
Dec8(n) == IF n = 0 THEN 255 ELSE n - 1
=============================================================================
