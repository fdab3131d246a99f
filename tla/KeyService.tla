------------------------------ MODULE KeyService ------------------------------
(***************************************************************************)
(* What the LLKI promises the software: one core with one place for a key, *)
(* and requests that are carried out one at a time.  Whatever happens on   *)
(* the way, a request takes effect at one moment between the asking and    *)
(* the answer, wholly or not at all, and its answer says what happened at  *)
(* that moment.  A load of a key that is too short takes no effect and has *)
(* no answer.  Module LLKIService shows how LLKI implements this.          *)
(***************************************************************************)
EXTENDS LlkiPkg

CONSTANTS KeyWords, KeyRamSize, KeyIndexRamSize, NumCores, Requests, None

VARIABLES
    keyram, keyindexram,    \* what the software has provisioned ...
    mode,                   \* ... and whether it may go on
    request,                \* the request being worked on, or None
    answers,                \* its answer: none yet, or one
    key                     \* the key in the core: none, or one
provisions == <<keyram, keyindexram, mode>>
serviceVars == <<provisions, request, answers, key>>

ServiceInit ==
    /\ mode = {} /\ request = None /\ answers = {} /\ key = {}

-----------------------------------------------------------------------------
(* Between requests *)

Provision ==
    /\ request = None /\ mode = {}
    /\ \/ /\ \E i \in DOMAIN keyram : keyram' = [keyram EXCEPT ![i] = keyram'[i]]
          /\ UNCHANGED keyindexram
       \/ /\ \E i \in DOMAIN keyindexram :
                 keyindexram' = [keyindexram EXCEPT ![i] = keyindexram'[i]]
          /\ UNCHANGED keyram
    /\ UNCHANGED <<mode, request, answers, key>>

Lock ==
    /\ request = None
    /\ mode \subseteq mode'
    /\ UNCHANGED <<keyram, keyindexram, request, answers, key>>

Ask ==
    /\ request = None
    /\ request' \in Requests
    /\ UNCHANGED <<provisions, answers, key>>

Receive ==
    /\ answers # {}
    /\ request' = None /\ answers' = {}
    /\ UNCHANGED <<provisions, key>>

-----------------------------------------------------------------------------
(* A request takes effect *)

Entry == keyindexram[request.key_index]
KeyLength == Entry.high - Entry.low + 1
Key == [i \in 0 .. KeyWords - 1 |-> keyram[Entry.low + i]]

\* What can be wrong with a request.
Fault(st) ==
    \/ st = "KEY_INDEX_EXCEED" /\ request.key_index >= KeyIndexRamSize
    \/ st = "BAD_MSG_LEN" /\ request.len # 1
    \/ st = "BAD_MSG_ID" /\ request.id \notin C2Request
    \/ /\ request.key_index < KeyIndexRamSize
       /\ \/ st = "KEY_INDEX_INVALID" /\ ~Entry.valid
          \/ /\ st = "BAD_POINTER_PAIR"
             /\ \/ Entry.low >= KeyRamSize \/ Entry.high >= KeyRamSize
                \/ Entry.low > Entry.high
          \/ st = "BAD_CORE_INDEX" /\ Entry.core > NumCores - 1
Sound == \A st \in Status : ~Fault(st)

Reply(id, st) ==
    answers' = {[id |-> id, status |-> st, len |-> 1, rsvd |-> request.rsvd]}

Refuse ==
    /\ \E st \in Status : Fault(st) /\ Reply("ERRORRESP", st)
    /\ UNCHANGED key

LoadKey ==
    /\ request.id = "C2LOADKEYREQ" /\ Sound
    /\ \/ key # {} /\ Reply("ERRORRESP", "KL_KEY_OVERWRITE") /\ UNCHANGED key
       \/ key = {} /\ KeyLength > KeyWords
            /\ Reply("ERRORRESP", "KL_BAD_KEY_LEN") /\ UNCHANGED key
       \/ key = {} /\ KeyLength = KeyWords
            /\ Reply("C2LOADKEYACK", "GOOD") /\ key' = {Key}

ClearKey ==
    /\ request.id = "C2CLEARKEYREQ" /\ Sound
    /\ Reply("C2CLEARKEYACK", "GOOD") /\ key' = {}

KeyStatus ==
    /\ request.id = "C2KEYSTATUSREQ" /\ Sound
    /\ Reply("C2KEYSTATUSRESP", IF key = {} THEN "KEY_NOT_PRESENT" ELSE "KEY_PRESENT")
    /\ UNCHANGED key

Serve ==
    /\ request # None /\ answers = {}
    /\ Refuse \/ LoadKey \/ ClearKey \/ KeyStatus
    /\ UNCHANGED <<provisions, request>>

ServiceNext == Provision \/ Lock \/ Ask \/ Serve \/ Receive
ServiceSpec == ServiceInit /\ [][ServiceNext]_serviceVars
=============================================================================
