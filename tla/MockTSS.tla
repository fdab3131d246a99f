------------------------------ MODULE MockTSS ------------------------------
(***************************************************************************)
(* The Mock Technique Specific Shim (mock_tss_fsm.sv): it takes the key    *)
(* words one at a time, pretending to need some cycles for each, raises    *)
(* llkid_key_complete some cycles after the last one, and clears the key   *)
(* on demand.  One action per transition of the state machine; each is one *)
(* clock edge.                                                             *)
(***************************************************************************)
EXTENDS LlkiDiscrete

CONSTANTS
    KeyWords,       \* KEY_WORDS: 64-bit words in the key of this core
    TssWaitInit     \* MOCKTSS_WAIT_STATE_COUNTER_INIT

\* KEY_WORDS is compared with an 8-bit counter after a cast to 8 bits.
ASSUME KeyWordsAssumption == KeyWords \in 1 .. 255
ASSUME TssWaitInitAssumption == TssWaitInit \in Byte

VARIABLES
    llkid_key_register,
    llkid_key_word_counter,
    tss_wait_state_counter,
    tss_state

tssRegs == <<llkid_key_register, llkid_key_word_counter,
             tss_wait_state_counter, tss_state>>
tssVars == <<tssWires, tssRegs>>

TssState == {"IDLE", "WAIT_STATE0", "WAIT_FOR_NEXT_KEY_WORD", "CLEAR_KEY",
             "WAIT_STATE1", "WAIT_STATE2"}

KeyIndex == 0 .. KeyWords - 1
NoKey == [i \in KeyIndex |-> ZeroWord]

TssInit ==
    /\ llkid_key_ready = TRUE
    /\ llkid_key_complete = FALSE
    /\ llkid_clear_key_ack = FALSE
    /\ llkid_key_register = NoKey
    /\ llkid_key_word_counter = 0
    /\ tss_wait_state_counter = TssWaitInit
    /\ tss_state = "IDLE"

StoreKeyWord ==
    llkid_key_register' =
        [llkid_key_register EXCEPT ![llkid_key_word_counter] = llkid_key_data]

-----------------------------------------------------------------------------
(* ST_MOCKTSS_IDLE *)

TssIdleDefault ==
    /\ tss_state = "IDLE"
    /\ llkid_key_word_counter' = 0
    /\ tss_wait_state_counter' = TssWaitInit

TssIdleClear_mutant ==                  \* never acknowledged
    /\ TssIdleDefault
    /\ llkid_clear_key
    /\ llkid_clear_key_ack' = FALSE
    /\ llkid_key_complete' = FALSE
    /\ llkid_key_register' = NoKey
    /\ llkid_key_ready' = TRUE
    /\ UNCHANGED tss_state

TssIdleClear_mutant2 ==                 \* the key stays complete
    /\ TssIdleDefault
    /\ llkid_clear_key
    /\ llkid_clear_key_ack' = TRUE
    /\ llkid_key_register' = NoKey
    /\ llkid_key_ready' = TRUE
    /\ UNCHANGED <<llkid_key_complete, tss_state>>

\* A clear in IDLE takes effect, and is acknowledged, at once.
TssIdleClear ==
    /\ TssIdleDefault
    /\ llkid_clear_key
    /\ llkid_clear_key_ack' = TRUE
    /\ llkid_key_complete' = FALSE
    /\ llkid_key_register' = NoKey
    /\ llkid_key_ready' = TRUE
    /\ UNCHANGED tss_state

TssIdleLoad ==
    /\ TssIdleDefault
    /\ ~llkid_clear_key
    /\ llkid_key_valid
    /\ StoreKeyWord
    /\ llkid_key_ready' = FALSE
    /\ llkid_clear_key_ack' = FALSE
    /\ tss_state' = "WAIT_STATE0"
    /\ UNCHANGED llkid_key_complete

TssIdleStay ==
    /\ TssIdleDefault
    /\ ~llkid_clear_key
    /\ ~llkid_key_valid
    /\ llkid_key_ready' = TRUE
    /\ llkid_clear_key_ack' = FALSE
    /\ UNCHANGED <<llkid_key_complete, llkid_key_register, tss_state>>

-----------------------------------------------------------------------------
(* The wait states, in which the shim is neither ready nor complete *)

Busy ==
    /\ llkid_key_ready' = FALSE
    /\ llkid_key_complete' = FALSE
    /\ llkid_clear_key_ack' = FALSE

\* ST_MOCKTSS_WAIT_STATE0: after each key word.  When the counter has run out
\* a clear request is not looked at; it is a level and will be seen later.
TssWaitState0Last ==
    /\ tss_state = "WAIT_STATE0"
    /\ Busy
    /\ tss_wait_state_counter = 0
    /\ llkid_key_word_counter = KeyWords - 1
    /\ tss_wait_state_counter' = TssWaitInit
    /\ tss_state' = "WAIT_STATE2"
    /\ UNCHANGED <<llkid_key_register, llkid_key_word_counter>>

TssWaitState0More ==
    /\ tss_state = "WAIT_STATE0"
    /\ Busy
    /\ tss_wait_state_counter = 0
    /\ llkid_key_word_counter # KeyWords - 1
    /\ tss_wait_state_counter' = Dec8(tss_wait_state_counter)
    /\ llkid_key_word_counter' = llkid_key_word_counter + 1
    /\ tss_state' = "WAIT_FOR_NEXT_KEY_WORD"
    /\ UNCHANGED llkid_key_register

TssWaitState0Count ==
    /\ tss_state = "WAIT_STATE0"
    /\ Busy
    /\ tss_wait_state_counter # 0
    /\ tss_wait_state_counter' = Dec8(tss_wait_state_counter)
    /\ tss_state' = IF llkid_clear_key THEN "CLEAR_KEY" ELSE "WAIT_STATE0"
    /\ UNCHANGED <<llkid_key_register, llkid_key_word_counter>>

\* ST_MOCKTSS_WAIT_FOR_NEXT_KEY_WORD
TssNextWordDefault ==
    /\ tss_state = "WAIT_FOR_NEXT_KEY_WORD"
    /\ llkid_key_complete' = FALSE
    /\ llkid_clear_key_ack' = FALSE
    /\ tss_wait_state_counter' = TssWaitInit
    /\ UNCHANGED llkid_key_word_counter

TssNextWordClear ==
    /\ TssNextWordDefault
    /\ llkid_clear_key
    /\ llkid_key_ready' = TRUE
    /\ tss_state' = "CLEAR_KEY"
    /\ UNCHANGED llkid_key_register

TssNextWordLoad ==
    /\ TssNextWordDefault
    /\ ~llkid_clear_key
    /\ llkid_key_valid
    /\ StoreKeyWord
    /\ llkid_key_ready' = FALSE
    /\ tss_state' = "WAIT_STATE0"

TssNextWordStay ==
    /\ TssNextWordDefault
    /\ ~llkid_clear_key
    /\ ~llkid_key_valid
    /\ llkid_key_ready' = TRUE
    /\ UNCHANGED <<llkid_key_register, tss_state>>

\* ST_MOCKTSS_CLEAR_KEY
TssClearKey ==
    /\ tss_state = "CLEAR_KEY"
    /\ Busy
    /\ llkid_key_register' = NoKey
    /\ tss_wait_state_counter' = TssWaitInit
    /\ tss_state' = "WAIT_STATE1"
    /\ UNCHANGED llkid_key_word_counter

\* ST_MOCKTSS_WAIT_STATE1: a delayed clear is acknowledged on the way to IDLE.
TssWaitState1 ==
    /\ tss_state = "WAIT_STATE1"
    /\ llkid_key_ready' = FALSE
    /\ llkid_key_complete' = FALSE
    /\ tss_wait_state_counter' = Dec8(tss_wait_state_counter)
    /\ llkid_clear_key_ack' = (tss_wait_state_counter = 0)
    /\ tss_state' = IF tss_wait_state_counter = 0 THEN "IDLE" ELSE tss_state
    /\ UNCHANGED <<llkid_key_register, llkid_key_word_counter>>

\* ST_MOCKTSS_WAIT_STATE2: after the last word; a clear request is not seen.
TssWaitState2 ==
    /\ tss_state = "WAIT_STATE2"
    /\ llkid_key_ready' = FALSE
    /\ llkid_clear_key_ack' = FALSE
    /\ tss_wait_state_counter' = Dec8(tss_wait_state_counter)
    /\ llkid_key_complete' = (tss_wait_state_counter = 0)
    /\ tss_state' = IF tss_wait_state_counter = 0 THEN "IDLE" ELSE tss_state
    /\ UNCHANGED <<llkid_key_register, llkid_key_word_counter>>

-----------------------------------------------------------------------------

TssStep ==
    \/ TssIdleClear \/ TssIdleLoad \/ TssIdleStay
    \/ TssWaitState0Last \/ TssWaitState0More \/ TssWaitState0Count
    \/ TssNextWordClear \/ TssNextWordLoad \/ TssNextWordStay
    \/ TssClearKey \/ TssWaitState1 \/ TssWaitState2

TssTypeOK ==
    /\ llkid_key_ready \in BOOLEAN
    /\ llkid_key_complete \in BOOLEAN
    /\ llkid_clear_key_ack \in BOOLEAN
    /\ llkid_key_register \in [KeyIndex -> Word]
    /\ llkid_key_word_counter \in KeyIndex
    /\ tss_wait_state_counter \in Byte
    /\ tss_state \in TssState
=============================================================================
