------------------------------- MODULE MCLLKI -------------------------------
(* The instance of LLKI that TLC checks: a core with a key of two words.   *)
EXTENDS LLKIService

KeyWord(b) == [id |-> "KLCLEARKEYREQ", status |-> "GOOD", len |-> 1,
               body |-> b]
Entry(valid, core, high, low) ==
    [valid |-> valid, core |-> core, high |-> high, low |-> low]
Request(id, len, idx) ==
    [id |-> id, len |-> len, key_index |-> idx, rsvd |-> "t1"]

MCKeyRam == [i \in 0 .. KeyRamSize - 1 |->
                CASE i = 0 -> KeyWord("k0") [] i = 1 -> KeyWord("k1")
                  [] OTHER -> KeyWord("k2")]
\* 0: a key of the right length; 1: a key one word too long; 2: an entry that
\* is not valid; 3: a bad pointer pair; 4: a core that does not exist.
MCKeyIndexRam ==
    [i \in 0 .. KeyIndexRamSize - 1 |->
        CASE i = 0 -> Entry(TRUE, 0, 1, 0)
          [] i = 1 -> Entry(TRUE, 0, 2, 0)
          [] i = 2 -> Entry(FALSE, 0, 1, 0)
          [] i = 3 -> Entry(TRUE, 0, 0, 1)
          [] OTHER -> Entry(TRUE, 1, 1, 0)]

MCC2Requests ==
    {Request(id, 1, idx) : id \in C2Request, idx \in 0 .. 1}
      \cup {Request("C2LOADKEYREQ", 1, idx) : idx \in 2 .. 5}
      \cup {Request("C2LOADKEYREQ", 2, 0), Request("OTHER", 1, 0)}
MCKeyRamWrites == [idx : {0}, wdata : {KeyWord("k0"), KeyWord("k2")}]
MCKeyIndexRamWrites ==
    [idx : {0}, wdata : {Entry(TRUE, 0, 1, 0), Entry(TRUE, 0, 2, 1)}]
\* An entry that delimits a key one word too short.
MCShortKeyIndexRam ==
    [MCKeyIndexRam EXCEPT ![0] = Entry(TRUE, 0, 0, 0)]
MCShortKeyRequests == {Request("C2LOADKEYREQ", 1, 0)}
=============================================================================
