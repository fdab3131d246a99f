---------------------------- MODULE MCLlkiTarget ----------------------------
(* The instance of LlkiTarget that TLC checks: a core with a key of two    *)
(* words and a master that makes requests of every kind, in any order.     *)
EXTENDS LlkiTarget

Write(addr, word) ==
    [valid |-> TRUE, opcode |-> "PutFullData", addr |-> addr, data |-> word,
     source |-> 0, malformed |-> FALSE]
Read(addr) ==
    [valid |-> TRUE, opcode |-> "Get", addr |-> addr, data |-> ZeroWord,
     source |-> 0, malformed |-> FALSE]

Header(id, len) == HeaderWord(id, "GOOD", len)

\* Key words.  As headers they would pass for a request of unknown kind and
\* for a clear request.
KeyWord1 == [id |-> "OTHER", status |-> "OTHER", len |-> 0, body |-> "k1"]
KeyWord2 == [id |-> "KLCLEARKEYREQ", status |-> "GOOD", len |-> 1,
             body |-> "k2"]

Headers ==
    {Header("KLLOADKEYREQ", len) : len \in 1 .. 4}
      \cup {Header("KLCLEARKEYREQ", 2), Header("KLKEYSTATUSREQ", 1)}

MCRequests ==
    {Write("SENDRECV", w) : w \in Headers \cup {KeyWord1, KeyWord2}}
      \cup {Write("CTRLSTS", ZeroWord), Write("OTHER", ZeroWord)}
      \cup {Read(addr) : addr \in KLAddr}
MCNoRequest == [Read("CTRLSTS") EXCEPT !.valid = FALSE]
=============================================================================
