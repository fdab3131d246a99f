------------------------------- MODULE TlulPort -------------------------------
(***************************************************************************)
(* What a TileLink-UL register port promises its master: every request it  *)
(* accepts gets exactly one answer, of the request's kind, with the        *)
(* request's source and with the data and the error of the register it     *)
(* addressed; the answer stays until it is taken, and until then no other  *)
(* request is accepted.  Module RegisterPort implements it.                *)
(***************************************************************************)
CONSTANTS
    Addr, Source,
    Contents,       \* Contents[a] is what a read of register a returns
    BadAddr,        \* the addresses that answer with an error
    None

VARIABLES pending, answer
portVars == <<pending, answer>>

Request == [read : BOOLEAN, addr : Addr, source : Source]

\* What counts as an answer to p; a write's data mean nothing.
IsAnswer(x, p) ==
    /\ x.source = p.source
    /\ x.opcode = IF p.read THEN "AccessAckData" ELSE "AccessAck"
    /\ x.error = (p.addr \in BadAddr)
    /\ p.read => x.rdata = Contents[p.addr]

Init == pending = None /\ answer = None

Accept ==
    /\ pending = None
    /\ pending' \in Request
    /\ answer' = None \/ IsAnswer(answer', pending')

Answer ==
    /\ pending # None /\ answer = None
    /\ IsAnswer(answer', pending)
    /\ UNCHANGED pending

Take ==
    /\ answer # None
    /\ pending' = None
    /\ answer' = None

Next == Accept \/ Answer \/ Take
Spec == Init /\ [][Next]_portVars
=============================================================================
