------------------------------ MODULE MCScratchpad ------------------------------
(* Two words, a FIFO of four: writes of one, four and eight bytes, reads, a   *)
(* request beyond the RAM and malformed ones.                                 *)
EXTENDS Scratchpad

Ones == [l \in Lanes |-> 1]
Req(op, size, source, address, mask) ==
    [valid |-> TRUE, opcode |-> op, size |-> size, source |-> source,
     address |-> address, mask |-> mask, data |-> Ones]
MCRequests ==
    {Req("PutFullData", 3, 0, 0, Lanes), Req("PutPartialData", 0, 1, 9, {1}),
     Req("PutFullData", 2, 0, 12, 4 .. 7), Req(Get, 3, 1, 0, Lanes),
     Req(Get, 2, 0, 8, 0 .. 3), Req(Get, 3, 0, 16, Lanes),
     Req("PutPartialData", 1, 0, 1, {1}), Req("PutFullData", 2, 1, 12, 4 .. 6)}
=============================================================================
