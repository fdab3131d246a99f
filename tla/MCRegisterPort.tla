---------------------------- MODULE MCRegisterPort ----------------------------
(* The instance of RegisterPort that TLC checks: three sources, registers   *)
(* of either content and addresses that are errors, of which some answer    *)
(* reads at once (z..) and the others one clock later.                      *)
EXTENDS RegisterPort

Offered(malformed) ==
    [valid : {TRUE}, opcode : Put \cup {"Get"}, addr : Addr, data : Data,
     source : Source, malformed : malformed]
WellFormed == Offered({FALSE})
AnyRequest == Offered(BOOLEAN)
Idle == [valid |-> FALSE, opcode |-> "Get", addr |-> "r0", data |-> 0,
         source |-> 0, malformed |-> FALSE]
MCContents == [a \in Addr |-> IF a \in {"r1", "z1"} THEN 1 ELSE 0]
=============================================================================
