--------------------------------- MODULE TlulErr ---------------------------------
(***************************************************************************)
(* The TileLink request checker (tlul_err.sv) on the platform's 64-bit     *)
(* bus, and what a well-formed request is.  A mask is the set of its       *)
(* enabled byte lanes.                                                     *)
(***************************************************************************)
EXTENDS Naturals

Lanes == 0 .. 7
Put == {"PutFullData", "PutPartialData"}
Get == "Get"
Opcodes == Put \cup {Get}

Aligned(a, n) == a.address % n = 0

\* One operator per arm of the case on a_size: alignment, no lane outside
\* `lanes', and for PutFullData every lane of `lanes'.
Fits(a, n, lanes) ==
    /\ Aligned(a, n)
    /\ a.mask \subseteq lanes
    /\ a.opcode = "PutFullData" => lanes \subseteq a.mask

OneByte(a) == Fits(a, 1, {a.address % 8})
TwoBytes(a) == LET k == (a.address \div 2) % 4 IN Fits(a, 2, {2 * k, 2 * k + 1})
FourBytes_mutant(a) ==                  \* the halves swapped
    Fits(a, 4, IF (a.address \div 4) % 2 = 1 THEN 0 .. 3 ELSE 4 .. 7)
FourBytes(a) == Fits(a, 4, IF (a.address \div 4) % 2 = 1 THEN 4 .. 7 ELSE 0 .. 3)
EightBytes(a) == Fits(a, 8, Lanes)      \* also for 64 bytes

err_o(a) ==
    ~ /\ a.opcode \in Opcodes
      /\ CASE a.size = 0 -> OneByte(a)
           [] a.size = 1 -> TwoBytes(a)
           [] a.size = 2 -> FourBytes(a)
           [] a.size \in {3, 6} -> EightBytes(a)
           [] OTHER -> FALSE

-----------------------------------------------------------------------------
(* The definition it is to meet, for transfers of up to one beat: the access *)
(* is aligned to its size n, its lanes are the n bytes it addresses, and     *)
(* PutFullData enables them all.                                             *)
WellFormed(a) ==
    /\ a.opcode \in Opcodes
    /\ \E n \in {1, 2, 4, 8} :
         LET first == a.address % 8
             lanes == first .. (first + n - 1)
         IN  /\ a.size = CASE n = 1 -> 0 [] n = 2 -> 1 [] n = 4 -> 2 [] n = 8 -> 3
             /\ a.address % n = 0
             /\ a.mask \subseteq lanes
             /\ a.opcode = "PutFullData" => a.mask = lanes
=============================================================================
