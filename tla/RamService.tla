------------------------------- MODULE RamService -------------------------------
(***************************************************************************)
(* What a RAM on TileLink promises: it takes requests whole, in order and  *)
(* at once, and answers each with its own source, with an error exactly    *)
(* when it is malformed or out of range, and, for a Get, with what the RAM *)
(* held when the request was taken.  An access that is denied reaches the  *)
(* RAM all the same, at its address cut to the RAM's size.  Module         *)
(* Scratchpad implements it.                                               *)
(***************************************************************************)
EXTENDS TlulErr, Sequences

CONSTANTS Words, Requests

VARIABLES
    ram,        \* ram[w]: the bytes of word w
    answers     \* the answers not yet delivered, oldest first
ramVars == <<ram, answers>>

Zeros == [l \in Lanes |-> 0]
Word(a) == a.address \div 8
Denied(a) == ~WellFormed(a) \/ Word(a) >= Words
Written(a) == [ram EXCEPT ![Word(a) % Words] =
                  [l \in Lanes |-> IF l \in a.mask THEN a.data[l] ELSE @[l]]]
Answer(a) ==
    [opcode |-> IF a.opcode \in Put THEN "AccessAck" ELSE "AccessAckData",
     size |-> a.size, source |-> a.source, error |-> Denied(a),
     data |-> IF a.opcode \in Put THEN Zeros ELSE ram[Word(a) % Words]]

RamInit == ram = [w \in 0 .. Words - 1 |-> Zeros] /\ answers = <<>>

\* In one clock the oldest answer may be delivered and a request be taken.
Left(deliver) == IF deliver THEN Tail(answers) ELSE answers
Take(deliver, a) ==
    /\ ram' = IF a.opcode \in Put THEN Written(a) ELSE ram
    /\ answers' = Append(Left(deliver), Answer(a))
Rest(deliver) == UNCHANGED ram /\ answers' = Left(deliver)

RamNext == \E deliver \in BOOLEAN :
    /\ deliver => answers # <<>>
    /\ Rest(deliver) \/ \E a \in Requests : Take(deliver, a)
RamSpec == RamInit /\ [][RamNext]_ramVars
=============================================================================
