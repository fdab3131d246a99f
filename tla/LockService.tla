------------------------------ MODULE LockService ------------------------------
(***************************************************************************)
(* What the core locks of the CEP registers promise the harts: a test and  *)
(* set is atomic, a hart that was refused does not own what it asked for,  *)
(* and only the owner of a lock runs inside it and gives it back.  A hart  *)
(* that fails inside goes on with the lock in its hands and may ask for    *)
(* others, or for that one again.  Module LockRegs implements the service, *)
(* module MultiThread is written on top of it.                             *)
(***************************************************************************)
CONSTANTS Harts, Locks, Nobody

VARIABLES
    owner,      \* owner[l]: the hart that owns lock l, or Nobody
    phase,      \* "out", "waiting", "inside"
    wants       \* wants[h]: the lock h asked for last
serviceVars == <<owner, phase, wants>>

Goes(h, from, to) ==
    /\ phase[h] = from
    /\ phase' = [phase EXCEPT ![h] = to]

Init ==
    /\ owner = [l \in Locks |-> Nobody]
    /\ phase = [h \in Harts |-> "out"]
    /\ wants \in [Harts -> Locks]

Ask(h, l) ==
    /\ Goes(h, "out", "waiting")
    /\ wants' = [wants EXCEPT ![h] = l]
    /\ UNCHANGED owner

TestAndSet(h) ==
    /\ phase[h] = "waiting"
    /\ owner[wants[h]] = Nobody
    /\ owner' = [owner EXCEPT ![wants[h]] = h]
    /\ UNCHANGED <<phase, wants>>

Enter(h) ==
    /\ owner[wants[h]] = h
    /\ Goes(h, "waiting", "inside")
    /\ UNCHANGED <<owner, wants>>

GiveUp(h) ==
    /\ owner[wants[h]] # h
    /\ Goes(h, "waiting", "out")
    /\ UNCHANGED <<owner, wants>>

Leave(h) ==
    /\ Goes(h, "inside", "out")
    /\ owner' = [owner EXCEPT ![wants[h]] = Nobody]
    /\ UNCHANGED wants

\* A program that fails inside leaves without giving the lock back.
Fail(h) ==
    /\ Goes(h, "inside", "out")
    /\ UNCHANGED <<owner, wants>>

Next == \E h \in Harts :
    \/ \E l \in Locks : Ask(h, l)
    \/ TestAndSet(h) \/ Enter(h) \/ GiveUp(h) \/ Leave(h) \/ Fail(h)
Spec == Init /\ [][Next]_serviceVars
=============================================================================
