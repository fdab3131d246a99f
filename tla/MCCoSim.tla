-------------------------------- MODULE MCCoSim --------------------------------
(* Two threads and the system slot; the .cfg files choose the commands and the *)
(* state the segment is found in.                                              *)
EXTENDS CoSim

Commands == {Access, Printf}
AllCommands == {Access, Printf, Unsupported}
=============================================================================
