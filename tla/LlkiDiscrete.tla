---------------------------- MODULE LlkiDiscrete ----------------------------
(***************************************************************************)
(* The LLKI-Discrete interface: the wires between an LLKI Protocol         *)
(* Processing block (LlkiPP) and its Technique Specific Shim (MockTSS).    *)
(* Each wire is a register of the side that drives it, so in one clock     *)
(* both sides read the values of the previous clock.                       *)
(***************************************************************************)
EXTENDS LlkiPkg

VARIABLES
    llkid_key_data,         \* driven by the LLKI-PP
    llkid_key_valid,
    llkid_clear_key,
    llkid_key_ready,        \* driven by the TSS
    llkid_key_complete,
    llkid_clear_key_ack

ppWires == <<llkid_key_data, llkid_key_valid, llkid_clear_key>>
tssWires == <<llkid_key_ready, llkid_key_complete, llkid_clear_key_ack>>
=============================================================================
