------------------------------- MODULE VmNames -------------------------------
(***************************************************************************)
(* The VM names: one lock each in a process, one domain, one DNS name.     *)
(***************************************************************************)
CONSTANT Names
==============================================================================
