------------------------------ MODULE MCImport ------------------------------
(***************************************************************************)
(* Instances of Import.                                                     *)
(***************************************************************************)
EXTENDS Import
==============================================================================
