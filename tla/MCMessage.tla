----------------------------- MODULE MCMessage -----------------------------
(***************************************************************************)
(* Message for TLC. Messages share no state, so one is enough; its         *)
(* identity and that of the handlers are model values of the .cfg.         *)
(***************************************************************************)
EXTENDS Message, TLC
=============================================================================
