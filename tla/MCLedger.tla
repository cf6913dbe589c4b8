------------------------------ MODULE MCLedger ------------------------------
(***************************************************************************)
(* Two miners, two nonces, so that nonces recur in later challenges, and   *)
(* rewards and hash powers that do not divide evenly.                      *)
(***************************************************************************)
EXTENDS Ledger

CONSTANTS A, B
=============================================================================
