------------------------------- MODULE MCAts -------------------------------
(* Instances of Ats for TLC. *)
EXTENDS Ats

CONSTANTS a, b
MCAccounts == {a, b}
=============================================================================
