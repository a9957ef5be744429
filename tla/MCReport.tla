------------------------------ MODULE MCReport ------------------------------
(***************************************************************************)
(* Two runs that may use one address or two, or one they may not open, and *)
(* the readers of their pages.                                             *)
(***************************************************************************)
EXTENDS Report

CONSTANTS a1, a2, public

TwoAddresses == {a1, a2, public}
=============================================================================
