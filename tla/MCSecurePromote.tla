-------------------------- MODULE MCSecurePromote ---------------------------
(* Two foreign files suffice: one may be displaced by the exchange while    *)
(* another one takes the destination name.                                  *)
EXTENDS SecurePromote, TLC

CONSTANTS x1, x2
=============================================================================
