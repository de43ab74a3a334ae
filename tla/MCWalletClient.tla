--------------------------- MODULE MCWalletClient ---------------------------
(***************************************************************************)
(* Instances of WalletClient for TLC: three logins, so that one is awaited *)
(* while the session of another is in force and is replaced, and three     *)
(* pages.                                                                  *)
(***************************************************************************)
EXTENDS WalletClient
=============================================================================
