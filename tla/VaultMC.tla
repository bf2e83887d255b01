------------------------------- MODULE VaultMC -------------------------------
(* Small instances of Vault.                                                *)
EXTENDS Vault

CONSTANTS k1, k2, w1, w2, c1, c2
=============================================================================
