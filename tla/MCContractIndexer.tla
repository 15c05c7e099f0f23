------------------------- MODULE MCContractIndexer -------------------------
(* One address: a contract that two interfaces fit, or one, or an account. *)
EXTENDS ContractIndexer

CONSTANTS a, i1, i2, k1, k2

MCCodes == {<<i1, i2>>, <<i2>>, NoCode}
=============================================================================
