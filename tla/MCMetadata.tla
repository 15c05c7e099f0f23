----------------------------- MODULE MCMetadata -----------------------------
(* One contract of each standard in turn, one token, two of the tables.    *)
EXTENDS Metadata, TLC

CONSTANTS a, t, s1, s2

MCChanging == {<<a, Null>>}
MCParts == <<"image", "asset">>
Perms == Permutations(Task)
=============================================================================
