-------------------------- MODULE MCRefreshStream --------------------------
(* RefreshStream with a few assets and producers.                          *)
EXTENDS RefreshStream

CONSTANTS a1, a2, p1, p2
MCAsset == {a1, a2}
MCProducer == {p1, p2}
=============================================================================
