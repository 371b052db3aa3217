--------------------------- MODULE MCRagBootstrap ---------------------------
(* Two requests and two service objects, one fixture in each layer, users  *)
(* who ingest a fixture's document anew or one beside it.                  *)
EXTENDS RagBootstrap, TLC

CONSTANTS a, b   \* each a request and, apart from that, a service object

Two == {a, b}
OnePerLayer == <<<<1, "a">>, <<2, "b">>>>
OneUserDoc == {<<1, "a">>, <<1, "b">>}
Symmetry == Permutations(Two)
=============================================================================
