-------------------------------- MODULE MCOAuth --------------------------------
(* Instance of OAuth for TLC.  Clients and workers are interchangeable, and the *)
(* properties checked are invariants and an action property.                    *)
EXTENDS OAuth, TLC

Symmetry == Permutations(Clients) \cup Permutations(Workers)
=============================================================================
