--------------------------- MODULE MCPluginStream ---------------------------
(* PluginStream on two connections.                                        *)
EXTENDS PluginStream, TLC

CONSTANTS p1, p2

Two == {p1, p2}
OnlyFirst == {p1}

(* The connections are interchangeable when both keep reading.  Used by    *)
(* the safety run only.                                                    *)
Symmetry == Permutations(Two)
=============================================================================
