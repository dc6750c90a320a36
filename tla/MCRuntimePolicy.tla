-------------------------- MODULE MCRuntimePolicy ---------------------------
(* RuntimePolicy with two updates and two values of a section.             *)
EXTENDS RuntimePolicy

CONSTANTS u1, u2, v0, v1, bad, inherit

Pair == {u1, u2}
TwoValues == {v0, v1}
=============================================================================
