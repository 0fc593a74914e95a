---------------------------- MODULE MCOAuth2Server ----------------------------
(***************************************************************************)
(* Instances of OAuth2Server for TLC.  Requests are interchangeable, and   *)
(* so are codes, which are drawn at random.                                *)
(***************************************************************************)
EXTENDS OAuth2Server, TLC

CONSTANTS r1, r2, r3, n1, n2, n3

Symmetry == Permutations(Thread) \cup Permutations(Code)
=============================================================================
