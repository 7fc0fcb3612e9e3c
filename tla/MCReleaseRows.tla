---------------------------- MODULE MCReleaseRows ----------------------------
(* A small instance of ReleaseRows: a project that becomes a podling after a    *)
(* user may have created it, and a podling that becomes a PMC.                  *)
EXTENDS ReleaseRows, TLC

CONSTANTS h1, h2, u, w

MCSessionOf == (u :> {"a", "b"}) @@ (w :> {"b"})
MCRemote ==
  <<[pmcs |-> <<"a", "b">>, podlings |-> <<"b">>, groups |-> [a |-> "x", b |-> "y"]],
    [pmcs |-> <<"a", "b">>, podlings |-> <<"c">>, groups |-> [a |-> "x", b |-> "z"]]>>
HandlerSymmetry == Permutations({h1, h2})
=============================================================================
