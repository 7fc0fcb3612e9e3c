---------------------------- MODULE MCAppServer ----------------------------
EXTENDS AppServer

CONSTANTS s1, s2

MCRolesOf == (s1 :> {} @@ s2 :> {"member"})

MCNeeds == {[all |-> {}, any |-> {}], [all |-> {"member"}, any |-> {"member", "chair"}]}

MCSymmetry == Permutations(Slots)
=============================================================================
