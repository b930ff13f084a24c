---------------------------- MODULE MCKeyService ----------------------------
EXTENDS KeyService, TLC

CONSTANTS k1, k2, k3, p1, p2, t1, t2, b1, r1, r2

MCTenantOf == p1 :> t1 @@ p2 :> t2
MCProjectOf == k1 :> p1 @@ k2 :> p1 @@ k3 :> p2
MCScope == b1 :> {k1, k2}
Symmetry == Permutations(Requests)
=============================================================================
