---------------------------- MODULE MCUserCaches ----------------------------
(***************************************************************************)
(* UserCaches for model checking: two goroutines, two tokens of one        *)
(* account, of which one expires, and a token of another account.  The     *)
(* caches hold one entry less than that.                                   *)
(***************************************************************************)
EXTENDS UserCaches, TLC

CONSTANTS r1, r2, t1, t2, t3, a1, a2

MCRequests == {r1, r2}
MCTokens == {t1, t2, t3}
MCAccounts == {a1, a2}
MCAccountOf == (t1 :> a1) @@ (t2 :> a1) @@ (t3 :> a2)
MCAccepted == {t1, t3}
MCPayload ==
    (t1 :> [jwt |-> TRUE, exp |-> "number", at |-> 1])
    @@ (t2 :> [jwt |-> FALSE, exp |-> "absent", at |-> 0])
    @@ (t3 :> [jwt |-> TRUE, exp |-> "number", at |-> 2])
MCSymmetry == Permutations(MCRequests)
=============================================================================
