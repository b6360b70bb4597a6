----------------------------- MODULE MCUserAdmin -----------------------------
(* Two administrators who change each other; one invites a third, who can  *)
(* undo a change.                                                          *)
EXTENDS UserAdmin, TLC

CONSTANTS a, b, c, r1, r2, r3, s1, s2

MCUsers == {a, b, c}
MCFounders == {a, b}
MCThree == {r1, r2, r3}
MCServers == {s1, s2}

M(actor, op, user, role) == [actor |-> actor, op |-> op, user |-> user, role |-> role]
MCMutations ==
    {M(a, "disable", b, "admin"), M(b, "role", a, "operator"),
     M(a, "create", c, "admin"), M(c, "enable", b, "admin")}

MCSymmetry == Permutations(MCThree) \cup Permutations(MCServers)
=============================================================================
