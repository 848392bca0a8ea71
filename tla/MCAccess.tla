------------------------------ MODULE MCAccess ------------------------------
(* Small instances of Access for TLC. *)
EXTENDS Access, TLC

CONSTANTS u1, seed, other, env, s1, s2, r1, r2

Ask(op, u, x, perms) == [op |-> op, user |-> u, role |-> x, perms |-> perms]

Changes == {Ask("createRole", None, other, {"read", "write"}), Ask("updateRole", None, other, {"read"}),
            Ask("updateRole", None, seed, {"read"}), Ask("retireRole", None, seed, {}),
            Ask("createUser", u1, seed, {}), Ask("updateUser", u1, other, {}),
            Ask("retireUser", u1, None, {})}
PeopleSymmetry == Permutations({s1, s2}) \cup Permutations({r1, r2})
=============================================================================
