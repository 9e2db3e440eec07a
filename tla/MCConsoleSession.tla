------------------------- MODULE MCConsoleSession -------------------------
(* One browser on which two users have been: the first as such and within a *)
(* tenant, the second within that tenant.                                   *)
EXTENDS ConsoleSession

Person(u, t) == [user |-> u, tenant |-> t]

ThreeAccounts == {Person(1, 0), Person(1, 1), Person(2, 1)}
=============================================================================
