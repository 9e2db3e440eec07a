----------------------------- MODULE OAuthGrants -----------------------------
(***************************************************************************)
(* What the authorization server promises, seen from a user: the usable    *)
(* tokens, whom they are for, and the apps the user has ever allowed.  A   *)
(* token appears alone, under a name no usable token has, and only for an  *)
(* app its user has allowed; any number of tokens may go at any time.      *)
(***************************************************************************)
CONSTANTS Clients, Users, Apps, AppOf, Names

VARIABLES
  allowed,   (* <<app, user>>: the user has allowed the app                 *)
  tokens     (* usable tokens                                               *)

Kinds == {"access", "refresh"}
Token == [kind : Kinds, name : Names, client : Clients, user : Users]

Init == allowed = {} /\ tokens = {}

Allow(a, u) == allowed' = allowed \cup {<<a, u>>} /\ UNCHANGED tokens

Issue(t) ==
  /\ <<AppOf[t.client], t.user>> \in allowed
  /\ \A s \in tokens : s.kind = t.kind => s.name # t.name
  /\ tokens' = tokens \cup {t}
  /\ UNCHANGED allowed

Withdraw(gone) == tokens' = tokens \ gone /\ UNCHANGED allowed

Next == \/ \E a \in Apps, u \in Users : Allow(a, u)
        \/ \E t \in Token : Issue(t)
        \/ \E gone \in SUBSET tokens : Withdraw(gone)

Spec == Init /\ [][Next]_<<allowed, tokens>>
=============================================================================
