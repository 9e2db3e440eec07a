----------------------- MODULE ConsoleSession_proofs -----------------------
(***************************************************************************)
(* Who is signed in, for every number of accounts, tokens, tasks and       *)
(* failures.                                                               *)
(***************************************************************************)
EXTENDS ConsoleSession, SequenceTheorems, TLAPS

USE DEF server, ghosts

-----------------------------------------------------------------------------
(* Tasks and their fields.                                                 *)

LEMMA AppendTypes ==
  ASSUME NEW s \in Seq(Accounts), NEW a \in Accounts
  PROVE  /\ Append(s, a) \in Seq(Accounts)
         /\ Len(Append(s, a)) = Len(s) + 1 /\ Len(s) \in Nat
         /\ Append(s, a)[Len(s) + 1] = a
         /\ \A i \in 1..Len(s) : Append(s, a)[i] = s[i]
  OBVIOUS

LEMMA TaskFields ==
  ASSUME NEW kind \in Kinds, NEW call \in Calls, NEW key \in MaybeAccount,
         NEW token \in Nat, NEW header \in Nat, started \in Nat, stored \in Nat,
         NEW u, u = Task(kind, call, key, token, header)
  PROVE  /\ u \in TaskType
         /\ u.kind = kind /\ u.call = call /\ u.key = key /\ u.token = token
         /\ u.prev = stored /\ u.header = header /\ u.state = "sent" /\ u.profile = NoAccount
  BY DEF Task, TaskType, States, MaybeAccount

(* Only the state, the retry mark and the header change.                   *)
Like(u, t) ==
  /\ u \in TaskType
  /\ u.kind = t.kind /\ u.call = t.call /\ u.key = t.key /\ u.token = t.token
  /\ u.prev = t.prev /\ u.profile = t.profile

LEMMA StateFields ==
  ASSUME NEW t \in TaskType, NEW state \in States, NEW u, u = [t EXCEPT !.state = state]
  PROVE  Like(u, t) /\ u.header = t.header /\ u.state = state
  BY DEF Like, TaskType

LEMMA BegunFields ==
  ASSUME NEW t \in TaskType, NEW u, u = [t EXCEPT !.state = "refreshing", !.retry = TRUE]
  PROVE  Like(u, t) /\ u.header = t.header /\ u.state = "refreshing"
  BY DEF Like, TaskType, States

LEMMA WokenFields ==
  ASSUME NEW t \in TaskType, NEW header \in Nat,
         NEW u, u = [t EXCEPT !.state = "sent", !.header = header]
  PROVE  Like(u, t) /\ u.header = header /\ u.state = "sent"
  BY DEF Like, TaskType, States

-----------------------------------------------------------------------------
(* Types.                                                                  *)

More == MaybeToken \subseteq MaybeToken'

LEMMA IssueMore ==
  ASSUME TypeOK, NEW a \in Accounts, issued' = Append(issued, a)
  PROVE  /\ issued' \in Seq(Accounts) /\ More /\ Tokens \subseteq Tokens'
         /\ Len(issued') \in Tokens' /\ Len(issued') \notin MaybeToken
         /\ issued'[Len(issued')] = a
         /\ \A i \in Tokens : issued'[i] = issued[i]
<1>1. issued \in Seq(Accounts) /\ Len(issued) \in Nat
  BY DEF TypeOK
<1>2. /\ issued' \in Seq(Accounts) /\ Len(issued') = Len(issued) + 1
      /\ issued'[Len(issued) + 1] = a
      /\ \A i \in 1..Len(issued) : issued'[i] = issued[i]
  BY <1>1, AppendTypes
<1> QED
  BY <1>1, <1>2 DEF More, MaybeToken, Tokens

LEMMA TokenNat == TypeOK => MaybeToken \subseteq Nat /\ Tokens = MaybeToken \ {0} /\ 0 \in MaybeToken
<1> SUFFICES ASSUME TypeOK PROVE Len(issued) \in Nat
  BY DEF MaybeToken, Tokens
<1> QED
  BY LenProperties DEF TypeOK

LEMMA StillFormed == ASSUME NEW t, Formed(t), More PROVE Formed(t)'
  BY DEF Formed, More

LEMMA LikeFormed ==
  ASSUME NEW t, Formed(t), More, NEW u, Like(u, t), u.header \in MaybeToken',
         t.call = "lookup" => u.state \in {"sent", "failed"}
  PROVE  Formed(u)'
  BY DEF Formed, Like, More

LEMMA UnchangedTokens == issued' = issued => MaybeToken' = MaybeToken /\ Tokens' = Tokens /\ More
  BY DEF MaybeToken, Tokens, More

LEMMA InitType == Init => TypeOK
  <1> SUFFICES ASSUME Init PROVE TypeOK
    OBVIOUS
  <1>1. issued \in [1..2 -> Accounts] /\ issued[2] \in Accounts
    BY DEF Init
  <1>2. issued \in Seq(Accounts) /\ Len(issued) = 2
    <2>1. DOMAIN issued = 1..2 /\ 2 \in Nat /\ \A i \in 1..2 : issued[i] \in Accounts
      BY <1>1
    <2>2. issued \in Seq(Accounts)
      BY <1>1, SeqDef
    <2> QED
      BY <2>1, <2>2, LenProperties
  <1>3. Tokens = 1..2 /\ MaybeToken = {0, 1, 2}
    BY <1>2 DEF Tokens, MaybeToken
  <1>4. \A t \in tasks : Formed(t)
    <2> DEFINE u == Task("check", "profile", NoAccount, 2, 2)
    <2>1. tasks = {u} /\ stored = 2 /\ started = 0
      BY DEF Init
    <2>2. /\ u \in TaskType /\ u.kind = "check" /\ u.call = "profile"
          /\ u.token = 2 /\ u.prev = 2 /\ u.header = 2 /\ u.profile = NoAccount
      BY <2>1, TaskFields DEF Kinds, Calls, MaybeAccount
    <2> HIDE DEF u
    <2> QED
      BY <1>3, <2>1, <2>2, SessionAssumption DEF Formed
  <1>5. sessions \in [Accounts -> MaybeToken]
    BY <1>3 DEF Init
  <1>6. cookie \in MaybeAccount /\ user \in MaybeAccount /\ stored \in MaybeToken
    BY <1>1, <1>3 DEF Init, MaybeAccount
  <1>7. started \in 0..MaxTasks /\ failures \in 0..MaxFailures
    BY SessionAssumption DEF Init
  <1> QED
    BY <1>2, <1>4, <1>5, <1>6, <1>7 DEF Init, TypeOK

(* The kinds of change to the tasks.                                       *)
LEMMA StartTypes ==
  ASSUME TypeOK, NEW kind \in Kinds, NEW call \in Calls, NEW key \in MaybeAccount,
         NEW token \in MaybeToken', NEW header \in MaybeToken',
         issued' \in Seq(Accounts), More,
         call = "page" <=> kind = "page", call = "lookup" => kind = "hint",
         call = "switch" => kind = "identity",
         call \in {"lookup", "switch"} => key \in Accounts,
         call \notin {"tenants", "language"},
         Start(Task(kind, call, key, token, header))
  PROVE  started' \in 0..MaxTasks /\ \A t \in tasks' : Formed(t)'
<1> PICK u : u = Task(kind, call, key, token, header)
  OBVIOUS
<1>1. MaybeToken' \subseteq Nat /\ MaybeToken \subseteq Nat
  BY TokenNat DEF MaybeToken, Tokens
<1>2. /\ u \in TaskType
      /\ u.kind = kind /\ u.call = call /\ u.key = key /\ u.token = token
      /\ u.prev = stored /\ u.header = header /\ u.state = "sent" /\ u.profile = NoAccount
  BY <1>1, TaskFields DEF TypeOK
<1>3. tasks' = tasks \cup {u} /\ started' \in 0..MaxTasks
  BY SessionAssumption DEF Start, TypeOK
<1>4. u.prev \in MaybeToken' /\ NoAccount \notin Accounts
  BY <1>2, SessionAssumption DEF More, TypeOK
<1>5. Formed(u)'
  BY <1>2, <1>4 DEF Formed
<1>6. ASSUME NEW t \in tasks PROVE Formed(t)'
  BY StillFormed DEF TypeOK
<1> QED
  BY <1>3, <1>5, <1>6

(* One task goes on as another.                                            *)
LEMMA ReplaceTypes ==
  ASSUME TypeOK, More, NEW t \in tasks, NEW u, Formed(u)', Replace(t, u)
  PROVE  \A v \in tasks' : Formed(v)'
  BY StillFormed DEF TypeOK, Replace

LEMMA RemoveTypes ==
  ASSUME TypeOK, More, tasks' \subseteq tasks
  PROVE  \A v \in tasks' : Formed(v)'
  BY StillFormed DEF TypeOK

LEMMA TaskIsFormed ==
  ASSUME TypeOK, NEW t \in tasks
  PROVE  /\ Formed(t) /\ t \in TaskType /\ t.header \in MaybeToken
         /\ t.token \in MaybeToken /\ t.prev \in MaybeToken
  BY DEF TypeOK, Formed

LEMMA LoadTypes ==
  ASSUME TypeOK, More, NEW t \in tasks, NEW token \in MaybeToken', LoadIdentity(t, token),
         t.call \in {"lookup", "switch"}, MaybeToken' \subseteq Nat
  PROVE  stored' \in MaybeToken' /\ \A v \in tasks' : Formed(v)'
<1> PICK u : u = [Goes(t, "profile", token) EXCEPT !.token = token]
  OBVIOUS
<1>1. /\ u \in TaskType
      /\ u.kind = t.kind /\ u.call = "profile" /\ u.key = t.key /\ u.token = token
      /\ u.prev = t.prev /\ u.header = token /\ u.state = "sent" /\ u.profile = t.profile
  <2>1. token \in Nat /\ t \in TaskType
    BY TaskIsFormed
  <2> QED
    BY <2>1 DEF Goes, TaskType, States, Calls
<1>2. u.prev \in MaybeToken'
  BY <1>1, TaskIsFormed DEF More
<1>3. Formed(u)'
  BY <1>1, <1>2, TaskIsFormed DEF Formed
<1> QED
  BY <1>3, ReplaceTypes DEF LoadIdentity

(* An answer goes on to another call of the same task, or changes its      *)
(* state only.                                                             *)
LEMMA NextCallTypes ==
  ASSUME TypeOK, More, NEW t \in tasks, NEW call \in {"tenants", "language"},
         NEW profile \in Accounts, NEW u,
         \/ call = "tenants" /\ u = [Goes(t, "tenants", stored) EXCEPT !.profile = profile]
         \/ call = "language" /\ u = Goes(t, call, stored) /\ t.profile = profile,
         t.call \notin {"page", "lookup"}, Replace(t, u)
  PROVE  \A v \in tasks' : Formed(v)'
<1>1. stored \in Nat /\ stored \in MaybeToken /\ t \in TaskType /\ profile \in MaybeAccount
  BY TokenNat, TaskIsFormed DEF TypeOK, MaybeAccount
<1>2. /\ u \in TaskType
      /\ u.kind = t.kind /\ u.call = call /\ u.key = t.key /\ u.token = t.token
      /\ u.prev = t.prev /\ u.header = stored /\ u.profile = profile
  <2>1. CASE call = "tenants" /\ u = [Goes(t, "tenants", stored) EXCEPT !.profile = profile]
    BY <1>1, <2>1 DEF Goes, TaskType, States, Calls
  <2>2. CASE call = "language" /\ u = Goes(t, call, stored) /\ t.profile = profile
    BY <1>1, <2>2 DEF Goes, TaskType, States, Calls
  <2> QED
    BY <2>1, <2>2
<1>3. u.header \in MaybeToken' /\ u.prev \in MaybeToken' /\ u.token \in MaybeToken'
  BY <1>1, <1>2, TaskIsFormed DEF More
<1>4. Formed(u)'
  BY <1>2, <1>3, TaskIsFormed DEF Formed
<1> QED
  BY <1>4, ReplaceTypes

LEMMA WakeTypes ==
  ASSUME TypeOK, More, NEW stay, stay \subseteq tasks,
         \A v \in tasks' : v \in stay \/ \E t \in Waiting :
            /\ Like(v, t) /\ v.header \in MaybeToken'
  PROVE  \A v \in tasks' : Formed(v)'
<1> SUFFICES ASSUME NEW v \in tasks' PROVE Formed(v)'
  OBVIOUS
<1>1. CASE v \in stay
  BY <1>1, StillFormed DEF TypeOK
<1>2. ASSUME NEW t \in Waiting, Like(v, t), v.header \in MaybeToken' PROVE Formed(v)'
  <2>1. t \in tasks /\ t.state \in {"queued", "refreshing"}
    BY DEF Waiting
  <2>2. Formed(t) /\ t.call # "lookup"
    BY <2>1, TaskIsFormed DEF Formed
  <2> QED
    BY <1>2, <2>2, LikeFormed
<1> QED
  BY <1>1, <1>2
LEMMA TypeStep == TypeOK /\ [Next]_vars => TypeOK'
<1> SUFFICES ASSUME TypeOK, [Next]_vars PROVE TypeOK'
  OBVIOUS
<1>0. MaybeToken \subseteq Nat /\ 0 \in MaybeToken /\ Tokens = MaybeToken \ {0}
  BY TokenNat
<1>U. issued' = issued => MaybeToken' = MaybeToken /\ Tokens' = Tokens /\ More
  BY UnchangedTokens
<1>1. CASE Reload
  <2>1. issued' = issued /\ stored \in Nat /\ started \in Nat
    BY <1>0, <1>1 DEF Reload, TypeOK
  <2>2. PICK u : u = Task("check", "profile", NoAccount, stored, stored)
    OBVIOUS
  <2>3. /\ u \in TaskType
        /\ u.kind = "check" /\ u.call = "profile" /\ u.token = stored
        /\ u.prev = stored /\ u.header = stored /\ u.profile = NoAccount
    BY <2>1, <2>2, TaskFields DEF Kinds, Calls, MaybeAccount
  <2>4. stored \in MaybeToken' /\ NoAccount \notin Accounts
    BY <1>U, <2>1, SessionAssumption DEF TypeOK
  <2>5. Formed(u)'
    BY <2>3, <2>4 DEF Formed
  <2>6. \A v \in tasks' : Formed(v)'
    BY <1>1, <2>2, <2>5 DEF Reload, Mount
  <2>7. failures' \in 0..MaxFailures
    BY <1>1, SessionAssumption DEF Reload, TypeOK
  <2> QED
    BY <1>1, <1>U, <2>1, <2>6, <2>7 DEF Reload, Mount, TypeOK, MaybeAccount
<1>2. CASE Route
  BY <1>U, <1>2 DEF Route, TypeOK, Formed
<1>3. ASSUME NEW t \in tasks, LookupDone(t) PROVE TypeOK'
  <2>1. issued' = issued /\ t.call = "lookup" /\ t.key \in Accounts
    BY <1>3, TaskIsFormed DEF LookupDone, Formed
  <2>2. sessions' \in [Accounts -> MaybeToken]
    BY <1>0, <1>3 DEF LookupDone, Pruned, Fresh, TypeOK
  <2>3. stored' \in MaybeToken /\ \A v \in tasks' : Formed(v)'
    <3>1. CASE sessions'[t.key] = 0
      BY <1>3, <1>U, <2>1, <3>1, RemoveTypes DEF LookupDone, TypeOK
    <3>2. CASE sessions'[t.key] # 0
      <4>1. LoadIdentity(t, sessions'[t.key]) /\ sessions'[t.key] \in MaybeToken
        BY <1>3, <2>1, <2>2, <3>2 DEF LookupDone
      <4> QED
        BY <1>0, <1>U, <2>1, <4>1, LoadTypes
    <3> QED
      BY <3>1, <3>2
  <2>4. astray' \subseteq Mishaps
    BY <1>3 DEF LookupDone, LateHint, Mishaps, TypeOK
  <2>5. /\ loading' \in BOOLEAN
        /\ UNCHANGED <<expired, cookie, user, path, leaving, started, failures, signedOut>>
    BY <1>3 DEF LookupDone
  <2> QED
    BY <1>U, <2>1, <2>2, <2>3, <2>4, <2>5 DEF TypeOK
<1>4. ASSUME NEW t \in tasks, IdentityDone(t) PROVE TypeOK'
  <2>1. t.call = "switch" /\ t.key \in Accounts /\ issued' = Append(issued, t.key)
    BY <1>4, TaskIsFormed DEF IdentityDone, Formed
  <2>2. /\ issued' \in Seq(Accounts) /\ More /\ Tokens \subseteq Tokens'
        /\ Len(issued') \in MaybeToken' /\ MaybeToken' \subseteq Nat
    BY <2>1, IssueMore, LenProperties DEF MaybeToken, Tokens
  <2>3. stored' \in MaybeToken' /\ \A v \in tasks' : Formed(v)'
    BY <1>4, <2>1, <2>2, LoadTypes DEF IdentityDone
  <2> QED
    BY <1>4, <2>1, <2>2, <2>3 DEF IdentityDone, TypeOK, MaybeAccount, More
<1>5. ASSUME NEW t \in tasks, ProfileDone(t) PROVE TypeOK'
  <2>1. issued' = issued /\ issued[t.header] \in Accounts
    BY <1>5, ElementOfSeq DEF ProfileDone, Accepted, Fresh, Tokens, TypeOK
  <2>2. \A v \in tasks' : Formed(v)'
    BY <1>5, <1>U, <2>1, NextCallTypes DEF ProfileDone
  <2> QED
    BY <1>5, <1>U, <2>1, <2>2 DEF ProfileDone, TypeOK
<1>6. ASSUME NEW t \in tasks, TenantsDone(t) PROVE TypeOK'
  <2>1. issued' = issued /\ t.profile \in Accounts
    BY <1>6, TaskIsFormed DEF TenantsDone, Formed
  <2>2. \A v \in tasks' : Formed(v)'
    BY <1>6, <1>U, <2>1, NextCallTypes DEF TenantsDone
  <2> QED
    BY <1>6, <1>U, <2>1, <2>2 DEF TenantsDone, TypeOK, MaybeAccount
<1>7. ASSUME NEW t \in tasks, LanguageDone(t) PROVE TypeOK'
  <2>1. issued' = issued /\ t.profile \in Accounts /\ t.token \in MaybeToken
    BY <1>7, TaskIsFormed DEF LanguageDone, Formed
  <2>2. \A v \in tasks' : Formed(v)'
    BY <1>7, <1>U, <2>1, RemoveTypes DEF LanguageDone
  <2> QED
    BY <1>7, <1>U, <2>1, <2>2 DEF LanguageDone, TypeOK
<1>8. ASSUME NEW t \in tasks, PageDone(t) PROVE TypeOK'
  <2>1. \A v \in tasks' : Formed(v)'
    BY <1>8, <1>U, RemoveTypes DEF PageDone
  <2> QED
    BY <1>8, <1>U, <2>1 DEF PageDone, TypeOK
<1>9. ASSUME NEW t \in tasks, Unauthorized(t) PROVE TypeOK'
  <2>1. issued' = issued /\ t \in TaskType /\ t.header \in MaybeToken' /\ t.call # "lookup"
    BY <1>9, <1>U, TaskIsFormed DEF Unauthorized, Accepted
  <2>2. PICK u : /\ Replace(t, u)
                 /\ \/ u = [t EXCEPT !.state = "refused"] \/ u = [t EXCEPT !.state = "queued"]
                    \/ u = [t EXCEPT !.state = "refreshing", !.retry = TRUE]
    BY <1>9 DEF Unauthorized
  <2>3. Like(u, t) /\ u.header = t.header
    BY <2>1, <2>2 DEF Like, TaskType, States
  <2>4. Formed(u)'
    BY <1>U, <2>1, <2>3, TaskIsFormed, LikeFormed
  <2>5. \A v \in tasks' : Formed(v)'
    BY <1>U, <2>1, <2>2, <2>4, ReplaceTypes
  <2> QED
    BY <1>9, <1>U, <2>1, <2>5 DEF Unauthorized, TypeOK
<1>10. ASSUME NEW t \in tasks, Lost(t) PROVE TypeOK'
  <2>1. issued' = issued /\ t \in TaskType /\ t.header \in MaybeToken'
    BY <1>10, <1>U, TaskIsFormed DEF Lost
  <2>2. PICK u : u = [t EXCEPT !.state = "failed"]
    OBVIOUS
  <2>3. Like(u, t) /\ u.header = t.header /\ u.state = "failed"
    BY <2>1, <2>2 DEF Like, TaskType, States
  <2>4. Formed(u)'
    BY <1>U, <2>1, <2>3, TaskIsFormed, LikeFormed
  <2>5. \A v \in tasks' : Formed(v)'
    BY <1>10, <1>U, <2>1, <2>2, <2>4, ReplaceTypes DEF Lost
  <2>6. failures' \in 0..MaxFailures
    BY <1>10, SessionAssumption DEF Lost, MayFail, TypeOK
  <2> QED
    BY <1>10, <1>U, <2>1, <2>5, <2>6 DEF Lost, TypeOK
<1>11. ASSUME NEW t \in tasks, Refreshed(t) PROVE TypeOK'
  <2>1. cookie \in Accounts /\ issued' = Append(issued, cookie) /\ stored' = Len(issued')
    BY <1>11 DEF Refreshed, TypeOK, MaybeAccount
  <2>2. /\ issued' \in Seq(Accounts) /\ More /\ Tokens \subseteq Tokens'
        /\ stored' \in MaybeToken' /\ stored' \in Nat
    BY <2>1, IssueMore, LenProperties DEF MaybeToken
  <2>3. ASSUME NEW v \in tasks', v \notin tasks \ Waiting
        PROVE  \E w \in Waiting : Like(v, w) /\ v.header \in MaybeToken'
    <3>1. PICK w \in Waiting : v = [w EXCEPT !.state = "sent", !.header = stored']
      BY <1>11, <2>3 DEF Refreshed
    <3>2. w \in TaskType
      BY <3>1, TaskIsFormed DEF Waiting
    <3>3. Like(v, w) /\ v.header = stored'
      BY <2>2, <3>1, <3>2 DEF Like, TaskType, States
    <3> QED
      BY <2>2, <3>3
  <2>4. \A v \in tasks' : Formed(v)'
    BY <2>2, <2>3, WakeTypes
  <2>5. sessions' \in [Accounts -> MaybeToken'] /\ astray' \subseteq Mishaps
    BY <1>11, <2>2 DEF Refreshed, LateRefresh, OtherCookie, Mishaps, TypeOK, More
  <2> QED
    BY <1>11, <2>2, <2>4, <2>5 DEF Refreshed, TypeOK
<1>12. ASSUME NEW t \in tasks, RefreshFailed(t) PROVE TypeOK'
  <2>1. issued' = issued
    BY <1>12 DEF RefreshFailed
  <2>2. ASSUME NEW v \in tasks', v \notin tasks \ Waiting
        PROVE  \E w \in Waiting : Like(v, w) /\ v.header \in MaybeToken'
    <3>1. PICK w \in Waiting : \/ v = [w EXCEPT !.state = "refused"]
                               \/ v = [w EXCEPT !.state = "failed"]
      BY <1>12, <2>2 DEF RefreshFailed
    <3>2. w \in TaskType /\ w.header \in MaybeToken'
      BY <1>U, <2>1, <3>1, TaskIsFormed DEF Waiting
    <3>3. Like(v, w) /\ v.header = w.header
      BY <3>1, <3>2 DEF Like, TaskType, States
    <3> QED
      BY <3>2, <3>3
  <2>3. \A v \in tasks' : Formed(v)'
    BY <1>U, <2>1, <2>2, WakeTypes
  <2>4. failures' \in 0..MaxFailures /\ astray' \subseteq Mishaps
    BY <1>12, SessionAssumption DEF RefreshFailed, MayFail, LateRefresh, Mishaps, TypeOK
  <2> QED
    BY <1>0, <1>12, <1>U, <2>1, <2>3, <2>4 DEF RefreshFailed, TypeOK
<1>13. ASSUME NEW t \in tasks, GivesUp(t) PROVE TypeOK'
  <2>1. issued' = issued /\ t.prev \in MaybeToken
    BY <1>13, TaskIsFormed DEF GivesUp
  <2>2. \A v \in tasks' : Formed(v)'
    BY <1>13, <1>U, <2>1, RemoveTypes DEF GivesUp
  <2>3. stored' \in MaybeToken /\ user' \in MaybeAccount
    BY <1>0, <1>13, <2>1 DEF GivesUp, TypeOK, MaybeAccount
  <2>4. sessions' \in [Accounts -> MaybeToken]
    BY <1>0, <1>13 DEF GivesUp, Forget, TypeOK
  <2>5. astray' \subseteq Mishaps
    BY <1>13 DEF GivesUp, LateHint, Mishaps, TypeOK
  <2> QED
    BY <1>13, <1>U, <2>1, <2>2, <2>3, <2>4, <2>5 DEF GivesUp, TypeOK
<1>14. CASE PageCall
  <2>1. issued' = issued /\ Start(Task("page", "page", NoAccount, 0, stored))
    BY <1>14 DEF PageCall
  <2>2. started' \in 0..MaxTasks /\ \A t \in tasks' : Formed(t)'
    BY <1>0, <1>U, <2>1, StartTypes DEF TypeOK, Kinds, Calls, MaybeAccount
  <2> QED
    BY <1>14, <1>U, <2>2 DEF PageCall, TypeOK
<1>15. CASE OpenSwitcher
  <2>1. issued' = issued /\ tasks' = tasks /\ sessions' \in [Accounts -> MaybeToken]
    BY <1>0, <1>15 DEF OpenSwitcher, Pruned, Fresh, TypeOK
  <2> QED
    BY <1>15, <1>U, <2>1, StillFormed DEF OpenSwitcher, TypeOK
<1>16. CASE GoToLogin
  BY <1>U, <1>16 DEF GoToLogin, TypeOK, Formed
<1>17. CASE Logout
  <2>1. issued' = issued /\ tasks' = tasks /\ sessions' \in [Accounts -> MaybeToken]
    BY <1>0, <1>17 DEF Logout, Forget, TypeOK
  <2> QED
    BY <1>0, <1>17, <1>U, <2>1, StillFormed DEF Logout, TypeOK, MaybeAccount
<1>18. ASSUME NEW a \in Accounts, SwitchAccount(a) PROVE TypeOK'
  <2>1. issued' = issued /\ Start(Task("switch", "profile", a, sessions[a], sessions[a]))
    BY <1>18 DEF SwitchAccount
  <2>2. started' \in 0..MaxTasks /\ \A t \in tasks' : Formed(t)'
    BY <1>0, <1>U, <2>1, StartTypes DEF TypeOK, Kinds, Calls, MaybeAccount
  <2> QED
    BY <1>0, <1>18, <1>U, <2>2 DEF SwitchAccount, TypeOK
<1>19. ASSUME NEW a \in Accounts, SwitchTenantIdentity(a) PROVE TypeOK'
  <2>1. issued' = issued /\ Start(Task("identity", "switch", a, 0, stored))
    BY <1>19 DEF SwitchTenantIdentity
  <2>2. started' \in 0..MaxTasks /\ \A t \in tasks' : Formed(t)'
    BY <1>0, <1>U, <2>1, StartTypes DEF TypeOK, Kinds, Calls, MaybeAccount
  <2> QED
    BY <1>0, <1>19, <1>U, <2>2 DEF SwitchTenantIdentity, TypeOK
<1>20. ASSUME NEW a \in Accounts, TenantHint(a) PROVE TypeOK'
  <2>1. issued' = issued /\ Start(Task("hint", "lookup", a, 0, stored))
    BY <1>20 DEF TenantHint
  <2>2. started' \in 0..MaxTasks /\ \A t \in tasks' : Formed(t)'
    BY <1>0, <1>U, <2>1, StartTypes DEF TypeOK, Kinds, Calls, MaybeAccount
  <2> QED
    BY <1>0, <1>20, <1>U, <2>2 DEF TenantHint, TypeOK
<1>21. ASSUME NEW a \in Accounts, Login(a) PROVE TypeOK'
  <2>1. /\ issued' = Append(issued, a) /\ stored' = Len(issued')
        /\ Start(Task("login", "profile", a, Len(issued'), Len(issued')))
    BY <1>21 DEF Login
  <2>2. /\ issued' \in Seq(Accounts) /\ More /\ Tokens \subseteq Tokens'
        /\ stored' \in MaybeToken'
    BY <2>1, IssueMore DEF MaybeToken
  <2>3. started' \in 0..MaxTasks /\ \A t \in tasks' : Formed(t)'
    BY <2>1, <2>2, StartTypes DEF Kinds, Calls, MaybeAccount
  <2> QED
    BY <1>21, <2>2, <2>3 DEF Login, TypeOK, MaybeAccount, More
<1>22. ASSUME NEW a \in Accounts, SignOut(a) PROVE TypeOK'
  <2>1. issued' = issued /\ tasks' = tasks /\ sessions' \in [Accounts -> MaybeToken]
    BY <1>0, <1>22 DEF SignOut, Forget, TypeOK
  <2> QED
    BY <1>22, <1>U, <2>1, StillFormed DEF SignOut, TypeOK
<1>23. ASSUME NEW t \in Tokens, Expire(t) PROVE TypeOK'
  BY <1>23, <1>U, StillFormed DEF Expire, Fresh, TypeOK
<1>24. CASE CookieExpires
  BY <1>24, <1>U, StillFormed DEF CookieExpires, TypeOK, MaybeAccount
<1>25. CASE UNCHANGED vars
  BY <1>25, <1>U, StillFormed DEF vars, TypeOK
<1> QED
  BY <1>1, <1>2, <1>3, <1>4, <1>5, <1>6, <1>7, <1>8, <1>9, <1>10, <1>11, <1>12, <1>13, <1>14,
     <1>15, <1>16, <1>17, <1>18, <1>19, <1>20, <1>21, <1>22, <1>23, <1>24, <1>25
  DEF Next, Answer

-----------------------------------------------------------------------------
(* The rest of the invariant, action by action.                            *)

Rest == /\ SpinnerHasCause /\ OneIdentity /\ TokenInv
        /\ AccountInv /\ SessionsHoldTheirTokens /\ ShownInv

Scene == <<issued, stored, user, loading, path, leaving, signedOut, astray>>

LEMMA MoreMishaps ==
  ASSUME astray \subseteq astray'
  PROVE  /\ Unhurried' => Unhurried /\ "lateHint" \notin astray'
         /\ Undisturbed' => Undisturbed /\ Unhurried'
         /\ "lateHint" \notin astray' => "lateHint" \notin astray
         /\ astray' = {} => astray = {} /\ Undisturbed'
  BY DEF Unhurried, Undisturbed

(* Nothing but a token expires, or a session is dropped.                   *)
LEMMA QuietStep ==
  ASSUME SessionInv, UNCHANGED Scene, tasks' = tasks,
         \A a \in Accounts : sessions'[a] \in {0, sessions[a]}
  PROVE  Rest'
<1> USE DEF Scene, SessionInv
<1>1. SpinnerHasCause'
  BY DEF SpinnerHasCause, Loads
<1>2. OneIdentity'
  BY DEF OneIdentity, Identity, Loads
<1>3. TokenInv'
  BY DEF TokenInv, Identity, Loads, Unhurried
<1>4. AccountInv'
  BY DEF AccountInv, Identity, Loads, Undisturbed, Unhurried
<1>5. SessionsHoldTheirTokens'
  BY DEF SessionsHoldTheirTokens, Undisturbed, Unhurried
<1>6. ShownInv'
  BY DEF ShownInv, Identity, Loads
<1> QED
  BY <1>1, <1>2, <1>3, <1>4, <1>5, <1>6 DEF Rest

(* A task waits or is told that its call is lost.                          *)
LEMMA LikeStep ==
  ASSUME SessionInv, UNCHANGED Scene, sessions' = sessions,
         NEW t \in tasks, NEW u, Like(u, t), u.header = t.header,
         tasks' = (tasks \ {t}) \cup {u}, u.state = "refreshing" => path = "app"
  PROVE  Rest'
<1> USE DEF Scene, SessionInv, Like
<1>1. SpinnerHasCause'
  BY DEF SpinnerHasCause, Loads
<1>2. OneIdentity'
  BY DEF OneIdentity, Identity, Loads
<1>3. TokenInv'
  BY DEF TokenInv, Identity, Loads, Unhurried
<1>4. AccountInv'
  BY DEF AccountInv, Identity, Loads, Undisturbed, Unhurried
<1>5. SessionsHoldTheirTokens'
  BY DEF SessionsHoldTheirTokens, Undisturbed, Unhurried
<1>6. ShownInv'
  BY DEF ShownInv, Identity, Loads
<1> QED
  BY <1>1, <1>2, <1>3, <1>4, <1>5, <1>6 DEF Rest

(* A page's call is over.                                                  *)
LEMMA PageDoneStep ==
  ASSUME SessionInv, NEW t \in tasks, PageDone(t)
  PROVE  Rest'
<1> USE DEF SessionInv
<1>0. ~Loads(t) /\ tasks' = tasks \ {t} /\ UNCHANGED Scene /\ sessions' = sessions
  BY TaskIsFormed DEF PageDone, Formed, Scene, Loads
<1> USE DEF Scene
<1>1. SpinnerHasCause'
  BY <1>0 DEF SpinnerHasCause, Loads
<1>2. OneIdentity'
  BY <1>0 DEF OneIdentity, Identity, Loads
<1>3. TokenInv'
  BY <1>0 DEF TokenInv, Identity, Loads, Unhurried
<1>4. AccountInv'
  BY <1>0 DEF AccountInv, Identity, Loads, Undisturbed, Unhurried
<1>5. SessionsHoldTheirTokens'
  BY <1>0 DEF SessionsHoldTheirTokens, Undisturbed, Unhurried
<1>6. ShownInv'
  BY <1>0 DEF ShownInv, Identity, Loads
<1> QED
  BY <1>1, <1>2, <1>3, <1>4, <1>5, <1>6 DEF Rest

(* A task of the user's begins.                                            *)
LEMMA StartShape ==
  ASSUME TypeOK, NEW kind \in Kinds, NEW call \in Calls, NEW key \in MaybeAccount,
         NEW token \in Nat, NEW header \in Nat, Start(Task(kind, call, key, token, header))
  PROVE  \E u : /\ tasks' = tasks \cup {u}
               /\ u.kind = kind /\ u.call = call /\ u.key = key /\ u.token = token
               /\ u.prev = stored /\ u.header = header /\ u.state = "sent"
               /\ u.profile = NoAccount
<1> PICK u : u = Task(kind, call, key, token, header)
  OBVIOUS
<1>1. started \in Nat /\ stored \in Nat
  BY TokenNat DEF TypeOK
<1>2. /\ u.kind = kind /\ u.call = call /\ u.key = key /\ u.token = token
      /\ u.prev = stored /\ u.header = header /\ u.state = "sent" /\ u.profile = NoAccount
  BY <1>1, TaskFields
<1> QED
  BY <1>2 DEF Start

LEMMA PageCallStep ==
  ASSUME SessionInv, PageCall
  PROVE  Rest'
<1> USE DEF SessionInv
<1>0. PICK u : /\ tasks' = tasks \cup {u} /\ u.kind = "page" /\ u.call = "page"
               /\ u.header = stored /\ u.state = "sent"
  <2>1. /\ Start(Task("page", "page", NoAccount, 0, stored))
        /\ 0 \in Nat /\ stored \in Nat /\ TypeOK
    BY TokenNat DEF PageCall, TypeOK
  <2> QED
    BY <2>1, StartShape DEF Kinds, Calls, MaybeAccount
<1>a. AtHome /\ UNCHANGED Scene /\ sessions' = sessions
  BY DEF PageCall, Scene
<1>b. Unhurried' = Unhurried /\ Undisturbed' = Undisturbed
  BY <1>a DEF Scene, Unhurried, Undisturbed
<1> USE DEF Scene, AtHome
<1>1. SpinnerHasCause'
  BY <1>0, <1>a, <1>b DEF SpinnerHasCause, Loads
<1>2. OneIdentity'
  BY <1>0, <1>a, <1>b DEF OneIdentity, Identity, Loads
<1>3. TokenInv'
  BY <1>0, <1>a, <1>b DEF TokenInv, OneIdentity, Identity, Loads
<1>4. AccountInv'
  BY <1>0, <1>a, <1>b DEF AccountInv, Identity, Loads
<1>5. SessionsHoldTheirTokens'
  BY <1>0, <1>a, <1>b DEF SessionsHoldTheirTokens
<1>6. ShownInv'
  BY <1>0, <1>a, <1>b DEF ShownInv, Identity, Loads
<1> QED
  BY <1>1, <1>2, <1>3, <1>4, <1>5, <1>6 DEF Rest

LEMMA TenantHintStep ==
  ASSUME SessionInv, NEW a \in Accounts, TenantHint(a)
  PROVE  Rest'
<1> USE DEF SessionInv
<1>0. PICK u : /\ tasks' = tasks \cup {u} /\ u.kind = "hint" /\ u.call = "lookup"
               /\ u.state = "sent"
  BY TokenNat, StartShape DEF TenantHint, TypeOK, Kinds, Calls, MaybeAccount
<1>a. AtHome /\ UNCHANGED Scene /\ sessions' = sessions
  BY DEF TenantHint, Scene
<1>b. Unhurried' = Unhurried /\ Undisturbed' = Undisturbed
  BY <1>a DEF Scene, Unhurried, Undisturbed
<1> USE DEF Scene, AtHome
<1>1. SpinnerHasCause'
  BY <1>0, <1>a, <1>b DEF SpinnerHasCause, Loads
<1>2. OneIdentity'
  BY <1>0, <1>a, <1>b DEF OneIdentity, Identity, Loads
<1>3. TokenInv'
  BY <1>0, <1>a, <1>b DEF TokenInv, OneIdentity, Identity, Loads
<1>4. AccountInv'
  BY <1>0, <1>a, <1>b DEF AccountInv, Identity, Loads
<1>5. SessionsHoldTheirTokens'
  BY <1>0, <1>a, <1>b DEF SessionsHoldTheirTokens
<1>6. ShownInv'
  BY <1>0, <1>a, <1>b DEF ShownInv, Identity, Loads
<1> QED
  BY <1>1, <1>2, <1>3, <1>4, <1>5, <1>6 DEF Rest

LEMMA SwitchAccountStep ==
  ASSUME SessionInv, NEW a \in Accounts, SwitchAccount(a)
  PROVE  Rest'
<1> USE DEF SessionInv
<1>0. PICK u : /\ tasks' = tasks \cup {u} /\ u.kind = "switch" /\ u.call = "profile"
               /\ u.token = sessions[a] /\ u.header = sessions[a] /\ u.prev = stored
               /\ u.state = "sent"
  <2>1. /\ Start(Task("switch", "profile", a, sessions[a], sessions[a]))
        /\ sessions[a] \in Nat /\ stored \in Nat /\ TypeOK
    BY TokenNat DEF SwitchAccount, TypeOK
  <2> QED
    BY <2>1, StartShape DEF Kinds, Calls, MaybeAccount
<1>a. /\ AtHome /\ stored' = sessions[a] /\ sessions[a] # 0 /\ loading'
      /\ UNCHANGED <<issued, sessions, user, path, leaving, signedOut, astray>>
  BY DEF SwitchAccount
<1>b. Unhurried' = Unhurried /\ Undisturbed' = Undisturbed
  BY <1>a DEF Unhurried, Undisturbed
<1>c. astray = {} => Unhurried /\ Undisturbed
  BY DEF Unhurried, Undisturbed
<1> USE DEF AtHome
<1>1. SpinnerHasCause'
  BY <1>0, <1>a, <1>b DEF SpinnerHasCause, Loads
<1>2. OneIdentity'
  BY <1>0, <1>a, <1>b DEF OneIdentity, Identity, Loads
<1>3. TokenInv'
  BY <1>0, <1>a, <1>b DEF TokenInv, OneIdentity, Unhurried, Identity, Loads
<1>4. AccountInv'
  BY <1>0, <1>a, <1>b DEF AccountInv, OneIdentity, Undisturbed, Unhurried, Identity, Loads
<1>5. SessionsHoldTheirTokens'
  BY <1>0, <1>a, <1>b DEF SessionsHoldTheirTokens
<1>6. ShownInv'
  BY <1>0, <1>a, <1>b, <1>c DEF ShownInv, OneIdentity, Unhurried, Identity, Loads
<1> QED
  BY <1>1, <1>2, <1>3, <1>4, <1>5, <1>6 DEF Rest

LEMMA SwitchTenantIdentityStep ==
  ASSUME SessionInv, NEW a \in Accounts, SwitchTenantIdentity(a)
  PROVE  Rest'
<1> USE DEF SessionInv
<1>0. PICK u : /\ tasks' = tasks \cup {u} /\ u.kind = "identity" /\ u.call = "switch"
               /\ u.prev = stored /\ u.state = "sent"
  BY TokenNat, StartShape DEF SwitchTenantIdentity, TypeOK, Kinds, Calls, MaybeAccount
<1>a. /\ AtHome /\ loading'
      /\ UNCHANGED <<issued, stored, sessions, user, path, leaving, signedOut, astray>>
  BY DEF SwitchTenantIdentity
<1>b. Unhurried' = Unhurried /\ Undisturbed' = Undisturbed
  BY <1>a DEF Unhurried, Undisturbed
<1>c. astray = {} => Unhurried /\ Undisturbed
  BY DEF Unhurried, Undisturbed
<1> USE DEF AtHome
<1>1. SpinnerHasCause'
  BY <1>0, <1>a, <1>b DEF SpinnerHasCause, Loads
<1>2. OneIdentity'
  BY <1>0, <1>a, <1>b DEF OneIdentity, Identity, Loads
<1>3. TokenInv'
  BY <1>0, <1>a, <1>b DEF TokenInv, OneIdentity, Unhurried, Identity, Loads
<1>4. AccountInv'
  BY <1>0, <1>a, <1>b DEF AccountInv, Identity, Loads
<1>5. SessionsHoldTheirTokens'
  BY <1>0, <1>a, <1>b DEF SessionsHoldTheirTokens
<1>6. ShownInv'
  BY <1>0, <1>a, <1>b, <1>c DEF ShownInv, OneIdentity, Unhurried, Identity, Loads
<1> QED
  BY <1>1, <1>2, <1>3, <1>4, <1>5, <1>6 DEF Rest

LEMMA LoginStep ==
  ASSUME SessionInv, NEW a \in Accounts, Login(a)
  PROVE  Rest'
<1> USE DEF SessionInv
<1>1. /\ issued' = Append(issued, a) /\ stored' = Len(issued')
      /\ Start(Task("login", "profile", a, Len(issued'), Len(issued')))
  BY DEF Login
<1>2. /\ Tokens \subseteq Tokens' /\ stored' \in Tokens' /\ stored' \notin MaybeToken
      /\ issued'[stored'] = a /\ \A i \in Tokens : issued'[i] = issued[i]
      /\ stored' \in Nat \ {0}
  BY <1>1, IssueMore, LenProperties, TokenNat DEF Tokens
<1>3. PICK u : /\ tasks' = tasks \cup {u} /\ u.kind = "login" /\ u.call = "profile"
               /\ u.token = stored' /\ u.header = stored' /\ u.state = "sent"
  BY <1>1, <1>2, StartShape DEF Kinds, Calls, MaybeAccount
<1>4. /\ path # "app" /\ ~loading /\ ~leaving /\ loading' /\ ~signedOut'
      /\ UNCHANGED <<sessions, user, path, leaving, astray>>
  BY DEF Login
<1>5. Unhurried' = Unhurried /\ Undisturbed' = Undisturbed
  BY <1>4 DEF Unhurried, Undisturbed
<1>6. \A t \in tasks : t.header # stored'
  BY <1>2, TaskIsFormed
<1>7. \A b \in Accounts : sessions[b] # 0 => sessions[b] \in Tokens
  BY TokenNat DEF TypeOK
<1>8. "lateHint" \notin astray => \A t \in tasks : ~Identity(t)
  BY <1>4 DEF OneIdentity
<1>11. SpinnerHasCause'
  BY <1>3 DEF SpinnerHasCause, Loads
<1>12. OneIdentity'
  BY <1>3, <1>4, <1>8 DEF OneIdentity, Identity, Loads
<1>13. TokenInv'
  BY <1>2, <1>3, <1>4, <1>5, <1>6 DEF TokenInv, Identity, Loads
<1>14. AccountInv'
  BY <1>2, <1>3, <1>4, <1>5, <1>8 DEF AccountInv, Identity, Loads, Undisturbed, Unhurried
<1>15. SessionsHoldTheirTokens'
  BY <1>2, <1>4, <1>5, <1>7 DEF SessionsHoldTheirTokens
<1>16. ShownInv'
  BY <1>3, <1>4, <1>8 DEF ShownInv, Identity, Loads
<1> QED
  BY <1>11, <1>12, <1>13, <1>14, <1>15, <1>16 DEF Rest

(* While nothing is being loaded there is no task that does.               *)
LEMMA NothingLoads ==
  ASSUME SessionInv, ~loading, "lateHint" \notin astray
  PROVE  \A t \in tasks : ~Identity(t)
  BY DEF SessionInv, OneIdentity

LEMMA GoToLoginStep ==
  ASSUME SessionInv, GoToLogin
  PROVE  Rest'
<1> USE DEF SessionInv, AtHome
<1>0. /\ AtHome /\ path' = "tenantLogin" /\ tasks' = tasks
      /\ UNCHANGED <<issued, stored, sessions, user, loading, leaving, signedOut, astray>>
  BY DEF GoToLogin
<1>1. Unhurried' = Unhurried /\ Undisturbed' = Undisturbed
  BY <1>0 DEF Unhurried, Undisturbed
<1>2. "lateHint" \notin astray => \A t \in tasks : ~Identity(t)
  BY <1>0, NothingLoads
<1>3. SpinnerHasCause'
  BY <1>0 DEF SpinnerHasCause, Loads
<1>4. OneIdentity'
  BY <1>0, <1>2 DEF OneIdentity, Identity, Loads
<1>5. TokenInv'
  BY <1>0, <1>1 DEF TokenInv, Identity, Loads
<1>6. AccountInv'
  BY <1>0, <1>1 DEF AccountInv, Identity, Loads
<1>7. SessionsHoldTheirTokens'
  BY <1>0, <1>1 DEF SessionsHoldTheirTokens
<1>8. ShownInv'
  BY <1>0 DEF ShownInv, Identity, Loads
<1> QED
  BY <1>3, <1>4, <1>5, <1>6, <1>7, <1>8 DEF Rest

LEMMA LogoutStep ==
  ASSUME SessionInv, Logout
  PROVE  Rest'
<1> USE DEF SessionInv, AtHome
<1>0. /\ AtHome /\ path' = "login" /\ tasks' = tasks /\ stored' = 0 /\ user' = NoAccount
      /\ UNCHANGED <<issued, loading, leaving, astray>>
  BY DEF Logout
<1>1. Unhurried' = Unhurried /\ Undisturbed' = Undisturbed
  BY <1>0 DEF Unhurried, Undisturbed
<1>2. "lateHint" \notin astray => \A t \in tasks : ~Identity(t)
  BY <1>0, NothingLoads
<1>3. SpinnerHasCause'
  BY <1>0 DEF SpinnerHasCause, Loads
<1>4. OneIdentity'
  BY <1>0, <1>2 DEF OneIdentity, Identity, Loads
<1>5. TokenInv'
  <2>1. ASSUME Unhurried, NEW r \in tasks, r.state = "refreshing" PROVE r.header # 0
    <3>1. r.call = "page"
      BY <1>2, <2>1, TaskIsFormed DEF Unhurried, Identity, Loads, Formed
    <3> QED
      BY <2>1, <3>1 DEF TokenInv
  <2> QED
    BY <1>0, <1>1, <1>2, <2>1 DEF TokenInv, Identity, Loads, Unhurried
<1>6. AccountInv'
  BY <1>0, <1>1 DEF AccountInv, Identity, Loads
<1>7. SessionsHoldTheirTokens'
  BY <1>0, <1>1 DEF SessionsHoldTheirTokens, Logout, Forget, TypeOK
<1>8. ShownInv'
  BY <1>0, <1>2 DEF ShownInv, Identity, Loads
<1> QED
  BY <1>3, <1>4, <1>5, <1>6, <1>7, <1>8 DEF Rest

LEMMA RouteStep ==
  ASSUME SessionInv, Route
  PROVE  Rest'
<1> USE DEF SessionInv
<1>0. /\ ~loading /\ ~leaving /\ tasks' = tasks
      /\ \/ path = "app" /\ user = NoAccount /\ path' = "login"
         \/ path = "login" /\ user # NoAccount /\ path' = "app"
      /\ UNCHANGED <<issued, stored, sessions, user, loading, leaving, signedOut, astray>>
  BY DEF Route
<1>1. Unhurried' = Unhurried /\ Undisturbed' = Undisturbed
  BY <1>0 DEF Unhurried, Undisturbed
<1>2. "lateHint" \notin astray => \A t \in tasks : ~Identity(t)
  BY <1>0, NothingLoads
<1>3. "lateHint" \notin astray /\ path = "app" => tasks = {}
  BY <1>0, <1>2, TaskIsFormed DEF OneIdentity, Identity, Loads, Formed
<1>4. SpinnerHasCause'
  BY <1>0 DEF SpinnerHasCause, Loads
<1>5. OneIdentity'
  BY <1>0, <1>2 DEF OneIdentity, Identity, Loads
<1>6. TokenInv'
  BY <1>0, <1>1, <1>3 DEF TokenInv, Identity, Loads, Unhurried
<1>7. AccountInv'
  BY <1>0, <1>1 DEF AccountInv, Identity, Loads
<1>8. SessionsHoldTheirTokens'
  BY <1>0, <1>1 DEF SessionsHoldTheirTokens
<1>9. ShownInv'
  BY <1>0 DEF ShownInv, Identity, Loads
<1> QED
  BY <1>4, <1>5, <1>6, <1>7, <1>8, <1>9 DEF Rest

LEMMA ReloadStep ==
  ASSUME SessionInv, Reload
  PROVE  Rest'
<1> USE DEF SessionInv
<1>0. /\ ~leaving' /\ user' = NoAccount /\ loading' = (stored # 0)
      /\ UNCHANGED <<issued, stored, sessions, signedOut, astray>>
      /\ ~leaving => path' \in {path, "login"}
      /\ stored = 0 => path' = "login" /\ tasks' = {}
  BY DEF Reload, Mount
<1>1. Unhurried' = Unhurried /\ Undisturbed' = Undisturbed
  BY <1>0 DEF Unhurried, Undisturbed
<1>2. ASSUME stored # 0
      PROVE  \E u : /\ tasks' = {u} /\ u.kind = "check" /\ u.call = "profile"
                   /\ u.token = stored /\ u.header = stored /\ u.state = "sent"
  <2>1. PICK u : u = Task("check", "profile", NoAccount, stored, stored)
    OBVIOUS
  <2>2. stored \in Nat /\ started \in Nat
    BY TokenNat DEF TypeOK
  <2>3. /\ u.kind = "check" /\ u.call = "profile"
        /\ u.token = stored /\ u.header = stored /\ u.state = "sent"
    BY <2>1, <2>2, TaskFields DEF Kinds, Calls, MaybeAccount
  <2> QED
    BY <1>2, <2>1, <2>3 DEF Reload, Mount
<1>3. SpinnerHasCause'
  BY <1>0, <1>2 DEF SpinnerHasCause, Loads
<1>4. OneIdentity'
  BY <1>0, <1>2 DEF OneIdentity, Identity, Loads
<1>5. TokenInv'
  BY <1>0, <1>1, <1>2 DEF TokenInv, Identity, Loads
<1>6. AccountInv'
  BY <1>0, <1>2 DEF AccountInv, Identity, Loads
<1>7. SessionsHoldTheirTokens'
  BY <1>0, <1>1 DEF SessionsHoldTheirTokens
<1>8. ShownInv'
  BY <1>0, <1>2 DEF ShownInv, Identity, Loads
<1> QED
  BY <1>3, <1>4, <1>5, <1>6, <1>7, <1>8 DEF Rest

(* loadIdentity's calls.                                                   *)
LEMMA LoadShape ==
  ASSUME TypeOK, NEW t \in tasks, NEW token \in Nat, LoadIdentity(t, token)
  PROVE  /\ stored' = token
         /\ \E u : /\ tasks' = (tasks \ {t}) \cup {u}
                  /\ u.kind = t.kind /\ u.call = "profile" /\ u.token = token
                  /\ u.prev = t.prev /\ u.header = token /\ u.state = "sent"
<1> PICK u : u = [Goes(t, "profile", token) EXCEPT !.token = token]
  OBVIOUS
<1>1. /\ u.kind = t.kind /\ u.call = "profile" /\ u.token = token
      /\ u.prev = t.prev /\ u.header = token /\ u.state = "sent"
  <2>1. t \in TaskType
    BY TaskIsFormed
  <2> QED
    BY <2>1 DEF Goes, TaskType
<1> QED
  BY <1>1 DEF LoadIdentity, Replace

LEMMA IdentityDoneStep ==
  ASSUME SessionInv, NEW t \in tasks, IdentityDone(t)
  PROVE  Rest'
<1> USE DEF SessionInv
<1>1. /\ t.call = "switch" /\ t.kind = "identity" /\ t.key \in Accounts
      /\ issued' = Append(issued, t.key) /\ LoadIdentity(t, Len(issued'))
      /\ t.prev \in MaybeToken
  BY TaskIsFormed DEF IdentityDone, Formed
<1>2. /\ Tokens \subseteq Tokens' /\ Len(issued') \notin MaybeToken
      /\ issued'[Len(issued')] = t.key /\ \A i \in Tokens : issued'[i] = issued[i]
      /\ Len(issued') \in Nat \ {0}
  BY <1>1, IssueMore, LenProperties, TokenNat DEF Tokens
<1>3. PICK u : /\ tasks' = (tasks \ {t}) \cup {u}
               /\ u.kind = t.kind /\ u.call = "profile" /\ u.token = stored'
               /\ u.prev = t.prev /\ u.header = stored' /\ u.state = "sent"
  BY <1>1, <1>2, LoadShape
<1>4. /\ stored' = Len(issued')
      /\ UNCHANGED <<sessions, user, loading, path, leaving, signedOut, astray>>
  BY <1>1, <1>2, LoadShape DEF IdentityDone
<1>5. Unhurried' = Unhurried /\ Undisturbed' = Undisturbed
  BY <1>4 DEF Unhurried, Undisturbed
<1>6. \A b \in Accounts : sessions[b] # 0 => sessions[b] \in Tokens
  BY TokenNat DEF TypeOK
<1>7. "lateHint" \notin astray => \A v \in tasks : Identity(v) => v = t
  BY <1>1 DEF OneIdentity, Identity, Loads
<1>8. Unhurried => t.prev \in Tokens
  BY <1>1, TokenNat DEF TokenInv
<1>11. SpinnerHasCause'
  BY <1>1, <1>3 DEF SpinnerHasCause, Loads
<1>12. OneIdentity'
  BY <1>1, <1>3, <1>4 DEF OneIdentity, Identity, Loads
<1>13. TokenInv'
  BY <1>1, <1>2, <1>3, <1>4, <1>5 DEF TokenInv, OneIdentity, Unhurried, Identity, Loads
<1>14. AccountInv'
  BY <1>2, <1>3, <1>4, <1>5, <1>7 DEF AccountInv, Identity, Loads, Undisturbed, Unhurried
<1>15. SessionsHoldTheirTokens'
  BY <1>2, <1>4, <1>5, <1>6 DEF SessionsHoldTheirTokens
<1>16. ShownInv'
  BY <1>1, <1>2, <1>3, <1>4, <1>7, <1>8 DEF ShownInv, Identity, Loads, Unhurried
<1> QED
  BY <1>11, <1>12, <1>13, <1>14, <1>15, <1>16 DEF Rest

LEMMA ProfileDoneStep ==
  ASSUME SessionInv, NEW t \in tasks, ProfileDone(t)
  PROVE  Rest'
<1> USE DEF SessionInv
<1>1. /\ t.call = "profile" /\ t \in TaskType /\ Identity(t)
      /\ Replace(t, [Goes(t, "tenants", stored) EXCEPT !.profile = issued[t.header]])
      /\ UNCHANGED Scene /\ sessions' = sessions
  BY TaskIsFormed DEF ProfileDone, Scene, Formed, Identity, Loads
<1>2. PICK u : u = [Goes(t, "tenants", stored) EXCEPT !.profile = issued[t.header]]
  OBVIOUS
<1>3. /\ u.kind = t.kind /\ u.call = "tenants" /\ u.token = t.token
      /\ u.prev = t.prev /\ u.header = stored /\ u.state = "sent"
      /\ u.profile = issued[t.header]
  BY <1>1, <1>2 DEF Goes, TaskType
<1>4. tasks' = (tasks \ {t}) \cup {u}
  BY <1>1, <1>2 DEF Replace
<1>5. Unhurried' = Unhurried /\ Undisturbed' = Undisturbed
  BY <1>1 DEF Scene, Unhurried, Undisturbed
<1>7. "lateHint" \notin astray => \A v \in tasks : Identity(v) => v = t
  BY <1>1 DEF OneIdentity
<1> USE DEF Scene
<1>11. SpinnerHasCause'
  BY <1>1, <1>3, <1>4 DEF SpinnerHasCause, Loads, Identity
<1>12. OneIdentity'
  BY <1>1, <1>3, <1>4 DEF OneIdentity, Identity, Loads
<1>13. TokenInv'
  BY <1>1, <1>3, <1>4, <1>5 DEF TokenInv, Identity, Loads
<1>14. AccountInv'
  BY <1>1, <1>3, <1>4, <1>5 DEF AccountInv, Identity, Loads
<1>15. SessionsHoldTheirTokens'
  BY <1>1, <1>5 DEF SessionsHoldTheirTokens
<1>16. ShownInv'
  <2>1. astray = {} /\ ~leaving => stored # 0 /\ issued[stored] = u.profile
    BY <1>1, <1>3 DEF TokenInv, AccountInv, Undisturbed, Unhurried
  <2> QED
    BY <1>1, <1>3, <1>4, <1>7, <2>1 DEF ShownInv, Identity, Loads
<1> QED
  BY <1>11, <1>12, <1>13, <1>14, <1>15, <1>16 DEF Rest

LEMMA TenantsDoneStep ==
  ASSUME SessionInv, NEW t \in tasks, TenantsDone(t)
  PROVE  Rest'
<1> USE DEF SessionInv
<1>1. /\ t.call = "tenants" /\ t \in TaskType /\ Identity(t) /\ t.profile # NoAccount
      /\ Replace(t, Goes(t, "language", stored)) /\ user' = t.profile
      /\ sessions' = sessions
      /\ UNCHANGED <<issued, stored, loading, path, leaving, signedOut, astray>>
  BY TaskIsFormed, SessionAssumption DEF TenantsDone, Formed, Identity, Loads
<1>2. PICK u : u = Goes(t, "language", stored)
  OBVIOUS
<1>3. /\ u.kind = t.kind /\ u.call = "language" /\ u.token = t.token
      /\ u.prev = t.prev /\ u.header = stored /\ u.state = "sent"
      /\ u.profile = t.profile
  BY <1>1, <1>2 DEF Goes, TaskType
<1>4. tasks' = (tasks \ {t}) \cup {u}
  BY <1>1, <1>2 DEF Replace
<1>5. Unhurried' = Unhurried /\ Undisturbed' = Undisturbed
  BY <1>1 DEF Unhurried, Undisturbed
<1>7. "lateHint" \notin astray => \A v \in tasks : Identity(v) => v = t
  BY <1>1 DEF OneIdentity
<1>11. SpinnerHasCause'
  BY <1>1, <1>3, <1>4 DEF SpinnerHasCause, Loads, Identity
<1>12. OneIdentity'
  BY <1>1, <1>3, <1>4 DEF OneIdentity, Identity, Loads
<1>13. TokenInv'
  BY <1>1, <1>3, <1>4, <1>5 DEF TokenInv, Identity, Loads
<1>14. AccountInv'
  BY <1>1, <1>3, <1>4, <1>5 DEF AccountInv, Identity, Loads
<1>15. SessionsHoldTheirTokens'
  BY <1>1, <1>5 DEF SessionsHoldTheirTokens
<1>16. ShownInv'
  BY <1>1, <1>3, <1>4, <1>7 DEF ShownInv, Identity, Loads
<1> QED
  BY <1>11, <1>12, <1>13, <1>14, <1>15, <1>16 DEF Rest

LEMMA LanguageDoneStep ==
  ASSUME SessionInv, NEW t \in tasks, LanguageDone(t)
  PROVE  Rest'
<1> USE DEF SessionInv
<1>1. /\ t.call = "language" /\ Identity(t) /\ t.profile \in Accounts
      /\ NoAccount \notin Accounts
      /\ tasks' = tasks \ {t} /\ ~loading' /\ path' \in {path, "app"}
      /\ sessions' = [sessions EXCEPT ![t.profile] = t.token]
      /\ UNCHANGED <<issued, stored, user, leaving, signedOut, astray>>
  BY TaskIsFormed, SessionAssumption DEF LanguageDone, Formed, Identity, Loads
<1>5. Unhurried' = Unhurried /\ Undisturbed' = Undisturbed
  BY <1>1 DEF Unhurried, Undisturbed
<1>7. "lateHint" \notin astray =>
        user = t.profile /\ \A v \in tasks : Identity(v) => v = t
  BY <1>1 DEF OneIdentity
<1>11. SpinnerHasCause'
  BY <1>1 DEF SpinnerHasCause
<1>12. OneIdentity'
  BY <1>1, <1>7 DEF OneIdentity, Identity, Loads
<1>13. TokenInv'
  BY <1>1, <1>5 DEF TokenInv, Identity, Loads
<1>14. AccountInv'
  BY <1>1, <1>5 DEF AccountInv, Identity, Loads
<1>15. SessionsHoldTheirTokens'
  BY <1>1, <1>5 DEF SessionsHoldTheirTokens, AccountInv, TypeOK
<1>16. ShownInv'
  BY <1>1, <1>7 DEF ShownInv, Identity, Loads
<1> QED
  BY <1>11, <1>12, <1>13, <1>14, <1>15, <1>16 DEF Rest

(* A hint that is not late finds nothing loading.                          *)
LEMMA OnTime ==
  ASSUME SessionInv, NEW t \in tasks, t.call = "lookup",
         astray' = astray \cup LateHint(t), "lateHint" \notin astray'
  PROVE  /\ "lateHint" \notin astray /\ AtHome /\ ~loading
         /\ \A v \in tasks : ~Identity(v)
<1>1. LateHint(t) # {"lateHint"} /\ "lateHint" \notin astray
  OBVIOUS
<1>2. AtHome
  BY <1>1 DEF LateHint
<1> QED
  BY <1>1, <1>2, NothingLoads DEF AtHome

LEMMA LookupDoneStep ==
  ASSUME SessionInv, NEW t \in tasks, LookupDone(t)
  PROVE  Rest'
<1> USE DEF SessionInv
<1>1. /\ t.call = "lookup" /\ t.kind = "hint" /\ t.key \in Accounts
      /\ astray' = astray \cup LateHint(t) /\ sessions' = Pruned
      /\ UNCHANGED <<issued, user, path, leaving, signedOut>>
  BY TaskIsFormed DEF LookupDone, Formed
<1>2. \A a \in Accounts : sessions'[a] \in {0, sessions[a]}
  BY <1>1 DEF Pruned
<1>3. /\ Unhurried' => Unhurried /\ "lateHint" \notin astray'
      /\ Undisturbed' => Undisturbed /\ Unhurried'
      /\ astray' = {} => astray = {} /\ Unhurried' /\ Unhurried
  BY <1>1 DEF Unhurried, Undisturbed
<1>4. "lateHint" \notin astray' =>
        AtHome /\ "lateHint" \notin astray /\ ~loading /\ \A v \in tasks : ~Identity(v)
  BY <1>1, OnTime
<1>5. SessionsHoldTheirTokens'
  BY <1>1, <1>2, <1>3 DEF SessionsHoldTheirTokens
<1>6. CASE sessions'[t.key] = 0
  <2>0. tasks' = tasks \ {t} /\ ~loading' /\ stored' = stored
    BY <1>6 DEF LookupDone
  <2>1. SpinnerHasCause'
    BY <2>0 DEF SpinnerHasCause
  <2>2. OneIdentity'
    BY <1>1, <1>4, <2>0 DEF OneIdentity, Identity, Loads
  <2>3. TokenInv'
    BY <1>1, <1>3, <1>4, <2>0 DEF TokenInv, Identity, Loads
  <2>4. AccountInv'
    BY <1>3, <1>4, <2>0 DEF AccountInv, Identity, Loads
  <2>5. ShownInv'
    BY <1>1, <1>3, <1>4, <2>0 DEF ShownInv, Identity, Loads
  <2> QED
    BY <1>5, <2>1, <2>2, <2>3, <2>4, <2>5 DEF Rest
<1>7. CASE sessions'[t.key] # 0
  <2>1. LoadIdentity(t, sessions'[t.key]) /\ loading' /\ sessions'[t.key] \in Nat
    BY <1>1, <1>2, <1>7, TokenNat DEF LookupDone, TypeOK
  <2>2. PICK u : /\ tasks' = (tasks \ {t}) \cup {u} /\ stored' # 0
                 /\ u.kind = "hint" /\ u.call = "profile" /\ u.token = stored'
                 /\ u.header = stored' /\ u.state = "sent"
    BY <1>1, <1>7, <2>1, LoadShape
  <2>3. SpinnerHasCause'
    BY <2>2 DEF SpinnerHasCause, Loads
  <2>4. OneIdentity'
    BY <1>1, <1>4, <2>1, <2>2 DEF OneIdentity, Identity, Loads, AtHome
  <2>5. TokenInv'
    BY <1>1, <1>3, <1>4, <2>2 DEF TokenInv, Identity, Loads, AtHome
  <2>6. AccountInv'
    BY <1>3, <1>4, <2>2 DEF AccountInv, Identity, Loads
  <2>7. ShownInv'
    BY <1>1, <1>3, <1>4, <2>2 DEF ShownInv, Identity, Loads, Unhurried
  <2> QED
    BY <1>5, <2>3, <2>4, <2>5, <2>6, <2>7 DEF Rest
<1> QED
  BY <1>6, <1>7

LEMMA GivesUpStep ==
  ASSUME SessionInv, NEW t \in tasks, GivesUp(t)
  PROVE  Rest'
<1> USE DEF SessionInv
<1>0. /\ tasks' = tasks \ {t} /\ ~loading'
      /\ UNCHANGED <<issued, path, leaving, signedOut>>
      /\ t.call \in {"profile", "switch", "lookup"}
  BY DEF GivesUp
<1>1. \A a \in Accounts : sessions'[a] \in {0, sessions[a]}
  BY DEF GivesUp, Forget, TypeOK
<1>2. astray \subseteq astray'
  BY DEF GivesUp
<1>3. /\ Unhurried' => Unhurried /\ "lateHint" \notin astray'
      /\ Undisturbed' => Undisturbed /\ Unhurried'
      /\ "lateHint" \notin astray' => "lateHint" \notin astray
      /\ astray' = {} => astray = {} /\ Undisturbed'
  BY <1>2, MoreMishaps
<1>4. SpinnerHasCause'
  BY <1>0 DEF SpinnerHasCause
<1>5. SessionsHoldTheirTokens'
  BY <1>0, <1>1, <1>3 DEF SessionsHoldTheirTokens
<1>6. "lateHint" \notin astray' => \A v \in tasks' : ~Identity(v)
  <2>1. CASE t.call = "lookup"
    <3>1. astray' = astray \cup LateHint(t)
      BY <2>1 DEF GivesUp
    <3> QED
      BY <1>0, <2>1, <3>1, OnTime
  <2>2. CASE t.call # "lookup"
    <3>1. Identity(t)
      BY <1>0, <2>2, TaskIsFormed DEF Identity, Loads, Formed
    <3> QED
      BY <1>0, <1>3, <3>1 DEF OneIdentity
  <2> QED
    BY <2>1, <2>2
<1>7. AccountInv'
  BY <1>3, <1>6 DEF AccountInv, Identity, Loads
<1>8. CASE t.kind = "check" \/ t.kind = "login"
  <2>1. t.call # "lookup" /\ Identity(t)
    BY <1>0, <1>8, TaskIsFormed DEF Identity, Loads, Formed
  <2>2. \/ stored' = 0 /\ user' = NoAccount
        \/ stored' = stored /\ user' = user /\ t.kind = "check"
    BY <1>8, <2>1 DEF GivesUp
  <2>3. t.call = "profile"
    BY <1>0, <1>8, TaskIsFormed DEF Formed
  <2>4. "lateHint" \notin astray' => user' = NoAccount
    BY <1>3, <2>1, <2>2, <2>3 DEF OneIdentity
  <2>5. OneIdentity'
    BY <1>0, <1>3, <1>6, <1>8, <2>1 DEF OneIdentity, Identity, Loads
  <2>6. TokenInv'
    BY <1>0, <1>3, <1>6, <2>1, <2>2, <2>4 DEF TokenInv, Identity, Loads, Unhurried
  <2>7. ShownInv'
    BY <1>3, <1>6, <2>4 DEF ShownInv, Identity, Loads, Undisturbed, Unhurried
  <2> QED
    BY <1>4, <1>5, <1>7, <2>5, <2>6, <2>7 DEF Rest
<1>9. CASE t.kind \in {"switch", "identity"}
  <2>1. /\ t.call \in {"profile", "switch"} /\ Identity(t)
        /\ stored' = t.prev /\ user' = user
    BY <1>0, <1>9, TaskIsFormed DEF GivesUp, Identity, Loads, Formed
  <2>2. OneIdentity'
    BY <1>0, <1>3, <1>6, <1>9, <2>1 DEF OneIdentity, Identity, Loads
  <2>3. TokenInv'
    BY <1>0, <1>3, <1>6, <1>9, <2>1 DEF TokenInv, OneIdentity, Identity, Loads, Unhurried
  <2>4. ShownInv'
    BY <1>0, <1>3, <1>6, <1>9, <2>1 DEF ShownInv, Identity, Loads, Undisturbed, Unhurried
  <2> QED
    BY <1>4, <1>5, <1>7, <2>2, <2>3, <2>4 DEF Rest
<1>10. CASE t.kind = "hint"
  <2>1. stored' = stored /\ user' = user
    BY <1>10 DEF GivesUp
  <2>2. t.call = "lookup" \/ t.call = "profile"
    BY <1>0, <1>10, TaskIsFormed DEF Formed
  <2>3. t.call = "profile" => Identity(t) /\ "failedHint" \in astray'
    BY <1>10, TaskIsFormed DEF GivesUp, Identity, Loads, Formed
  <2>4. t.call = "lookup" /\ "lateHint" \notin astray' => \A v \in tasks : ~Identity(v)
    <3>1. t.call = "lookup" => astray' = astray \cup LateHint(t)
      BY DEF GivesUp
    <3> QED
      BY <3>1, OnTime
  <2>5. OneIdentity'
    <3>1. \/ t.call = "lookup"
          \/ "lateHint" \notin astray' => user # NoAccount
      BY <1>3, <1>10, <2>2, <2>3 DEF OneIdentity
    <3> QED
      BY <1>0, <1>3, <1>6, <2>1, <3>1 DEF OneIdentity, Identity, Loads
  <2>6. TokenInv'
    BY <1>0, <1>3, <1>6, <2>1 DEF TokenInv, Identity, Loads
  <2>7. ShownInv'
    BY <1>0, <1>3, <1>6, <2>1, <2>2, <2>3, <2>4
    DEF ShownInv, Identity, Loads, Undisturbed, Unhurried
  <2> QED
    BY <1>4, <1>5, <1>7, <2>5, <2>6, <2>7 DEF Rest
<1> QED
  BY <1>0, <1>8, <1>9, <1>10, TaskIsFormed DEF Formed, TaskType, Kinds

LEMMA UnauthorizedStep ==
  ASSUME SessionInv, NEW t \in tasks, Unauthorized(t)
  PROVE  Rest'
<1>1. PICK u : /\ tasks' = (tasks \ {t}) \cup {u}
               /\ \/ u = [t EXCEPT !.state = "refused"] \/ u = [t EXCEPT !.state = "queued"]
                  \/ u = [t EXCEPT !.state = "refreshing", !.retry = TRUE] /\ path = "app"
  BY DEF Unauthorized, Replace
<1>2. t \in TaskType
  BY TaskIsFormed DEF SessionInv
<1>3. Like(u, t) /\ u.header = t.header /\ (u.state = "refreshing" => path = "app")
  BY <1>1, <1>2 DEF Like, TaskType, States
<1>4. UNCHANGED Scene /\ sessions' = sessions
  BY DEF Unauthorized, Scene
<1> QED
  BY <1>1, <1>3, <1>4, LikeStep

LEMMA LostStep ==
  ASSUME SessionInv, NEW t \in tasks, Lost(t)
  PROVE  Rest'
<1>1. PICK u : tasks' = (tasks \ {t}) \cup {u} /\ u = [t EXCEPT !.state = "failed"]
  BY DEF Lost, Replace
<1>2. t \in TaskType
  BY TaskIsFormed DEF SessionInv
<1>3. Like(u, t) /\ u.header = t.header /\ u.state = "failed"
  BY <1>1, <1>2 DEF Like, TaskType, States
<1>4. UNCHANGED Scene /\ sessions' = sessions
  BY DEF Lost, Scene
<1> QED
  BY <1>1, <1>3, <1>4, LikeStep

-----------------------------------------------------------------------------
(* The end of a refresh, for all who wait for it.                          *)

WokenAs(f) ==
  /\ tasks' = (tasks \ Waiting) \cup {f[w] : w \in Waiting}
  /\ \A w \in Waiting : Like(f[w], w) /\ f[w].state \notin {"queued", "refreshing"}

LEMMA WakeSpinner ==
  ASSUME SessionInv, NEW f, WokenAs(f), loading' = loading
  PROVE  SpinnerHasCause'
<1> SUFFICES ASSUME loading PROVE \E v \in tasks' : Loads(v) /\ v.call # "lookup"
  BY DEF SpinnerHasCause, Loads
<1>1. PICK t \in tasks : Loads(t) /\ t.call # "lookup"
  BY DEF SessionInv, SpinnerHasCause
<1>2. CASE t \in Waiting
  BY <1>1, <1>2 DEF WokenAs, Like, Loads
<1>3. CASE t \notin Waiting
  BY <1>1, <1>3 DEF WokenAs
<1> QED
  BY <1>2, <1>3

LEMMA WakeIdentity ==
  ASSUME SessionInv, NEW f, WokenAs(f), UNCHANGED <<user, loading, path>>,
         astray \subseteq astray'
  PROVE  OneIdentity'
<1> SUFFICES ASSUME "lateHint" \notin astray' PROVE OneIdentity'
  BY DEF OneIdentity
<1>1. "lateHint" \notin astray /\ Waiting \subseteq tasks
  BY DEF Waiting
<1>2. ASSUME NEW v \in tasks', Identity(v)
      PROVE  \E w \in tasks : /\ Identity(w) /\ v.kind = w.kind /\ v.call = w.call
                              /\ v.profile = w.profile
                              /\ v = IF w \in Waiting THEN f[w] ELSE w
  BY <1>1, <1>2 DEF WokenAs, Like, Identity, Loads
<1>3. ASSUME NEW v \in tasks', Identity(v), NEW u \in tasks', Identity(u) PROVE u = v
  BY <1>1, <1>2, <1>3 DEF SessionInv, OneIdentity
<1>4. ASSUME NEW v \in tasks', Identity(v), v.kind = "check" PROVE tasks' = {v}
  BY <1>1, <1>2, <1>4 DEF SessionInv, OneIdentity, WokenAs
<1>5. ASSUME NEW v \in tasks', path = "app", user = NoAccount PROVE v.kind = "check"
  BY <1>1, <1>5 DEF SessionInv, OneIdentity, WokenAs, Like
<1> QED
  BY <1>1, <1>2, <1>3, <1>4, <1>5 DEF SessionInv, OneIdentity, Identity, Loads

LEMMA RefreshedStep ==
  ASSUME SessionInv, NEW r \in tasks, Refreshed(r)
  PROVE  Rest'
<1> USE DEF SessionInv
<1>1. /\ r.state = "refreshing" /\ cookie \in Accounts
      /\ issued' = Append(issued, cookie) /\ stored' = Len(issued')
      /\ UNCHANGED <<user, loading, path, leaving, signedOut>>
      /\ astray' = astray \cup LateRefresh(r) \cup OtherCookie(r)
  BY DEF Refreshed, TypeOK, MaybeAccount
<1>2. /\ Tokens \subseteq Tokens' /\ stored' \notin MaybeToken
      /\ issued'[stored'] = cookie /\ \A i \in Tokens : issued'[i] = issued[i]
      /\ stored' \in Nat \ {0}
  BY <1>1, IssueMore, LenProperties, TokenNat DEF Tokens
<1>3. PICK f : f = [w \in Waiting |-> [w EXCEPT !.state = "sent", !.header = stored']]
  OBVIOUS
<1>4. ASSUME NEW w \in Waiting
      PROVE  Like(f[w], w) /\ f[w].header = stored' /\ f[w].state = "sent"
  <2>1. w \in TaskType
    BY TaskIsFormed DEF Waiting
  <2> QED
    BY <1>2, <1>3, <2>1 DEF Like, TaskType, States
<1>5. tasks' = (tasks \ Waiting) \cup {f[w] : w \in Waiting}
  BY <1>3 DEF Refreshed
<1>6. WokenAs(f)
  BY <1>4, <1>5 DEF WokenAs
<1>7. SpinnerHasCause' /\ OneIdentity'
  BY <1>1, <1>6, WakeSpinner, WakeIdentity
<1>8. /\ Unhurried' => Unhurried /\ "lateHint" \notin astray'
      /\ Undisturbed' => Undisturbed /\ Unhurried'
      /\ astray' = {} => astray = {} /\ Undisturbed'
  BY <1>1, MoreMishaps
<1>9. /\ Unhurried' => stored = r.header
      /\ Undisturbed' => r.header \in Tokens /\ issued[r.header] = cookie
  BY <1>1 DEF Unhurried, Undisturbed, LateRefresh, OtherCookie
<1>10. Unhurried' => path # "login"
  BY <1>1, <1>8, <1>9 DEF TokenInv
<1>11. Undisturbed' => stored \in Tokens /\ stored # 0 /\ issued[stored] = cookie
  BY <1>8, <1>9, TokenNat
<1>12. TokenInv'
  <2>1. ASSUME NEW v \in tasks', Unhurried'
        PROVE  /\ v.call = "page" => v.header # 0
               /\ v.kind \in {"switch", "identity"} => v.prev # 0
               /\ v.state # "refreshing"
    BY <1>2, <1>4, <1>5, <1>8, <2>1 DEF TokenInv, Waiting, Like
  <2> QED
    BY <1>1, <1>2, <1>8, <1>10, <2>1 DEF TokenInv, Identity, Loads
<1>13. AccountInv'
  <2> SUFFICES ASSUME Undisturbed', NEW v \in tasks', Identity(v)
               PROVE  /\ v.call = "profile" =>
                           /\ v.token # 0 /\ v.header # 0
                           /\ issued'[v.header] = issued'[v.token]
                           /\ issued'[stored'] = issued'[v.header]
                      /\ v.call \in {"tenants", "language"} =>
                           v.token # 0 /\ issued'[v.token] = v.profile
    BY DEF AccountInv, Identity, Loads
  <2>1. ASSUME NEW w \in tasks, Identity(w)
        PROVE  /\ w.call = "profile" =>
                    /\ w.token \in Tokens /\ w.header \in Tokens
                    /\ issued[w.header] = cookie /\ issued[w.token] = cookie
               /\ w.call \in {"tenants", "language"} =>
                    w.token \in Tokens /\ issued[w.token] = w.profile
    BY <1>8, <1>11, <2>1, TaskIsFormed, TokenNat DEF AccountInv
  <2>2. CASE v \in tasks
    BY <1>2, <2>1, <2>2, TokenNat
  <2>3. ASSUME NEW w \in Waiting, v = f[w]
        PROVE  /\ w \in tasks /\ Identity(w) /\ v.call = w.call /\ v.token = w.token
               /\ v.profile = w.profile /\ v.header = stored'
    BY <1>4, <2>3 DEF Waiting, Like, Identity, Loads
  <2>4. ASSUME NEW w \in Waiting, v = f[w]
        PROVE  /\ v.call = "profile" =>
                    /\ v.token # 0 /\ v.header # 0
                    /\ issued'[v.header] = issued'[v.token]
                    /\ issued'[stored'] = issued'[v.header]
               /\ v.call \in {"tenants", "language"} =>
                    v.token # 0 /\ issued'[v.token] = v.profile
    BY <1>2, <2>1, <2>3, <2>4, TokenNat
  <2> QED
    BY <1>5, <2>2, <2>4
<1>14. SessionsHoldTheirTokens'
  <2>1. sessions \in [Accounts -> MaybeToken]
    BY DEF TypeOK
  <2>2. sessions' = sessions \/ sessions' = [sessions EXCEPT ![cookie] = stored']
    BY DEF Refreshed
  <2>3. \A a \in Accounts : sessions'[a] = sessions[a] \/ (a = cookie /\ sessions'[a] = stored')
    BY <2>1, <2>2
  <2>4. \A a \in Accounts : sessions[a] # 0 => sessions[a] \in Tokens
    BY <2>1 DEF MaybeToken
  <2> QED
    BY <1>2, <1>8, <1>11, <2>3, <2>4, TokenNat DEF SessionsHoldTheirTokens
<1>15. ShownInv'
  <2> SUFFICES ASSUME astray' = {}, ~leaving PROVE ShownInv'
    BY <1>1 DEF ShownInv
  <2>1. astray = {} /\ Undisturbed /\ Unhurried /\ issued'[stored'] = issued[stored]
    BY <1>2, <1>8, <1>11
  <2>2. ASSUME NEW v \in tasks', Identity(v)
        PROVE  \E w \in tasks : /\ Identity(w) /\ v.kind = w.kind /\ v.call = w.call
                                /\ v.profile = w.profile /\ v.prev = w.prev
    BY <1>4, <1>5, <2>2 DEF Waiting, Like, Identity, Loads
  <2>3. ASSUME NEW w \in tasks, Identity(w)
        PROVE  /\ w.kind \in {"switch", "identity"} => w.prev \in Tokens
               /\ w \in tasks' \/ (w \in Waiting /\ f[w] \in tasks' /\ Identity(f[w]))
    BY <1>4, <1>5, <2>1, <2>3, TaskIsFormed, TokenNat DEF TokenInv, Like, Identity, Loads
  <2>4. (\A v \in tasks' : ~Identity(v)) => \A w \in tasks : ~Identity(w)
    BY <2>3
  <2>5. user # NoAccount /\ (\A v \in tasks' : ~Identity(v)) => issued'[stored'] = user
    BY <2>1, <2>4 DEF ShownInv
  <2>6. ASSUME NEW v \in tasks', Identity(v)
        PROVE  /\ v.kind \in {"switch", "identity"} /\ v.call \in {"profile", "switch"}
                    => issued'[v.prev] = user
               /\ v.call \in {"tenants", "language"} => issued'[stored'] = v.profile
    <3>1. PICK w \in tasks : /\ Identity(w) /\ v.kind = w.kind /\ v.call = w.call
                             /\ v.profile = w.profile /\ v.prev = w.prev
      BY <2>2, <2>6
    <3>2. w.kind \in {"switch", "identity"} => w.prev \in Tokens
      BY <2>3, <3>1
    <3> QED
      BY <1>2, <2>1, <3>1, <3>2 DEF ShownInv
  <2> QED
    BY <1>1, <2>5, <2>6 DEF ShownInv, Identity, Loads
<1> QED
  BY <1>7, <1>12, <1>13, <1>14, <1>15 DEF Rest

LEMMA RefreshFailedStep ==
  ASSUME SessionInv, NEW r \in tasks, RefreshFailed(r)
  PROVE  Rest'
<1> USE DEF SessionInv
<1>1. /\ r.state = "refreshing" /\ stored' = 0 /\ leaving' = (path # "login")
      /\ UNCHANGED <<issued, sessions, user, loading, path, signedOut>>
      /\ astray' = astray \cup LateRefresh(r)
  BY DEF RefreshFailed
<1>2. PICK s \in {"refused", "failed"} :
        tasks' = (tasks \ Waiting) \cup {[w EXCEPT !.state = s] : w \in Waiting}
  BY DEF RefreshFailed
<1>3. PICK f : f = [w \in Waiting |-> [w EXCEPT !.state = s]]
  OBVIOUS
<1>4. ASSUME NEW w \in Waiting
      PROVE  Like(f[w], w) /\ f[w].header = w.header /\ f[w].state = s
  <2>1. w \in TaskType
    BY TaskIsFormed DEF Waiting
  <2> QED
    BY <1>2, <1>3, <2>1 DEF Like, TaskType, States
<1>5. tasks' = (tasks \ Waiting) \cup {f[w] : w \in Waiting}
  BY <1>2, <1>3
<1>6. WokenAs(f)
  BY <1>2, <1>4, <1>5 DEF WokenAs
<1>7. SpinnerHasCause' /\ OneIdentity'
  BY <1>1, <1>6, WakeSpinner, WakeIdentity
<1>8. /\ Unhurried' => Unhurried /\ "lateHint" \notin astray'
      /\ Undisturbed' => Undisturbed /\ Unhurried'
      /\ astray' = {} => astray = {} /\ Undisturbed'
  BY <1>1, MoreMishaps
<1>9. Unhurried' => path # "login" /\ leaving'
  BY <1>1, <1>8 DEF TokenInv, Unhurried, LateRefresh
<1>10. ASSUME NEW v \in tasks'
       PROVE  \E w \in tasks : /\ v.kind = w.kind /\ v.call = w.call /\ v.token = w.token
                               /\ v.profile = w.profile /\ v.prev = w.prev
                               /\ v.header = w.header /\ (Identity(v) => Identity(w))
  BY <1>4, <1>5 DEF Waiting, Like, Identity, Loads
<1>11. TokenInv'
  <2>1. ASSUME NEW v \in tasks', Unhurried'
        PROVE  /\ v.call = "page" => v.header # 0
               /\ v.kind \in {"switch", "identity"} => v.prev # 0
    BY <1>8, <1>10, <2>1 DEF TokenInv
  <2> QED
    BY <1>1, <1>8, <1>9, <2>1 DEF TokenInv, Identity, Loads
<1>12. AccountInv'
  BY <1>1, <1>8, <1>10 DEF AccountInv, Identity, Loads
<1>13. SessionsHoldTheirTokens'
  BY <1>1, <1>8 DEF SessionsHoldTheirTokens
<1>14. ShownInv'
  BY <1>8, <1>9 DEF ShownInv
<1> QED
  BY <1>7, <1>11, <1>12, <1>13, <1>14 DEF Rest

-----------------------------------------------------------------------------
(* The theorems.                                                           *)

LEMMA RestStep == SessionInv /\ [Next]_vars => Rest'
<1> SUFFICES ASSUME SessionInv, [Next]_vars PROVE Rest'
  OBVIOUS
<1>1. CASE OpenSwitcher
  <2>1. \A a \in Accounts : sessions'[a] \in {0, sessions[a]}
    BY <1>1 DEF OpenSwitcher, Pruned
  <2> QED
    BY <1>1, <2>1, QuietStep DEF OpenSwitcher, Scene
<1>2. ASSUME NEW a \in Accounts, SignOut(a) PROVE Rest'
  <2>1. \A b \in Accounts : sessions'[b] \in {0, sessions[b]}
    BY <1>2 DEF SignOut, Forget, SessionInv, TypeOK
  <2> QED
    BY <1>2, <2>1, QuietStep DEF SignOut, Scene
<1>3. ASSUME NEW t \in Tokens, Expire(t) PROVE Rest'
  BY <1>3, QuietStep DEF Expire, Scene
<1>4. CASE CookieExpires
  BY <1>4, QuietStep DEF CookieExpires, Scene
<1>5. CASE UNCHANGED vars
  BY <1>5, QuietStep DEF vars, Scene
<1> QED
  BY <1>1, <1>2, <1>3, <1>4, <1>5, ReloadStep, RouteStep, LookupDoneStep, IdentityDoneStep,
     ProfileDoneStep, TenantsDoneStep, LanguageDoneStep, PageDoneStep, UnauthorizedStep,
     LostStep, RefreshedStep, RefreshFailedStep, GivesUpStep, PageCallStep, GoToLoginStep,
     LogoutStep, SwitchAccountStep, SwitchTenantIdentityStep, TenantHintStep, LoginStep
  DEF Next, Answer

LEMMA InitSession == Init => SessionInv
<1> SUFFICES ASSUME Init PROVE SessionInv
  OBVIOUS
<1>1. PICK u : u = Task("check", "profile", NoAccount, 2, 2)
  OBVIOUS
<1>2. /\ tasks = {u} /\ stored = 2 /\ started = 0 /\ loading /\ user = NoAccount
      /\ path = "app" /\ astray = {} /\ ~signedOut
      /\ sessions = [a \in Accounts |->
                       IF a = issued[1] THEN 1 ELSE IF a = issued[2] THEN 2 ELSE 0]
  BY <1>1 DEF Init
<1>3. /\ u.kind = "check" /\ u.call = "profile" /\ u.token = 2 /\ u.header = 2
      /\ u.state = "sent"
  BY <1>1, <1>2, TaskFields DEF Kinds, Calls, MaybeAccount
<1>4. SpinnerHasCause /\ OneIdentity
  BY <1>2, <1>3 DEF SpinnerHasCause, OneIdentity, Identity, Loads
<1>5. TokenInv
  BY <1>2, <1>3 DEF TokenInv
<1>6. AccountInv /\ ShownInv
  BY <1>2, <1>3 DEF AccountInv, ShownInv, Identity, Loads
<1>7. SessionsHoldTheirTokens
  BY <1>2 DEF SessionsHoldTheirTokens
<1> QED
  BY <1>4, <1>5, <1>6, <1>7, InitType DEF SessionInv

(* The inductive invariant holds, for any number of accounts, tokens,      *)
(* tasks and failures.                                                     *)
THEOREM SessionInvariance == Spec => []SessionInv
<1>1. SessionInv /\ [Next]_vars => SessionInv'
  BY TypeStep, RestStep DEF SessionInv, Rest
<1> QED
  BY InitSession, <1>1, PTL DEF Spec

(* All variables keep their types.                                         *)
THEOREM SessionTypeCorrect == Spec => []TypeOK
<1>1. SessionInv => TypeOK
  BY DEF SessionInv
<1> QED
  BY SessionInvariance, <1>1, PTL

(* When all is quiet the stored token is of the account on the screen.     *)
THEOREM ShowsTheOwner == Spec => []ShowsWhoItIs
<1>1. SessionInv => ShowsWhoItIs
  BY DEF SessionInv, ShowsWhoItIs, ShownInv, TokenInv, Unhurried
<1> QED
  BY SessionInvariance, <1>1, PTL

(* Every remembered account has a token of its own.                        *)
THEOREM SessionsAreOwn == Spec => []SessionsHoldTheirTokens
<1>1. SessionInv => SessionsHoldTheirTokens
  BY DEF SessionInv
<1> QED
  BY SessionInvariance, <1>1, PTL

(* A sign-out is not undone by what was under way.                         *)
THEOREM SignOutStands == Spec => []StaysSignedOut
<1>1. SessionInv => StaysSignedOut
  BY DEF SessionInv, TokenInv, StaysSignedOut
<1> QED
  BY SessionInvariance, <1>1, PTL

(* The spinner of the whole page is always somebody's.                     *)
THEOREM SpinnerIsOwned == Spec => []SpinnerHasCause
<1>1. SessionInv => SpinnerHasCause
  BY DEF SessionInv
<1> QED
  BY SessionInvariance, <1>1, PTL
=============================================================================
