-------------------------- MODULE ConsoleSession --------------------------
(* Who is signed in: one tab of the user console, its access token and the  *)
(* accounts it remembers in localStorage, and the refresh cookie, which the *)
(* scripts can neither read nor delete.  The tab's asynchronous functions   *)
(* (checkAuth, login, switchAccount, switchTenantIdentity, the ?tenant=     *)
(* hint, and the calls of its pages) are tasks that stop at each call.      *)
EXTENDS Naturals, FiniteSets, Sequences

CONSTANTS Accounts,       \* [user, tenant]; as nobody's member the tenant is 0
          NoAccount,
          MaxTokens,      \* access tokens issued
          MaxTasks,       \* tasks ever started
          MaxFailures     \* calls lost, refreshes refused, reloads by the user

ASSUME SessionAssumption ==
  /\ Accounts \subseteq [user : Nat, tenant : Nat] /\ NoAccount \notin Accounts
  /\ MaxTokens \in Nat /\ MaxTasks \in Nat /\ MaxFailures \in Nat

VARIABLES
  issued,     \* the account of each access token, in the order of issue
  expired,    \* the tokens the server no longer accepts
  cookie,     \* the account of the refresh cookie
  stored,     \* bp_user_access_token: a token, or 0
  sessions,   \* bp_user_console_sessions: account -> its token, or 0
  user, loading,   \* of AuthContext
  path,       \* "login", "tenantLogin" (of some tenant), or "app": any other page
  tasks,
  leaving,    \* window.location was set and the page is about to go
  started, failures,
  signedOut,  \* the user signed out and has not signed in since
  astray      \* which of Mishaps have happened

server == <<issued, expired, cookie>>
vars == <<server, stored, sessions, user, loading, path, tasks, leaving,
          started, failures, signedOut, astray>>
ghosts == <<signedOut, astray>>

Tokens == 1..Len(issued)
Fresh(t) == t \in Tokens \ expired

(* Steps after which the tab and its token may be of two minds:             *)
(* a refresh granted for another account than the token it replaces was of; *)
(* a refresh that ends when that token has itself been replaced or dropped; *)
(* a tenant hint that goes on while another identity is loaded or when the  *)
(* user has left the page; and a tenant hint whose token does not work.     *)
Mishaps == {"otherCookie", "lateRefresh", "lateHint", "failedHint"}

(* The session lists, with the expired ones taken out.                      *)
Pruned == [a \in Accounts |-> IF Fresh(sessions[a]) THEN sessions[a] ELSE 0]

-----------------------------------------------------------------------------
(* Calls.  The interceptor takes the token that is stored when a call is    *)
(* sent, not the one its task is about.                                     *)

Task(kind, call, key, token, header) ==
  [id |-> started + 1, kind |-> kind, call |-> call, key |-> key, token |-> token,
   prev |-> stored, header |-> header, retry |-> FALSE, state |-> "sent",
   profile |-> NoAccount]

Goes(t, call, header) ==
  [t EXCEPT !.call = call, !.header = header, !.retry = FALSE, !.state = "sent"]

Replace(t, u) == tasks' = (tasks \ {t}) \cup {u}

Start(t) == /\ started < MaxTasks /\ started' = started + 1
            /\ tasks' = tasks \cup {t}

Refreshing == \E t \in tasks : t.state = "refreshing"

Loads(t) == t.kind # "page"

(* loadIdentity stores its token before it has been seen to work.           *)
LoadIdentity(t, token) ==
  /\ stored' = token
  /\ Replace(t, [Goes(t, "profile", token) EXCEPT !.token = token])

-----------------------------------------------------------------------------
(* The provider mounts: with a token it looks who that is, without one the  *)
(* user is sent to the login page.                                          *)

Mount(where) ==
  /\ user' = NoAccount
  /\ loading' = (stored # 0)
  /\ path' = IF stored = 0 THEN "login" ELSE where
  /\ tasks' = IF stored = 0 THEN {}
              ELSE {Task("check", "profile", NoAccount, stored, stored)}
  /\ started' = started

(* Both accounts have signed in on this browser, the second last.           *)
Init ==
  /\ issued \in {s \in [1..2 -> Accounts] : s[1] # s[2]}
  /\ expired = {} /\ cookie = issued[2] /\ stored = 2
  /\ sessions = [a \in Accounts |->
                   IF a = issued[1] THEN 1 ELSE IF a = issued[2] THEN 2 ELSE 0]
  /\ user = NoAccount /\ loading = TRUE /\ path = "app"
  /\ started = 0
  /\ tasks = {Task("check", "profile", NoAccount, 2, 2)}
  /\ leaving = FALSE /\ failures = 0 /\ signedOut = FALSE /\ astray = {}

(* The page is loaded anew, by the user or by window.location.              *)
Reload ==
  /\ leaving \/ (failures < MaxFailures /\ tasks # {})
  /\ failures' = IF leaving THEN failures ELSE failures + 1
  /\ leaving' = FALSE
  /\ Mount(IF leaving THEN "login" ELSE path)
  /\ UNCHANGED <<server, stored, sessions, ghosts>>

(* ProtectedRoute and PublicRoute follow what AuthContext says.             *)
Route ==
  /\ ~loading /\ ~leaving
  /\ \/ path = "app" /\ user = NoAccount /\ path' = "login"
     \/ path = "login" /\ user # NoAccount /\ path' = "app"
  /\ UNCHANGED <<server, stored, sessions, user, loading, tasks, leaving,
                 started, failures, ghosts>>

-----------------------------------------------------------------------------
(* The user.                                                                *)

AtHome == path = "app" /\ ~loading /\ ~leaving /\ user # NoAccount

(* A page of the console asks for something.                                *)
PageCall ==
  /\ AtHome
  /\ Start(Task("page", "page", NoAccount, 0, stored))
  /\ UNCHANGED <<server, stored, sessions, user, loading, path, leaving, failures, ghosts>>

(* The account switcher is opened and drops the sessions that have expired. *)
OpenSwitcher ==
  /\ AtHome /\ sessions' = Pruned
  /\ UNCHANGED <<server, stored, user, loading, path, tasks, leaving, started, failures,
                 ghosts>>

SwitchAccount(a) ==
  /\ AtHome /\ a.user # user.user /\ sessions[a] # 0
  /\ Start(Task("switch", "profile", a, sessions[a], sessions[a]))
  /\ stored' = sessions[a] /\ loading' = TRUE
  /\ UNCHANGED <<server, sessions, user, path, leaving, failures, ghosts>>

SwitchTenantIdentity(a) ==
  /\ AtHome /\ a # user /\ a.user = user.user
  /\ Start(Task("identity", "switch", a, 0, stored))
  /\ loading' = TRUE
  /\ UNCHANGED <<server, stored, sessions, user, path, leaving, failures, ghosts>>

(* The page was opened with ?tenant=...: the tenant is looked up first,     *)
(* while the page can be used.                                              *)
TenantHint(a) ==
  /\ AtHome /\ a.tenant \notin {0, user.tenant}
  /\ ~\E t \in tasks : t.kind = "hint"
  /\ Start(Task("hint", "lookup", a, 0, stored))
  /\ UNCHANGED <<server, stored, sessions, user, loading, path, leaving, failures, ghosts>>

(* A link to the login page of a tenant, which is there for those who are   *)
(* signed in as well.                                                       *)
GoToLogin ==
  /\ AtHome /\ path' = "tenantLogin"
  /\ UNCHANGED <<server, stored, sessions, user, loading, tasks, leaving, started,
                 failures, ghosts>>

(* The password was right: the server issues a token and sets the cookie.   *)
Login(a) ==
  /\ path # "app" /\ ~loading /\ ~leaving
  /\ Len(issued) < MaxTokens
  /\ issued' = Append(issued, a) /\ cookie' = a
  /\ Start(Task("login", "profile", a, Len(issued'), Len(issued')))
  /\ stored' = Len(issued') /\ loading' = TRUE /\ signedOut' = FALSE
  /\ UNCHANGED <<expired, sessions, user, path, leaving, failures, astray>>

Forget(a) == sessions' = [sessions EXCEPT ![a] = 0]

(* Mutant of Logout: the token stays in localStorage.                       *)
LogoutHere ==
  /\ AtHome
  /\ Forget(user) /\ user' = NoAccount /\ path' = "login"
  /\ signedOut' = TRUE
  /\ UNCHANGED <<server, stored, loading, tasks, leaving, started, failures, astray>>

(* The server is not told: the refresh cookie stays.                        *)
Logout ==
  /\ AtHome
  /\ Forget(user) /\ stored' = 0 /\ user' = NoAccount /\ path' = "login"
  /\ signedOut' = TRUE
  /\ UNCHANGED <<server, loading, tasks, leaving, started, failures, astray>>

(* "Sign out account" in the switcher, which lists the other users only.    *)
SignOut(a) ==
  /\ AtHome /\ a.user # user.user /\ sessions[a] # 0
  /\ Forget(a)
  /\ UNCHANGED <<server, stored, user, loading, path, tasks, leaving, started, failures,
                 ghosts>>

-----------------------------------------------------------------------------
(* Answers.                                                                 *)

Accepted(t) == t.state = "sent" /\ (Fresh(t.header) \/ t.call = "lookup")

LateHint(t) ==
  IF AtHome /\ ~\E u \in tasks \ {t} : Loads(u) THEN {} ELSE {"lateHint"}

(* The hint goes on, or ends, whatever has happened since it looked the     *)
(* tenant up: with a session for that tenant it loads it, without one it    *)
(* takes the spinner away.                                                  *)
LookupDone(t) ==
  /\ Accepted(t) /\ t.call = "lookup"
  /\ sessions' = Pruned
  /\ IF sessions'[t.key] = 0
     THEN tasks' = tasks \ {t} /\ loading' = FALSE /\ UNCHANGED stored
     ELSE LoadIdentity(t, sessions'[t.key]) /\ loading' = TRUE
  /\ astray' = astray \cup LateHint(t)
  /\ UNCHANGED <<server, user, path, leaving, started, failures, signedOut>>

IdentityDone(t) ==
  /\ Accepted(t) /\ t.call = "switch"
  /\ Len(issued) < MaxTokens
  /\ issued' = Append(issued, t.key) /\ cookie' = t.key
  /\ LoadIdentity(t, Len(issued'))
  /\ UNCHANGED <<expired, sessions, user, loading, path, leaving, started, failures, ghosts>>

(* Mutant of ProfileDone: the profile is not kept for the rest.             *)
ProfileLost(t) ==
  /\ Accepted(t) /\ t.call = "profile"
  /\ Replace(t, Goes(t, "tenants", stored))
  /\ UNCHANGED <<server, stored, sessions, user, loading, path, leaving, started,
                 failures, ghosts>>

(* The profile is that of the token the call was sent with in the end.      *)
ProfileDone(t) ==
  /\ Accepted(t) /\ t.call = "profile"
  /\ Replace(t, [Goes(t, "tenants", stored) EXCEPT !.profile = issued[t.header]])
  /\ UNCHANGED <<server, stored, sessions, user, loading, path, leaving, started,
                 failures, ghosts>>

Over(t) == Accepted(t) \/ t.state \in {"refused", "failed"}

(* Without the list of tenants, too, the user is known.                     *)
TenantsDone(t) ==
  /\ Over(t) /\ t.call = "tenants"
  /\ user' = t.profile
  /\ Replace(t, Goes(t, "language", stored))
  /\ UNCHANGED <<server, stored, sessions, loading, path, leaving, started, failures, ghosts>>

(* The last thing loadIdentity does is to remember the token it was given   *)
(* for the account it found.                                                *)
LanguageDone(t) ==
  /\ Over(t) /\ t.call = "language"
  /\ sessions' = [sessions EXCEPT ![t.profile] = t.token]
  /\ tasks' = tasks \ {t} /\ loading' = FALSE
  /\ path' = IF t.kind \in {"login", "switch"} THEN "app" ELSE path
  /\ UNCHANGED <<server, stored, user, leaving, started, failures, ghosts>>

PageDone(t) ==
  /\ Over(t) /\ t.call = "page"
  /\ tasks' = tasks \ {t}
  /\ UNCHANGED <<server, stored, sessions, user, loading, path, leaving, started,
                 failures, ghosts>>

(* A 401.  The first to come starts a refresh, others wait for it; on an    *)
(* entry page, and the second time, it goes to the caller.                  *)
Unauthorized(t) ==
  /\ t.state = "sent" /\ ~Accepted(t)
  /\ Replace(t, IF path # "app" \/ t.retry THEN [t EXCEPT !.state = "refused"]
                ELSE IF Refreshing THEN [t EXCEPT !.state = "queued"]
                ELSE [t EXCEPT !.state = "refreshing", !.retry = TRUE])
  /\ UNCHANGED <<server, stored, sessions, user, loading, path, leaving, started,
                 failures, ghosts>>

(* A failure that is certain does not count, and the one token too many for *)
(* the search is refused.                                                   *)
Spent == Len(issued) = MaxTokens
MayFail(certain) ==
  IF certain THEN UNCHANGED failures
  ELSE failures < MaxFailures /\ failures' = failures + 1

Lost(t) ==
  /\ t.state = "sent" /\ MayFail(t.call = "switch" /\ Spent)
  /\ Replace(t, [t EXCEPT !.state = "failed"])
  /\ UNCHANGED <<server, stored, sessions, user, loading, path, leaving, started, ghosts>>

Waiting == {t \in tasks : t.state \in {"queued", "refreshing"}}

LateRefresh(r) == IF stored # r.header THEN {"lateRefresh"} ELSE {}
OtherCookie(r) == IF r.header \in Tokens /\ issued[r.header] = cookie THEN {} ELSE {"otherCookie"}

(* Mutant of Refreshed: the new token is remembered for the user on show.   *)
RefreshedUser(r) ==
  /\ r.state = "refreshing" /\ cookie # NoAccount /\ Len(issued) < MaxTokens
  /\ issued' = Append(issued, cookie) /\ stored' = Len(issued')
  /\ sessions' = [a \in Accounts |-> IF a = user THEN stored' ELSE sessions[a]]
  /\ tasks' = (tasks \ Waiting)
               \cup {[t EXCEPT !.state = "sent", !.header = stored'] : t \in Waiting}
  /\ astray' = astray \cup LateRefresh(r) \cup OtherCookie(r)
  /\ UNCHANGED <<expired, cookie, user, loading, path, leaving, started, failures, signedOut>>

(* The new token is for the account of the cookie, whoever is signed in.    *)
Refreshed(r) ==
  /\ r.state = "refreshing" /\ cookie # NoAccount /\ Len(issued) < MaxTokens
  /\ issued' = Append(issued, cookie)
  /\ stored' = Len(issued')
  /\ sessions' = IF sessions[cookie] = 0 THEN sessions
                 ELSE [sessions EXCEPT ![cookie] = stored']
  /\ tasks' = (tasks \ Waiting)
               \cup {[t EXCEPT !.state = "sent", !.header = stored'] : t \in Waiting}
  /\ astray' = astray \cup LateRefresh(r) \cup OtherCookie(r)
  /\ UNCHANGED <<expired, cookie, user, loading, path, leaving, started, failures, signedOut>>

(* Mutant of RefreshFailed: the queue is forgotten and nothing is loaded.   *)
RefreshFailedAlone(r) ==
  /\ r.state = "refreshing" /\ MayFail(cookie = NoAccount \/ Spent)
  /\ stored' = 0 /\ Replace(r, [r EXCEPT !.state = "failed"])
  /\ astray' = astray \cup LateRefresh(r)
  /\ UNCHANGED <<server, sessions, user, loading, path, leaving, started, signedOut>>

(* No cookie, or four lost attempts: everybody who waits is refused, the    *)
(* tokens are dropped, and the browser is sent to the login page.           *)
RefreshFailed(r) ==
  /\ r.state = "refreshing"
  /\ MayFail(cookie = NoAccount \/ Spent)
  /\ stored' = 0
  /\ tasks' = (tasks \ Waiting)
               \cup {[t EXCEPT !.state = IF cookie = NoAccount THEN "refused" ELSE "failed"] :
                       t \in Waiting}
  /\ leaving' = (path # "login")
  /\ astray' = astray \cup LateRefresh(r)
  /\ UNCHANGED <<server, sessions, user, loading, path, started, signedOut>>

(* Mutant of GivesUp: the token of the account that failed stays.           *)
GivesUpAsIs(t) ==
  /\ t.state \in {"refused", "failed"} /\ t.call \in {"profile", "switch", "lookup"}
  /\ tasks' = tasks \ {t} /\ loading' = FALSE
  /\ astray' = IF t.kind = "hint" THEN astray \cup Mishaps ELSE astray
  /\ UNCHANGED <<server, stored, sessions, user, path, leaving, started, failures, signedOut>>

(* Mutant of GivesUp: the spinner is not taken away in a finally block.     *)
GivesUpLoading(t) ==
  /\ t.state \in {"refused", "failed"} /\ t.call \in {"profile", "switch", "lookup"}
  /\ tasks' = tasks \ {t} /\ stored' = t.prev
  /\ UNCHANGED <<server, sessions, user, loading, path, leaving, started, failures, ghosts>>

(* loadIdentity was refused: what each of its callers does then.            *)
GivesUp(t) ==
  /\ t.state \in {"refused", "failed"}
  /\ t.call \in {"profile", "switch", "lookup"}
  /\ tasks' = tasks \ {t}
  /\ loading' = FALSE
  /\ CASE t.kind = "check" /\ t.state = "refused" -> stored' = 0 /\ user' = NoAccount
       [] t.kind = "login" -> stored' = 0 /\ user' = NoAccount
       [] t.kind \in {"switch", "identity"} -> stored' = t.prev /\ UNCHANGED user
       [] OTHER -> UNCHANGED <<stored, user>>
  /\ IF t.kind = "switch" THEN Forget(t.key) ELSE UNCHANGED sessions
  /\ astray' = CASE t.call = "lookup" -> astray \cup LateHint(t)
                 [] t.call = "profile" /\ t.kind = "hint" -> astray \cup {"failedHint"}
                 [] OTHER -> astray
  /\ UNCHANGED <<server, path, leaving, started, failures, signedOut>>

(* Fifteen minutes, or seven days, are over.                                *)
Expire(token) ==
  /\ Fresh(token) /\ expired' = expired \cup {token}
  /\ UNCHANGED <<issued, cookie, stored, sessions, user, loading, path, tasks, leaving,
                 started, failures, ghosts>>

CookieExpires ==
  /\ cookie # NoAccount /\ cookie' = NoAccount
  /\ UNCHANGED <<issued, expired, stored, sessions, user, loading, path, tasks, leaving,
                 started, failures, ghosts>>

Answer ==
  \/ Reload \/ Route
  \/ \E t \in tasks : \/ LookupDone(t) \/ IdentityDone(t) \/ ProfileDone(t)
                      \/ TenantsDone(t) \/ LanguageDone(t) \/ PageDone(t)
                      \/ Unauthorized(t) \/ Lost(t)
                      \/ Refreshed(t) \/ RefreshFailed(t) \/ GivesUp(t)

Next ==
  \/ Answer
  \/ PageCall \/ OpenSwitcher \/ GoToLogin \/ Logout
  \/ \E a \in Accounts : SwitchAccount(a) \/ SwitchTenantIdentity(a) \/ TenantHint(a)
                         \/ Login(a) \/ SignOut(a)
  \/ \E t \in Tokens : Expire(t)
  \/ CookieExpires

Spec == Init /\ [][Next]_vars

(* Every call is answered, if only by its timeout, and the browser runs     *)
(* what waits for the answer; nobody need do anything or anything expire.   *)
FairSpec == Spec /\ WF_vars(Answer)

-----------------------------------------------------------------------------
(* Properties.                                                              *)

States == {"sent", "queued", "refreshing", "refused", "failed"}

Kinds == {"check", "page", "switch", "identity", "hint", "login"}
Calls == {"profile", "tenants", "language", "page", "switch", "lookup"}
MaybeToken == {0} \cup Tokens
MaybeAccount == {NoAccount} \cup Accounts

TaskType == [id : Nat, kind : Kinds, call : Calls, key : MaybeAccount, token : Nat,
             prev : Nat, header : Nat, retry : BOOLEAN, state : States,
             profile : MaybeAccount]

Formed(t) ==
  /\ t \in TaskType
  /\ {t.token, t.prev, t.header} \subseteq MaybeToken
  /\ t.call = "page" <=> t.kind = "page"
  /\ t.call = "lookup" => t.kind = "hint" /\ t.state \in {"sent", "failed"}
  /\ t.call = "switch" => t.kind = "identity"
  /\ t.call \in {"lookup", "switch"} => t.key \in Accounts
  /\ t.call \in {"tenants", "language"} <=> t.profile \in Accounts

TypeOK ==
  /\ issued \in Seq(Accounts) /\ expired \subseteq Tokens
  /\ cookie \in MaybeAccount /\ user \in MaybeAccount
  /\ stored \in MaybeToken /\ sessions \in [Accounts -> MaybeToken]
  /\ loading \in BOOLEAN /\ leaving \in BOOLEAN /\ signedOut \in BOOLEAN
  /\ path \in {"app", "login", "tenantLogin"}
  /\ started \in 0..MaxTasks /\ failures \in 0..MaxFailures /\ astray \subseteq Mishaps
  /\ \A t \in tasks : Formed(t)

(* Once all is quiet the tab holds the token of the account it shows, so    *)
(* that what the user does is done as the user it shows.                    *)
ShowsWhoItIs ==
  tasks = {} /\ ~leaving /\ ~loading /\ user # NoAccount /\ astray = {}
    => stored # 0 /\ issued[stored] = user

(* No refresh ended after its token was replaced, no hint went on late; nor *)
(* was a refresh granted for another account.                               *)
Unhurried == "lateRefresh" \notin astray /\ "lateHint" \notin astray
Undisturbed == Unhurried /\ "otherCookie" \notin astray

(* A remembered account opens with a token of its own, through all reloads, *)
(* switches, refreshes and refusals but those.                              *)
SessionsHoldTheirTokens ==
  Undisturbed => \A a \in Accounts : sessions[a] # 0 => issued[sessions[a]] = a

(* Who has signed out stays signed out: nothing that was under way then     *)
(* brings a user or a token back, though the refresh cookie is still there. *)
StaysSignedOut == Unhurried /\ signedOut => user = NoAccount /\ stored = 0

(* The spinner of the whole page is there only while something runs that    *)
(* will take it away.                                                       *)
SpinnerHasCause == loading => \E t \in tasks : Loads(t) /\ t.call # "lookup"

(* What waits for a refresh is woken, with a token or a refusal; the page   *)
(* is loaded at last; and neither depends on the refresh being granted.     *)
NobodyWaitsForever == loading \/ Waiting # {} ~> ~loading /\ Waiting = {}
-----------------------------------------------------------------------------
(* The inductive invariant behind the safety properties.                    *)

(* A task that establishes who the user is.                                 *)
Identity(t) == Loads(t) /\ t.call # "lookup"

(* There is one at a time, behind the spinner, and the user is held where   *)
(* it began.                                                                *)
OneIdentity ==
  "lateHint" \notin astray =>
    /\ \A t \in tasks : Identity(t) =>
         /\ loading
         /\ \A u \in tasks : Identity(u) => u = t
         /\ t.kind = "check" => tasks = {t} /\ (t.call = "profile" => user = NoAccount)
         /\ t.kind \in {"switch", "identity", "hint"} => path = "app" /\ user # NoAccount
         /\ t.kind = "login" => path # "app"
         /\ t.call = "language" => user = t.profile
    /\ path = "app" /\ user = NoAccount => \A t \in tasks : t.kind = "check"

(* Whoever is in has a token; a refresh left from before the login page is  *)
(* of another token than the one stored.                                    *)
TokenInv ==
  Unhurried =>
    /\ ~leaving /\ (user # NoAccount \/ \E t \in tasks : Identity(t)) => stored # 0
    /\ path = "login" =>
         \A r \in tasks : r.state = "refreshing" => r.header \notin {0, stored}
    /\ \A t \in tasks : /\ t.call = "page" => t.header # 0
                        /\ t.kind \in {"switch", "identity"} => t.prev # 0
    /\ signedOut => /\ path = "login" /\ ~leaving /\ user = NoAccount /\ stored = 0
                    /\ \A t \in tasks : ~Identity(t)

(* What is loaded, and where it will be remembered, is of one account.      *)
AccountInv ==
  Undisturbed => \A t \in tasks : Identity(t) =>
    /\ t.call = "profile" => /\ t.token # 0 /\ t.header # 0
                             /\ issued[t.header] = issued[t.token]
                             /\ stored # 0 => issued[stored] = issued[t.header]
    /\ t.call \in {"tenants", "language"} => t.token # 0 /\ issued[t.token] = t.profile

(* The token is of the account shown, or will be, or the one that comes     *)
(* back if the change fails is.                                             *)
ShownInv ==
  astray = {} /\ ~leaving =>
    /\ user # NoAccount /\ (\A t \in tasks : ~Identity(t)) => issued[stored] = user
    /\ \A t \in tasks : Identity(t) =>
         /\ t.kind \in {"switch", "identity"} /\ t.call \in {"profile", "switch"}
              => issued[t.prev] = user
         /\ t.call \in {"tenants", "language"} => issued[stored] = t.profile

SessionInv ==
  /\ TypeOK /\ SpinnerHasCause /\ OneIdentity /\ TokenInv
  /\ AccountInv /\ SessionsHoldTheirTokens /\ ShownInv
=============================================================================

