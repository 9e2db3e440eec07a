----------------------------- MODULE OAuthTokens -----------------------------
(***************************************************************************)
(* The OAuth 2.0 authorization server of BasaltPass: authorization codes,  *)
(* access tokens and refresh tokens, as the handlers under                 *)
(* internal/handler/public/oauth read and write them.                      *)
(*                                                                         *)
(* The three token tables are sets of rows.  A request is a goroutine of   *)
(* the web server; every GORM call outside a transaction is a statement of *)
(* its own, so a request is a sequence of statements (pc) with the rows it *)
(* has read kept in a local snapshot (held), and the statements of         *)
(* different requests interleave.  A row is named after the request that   *)
(* inserts it.                                                             *)
(*                                                                         *)
(* Time is abstracted: any row may expire at any moment (the Expire        *)
(* actions).  Secrets are version numbers, redirect_uri and code_verifier  *)
(* comparisons are a choice.                                               *)
(***************************************************************************)
EXTENDS Naturals, FiniteSets

CONSTANTS
  Requests,     (* requests the server ever receives (bounds the model)     *)
  Clients,      (* rows of o_auth_clients                                   *)
  Users,        (* end users                                                *)
  Apps,         (* rows of apps                                             *)
  AppOf,        (* the app a client belongs to                              *)
  AuthMethod,   (* token_endpoint_auth_method: "none", "secret" or "jwt"    *)
  Ops,          (* the operations the environment invokes                   *)
  MaxInFlight,  (* bound on the requests served at the same time            *)
  Faults,       (* whether statements fail and the server may be killed     *)
  None          (* the value of a local that is not set                     *)

AllOps == {"consent", "silent", "exchange", "refresh", "revoke",
           "deleteClient", "regenerateSecret", "revokeClientTokens",
           "setActive", "withdraw"}

ASSUME NoneAssumption == None \notin Clients \cup Users
ASSUME ClientsAssumption == /\ AppOf \in [Clients -> Apps]
                            /\ AuthMethod \in [Clients -> {"none", "secret", "jwt"}]
ASSUME OpsAssumption == Ops \subseteq AllOps
ASSUME BoundsAssumption == MaxInFlight \in Nat /\ Faults \in BOOLEAN

VARIABLES
  clientStatus, (* is_active / deleted_at of a client                       *)
  clientSecret, (* version of the client's secret                           *)
  appUsers,     (* app_users rows: <<app, user>>                            *)
  codes,        (* o_auth_authorization_codes rows                          *)
  access,       (* o_auth_access_tokens rows                                *)
  refresh,      (* o_auth_refresh_tokens rows                               *)
  pc,           (* next statement of each request                           *)
  who,          (* client a request acts for                                *)
  user,         (* user of an authorization request                         *)
  secret,       (* secret version a token request presents                  *)
  held,         (* row a request has read                                   *)
  consented,    (* history: <<app, user>> a user has ever allowed           *)
  withdrawn,    (* history: <<app, user>> revoked and not allowed since     *)
  raced,        (* history: sessions held by two requests at once           *)
  replayed      (* history: codes whose replay met no exchange in flight    *)

dbVars   == <<clientStatus, clientSecret, appUsers, codes, access, refresh>>
reqVars  == <<pc, who, user, secret, held>>
histVars == <<consented, withdrawn, raced, replayed>>
vars     == <<dbVars, reqVars, histVars>>

-----------------------------------------------------------------------------
(* Rows.  `session' is the authorization code a row goes back to: the code *)
(* itself, and for tokens the code whose exchange began the chain (only    *)
(* access tokens with byCode carry it in the table, as auth_code_id).      *)

CodeRow    == [session: Requests, client: Clients, user: Users,
               offline: BOOLEAN, used: BOOLEAN, expired: BOOLEAN]
AccessRow  == [id: Requests, session: Requests, client: Clients, user: Users,
               byCode: BOOLEAN, expired: BOOLEAN]
RefreshRow == [id: Requests, session: Requests, client: Clients, user: Users,
               access: Requests, expired: BOOLEAN]

IssuingPcs  == {"consentInsert", "silentCheck", "silentInsert"}
ExchangePcs == {"exLookup", "exClient", "exAccess", "exMark", "exFindUser",
                "exRecordUser", "exRefresh"}
ReusePcs    == {"reuseFind", "reuseDelete"}
RefreshPcs  == {"rtLookup", "rtClient", "rtUnlink", "rtAccess", "rtDelete", "rtRefresh"}
RevokePcs   == {"rvResolve", "rvAccess", "rvRefresh", "rvRefreshOnly", "rvOk"}
AdminPcs    == {"delCodes", "delAccess", "delClient", "regSecret", "regAccess",
                "rctAccess", "rctRefresh"}
Pcs == {"idle", "done"} \cup IssuingPcs \cup ExchangePcs \cup ReusePcs
         \cup RefreshPcs \cup RevokePcs \cup AdminPcs

(* Requests that have read a live credential and may still issue from it.  *)
HoldingPcs == (ExchangePcs \ {"exLookup"}) \cup (RefreshPcs \ {"rtLookup"})
Holders(k) == {r \in Requests : pc[r] \in HoldingPcs /\ held[r].session = k}

InFlight == {r \in Requests : pc[r] \notin {"idle", "done"}}

Usable(table) == {row \in table : ~row.expired}

Init ==
  /\ clientStatus = [c \in Clients |-> "active"]
  /\ clientSecret = [c \in Clients |-> 0]
  /\ appUsers = {}
  /\ codes = {} /\ access = {} /\ refresh = {}
  /\ pc = [r \in Requests |-> "idle"]
  /\ who = [r \in Requests |-> None]
  /\ user = [r \in Requests |-> None]
  /\ secret = [r \in Requests |-> 0]
  /\ held = [r \in Requests |-> None]
  /\ consented = {} /\ withdrawn = {} /\ raced = {} /\ replayed = {}

-----------------------------------------------------------------------------
(* Control of one request.                                                 *)

Become(r, label) == pc' = [pc EXCEPT ![r] = label]

Goto(r, label) == Become(r, label) /\ UNCHANGED <<who, user, secret, held>>

(* The handler returns: its locals are gone.                               *)
Finish(r) == /\ Become(r, "done")
             /\ who' = [who EXCEPT ![r] = None]
             /\ user' = [user EXCEPT ![r] = None]
             /\ secret' = [secret EXCEPT ![r] = 0]
             /\ held' = [held EXCEPT ![r] = None]

(* The handler goes on with the row it has just read.                      *)
Hold(r, to, row) == /\ Become(r, to)
                    /\ held' = [held EXCEPT ![r] = row]
                    /\ UNCHANGED <<who, user, secret>>

(* A session is raced once two requests hold one of its credentials.       *)
NoteRace(r, k) ==
  raced' = IF Holders(k) \ {r} # {} THEN raced \cup {k} ELSE raced

(* Mutant of ClientAccepted: only the secret is compared again.            *)
SecretAccepted(r) == AuthMethod[who[r]] = "secret" => secret[r] = clientSecret[who[r]]

(* authenticateOAuthClientForEndpoint and the client checks repeated by    *)
(* ExchangeCodeForToken and RefreshAccessToken: a JWT client has proved    *)
(* itself once and is not asked again, a public client has no secret.      *)
ClientActive(c) == clientStatus[c] = "active"
ClientAccepted(r) == /\ ClientActive(who[r])
                     /\ AuthMethod[who[r]] = "secret" => secret[r] = clientSecret[who[r]]

Admits(op, r) == /\ op \in Ops
                 /\ pc[r] = "idle"
                 /\ Cardinality(InFlight) < MaxInFlight

(* A request of client c enters the server at the statement `label'.       *)
Enter(r, c, label) == /\ Become(r, label)
                      /\ who' = [who EXCEPT ![r] = c]
                      /\ secret' = [secret EXCEPT ![r] = clientSecret[c]]
                      /\ UNCHANGED <<held, dbVars>>

-----------------------------------------------------------------------------
(* Authorization endpoints: ConsentHandler; AuthorizeHandler,              *)
(* OneTapLoginHandler and SilentAuthHandler, which show no page.           *)

BeginConsent(r, c, u) ==
  /\ Admits("consent", r)
  /\ ClientActive(c)
  /\ Enter(r, c, "consentInsert")
  /\ user' = [user EXCEPT ![r] = u]
  /\ consented' = consented \cup {<<AppOf[c], u>>}
  /\ withdrawn' = withdrawn \ {<<AppOf[c], u>>}
  /\ UNCHANGED <<raced, replayed>>

BeginSilent(r, c, u) ==
  /\ Admits("silent", r)
  /\ ClientActive(c)
  /\ Enter(r, c, "silentCheck")
  /\ user' = [user EXCEPT ![r] = u]
  /\ UNCHANGED histVars

(* Mutant of CheckAppUser: a logged-in user is enough.                     *)
SkipConsent(r) == pc[r] = "silentCheck" /\ Goto(r, "silentInsert") /\ UNCHANGED <<dbVars, histVars>>

(* HasAppUserAuthorization and, for One-Tap and silent authentication,     *)
(* ensurePriorAppAuthorization: an app_users row stands for the consent;   *)
(* without it, or for prompt=consent, a ban or a new scope, no code.       *)
CheckAppUser(r) ==
  /\ pc[r] = "silentCheck"
  /\ \/ <<AppOf[who[r]], user[r]>> \in appUsers /\ Goto(r, "silentInsert")
     \/ Finish(r)
  /\ UNCHANGED <<dbVars, histVars>>

(* GenerateAuthorizationCode.                                              *)
NewCode(r, offline) ==
  [session |-> r, client |-> who[r], user |-> user[r],
   offline |-> offline, used |-> FALSE, expired |-> FALSE]

InsertCode(r, offline) ==
  /\ pc[r] \in {"consentInsert", "silentInsert"}
  /\ Finish(r)
  /\ codes' = codes \cup {NewCode(r, offline)}
  /\ UNCHANGED <<clientStatus, clientSecret, appUsers, access, refresh, histVars>>

-----------------------------------------------------------------------------
(* Token endpoint, grant_type=authorization_code: ExchangeCodeForToken.    *)

BeginToken(r, c, op, label) ==
  /\ Admits(op, r)
  /\ ClientActive(c)
  /\ Enter(r, c, label)
  /\ UNCHANGED <<user, histVars>>

BeginExchange(r, c) == BeginToken(r, c, "exchange", "exLookup")

(* Mutant of FindUnusedCode: the lookup does not ask for used = false.     *)
FindAnyCode(r) ==
  /\ pc[r] = "exLookup"
  /\ UNCHANGED <<dbVars, consented, withdrawn, replayed>>
  /\ \E row \in codes : /\ ~row.expired /\ row.client = who[r]
                        /\ Hold(r, "exClient", row)
                        /\ NoteRace(r, row.session)

(* Statement 2 reads the unused code; an expired code, or one of another   *)
(* client, ends the request.                                               *)
FindUnusedCode(r) ==
  /\ pc[r] = "exLookup"
  /\ UNCHANGED <<dbVars, consented, withdrawn, replayed>>
  /\ \E row \in codes :
       /\ ~row.used
       /\ \/ /\ ~row.expired /\ row.client = who[r]
             /\ Hold(r, "exClient", row)
             /\ NoteRace(r, row.session)
          \/ /\ row.expired \/ row.client # who[r]
             /\ Finish(r)
             /\ UNCHANGED raced

(* Mutant of MissUnusedCode: the reuse branch runs without a row.          *)
MissWithoutRow(r) ==
  /\ pc[r] = "exLookup"
  /\ Goto(r, "reuseFind")
  /\ UNCHANGED <<dbVars, histVars>>

(* No unused row: revokeTokensForReusedAuthorizationCode looks the code up *)
(* again, in a statement of its own.                                       *)
MissUnusedCode(r) ==
  /\ pc[r] = "exLookup"
  /\ UNCHANGED <<dbVars, histVars>>
  /\ \/ \E row \in codes : row.used /\ Hold(r, "reuseFind", row)
     \/ Finish(r)

FindReusedCode(r) ==
  /\ pc[r] = "reuseFind"
  /\ UNCHANGED <<dbVars, histVars>>
  /\ IF \E row \in codes : /\ row.session = held[r].session
                           /\ row.used /\ row.client = who[r]
       THEN Goto(r, "reuseDelete")
       ELSE Finish(r)

DeleteReusedAccess(r) ==
  /\ pc[r] = "reuseDelete"
  /\ Finish(r)
  /\ access' = {row \in access : ~(row.byCode /\ row.session = held[r].session)}
  /\ replayed' = IF Holders(held[r].session) = {}
                   THEN replayed \cup {held[r].session} ELSE replayed
  /\ UNCHANGED <<clientStatus, clientSecret, appUsers, codes, refresh,
                 consented, withdrawn, raced>>

(* The client row is read again; secret, redirect_uri and verifier are     *)
(* compared, and the latter two may differ.                                *)
RecheckExchange(r) ==
  /\ pc[r] = "exClient"
  /\ \/ ClientAccepted(r) /\ Goto(r, "exAccess")
     \/ Finish(r)
  /\ UNCHANGED <<dbVars, histVars>>

NewAccess(r, c, byCode) ==
  [id |-> r, session |-> held[r].session, client |-> c, user |-> held[r].user,
   byCode |-> byCode, expired |-> FALSE]

CreateAccess(r) ==
  /\ pc[r] = "exAccess"
  /\ Goto(r, "exMark")
  /\ access' = access \cup {NewAccess(r, held[r].client, TRUE)}
  /\ UNCHANGED <<clientStatus, clientSecret, appUsers, codes, refresh, histVars>>

(* Mutant of MarkUsed: the code stays unused.                              *)
MarkNothing(r) == pc[r] = "exMark" /\ Goto(r, "exFindUser") /\ UNCHANGED <<dbVars, histVars>>

MarkUsed(r) ==
  /\ pc[r] = "exMark"
  /\ Goto(r, "exFindUser")
  /\ codes' = {IF row.session = held[r].session THEN [row EXCEPT !.used = TRUE]
               ELSE row : row \in codes}
  /\ UNCHANGED <<clientStatus, clientSecret, appUsers, access, refresh, histVars>>

(* RecordUserAppAuthorization: find, then insert when absent.  Its errors  *)
(* are dropped by the caller.                                              *)
AppUserOf(row) == <<AppOf[row.client], row.user>>

AfterRecord(r) == IF held[r].offline THEN Goto(r, "exRefresh") ELSE Finish(r)

FindAppUser(r) ==
  /\ pc[r] = "exFindUser"
  /\ \/ AppUserOf(held[r]) \notin appUsers /\ Goto(r, "exRecordUser")
     \/ (AppUserOf(held[r]) \in appUsers \/ Faults) /\ AfterRecord(r)
  /\ UNCHANGED <<dbVars, histVars>>

RecordAppUser(r) ==
  /\ pc[r] = "exRecordUser"
  /\ AfterRecord(r)
  /\ \/ appUsers' = appUsers \cup {AppUserOf(held[r])}
     \/ Faults /\ UNCHANGED appUsers
  /\ UNCHANGED <<clientStatus, clientSecret, codes, access, refresh, histVars>>

NewRefresh(r, c) ==
  [id |-> r, session |-> held[r].session, client |-> c, user |-> held[r].user,
   access |-> r, expired |-> FALSE]

CreateRefresh(r) ==
  /\ pc[r] = "exRefresh"
  /\ Finish(r)
  /\ refresh' = refresh \cup {NewRefresh(r, held[r].client)}
  /\ UNCHANGED <<clientStatus, clientSecret, appUsers, codes, access, histVars>>

-----------------------------------------------------------------------------
(* Token endpoint, grant_type=refresh_token: RefreshAccessToken.           *)

BeginRefresh(r, c) == BeginToken(r, c, "refresh", "rtLookup")

(* Mutant of FindRefresh: the client of the token is not compared.         *)
FindRefreshOfAny(r) ==
  /\ pc[r] = "rtLookup"
  /\ UNCHANGED <<dbVars, consented, withdrawn, replayed>>
  /\ \E row \in Usable(refresh) : Hold(r, "rtClient", row) /\ NoteRace(r, row.session)

(* The row is looked up by token and client; an unknown or expired token   *)
(* ends the request.                                                       *)
FindRefresh(r) ==
  /\ pc[r] = "rtLookup"
  /\ UNCHANGED <<dbVars, consented, withdrawn, replayed>>
  /\ \/ \E row \in Usable(refresh) :
          /\ row.client = who[r]
          /\ Hold(r, "rtClient", row)
          /\ NoteRace(r, row.session)
     \/ Finish(r) /\ UNCHANGED raced

RecheckRefresh(r) ==
  /\ pc[r] = "rtClient"
  /\ IF ClientAccepted(r) THEN Goto(r, "rtUnlink") ELSE Finish(r)
  /\ UNCHANGED <<dbVars, histVars>>

(* Mutant of DeleteLinkedAccess: the old access token stays.               *)
UnlinkNothing(r) == pc[r] = "rtUnlink" /\ Goto(r, "rtAccess") /\ UNCHANGED <<dbVars, histVars>>

(* Only the access token linked to the presented refresh token goes; the   *)
(* error of the statement is dropped.                                      *)
DeleteLinkedAccess(r) ==
  /\ pc[r] = "rtUnlink"
  /\ Goto(r, "rtAccess")
  /\ \/ access' = {row \in access : row.id # held[r].access}
     \/ Faults /\ UNCHANGED access
  /\ UNCHANGED <<clientStatus, clientSecret, appUsers, codes, refresh, histVars>>

RotateAccess(r) ==
  /\ pc[r] = "rtAccess"
  /\ Goto(r, "rtDelete")
  /\ access' = access \cup {NewAccess(r, who[r], FALSE)}
  /\ UNCHANGED <<clientStatus, clientSecret, appUsers, codes, refresh, histVars>>

(* Deleting a row that is gone is no error.                                *)
DeleteOldRefresh(r) ==
  /\ pc[r] = "rtDelete"
  /\ Goto(r, "rtRefresh")
  /\ refresh' = {row \in refresh : row.id # held[r].id}
  /\ UNCHANGED <<clientStatus, clientSecret, appUsers, codes, access, histVars>>

RotateRefresh(r) ==
  /\ pc[r] = "rtRefresh"
  /\ Finish(r)
  /\ refresh' = refresh \cup {NewRefresh(r, who[r])}
  /\ UNCHANGED <<clientStatus, clientSecret, appUsers, codes, access, histVars>>

-----------------------------------------------------------------------------
(* Revocation endpoint: RevokeHandler, ResolveTokenClientID, RevokeToken.  *)

BeginRevoke(r, c) == BeginToken(r, c, "revoke", "rvResolve")

(* An unknown token is answered 200 and a token of another client 403.     *)
ResolveToken(r) ==
  /\ pc[r] = "rvResolve"
  /\ UNCHANGED <<dbVars, histVars>>
  /\ \/ \E row \in access \cup refresh : /\ row.client = who[r]
                                         /\ Hold(r, "rvAccess", row)
     \/ Finish(r)

IsAccess(row) == "byCode" \in DOMAIN row

(* Mutant of RevokeAccess: a first DELETE without an error is enough.      *)
RevokeOnlyAccess(r) ==
  /\ pc[r] = "rvAccess"
  /\ Goto(r, "rvOk")
  /\ access' = IF IsAccess(held[r]) THEN {row \in access : row.id # held[r].id} ELSE access
  /\ UNCHANGED <<clientStatus, clientSecret, appUsers, codes, refresh, histVars>>

(* The token is deleted from both tables; the request fails only when both *)
(* statements return an error.                                             *)
RevokeAccess(r) ==
  /\ pc[r] = "rvAccess"
  /\ \/ /\ Goto(r, "rvRefresh")
        /\ access' = IF IsAccess(held[r]) THEN {row \in access : row.id # held[r].id}
                     ELSE access
     \/ Faults /\ Goto(r, "rvRefreshOnly") /\ UNCHANGED access
  /\ UNCHANGED <<clientStatus, clientSecret, appUsers, codes, refresh, histVars>>

RevokeRefresh(r) ==
  /\ pc[r] \in {"rvRefresh", "rvRefreshOnly"}
  /\ \/ /\ Goto(r, "rvOk")
        /\ refresh' = IF IsAccess(held[r]) THEN refresh
                      ELSE {row \in refresh : row.id # held[r].id}
     \/ /\ Faults
        /\ IF pc[r] = "rvRefresh" THEN Goto(r, "rvOk") ELSE Finish(r)
        /\ UNCHANGED refresh
  /\ UNCHANGED <<clientStatus, clientSecret, appUsers, codes, access, histVars>>

(* 200 OK.                                                                 *)
AnswerRevoke(r) == pc[r] = "rvOk" /\ Finish(r) /\ UNCHANGED <<dbVars, histVars>>

-----------------------------------------------------------------------------
(* Administration: ClientService and AppUserService.                       *)

BeginAdmin(r, c, op, label) ==
  /\ Admits(op, r)
  /\ clientStatus[c] # "deleted"
  /\ Enter(r, c, label)
  /\ UNCHANGED <<user, histVars>>

OfOther(r, table) == {row \in table : row.client # who[r]}

(* DeleteClient: codes and access tokens go first and their errors are     *)
(* dropped, refresh tokens stay, the client row is soft-deleted last.      *)
BeginDeleteClient(r, c) == BeginAdmin(r, c, "deleteClient", "delCodes")

DeleteClientCodes(r) ==
  /\ pc[r] = "delCodes"
  /\ Goto(r, "delAccess")
  /\ \/ codes' = OfOther(r, codes)
     \/ Faults /\ UNCHANGED codes
  /\ UNCHANGED <<clientStatus, clientSecret, appUsers, access, refresh, histVars>>

DeleteClientAccess(r) ==
  /\ pc[r] = "delAccess"
  /\ Goto(r, "delClient")
  /\ \/ access' = OfOther(r, access)
     \/ Faults /\ UNCHANGED access
  /\ UNCHANGED <<clientStatus, clientSecret, appUsers, codes, refresh, histVars>>

DeleteClientRow(r) ==
  /\ pc[r] = "delClient"
  /\ Finish(r)
  /\ clientStatus' = [clientStatus EXCEPT ![who[r]] = "deleted"]
  /\ UNCHANGED <<clientSecret, appUsers, codes, access, refresh, histVars>>

(* RegenerateSecret: the new secret first, then the access tokens.         *)
BeginRegenerate(r, c) == BeginAdmin(r, c, "regenerateSecret", "regSecret")

UpdateSecret(r) ==
  /\ pc[r] = "regSecret"
  /\ Goto(r, "regAccess")
  /\ clientSecret' = IF clientStatus[who[r]] = "deleted" THEN clientSecret
                     ELSE [clientSecret EXCEPT ![who[r]] = @ + 1]
  /\ UNCHANGED <<clientStatus, appUsers, codes, access, refresh, histVars>>

DropAccessAfterSecret(r) ==
  /\ pc[r] = "regAccess"
  /\ Finish(r)
  /\ \/ access' = OfOther(r, access)
     \/ Faults /\ UNCHANGED access
  /\ UNCHANGED <<clientStatus, clientSecret, appUsers, codes, refresh, histVars>>

(* RevokeClientTokens: access tokens, then refresh tokens; codes stay.     *)
BeginRevokeClient(r, c) == BeginAdmin(r, c, "revokeClientTokens", "rctAccess")

RevokeClientAccess(r) ==
  /\ pc[r] = "rctAccess"
  /\ Goto(r, "rctRefresh")
  /\ access' = OfOther(r, access)
  /\ UNCHANGED <<clientStatus, clientSecret, appUsers, codes, refresh, histVars>>

RevokeClientRefresh(r) ==
  /\ pc[r] = "rctRefresh"
  /\ Finish(r)
  /\ refresh' = OfOther(r, refresh)
  /\ UNCHANGED <<clientStatus, clientSecret, appUsers, codes, access, histVars>>

(* UpdateClient with is_active.                                            *)
SetActive(c, status) ==
  /\ "setActive" \in Ops
  /\ clientStatus[c] # "deleted"
  /\ clientStatus' = [clientStatus EXCEPT ![c] = status]
  /\ UNCHANGED <<clientSecret, appUsers, codes, access, refresh, reqVars, histVars>>

(* RevokeUserAppAuthorization: the app_users row is all that goes.  A      *)
(* withdrawal is remembered when there was a row and no request under way  *)
(* that could have gone before it.                                         *)
RevokeUserApp(a, u) ==
  /\ "withdraw" \in Ops
  /\ appUsers' = appUsers \ {<<a, u>>}
  /\ withdrawn' = IF InFlight = {} THEN withdrawn \cup ({<<a, u>>} \cap appUsers) ELSE withdrawn
  /\ UNCHANGED <<clientStatus, clientSecret, codes, access, refresh, reqVars,
                 consented, raced, replayed>>

-----------------------------------------------------------------------------
(* The environment: a statement fails or the server is killed, and the     *)
(* request ends where it stands; a row passes its expires_at.              *)

Abort(r) ==
  /\ Faults
  /\ pc[r] \notin {"idle", "done"}
  /\ Finish(r)
  /\ UNCHANGED <<dbVars, histVars>>

Aged(row) == [row EXCEPT !.expired = TRUE]

ExpireCode(row) ==
  /\ codes' = (codes \ {row}) \cup {Aged(row)}
  /\ UNCHANGED <<clientStatus, clientSecret, appUsers, access, refresh, reqVars, histVars>>

(* Mutant of ExpireAccess: a refreshed token never expires.                *)
ExpireFirstOnly(row) ==
  /\ row.byCode
  /\ access' = (access \ {row}) \cup {Aged(row)}
  /\ UNCHANGED <<clientStatus, clientSecret, appUsers, codes, refresh, reqVars, histVars>>

ExpireAccess(row) ==
  /\ access' = (access \ {row}) \cup {Aged(row)}
  /\ UNCHANGED <<clientStatus, clientSecret, appUsers, codes, refresh, reqVars, histVars>>

ExpireRefresh(row) ==
  /\ refresh' = (refresh \ {row}) \cup {Aged(row)}
  /\ UNCHANGED <<clientStatus, clientSecret, appUsers, codes, access, reqVars, histVars>>

-----------------------------------------------------------------------------

AuthorizeStep(r) ==
  \/ \E c \in Clients, u \in Users : BeginConsent(r, c, u) \/ BeginSilent(r, c, u)
  \/ CheckAppUser(r)
  \/ \E offline \in BOOLEAN : InsertCode(r, offline)

ExchangeStep(r) ==
  \/ \E c \in Clients : BeginExchange(r, c)
  \/ FindUnusedCode(r) \/ MissUnusedCode(r) \/ FindReusedCode(r) \/ DeleteReusedAccess(r)
  \/ RecheckExchange(r) \/ CreateAccess(r) \/ MarkUsed(r)
  \/ FindAppUser(r) \/ RecordAppUser(r) \/ CreateRefresh(r)

RefreshStep(r) ==
  \/ \E c \in Clients : BeginRefresh(r, c)
  \/ FindRefresh(r) \/ RecheckRefresh(r) \/ DeleteLinkedAccess(r)
  \/ RotateAccess(r) \/ DeleteOldRefresh(r) \/ RotateRefresh(r)

RevokeStep(r) ==
  \/ \E c \in Clients : BeginRevoke(r, c)
  \/ ResolveToken(r) \/ RevokeAccess(r) \/ RevokeRefresh(r) \/ AnswerRevoke(r)

AdminStep(r) ==
  \/ \E c \in Clients : \/ BeginDeleteClient(r, c) \/ BeginRegenerate(r, c)
                        \/ BeginRevokeClient(r, c)
  \/ DeleteClientCodes(r) \/ DeleteClientAccess(r) \/ DeleteClientRow(r)
  \/ UpdateSecret(r) \/ DropAccessAfterSecret(r)
  \/ RevokeClientAccess(r) \/ RevokeClientRefresh(r)

RequestStep(r) == AuthorizeStep(r) \/ ExchangeStep(r) \/ RefreshStep(r)
                    \/ RevokeStep(r) \/ AdminStep(r)

Expiry == \/ \E row \in Usable(codes) : ExpireCode(row)
          \/ \E row \in Usable(access) : ExpireAccess(row)
          \/ \E row \in Usable(refresh) : ExpireRefresh(row)

Next ==
  \/ \E r \in Requests : RequestStep(r) \/ Abort(r)
  \/ \E c \in Clients, status \in {"active", "disabled"} : SetActive(c, status)
  \/ \E a \in Apps, u \in Users : RevokeUserApp(a, u)
  \/ Expiry

Spec == Init /\ [][Next]_vars

(* The runtime schedules every goroutine it has started and time passes;   *)
(* nothing obliges users and clients to send a request.                    *)
Fairness ==
  /\ \A r \in Requests : WF_vars(pc[r] # "idle" /\ RequestStep(r))
  /\ WF_vars(\E row \in Usable(access) : ExpireAccess(row))

FairSpec == Spec /\ Fairness

-----------------------------------------------------------------------------
(* Properties.                                                             *)

Row == CodeRow \cup AccessRow \cup RefreshRow

(* Every variable has its type, and a request in the middle of a handler   *)
(* has the locals that handler needs.                                      *)
TypeOK ==
  /\ clientStatus \in [Clients -> {"active", "disabled", "deleted"}]
  /\ clientSecret \in [Clients -> Nat]
  /\ appUsers \subseteq Apps \X Users
  /\ codes \subseteq CodeRow
  /\ access \subseteq AccessRow
  /\ refresh \subseteq RefreshRow
  /\ pc \in [Requests -> Pcs]
  /\ who \in [Requests -> Clients \cup {None}]
  /\ user \in [Requests -> Users \cup {None}]
  /\ secret \in [Requests -> Nat]
  /\ held \in [Requests -> Row \cup {None}]
  /\ consented \subseteq Apps \X Users
  /\ withdrawn \subseteq Apps \X Users
  /\ raced \subseteq Requests
  /\ replayed \subseteq Requests
  /\ \A r \in Requests :
       /\ pc[r] \notin {"idle", "done"} => who[r] \in Clients
       /\ pc[r] \in IssuingPcs => user[r] \in Users
       /\ pc[r] \in (ExchangePcs \ {"exLookup"}) \cup ReusePcs => held[r] \in CodeRow
       /\ pc[r] \in RefreshPcs \ {"rtLookup"} => held[r] \in RefreshRow
       /\ pc[r] \in RevokePcs \ {"rvResolve"} => held[r] \in AccessRow \cup RefreshRow

(* Every code and every token, however many exchanges, refreshes and       *)
(* silent authorizations away, is for an app its user once allowed: the    *)
(* app_users row that lets AuthorizeHandler skip the consent page never    *)
(* stands in for a consent nobody gave.                                    *)
IssuedOnlyWithConsent ==
  \A row \in codes \cup access \cup refresh : AppUserOf(row) \in consented

(* All rows of a session belong to one client and one user: no sequence of *)
(* exchanges and refreshes moves a session to another client.              *)
ChainKeepsOwner ==
  \A x, y \in codes \cup access \cup refresh :
    x.session = y.session => x.client = y.client /\ x.user = y.user

(* Rotation keeps a session linear: a session has two refresh tokens, or a *)
(* refresh token next to a code that can still be exchanged, only if two   *)
(* requests held one of its credentials at the same time.  Failed          *)
(* statements and restarts alone never fork it.                            *)
ForkOnlyByRace ==
  \A k \in Requests \ raced :
    LET tokens == {row \in refresh : row.session = k}
    IN  /\ \A x, y \in tokens : x = y
        /\ tokens # {} => \A row \in codes : row.session = k => row.used

(* When no statement fails and no request races, a session has at most one *)
(* access token: each refresh removes the token its predecessor issued.    *)
OneAccessToken ==
  \A k \in Requests \ raced :
    \A x, y \in access : x.session = k /\ y.session = k => x = y

(* Once a used code is presented again while no exchange of it is running, *)
(* the access tokens issued for it are gone and none comes back.           *)
ReplayedCodeIsDead ==
  \A row \in access : row.byCode => row.session \notin replayed

(* As long as a client is deleted or disabled, the tokens it has and those *)
(* its requests in flight can still get it only become fewer: a request    *)
(* that passed the client check of the endpoint while the client was       *)
(* active, and not yet that of the token service, gets it nothing more.    *)
(* A row is named after the request that inserts it.                       *)
Cleared(c) == {r \in Requests : /\ who[r] = c
                                /\ pc[r] \in (HoldingPcs \ {"exClient", "rtClient"})}
TokensOf(c) == {row.id : row \in {x \in access \cup refresh : x.client = c}}
GetsNothing(c) == (Cleared(c) \cup TokensOf(c))' \subseteq Cleared(c) \cup TokensOf(c)
InactiveClientGetsNothing ==
  [][\A c \in Clients : clientStatus[c] # "active" => GetsNothing(c)]_vars

(* When RevokeHandler answers 200 the token is in neither table.           *)
RevokedTokenIsGone ==
  \A r \in Requests : pc[r] = "rvOk" =>
    \A row \in access \cup refresh :
      ~(IsAccess(row) = IsAccess(held[r]) /\ row.id = held[r].id)

(* Revoking an app's authorization stops the app: no request that comes    *)
(* later gets an access token for the user until the user allows the app   *)
(* again.                                                                  *)
WithdrawnGetsNothing ==
  [][\A row \in access' : row.id \in {x.id : x \in access}
                            \/ AppUserOf(row) \notin withdrawn]_vars

(* A deleted client ends up with no usable access token, whatever was in   *)
(* flight when it was deleted.                                             *)
DeletedClientDrains ==
  \A c \in Clients : clientStatus[c] = "deleted"
                       ~> [](\A row \in Usable(access) : row.client # c)

(* The tables, seen as the abstract specification sees them.               *)
Face(kind, row) == [kind |-> kind, name |-> row.id, client |-> row.client, user |-> row.user]
UsableTokens == {Face("access", row) : row \in Usable(access)}
                  \cup {Face("refresh", row) : row \in Usable(refresh)}

Grants == INSTANCE OAuthGrants WITH Names <- Requests, allowed <- consented,
                                    tokens <- UsableTokens

(* The server implements the abstract authorization server.                *)
ImplementsGrants == Grants!Spec

-----------------------------------------------------------------------------
(* The inductive invariant behind the safety properties.                   *)

(* A request that has read the credential it will issue from.              *)
Carrying(r) == pc[r] \in HoldingPcs \cup ReusePcs

(* A session is named after a request that has inserted its one code, and  *)
(* a token after a request that is past its INSERT.                        *)
NamesInv ==
  /\ \A x, y \in codes : x.session = y.session => x = y
  /\ \A row \in codes \cup access \cup refresh : pc[row.session] = "done"
  /\ \A r \in Requests : Carrying(r) => pc[held[r].session] = "done"
  /\ \A row \in access : pc[row.id] \in {"exMark", "exFindUser", "exRecordUser", "exRefresh",
                                          "rtDelete", "rtRefresh", "done"}
  /\ \A row \in refresh : pc[row.id] = "done"

(* What is about to be issued is allowed, like what has been issued.       *)
ConsentInv ==
  /\ IssuedOnlyWithConsent
  /\ appUsers \subseteq consented
  /\ \A r \in Requests :
       /\ pc[r] \in {"consentInsert", "silentInsert"} => <<AppOf[who[r]], user[r]>> \in consented
       /\ pc[r] \in HoldingPcs => held[r].client = who[r] /\ AppUserOf(held[r]) \in consented

(* In a session that was never raced there is one right to issue: the      *)
(* unused code, the refresh token, or the request that carries it.         *)
RefreshHolding == {"rtClient", "rtUnlink", "rtAccess", "rtDelete"}
CodeHolding    == {"exClient", "exAccess", "exMark"}
CodeSpent(k)   == \A row \in codes : row.session = k => row.used

OneHolder(k)  == \A r, s \in Holders(k) : r = s
OneRefresh(k) == \A x, y \in refresh : x.session = k /\ y.session = k => x = y
RefreshIsTheRight(k) ==
  \A x \in refresh : x.session = k =>
    /\ CodeSpent(k)
    /\ \A r \in Holders(k) : pc[r] \in RefreshHolding /\ held[r].id = x.id
HolderIsTheRight(k) == \A r \in Holders(k) : pc[r] \notin CodeHolding => CodeSpent(k)

ForkInv == \A k \in Requests \ raced :
             OneHolder(k) /\ OneRefresh(k) /\ RefreshIsTheRight(k) /\ HolderIsTheRight(k)

(* A replayed code can neither be held nor be read again.                  *)
ReplayInv ==
  /\ ReplayedCodeIsDead
  /\ \A k \in replayed :
       /\ CodeSpent(k)
       /\ pc[k] = "done"
       /\ \A r \in Holders(k) : pc[r] \in RefreshPcs
  /\ \A r \in Requests : pc[r] = "reuseDelete" => CodeSpent(held[r].session)

(* A session keeps its owner also on the way through a request: what one   *)
(* holds is of the session's client and user, like its rows.               *)
Lines == codes \cup access \cup refresh
           \cup {held[r] : r \in {q \in Requests : pc[q] \in HoldingPcs}}
SameOwner(x, y) == x.session = y.session => x.client = y.client /\ x.user = y.user

OwnerInv == \A x, y \in Lines : SameOwner(x, y)

IInv == TypeOK /\ NamesInv /\ ConsentInv /\ ForkInv /\ ReplayInv /\ OwnerInv

(* Without failing statements the access token of a session never raced is *)
(* the one its refresh token is linked to, or its holder is about to unlink*)
(* or has just inserted; and a code that can be exchanged has none.        *)
LinkedTo(x, r) ==
  \/ pc[r] \in {"rtClient", "rtUnlink"} /\ x.id = held[r].access
  \/ pc[r] \in {"exMark", "exFindUser", "exRecordUser", "exRefresh", "rtDelete", "rtRefresh"}
       /\ x.id = r

OneAccess(k) == \A x, y \in access : x.session = k /\ y.session = k => x = y
AccessIsLinked(k) ==
  \A x \in access : x.session = k =>
    /\ \A r \in Holders(k) : LinkedTo(x, r)
    /\ Holders(k) = {} =>
         CodeSpent(k) /\ \A y \in refresh : y.session = k => y.access = x.id
HeldIsStored(k) ==
  \A y \in refresh, r \in Holders(k) :
    y.session = k /\ pc[r] = "rtClient" => y.access = held[r].access

Linked(k) == OneAccess(k) /\ AccessIsLinked(k) /\ HeldIsStored(k)

LinkInv == \A k \in Requests \ raced : Linked(k)

(* Without failing statements what RevokeToken has deleted is gone, and    *)
(* nobody can insert a token of that name again.                           *)
Inserted == {"exMark", "exFindUser", "exRecordUser", "exRefresh", "rtDelete", "rtRefresh", "done"}

GoneFrom(table, r) == \A row \in table : row.id # held[r].id

RevokeInv ==
  \A r \in Requests :
    /\ pc[r] # "rvRefreshOnly"
    /\ pc[r] \in {"rvAccess", "rvRefresh", "rvOk"} =>
         pc[held[r].id] \in IF IsAccess(held[r]) THEN Inserted ELSE {"done"}
    /\ pc[r] \in {"rvRefresh", "rvOk"} /\ IsAccess(held[r]) => GoneFrom(access, r)
    /\ pc[r] = "rvOk" /\ ~IsAccess(held[r]) => GoneFrom(refresh, r)

CalmInv == IInv /\ LinkInv /\ RevokeInv
=============================================================================
