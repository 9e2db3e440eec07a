# BasaltPass in TLA+

BasaltPass is a multi-tenant identity and access platform: a Go backend
(`src/basaltpass-backend`) with an OAuth 2.0 / OpenID Connect server, cross-app
token exchange, roles, subscriptions, payments and wallets, and web consoles
around it (`src/basaltpass-frontend`). This directory holds TLA+ models of the
backend and of the consoles, the TLC runs that check them and the proofs TLAPS
checks.

What the models are about: every request is a goroutine, nearly every GORM call
on `common.DB()` is a statement and a transaction of its own, several server
processes may share the database, and requests die half way. Handlers that look
sequential are interleaved statement by statement. The models keep exactly that:
one action per statement, locals carried between statements, failures between
any two.

In the consoles the same happens in one browser: a handler runs to its first
`await`, and before it goes on the user has changed a filter, opened the dialog of
another row or signed in as somebody else, and other answers have arrived. There
the models keep every call, every busy flag and what it disables, and what happens
when a call is refused.

Backend paths below are relative to `src/basaltpass-backend/internal/`, console
paths to `src/basaltpass-frontend/src/`.

## Inventory

| Component | State | Operations | What is hard | What makes it correct |
|---|---|---|---|---|
| OAuth server (`handler/public/oauth`) | clients, codes, access and refresh tokens | authorize, consent, silent and One-Tap sign-in, exchange, refresh, revoke, client administration | concurrent redemption and refresh; requests in flight when a client is disabled; a request that dies between two inserts | tokens only with consent; a session has one line of tokens; replay kills; revocation is real |
| App authorizations (`handler/public/app/app_user`) | `app_users` rows | record on exchange, revoke, ban | the row is consent for later silent sign-ins | a row only for an app the user allowed |
| Signing keys (`oauth/discovery.go`) | `oidc_signing_keys`, a mutex per process | sign, rotate, publish | several processes; rotation between two reads | every live id_token verifies |
| Token exchange (`service/tokenexchange`, `handler/tenant/cross_app_trust_handler.go`) | trusts, two in-memory caches, tokens | exchange; create, update, delete a trust | stale cache entries, flushes that race lookups | bounded staleness, scopes within the trust |
| Wallets (`service/wallet`, `handler/admin/wallet`), gift cards (`service/giftcard`) | balances, ledger, cards | recharge, withdraw, adjust, create, freeze, delete; redeem, invalidate | read-modify-write without row locks, checks before the transaction they are for | the ledger adds up to the balance; no overdraft; a card pays once; one wallet per owner and currency |
| Payments (`service/payment`), orders (`service/order`), subscriptions (`handler/public/subscription`) | intents, sessions, webhook events, orders, invoices, coupons | create session, webhook, reconcile, simulate, expire | redelivered, reordered and half-processed events; timers | each payment has its effect once; no paid order is cancelled |
| Signup and verification (`service/verification`), security (`service/security`, `handler/user/security`) | pending signups, challenges, reset and change tokens | send, verify, resend, complete; reset, confirm | attempt counters and one-time tokens checked outside the transaction that uses them | a token works once; attempts are bounded |
| Login sessions, TOTP, console codes, passkeys (`service/auth`, `handler/public/auth`, `handler/public/passkey`) | JWTs, challenges, used codes in memory | login, second factor, refresh, exchange a console code | process-local memory, double consumption | second factor cannot be skipped; a code works once |
| Rate limits (`middleware/ratelimit`) | counters | count, reset | simultaneous attempts, fail-open | bounded attempts per window |
| Invitations, teams, tenant settings | rows | accept, revoke, transfer, create-or-read | check, then act | one owner per team; a revoked invitation adds nobody |
| Roles, permissions, apps, currencies, S2S and manual API, settings, email, SMS, importer, migrations, audit log | rows, files, outside services | CRUD, lookups, I/O | nothing that interleaves beyond one row | not modelled |
| Console pages (`features/admin`, `features/tenant`, `features/user`, `features/auth`) | rows fetched, filters, open dialogs, busy flags, calls in flight | fetch, filter, open, submit, confirm, delete | answers out of order; a dialog closed or reopened for another row while its call runs; a handler of several calls that fails in the middle | what is on the screen is what the server has, of the row it is about; nothing stays disabled |
| Console API functions (`shared/api`) | none | one HTTP call each | which resources a call reads and writes | a page that writes one reloads what it shows of it |
| Console session and HTTP client (`shared/contexts/AuthContext.tsx`, `shared/api/client.ts`, `shared/utils/auth.ts`, `shared/utils/userSessions.ts`) | access token, remembered accounts, refresh cookie, user on show | load, sign in and out, switch account or tenant, refresh on 401 | calls in flight across a switch, a refresh or a sign-out | the tab acts as the user it shows |
| Layouts, routes, widgets, translations, sign-on of the tenant and admin consoles | rendering, message tables | | nothing that interleaves, or (sign-on) a copy of what the user console does | not modelled |

How they meet: the OAuth server writes `app_users`, which its silent sign-in, the
token exchange and the app's user administration read; the exchange inserts rows
into the access-token table of the OAuth server; payment webhooks write wallets,
orders and subscriptions; gift cards write wallets; signup and login issue the
JWT that the authorization endpoints require. Pages call the server only through
`shared/api`, whose client adds the session's token and refreshes it.

`PROJECT.json` lists each component with its status, and under `hazards` the
lines where this code is hard to test, with the properties that watch them.

## Modules

| Module | What it is |
|---|---|
| `OAuthGrants` | The authorization server seen by a user: allowed apps and usable tokens. Abstract. |
| `OAuthTokens` | The authorization server statement by statement. Defines the refinement `ImplementsGrants` and the inductive invariants `IInv` and `CalmInv`. |
| `OAuthTokens_proofs` | Safety of the server; that it implements `OAuthGrants`. |
| `SigningKeys`, `SigningKeys_proofs` | Keys of several server processes; verifiability of id_tokens. |
| `TokenExchange`, `TokenExchange_proofs` | Trusts, caches and exchanged tokens; how stale a grant can be, and when a pair of apps has two trusts. |
| `Wallet`, `Wallet_proofs`, `WalletSafety_proofs` | Wallets, their transactions and gift cards; types, then the inductive invariant. |
| `Payments`, `Payments_proofs` | Stripe's webhooks, success pages, reconciliation and simulation, with the orders, subscriptions and wallets they write; safety for any number of each. |
| `ConsoleKit` | The vocabulary in which a page is written down. |
| `ConsoleApi` | What each function of `shared/api` reads or writes. |
| `AdminPages`, `TenantPages`, `TenantAppPages`, `UserPages`, `AuthPages` | 98 pages as records. |
| `ConsolePage`, `ConsolePage_proofs` | A browser, its user and the server running one of those records; what holds of every record that fits together. |
| `ConsoleSession`, `ConsoleSession_proofs` | Who is signed in: token, remembered accounts, refresh. |
| `MCConsolePage` | All pages, and the exceptions to the properties, page by page. |
| `MCOAuthTokens`, `MCSigningKeys`, `MCTokenExchange`, `MCWallet`, `MCPayments`, `MCConsoleSession` | The values the `.cfg` files give to function-valued constants, and the symmetry sets. |

Operators called "Mutant of ..." are wrong variants of the action that follows
them. No specification uses them; `PROJECT.json` pairs each with a property that
must fail when it replaces the original.

### OAuthTokens

State: `clientStatus` and `clientSecret` (a version number) stand for
`o_auth_clients`; `codes`, `access` and `refresh` are the token tables; `appUsers`
the `app_users` table. Each request has a program counter `pc` named after its next
statement, the client it acts for, the user, the secret it presented and the row it
has read (`held`). A row is named after the request that inserted it, which stands
for the random token string.

| Code | Actions |
|---|---|
| `ConsentHandler` | `BeginConsent`, `InsertCode` |
| `AuthorizeHandler`, `OneTapLoginHandler`, `SilentAuthHandler` | `BeginSilent`, `CheckAppUser`, `InsertCode` |
| `ExchangeCodeForToken` | `BeginExchange`, `FindUnusedCode`, `RecheckExchange`, `CreateAccess`, `MarkUsed`, `FindAppUser`, `RecordAppUser`, `CreateRefresh` |
| `revokeTokensForReusedAuthorizationCode` | `MissUnusedCode`, `FindReusedCode`, `DeleteReusedAccess` |
| `RefreshAccessToken` | `BeginRefresh`, `FindRefresh`, `RecheckRefresh`, `DeleteLinkedAccess`, `RotateAccess`, `DeleteOldRefresh`, `RotateRefresh` |
| `RevokeHandler`, `ResolveTokenClientID`, `RevokeToken` | `BeginRevoke`, `ResolveToken`, `RevokeAccess`, `RevokeRefresh`, `AnswerRevoke` |
| `DeleteClient`, `RegenerateSecret`, `RevokeClientTokens`, `UpdateClient` | `BeginDeleteClient` ... `SetActive` |
| `RevokeUserAppAuthorization` | `RevokeUserApp` |
| a failing statement, a killed process | `Abort`, and the fault branches of statements whose error the code drops |
| `IsExpired` | `ExpireCode`, `ExpireAccess`, `ExpireRefresh` |

Abstractions: time is a choice (any row may expire at any moment, which covers
every lifetime); redirect_uri and PKCE comparisons are a choice of succeeding or
not; tokens minted by an exchange of `TokenExchange` are not in this module; a
soft-deleted row is a removed row. `private_key_jwt` clients prove themselves once
at the endpoint, and the re-check inside the token service asks them nothing, as it
asks nothing of public clients. The tenant join of the exchange
(`EnsureUserTenantIdentity`, `EvaluateUserTenantAuthorization`) is left out: it
can only end the request, which `RecheckExchange` may do anyway, or write rows that
no action here reads.

History variables record what a property needs to say: the apps a user allowed
(`consented`), the rows of `app_users` deleted by a revocation while no request was under
way, and not allowed since (`withdrawn`), the sessions two requests held
at once (`raced`), the codes replayed with no exchange in flight (`replayed`).

### SigningKeys

`status`, `notAfter`, `created` are the columns of `oidc_signing_keys`; `lock` is
`signingKeyMutex`, one per server process. `BeginSign`, `FindActive`, `CreateKey`
follow `buildIDToken` through its two calls of `ensureActiveSigningKey`;
`BeginRotate` and `CommitRotate`/`RollbackRotate` are `RotateOIDCSigningKey`,
which reads the clock before its transaction; `BeginJwks` and `ReadJwks` are
`JWKSHandler`. `Restart` kills a process and frees its mutex. Nothing in the code
makes standby keys, but rotation prefers one, so `Init` allows one that an operator
put there.

Assumed: the processes' clocks agree; the rotation transaction is serializable; it
commits within `Stall` of reading the clock, with `TokenTTL + Stall <= Retention`
(`RetentionAssumption`: one hour for an id_token, two hours of retention, so a
rotation has an hour).

### TokenExchange

`trusts` is `cross_app_trusts`, `members` the active rows of `app_users`, `cache`
one trust cache for each of the two packages that call `NewService()`. An exchange
is `BeginExchange`, `GetCache`, `FindTrust`, `SetCache`, `CheckUser`,
`CreateToken`; the admin handlers are `CountTrusts`/`InsertTrust`,
`BeginUpdate`/`UpdateTrust`, `DeleteTrust`, each followed by `Flush`. One server
process is modelled; `Kill` ends its requests and empties its caches. `Stall`
bounds how long an exchange takes from finding the trust to creating the token.
Authentication, the subject-token checks and the resolution of the target app come
before `BeginExchange` and read rows no action here writes. The lifetime of the new
token and the audit log are left out.

### Wallet

`wallets` is `market_wallets`, `booked` the sum of a wallet's `market_wallet_txes`,
`cards` the status of each gift card and `expired` those past `expires_at`. An owner is
a user or a team together with its tenant and a currency. A request has a `pc` and, in
`req`, what it asks and the copy of the row it has read; a row is named after the
request that inserted it.

Every operation here reads a wallet with a plain SELECT and later writes what it has
computed from the copy. What its transaction writes is seen by others at the commit, so
an operation is a read and a commit, and a statement outside the transaction is an
action of its own.

| Code | Read | Write |
|---|---|---|
| `RechargeWithTenant`, `WithdrawWithTenant`, `AdjustByCodeWithTenant` | `BeginRecharge`, `BeginWithdraw`, `BeginAdjustByCode` | `CommitSave`, of the whole row |
| `Redeem` | `BeginRedeem`, which takes the card's row lock | `CommitRedeem`, of the balance column |
| `GetBalanceWithTenant`, `EnsureUserCreditWalletTx` | `BeginGetBalance` | `CommitGetBalance` |
| `AdjustBalance` | `ReadForAdjust`, before the transaction | `CommitAdjust`, of the balance column |
| `AdjustUserBalance`, `AdjustTeamBalance` | `BeginAdjustOwner` | `InsertForAdjust` if missing, then `AdjustBalance` |
| `CreateWalletForUser`, `CreateWalletForTeam` | `BeginCreateWallet` | `CommitCreateWallet`, `BookInitial` |
| `DeleteWallet` | `BeginDelete`, before the transaction | `CommitDelete` |
| `FreezeWallet`, `UnfreezeWallet`, `InvalidateByID` | | `SetFreeze`, `InvalidateByID` |
| a failing statement, a killed process | | `Abort` |

`Save` updates every column where the row is not deleted and, finding none, inserts it
again; `Update` of one column does nothing then. Balances are int64: `Wrap` is their
sum. Three history variables name what the code cannot withstand, and excuse just the
rows and owners it has happened to: `raced`, rows one request read or froze while
another held a copy of them; `contested`, owners whom two requests found without a
wallet at once or for whom GetBalance's lookup failed; `overflowed`, rows whose sum
left int64. Without any of the three the properties fail.

Left out: the status `expired` (`Redeem` writes it in the transaction it then rolls
back), the resolution of currencies and tenants, the feature flag, the conversion of
decimal amounts, listings. `EnsureCreditWalletsForAllUsers`, run by a migration, is
`BeginGetBalance` for each user, in one transaction the model does not keep together.

### Payments

What Stripe knows (`stripe`, `canceled`), what the database knows (`status` of
`market_payment_sessions`, `buys` and `starts` for the order and the subscription the
metadata of their intents names, which may be both, `events` for
`market_payment_webhook_events`, `orders`, `plans` for subscriptions a checkout has left
pending, `subs` for the subscriptions of an order, `credits` for how often a session's
amount went into the wallet) and what each request has read (`job`). A webhook call is
one of `Deliveries`, a request of a user or an admin one of `Visits`.

| Code | Actions |
|---|---|
| `ProcessStripeWebhook` | `Deliver` (lookup and insert of the event), then inside the transaction the next row, `MarkProcessed`, `RollBack` |
| `processStripeCheckoutSessionEvent`, `processStripePaymentIntentEvent` | `ReadSession`, `SaveSession`, `Credit`, `ConfirmSubscription`, `ConfirmOrder`, `Commit` |
| `processOrderPaymentWebhook`, `processSubscriptionPaymentWebhook` | `SettleOrder`, `SettlePlan`: a transaction of its own each, within a step of whoever calls them (`Settle` is an action that does both) |
| `CreatePaymentSessionForTenant`, `bindOrderPaymentSessionIfPresent` | `CreateSession`, `BindOrder` |
| `GetOrder` with `activate`, `FinalizeOrderPaymentBySessionForUser` | `GetOrder`, `Finalize`, `TrustUser`, `LookAgain`, `ReconcileOrders`, `Reconciled` |
| `ReconcileUserOrderPaymentsFromStripe`, `ListSubscriptions` | `TakeUp`, `ListSubscriptions`, `AskStripe`, `ConfirmPaid`, `SettleSession` |
| `SimulatePayment` | `Simulate`, `SimulateOrder`, `SimulateRead`, `SimulateSave`, `SimulateCredit` |
| an error handed on, a killed process | `Die`, and the `Faults` branches where the code goes on |
| Stripe and its customer (external) | `UserPays`, `SessionExpires`, `IntentCanceled`, `Due` |

The webhook's transaction covers the session and its intent only. What it calls for the
wallet, the order and the subscription takes connections of its own (`common.DB()`), is
visible at once and stays when the transaction is rolled back; the session row is locked
from `SaveSession` on (`lock`) and changes for others at `Commit`.

Left out: statuses of payment intents, which no code reads before it acts; the creation of
an intent, which fixes what `buys` says; signatures and the choice of a tenant's secret,
which only refuse calls; locks other than that of the session row (the schema has no
foreign keys, `internal/common/database.go:46`), so that two transactions in each other's
way are a statement that fails; `backfillSubscriptionsFromPaidOrders`, which finds nothing,
as an order gets its subscription in the transaction that makes it paid; `ExpireOrders` and
`UpdateOrderStatus`, which nobody calls. An amount here is put into the wallet once or
twice; what a recharge does there is `Wallet`'s matter.

`mishaps` records the sessions with which something happened that the code cannot
withstand: two requests had both found one incomplete and would credit it, a complete one
was turned back to expired, or a webhook ended after its credit and before its commit.
`met` records that somebody confirmed an order while a visit had it in hand. `simulated`
counts an admin's simulations of a session, which may be as many as `MaxEvents` allows.

An error the code drops is a branch of the step and not an end of the request: of the save of
a canceled intent's session (`service/payment/service.go:577`), which commits the rest, and
of binding a session to its order during reconciliation (`:1473`).

### Console pages

All pages are built from the same few things, so a page is data and the machine that
runs it is written once.

A page record has `loads` (its fetch functions: which API calls, what sends them, what
they do with the rows meanwhile and on failure), `acts` (its handlers: the calls in
order, the flag they raise, what they fetch again, which dialog they close) and
`parts` (the page and its dialogs: the panels each shows, its controls, and the flags
that disable or replace them). `map` ties each record to its file.

`ConsolePage` is given a catalogue of such records and picks one in `Init`. `WellFormed`
says when the parts of a record fit together (the loads, dialogs and flags it names are
there); TLC evaluates it, as an assumption, for all 98. The page, its tab and the dialogs
over it are `surfaces`, a stack kept as a set of entries with the number under which each
was opened.

`ConsolePage` follows the code's conventions:

- `setLoading(true)` raises a flag; a `finally` lowers it on success and refusal,
  without `finally` `lowers` says which. `PButton loading` disables, a `PTable loading`
  replaces the rows, and controls within, by a spinner.
- A handler that awaits its reloads keeps its flag up until they are over (`waits`): each
  call carries what is owed when it is answered (`owed`), the flags to lower and, where a
  handler awaits one load after another (`after`), the loads to send next.
- A handler keeps the filters and the row of the render it was made in (`captures`),
  so a reload after it may use the filters of before.
- Calls of one handler follow each other (`Serve`, once per call); a refused call ends the
  handler (`ActRefused`) unless it swallows the error (`blind`). The two saves of the user's
  settings are sent at once (`together`, a `Promise.all`) and answered in any order (`Ready`):
  the first that is refused ends the handler and lowers its flag, the other goes on without
  it (`Remaining`). A load of several calls is one call that is answered when all are.
- An answer to a load carries the server's data at some moment since it was sent
  (`LoadDone`), so that answers overtake each other and writes.
- `Modal` calls `onClose` whenever it is asked to. A dialog that cannot be left while
  its act runs (`held`) is one of the hand-made overlays that check their flag.
- A handler whose early return fires is a step that changes nothing, and is not
  written down. A busy flag that holds the ID of one row disables that row's button only;
  the model does not tell rows apart, so the flag is raised and lowered and disables
  nothing; `SentTwice` lists its acts.
- A dialog closes with the success of its act. The edit form of a tenant closes after the
  reload that follows (`features/admin/tenant/TenantDetail.tsx:176`), during which the
  skeleton of the page is in place of form and buttons, so that no click can tell.
- Leaving the page by a timer after a success is an act of no calls, `leave`.

Left out: sorting and filtering done in the browser, messages (`uiAlert`, toasts),
formatting. The records are of the pages the routers of the three consoles
(`apps/admin`, `apps/tenant`, `apps/user`) mount. Left out of those are the pages of text
(About, Help, Terms, Privacy, copyright), which make no calls, and `OauthSuccess`, which
sends one refresh when it is opened. Left out too: the layouts, whose
calls sign out, switch the account or tenant or sign on to another console; the widgets
`EntitySearchSelect` and `UserTooltip` and `ConfigContext`, which fetch suggestions, a user's
summary and the site's settings on whatever page they stand on; and `admin/user/Wallets.tsx`,
`EmailChangeConfirm` and `EmailChangeCancel`, which only `src/router.tsx` routes, a router no
console mounts. Events of other tabs reach no
page.

### ConsoleSession

One tab of the user console. `issued` lists the access tokens in the order of issue
with the account of each; `stored` is `bp_user_access_token`, `sessions` is
`bp_user_console_sessions`, `cookie` the account of the refresh cookie, which scripts
cannot touch. Every asynchronous function is a task that stops at each call and
resumes with its answer:

| Code | Actions |
|---|---|
| `checkAuth` | `Mount` (in `Init` and `Reload`), `ProfileDone`, `TenantsDone`, `LanguageDone`, `GivesUp` |
| `login`, `logout`, `signOutAccount` | `Login`, `Logout`, `SignOut` |
| `switchAccount`, `switchTenantIdentity`, the `?tenant=` effect | `SwitchAccount`, `SwitchTenantIdentity`, `IdentityDone`, `TenantHint`, `LookupDone` |
| request interceptor | the `header` of each call |
| response interceptor and its queue | `Unauthorized`, `Refreshed`, `RefreshFailed` |
| `ProtectedRoute`, `PublicRoute`, `window.location` | `Route`, `Reload` |
| token and cookie lifetimes | `Expire`, `CookieExpires` |

`PageCall` stands for a call of any page. Not modelled: other tabs, which read,
change and write the same `localStorage` entry; the tokens of the tenant and admin
consoles; impersonation.

## Runs

All constants of an instance are in its `.cfg`. Requests, keys and ticks are the
bounds: a request is served at most once (in `Payments` a slot is used again), so a run covers every history of that
many requests.

| Run | Instance | Question |
|---|---|---|
| `OAuthRace` | 4 requests, 3 in flight, 1 confidential client, all operations, faults | Consent, linear rotation, replay. Four requests are enough for consent, two exchanges and a refresh, or a replay in between. |
| `OAuthSessions` | 5 requests, 2 in flight, a confidential and a public client of different apps, no faults | Ownership of sessions, one access token per session, revocation (with a failing statement `RevokeToken` may answer 200 for a token it left, as its comment at `server_service.go:1172` says), refinement of `OAuthGrants`. Five requests make two sessions of one user with a refresh. |
| `OAuthDrain` | 4 requests, 2 in flight, fairness | Disabled and deleted clients against requests in flight. |
| `OAuthWithdrawn` | 3 requests, one at a time | Does revoking an app stop it? It does not. |
| `SigningKeys` | 3 goroutines in 2 processes, 3 keys, 2 ticks, faults | Verifiability, also after two processes have both made an active key. Three keys are two rotations, or a cold-start race and a rotation. |
| `SigningKid` | 2 goroutines of 1 process | Does the kid name the signing key? Not if a rotation commits between the two lookups. |
| `TokenExchange` | 4 requests, 1 pair of apps, 1 user, 2 scopes, 4 ticks, faults | How stale a grant can be; when a pair has two trusts. Cache lifetime and stall are one tick each, so an entry outlives its row, is used late and expires within the clock. |
| `TrustInvalidated` | 4 requests, 2 ticks, no faults | Does a confirmed deletion stop exchanges that begin later? It does not. |
| `Wallet` | 1 owner with or without a wallet, 1 gift card, 3 requests of any kind, amount 1, int64 from -3 to 2, faults (1,538,332 states) | Does the ledger add up, is nobody below zero, does a card pay once, does an admin's freeze or deletion stand, is there one wallet? Three requests are two that meet and one that was there before or comes after. Recharge, redemption and an opening balance of 1 reach the end of int64. The instance with amounts 1 and 2 (7.3 million states) passes as well and is left to the proofs, which hold for all amounts. |
| `Payments` | 1 order, 1 pending subscription, 2 sessions (the first for the order, the second for the order and the subscription or for the subscription alone), 2 webhook calls and 1 visit under way at once, as many after each other as come, 2 events of Stripe or simulations, faults, fairness (900,603 states) | Is an amount credited twice, is a second subscription made, is an order paid for nothing, is a payment never booked? Two sessions of one order are the smallest case in which a late event of one meets the other; two webhooks and a visit are two confirmations that overlap and one that came before. |
| `ConsolePages` | all 98 pages, 2 user events (3 on 14 pages with dialogs about rows, 4 on 3 pages), 1 refused call, 3 events and refusals in all, 4 on those 3 pages (674,880 states) | Do panels show their filters, and what the user changed? Are refused acts shown as done? Is an act sent twice? Does a dialog show another row? Does anything stay disabled? Two events are an act and a change of filters, or two acts, in any order of answers; three are to open a dialog, submit, leave and open the next; four are to open it, save, close it over the running save, open it again and save again, which `Coupons`, `Prices` and `Plans` allow; one refusal reaches each error path. The pages of an app's users and of all wallets keep to two events, as three give each more states than all others have together. |
| `ConsoleSession` | 3 accounts of 2 users, 3 tokens, 2 tasks after the one of the mount, 1 lost call, refused refresh or reload (1,339,152 states) | Who is the tab, what do remembered accounts open, does signing out last, does everybody who waits get an answer? Two tasks are a switch and a page call whose refresh falls into it; the third token is the refreshed one. |

The page properties have exceptions: pages on which the code does not do it. They are
tables in `MCConsolePage` (`PanelsLeftStale`, `RefusalsHidden`, `PanelsOvertaken`,
`DialogsThatMix`, `SentTwice`), given to `ConsolePage` as constants. An entry excuses one panel of
one page (and one act), everything else is checked; without any one entry the run fails.
Two need more clicks than the run has. The transactions of `Wallets` are overtaken or left
stale with three, as TLC shows when that page alone is explored. In the apps tab of the team
page (`Members`) two fetches overlap only after four, because the answer to another call lowers
the flag they share: the proof of `InOrderShown` asked for the entry, and TLC shows the steps
when that page alone is explored, which takes longer than all pages with their bounds.

The properties of `ConsoleSession` have preconditions of the same kind. `astray`
records which of four mishaps have occurred: a refresh granted for an account other
than the token's (`otherCookie`), a refresh that ends after its token was replaced
(`lateRefresh`), a tenant hint that goes on when the user has moved on (`lateHint`) or
whose token does not work (`failedHint`). `ShowsWhoItIs` holds until one of them,
`SessionsHoldTheirTokens` until one of the first three, `StaysSignedOut` until
`lateRefresh` or `lateHint`, `SpinnerHasCause` and `NobodyWaitsForever` always.

Deadlock is not checked elsewhere than in `Payments`: when the bounded requests are done the system stops,
which is the bound and not the code. `OAuthDrain` shows instead that requests in
flight do not keep a deleted client alive.

Fairness, used by `OAuthDrain`: each started request is weakly fair, because the
Go runtime schedules every runnable goroutine and the database answers or fails;
expiry of access tokens is weakly fair, because time passes. Nothing obliges a
client, a user or an administrator to send a request, and codes and refresh tokens
need not expire for the property. `OAuthWithdrawn` uses the same specification.

Fairness of the consoles (`ConsolePages`, `ConsoleSession`) is one `WF_vars(Answer)`:
every call is answered, if only by the timeout of axios (`shared/api/client.ts:7`),
and the browser runs what waits for the answer. Users need do nothing, not even
answer a question, and no token need expire; a user may stop for good, which is why
these runs do not check deadlock either.

Fairness of `Payments`: `WF_vars` of the delivery of some event, because Stripe sends an
event again until it is answered with 200, and of the steps of each webhook call, because
the process runs it until it ends or dies, if only of the lock timeout of the database.
Users and admins owe nothing, so `PaidIsBooked` rests on the webhook alone. Deadlock is
checked in this run, where a user may always ask for the list once more.

`Wallet` has safety properties only: an operation may die at any statement, and the code
promises no more.

The runs of `OAuthTokens`, `TokenExchange` and `Wallet` declare requests symmetric where they
check safety only; `OAuthSessions` checks `ImplementsGrants`, of the form Init and [][A],
which symmetry preserves. The liveness runs have no symmetry.

## What the runs found

- **Withdrawal does not stop an app** (`OAuthWithdrawn`). `RevokeUserAppAuthorization`
  (`handler/public/app/app_user/service.go:136`) deletes the `app_users` row; refresh
  tokens and codes go on working, and an exchange even writes the row again. The run shows
  consent, exchange, withdrawal of the row that is there, and then a refresh, begun after it
  and answered with a new access token.
- **A kid can name the wrong key** (`SigningKid`). `buildIDToken` looks the active key
  up twice (`server_service.go:438` and `:461`).
- **The cache flush misses** (`TrustInvalidated`). The admin handlers flush the cache of
  their own `Service`; exchanges read another. A deleted trust grants tokens until the
  60 seconds of its entry are over.

No document says what two simultaneous operations on one wallet should do, so these are
the exceptions of the properties of `Wallet`, and each was needed:

- **Changes get lost.** Two recharges, or a recharge and a withdrawal, that read the same
  row leave two transactions and one change of the balance (`service/wallet/service.go:219`,
  `:272`). Two withdrawals do not overdraw: one of them is lost.
- **Save writes back old columns.** A freeze between the read and `Save` is undone; a
  wallet deleted between them is there again (`service/wallet/service.go:224`).
- **An owner can get two wallets.** Nothing but the lookup prevents it, and GetBalance
  takes a failed lookup for a missing wallet (`service/wallet/service.go:167`).
- **An opening balance may have no transaction**: a negative one never has
  (`handler/admin/wallet/service.go:208`), and the error of writing it is dropped (`:216`).
- **Money can be deleted**, when it arrives between the look at the balance and the
  deletion (`handler/admin/wallet/service.go:565`).
- **A balance can wrap** to a negative number (`service/wallet/service.go:223`).

The column `freeze` is written and shown, and no operation looks at it: a frozen wallet
pays like any other.

In the payments the properties needed these exceptions. One comment speaks of a second
confirmation: `handler/public/subscription/webhook.go:35` skips a payment that has succeeded
already, "幂等处理，已经成功的支付不重复处理" (idempotent). It is about `model.Payment`, nothing
calls its `ProcessSubscriptionWebhook`, and the code below has no such check.

- **Orders get two subscriptions in the usual course**: the success page confirms the order,
  and the webhook that follows makes another subscription without looking
  (`service/payment/service.go:1238`). The other way round the page does look.
- **The success page is taken at its word.** `GetOrder` with `activate` confirms a pending
  order that has a session, and asks Stripe only about those without one (`:1442`).
- **A webhook that failed is never done again.** Its event is recorded first (`:633`), and
  the retry Stripe sends finds the record and is answered 200 (`:609`).
- **Its credit stays.** `RechargeByCodeWithTenant` runs on another connection than the
  transaction (`:494`).
- **Reconciliation swallows the credit.** It makes the session complete (`:1496`), after
  which the webhook no longer credits it (`:492`).
- **An old session cancels a paid order.** Its expiry sets the order it names to cancelled
  whatever paid it (`:1273`), and a page under way then confirms it once more.
- **A canceled intent turns a complete session back** to expired (`:576`), and whoever
  completes it next credits it again.

In the consoles no comment or document claims the opposite of what the runs showed, so
these are exceptions and preconditions of the properties above:

- **Switching accounts keeps the cookie.** `switchAccount` stores the other account's
  access token, the refresh cookie remains. The next refresh makes the tab the first
  account while it shows the second (`shared/contexts/AuthContext.tsx:235`,
  `shared/api/client.ts:119`).
- **A refresh ends late.** One that was under way at a sign-out or a new sign-in stores
  its token all the same; one that is refused drops the newer token.
- **loadIdentity stores first** and validates then, and at the end remembers the token it
  was given even when a refresh has replaced it (`shared/contexts/AuthContext.tsx:153`).
- **Old answers stay.** On 28 pages an answer for the filters, page or row of before can
  come last and remain (`PanelsOvertaken`); three dialogs then show another row's rights.
- **Panels are left stale** by 16 pages' own handlers, among them those that stop after
  the first of two calls (`PanelsLeftStale`).
- **Acts can be sent twice** (`SentTwice`) in three ways. Three dialogs: the busy flag of the coupon, price and plan dialogs is
  state of the dialog, and the Modal around it closes on a click beside it while the call
  runs; opened again it can be saved again
  (`features/tenant/subscription/CouponManagement.tsx:440`). Four pages of rows: the flag
  holds the ID of one row, a click on another moves it, and the first can be clicked again
  (`features/tenant/user/GlobalUserAuthorization.tsx:58`, `features/user/apps/Index.tsx:36`,
  `features/user/invitations/Inbox.tsx:58`, `features/user/subscription/Products.tsx:49`;
  the model counts the second row already). The user's settings: two saves are sent at once
  and the first refusal lowers the flag, after which a second click sends both while one of
  the first two is under way (`features/user/Settings.tsx:278`).
- **Refusals are hidden** by the notification context: the page changes its list anyway
  (`RefusalsHidden`).

Seen on the way and outside the properties: `features/user/team/Edit.tsx:68` never
sends what was edited; the admin home page shows made-up figures when its calls fail
(`features/admin/Dashboard.tsx:125`).

Documented limits rather than findings: two simultaneous redemptions or refreshes
fork a session (`ForkOnlyByRace` says it takes a race, and the code has one: the
lookup and the update are separate statements); a replayed code deletes the access
tokens of its exchange and not the refresh token; a session whose
`DeleteLinkedAccess` failed has two access tokens (`OneAccessToken` is checked
without faults).

## Proofs

Checked by `tlapm` for all values of the constants that satisfy the named
assumptions, with no bound on requests, clients, keys or ticks.

**OAuthTokens.** `IInv` is inductive: `TypeOK` and

- `NamesInv`: rows are named after requests that are past their INSERT, one code per
  session. Without it nothing prevents an insert from colliding with an existing name.
- `ConsentInv`: `IssuedOnlyWithConsent`, together with what makes it inductive: every
  `app_users` row is consented, and so is what a request in flight is about to issue.
- `ForkInv`: in a session never raced there is one right to issue (the unused code, the
  refresh token, or the one request that holds it). `ForkOnlyByRace` alone is not
  inductive: it does not see a request that has read a token and not yet used it.
- `ReplayInv`: a replayed code is spent and held by no exchange, so nobody can insert
  an access token for it.

- `OwnerInv`: all that belongs to a session, whether a row, a row some request has read or
  the session another request is serving, has one owner: client, user and app.
  `ChainKeepsOwner` only sees the rows.

Each part has one lemma per action it can be disturbed by and a step lemma; theorems
`TypeCorrect`, `Invariance`, `ConsentFirst`, `RotationIsLinear`, `ReplayKills` and
`OwnerKept` follow. `InactiveGets` shows the action property `InactiveClientGetsNothing`
from the same invariant: a step that issues something to a client comes after a check at
which the client was active.

Two properties hold only while no statement fails (`~Faults`), because the code goes on
when a DELETE fails (`server_service.go:1172` says so of `RevokeToken`): a refresh may then
leave the old access token, and a revocation the token. Their theorems `RefreshReplaces`
and `RevocationHolds` assume that, and rest on `CalmInv`, which is `IInv` and

- `LinkInv`: the access token of a session never raced is the one its refresh token is
  linked to, or the one its holder is about to delete or has just inserted. One access
  token at most is not inductive without knowing which.
- `RevokeInv`: a token `RevokeToken` has deleted was inserted by a request that is past its
  INSERT, so its name cannot come back.

`Refinement` shows that `UsableTokens` and `consented` implement `OAuthGrants`: each step
issues one token under a free name for an allowed app, allows an app, lets tokens go, or
changes neither.

**SigningKeys.** `KeysInv` is `TypeOK` and `LastsInv`: every token's key, every kid and
every key held by a goroutine that is about to sign stays published until the
expiry that goes with its clock reading. `KeysTypeCorrect`, `KeysInvariance`,
`AlwaysVerifiable` follow; the last one uses `RetentionAssumption`.

**TokenExchange.** `ExchangeInv` is inductive: `TypeOK` and

- `CacheInv`: an entry's trust was in the table at most `CacheTTL + Stall` before the
  entry lapses.
- `HoldersInv`: a request past the lookup looked its trust up at most `Stall` ago, and
  the row was then in the table or at most `CacheTTL + Stall` out of it; about to create
  the token, it has seen the user as a member since.
- `TokensInv`: `GrantsAreFresh`. It adds up the two others, and cannot see a stale cache
  entry or a request about to use it by itself.
- `DuplicateInv`: a pair whose creations were all counted has at most one row or one
  request between count and insert, never both.

What a step may do to the tables is one lemma (`TablesStep`): the clock does not go
back, a row in force at some time stays so, and so does a membership. The rest
of the proof only looks at the request that moves. `ExchangeTypeCorrect`,
`ExchangeInvariance`, `GrantsStayFresh` and `DuplicatesByRaceOnly` follow. They
assume no relation between `CacheTTL` and `Stall`.

**Wallet.** `WalletInv` is inductive. Its core is `CopyInv`: a request about to write a
row that is not raced is the only one to hold it, and its copy is the row. So what it
writes is right for the row as it is now, and not as it was. Around it:

- `CheckedInv`: what was checked of a copy holds of it (the decreased balance, the empty
  wallet of a deletion), and what goes unchecked is an increase.
- `CopyNotNegative`: copies are no more negative than wallets. `NeverNegative` needs no
  exception for races, and so cannot rest on `CopyInv`.
- `AbsentInv`: rows not inserted yet are empty.
- `CardInv`: who has locked a card is alone with it, and it has not paid.
- `MissingInv`: who is to insert the wallet of an owner not contested is alone, and that
  owner has none but such as a save has brought back.

`Wallet_proofs` proves `TypeOK` with `Formed`, what a request holds between its read and
its write; `WalletSafety_proofs` has one lemma per part and kind of step, and the
theorems `WalletInvariance`, `LedgerHolds`, `NobodyOverdraws`, `CardsPayOnce`,
`OrdersAreKept`, `DeletionIsClean` and `OneWallet`. They assume `WalletAssumption`, that
amounts are positive int64, and nothing of the number of requests, owners or cards.

**Payments.** `PaymentsInv` is inductive: `TypeOK`, `PaidWasPaid`, `OneSubscription` and

- `FormedInv`: what a request knows at each place, such as that the session a
  reconciliation is about to confirm was paid at Stripe, or that its list names an order
  once. `PaidWasPaid` needs it of requests that have asked and not yet written.
- `SubsInv`: a pending order has no subscription, and a visit that holds an order which has
  one has met whoever made it. `OneSubscription` speaks of subscriptions that exist, this
  part of the visit about to make one from what it has read.
- `EventInv`: the unique index. A recorded event has at most one delivery under way, and
  when it has made its subscription that delivery is past doing so.
- `CreditInv`: without a mishap one request owes the amount of a session; it is in no
  wallet before, and afterwards the session is complete or about to be. `CreditedOnce` is
  its fourth conjunct.

The proof does not go through the actions part by part. What the parts read is left alone
by most steps, so steps are first shown to be of a few kinds (a request becomes another
job and the tables stand still, the tables grow, an order gains a subscription, a request
comes to owe a credit), and each part is preserved by each kind it is touched by. Then one
step per action says which kinds it is of. `PaymentsTyped`, `PaymentsInvariance`,
`CreditsOnce`, `SubscribesOnce` and `NoOrderPaidUnasked` follow, for any number of orders,
plans, sessions, deliveries and visits that `PaymentsAssumption` allows.

**ConsoleSession.** `SessionInv` is inductive: `TypeOK`, `SpinnerHasCause` and

- `OneIdentity`: short of a late hint there is one task that establishes who the user is,
  it runs behind the spinner, and the user is held on the page where it began.
- `TokenInv`: unless a refresh or a hint came late, who is in has a token, and a refresh
  left over on the login page is of another token than the one stored.
- `AccountInv`: what is being loaded, and the entry where it will be remembered, are of
  one account.
- `SessionsHoldTheirTokens`, and `ShownInv`: the token is of the account shown, or the
  one that comes back if the change fails is.

The properties see the tab at rest only; the parts say what holds between two calls of a
switch. One lemma per action and part, and the theorems `SessionTypeCorrect`,
`SessionInvariance`, `ShowsTheOwner`, `SessionsAreOwn`, `SignOutStands` and
`SpinnerIsOwned`, for any number of accounts, tokens, tasks and failures.

**ConsolePage.** The theorems are about every catalogue of records that satisfies
`PagesAssumption`, `FailuresAssumption`, `PretendsAssumption` and `DoubledAssumption`,
with any number of events and refusals; the run evaluates the assumptions for the 98
records. The invariants are

- `IInv`: `TypeOK`, and under the dialogs there is a surface that no `Close` takes away
  (`Base`), without which there might be nothing on top.
- `Believed`: what a panel takes for done is what `Pretends` lists, also of panels that are
  not on the screen.
- `HeldInv`: for a flag wired as `Guards` asks, one call at most ends with the flag lowered,
  be it the act or the last load its handler awaits; the flag is up while there is one, and
  a question put before an act (`asking`) excludes one. `Guards` is read off the record: the
  flag lives in the page, no load has it too, each control that sends its acts is disabled
  or covered by it, none of its acts sends several calls at once, and what is awaited is
  awaited one at a time. `DoubledAssumption` says
  that every flag of an act is of this kind or its act is listed in `Doubled`.
- `DoneInv` and `Deferred`: what an act has done are its first calls, or any of those sent
  together, and only a handler
  that reloads in two rounds leaves loads owed.
- `FetchInv`: a write that its act fetches again is still owed by a call in flight, or the
  last call of the load was sent after it. `SeesOwnWrites` speaks of the page at rest and
  cannot see what is on its way.

`TypeCorrect`, `OnlyDoneIsShown`, `NoneTwice` follow, and `OwnWritesSeen`, which is about
`Diligent` pages: those where every panel an act's last call touches is fetched again by the
handler. All pages are, short of `PanelsLeftStale`, but three whose dialogs fetch at the
next opening; there `SeesOwnWrites` is left to the run.

`ShowsItsOwnRow` and `ShowsItsQuery` each page keeps for a reason of its own. The reasons are
conditions on the record: every panel of a page meets one of them, or is listed.

`RowsApart` has two for a dialog that is about a row, and `OwnRowShown` proves that either is
enough. All 98 records have it (`RowsApartPages`, which TLC evaluates).

- `OpensBare`: a click opens the dialog and fetches the load, and the old rows are emptied
  (`resets`), or a flag that only this load has covers them until its answer. `BareInv`: the
  dialog is on top as long as it is there; rows of another row are hidden by the raised flag,
  which no other call will lower.
- `OpensWithRow`: the answer for the row opens the dialog. `RowInv`: while it is up its rows are
  the last ones asked for, because nothing asks for others from within.

Both need `Stacked`, the order of the surfaces: no two have the same number, and all but the
lowest are dialogs.

`InOrder` has three, and `InOrderShown` proves that each is enough. All records have it but that
of the platform's subscriptions (`InOrderPages`), whose dialog keeps its page while an act runs;
there `ShowsItsQuery` is left to the run.

- `Keyless`: what the panel shows does not depend on what the user changes (`KeylessInv`).
- `OneByOne`: the loads of a flag go out one after the other. Every control that sends one, or
  changes the filters they depend on, is covered or disabled by the flag, and else only the
  answer to one sends the next. `LineInv`: at most one call of the flag is in flight, for the
  filters on the screen, the flag is up while it is, no other call will lower the flag, and a
  panel whose rows are of before has its call in flight. `ShowsItsQuery` speaks of the page at
  rest; what keeps the flag up and the call alone until then is the rest of the invariant.
- `Fetches` and `latest`: opening the dialog fetches the load, and late answers are dropped.
  `DropInv`: rows of before in the dialog on top have a call in flight that will not be.

The pages that meet none of these are those of `PanelsOvertaken`: filters that stay usable
while a call runs, or flags shared with a call that ends first.

Model-checked only: the liveness properties, liveness under fairness being out of the prover's
reach, and `SeesOwnWrites` and `ShowsItsQuery` on the four pages named above. Every safety
property of every run is otherwise stated by a theorem.

## Plan

1. `OAuthGrants`, `OAuthTokens` and their proofs: done.
2. `SigningKeys` and proofs: done.
3. `TokenExchange` and proofs: done.
4. `Wallet` and proofs: done; the consoles, by the pages named above: done.
5. `Payments` and proofs: done. Left of this item: checkout, with coupons redeemed past
   their limit (`handler/public/subscription/checkout.go:124`).
6. `Verification`: signup challenges, password reset and email change tokens.
7. `AuthSessions`: login with a second factor, console codes, passkey challenges.
8. Rate limits, invitations, team ownership.

Runs of what is left: two or three actors of each kind, one or two rows, statements that
fail, at most a few events in flight. Proofs: what is left of the consoles are conditions
under which the four pages keep `SeesOwnWrites` and `ShowsItsQuery`.
