--------------------------- MODULE TokenExchange ---------------------------
(***************************************************************************)
(* Cross-app token exchange (RFC 8693): an app trades a user's access      *)
(* token for a short-lived token of another app, when a tenant admin has   *)
(* declared a cross_app_trusts row for the two (service/tokenexchange,     *)
(* handler/tenant/cross_app_trust_handler.go).                             *)
(*                                                                         *)
(* The exchange reads trusts through an in-memory cache; the admin         *)
(* handlers write the table and flush a cache.  Both packages call         *)
(* NewService(), so each has a cache of its own.  A request is a sequence  *)
(* of statements, those of other requests falling between them; time       *)
(* passes in ticks of one clock.                                           *)
(***************************************************************************)
EXTENDS Naturals, FiniteSets

CONSTANTS
  Requests,     (* requests the server ever receives (bounds the model)     *)
  Apps, Pairs,  (* apps of a tenant; the <<source, target>> pairs used      *)
  Users,
  Scopes,       (* scopes an app can ask for                                *)
  AnyScope,     (* "*" in allowed_scopes                                    *)
  Allowances,   (* the values of allowed_scopes                             *)
  CacheTTL,     (* lifetime of a cache entry: 60 seconds                    *)
  Stall,        (* longest time from looking a trust up to creating a token *)
  MaxTime,      (* bound on the clock                                       *)
  Ops,          (* the operations the environment invokes                   *)
  Faults,       (* whether statements fail and the server is killed         *)
  None

ASSUME TimeAssumption == CacheTTL \in Nat /\ Stall \in Nat /\ MaxTime \in Nat
ASSUME FaultsAssumption == Faults \in BOOLEAN
ASSUME PairsAssumption == Pairs \subseteq {p \in Apps \X Apps : p[1] # p[2]}
ASSUME ScopesAssumption == /\ AnyScope \notin Scopes
                           /\ Allowances \subseteq SUBSET (Scopes \cup {AnyScope})
ASSUME OpsAssumption == Ops \subseteq {"exchange", "create", "update", "delete", "member"}

VARIABLES
  now,          (* the clock                                                *)
  trusts,       (* cross_app_trusts rows                                    *)
  members,      (* <<app, user>>: app_users rows whose status is active     *)
  cache,        (* the trust cache of each package's Service                *)
  tokens,       (* exchanged access tokens                                  *)
  pc,           (* next statement of each request                           *)
  pair,         (* the apps a request is about                              *)
  user,         (* whose token it exchanges                                 *)
  trust,        (* the trust row it holds                                   *)
  mark,         (* when it looked that row up                               *)
  lapsed,       (* history: when a row last left the table                  *)
  left,         (* history: when a user last stopped being a member         *)
  answered,     (* history: rows gone for good, the admin told so           *)
  late,         (* history: those already answered when a request began     *)
  unchecked     (* history: pairs created twice at once, or without a check *)

dbVars   == <<trusts, members>>
locals   == <<pair, user, trust, mark>>
rowVars  == <<lapsed, answered, late>>
histVars == <<rowVars, left, unchecked>>
vars == <<now, dbVars, cache, tokens, pc, locals, histVars>>

Trust    == [id : Requests, pair : Pairs, scopes : Allowances, active : BOOLEAN]
Members  == {p[2] : p \in Pairs} \X Users
Services == {"oauth", "tenant"}
Entry    == [trust : Trust, until : Nat]
Token    == [name : Requests, trust : Trust, user : Users, scopes : SUBSET Scopes,
             at : Nat, late : BOOLEAN]

UsesTrust   == {"setCache", "checkUser", "createToken"}
HoldsTrust  == UsesTrust \cup {"updateTrust", "flush"}
ExchangePcs == UsesTrust \cup {"getCache", "findTrust"}
Pcs == HoldsTrust \cup ExchangePcs \cup {"idle", "insertTrust", "done"}
Live(r) == pc[r] \notin {"idle", "done"}

Init ==
  /\ now = 0
  /\ trusts = {} /\ tokens = {}
  /\ members \in SUBSET Members
  /\ cache = [s \in Services |-> {}]
  /\ pc = [r \in Requests |-> "idle"]
  /\ pair = [r \in Requests |-> None]
  /\ user = [r \in Requests |-> None]
  /\ trust = [r \in Requests |-> None]
  /\ mark = [r \in Requests |-> 0]
  /\ lapsed = [t \in Trust |-> 0]
  /\ left = [m \in Members |-> 0]
  /\ answered = {}
  /\ late = [r \in Requests |-> {}]
  /\ unchecked = {}

-----------------------------------------------------------------------------
Become(r, label) == pc' = [pc EXCEPT ![r] = label]
Goto(r, label) == Become(r, label) /\ UNCHANGED locals
Finish(r) == /\ Become(r, "done")
             /\ pair' = [pair EXCEPT ![r] = None]
             /\ user' = [user EXCEPT ![r] = None]
             /\ trust' = [trust EXCEPT ![r] = None]
             /\ mark' = [mark EXCEPT ![r] = 0]

(* The request goes on with a trust row; an exchange has Stall to use it.  *)
Keep(r, label, t) == /\ Become(r, label)
                     /\ trust' = [trust EXCEPT ![r] = t]
Hold(r, label, t) == /\ Keep(r, label, t)
                     /\ mark' = [mark EXCEPT ![r] = now]
                     /\ UNCHANGED <<pair, user>>

(* The rows gone leave the table and the rows new enter it.                *)
Replace(gone, new) ==
  /\ trusts' = (trusts \ gone) \cup new
  /\ lapsed' = [t \in Trust |-> IF t \in gone THEN now ELSE lapsed[t]]
  /\ answered' = answered \ new
  /\ late' = [r \in Requests |-> late[r] \ new]

-----------------------------------------------------------------------------
(* Service.Exchange, from the moment the client is authenticated, the      *)
(* subject token found live and its own, and the target app resolved.      *)
BeginExchange(r, p, u) ==
  /\ "exchange" \in Ops
  /\ pc[r] = "idle"
  /\ Become(r, "getCache")
  /\ pair' = [pair EXCEPT ![r] = p]
  /\ user' = [user EXCEPT ![r] = u]
  /\ late' = [late EXCEPT ![r] = answered]
  /\ UNCHANGED <<now, dbVars, cache, tokens, trust, mark, lapsed, answered, left, unchecked>>

(* trustCache.get: an entry counts up to and including its expiresAt.      *)
Hits(p) == {e \in cache["oauth"] : e.trust.pair = p /\ now <= e.until}

(* Mutant of GetCache: expiresAt is not looked at.                         *)
GetForever(r) ==
  /\ pc[r] = "getCache"
  /\ \/ \E e \in cache["oauth"] : e.trust.pair = pair[r] /\ Hold(r, "checkUser", e.trust)
     \/ Hits(pair[r]) = {} /\ Goto(r, "findTrust")
  /\ UNCHANGED <<now, dbVars, cache, tokens, histVars>>

GetCache(r) ==
  /\ pc[r] = "getCache"
  /\ \/ \E e \in Hits(pair[r]) : Hold(r, "checkUser", e.trust)
     \/ Hits(pair[r]) = {} /\ Goto(r, "findTrust")
  /\ UNCHANGED <<now, dbVars, cache, tokens, histVars>>

ActiveTrusts(p) == {t \in trusts : t.pair = p /\ t.active}

(* Mutant of FindTrust: the request goes on when no row is found.          *)
FindNoTrust(r) ==
  /\ pc[r] = "findTrust"
  /\ \/ \E t \in ActiveTrusts(pair[r]) : Hold(r, "setCache", t)
     \/ ActiveTrusts(pair[r]) = {} /\ Goto(r, "setCache")
  /\ UNCHANGED <<now, dbVars, cache, tokens, histVars>>

(* findTrust's query; any error is "no trust relationship".                *)
FindTrust(r) ==
  /\ pc[r] = "findTrust"
  /\ \/ \E t \in ActiveTrusts(pair[r]) : Hold(r, "setCache", t)
     \/ (Faults \/ ActiveTrusts(pair[r]) = {}) /\ Finish(r)
  /\ UNCHANGED <<now, dbVars, cache, tokens, histVars>>

(* trustCache.set, which replaces the entry of the pair.                   *)
SetCache(r) ==
  /\ pc[r] = "setCache"
  /\ Goto(r, "checkUser")
  /\ cache' = [cache EXCEPT !["oauth"] =
                 {e \in @ : e.trust.pair # pair[r]}
                   \cup {[trust |-> trust[r], until |-> now + CacheTTL]}]
  /\ UNCHANGED <<now, dbVars, tokens, histVars>>

(* The user must have an active app_users row in the target app.           *)
CheckUser(r) ==
  /\ pc[r] = "checkUser"
  /\ \/ <<pair[r][2], user[r]>> \in members /\ Goto(r, "createToken")
     \/ (Faults \/ <<pair[r][2], user[r]>> \notin members) /\ Finish(r)
  /\ UNCHANGED <<now, dbVars, cache, tokens, histVars>>

(* narrowScopes: what was asked for, within allowed_scopes unless "*".     *)
Narrow(want, allowed) == IF AnyScope \in allowed THEN want ELSE want \cap allowed

(* The token is created with the scopes granted, unless there are none.    *)
CreateToken(r) ==
  /\ pc[r] = "createToken"
  /\ \E want \in SUBSET Scopes :
       LET granted == Narrow(want, trust[r].scopes)
       IN  tokens' = IF granted = {} THEN tokens
                     ELSE tokens \cup {[name |-> r, trust |-> trust[r], user |-> user[r],
                                        scopes |-> granted, at |-> now,
                                        late |-> trust[r] \in late[r]]}
  /\ late' = [late EXCEPT ![r] = {}]
  /\ Finish(r)
  /\ UNCHANGED <<now, dbVars, cache, lapsed, answered, left, unchecked>>

-----------------------------------------------------------------------------
(* Mutant of CountTrusts: existing trusts are not counted.                 *)
CountNothing(r, p) ==
  /\ "create" \in Ops
  /\ pc[r] = "idle"
  /\ Become(r, "insertTrust")
  /\ pair' = [pair EXCEPT ![r] = p]
  /\ UNCHANGED unchecked
  /\ UNCHANGED <<now, dbVars, cache, tokens, user, trust, mark, rowVars, left>>

(* CreateCrossAppTrustHandler, once both apps are found in the tenant: the *)
(* error of the duplicate count is ignored and leaves a count of 0.        *)
CountTrusts(r, p) ==
  LET taken == \E t \in trusts : t.pair = p
      racing == \E q \in Requests : pc[q] = "insertTrust" /\ pair[q] = p
  IN
  /\ "create" \in Ops
  /\ pc[r] = "idle"
  /\ \/ ~taken /\ unchecked' = IF racing THEN unchecked \cup {p} ELSE unchecked
     \/ taken /\ Faults /\ unchecked' = unchecked \cup {p}
  /\ Become(r, "insertTrust")
  /\ pair' = [pair EXCEPT ![r] = p]
  /\ UNCHANGED <<now, dbVars, cache, tokens, user, trust, mark, rowVars, left>>

InsertTrust(r) ==
  /\ pc[r] = "insertTrust"
  /\ \E scopes \in Allowances :
       LET new == [id |-> r, pair |-> pair[r], scopes |-> scopes, active |-> TRUE]
       IN  Keep(r, "flush", new) /\ Replace({}, {new})
  /\ UNCHANGED <<now, members, cache, tokens, pair, user, mark, left, unchecked>>

(* UpdateCrossAppTrustHandler reads the row, then updates the columns it   *)
(* was given; a row deleted in between is not noticed.  An update of the   *)
(* description or of max_token_ttl alone leaves what is modelled as it is. *)
BeginUpdate(r, t) ==
  /\ "update" \in Ops
  /\ pc[r] = "idle"
  /\ Keep(r, "updateTrust", t)
  /\ pair' = [pair EXCEPT ![r] = t.pair]
  /\ UNCHANGED <<now, dbVars, cache, tokens, user, mark, histVars>>

UpdateTrust(r) ==
  /\ pc[r] = "updateTrust"
  /\ \/ \E t \in trusts, scopes \in Allowances, active \in BOOLEAN :
          LET new == [t EXCEPT !.scopes = scopes, !.active = active]
          IN  /\ t.id = trust[r].id
              /\ new # t
              /\ Keep(r, "flush", t) /\ UNCHANGED <<pair, user, mark>>
              /\ Replace({t}, {new})
     \/ /\ Goto(r, "flush")
        /\ UNCHANGED <<trusts, rowVars>>
     \/ /\ Faults
        /\ Finish(r)
        /\ UNCHANGED <<trusts, rowVars>>
  /\ UNCHANGED <<now, members, cache, tokens, left, unchecked>>

(* DeleteCrossAppTrustHandler, when the row is found.                      *)
DeleteTrust(r, t) ==
  /\ "delete" \in Ops
  /\ pc[r] = "idle"
  /\ Keep(r, "flush", t)
  /\ pair' = [pair EXCEPT ![r] = t.pair]
  /\ Replace({t}, {})
  /\ UNCHANGED <<now, members, cache, tokens, user, mark, left, unchecked>>

(* InvalidateCache, of the handler package's Service; then the answer,     *)
(* which tells the admin who updated or deleted a row that it is gone.     *)
Flush(r) ==
  /\ pc[r] = "flush"
  /\ cache' = [cache EXCEPT !["tenant"] = {}]
  /\ answered' = answered \cup {t \in {trust[r]} \ trusts : t.id # r}
  /\ Finish(r)
  /\ UNCHANGED <<now, dbVars, tokens, lapsed, late, left, unchecked>>

-----------------------------------------------------------------------------
(* UpdateAppUserStatus, or a first consent, of the target app.             *)
Admit(r, m) ==
  /\ "member" \in Ops
  /\ pc[r] = "idle"
  /\ Goto(r, "done")
  /\ members' = members \cup {m}
  /\ UNCHANGED <<now, trusts, cache, tokens, histVars>>

Suspend(r, m) ==
  /\ "member" \in Ops
  /\ pc[r] = "idle"
  /\ m \in members
  /\ Goto(r, "done")
  /\ members' = members \ {m}
  /\ left' = [left EXCEPT ![m] = now]
  /\ UNCHANGED <<now, trusts, cache, tokens, rowVars, unchecked>>

(* The server is killed: its requests end where they are, memory is lost.  *)
Kill ==
  /\ Faults
  /\ \E r \in Requests : Live(r)
  /\ pc' = [r \in Requests |-> IF Live(r) THEN "done" ELSE pc[r]]
  /\ pair' = [r \in Requests |-> None]
  /\ user' = [r \in Requests |-> None]
  /\ trust' = [r \in Requests |-> None]
  /\ mark' = [r \in Requests |-> 0]
  /\ cache' = [s \in Services |-> {}]
  /\ UNCHANGED <<now, dbVars, tokens, histVars>>

Tick ==
  /\ now < MaxTime
  /\ \A r \in Requests :
       pc[r] \in UsesTrust => now < mark[r] + Stall
  /\ now' = now + 1
  /\ UNCHANGED <<dbVars, cache, tokens, pc, locals, histVars>>

Next ==
  \/ \E r \in Requests :
       \/ \E p \in Pairs, u \in Users : BeginExchange(r, p, u)
       \/ \E p \in Pairs : CountTrusts(r, p)
       \/ \E t \in trusts : BeginUpdate(r, t) \/ DeleteTrust(r, t)
       \/ GetCache(r) \/ FindTrust(r) \/ SetCache(r) \/ CheckUser(r) \/ CreateToken(r)
       \/ InsertTrust(r) \/ UpdateTrust(r) \/ Flush(r)
       \/ \E m \in Members : Admit(r, m) \/ Suspend(r, m)
  \/ Kill
  \/ Tick

Spec == Init /\ [][Next]_vars

-----------------------------------------------------------------------------
(* Every variable has its type, and a request has the locals its next      *)
(* statement needs: it holds a trust row there, also where the query found *)
(* none and an early return was due.                                       *)
TypeOK ==
  /\ now \in Nat
  /\ trusts \subseteq Trust /\ answered \subseteq Trust
  /\ members \subseteq Members
  /\ cache \in [Services -> SUBSET Entry]
  /\ tokens \subseteq Token
  /\ pc \in [Requests -> Pcs]
  /\ pair \in [Requests -> Pairs \cup {None}]
  /\ user \in [Requests -> Users \cup {None}]
  /\ trust \in [Requests -> Trust \cup {None}]
  /\ mark \in [Requests -> Nat]
  /\ lapsed \in [Trust -> Nat] /\ left \in [Members -> Nat]
  /\ late \in [Requests -> SUBSET Trust]
  /\ unchecked \subseteq Pairs
  /\ \A r \in Requests :
       /\ pc[r] \in HoldsTrust => trust[r] \in Trust
       /\ pc[r] \in ExchangePcs => user[r] \in Users
       /\ pc[r] \in ExchangePcs \cup {"insertTrust"} => pair[r] \in Pairs

(* A token is backed by an active trust row that grants its scopes and was *)
(* in the table not longer ago than a cache entry and two slow requests    *)
(* last, for a user who was a member of the target app one slow request    *)
(* ago: what the cache and the order of Exchange's steps promise, whatever *)
(* admins do meanwhile.                                                    *)
GrantsAreFresh ==
  \A k \in tokens :
    /\ k.trust.active
    /\ AnyScope \in k.trust.scopes \/ k.scopes \subseteq k.trust.scopes
    /\ k.trust \in trusts \/ k.at <= lapsed[k.trust] + (CacheTTL + 2 * Stall)
    /\ LET m == <<k.trust.pair[2], k.user>>
       IN  m \in members \/ k.at <= left[m] + Stall

(* Two rows relate the same apps only if their creations overlapped, or    *)
(* the duplicate count of one failed: the handler counts, then inserts,    *)
(* and the table has no unique index.                                      *)
DuplicateOnlyByRace ==
  \A s, t \in trusts : s.pair = t.pair => s = t \/ s.pair \in unchecked

(* A request that begins after an admin was told that a trust is gone does *)
(* not get a token by it: what the comment on InvalidateCache ("clears the *)
(* trust cache.  Call when a trust is created/updated/deleted.") leads an  *)
(* admin to expect.  The cache cleared is not the one exchanges read.      *)
InvalidatedTrustUnused == \A k \in tokens : ~k.late

-----------------------------------------------------------------------------
(* The inductive invariant behind GrantsAreFresh and DuplicateOnlyByRace.  *)

(* Trust t was in the table at time n, or not longer ago than d.           *)
InForce(t, n, d) == t \in trusts \/ n <= lapsed[t] + d

(* A cache entry was made at most a slow request after its lookup.         *)
CacheInv == \A e \in cache["oauth"] : /\ e.trust.active
                                       /\ e.until <= now + CacheTTL
                                       /\ InForce(e.trust, e.until, CacheTTL + Stall)

(* A request holds what it found in the table, or in the cache, at mark.   *)
HoldersInv ==
  \A r \in Requests : pc[r] \in UsesTrust =>
    /\ mark[r] <= now /\ now <= mark[r] + Stall
    /\ trust[r].active /\ trust[r].pair = pair[r]
    /\ InForce(trust[r], mark[r], CacheTTL + Stall)
    /\ pc[r] = "setCache" => InForce(trust[r], mark[r], 0)
    /\ pc[r] = "createToken" => LET m == <<pair[r][2], user[r]>>
                                IN  m \in members \/ mark[r] <= left[m]

TokensInv == GrantsAreFresh /\ \A k \in tokens : k.at <= now

(* A pair checked every time has one trust, or one request about to make   *)
(* it, or neither.                                                         *)
Making(r, p) == pc[r] = "insertTrust" /\ pair[r] = p
DuplicateInv ==
  \A p \in Pairs \ unchecked :
    /\ \A s, t \in trusts : s.pair = p /\ t.pair = p => s = t
    /\ \A r, q \in Requests : Making(r, p) /\ Making(q, p) => r = q
    /\ \A r \in Requests, t \in trusts : Making(r, p) => t.pair # p

ExchangeInv == TypeOK /\ CacheInv /\ HoldersInv /\ TokensInv /\ DuplicateInv
=============================================================================
