---------------------------- MODULE SigningKeys ----------------------------
(***************************************************************************)
(* The RSA keys that sign OIDC id_tokens: oidc_signing_keys rows, created  *)
(* when first needed, rotated by an administrator, published as a JWKS     *)
(* (internal/handler/public/oauth/discovery.go).                           *)
(*                                                                         *)
(* Several server processes (Hosts) share the database; signingKeyMutex    *)
(* excludes the goroutines of one process only.  Time passes in ticks of   *)
(* one clock.  A key stands for its row, its key pair and its kid, since   *)
(* generating a key makes the three together.                              *)
(***************************************************************************)
EXTENDS Naturals, FiniteSets

CONSTANTS
  Procs,        (* goroutines that sign, rotate or answer /jwks             *)
  Hosts,        (* server processes                                         *)
  HostOf,       (* the server process a goroutine runs in                   *)
  Keys,         (* keys ever generated (bounds the model)                   *)
  TokenTTL,     (* lifetime of an id_token: one hour                        *)
  Retention,    (* how long a retired key stays published: two hours        *)
  Stall,        (* longest time from a rotation's clock reading to COMMIT   *)
  MaxTime,      (* bound on the clock                                       *)
  MaxTokens,    (* bound on the id_tokens being signed or in circulation    *)
  Faults,       (* whether statements fail and processes are killed         *)
  None          (* no key, no owner of a lock                               *)

ASSUME HostsAssumption == HostOf \in [Procs -> Hosts]
ASSUME NoneAssumption == None \notin Keys \cup Procs
ASSUME FaultsAssumption == Faults \in BOOLEAN
ASSUME TimeAssumption == /\ TokenTTL \in Nat /\ Retention \in Nat
                         /\ Stall \in Nat /\ MaxTime \in Nat
                         /\ MaxTokens \in Nat
ASSUME RetentionAssumption == TokenTTL + Stall <= Retention

VARIABLES
  now,          (* the clock                                                *)
  status,       (* status of a key; "none" before it is generated           *)
  notAfter,     (* not_after of a retired key                               *)
  created,      (* created_at of a key                                      *)
  lock,         (* signingKeyMutex of each server process                   *)
  pc,           (* next statement of each goroutine                         *)
  job,          (* what the active key is being looked up for               *)
  clock,        (* the clock reading a goroutine works with                 *)
  signer,       (* private key buildIDToken holds                           *)
  tokens        (* id_tokens issued and not expired                         *)

keyVars == <<status, notAfter, created>>
vars == <<now, keyVars, lock, pc, job, clock, signer, tokens>>

IdToken == [key : Keys, kid : Keys \cup {None}, exp : Nat]

With(s) == {k \in Keys : status[k] = s}
Newest(S) == {k \in S : \A j \in S : created[j] <= created[k]}

(* The filter of publicJWKS.                                               *)
Published == With("active") \cup With("standby")
               \cup {k \in With("retired") : notAfter[k] > now}

(* A database that has never signed, possibly with a key put on standby.   *)
Init ==
  /\ now = 0
  /\ \E S \in SUBSET Keys :
       /\ Cardinality(S) <= 1
       /\ status = [k \in Keys |-> IF k \in S THEN "standby" ELSE "none"]
  /\ notAfter = [k \in Keys |-> 0]
  /\ created = [k \in Keys |-> 0]
  /\ lock = [h \in Hosts |-> None]
  /\ pc = [p \in Procs |-> "idle"]
  /\ job = [p \in Procs |-> "none"]
  /\ clock = [p \in Procs |-> 0]
  /\ signer = [p \in Procs |-> None]
  /\ tokens = {}

-----------------------------------------------------------------------------
Free(p) == lock[HostOf[p]] = None
Acquire(p) == Free(p) /\ lock' = [lock EXCEPT ![HostOf[p]] = p]
Release(p) == lock' = [lock EXCEPT ![HostOf[p]] = None]

Become(p, label) == pc' = [pc EXCEPT ![p] = label]

(* The goroutine's locals are gone.                                        *)
Return(p) == /\ Become(p, "idle")
             /\ job' = [job EXCEPT ![p] = "none"]
             /\ clock' = [clock EXCEPT ![p] = 0]
             /\ signer' = [signer EXCEPT ![p] = None]

(* buildIDToken takes issuedAt from its caller, then GetPrivateKey.        *)
BeginSign(p) ==
  /\ pc[p] = "idle"
  /\ Cardinality(tokens) + Cardinality({q \in Procs : job[q] \in {"key", "kid"}}) < MaxTokens
  /\ Become(p, "ensure")
  /\ job' = [job EXCEPT ![p] = "key"]
  /\ clock' = [clock EXCEPT ![p] = now]
  /\ UNCHANGED <<now, keyVars, lock, signer, tokens>>

BeginJwks(p) ==
  /\ pc[p] = "idle"
  /\ Become(p, "ensure")
  /\ job' = [job EXCEPT ![p] = "jwks"]
  /\ UNCHANGED <<now, keyVars, lock, clock, signer, tokens>>

(* What the caller of activeSigningKey does with the key.                  *)
SignWith(p, kid) ==
  /\ Return(p)
  /\ tokens' = tokens \cup {[key |-> signer[p], kid |-> kid, exp |-> clock[p] + TokenTTL]}

Continue(p, k) ==
  \/ /\ job[p] = "key"                      (* GetKeyID looks it up again   *)
     /\ Become(p, "ensure")
     /\ job' = [job EXCEPT ![p] = "kid"]
     /\ signer' = [signer EXCEPT ![p] = k]
     /\ UNCHANGED <<clock, tokens>>
  \/ job[p] = "kid" /\ SignWith(p, k)
  \/ job[p] = "jwks" /\ Become(p, "readJwks") /\ UNCHANGED <<job, clock, signer, tokens>>

(* Mutant of Fail: the error of GetPrivateKey is not looked at.            *)
FailLate(p) ==
  \/ /\ job[p] = "key" /\ Become(p, "ensure")
     /\ job' = [job EXCEPT ![p] = "kid"]
     /\ UNCHANGED <<clock, signer, tokens>>
  \/ job[p] = "kid" /\ SignWith(p, None)
  \/ job[p] = "jwks" /\ Return(p) /\ UNCHANGED tokens

(* GetKeyID turns an error into an empty kid; the other callers give up.   *)
Fail(p) == \/ job[p] = "kid" /\ SignWith(p, None)
           \/ job[p] # "kid" /\ Return(p) /\ UNCHANGED tokens

(* ensureActiveSigningKey.  Found: the mutex is taken and released around  *)
(* one statement.  Not found: it is held until the INSERT.                 *)
FindActive(p) ==
  /\ pc[p] = "ensure"
  /\ Free(p)
  /\ UNCHANGED <<now, keyVars>>
  /\ \/ \E k \in Newest(With("active")) : Continue(p, k) /\ UNCHANGED lock
     \/ /\ With("active") = {}
        /\ Become(p, "create") /\ Acquire(p)
        /\ UNCHANGED <<job, clock, signer, tokens>>
     \/ Faults /\ Fail(p) /\ UNCHANGED lock

Generate(k) == /\ status[k] = "none"
               /\ status' = [status EXCEPT ![k] = "active"]
               /\ created' = [created EXCEPT ![k] = now]
               /\ UNCHANGED notAfter

CreateKey(p) ==
  /\ pc[p] = "create"
  /\ Release(p)
  /\ UNCHANGED now
  /\ \/ \E k \in Keys : Generate(k) /\ Continue(p, k)
     \/ /\ Faults                           (* the INSERT fails: look again *)
        /\ UNCHANGED keyVars
        /\ \/ \E k \in Newest(With("active")) : Continue(p, k)
           \/ Fail(p)

(* JWKSHandler answers with Published.                                     *)
ReadJwks(p) ==
  /\ pc[p] = "readJwks"
  /\ Return(p)
  /\ UNCHANGED <<now, keyVars, lock, tokens>>

-----------------------------------------------------------------------------
(* RotateOIDCSigningKey: the clock is read under the mutex, before the     *)
(* transaction.                                                            *)
BeginRotate(p) ==
  /\ pc[p] = "idle"
  /\ Acquire(p)
  /\ Become(p, "rotate")
  /\ clock' = [clock EXCEPT ![p] = now]
  /\ UNCHANGED <<now, keyVars, job, signer, tokens>>

(* A standby key if there is one, a new key otherwise.                     *)
Successors == IF With("standby") # {} THEN Newest(With("standby")) ELSE With("none")

Succeed(k) ==
  /\ status' = [j \in Keys |-> CASE status[j] = "active" -> "retired"
                                 [] j = k -> "active"
                                 [] OTHER -> status[j]]
  /\ created' = IF status[k] = "none" THEN [created EXCEPT ![k] = now] ELSE created

(* Mutant of CommitRotate: a retired key is no longer valid from now on.   *)
RetireAtOnce(p) ==
  /\ pc[p] = "rotate"
  /\ Release(p) /\ Return(p)
  /\ \E k \in Successors : Succeed(k)
  /\ notAfter' = [j \in Keys |-> IF status[j] = "active" THEN clock[p] ELSE notAfter[j]]
  /\ UNCHANGED <<now, tokens>>

CommitRotate(p) ==
  /\ pc[p] = "rotate"
  /\ Release(p) /\ Return(p)
  /\ \E k \in Successors : Succeed(k)
  /\ notAfter' = [j \in Keys |-> IF status[j] = "active" THEN clock[p] + Retention
                                 ELSE notAfter[j]]
  /\ UNCHANGED <<now, tokens>>

RollbackRotate(p) ==
  /\ Faults
  /\ pc[p] = "rotate"
  /\ Release(p) /\ Return(p)
  /\ UNCHANGED <<now, keyVars, tokens>>

-----------------------------------------------------------------------------
(* A server process is killed and started again.                           *)
Restart(h) ==
  /\ Faults
  /\ lock' = [lock EXCEPT ![h] = None]
  /\ pc' = [p \in Procs |-> IF HostOf[p] = h THEN "idle" ELSE pc[p]]
  /\ job' = [p \in Procs |-> IF HostOf[p] = h THEN "none" ELSE job[p]]
  /\ clock' = [p \in Procs |-> IF HostOf[p] = h THEN 0 ELSE clock[p]]
  /\ signer' = [p \in Procs |-> IF HostOf[p] = h THEN None ELSE signer[p]]
  /\ UNCHANGED <<now, keyVars, tokens>>

(* Time passes, but a rotation does not stay open for longer than Stall.   *)
Tick ==
  /\ now < MaxTime
  /\ \A p \in Procs : pc[p] = "rotate" => now < clock[p] + Stall
  /\ now' = now + 1
  /\ tokens' = {t \in tokens : t.exp > now'}
  /\ UNCHANGED <<keyVars, lock, pc, job, clock, signer>>

Next ==
  \/ \E p \in Procs : \/ BeginSign(p) \/ BeginJwks(p) \/ FindActive(p) \/ CreateKey(p)
                      \/ ReadJwks(p) \/ BeginRotate(p) \/ CommitRotate(p) \/ RollbackRotate(p)
  \/ \E h \in Hosts : Restart(h)
  \/ Tick

Spec == Init /\ [][Next]_vars

-----------------------------------------------------------------------------
(* Properties.                                                             *)

(* Every variable has its type, and buildIDToken has a private key before  *)
(* it asks for the kid.                                                    *)
TypeOK ==
  /\ now \in Nat
  /\ status \in [Keys -> {"none", "standby", "active", "retired"}]
  /\ notAfter \in [Keys -> Nat]
  /\ created \in [Keys -> Nat]
  /\ lock \in [Hosts -> Procs \cup {None}]
  /\ pc \in [Procs -> {"idle", "ensure", "create", "readJwks", "rotate"}]
  /\ job \in [Procs -> {"none", "key", "kid", "jwks"}]
  /\ clock \in [Procs -> Nat]
  /\ signer \in [Procs -> Keys \cup {None}]
  /\ tokens \subseteq IdToken
  /\ \A p \in Procs : /\ pc[p] \in {"idle", "rotate"} => job[p] = "none"
                      /\ job[p] = "kid" => signer[p] \in Keys

(* Until it expires, an id_token can be verified with the key set the      *)
(* server publishes: the key that signed it is in it, and so is the key    *)
(* its kid names, whichever process rotated in between and however often.  *)
PublishedUntilExpiry ==
  \A t \in tokens : t.exp > now => /\ t.key \in Published
                                   /\ t.kid # None => t.kid \in Published

(* The key published under a token's kid verifies the token.               *)
KidNamesSigner == \A t \in tokens : t.kid \in {t.key, None}

-----------------------------------------------------------------------------
(* The inductive invariant of PublishedUntilExpiry.                        *)

(* Key k stays published until time e.                                     *)
Lasts(k, e) == \/ status[k] = "active"
               \/ status[k] = "retired" /\ e <= notAfter[k]

(* What a goroutine holds was read under its own clock reading.            *)
LastsInv ==
  /\ \A t \in tokens : /\ t.exp <= now + TokenTTL
                       /\ Lasts(t.key, t.exp)
                       /\ t.kid # None => Lasts(t.kid, t.exp)
  /\ \A p \in Procs : /\ clock[p] <= now
                      /\ job[p] = "kid" => Lasts(signer[p], clock[p] + TokenTTL)
                      /\ pc[p] = "rotate" => now <= clock[p] + Stall

KeysInv == TypeOK /\ LastsInv
=============================================================================
