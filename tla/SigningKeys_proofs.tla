------------------------- MODULE SigningKeys_proofs -------------------------
(***************************************************************************)
(* Every id_token can be verified until it expires, for every number of    *)
(* server processes, goroutines and keys, provided that a rotation commits *)
(* within Retention - TokenTTL of reading the clock.                       *)
(***************************************************************************)
EXTENDS SigningKeys, TLAPS

USE DEF keyVars

LEMMA TypeStep == TypeOK /\ [Next]_vars => TypeOK'
<1> SUFFICES ASSUME TypeOK, [Next]_vars PROVE TypeOK'
  OBVIOUS
<1> USE HostsAssumption, TimeAssumption
    DEF TypeOK, Become, Return, Acquire, Release, Free, With, Newest
<1>1. ASSUME NEW p \in Procs, BeginSign(p) PROVE TypeOK'
  BY <1>1 DEF BeginSign
<1>2. ASSUME NEW p \in Procs, BeginJwks(p) PROVE TypeOK'
  BY <1>2 DEF BeginJwks
<1>3. ASSUME NEW p \in Procs, FindActive(p) PROVE TypeOK'
  BY <1>3 DEF FindActive, Continue, Fail, SignWith, IdToken
<1>4. ASSUME NEW p \in Procs, CreateKey(p) PROVE TypeOK'
  BY <1>4 DEF CreateKey, Generate, Continue, Fail, SignWith, IdToken
<1>5. ASSUME NEW p \in Procs, ReadJwks(p) PROVE TypeOK'
  BY <1>5 DEF ReadJwks
<1>6. ASSUME NEW p \in Procs, BeginRotate(p) PROVE TypeOK'
  BY <1>6 DEF BeginRotate
<1>7. ASSUME NEW p \in Procs, CommitRotate(p) PROVE TypeOK'
  BY <1>7 DEF CommitRotate, Successors, Succeed
<1>8. ASSUME NEW p \in Procs, RollbackRotate(p) PROVE TypeOK'
  BY <1>8 DEF RollbackRotate
<1>9. ASSUME NEW h \in Hosts, Restart(h) PROVE TypeOK'
  BY <1>9 DEF Restart
<1>10. CASE Tick
  BY <1>10 DEF Tick
<1>11. CASE UNCHANGED vars
  BY <1>11 DEF vars
<1> QED BY <1>1, <1>2, <1>3, <1>4, <1>5, <1>6, <1>7, <1>8, <1>9, <1>10, <1>11 DEF Next

-----------------------------------------------------------------------------
(* Going on with an active key, or giving up, keeps the promises as long   *)
(* as the keys keep theirs.                                                *)
KeysKeep == now' = now /\ \A j \in Keys, e \in Nat : Lasts(j, e) => Lasts(j, e)'

LEMMA SignLasts ==
  ASSUME TypeOK, LastsInv, KeysKeep, NEW p \in Procs, job[p] = "kid",
         NEW kid \in Keys \cup {None}, kid # None => status'[kid] = "active",
         SignWith(p, kid)
  PROVE LastsInv'
<1>1. PICK k \in Keys, e \in Nat : /\ k = signer[p] /\ e = clock[p] + TokenTTL
                                  /\ e <= now + TokenTTL /\ Lasts(k, e)
  BY TimeAssumption DEF TypeOK, LastsInv
<1> DEFINE new == [key |-> k, kid |-> kid, exp |-> e]
<1>2. Lasts(k, e)' /\ (kid # None => Lasts(kid, e)')
  BY <1>1 DEF Lasts, KeysKeep
<1>3. ASSUME NEW t \in tokens'
      PROVE t.exp <= now' + TokenTTL /\ Lasts(t.key, t.exp)' /\ (t.kid # None => Lasts(t.kid, t.exp)')
  <2>1. CASE t = new
    BY <1>1, <1>2, <2>1 DEF KeysKeep
  <2>2. CASE t \in tokens
    BY <2>2 DEF LastsInv, KeysKeep, TypeOK, IdToken
  <2> QED BY <1>1, <2>1, <2>2 DEF SignWith
<1>4. ASSUME NEW q \in Procs
      PROVE /\ clock'[q] <= now'
            /\ job'[q] = "kid" => Lasts(signer[q], clock[q] + TokenTTL)' /\ q # p
            /\ pc'[q] = "rotate" => now' <= clock'[q] + Stall
  BY TimeAssumption DEF SignWith, Return, Become, LastsInv, KeysKeep, TypeOK
<1> QED BY <1>3, <1>4 DEF LastsInv, SignWith, Return, TypeOK

LEMMA ContinueLasts ==
  ASSUME TypeOK, LastsInv, KeysKeep, NEW p \in Procs, pc[p] # "rotate",
         NEW k \in Keys, status'[k] = "active", Continue(p, k)
  PROVE LastsInv'
<1>1. CASE job[p] = "key" /\ signer' = [signer EXCEPT ![p] = k] /\ UNCHANGED <<clock, tokens>>
             /\ Become(p, "ensure") /\ job' = [job EXCEPT ![p] = "kid"]
  <2>1. ASSUME NEW q \in Procs, job'[q] = "kid" PROVE Lasts(signer[q], clock[q] + TokenTTL)'
    BY <1>1, <2>1, TimeAssumption DEF LastsInv, KeysKeep, TypeOK, Lasts
  <2>2. \A q \in Procs : pc'[q] = "rotate" => pc[q] = "rotate"
    BY <1>1 DEF Become, TypeOK
  <2> QED BY <1>1, <2>1, <2>2 DEF LastsInv, KeysKeep, TypeOK, IdToken
<1>2. CASE job[p] = "kid" /\ SignWith(p, k)
  BY <1>2, SignLasts, NoneAssumption
<1>3. CASE Become(p, "readJwks") /\ UNCHANGED <<job, clock, signer, tokens>>
  <2>1. \A q \in Procs : pc'[q] = "rotate" => pc[q] = "rotate"
    BY <1>3 DEF Become, TypeOK
  <2> QED BY <1>3, <2>1, TimeAssumption DEF LastsInv, KeysKeep, TypeOK, IdToken
<1> QED BY <1>1, <1>2, <1>3 DEF Continue

LEMMA FailLasts ==
  ASSUME TypeOK, LastsInv, KeysKeep, NEW p \in Procs, Fail(p)
  PROVE LastsInv'
<1>1. CASE job[p] = "kid" /\ SignWith(p, None)
  BY <1>1, SignLasts
<1>2. CASE Return(p) /\ UNCHANGED tokens
  BY <1>2, TimeAssumption DEF Return, Become, LastsInv, KeysKeep, TypeOK, IdToken
<1> QED BY <1>1, <1>2 DEF Fail

(* A rotation shortens the life of no key below what was promised.         *)
LEMMA RotationKeeps ==
  ASSUME TypeOK, LastsInv, NEW p \in Procs, CommitRotate(p),
         NEW k \in Keys, NEW e \in Nat, e <= now + TokenTTL, Lasts(k, e)
  PROVE Lasts(k, e)'
<1>1. now <= clock[p] + Stall
  BY DEF LastsInv, CommitRotate
<1>2. e <= clock[p] + Retention
  BY <1>1, TimeAssumption, RetentionAssumption DEF TypeOK
<1>3. CASE status[k] = "active"
  BY <1>2, <1>3 DEF CommitRotate, Succeed, Lasts
<1>4. CASE status[k] = "retired" /\ e <= notAfter[k]
  <2>1. PICK s \in Successors : Succeed(s)
    BY DEF CommitRotate
  <2>2. status[s] \in {"none", "standby"}
    BY <2>1 DEF Successors, Newest, With
  <2> QED BY <1>4, <2>1, <2>2 DEF CommitRotate, Succeed, Lasts
<1> QED BY <1>3, <1>4 DEF Lasts

(* Every step keeps every promise.                                         *)
LEMMA LastsStep == TypeOK /\ LastsInv /\ [Next]_vars => LastsInv'
<1> SUFFICES ASSUME TypeOK, LastsInv, [Next]_vars PROVE LastsInv'
  OBVIOUS
<1> USE HostsAssumption, TimeAssumption
    DEF TypeOK, LastsInv, Become, Return, Acquire, Release, Free, With, Newest
<1>1. ASSUME NEW p \in Procs, BeginSign(p) PROVE LastsInv'
  BY <1>1 DEF BeginSign, Lasts
<1>2. ASSUME NEW p \in Procs, BeginJwks(p) PROVE LastsInv'
  BY <1>2 DEF BeginJwks, Lasts
<1>3. ASSUME NEW p \in Procs, FindActive(p) PROVE LastsInv'
  <2>1. KeysKeep
    BY <1>3 DEF FindActive, KeysKeep, Lasts
  <2>2. CASE With("active") = {} /\ Become(p, "create") /\ UNCHANGED <<job, clock, signer, tokens>>
    BY <2>1, <2>2 DEF KeysKeep, IdToken
  <2> QED BY <1>3, <2>1, <2>2, ContinueLasts, FailLasts DEF FindActive
<1>4. ASSUME NEW p \in Procs, CreateKey(p) PROVE LastsInv'
  <2>1. KeysKeep
    BY <1>4 DEF CreateKey, Generate, KeysKeep, Lasts
  <2>2. ASSUME NEW k \in Keys, Generate(k), Continue(p, k) PROVE LastsInv'
    BY <1>4, <2>1, <2>2, ContinueLasts DEF CreateKey, Generate
  <2>3. ASSUME UNCHANGED keyVars, NEW k \in Newest(With("active")), Continue(p, k) PROVE LastsInv'
    BY <1>4, <2>1, <2>3, ContinueLasts DEF CreateKey
  <2> QED BY <1>4, <2>1, <2>2, <2>3, FailLasts DEF CreateKey
<1>5. ASSUME NEW p \in Procs, ReadJwks(p) PROVE LastsInv'
  BY <1>5 DEF ReadJwks, Lasts
<1>6. ASSUME NEW p \in Procs, BeginRotate(p) PROVE LastsInv'
  BY <1>6 DEF BeginRotate, Lasts
<1>7. ASSUME NEW p \in Procs, CommitRotate(p) PROVE LastsInv'
  <2>1. ASSUME NEW t \in tokens PROVE Lasts(t.key, t.exp)' /\ (t.kid # None => Lasts(t.kid, t.exp)')
    BY <1>7, <2>1, RotationKeeps DEF IdToken
  <2>2. ASSUME NEW q \in Procs, q # p, job[q] = "kid" PROVE Lasts(signer[q], clock[q] + TokenTTL)'
    <3>1. PICK k \in Keys, e \in Nat : /\ k = signer[q] /\ e = clock[q] + TokenTTL
                                      /\ e <= now + TokenTTL /\ Lasts(k, e)
      BY <2>2
    <3>2. k = signer'[q] /\ e = clock'[q] + TokenTTL
      BY <1>7, <2>2, <3>1 DEF CommitRotate
    <3>3. Lasts(k, e)'
      BY <1>7, <3>1, RotationKeeps
    <3> QED BY <3>2, <3>3
  <2> QED BY <1>7, <2>1, <2>2 DEF CommitRotate
<1>8. ASSUME NEW p \in Procs, RollbackRotate(p) PROVE LastsInv'
  BY <1>8 DEF RollbackRotate, Lasts
<1>9. ASSUME NEW h \in Hosts, Restart(h) PROVE LastsInv'
  BY <1>9 DEF Restart, Lasts
<1>10. CASE Tick
  BY <1>10 DEF Tick, Lasts, IdToken
<1>11. CASE UNCHANGED vars
  BY <1>11 DEF vars, Lasts
<1> QED BY <1>1, <1>2, <1>3, <1>4, <1>5, <1>6, <1>7, <1>8, <1>9, <1>10, <1>11 DEF Next

LEMMA InitKeysInv == Init => KeysInv
  BY TimeAssumption DEF Init, KeysInv, TypeOK, LastsInv

-----------------------------------------------------------------------------
(* Every variable keeps its type, and buildIDToken never signs without a   *)
(* private key.                                                            *)
THEOREM KeysTypeCorrect == Spec => []TypeOK
<1>1. Init => TypeOK
  BY InitKeysInv DEF KeysInv
<1> QED BY <1>1, TypeStep, PTL DEF Spec

(* Whatever has signed, or is about to, stays published long enough.       *)
THEOREM KeysInvariance == Spec => []KeysInv
<1>1. KeysInv /\ [Next]_vars => KeysInv'
  BY TypeStep, LastsStep DEF KeysInv
<1> QED BY <1>1, InitKeysInv, PTL DEF Spec

(* No rotation, by whichever process, takes a key out of the published set *)
(* while an id_token it signed is valid.                                   *)
THEOREM AlwaysVerifiable == Spec => []PublishedUntilExpiry
<1>1. KeysInv => PublishedUntilExpiry
  <2> SUFFICES ASSUME KeysInv, NEW t \in tokens, t.exp > now
               PROVE t.key \in Published /\ (t.kid # None => t.kid \in Published)
    BY DEF PublishedUntilExpiry
  <2>1. ASSUME NEW k \in Keys, Lasts(k, t.exp) PROVE k \in Published
    BY <2>1 DEF Lasts, Published, With, KeysInv, TypeOK, IdToken
  <2>2. t \in IdToken
    BY DEF KeysInv, TypeOK
  <2>3. Lasts(t.key, t.exp) /\ (t.kid # None => Lasts(t.kid, t.exp))
    BY DEF KeysInv, LastsInv
  <2> QED BY <2>1, <2>2, <2>3 DEF IdToken
<1> QED BY <1>1, KeysInvariance, PTL
=============================================================================
