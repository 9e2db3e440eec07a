------------------------ MODULE TokenExchange_proofs ------------------------
(***************************************************************************)
(* How stale a grant of the token exchange can be, and when a pair of apps *)
(* has two trusts, for every number of requests, apps, users and scopes    *)
(* and every lifetime of a cache entry.                                    *)
(***************************************************************************)
EXTENDS TokenExchange, TLAPS

USE DEF dbVars, locals, rowVars, histVars

-----------------------------------------------------------------------------
(* Type correctness.                                                       *)

LEMMA MemberType == ASSUME NEW p \in Pairs, NEW u \in Users PROVE <<p[2], u>> \in Members
  BY DEF Members

LEMMA NarrowType ==
  ASSUME NEW want \in SUBSET Scopes, NEW allowed PROVE Narrow(want, allowed) \in SUBSET Scopes
  BY DEF Narrow

LEMMA ReplaceType ==
  ASSUME TypeOK, NEW gone \in SUBSET Trust, NEW new \in SUBSET Trust, Replace(gone, new)
  PROVE /\ trusts' \subseteq Trust /\ answered' \subseteq Trust
        /\ lapsed' \in [Trust -> Nat]
        /\ late' \in [Requests -> SUBSET Trust]
  BY DEF TypeOK, Replace

LEMMA UpdatedType ==
  ASSUME NEW t \in Trust, NEW s \in Allowances, NEW a \in BOOLEAN
  PROVE [t EXCEPT !.scopes = s, !.active = a] \in Trust
  BY DEF Trust

LEMMA TypeStep == TypeOK /\ [Next]_vars => TypeOK'
<1> SUFFICES ASSUME TypeOK, [Next]_vars PROVE TypeOK'
  OBVIOUS
<1> USE DEF Become, Goto, Keep, Hold, Finish, Pcs, HoldsTrust, UsesTrust, ExchangePcs, Services
<1>1. ASSUME NEW r \in Requests, NEW p \in Pairs, NEW u \in Users, BeginExchange(r, p, u)
      PROVE TypeOK'
  BY <1>1 DEF TypeOK, BeginExchange
<1>2. ASSUME NEW r \in Requests, NEW p \in Pairs, CountTrusts(r, p) PROVE TypeOK'
  BY <1>2 DEF TypeOK, CountTrusts
<1>3. ASSUME NEW r \in Requests, NEW t \in trusts, BeginUpdate(r, t) PROVE TypeOK'
  BY <1>3 DEF TypeOK, BeginUpdate, Trust
<1>4. ASSUME NEW r \in Requests, NEW t \in trusts, DeleteTrust(r, t) PROVE TypeOK'
  <2>1. Replace({t}, {}) /\ {t} \in SUBSET Trust /\ {} \in SUBSET Trust
    BY <1>4 DEF DeleteTrust, TypeOK
  <2>2. /\ trusts' \subseteq Trust /\ answered' \subseteq Trust
        /\ lapsed' \in [Trust -> Nat] /\ late' \in [Requests -> SUBSET Trust]
    BY <2>1, ReplaceType
  <2> QED BY <1>4, <2>2 DEF TypeOK, DeleteTrust, Trust
<1>5. ASSUME NEW r \in Requests, GetCache(r) PROVE TypeOK'
  BY <1>5 DEF TypeOK, GetCache, Hits, Entry
<1>6. ASSUME NEW r \in Requests, FindTrust(r) PROVE TypeOK'
  BY <1>6 DEF TypeOK, FindTrust, ActiveTrusts
<1>7. ASSUME NEW r \in Requests, SetCache(r) PROVE TypeOK'
  <2>1. [trust |-> trust[r], until |-> now + CacheTTL] \in Entry
    BY <1>7, TimeAssumption DEF TypeOK, SetCache, Entry
  <2>2. cache' \in [Services -> SUBSET Entry]
    BY <1>7, <2>1 DEF TypeOK, SetCache
  <2> QED BY <1>7, <2>2 DEF TypeOK, SetCache
<1>8. ASSUME NEW r \in Requests, CheckUser(r) PROVE TypeOK'
  BY <1>8 DEF TypeOK, CheckUser
<1>9. ASSUME NEW r \in Requests, CreateToken(r) PROVE TypeOK'
  <2>1. PICK want \in SUBSET Scopes :
          LET granted == Narrow(want, trust[r].scopes)
          IN  tokens' = IF granted = {} THEN tokens
                        ELSE tokens \cup {[name |-> r, trust |-> trust[r], user |-> user[r],
                                           scopes |-> granted, at |-> now,
                                           late |-> trust[r] \in late[r]]}
    BY <1>9 DEF CreateToken
  <2> DEFINE new == [name |-> r, trust |-> trust[r], user |-> user[r],
                     scopes |-> Narrow(want, trust[r].scopes), at |-> now,
                     late |-> trust[r] \in late[r]]
  <2>2. new \in Token
    <3>1. Narrow(want, trust[r].scopes) \in SUBSET Scopes
      BY NarrowType
    <3>2. trust[r] \in Trust /\ user[r] \in Users /\ now \in Nat
      BY <1>9 DEF TypeOK, CreateToken
    <3> QED BY <3>1, <3>2 DEF Token
  <2>3. tokens' \subseteq Token
    BY <2>1, <2>2 DEF TypeOK
  <2> QED BY <1>9, <2>3 DEF TypeOK, CreateToken
<1>10. ASSUME NEW r \in Requests, InsertTrust(r) PROVE TypeOK'
  <2>1. PICK s \in Allowances :
          LET new == [id |-> r, pair |-> pair[r], scopes |-> s, active |-> TRUE]
          IN  Keep(r, "flush", new) /\ Replace({}, {new})
    BY <1>10 DEF InsertTrust
  <2> DEFINE new == [id |-> r, pair |-> pair[r], scopes |-> s, active |-> TRUE]
  <2>2. new \in Trust
    BY <1>10, ScopesAssumption DEF TypeOK, InsertTrust, Trust
  <2>3. /\ trusts' \subseteq Trust /\ answered' \subseteq Trust
        /\ lapsed' \in [Trust -> Nat] /\ late' \in [Requests -> SUBSET Trust]
    BY <2>1, <2>2, ReplaceType
  <2>4. Keep(r, "flush", new)
    BY <2>1
  <2>5. UNCHANGED <<now, members, cache, tokens, pair, user, mark, left, unchecked>>
    BY <1>10 DEF InsertTrust
  <2> HIDE DEF new
  <2> QED BY <2>2, <2>3, <2>4, <2>5 DEF TypeOK
<1>11. ASSUME NEW r \in Requests, UpdateTrust(r) PROVE TypeOK'
  <2>1. /\ trusts' \subseteq Trust /\ answered' \subseteq Trust
        /\ lapsed' \in [Trust -> Nat] /\ late' \in [Requests -> SUBSET Trust]
    <3>1. CASE \E t \in trusts, s \in Allowances, a \in BOOLEAN :
                 Replace({t}, {[t EXCEPT !.scopes = s, !.active = a]})
      <4>1. PICK t \in trusts, s \in Allowances, a \in BOOLEAN :
                 Replace({t}, {[t EXCEPT !.scopes = s, !.active = a]})
        BY <3>1
      <4>2. t \in Trust /\ [t EXCEPT !.scopes = s, !.active = a] \in Trust
        BY UpdatedType, ScopesAssumption DEF TypeOK
      <4> QED BY <4>1, <4>2, ReplaceType
    <3>2. CASE UNCHANGED <<trusts, rowVars>>
      BY <3>2 DEF TypeOK
    <3> QED BY <1>11, <3>1, <3>2 DEF UpdateTrust
  <2>2. \/ \E t \in Trust : Keep(r, "flush", t) /\ UNCHANGED <<pair, user, mark>>
        \/ Goto(r, "flush") /\ trust[r] \in Trust
        \/ Finish(r)
    <3> HIDE DEF Keep, Goto, Finish
    <3> QED BY <1>11 DEF UpdateTrust, TypeOK
  <2>3. UNCHANGED <<now, members, cache, tokens, left, unchecked>>
    BY <1>11 DEF UpdateTrust
  <2> QED BY <2>1, <2>2, <2>3 DEF TypeOK
<1>12. ASSUME NEW r \in Requests, Flush(r) PROVE TypeOK'
  BY <1>12 DEF TypeOK, Flush
<1>13. ASSUME NEW r \in Requests, NEW m \in Members, Admit(r, m) PROVE TypeOK'
  BY <1>13 DEF TypeOK, Admit
<1>14. ASSUME NEW r \in Requests, NEW m \in Members, Suspend(r, m) PROVE TypeOK'
  BY <1>14 DEF TypeOK, Suspend
<1>15. CASE Kill
  BY <1>15 DEF TypeOK, Kill, Live
<1>16. CASE Tick
  BY <1>16 DEF TypeOK, Tick
<1>17. CASE UNCHANGED vars
  BY <1>17 DEF TypeOK, vars
<1> QED
  BY <1>1, <1>2, <1>3, <1>4, <1>5, <1>6, <1>7, <1>8, <1>9, <1>10, <1>11, <1>12, <1>13,
     <1>14, <1>15, <1>16, <1>17 DEF Next

-----------------------------------------------------------------------------
(* What a step does to the tables: a row that was in force long enough     *)
(* ago still was, a member still was one, and the clock never goes back.   *)

LEMMA ReplaceInForce ==
  ASSUME TypeOK, NEW gone \in SUBSET Trust, NEW new \in SUBSET Trust, Replace(gone, new),
         NEW t \in Trust, NEW n \in Nat, NEW d \in Nat, n <= now + d, InForce(t, n, d)
  PROVE t \in trusts' \/ n <= lapsed'[t] + d
  BY DEF TypeOK, Replace, InForce

ClockKept == now' \in Nat /\ now <= now'
RowsKept ==
  \A t \in Trust, n \in Nat, d \in Nat :
    n <= now + d /\ InForce(t, n, d) => t \in trusts' \/ n <= lapsed'[t] + d
MembersKept ==
  /\ left' \in [Members -> Nat]
  /\ \A m \in Members, n \in Nat, d \in Nat :
       n <= now + d /\ (m \in members \/ n <= left[m] + d) => m \in members' \/ n <= left'[m] + d
TablesKept == ClockKept /\ RowsKept /\ MembersKept

LEMMA TablesStep == TypeOK /\ [Next]_vars => TablesKept
<1> SUFFICES ASSUME TypeOK, [Next]_vars PROVE TablesKept
  OBVIOUS
<1>1. ASSUME UNCHANGED <<now, trusts, lapsed, members, left>> PROVE TablesKept
  BY <1>1 DEF TypeOK, InForce, TablesKept, ClockKept, RowsKept, MembersKept
<1>2. ASSUME UNCHANGED <<now, members, left>>,
             \E gone, new \in SUBSET Trust : Replace(gone, new)
      PROVE TablesKept
  <2>1. RowsKept
    BY <1>2, ReplaceInForce DEF RowsKept
  <2> QED BY <1>2, <2>1 DEF TypeOK, TablesKept, ClockKept, MembersKept
<1>3. ASSUME NEW r \in Requests, NEW t \in trusts, DeleteTrust(r, t)
      PROVE TablesKept
  <2>1. Replace({t}, {}) /\ {t} \in SUBSET Trust /\ {} \in SUBSET Trust
    BY <1>3 DEF DeleteTrust, TypeOK
  <2>2. UNCHANGED <<now, members, left>>
    BY <1>3 DEF DeleteTrust
  <2> QED BY <1>2, <2>1, <2>2
<1>4. ASSUME NEW r \in Requests, InsertTrust(r) PROVE TablesKept
  <2>1. PICK s \in Allowances :
          Replace({}, {[id |-> r, pair |-> pair[r], scopes |-> s, active |-> TRUE]})
    BY <1>4 DEF InsertTrust
  <2>2. {[id |-> r, pair |-> pair[r], scopes |-> s, active |-> TRUE]} \in SUBSET Trust
    BY <1>4 DEF TypeOK, InsertTrust, Trust
  <2>3. UNCHANGED <<now, members, left>>
    BY <1>4 DEF InsertTrust
  <2> QED BY <1>2, <2>1, <2>2, <2>3
<1>5. ASSUME NEW r \in Requests, UpdateTrust(r) PROVE TablesKept
  <2>1. UNCHANGED <<now, members, left>>
    BY <1>5 DEF UpdateTrust
  <2>2. CASE \E t \in trusts, s \in Allowances, a \in BOOLEAN :
               Replace({t}, {[t EXCEPT !.scopes = s, !.active = a]})
    <3>1. PICK t \in trusts, s \in Allowances, a \in BOOLEAN :
               Replace({t}, {[t EXCEPT !.scopes = s, !.active = a]})
      BY <2>2
    <3>2. {t} \in SUBSET Trust /\ {[t EXCEPT !.scopes = s, !.active = a]} \in SUBSET Trust
      BY UpdatedType DEF TypeOK
    <3> QED BY <1>2, <2>1, <3>1, <3>2
  <2>3. CASE UNCHANGED <<trusts, rowVars>>
    BY <1>1, <2>1, <2>3
  <2> QED BY <1>5, <2>2, <2>3 DEF UpdateTrust
<1>6. ASSUME NEW r \in Requests, NEW m \in Members, Admit(r, m) \/ Suspend(r, m)
      PROVE TablesKept
  <2>1. ClockKept /\ RowsKept
    BY <1>6 DEF TypeOK, Admit, Suspend, InForce, ClockKept, RowsKept
  <2>2. MembersKept
    BY <1>6 DEF TypeOK, Admit, Suspend, MembersKept
  <2> QED BY <2>1, <2>2 DEF TablesKept
<1>7. CASE Kill
  BY <1>1, <1>7 DEF Kill
<1>8. CASE Tick
  BY <1>8 DEF TypeOK, Tick, InForce, TablesKept, ClockKept, RowsKept, MembersKept
<1>9. CASE UNCHANGED vars
  BY <1>1, <1>9 DEF vars
<1>10. ASSUME NEW r \in Requests, NEW p \in Pairs, NEW u \in Users, BeginExchange(r, p, u)
       PROVE TablesKept
  BY <1>1, <1>10 DEF BeginExchange
<1>11. ASSUME NEW r \in Requests, NEW p \in Pairs, CountTrusts(r, p) PROVE TablesKept
  BY <1>1, <1>11 DEF CountTrusts
<1>12. ASSUME NEW r \in Requests, NEW t \in trusts, BeginUpdate(r, t) PROVE TablesKept
  BY <1>1, <1>12 DEF BeginUpdate
<1>13. ASSUME NEW r \in Requests, GetCache(r) PROVE TablesKept
  BY <1>1, <1>13 DEF GetCache
<1>14. ASSUME NEW r \in Requests, FindTrust(r) PROVE TablesKept
  BY <1>1, <1>14 DEF FindTrust
<1>15. ASSUME NEW r \in Requests, SetCache(r) PROVE TablesKept
  BY <1>1, <1>15 DEF SetCache
<1>16. ASSUME NEW r \in Requests, CheckUser(r) PROVE TablesKept
  BY <1>1, <1>16 DEF CheckUser
<1>17. ASSUME NEW r \in Requests, CreateToken(r) PROVE TablesKept
  BY <1>1, <1>17 DEF CreateToken
<1>18. ASSUME NEW r \in Requests, Flush(r) PROVE TablesKept
  BY <1>1, <1>18 DEF Flush
<1> QED
  BY <1>3, <1>4, <1>5, <1>6, <1>7, <1>8, <1>9, <1>10, <1>11, <1>12, <1>13, <1>14, <1>15,
     <1>16, <1>17, <1>18 DEF Next

-----------------------------------------------------------------------------
(* Cache entries.                                                          *)

LEMMA CacheFrame ==
  ASSUME TypeOK, [Next]_vars
  PROVE cache'["oauth"] \subseteq cache["oauth"] \/ \E r \in Requests : SetCache(r)
<1>1. CASE UNCHANGED cache
  BY <1>1
<1>2. ASSUME NEW r \in Requests, Flush(r) PROVE cache'["oauth"] \subseteq cache["oauth"]
  BY <1>2 DEF Flush, TypeOK, Services
<1>3. CASE Kill
  BY <1>3 DEF Kill, Services
<1>4. CASE UNCHANGED vars
  BY <1>4 DEF vars
<1> QED
  BY <1>1, <1>2, <1>3, <1>4 DEF Next, BeginExchange, CountTrusts, BeginUpdate, DeleteTrust,
     GetCache, FindTrust, CheckUser, CreateToken, InsertTrust, UpdateTrust, Admit, Suspend, Tick

LEMMA CacheStep == TypeOK /\ CacheInv /\ HoldersInv /\ [Next]_vars => CacheInv'
<1> SUFFICES ASSUME TypeOK, CacheInv, HoldersInv, [Next]_vars PROVE CacheInv'
  OBVIOUS
<1>1. TablesKept
  BY TablesStep
<1>2. ASSUME NEW e \in cache["oauth"]
      PROVE /\ e.trust.active
            /\ e.until <= now' + CacheTTL
            /\ e.trust \in trusts' \/ e.until <= lapsed'[e.trust] + (CacheTTL + Stall)
  <2>1. e.trust \in Trust /\ e.until \in Nat /\ CacheTTL + Stall \in Nat /\ now \in Nat
    BY TimeAssumption DEF TypeOK, Services, Entry
  <2>2. e.trust.active /\ e.until <= now + CacheTTL /\ InForce(e.trust, e.until, CacheTTL + Stall)
    BY DEF CacheInv
  <2>3. e.until <= now + (CacheTTL + Stall) /\ e.until <= now' + CacheTTL
    BY <1>1, <2>1, <2>2, TimeAssumption DEF TablesKept, ClockKept
  <2>4. e.trust \in trusts' \/ e.until <= lapsed'[e.trust] + (CacheTTL + Stall)
    BY <1>1, <2>1, <2>2, <2>3 DEF TablesKept, RowsKept
  <2> QED BY <2>2, <2>3, <2>4
<1>3. CASE cache'["oauth"] \subseteq cache["oauth"]
  BY <1>2, <1>3 DEF CacheInv, InForce
<1>4. ASSUME NEW r \in Requests, SetCache(r) PROVE CacheInv'
  <2> DEFINE new == [trust |-> trust[r], until |-> now + CacheTTL]
  <2>1. /\ UNCHANGED <<now, trusts, lapsed>>
        /\ \A e \in cache'["oauth"] : e \in cache["oauth"] \/ e = new
    BY <1>4 DEF SetCache, TypeOK, Services
  <2>2. /\ trust[r] \in Trust /\ trust[r].active
        /\ now <= mark[r] + Stall
        /\ InForce(trust[r], mark[r], 0)
    BY <1>4 DEF SetCache, HoldersInv, UsesTrust, HoldsTrust, TypeOK
  <2>3. InForce(trust[r], now + CacheTTL, CacheTTL + Stall)
    BY <2>2, TimeAssumption DEF InForce, TypeOK
  <2>4. /\ new.trust.active /\ new.until <= now' + CacheTTL
        /\ new.trust \in trusts' \/ new.until <= lapsed'[new.trust] + (CacheTTL + Stall)
    BY <2>1, <2>2, <2>3, TimeAssumption DEF InForce, TypeOK
  <2> HIDE DEF new
  <2> QED BY <1>2, <2>1, <2>4 DEF CacheInv, InForce
<1> QED BY <1>3, <1>4, CacheFrame

-----------------------------------------------------------------------------
(* Requests that hold a trust.                                             *)

(* What HoldersInv says of one request.                                    *)
Holding(r) ==
  /\ mark[r] <= now /\ now <= mark[r] + Stall
  /\ trust[r].active /\ trust[r].pair = pair[r]
  /\ InForce(trust[r], mark[r], CacheTTL + Stall)
  /\ pc[r] = "setCache" => InForce(trust[r], mark[r], 0)
  /\ pc[r] = "createToken" => \/ <<pair[r][2], user[r]>> \in members
                              \/ mark[r] <= left[<<pair[r][2], user[r]>>]

LEMMA HoldersAre == HoldersInv <=> \A r \in Requests : pc[r] \in UsesTrust => Holding(r)
  BY DEF HoldersInv, Holding

LEMMA HoldersAreNext ==
  (\A r \in Requests : pc'[r] \in UsesTrust => Holding(r)') => HoldersInv'
  BY DEF HoldersInv, Holding

(* A request goes on holding what it holds as long as it does not move,    *)
(* whatever happens to the tables.                                         *)
LEMMA StillHolding ==
  ASSUME TypeOK, HoldersInv, TablesKept, NEW q \in Requests, pc[q] \in UsesTrust,
         now' = now \/ now' <= mark[q] + Stall,
         UNCHANGED <<pc[q], pair[q], user[q], trust[q], mark[q]>>
  PROVE Holding(q)'
<1>1. Holding(q)
  BY HoldersAre
<1>2. /\ trust[q] \in Trust /\ mark[q] \in Nat /\ CacheTTL + Stall \in Nat /\ now \in Nat
      /\ <<pair[q][2], user[q]>> \in Members
  BY TimeAssumption, MemberType DEF TypeOK, UsesTrust, HoldsTrust, ExchangePcs
<1>3. mark[q] <= now /\ mark[q] <= now + (CacheTTL + Stall) /\ mark[q] <= now + 0
  BY <1>1, <1>2 DEF Holding
<1>4. InForce(trust[q], mark[q], CacheTTL + Stall)'
  BY <1>1, <1>2, <1>3 DEF Holding, TablesKept, RowsKept, InForce
<1>5. pc[q] = "setCache" => InForce(trust[q], mark[q], 0)'
  BY <1>1, <1>2, <1>3 DEF Holding, TablesKept, RowsKept, InForce
<1>6. ASSUME pc[q] = "createToken"
      PROVE \/ <<pair[q][2], user[q]>> \in members'
            \/ mark[q] <= left'[<<pair[q][2], user[q]>>]
  <2> DEFINE m == <<pair[q][2], user[q]>>
  <2>1. m \in members \/ mark[q] <= left[m]
    BY <1>1, <1>6 DEF Holding
  <2>2. m \in Members /\ left[m] \in Nat /\ left'[m] \in Nat
    BY <1>2 DEF TypeOK, TablesKept, MembersKept
  <2> HIDE DEF m
  <2>3. m \in members \/ mark[q] <= left[m] + 0
    BY <1>2, <2>1, <2>2
  <2>4. m \in members' \/ mark[q] <= left'[m] + 0
    BY <1>2, <1>3, <2>2, <2>3 DEF TablesKept, MembersKept
  <2> QED BY <1>2, <2>2, <2>4 DEF m
<1>7. mark[q] <= now' /\ now' <= mark[q] + Stall
  BY <1>1, <1>2, <1>3 DEF Holding, TablesKept, ClockKept
<1> QED BY <1>1, <1>4, <1>5, <1>6, <1>7 DEF Holding

Others(r) == \A q \in Requests \ {r} : UNCHANGED <<pc[q], pair[q], user[q], trust[q], mark[q]>>

LEMMA OthersHold ==
  ASSUME TypeOK, HoldersInv, TablesKept, now' = now, NEW r \in Requests, Others(r),
         pc'[r] \in UsesTrust => Holding(r)'
  PROVE HoldersInv'
<1> SUFFICES ASSUME NEW q \in Requests, pc'[q] \in UsesTrust PROVE Holding(q)'
  BY HoldersAreNext
<1>1. CASE q = r
  BY <1>1
<1>2. CASE q # r
  BY <1>2, StillHolding DEF Others
<1> QED BY <1>1, <1>2

LEMMA HoldersStep == TypeOK /\ CacheInv /\ HoldersInv /\ [Next]_vars => HoldersInv'
<1> SUFFICES ASSUME TypeOK, CacheInv, HoldersInv, [Next]_vars PROVE HoldersInv'
  OBVIOUS
<1>0. TablesKept
  BY TablesStep
<1> DEFINE Leaves(r) == pc'[r] \notin UsesTrust /\ Others(r) /\ now' = now
<1>1. ASSUME NEW r \in Requests, Leaves(r) PROVE HoldersInv'
  BY <1>0, <1>1, OthersHold
<1>2. ASSUME NEW r \in Requests, NEW p \in Pairs, NEW u \in Users, BeginExchange(r, p, u)
      PROVE Leaves(r)
  BY <1>2 DEF BeginExchange, Become, TypeOK, Others, UsesTrust
<1>3. ASSUME NEW r \in Requests, NEW p \in Pairs, CountTrusts(r, p) PROVE Leaves(r)
  BY <1>3 DEF CountTrusts, Become, TypeOK, Others, UsesTrust
<1>4. ASSUME NEW r \in Requests, NEW t \in trusts, BeginUpdate(r, t) PROVE Leaves(r)
  BY <1>4 DEF BeginUpdate, Keep, Become, TypeOK, Others, UsesTrust
<1>5. ASSUME NEW r \in Requests, NEW t \in trusts, DeleteTrust(r, t) PROVE Leaves(r)
  BY <1>5 DEF DeleteTrust, Keep, Become, TypeOK, Others, UsesTrust
<1>6. ASSUME NEW r \in Requests, CreateToken(r) PROVE Leaves(r)
  BY <1>6 DEF CreateToken, Finish, Become, TypeOK, Others, UsesTrust
<1>7. ASSUME NEW r \in Requests, InsertTrust(r) PROVE Leaves(r)
  BY <1>7 DEF InsertTrust, Keep, Become, TypeOK, Others, UsesTrust
<1>8. ASSUME NEW r \in Requests, UpdateTrust(r) PROVE Leaves(r)
  BY <1>8 DEF UpdateTrust, Keep, Goto, Finish, Become, TypeOK, Others, UsesTrust
<1>9. ASSUME NEW r \in Requests, Flush(r) PROVE Leaves(r)
  BY <1>9 DEF Flush, Finish, Become, TypeOK, Others, UsesTrust
<1>10. ASSUME NEW r \in Requests, NEW m \in Members, Admit(r, m) PROVE Leaves(r)
  BY <1>10 DEF Admit, Goto, Become, TypeOK, Others, UsesTrust
<1>11. ASSUME NEW r \in Requests, NEW m \in Members, Suspend(r, m) PROVE Leaves(r)
  BY <1>11 DEF Suspend, Goto, Become, TypeOK, Others, UsesTrust
<1>12. ASSUME NEW r \in Requests, GetCache(r) PROVE HoldersInv'
  <2>1. CASE Hits(pair[r]) = {} /\ Goto(r, "findTrust")
    BY <1>1, <1>12, <2>1 DEF GetCache, Goto, Become, TypeOK, Others, UsesTrust
  <2>2. ASSUME NEW e \in Hits(pair[r]), Hold(r, "checkUser", e.trust) PROVE HoldersInv'
    <3>1. /\ e \in cache["oauth"] /\ e.trust.pair = pair[r] /\ now <= e.until
          /\ e.trust \in Trust /\ e.until \in Nat
      BY DEF Hits, TypeOK, Services, Entry
    <3>2. /\ pc' = [pc EXCEPT ![r] = "checkUser"] /\ trust' = [trust EXCEPT ![r] = e.trust]
          /\ mark' = [mark EXCEPT ![r] = now]
          /\ UNCHANGED <<now, trusts, lapsed, pair, user>>
      BY <1>12, <2>2 DEF GetCache, Hold, Keep, Become
    <3>3. Others(r) /\ pc'[r] = "checkUser" /\ trust'[r] = e.trust /\ mark'[r] = now
      BY <3>2 DEF TypeOK, Others
    <3>4. InForce(e.trust, now, CacheTTL + Stall) /\ e.trust.active
      BY <3>1, TimeAssumption DEF CacheInv, InForce, TypeOK
    <3>5. Holding(r)'
      BY <3>1, <3>2, <3>3, <3>4, TimeAssumption DEF Holding, InForce, TypeOK
    <3> QED BY <1>0, <3>2, <3>3, <3>5, OthersHold
  <2> QED BY <1>12, <2>1, <2>2 DEF GetCache
<1>13. ASSUME NEW r \in Requests, FindTrust(r) PROVE HoldersInv'
  <2>1. CASE Finish(r)
    BY <1>1, <1>13, <2>1 DEF FindTrust, Finish, Become, TypeOK, Others, UsesTrust
  <2>2. ASSUME NEW t \in ActiveTrusts(pair[r]), Hold(r, "setCache", t) PROVE HoldersInv'
    <3>1. t \in trusts /\ t.pair = pair[r] /\ t.active
      BY DEF ActiveTrusts
    <3>2. /\ pc' = [pc EXCEPT ![r] = "setCache"] /\ trust' = [trust EXCEPT ![r] = t]
          /\ mark' = [mark EXCEPT ![r] = now]
          /\ UNCHANGED <<now, trusts, lapsed, pair, user>>
      BY <1>13, <2>2 DEF FindTrust, Hold, Keep, Become
    <3>3. Others(r) /\ pc'[r] = "setCache" /\ trust'[r] = t /\ mark'[r] = now
      BY <3>2 DEF TypeOK, Others
    <3>4. Holding(r)'
      BY <3>1, <3>2, <3>3, TimeAssumption DEF Holding, InForce, TypeOK
    <3> QED BY <1>0, <3>2, <3>3, <3>4, OthersHold
  <2> QED BY <1>13, <2>1, <2>2 DEF FindTrust
<1>14. ASSUME NEW r \in Requests, SetCache(r) PROVE HoldersInv'
  <2>1. /\ pc[r] \in UsesTrust /\ Others(r) /\ pc'[r] = "checkUser"
        /\ UNCHANGED <<now, trusts, lapsed, pair, user, trust, mark>>
    BY <1>14 DEF SetCache, Goto, Become, TypeOK, Others, UsesTrust
  <2>2. Holding(r)'
    BY <2>1, HoldersAre DEF Holding, InForce
  <2> QED BY <1>0, <2>1, <2>2, OthersHold
<1>15. ASSUME NEW r \in Requests, CheckUser(r) PROVE HoldersInv'
  <2>1. CASE Finish(r)
    BY <1>1, <1>15, <2>1 DEF CheckUser, Finish, Become, TypeOK, Others, UsesTrust
  <2>2. CASE <<pair[r][2], user[r]>> \in members /\ Goto(r, "createToken")
    <3>1. /\ pc[r] \in UsesTrust /\ Others(r) /\ pc'[r] = "createToken"
          /\ UNCHANGED <<now, trusts, lapsed, members, pair, user, trust, mark>>
      BY <1>15, <2>2 DEF CheckUser, Goto, Become, TypeOK, Others, UsesTrust
    <3>2. Holding(r)'
      BY <2>2, <3>1, HoldersAre DEF Holding, InForce
    <3> QED BY <1>0, <3>1, <3>2, OthersHold
  <2> QED BY <1>15, <2>1, <2>2 DEF CheckUser
<1>16. CASE Kill
  BY <1>16, HoldersAreNext DEF Kill, Live, UsesTrust, TypeOK, Pcs
<1>17. CASE Tick
  <2> SUFFICES ASSUME NEW q \in Requests, pc'[q] \in UsesTrust PROVE Holding(q)'
    BY HoldersAreNext
  <2>1. pc[q] \in UsesTrust /\ now' <= mark[q] + Stall
    BY <1>17, TimeAssumption DEF Tick, TypeOK
  <2> QED BY <1>0, <1>17, <2>1, StillHolding DEF Tick
<1>18. CASE UNCHANGED vars
  <2> SUFFICES ASSUME NEW q \in Requests, pc'[q] \in UsesTrust PROVE Holding(q)'
    BY HoldersAreNext
  <2> QED BY <1>0, <1>18, StillHolding DEF vars
<1> HIDE DEF Leaves
<1> QED
  BY <1>1, <1>2, <1>3, <1>4, <1>5, <1>6, <1>7, <1>8, <1>9, <1>10, <1>11, <1>12, <1>13,
     <1>14, <1>15, <1>16, <1>17, <1>18 DEF Next

-----------------------------------------------------------------------------
(* Tokens.                                                                 *)

(* What TokensInv says of one token.                                       *)
Target(k) == <<k.trust.pair[2], k.user>>
Fresh(k) ==
  /\ k.at <= now
  /\ k.trust.active
  /\ AnyScope \in k.trust.scopes \/ k.scopes \subseteq k.trust.scopes
  /\ InForce(k.trust, k.at, CacheTTL + 2 * Stall)
  /\ Target(k) \in members \/ k.at <= left[Target(k)] + Stall

LEMMA TokensAre == TokensInv <=> \A k \in tokens : Fresh(k)
  BY DEF TokensInv, GrantsAreFresh, Fresh, Target, InForce

LEMMA TokensAreNext == (\A k \in tokens' : Fresh(k)') => TokensInv'
  BY DEF TokensInv, GrantsAreFresh, Fresh, Target, InForce

LEMMA StillFresh ==
  ASSUME TypeOK, TokensInv, TablesKept, NEW k \in tokens
  PROVE Fresh(k)'
<1>1. Fresh(k)
  BY TokensAre
<1>2. /\ k.trust \in Trust /\ k.at \in Nat /\ now \in Nat
      /\ CacheTTL + 2 * Stall \in Nat /\ Stall \in Nat
      /\ Target(k) \in Members
  BY TimeAssumption, MemberType DEF TypeOK, Token, Trust, Target
<1>3. k.at <= now /\ k.at <= now' /\ k.at <= now + (CacheTTL + 2 * Stall) /\ k.at <= now + Stall
  BY <1>1, <1>2 DEF Fresh, TablesKept, ClockKept
<1>4. k.trust \in trusts' \/ k.at <= lapsed'[k.trust] + (CacheTTL + 2 * Stall)
  BY <1>1, <1>2, <1>3 DEF Fresh, TablesKept, RowsKept
<1>5. Target(k) \in members' \/ k.at <= left'[Target(k)] + Stall
  BY <1>1, <1>2, <1>3 DEF Fresh, TablesKept, MembersKept
<1> QED BY <1>1, <1>3, <1>4, <1>5 DEF Fresh, InForce, Target

LEMMA TokensFrame ==
  ASSUME TypeOK, [Next]_vars
  PROVE tokens' = tokens \/ \E r \in Requests : CreateToken(r)
  BY DEF Next, vars, BeginExchange, CountTrusts, BeginUpdate, DeleteTrust, GetCache, FindTrust,
     SetCache, CheckUser, InsertTrust, UpdateTrust, Flush, Admit, Suspend, Kill, Tick

LEMMA TokensStep == TypeOK /\ HoldersInv /\ TokensInv /\ [Next]_vars => TokensInv'
<1> SUFFICES ASSUME TypeOK, HoldersInv, TokensInv, [Next]_vars, NEW k \in tokens' PROVE Fresh(k)'
  BY TokensAreNext
<1>1. CASE k \in tokens
  BY <1>1, TablesStep, StillFresh
<1>2. ASSUME k \notin tokens, NEW r \in Requests, CreateToken(r) PROVE Fresh(k)'
  <2>1. PICK want \in SUBSET Scopes :
          k = [name |-> r, trust |-> trust[r], user |-> user[r],
               scopes |-> Narrow(want, trust[r].scopes), at |-> now,
               late |-> trust[r] \in late[r]]
    BY <1>2 DEF CreateToken
  <2>2. /\ k.trust = trust[r] /\ k.user = user[r] /\ k.at = now
        /\ k.scopes = Narrow(want, trust[r].scopes)
    BY <2>1
  <2>3. /\ pc[r] = "createToken" /\ pc[r] \in UsesTrust /\ Holding(r)
        /\ UNCHANGED <<now, trusts, lapsed, members, left>>
    BY <1>2, HoldersAre DEF CreateToken, UsesTrust
  <2>4. /\ trust[r] \in Trust /\ mark[r] \in Nat /\ now \in Nat /\ Stall \in Nat /\ CacheTTL \in Nat
        /\ lapsed[trust[r]] \in Nat /\ <<pair[r][2], user[r]>> \in Members
        /\ left[<<pair[r][2], user[r]>>] \in Nat
    BY <2>3, TimeAssumption, MemberType DEF TypeOK, UsesTrust, HoldsTrust, ExchangePcs
  <2>5. AnyScope \in k.trust.scopes \/ k.scopes \subseteq k.trust.scopes
    BY <2>2 DEF Narrow
  <2>6. InForce(k.trust, k.at, CacheTTL + 2 * Stall)
    BY <2>2, <2>3, <2>4 DEF Holding, InForce
  <2>7. Target(k) = <<pair[r][2], user[r]>>
    BY <2>2, <2>3 DEF Holding, Target
  <2>8. Target(k) \in members \/ k.at <= left[Target(k)] + Stall
    BY <2>2, <2>3, <2>4, <2>7 DEF Holding
  <2>9. k.trust.active /\ k.at <= now
    BY <2>2, <2>3, <2>4 DEF Holding
  <2> QED BY <2>3, <2>5, <2>6, <2>8, <2>9 DEF Fresh, InForce, Target
<1> QED BY <1>1, <1>2, TokensFrame

-----------------------------------------------------------------------------
(* Rows for the same apps.                                                 *)

(* A step that adds no trust and no request about to insert one.           *)
NothingMade ==
  /\ trusts' \subseteq trusts
  /\ \A q \in Requests : pc'[q] = "insertTrust" => UNCHANGED <<pc[q], pair[q]>>
  /\ unchecked' = unchecked

LEMMA NothingMadeStep == DuplicateInv /\ NothingMade => DuplicateInv'
  BY DEF DuplicateInv, NothingMade, Making

LEMMA DuplicateStep == TypeOK /\ DuplicateInv /\ [Next]_vars => DuplicateInv'
<1> SUFFICES ASSUME TypeOK, DuplicateInv, [Next]_vars PROVE DuplicateInv'
  OBVIOUS
<1> USE DEF Become, Goto, Keep, Hold, Finish, NothingMade
<1>1. ASSUME NEW r \in Requests, NEW p \in Pairs, CountTrusts(r, p) PROVE DuplicateInv'
  <2>1. /\ trusts' = trusts /\ unchecked \subseteq unchecked'
        /\ pc' = [pc EXCEPT ![r] = "insertTrust"] /\ pair' = [pair EXCEPT ![r] = p]
        /\ pc[r] = "idle"
    BY <1>1 DEF CountTrusts
  <2>2. \A q \in Requests, x \in Pairs : Making(q, x)' <=> IF q = r THEN x = p ELSE Making(q, x)
    BY <2>1 DEF Making, TypeOK
  <2>3. p \notin unchecked' => /\ \A t \in trusts : t.pair # p
                              /\ \A q \in Requests : ~Making(q, p)
    BY <1>1 DEF CountTrusts, Making
  <2> QED BY <2>1, <2>2, <2>3 DEF DuplicateInv
<1>2. ASSUME NEW r \in Requests, InsertTrust(r) PROVE DuplicateInv'
  <2>1. PICK s \in Allowances :
          trusts' = trusts \cup {[id |-> r, pair |-> pair[r], scopes |-> s, active |-> TRUE]}
    BY <1>2 DEF InsertTrust, Replace
  <2>2. /\ unchecked' = unchecked /\ pair' = pair /\ pc' = [pc EXCEPT ![r] = "flush"]
        /\ Making(r, pair[r])
    BY <1>2 DEF InsertTrust, Making
  <2>3. \A q \in Requests, x \in Pairs : Making(q, x)' <=> q # r /\ Making(q, x)
    BY <2>2 DEF Making, TypeOK
  <2> DEFINE new == [id |-> r, pair |-> pair[r], scopes |-> s, active |-> TRUE]
  <2>4. trusts' = trusts \cup {new} /\ new.pair = pair[r]
    BY <2>1
  <2> HIDE DEF new
  <2> QED BY <2>2, <2>3, <2>4 DEF DuplicateInv
<1>3. ASSUME NEW r \in Requests, UpdateTrust(r) PROVE DuplicateInv'
  <2>1. /\ unchecked' = unchecked /\ pc[r] = "updateTrust"
        /\ \A q \in Requests, x \in Pairs : Making(q, x)' => Making(q, x)
    BY <1>3 DEF UpdateTrust, Making, TypeOK
  <2>2. CASE trusts' = trusts
    BY <2>1, <2>2 DEF DuplicateInv
  <2>3. CASE \E t \in trusts, s \in Allowances, a \in BOOLEAN :
               Replace({t}, {[t EXCEPT !.scopes = s, !.active = a]})
    <3>1. PICK t \in trusts, s \in Allowances, a \in BOOLEAN :
               Replace({t}, {[t EXCEPT !.scopes = s, !.active = a]})
      BY <2>3
    <3> DEFINE new == [t EXCEPT !.scopes = s, !.active = a]
    <3>2. new.pair = t.pair
      <4>1. t \in Trust
        BY DEF TypeOK
      <4> QED BY <4>1 DEF Trust
    <3>3. trusts' = (trusts \ {t}) \cup {new}
      BY <3>1 DEF Replace
    <3> HIDE DEF new
    <3> QED BY <2>1, <3>2, <3>3 DEF DuplicateInv
  <2> QED BY <1>3, <2>2, <2>3 DEF UpdateTrust
<1>4. ASSUME NEW r \in Requests, NEW p \in Pairs, NEW u \in Users, BeginExchange(r, p, u)
      PROVE NothingMade
  BY <1>4 DEF BeginExchange, TypeOK
<1>5. ASSUME NEW r \in Requests, NEW t \in trusts, BeginUpdate(r, t) PROVE NothingMade
  BY <1>5 DEF BeginUpdate, TypeOK
<1>6. ASSUME NEW r \in Requests, NEW t \in trusts, DeleteTrust(r, t) PROVE NothingMade
  BY <1>6 DEF DeleteTrust, Replace, TypeOK
<1>7. ASSUME NEW r \in Requests, GetCache(r) PROVE NothingMade
  BY <1>7 DEF GetCache, TypeOK
<1>8. ASSUME NEW r \in Requests, FindTrust(r) PROVE NothingMade
  BY <1>8 DEF FindTrust, TypeOK
<1>9. ASSUME NEW r \in Requests, SetCache(r) PROVE NothingMade
  BY <1>9 DEF SetCache, TypeOK
<1>10. ASSUME NEW r \in Requests, CheckUser(r) PROVE NothingMade
  BY <1>10 DEF CheckUser, TypeOK
<1>11. ASSUME NEW r \in Requests, CreateToken(r) PROVE NothingMade
  BY <1>11 DEF CreateToken, TypeOK
<1>12. ASSUME NEW r \in Requests, Flush(r) PROVE NothingMade
  BY <1>12 DEF Flush, TypeOK
<1>13. ASSUME NEW r \in Requests, NEW m \in Members, Admit(r, m) \/ Suspend(r, m)
       PROVE NothingMade
  BY <1>13 DEF Admit, Suspend, TypeOK
<1>14. CASE Kill
  BY <1>14, NothingMadeStep DEF Kill, Live, TypeOK
<1>15. CASE Tick
  BY <1>15, NothingMadeStep DEF Tick
<1>16. CASE UNCHANGED vars
  BY <1>16, NothingMadeStep DEF vars
<1> HIDE DEF NothingMade
<1> QED
  BY <1>1, <1>2, <1>3, <1>4, <1>5, <1>6, <1>7, <1>8, <1>9, <1>10, <1>11, <1>12, <1>13,
     <1>14, <1>15, <1>16, NothingMadeStep DEF Next

-----------------------------------------------------------------------------
(* The theorems.                                                           *)

LEMMA InitExchangeInv == Init => ExchangeInv
<1> SUFFICES ASSUME Init PROVE ExchangeInv
  OBVIOUS
<1>1. TypeOK
  BY DEF Init, TypeOK, Pcs, HoldsTrust, ExchangePcs, UsesTrust, Services
<1>2. CacheInv
  BY DEF Init, CacheInv, Services
<1>3. HoldersInv
  BY DEF Init, HoldersInv, UsesTrust
<1>4. TokensInv
  BY DEF Init, TokensInv, GrantsAreFresh
<1>5. DuplicateInv
  BY DEF Init, DuplicateInv, Making
<1> QED BY <1>1, <1>2, <1>3, <1>4, <1>5 DEF ExchangeInv

(* Every variable keeps its type, and a request that holds a trust in      *)
(* service/tokenexchange really holds one, for every value of the          *)
(* constants.                                                              *)
THEOREM ExchangeTypeCorrect == Spec => []TypeOK
<1>1. Init => TypeOK
  BY InitExchangeInv DEF ExchangeInv
<1> QED BY <1>1, TypeStep, PTL DEF Spec

(* The invariant of the exchange: what the cache, the requests under way   *)
(* and the tokens keep of a trust is never older than its share of the     *)
(* cache's lifetime and of a slow request, and a pair whose creations were *)
(* all counted has one row or one request about to insert it.              *)
THEOREM ExchangeInvariance == Spec => []ExchangeInv
<1>1. ExchangeInv /\ [Next]_vars => ExchangeInv'
  BY TypeStep, CacheStep, HoldersStep, TokensStep, DuplicateStep DEF ExchangeInv
<1> QED BY InitExchangeInv, <1>1, PTL DEF Spec

(* An exchanged token is backed by an active trust that grants its scopes  *)
(* and was in the table at most CacheTTL + 2 * Stall before, for a user    *)
(* who was a member of the target app at most Stall before, for every      *)
(* CacheTTL and Stall, whatever the admins, the clock and a kill do.       *)
THEOREM GrantsStayFresh == Spec => []GrantsAreFresh
<1>1. ExchangeInv => GrantsAreFresh
  BY DEF ExchangeInv, TokensInv
<1> QED BY ExchangeInvariance, <1>1, PTL

(* Two cross_app_trusts rows for the same apps are always the work of two  *)
(* creations that overlapped or of a failed duplicate count.               *)
THEOREM DuplicatesByRaceOnly == Spec => []DuplicateOnlyByRace
<1>1. ExchangeInv => DuplicateOnlyByRace
  BY DEF ExchangeInv, DuplicateInv, DuplicateOnlyByRace, TypeOK, Trust
<1> QED BY ExchangeInvariance, <1>1, PTL
=============================================================================
