------------------------- MODULE OAuthTokens_proofs -------------------------
(***************************************************************************)
(* Proofs about the authorization server, for every number of requests,    *)
(* clients, users and apps.                                                *)
(*                                                                         *)
(* IInv is TypeOK and five named parts.  Each part is shown to hold        *)
(* initially and to be preserved by every action, from TypeOK, NamesInv    *)
(* and itself; the safety properties are conjuncts of the parts, or follow *)
(* from them.  CalmInv adds what holds when no statement fails.  At the    *)
(* end, every step is a step of OAuthGrants or a stutter.                  *)
(***************************************************************************)
EXTENDS OAuthTokens, TLAPS

USE DEF dbVars, reqVars, histVars

-----------------------------------------------------------------------------
(* Type correctness.                                                       *)

LEMMA NewCodeType ==
  ASSUME NEW r \in Requests, NEW o \in BOOLEAN, who[r] \in Clients, user[r] \in Users
  PROVE NewCode(r, o) \in CodeRow
  BY DEF NewCode, CodeRow

LEMMA NewAccessType ==
  ASSUME NEW r \in Requests, NEW c \in Clients, NEW b \in BOOLEAN,
         held[r] \in CodeRow \cup RefreshRow
  PROVE NewAccess(r, c, b) \in AccessRow
  BY DEF NewAccess, AccessRow, CodeRow, RefreshRow

LEMMA NewRefreshType ==
  ASSUME NEW r \in Requests, NEW c \in Clients, held[r] \in CodeRow \cup RefreshRow
  PROVE NewRefresh(r, c) \in RefreshRow
  BY DEF NewRefresh, RefreshRow, CodeRow

LEMMA HeldClient == ASSUME NEW row \in CodeRow \cup RefreshRow PROVE row.client \in Clients
  BY DEF CodeRow, RefreshRow

LEMMA UsedType ==
  ASSUME codes \subseteq CodeRow, NEW k
  PROVE {IF row.session = k THEN [row EXCEPT !.used = TRUE] ELSE row : row \in codes}
          \subseteq CodeRow
<1> SUFFICES ASSUME NEW row \in codes PROVE [row EXCEPT !.used = TRUE] \in CodeRow
  OBVIOUS
<1> QED BY DEF CodeRow

(* The actions that build a row.                                           *)
LEMMA InsertCodeType ==
  ASSUME TypeOK, NEW r \in Requests, NEW o \in BOOLEAN, InsertCode(r, o) PROVE TypeOK'
  BY NewCodeType DEF TypeOK, InsertCode, Finish, Become, Row, Pcs, IssuingPcs, ExchangePcs,
       ReusePcs, RefreshPcs, RevokePcs, AdminPcs

LEMMA CreateAccessType ==
  ASSUME TypeOK, NEW r \in Requests, CreateAccess(r) PROVE TypeOK'
  BY NewAccessType, HeldClient DEF TypeOK, CreateAccess, Goto, Become, Row, Pcs, IssuingPcs,
       ExchangePcs, ReusePcs, RefreshPcs, RevokePcs, AdminPcs

LEMMA MarkUsedType ==
  ASSUME TypeOK, NEW r \in Requests, MarkUsed(r) PROVE TypeOK'
  BY UsedType DEF TypeOK, MarkUsed, Goto, Become, Row, Pcs, IssuingPcs, ExchangePcs,
       ReusePcs, RefreshPcs, RevokePcs, AdminPcs

LEMMA CreateRefreshType ==
  ASSUME TypeOK, NEW r \in Requests, CreateRefresh(r) PROVE TypeOK'
  BY NewRefreshType, HeldClient DEF TypeOK, CreateRefresh, Finish, Become, Row, Pcs, IssuingPcs,
       ExchangePcs, ReusePcs, RefreshPcs, RevokePcs, AdminPcs

LEMMA RotateAccessType ==
  ASSUME TypeOK, NEW r \in Requests, RotateAccess(r) PROVE TypeOK'
  BY NewAccessType DEF TypeOK, RotateAccess, Goto, Become, Row, Pcs, IssuingPcs, ExchangePcs,
       ReusePcs, RefreshPcs, RevokePcs, AdminPcs

LEMMA RotateRefreshType ==
  ASSUME TypeOK, NEW r \in Requests, RotateRefresh(r) PROVE TypeOK'
  BY NewRefreshType DEF TypeOK, RotateRefresh, Finish, Become, Row, Pcs, IssuingPcs, ExchangePcs,
       ReusePcs, RefreshPcs, RevokePcs, AdminPcs

(* One case per action, here and in the four lemmas like this one below.   *)
LEMMA TypeStep == TypeOK /\ [Next]_vars => TypeOK'
<1> SUFFICES ASSUME TypeOK, [Next]_vars PROVE TypeOK'
  OBVIOUS
<1> USE ClientsAssumption
    DEF Become, Goto, Finish, Hold, NoteRace, Admits, Enter, BeginToken, BeginAdmin,
        Row, CodeRow, AccessRow, RefreshRow,
        Pcs, IssuingPcs, ExchangePcs, ReusePcs, RefreshPcs, RevokePcs, AdminPcs,
        TypeOK
<1>1. ASSUME NEW r \in Requests, AuthorizeStep(r) PROVE TypeOK'
  <2>1. ASSUME NEW c \in Clients, NEW u \in Users, BeginConsent(r, c, u) PROVE TypeOK'
    BY SMTT(60), <2>1 DEF BeginConsent, ClientActive
  <2>2. ASSUME NEW c \in Clients, NEW u \in Users, BeginSilent(r, c, u) PROVE TypeOK'
    BY SMTT(60), <2>2 DEF BeginSilent, ClientActive
  <2>3. ASSUME CheckAppUser(r) PROVE TypeOK'
    BY SMTT(60), <2>3 DEF CheckAppUser
  <2>4. ASSUME NEW o \in BOOLEAN, InsertCode(r, o) PROVE TypeOK'
    BY <2>4, InsertCodeType
  <2> QED BY <1>1, <2>1, <2>2, <2>3, <2>4 DEF AuthorizeStep
<1>2. ASSUME NEW r \in Requests, ExchangeStep(r) PROVE TypeOK'
  <2>1. ASSUME NEW c \in Clients, BeginExchange(r, c) PROVE TypeOK'
    BY SMTT(60), <2>1 DEF BeginExchange, ClientActive
  <2>2. ASSUME FindUnusedCode(r) PROVE TypeOK'
    BY SMTT(60), <2>2 DEF FindUnusedCode
  <2>3. ASSUME MissUnusedCode(r) PROVE TypeOK'
    BY SMTT(60), <2>3 DEF MissUnusedCode
  <2>4. ASSUME FindReusedCode(r) PROVE TypeOK'
    BY SMTT(60), <2>4 DEF FindReusedCode
  <2>5. ASSUME DeleteReusedAccess(r) PROVE TypeOK'
    BY SMTT(60), <2>5 DEF DeleteReusedAccess
  <2>6. ASSUME RecheckExchange(r) PROVE TypeOK'
    BY SMTT(60), <2>6 DEF RecheckExchange
  <2>7. ASSUME CreateAccess(r) PROVE TypeOK'
    BY <2>7, CreateAccessType
  <2>8. ASSUME MarkUsed(r) PROVE TypeOK'
    BY <2>8, MarkUsedType
  <2>9. ASSUME FindAppUser(r) PROVE TypeOK'
    BY SMTT(60), <2>9 DEF FindAppUser, AfterRecord
  <2>10. ASSUME RecordAppUser(r) PROVE TypeOK'
    BY SMTT(60), <2>10 DEF RecordAppUser, AfterRecord, AppUserOf
  <2>11. ASSUME CreateRefresh(r) PROVE TypeOK'
    BY <2>11, CreateRefreshType
  <2> QED BY <1>2, <2>1, <2>2, <2>3, <2>4, <2>5, <2>6, <2>7, <2>8, <2>9, <2>10, <2>11 DEF ExchangeStep
<1>3. ASSUME NEW r \in Requests, RefreshStep(r) PROVE TypeOK'
  <2>1. ASSUME NEW c \in Clients, BeginRefresh(r, c) PROVE TypeOK'
    BY SMTT(60), <2>1 DEF BeginRefresh, ClientActive
  <2>2. ASSUME FindRefresh(r) PROVE TypeOK'
    BY SMTT(60), <2>2 DEF FindRefresh, Usable
  <2>3. ASSUME RecheckRefresh(r) PROVE TypeOK'
    BY SMTT(60), <2>3 DEF RecheckRefresh
  <2>4. ASSUME DeleteLinkedAccess(r) PROVE TypeOK'
    BY SMTT(60), <2>4 DEF DeleteLinkedAccess
  <2>5. ASSUME RotateAccess(r) PROVE TypeOK'
    BY <2>5, RotateAccessType
  <2>6. ASSUME DeleteOldRefresh(r) PROVE TypeOK'
    BY SMTT(60), <2>6 DEF DeleteOldRefresh
  <2>7. ASSUME RotateRefresh(r) PROVE TypeOK'
    BY <2>7, RotateRefreshType
  <2> QED BY <1>3, <2>1, <2>2, <2>3, <2>4, <2>5, <2>6, <2>7 DEF RefreshStep
<1>4. ASSUME NEW r \in Requests, RevokeStep(r) PROVE TypeOK'
  <2>1. ASSUME NEW c \in Clients, BeginRevoke(r, c) PROVE TypeOK'
    BY SMTT(60), <2>1 DEF BeginRevoke, ClientActive
  <2>2. ASSUME ResolveToken(r) PROVE TypeOK'
    BY SMTT(60), <2>2 DEF ResolveToken
  <2>3. ASSUME RevokeAccess(r) PROVE TypeOK'
    BY SMTT(60), <2>3 DEF RevokeAccess, IsAccess
  <2>4. ASSUME RevokeRefresh(r) PROVE TypeOK'
    BY SMTT(60), <2>4 DEF RevokeRefresh, IsAccess
  <2>5. ASSUME AnswerRevoke(r) PROVE TypeOK'
    BY SMTT(60), <2>5 DEF AnswerRevoke
  <2> QED BY <1>4, <2>1, <2>2, <2>3, <2>4, <2>5 DEF RevokeStep
<1>5. ASSUME NEW r \in Requests, AdminStep(r) PROVE TypeOK'
  <2>1. ASSUME NEW c \in Clients, BeginDeleteClient(r, c) PROVE TypeOK'
    BY SMTT(60), <2>1 DEF BeginDeleteClient
  <2>2. ASSUME NEW c \in Clients, BeginRegenerate(r, c) PROVE TypeOK'
    BY SMTT(60), <2>2 DEF BeginRegenerate
  <2>3. ASSUME NEW c \in Clients, BeginRevokeClient(r, c) PROVE TypeOK'
    BY SMTT(60), <2>3 DEF BeginRevokeClient
  <2>4. ASSUME DeleteClientCodes(r) PROVE TypeOK'
    BY SMTT(60), <2>4 DEF DeleteClientCodes, OfOther
  <2>5. ASSUME DeleteClientAccess(r) PROVE TypeOK'
    BY SMTT(60), <2>5 DEF DeleteClientAccess, OfOther
  <2>6. ASSUME DeleteClientRow(r) PROVE TypeOK'
    BY SMTT(60), <2>6 DEF DeleteClientRow
  <2>7. ASSUME UpdateSecret(r) PROVE TypeOK'
    BY SMTT(60), <2>7 DEF UpdateSecret
  <2>8. ASSUME DropAccessAfterSecret(r) PROVE TypeOK'
    BY SMTT(60), <2>8 DEF DropAccessAfterSecret, OfOther
  <2>9. ASSUME RevokeClientAccess(r) PROVE TypeOK'
    BY SMTT(60), <2>9 DEF RevokeClientAccess, OfOther
  <2>10. ASSUME RevokeClientRefresh(r) PROVE TypeOK'
    BY SMTT(60), <2>10 DEF RevokeClientRefresh, OfOther
  <2> QED BY <1>5, <2>1, <2>2, <2>3, <2>4, <2>5, <2>6, <2>7, <2>8, <2>9, <2>10 DEF AdminStep
<1>6. ASSUME NEW r \in Requests, Abort(r) PROVE TypeOK'
  BY <1>6 DEF Abort
<1>7. ASSUME NEW c \in Clients, NEW status \in {"active", "disabled"}, SetActive(c, status) PROVE TypeOK'
  BY <1>7 DEF SetActive
<1>8. ASSUME NEW a \in Apps, NEW u \in Users, RevokeUserApp(a, u) PROVE TypeOK'
  BY <1>8 DEF RevokeUserApp
<1>9. ASSUME NEW row \in Usable(codes), ExpireCode(row) PROVE TypeOK'
  BY <1>9 DEF ExpireCode, Aged, Usable
<1>10. ASSUME NEW row \in Usable(access), ExpireAccess(row) PROVE TypeOK'
  BY <1>10 DEF ExpireAccess, Aged, Usable
<1>11. ASSUME NEW row \in Usable(refresh), ExpireRefresh(row) PROVE TypeOK'
  BY <1>11 DEF ExpireRefresh, Aged, Usable
<1>12. CASE UNCHANGED vars
  BY <1>12 DEF vars
<1> QED BY SMTT(60), <1>1, <1>2, <1>3, <1>4, <1>5, <1>6, <1>7, <1>8, <1>9, <1>10, <1>11, <1>12
       DEF Next, RequestStep, Expiry

-----------------------------------------------------------------------------
(* Names.                                                                  *)

(* Marking a code changes no code's name.                                  *)
LEMMA MarkedCode ==
  ASSUME TypeOK, NEW r \in Requests, MarkUsed(r), NEW x \in codes'
  PROVE \E row \in codes :
          /\ x.session = row.session
          /\ x = IF row.session = held[r].session THEN [row EXCEPT !.used = TRUE] ELSE row
<1>1. PICK row \in codes :
        x = IF row.session = held[r].session THEN [row EXCEPT !.used = TRUE] ELSE row
  BY DEF MarkUsed
<1>2. row \in CodeRow
  BY DEF TypeOK
<1>3. [row EXCEPT !.used = TRUE].session = row.session
  BY <1>2 DEF CodeRow
<1> QED BY <1>1, <1>3

LEMMA InsertCodeNames ==
  ASSUME TypeOK, NamesInv, NEW r \in Requests, NEW o \in BOOLEAN, InsertCode(r, o)
  PROVE NamesInv'
<1>1. NewCode(r, o).session = r /\ pc[r] # "done"
  BY DEF NewCode, InsertCode
<1>2. \A x, y \in codes' : x.session = y.session => x = y
  BY <1>1 DEF InsertCode, NamesInv
<1>3. access' = access /\ refresh' = refresh /\ pc'[r] = "done"
  BY DEF InsertCode, Finish, Become, TypeOK
<1>4. \A s \in Requests \ {r} : pc'[s] = pc[s] /\ held'[s] = held[s]
  BY DEF InsertCode, Finish, Become, TypeOK
<1> QED BY <1>1, <1>2, <1>3, <1>4 DEF InsertCode, NamesInv, TypeOK, CodeRow, AccessRow,
             RefreshRow, Row, Carrying, HoldingPcs, ExchangePcs, RefreshPcs, ReusePcs

LEMMA MarkUsedNames ==
  ASSUME TypeOK, NamesInv, NEW r \in Requests, MarkUsed(r) PROVE NamesInv'
<1>1. ASSUME NEW x \in codes', NEW y \in codes', x.session = y.session PROVE x = y
  <2>1. PICK p \in codes :
          /\ x.session = p.session
          /\ x = IF p.session = held[r].session THEN [p EXCEPT !.used = TRUE] ELSE p
    BY MarkedCode
  <2>2. PICK q \in codes :
          /\ y.session = q.session
          /\ y = IF q.session = held[r].session THEN [q EXCEPT !.used = TRUE] ELSE q
    BY MarkedCode
  <2>3. p = q
    BY <1>1, <2>1, <2>2 DEF NamesInv
  <2> QED BY <2>1, <2>2, <2>3
<1>2. \A x \in codes' : pc[x.session] = "done"
  BY MarkedCode DEF NamesInv
<1>3. /\ access' = access /\ refresh' = refresh /\ held' = held
      /\ pc[r] = "exMark" /\ pc' = [pc EXCEPT ![r] = "exFindUser"]
  BY DEF MarkUsed, Goto, Become
<1>4. \A s \in Requests : pc[s] = "done" => pc'[s] = "done"
  BY <1>3 DEF TypeOK
<1>5. \A x \in codes' : x.session \in Requests
  BY MarkedCode DEF TypeOK, CodeRow
<1> QED BY <1>1, <1>2, <1>3, <1>4, <1>5 DEF NamesInv, TypeOK, AccessRow, RefreshRow, CodeRow,
             Row, Carrying, HoldingPcs, ExchangePcs, RefreshPcs, ReusePcs

LEMMA ExpireCodeNames ==
  ASSUME TypeOK, NamesInv, NEW row \in Usable(codes), ExpireCode(row) PROVE NamesInv'
<1>1. Aged(row).session = row.session /\ row \in codes
  BY DEF Aged, TypeOK, CodeRow, Usable
<1> QED BY <1>1 DEF NamesInv, ExpireCode, Carrying

(* Names are fresh: a request inserts each kind of row at most once.       *)
LEMMA NamesStep == TypeOK /\ NamesInv /\ [Next]_vars => NamesInv'
<1> SUFFICES ASSUME TypeOK, NamesInv, [Next]_vars PROVE NamesInv'
  OBVIOUS
<1> USE ClientsAssumption
    DEF Become, Goto, Finish, Hold, NoteRace, Admits, Enter, BeginToken, BeginAdmin,
        Row, CodeRow, AccessRow, RefreshRow,
        Pcs, IssuingPcs, ExchangePcs, ReusePcs, RefreshPcs, RevokePcs, AdminPcs,
        TypeOK, NamesInv, Carrying, HoldingPcs
<1>1. ASSUME NEW r \in Requests, AuthorizeStep(r) PROVE NamesInv'
  <2>1. ASSUME NEW c \in Clients, NEW u \in Users, BeginConsent(r, c, u) PROVE NamesInv'
    BY <2>1 DEF BeginConsent, ClientActive
  <2>2. ASSUME NEW c \in Clients, NEW u \in Users, BeginSilent(r, c, u) PROVE NamesInv'
    BY <2>2 DEF BeginSilent, ClientActive
  <2>3. ASSUME CheckAppUser(r) PROVE NamesInv'
    BY <2>3 DEF CheckAppUser
  <2>4. ASSUME NEW o \in BOOLEAN, InsertCode(r, o) PROVE NamesInv'
    BY <2>4, InsertCodeNames
  <2> QED BY <1>1, <2>1, <2>2, <2>3, <2>4 DEF AuthorizeStep
<1>2. ASSUME NEW r \in Requests, ExchangeStep(r) PROVE NamesInv'
  <2>1. ASSUME NEW c \in Clients, BeginExchange(r, c) PROVE NamesInv'
    BY <2>1 DEF BeginExchange, ClientActive
  <2>2. ASSUME FindUnusedCode(r) PROVE NamesInv'
    BY <2>2 DEF FindUnusedCode
  <2>3. ASSUME MissUnusedCode(r) PROVE NamesInv'
    BY <2>3 DEF MissUnusedCode
  <2>4. ASSUME FindReusedCode(r) PROVE NamesInv'
    BY <2>4 DEF FindReusedCode
  <2>5. ASSUME DeleteReusedAccess(r) PROVE NamesInv'
    BY <2>5 DEF DeleteReusedAccess
  <2>6. ASSUME RecheckExchange(r) PROVE NamesInv'
    BY <2>6 DEF RecheckExchange
  <2>7. ASSUME CreateAccess(r) PROVE NamesInv'
    BY <2>7 DEF CreateAccess, NewAccess
  <2>8. ASSUME MarkUsed(r) PROVE NamesInv'
    BY <2>8, MarkUsedNames
  <2>9. ASSUME FindAppUser(r) PROVE NamesInv'
    BY <2>9 DEF FindAppUser, AfterRecord
  <2>10. ASSUME RecordAppUser(r) PROVE NamesInv'
    BY <2>10 DEF RecordAppUser, AfterRecord, AppUserOf
  <2>11. ASSUME CreateRefresh(r) PROVE NamesInv'
    BY <2>11 DEF CreateRefresh, NewRefresh
  <2> QED BY <1>2, <2>1, <2>2, <2>3, <2>4, <2>5, <2>6, <2>7, <2>8, <2>9, <2>10, <2>11 DEF ExchangeStep
<1>3. ASSUME NEW r \in Requests, RefreshStep(r) PROVE NamesInv'
  <2>1. ASSUME NEW c \in Clients, BeginRefresh(r, c) PROVE NamesInv'
    BY <2>1 DEF BeginRefresh, ClientActive
  <2>2. ASSUME FindRefresh(r) PROVE NamesInv'
    BY <2>2 DEF FindRefresh, Usable
  <2>3. ASSUME RecheckRefresh(r) PROVE NamesInv'
    BY <2>3 DEF RecheckRefresh
  <2>4. ASSUME DeleteLinkedAccess(r) PROVE NamesInv'
    BY <2>4 DEF DeleteLinkedAccess
  <2>5. ASSUME RotateAccess(r) PROVE NamesInv'
    BY <2>5 DEF RotateAccess, NewAccess
  <2>6. ASSUME DeleteOldRefresh(r) PROVE NamesInv'
    BY <2>6 DEF DeleteOldRefresh
  <2>7. ASSUME RotateRefresh(r) PROVE NamesInv'
    BY <2>7 DEF RotateRefresh, NewRefresh
  <2> QED BY <1>3, <2>1, <2>2, <2>3, <2>4, <2>5, <2>6, <2>7 DEF RefreshStep
<1>4. ASSUME NEW r \in Requests, RevokeStep(r) PROVE NamesInv'
  <2>1. ASSUME NEW c \in Clients, BeginRevoke(r, c) PROVE NamesInv'
    BY <2>1 DEF BeginRevoke, ClientActive
  <2>2. ASSUME ResolveToken(r) PROVE NamesInv'
    BY SMTT(40), <2>2 DEF ResolveToken
  <2>3. ASSUME RevokeAccess(r) PROVE NamesInv'
    BY <2>3 DEF RevokeAccess, IsAccess
  <2>4. ASSUME RevokeRefresh(r) PROVE NamesInv'
    BY <2>4 DEF RevokeRefresh, IsAccess
  <2>5. ASSUME AnswerRevoke(r) PROVE NamesInv'
    BY <2>5 DEF AnswerRevoke
  <2> QED BY <1>4, <2>1, <2>2, <2>3, <2>4, <2>5 DEF RevokeStep
<1>5. ASSUME NEW r \in Requests, AdminStep(r) PROVE NamesInv'
  <2>1. ASSUME NEW c \in Clients, BeginDeleteClient(r, c) PROVE NamesInv'
    BY <2>1 DEF BeginDeleteClient
  <2>2. ASSUME NEW c \in Clients, BeginRegenerate(r, c) PROVE NamesInv'
    BY <2>2 DEF BeginRegenerate
  <2>3. ASSUME NEW c \in Clients, BeginRevokeClient(r, c) PROVE NamesInv'
    BY <2>3 DEF BeginRevokeClient
  <2>4. ASSUME DeleteClientCodes(r) PROVE NamesInv'
    BY <2>4 DEF DeleteClientCodes, OfOther
  <2>5. ASSUME DeleteClientAccess(r) PROVE NamesInv'
    BY <2>5 DEF DeleteClientAccess, OfOther
  <2>6. ASSUME DeleteClientRow(r) PROVE NamesInv'
    BY <2>6 DEF DeleteClientRow
  <2>7. ASSUME UpdateSecret(r) PROVE NamesInv'
    BY <2>7 DEF UpdateSecret
  <2>8. ASSUME DropAccessAfterSecret(r) PROVE NamesInv'
    BY <2>8 DEF DropAccessAfterSecret, OfOther
  <2>9. ASSUME RevokeClientAccess(r) PROVE NamesInv'
    BY <2>9 DEF RevokeClientAccess, OfOther
  <2>10. ASSUME RevokeClientRefresh(r) PROVE NamesInv'
    BY <2>10 DEF RevokeClientRefresh, OfOther
  <2> QED BY <1>5, <2>1, <2>2, <2>3, <2>4, <2>5, <2>6, <2>7, <2>8, <2>9, <2>10 DEF AdminStep
<1>6. ASSUME NEW r \in Requests, Abort(r) PROVE NamesInv'
  BY <1>6 DEF Abort
<1>7. ASSUME NEW c \in Clients, NEW status \in {"active", "disabled"}, SetActive(c, status) PROVE NamesInv'
  BY <1>7 DEF SetActive
<1>8. ASSUME NEW a \in Apps, NEW u \in Users, RevokeUserApp(a, u) PROVE NamesInv'
  BY <1>8 DEF RevokeUserApp
<1>9. ASSUME NEW row \in Usable(codes), ExpireCode(row) PROVE NamesInv'
  BY <1>9, ExpireCodeNames
<1>10. ASSUME NEW row \in Usable(access), ExpireAccess(row) PROVE NamesInv'
  BY <1>10 DEF ExpireAccess, Aged, Usable
<1>11. ASSUME NEW row \in Usable(refresh), ExpireRefresh(row) PROVE NamesInv'
  BY <1>11 DEF ExpireRefresh, Aged, Usable
<1>12. CASE UNCHANGED vars
  BY <1>12 DEF vars
<1> QED BY <1>1, <1>2, <1>3, <1>4, <1>5, <1>6, <1>7, <1>8, <1>9, <1>10, <1>11, <1>12
       DEF Next, RequestStep, Expiry

-----------------------------------------------------------------------------
(* Consent.                                                                *)

(* What a holder issues is for the app and the user of what it holds.      *)
LEMMA HeldConsent ==
  ASSUME ConsentInv, NEW r \in Requests, pc[r] \in HoldingPcs
  PROVE /\ AppUserOf(NewAccess(r, held[r].client, TRUE)) \in consented
        /\ AppUserOf(NewAccess(r, who[r], FALSE)) \in consented
        /\ AppUserOf(NewRefresh(r, held[r].client)) \in consented
        /\ AppUserOf(NewRefresh(r, who[r])) \in consented
  BY DEF ConsentInv, AppUserOf, NewAccess, NewRefresh

LEMMA InsertCodeConsent ==
  ASSUME TypeOK, ConsentInv, NEW r \in Requests, NEW o \in BOOLEAN, InsertCode(r, o)
  PROVE ConsentInv'
<1>1. AppUserOf(NewCode(r, o)) \in consented
  BY DEF ConsentInv, InsertCode, AppUserOf, NewCode
<1>2. IssuedOnlyWithConsent'
  BY <1>1 DEF InsertCode, ConsentInv, IssuedOnlyWithConsent, AppUserOf
<1>3. \A s \in Requests : pc'[s] # "done" => /\ pc'[s] = pc[s] /\ held'[s] = held[s]
                                              /\ who'[s] = who[s] /\ user'[s] = user[s]
  BY DEF InsertCode, Finish, Become, TypeOK
<1> QED BY <1>2, <1>3 DEF ConsentInv, InsertCode, HoldingPcs, ExchangePcs, RefreshPcs, AppUserOf

(* The four actions that issue a token, of which two end the request.      *)
LEMMA CreateAccessConsent ==
  ASSUME TypeOK, ConsentInv, NEW r \in Requests, CreateAccess(r) PROVE ConsentInv'
<1>1. pc[r] \in HoldingPcs
  BY DEF CreateAccess, HoldingPcs, ExchangePcs
<1>2. IssuedOnlyWithConsent'
  BY <1>1, HeldConsent DEF CreateAccess, ConsentInv, IssuedOnlyWithConsent, AppUserOf
<1>3. pc'[r] = "exMark" /\ \A s \in Requests \ {r} : pc'[s] = pc[s]
  BY DEF CreateAccess, Goto, Become, TypeOK
<1>4. UNCHANGED <<consented, appUsers, held, who, user>>
  BY DEF CreateAccess, Goto
<1> QED BY <1>1, <1>2, <1>3, <1>4 DEF ConsentInv, AppUserOf

LEMMA RotateAccessConsent ==
  ASSUME TypeOK, ConsentInv, NEW r \in Requests, RotateAccess(r) PROVE ConsentInv'
<1>1. pc[r] \in HoldingPcs
  BY DEF RotateAccess, HoldingPcs, RefreshPcs
<1>2. IssuedOnlyWithConsent'
  BY <1>1, HeldConsent DEF RotateAccess, ConsentInv, IssuedOnlyWithConsent, AppUserOf
<1>3. pc'[r] = "rtDelete" /\ \A s \in Requests \ {r} : pc'[s] = pc[s]
  BY DEF RotateAccess, Goto, Become, TypeOK
<1>4. UNCHANGED <<consented, appUsers, held, who, user>>
  BY DEF RotateAccess, Goto
<1> QED BY <1>1, <1>2, <1>3, <1>4 DEF ConsentInv, AppUserOf

LEMMA CreateRefreshConsent ==
  ASSUME TypeOK, ConsentInv, NEW r \in Requests, CreateRefresh(r) PROVE ConsentInv'
<1>1. pc[r] \in HoldingPcs
  BY DEF CreateRefresh, HoldingPcs, ExchangePcs
<1>2. IssuedOnlyWithConsent'
  BY <1>1, HeldConsent DEF CreateRefresh, ConsentInv, IssuedOnlyWithConsent, AppUserOf
<1>3. /\ pc'[r] = "done"
      /\ \A s \in Requests \ {r} : /\ pc'[s] = pc[s] /\ held'[s] = held[s]
                                   /\ who'[s] = who[s] /\ user'[s] = user[s]
  BY DEF CreateRefresh, Finish, Become, TypeOK
<1>4. UNCHANGED <<consented, appUsers>>
  BY DEF CreateRefresh
<1> QED BY <1>2, <1>3, <1>4 DEF ConsentInv, HoldingPcs, ExchangePcs, RefreshPcs, AppUserOf

LEMMA RotateRefreshConsent ==
  ASSUME TypeOK, ConsentInv, NEW r \in Requests, RotateRefresh(r) PROVE ConsentInv'
<1>1. pc[r] \in HoldingPcs
  BY DEF RotateRefresh, HoldingPcs, RefreshPcs
<1>2. IssuedOnlyWithConsent'
  BY <1>1, HeldConsent DEF RotateRefresh, ConsentInv, IssuedOnlyWithConsent, AppUserOf
<1>3. /\ pc'[r] = "done"
      /\ \A s \in Requests \ {r} : /\ pc'[s] = pc[s] /\ held'[s] = held[s]
                                   /\ who'[s] = who[s] /\ user'[s] = user[s]
  BY DEF RotateRefresh, Finish, Become, TypeOK
<1>4. UNCHANGED <<consented, appUsers>>
  BY DEF RotateRefresh
<1> QED BY <1>2, <1>3, <1>4 DEF ConsentInv, HoldingPcs, ExchangePcs, RefreshPcs, AppUserOf

LEMMA RecordAppUserConsent ==
  ASSUME TypeOK, ConsentInv, NEW r \in Requests, RecordAppUser(r) PROVE ConsentInv'
<1>1. pc[r] \in HoldingPcs
  BY DEF RecordAppUser, HoldingPcs, ExchangePcs
<1>2. appUsers' \subseteq consented
  <2>1. AppUserOf(held[r]) \in consented /\ appUsers \subseteq consented
    BY <1>1 DEF ConsentInv
  <2>2. appUsers' = appUsers \/ appUsers' = appUsers \cup {AppUserOf(held[r])}
    BY DEF RecordAppUser
  <2> QED BY <2>1, <2>2
<1>3. IssuedOnlyWithConsent'
  BY DEF RecordAppUser, ConsentInv, IssuedOnlyWithConsent, AppUserOf
<1> QED BY <1>1, <1>2, <1>3 DEF ConsentInv, RecordAppUser, AfterRecord, Goto, Finish, Become,
             TypeOK, HoldingPcs, ExchangePcs, RefreshPcs, AppUserOf

(* A consent precedes whatever is issued.                                  *)
LEMMA ConsentStep == TypeOK /\ ConsentInv /\ [Next]_vars => ConsentInv'
<1> SUFFICES ASSUME TypeOK, ConsentInv, [Next]_vars PROVE ConsentInv'
  OBVIOUS
<1> USE ClientsAssumption
    DEF Become, Goto, Finish, Hold, NoteRace, Admits, Enter, BeginToken, BeginAdmin,
        Row, CodeRow, AccessRow, RefreshRow,
        Pcs, IssuingPcs, ExchangePcs, ReusePcs, RefreshPcs, RevokePcs, AdminPcs,
        TypeOK, ConsentInv, IssuedOnlyWithConsent, AppUserOf, HoldingPcs
<1>1. ASSUME NEW r \in Requests, AuthorizeStep(r) PROVE ConsentInv'
  <2>1. ASSUME NEW c \in Clients, NEW u \in Users, BeginConsent(r, c, u) PROVE ConsentInv'
    BY <2>1 DEF BeginConsent, ClientActive
  <2>2. ASSUME NEW c \in Clients, NEW u \in Users, BeginSilent(r, c, u) PROVE ConsentInv'
    BY <2>2 DEF BeginSilent, ClientActive
  <2>3. ASSUME CheckAppUser(r) PROVE ConsentInv'
    <3>1. UNCHANGED <<dbVars, consented>>
      BY <2>3 DEF CheckAppUser
    <3>2. ASSUME <<AppOf[who[r]], user[r]>> \in appUsers, Goto(r, "silentInsert")
          PROVE ConsentInv'
      BY SMTT(30), <3>1, <3>2
    <3>3. ASSUME Finish(r) PROVE ConsentInv'
      BY SMTT(30), <3>1, <3>3
    <3> QED BY <2>3, <3>2, <3>3 DEF CheckAppUser
  <2>4. ASSUME NEW o \in BOOLEAN, InsertCode(r, o) PROVE ConsentInv'
    BY <2>4, InsertCodeConsent
  <2> QED BY <1>1, <2>1, <2>2, <2>3, <2>4 DEF AuthorizeStep
<1>2. ASSUME NEW r \in Requests, ExchangeStep(r) PROVE ConsentInv'
  <2>1. ASSUME NEW c \in Clients, BeginExchange(r, c) PROVE ConsentInv'
    BY <2>1 DEF BeginExchange, ClientActive
  <2>2. ASSUME FindUnusedCode(r) PROVE ConsentInv'
    BY <2>2 DEF FindUnusedCode
  <2>3. ASSUME MissUnusedCode(r) PROVE ConsentInv'
    BY <2>3 DEF MissUnusedCode
  <2>4. ASSUME FindReusedCode(r) PROVE ConsentInv'
    BY SMTT(40), <2>4 DEF FindReusedCode
  <2>5. ASSUME DeleteReusedAccess(r) PROVE ConsentInv'
    BY <2>5 DEF DeleteReusedAccess
  <2>6. ASSUME RecheckExchange(r) PROVE ConsentInv'
    BY <2>6 DEF RecheckExchange
  <2>7. ASSUME CreateAccess(r) PROVE ConsentInv'
    BY <2>7, CreateAccessConsent
  <2>8. ASSUME MarkUsed(r) PROVE ConsentInv'
    BY SMTT(40), <2>8 DEF MarkUsed
  <2>9. ASSUME FindAppUser(r) PROVE ConsentInv'
    BY <2>9 DEF FindAppUser, AfterRecord
  <2>10. ASSUME RecordAppUser(r) PROVE ConsentInv'
    BY <2>10, RecordAppUserConsent
  <2>11. ASSUME CreateRefresh(r) PROVE ConsentInv'
    BY <2>11, CreateRefreshConsent
  <2> QED BY <1>2, <2>1, <2>2, <2>3, <2>4, <2>5, <2>6, <2>7, <2>8, <2>9, <2>10, <2>11 DEF ExchangeStep
<1>3. ASSUME NEW r \in Requests, RefreshStep(r) PROVE ConsentInv'
  <2>1. ASSUME NEW c \in Clients, BeginRefresh(r, c) PROVE ConsentInv'
    BY <2>1 DEF BeginRefresh, ClientActive
  <2>2. ASSUME FindRefresh(r) PROVE ConsentInv'
    BY <2>2 DEF FindRefresh, Usable
  <2>3. ASSUME RecheckRefresh(r) PROVE ConsentInv'
    BY <2>3 DEF RecheckRefresh
  <2>4. ASSUME DeleteLinkedAccess(r) PROVE ConsentInv'
    BY <2>4 DEF DeleteLinkedAccess
  <2>5. ASSUME RotateAccess(r) PROVE ConsentInv'
    BY <2>5, RotateAccessConsent
  <2>6. ASSUME DeleteOldRefresh(r) PROVE ConsentInv'
    BY <2>6 DEF DeleteOldRefresh
  <2>7. ASSUME RotateRefresh(r) PROVE ConsentInv'
    BY <2>7, RotateRefreshConsent
  <2> QED BY <1>3, <2>1, <2>2, <2>3, <2>4, <2>5, <2>6, <2>7 DEF RefreshStep
<1>4. ASSUME NEW r \in Requests, RevokeStep(r) PROVE ConsentInv'
  <2>1. ASSUME NEW c \in Clients, BeginRevoke(r, c) PROVE ConsentInv'
    BY <2>1 DEF BeginRevoke, ClientActive
  <2>2. ASSUME ResolveToken(r) PROVE ConsentInv'
    BY <2>2 DEF ResolveToken
  <2>3. ASSUME RevokeAccess(r) PROVE ConsentInv'
    BY <2>3 DEF RevokeAccess, IsAccess
  <2>4. ASSUME RevokeRefresh(r) PROVE ConsentInv'
    BY <2>4 DEF RevokeRefresh, IsAccess
  <2>5. ASSUME AnswerRevoke(r) PROVE ConsentInv'
    BY <2>5 DEF AnswerRevoke
  <2> QED BY <1>4, <2>1, <2>2, <2>3, <2>4, <2>5 DEF RevokeStep
<1>5. ASSUME NEW r \in Requests, AdminStep(r) PROVE ConsentInv'
  <2>1. ASSUME NEW c \in Clients, BeginDeleteClient(r, c) PROVE ConsentInv'
    BY <2>1 DEF BeginDeleteClient
  <2>2. ASSUME NEW c \in Clients, BeginRegenerate(r, c) PROVE ConsentInv'
    BY <2>2 DEF BeginRegenerate
  <2>3. ASSUME NEW c \in Clients, BeginRevokeClient(r, c) PROVE ConsentInv'
    BY <2>3 DEF BeginRevokeClient
  <2>4. ASSUME DeleteClientCodes(r) PROVE ConsentInv'
    BY <2>4 DEF DeleteClientCodes, OfOther
  <2>5. ASSUME DeleteClientAccess(r) PROVE ConsentInv'
    BY <2>5 DEF DeleteClientAccess, OfOther
  <2>6. ASSUME DeleteClientRow(r) PROVE ConsentInv'
    BY <2>6 DEF DeleteClientRow
  <2>7. ASSUME UpdateSecret(r) PROVE ConsentInv'
    BY <2>7 DEF UpdateSecret
  <2>8. ASSUME DropAccessAfterSecret(r) PROVE ConsentInv'
    BY <2>8 DEF DropAccessAfterSecret, OfOther
  <2>9. ASSUME RevokeClientAccess(r) PROVE ConsentInv'
    BY <2>9 DEF RevokeClientAccess, OfOther
  <2>10. ASSUME RevokeClientRefresh(r) PROVE ConsentInv'
    BY <2>10 DEF RevokeClientRefresh, OfOther
  <2> QED BY <1>5, <2>1, <2>2, <2>3, <2>4, <2>5, <2>6, <2>7, <2>8, <2>9, <2>10 DEF AdminStep
<1>6. ASSUME NEW r \in Requests, Abort(r) PROVE ConsentInv'
  BY <1>6 DEF Abort
<1>7. ASSUME NEW c \in Clients, NEW status \in {"active", "disabled"}, SetActive(c, status) PROVE ConsentInv'
  BY <1>7 DEF SetActive
<1>8. ASSUME NEW a \in Apps, NEW u \in Users, RevokeUserApp(a, u) PROVE ConsentInv'
  BY <1>8 DEF RevokeUserApp
<1>9. ASSUME NEW row \in Usable(codes), ExpireCode(row) PROVE ConsentInv'
  BY <1>9 DEF ExpireCode, Aged, Usable
<1>10. ASSUME NEW row \in Usable(access), ExpireAccess(row) PROVE ConsentInv'
  BY <1>10 DEF ExpireAccess, Aged, Usable
<1>11. ASSUME NEW row \in Usable(refresh), ExpireRefresh(row) PROVE ConsentInv'
  BY <1>11 DEF ExpireRefresh, Aged, Usable
<1>12. CASE UNCHANGED vars
  BY <1>12 DEF vars
<1> QED BY <1>1, <1>2, <1>3, <1>4, <1>5, <1>6, <1>7, <1>8, <1>9, <1>10, <1>11, <1>12
       DEF Next, RequestStep, Expiry

-----------------------------------------------------------------------------
(* Forks.                                                                  *)

(* Nothing about a session changes when its holder only moves on or stops. *)
LEMMA RecordAppUserFork ==
  ASSUME TypeOK, NamesInv, ForkInv, NEW r \in Requests, RecordAppUser(r) PROVE ForkInv'
<1>1. /\ UNCHANGED <<codes, refresh, raced>>
      /\ pc[r] = "exRecordUser" /\ pc'[r] \in {"exRefresh", "done"}
  BY DEF RecordAppUser, AfterRecord, Goto, Finish, Become, TypeOK
<1>2. \A s \in Requests : pc'[s] # "done" => held'[s] = held[s] /\ (s # r => pc'[s] = pc[s])
  BY DEF RecordAppUser, AfterRecord, Goto, Finish, Become, TypeOK
<1> QED BY <1>1, <1>2 DEF ForkInv, OneHolder, OneRefresh, RefreshIsTheRight, HolderIsTheRight,
             CodeSpent, RefreshHolding, CodeHolding, HoldingPcs, Holders, ExchangePcs, RefreshPcs,
             TypeOK

(* The last statement of an exchange or a refresh hands the right of the   *)
(* request over to the refresh token it inserts.                           *)
LEMMA HandOver ==
  ASSUME TypeOK, ForkInv, NEW r \in Requests, pc[r] \in {"exRefresh", "rtRefresh"},
         NEW c, refresh' = refresh \cup {NewRefresh(r, c)}, Finish(r),
         UNCHANGED <<codes, raced>>
  PROVE ForkInv'
<1> DEFINE k == held[r].session
<1>1. /\ r \in Holders(k) /\ k \in Requests
      /\ pc'[r] = "done" /\ \A s \in Requests \ {r} : pc'[s] = pc[s] /\ held'[s] = held[s]
  BY DEF Finish, Become, TypeOK, Holders, HoldingPcs, ExchangePcs, RefreshPcs, CodeRow, RefreshRow
<1>2. \A j \in Requests : Holders(j)' = Holders(j) \ {r}
  BY <1>1 DEF Holders, HoldingPcs, ExchangePcs, RefreshPcs
<1>3. NewRefresh(r, c).session = k
  BY DEF NewRefresh
<1>4. ASSUME k \notin raced PROVE /\ Holders(k) = {r} /\ CodeSpent(k)
                                  /\ \A x \in refresh : x.session # k
  BY <1>1, <1>4 DEF ForkInv, OneHolder, RefreshIsTheRight, HolderIsTheRight, RefreshHolding,
                   CodeHolding
<1>5. ASSUME NEW j \in Requests \ raced
      PROVE (OneHolder(j) /\ OneRefresh(j) /\ RefreshIsTheRight(j) /\ HolderIsTheRight(j))'
  <2>1. CASE j = k
    BY <1>1, <1>2, <1>3, <1>4, <1>5, <2>1 DEF ForkInv, OneHolder, OneRefresh, RefreshIsTheRight,
       HolderIsTheRight, CodeSpent
  <2>2. CASE j # k
    <3>1. \A x \in refresh' : x.session = j => x \in refresh
      BY <1>3, <2>2
    <3>2. Holders(j)' = Holders(j) /\ \A s \in Holders(j) : s # r
      BY <1>2, <2>2 DEF Holders
    <3> QED BY <1>1, <3>1, <3>2 DEF ForkInv, OneHolder, OneRefresh, RefreshIsTheRight,
                 HolderIsTheRight, CodeSpent, Holders
  <2> QED BY <2>1, <2>2
<1> QED BY <1>5 DEF ForkInv

LEMMA CreateRefreshFork ==
  ASSUME TypeOK, NamesInv, ForkInv, NEW r \in Requests, CreateRefresh(r) PROVE ForkInv'
  BY HandOver DEF CreateRefresh

LEMMA RotateRefreshFork ==
  ASSUME TypeOK, NamesInv, ForkInv, NEW r \in Requests, RotateRefresh(r) PROVE ForkInv'
  BY HandOver DEF RotateRefresh

LEMMA ExpireRefreshFork ==
  ASSUME TypeOK, ForkInv, NEW row \in Usable(refresh), ExpireRefresh(row) PROVE ForkInv'
<1>1. row \in refresh /\ Aged(row).session = row.session /\ Aged(row).id = row.id
  BY DEF Usable, Aged, TypeOK, RefreshRow
<1>2. \A k \in Requests : OneRefresh(k) => OneRefresh(k)'
  BY <1>1 DEF OneRefresh, ExpireRefresh
<1>3. \A k \in Requests : RefreshIsTheRight(k) => RefreshIsTheRight(k)'
  BY <1>1 DEF RefreshIsTheRight, ExpireRefresh, CodeSpent, Holders
<1> QED BY <1>2, <1>3 DEF ForkInv, ExpireRefresh, OneHolder, HolderIsTheRight, CodeSpent, Holders

(* A session that was never raced keeps one right to issue.                *)
LEMMA ForkStep == TypeOK /\ NamesInv /\ ForkInv /\ [Next]_vars => ForkInv'
<1> SUFFICES ASSUME TypeOK, NamesInv, ForkInv, [Next]_vars PROVE ForkInv'
  OBVIOUS
<1> USE ClientsAssumption
    DEF Become, Goto, Finish, Hold, NoteRace, Admits, Enter, BeginToken, BeginAdmin,
        Row, CodeRow, AccessRow, RefreshRow,
        Pcs, IssuingPcs, ExchangePcs, ReusePcs, RefreshPcs, RevokePcs, AdminPcs,
        TypeOK, NamesInv, ForkInv, OneHolder, OneRefresh, RefreshIsTheRight,
        HolderIsTheRight, CodeSpent, RefreshHolding, CodeHolding, Carrying, HoldingPcs, Holders
<1>1. ASSUME NEW r \in Requests, AuthorizeStep(r) PROVE ForkInv'
  <2>1. ASSUME NEW c \in Clients, NEW u \in Users, BeginConsent(r, c, u) PROVE ForkInv'
    BY <2>1 DEF BeginConsent, ClientActive
  <2>2. ASSUME NEW c \in Clients, NEW u \in Users, BeginSilent(r, c, u) PROVE ForkInv'
    BY <2>2 DEF BeginSilent, ClientActive
  <2>3. ASSUME CheckAppUser(r) PROVE ForkInv'
    BY <2>3 DEF CheckAppUser
  <2>4. ASSUME NEW o \in BOOLEAN, InsertCode(r, o) PROVE ForkInv'
    BY <2>4 DEF InsertCode, NewCode
  <2> QED BY <1>1, <2>1, <2>2, <2>3, <2>4 DEF AuthorizeStep
<1>2. ASSUME NEW r \in Requests, ExchangeStep(r) PROVE ForkInv'
  <2>1. ASSUME NEW c \in Clients, BeginExchange(r, c) PROVE ForkInv'
    BY <2>1 DEF BeginExchange, ClientActive
  <2>2. ASSUME FindUnusedCode(r) PROVE ForkInv'
    BY SMTT(40), <2>2 DEF FindUnusedCode
  <2>3. ASSUME MissUnusedCode(r) PROVE ForkInv'
    BY SMTT(40), <2>3 DEF MissUnusedCode
  <2>4. ASSUME FindReusedCode(r) PROVE ForkInv'
    BY <2>4 DEF FindReusedCode
  <2>5. ASSUME DeleteReusedAccess(r) PROVE ForkInv'
    BY <2>5 DEF DeleteReusedAccess
  <2>6. ASSUME RecheckExchange(r) PROVE ForkInv'
    BY SMTT(40), <2>6 DEF RecheckExchange
  <2>7. ASSUME CreateAccess(r) PROVE ForkInv'
    BY <2>7 DEF CreateAccess, NewAccess
  <2>8. ASSUME MarkUsed(r) PROVE ForkInv'
    BY <2>8 DEF MarkUsed
  <2>9. ASSUME FindAppUser(r) PROVE ForkInv'
    BY SMTT(40), <2>9 DEF FindAppUser, AfterRecord
  <2>10. ASSUME RecordAppUser(r) PROVE ForkInv'
    BY <2>10, RecordAppUserFork
  <2>11. ASSUME CreateRefresh(r) PROVE ForkInv'
    BY <2>11, CreateRefreshFork
  <2> QED BY <1>2, <2>1, <2>2, <2>3, <2>4, <2>5, <2>6, <2>7, <2>8, <2>9, <2>10, <2>11 DEF ExchangeStep
<1>3. ASSUME NEW r \in Requests, RefreshStep(r) PROVE ForkInv'
  <2>1. ASSUME NEW c \in Clients, BeginRefresh(r, c) PROVE ForkInv'
    BY <2>1 DEF BeginRefresh, ClientActive
  <2>2. ASSUME FindRefresh(r) PROVE ForkInv'
    BY SMTT(40), <2>2 DEF FindRefresh, Usable
  <2>3. ASSUME RecheckRefresh(r) PROVE ForkInv'
    BY <2>3 DEF RecheckRefresh
  <2>4. ASSUME DeleteLinkedAccess(r) PROVE ForkInv'
    BY <2>4 DEF DeleteLinkedAccess
  <2>5. ASSUME RotateAccess(r) PROVE ForkInv'
    BY <2>5 DEF RotateAccess, NewAccess
  <2>6. ASSUME DeleteOldRefresh(r) PROVE ForkInv'
    BY <2>6 DEF DeleteOldRefresh
  <2>7. ASSUME RotateRefresh(r) PROVE ForkInv'
    BY <2>7, RotateRefreshFork
  <2> QED BY <1>3, <2>1, <2>2, <2>3, <2>4, <2>5, <2>6, <2>7 DEF RefreshStep
<1>4. ASSUME NEW r \in Requests, RevokeStep(r) PROVE ForkInv'
  <2>1. ASSUME NEW c \in Clients, BeginRevoke(r, c) PROVE ForkInv'
    BY <2>1 DEF BeginRevoke, ClientActive
  <2>2. ASSUME ResolveToken(r) PROVE ForkInv'
    BY SMTT(40), <2>2 DEF ResolveToken
  <2>3. ASSUME RevokeAccess(r) PROVE ForkInv'
    BY SMTT(40), <2>3 DEF RevokeAccess, IsAccess
  <2>4. ASSUME RevokeRefresh(r) PROVE ForkInv'
    BY SMTT(40), <2>4 DEF RevokeRefresh, IsAccess
  <2>5. ASSUME AnswerRevoke(r) PROVE ForkInv'
    BY <2>5 DEF AnswerRevoke
  <2> QED BY <1>4, <2>1, <2>2, <2>3, <2>4, <2>5 DEF RevokeStep
<1>5. ASSUME NEW r \in Requests, AdminStep(r) PROVE ForkInv'
  <2>1. ASSUME NEW c \in Clients, BeginDeleteClient(r, c) PROVE ForkInv'
    BY <2>1 DEF BeginDeleteClient
  <2>2. ASSUME NEW c \in Clients, BeginRegenerate(r, c) PROVE ForkInv'
    BY <2>2 DEF BeginRegenerate
  <2>3. ASSUME NEW c \in Clients, BeginRevokeClient(r, c) PROVE ForkInv'
    BY <2>3 DEF BeginRevokeClient
  <2>4. ASSUME DeleteClientCodes(r) PROVE ForkInv'
    BY <2>4 DEF DeleteClientCodes, OfOther
  <2>5. ASSUME DeleteClientAccess(r) PROVE ForkInv'
    BY <2>5 DEF DeleteClientAccess, OfOther
  <2>6. ASSUME DeleteClientRow(r) PROVE ForkInv'
    BY <2>6 DEF DeleteClientRow
  <2>7. ASSUME UpdateSecret(r) PROVE ForkInv'
    BY <2>7 DEF UpdateSecret
  <2>8. ASSUME DropAccessAfterSecret(r) PROVE ForkInv'
    BY <2>8 DEF DropAccessAfterSecret, OfOther
  <2>9. ASSUME RevokeClientAccess(r) PROVE ForkInv'
    BY <2>9 DEF RevokeClientAccess, OfOther
  <2>10. ASSUME RevokeClientRefresh(r) PROVE ForkInv'
    BY <2>10 DEF RevokeClientRefresh, OfOther
  <2> QED BY <1>5, <2>1, <2>2, <2>3, <2>4, <2>5, <2>6, <2>7, <2>8, <2>9, <2>10 DEF AdminStep
<1>6. ASSUME NEW r \in Requests, Abort(r) PROVE ForkInv'
  BY <1>6 DEF Abort
<1>7. ASSUME NEW c \in Clients, NEW status \in {"active", "disabled"}, SetActive(c, status) PROVE ForkInv'
  BY <1>7 DEF SetActive
<1>8. ASSUME NEW a \in Apps, NEW u \in Users, RevokeUserApp(a, u) PROVE ForkInv'
  BY <1>8 DEF RevokeUserApp
<1>9. ASSUME NEW row \in Usable(codes), ExpireCode(row) PROVE ForkInv'
  BY <1>9 DEF ExpireCode, Aged, Usable
<1>10. ASSUME NEW row \in Usable(access), ExpireAccess(row) PROVE ForkInv'
  BY <1>10 DEF ExpireAccess, Aged, Usable
<1>11. ASSUME NEW row \in Usable(refresh), ExpireRefresh(row) PROVE ForkInv'
  BY <1>11, ExpireRefreshFork
<1>12. CASE UNCHANGED vars
  BY <1>12 DEF vars
<1> QED BY <1>1, <1>2, <1>3, <1>4, <1>5, <1>6, <1>7, <1>8, <1>9, <1>10, <1>11, <1>12
       DEF Next, RequestStep, Expiry

-----------------------------------------------------------------------------
(* Replay.                                                                 *)

(* A replayed code stays dead.                                             *)
LEMMA ReplayStep == TypeOK /\ NamesInv /\ ReplayInv /\ [Next]_vars => ReplayInv'
<1> SUFFICES ASSUME TypeOK, NamesInv, ReplayInv, [Next]_vars PROVE ReplayInv'
  OBVIOUS
<1> USE ClientsAssumption
    DEF Become, Goto, Finish, Hold, NoteRace, Admits, Enter, BeginToken, BeginAdmin,
        Row, CodeRow, AccessRow, RefreshRow,
        Pcs, IssuingPcs, ExchangePcs, ReusePcs, RefreshPcs, RevokePcs, AdminPcs,
        TypeOK, NamesInv, ReplayInv, ReplayedCodeIsDead, CodeSpent, Carrying, HoldingPcs, Holders
<1>1. ASSUME NEW r \in Requests, AuthorizeStep(r) PROVE ReplayInv'
  <2>1. ASSUME NEW c \in Clients, NEW u \in Users, BeginConsent(r, c, u) PROVE ReplayInv'
    BY <2>1 DEF BeginConsent, ClientActive
  <2>2. ASSUME NEW c \in Clients, NEW u \in Users, BeginSilent(r, c, u) PROVE ReplayInv'
    BY <2>2 DEF BeginSilent, ClientActive
  <2>3. ASSUME CheckAppUser(r) PROVE ReplayInv'
    BY <2>3 DEF CheckAppUser
  <2>4. ASSUME NEW o \in BOOLEAN, InsertCode(r, o) PROVE ReplayInv'
    BY <2>4 DEF InsertCode, NewCode
  <2> QED BY <1>1, <2>1, <2>2, <2>3, <2>4 DEF AuthorizeStep
<1>2. ASSUME NEW r \in Requests, ExchangeStep(r) PROVE ReplayInv'
  <2>1. ASSUME NEW c \in Clients, BeginExchange(r, c) PROVE ReplayInv'
    BY <2>1 DEF BeginExchange, ClientActive
  <2>2. ASSUME FindUnusedCode(r) PROVE ReplayInv'
    BY <2>2 DEF FindUnusedCode
  <2>3. ASSUME MissUnusedCode(r) PROVE ReplayInv'
    BY <2>3 DEF MissUnusedCode
  <2>4. ASSUME FindReusedCode(r) PROVE ReplayInv'
    BY <2>4 DEF FindReusedCode
  <2>5. ASSUME DeleteReusedAccess(r) PROVE ReplayInv'
    BY <2>5 DEF DeleteReusedAccess
  <2>6. ASSUME RecheckExchange(r) PROVE ReplayInv'
    BY <2>6 DEF RecheckExchange
  <2>7. ASSUME CreateAccess(r) PROVE ReplayInv'
    BY <2>7 DEF CreateAccess, NewAccess
  <2>8. ASSUME MarkUsed(r) PROVE ReplayInv'
    BY <2>8 DEF MarkUsed
  <2>9. ASSUME FindAppUser(r) PROVE ReplayInv'
    BY <2>9 DEF FindAppUser, AfterRecord
  <2>10. ASSUME RecordAppUser(r) PROVE ReplayInv'
    BY <2>10 DEF RecordAppUser, AfterRecord, AppUserOf
  <2>11. ASSUME CreateRefresh(r) PROVE ReplayInv'
    BY <2>11 DEF CreateRefresh, NewRefresh
  <2> QED BY <1>2, <2>1, <2>2, <2>3, <2>4, <2>5, <2>6, <2>7, <2>8, <2>9, <2>10, <2>11 DEF ExchangeStep
<1>3. ASSUME NEW r \in Requests, RefreshStep(r) PROVE ReplayInv'
  <2>1. ASSUME NEW c \in Clients, BeginRefresh(r, c) PROVE ReplayInv'
    BY <2>1 DEF BeginRefresh, ClientActive
  <2>2. ASSUME FindRefresh(r) PROVE ReplayInv'
    BY <2>2 DEF FindRefresh, Usable
  <2>3. ASSUME RecheckRefresh(r) PROVE ReplayInv'
    BY <2>3 DEF RecheckRefresh
  <2>4. ASSUME DeleteLinkedAccess(r) PROVE ReplayInv'
    BY <2>4 DEF DeleteLinkedAccess
  <2>5. ASSUME RotateAccess(r) PROVE ReplayInv'
    BY <2>5 DEF RotateAccess, NewAccess
  <2>6. ASSUME DeleteOldRefresh(r) PROVE ReplayInv'
    BY <2>6 DEF DeleteOldRefresh
  <2>7. ASSUME RotateRefresh(r) PROVE ReplayInv'
    BY <2>7 DEF RotateRefresh, NewRefresh
  <2> QED BY <1>3, <2>1, <2>2, <2>3, <2>4, <2>5, <2>6, <2>7 DEF RefreshStep
<1>4. ASSUME NEW r \in Requests, RevokeStep(r) PROVE ReplayInv'
  <2>1. ASSUME NEW c \in Clients, BeginRevoke(r, c) PROVE ReplayInv'
    BY <2>1 DEF BeginRevoke, ClientActive
  <2>2. ASSUME ResolveToken(r) PROVE ReplayInv'
    BY <2>2 DEF ResolveToken
  <2>3. ASSUME RevokeAccess(r) PROVE ReplayInv'
    BY <2>3 DEF RevokeAccess, IsAccess
  <2>4. ASSUME RevokeRefresh(r) PROVE ReplayInv'
    BY <2>4 DEF RevokeRefresh, IsAccess
  <2>5. ASSUME AnswerRevoke(r) PROVE ReplayInv'
    BY <2>5 DEF AnswerRevoke
  <2> QED BY <1>4, <2>1, <2>2, <2>3, <2>4, <2>5 DEF RevokeStep
<1>5. ASSUME NEW r \in Requests, AdminStep(r) PROVE ReplayInv'
  <2>1. ASSUME NEW c \in Clients, BeginDeleteClient(r, c) PROVE ReplayInv'
    BY <2>1 DEF BeginDeleteClient
  <2>2. ASSUME NEW c \in Clients, BeginRegenerate(r, c) PROVE ReplayInv'
    BY <2>2 DEF BeginRegenerate
  <2>3. ASSUME NEW c \in Clients, BeginRevokeClient(r, c) PROVE ReplayInv'
    BY <2>3 DEF BeginRevokeClient
  <2>4. ASSUME DeleteClientCodes(r) PROVE ReplayInv'
    BY <2>4 DEF DeleteClientCodes, OfOther
  <2>5. ASSUME DeleteClientAccess(r) PROVE ReplayInv'
    BY <2>5 DEF DeleteClientAccess, OfOther
  <2>6. ASSUME DeleteClientRow(r) PROVE ReplayInv'
    BY <2>6 DEF DeleteClientRow
  <2>7. ASSUME UpdateSecret(r) PROVE ReplayInv'
    BY <2>7 DEF UpdateSecret
  <2>8. ASSUME DropAccessAfterSecret(r) PROVE ReplayInv'
    BY <2>8 DEF DropAccessAfterSecret, OfOther
  <2>9. ASSUME RevokeClientAccess(r) PROVE ReplayInv'
    BY <2>9 DEF RevokeClientAccess, OfOther
  <2>10. ASSUME RevokeClientRefresh(r) PROVE ReplayInv'
    BY <2>10 DEF RevokeClientRefresh, OfOther
  <2> QED BY <1>5, <2>1, <2>2, <2>3, <2>4, <2>5, <2>6, <2>7, <2>8, <2>9, <2>10 DEF AdminStep
<1>6. ASSUME NEW r \in Requests, Abort(r) PROVE ReplayInv'
  BY <1>6 DEF Abort
<1>7. ASSUME NEW c \in Clients, NEW status \in {"active", "disabled"}, SetActive(c, status) PROVE ReplayInv'
  BY <1>7 DEF SetActive
<1>8. ASSUME NEW a \in Apps, NEW u \in Users, RevokeUserApp(a, u) PROVE ReplayInv'
  BY <1>8 DEF RevokeUserApp
<1>9. ASSUME NEW row \in Usable(codes), ExpireCode(row) PROVE ReplayInv'
  BY <1>9 DEF ExpireCode, Aged, Usable
<1>10. ASSUME NEW row \in Usable(access), ExpireAccess(row) PROVE ReplayInv'
  BY <1>10 DEF ExpireAccess, Aged, Usable
<1>11. ASSUME NEW row \in Usable(refresh), ExpireRefresh(row) PROVE ReplayInv'
  BY <1>11 DEF ExpireRefresh, Aged, Usable
<1>12. CASE UNCHANGED vars
  BY <1>12 DEF vars
<1> QED BY <1>1, <1>2, <1>3, <1>4, <1>5, <1>6, <1>7, <1>8, <1>9, <1>10, <1>11, <1>12
       DEF Next, RequestStep, Expiry

-----------------------------------------------------------------------------
(* Owners.                                                                 *)

(* Every line of the next state continues one of this state.               *)
Inherits == \A x \in Lines' : \E y \in Lines : /\ x.session = y.session
                                               /\ x.client = y.client /\ x.user = y.user

LEMMA Inherited == ASSUME OwnerInv, Inherits PROVE OwnerInv'
<1> SUFFICES ASSUME NEW x \in Lines', NEW y \in Lines', x.session = y.session
             PROVE x.client = y.client /\ x.user = y.user
  BY DEF OwnerInv, SameOwner
<1>1. PICK p \in Lines : x.session = p.session /\ x.client = p.client /\ x.user = p.user
  BY DEF Inherits
<1>2. PICK q \in Lines : y.session = q.session /\ y.client = q.client /\ y.user = q.user
  BY DEF Inherits
<1> QED BY <1>1, <1>2 DEF OwnerInv, SameOwner

(* The client a holder acts for is that of what it holds.                  *)
LEMMA HolderClient ==
  ASSUME TypeOK, ConsentInv, NEW r \in Requests, pc[r] \in HoldingPcs
  PROVE who[r] \in Clients /\ held[r].client = who[r]
  BY DEF TypeOK, ConsentInv, HoldingPcs, ExchangePcs, RefreshPcs

(* A new code begins a session of its own: nothing goes back to a request  *)
(* that has not ended.                                                     *)
LEMMA InsertCodeOwner ==
  ASSUME TypeOK, NamesInv, OwnerInv, NEW r \in Requests, NEW o \in BOOLEAN, InsertCode(r, o)
  PROVE OwnerInv'
<1>1. NewCode(r, o).session = r /\ pc[r] # "done"
  BY DEF NewCode, InsertCode
<1>2. \A x \in Lines : x.session # r
  BY <1>1 DEF Lines, NamesInv, Carrying
<1>3. Lines' \subseteq Lines \cup {NewCode(r, o)}
  BY DEF Lines, InsertCode, Finish, Become, TypeOK, HoldingPcs, ExchangePcs, RefreshPcs
<1>4. ASSUME NEW x \in Lines', NEW y \in Lines', x.session = y.session
      PROVE x.client = y.client /\ x.user = y.user
  BY <1>1, <1>2, <1>3, <1>4 DEF OwnerInv, SameOwner
<1> QED BY <1>4 DEF OwnerInv, SameOwner

LEMMA MarkUsedOwner ==
  ASSUME TypeOK, OwnerInv, NEW r \in Requests, MarkUsed(r) PROVE OwnerInv'
<1>1. ASSUME NEW x \in codes'
      PROVE \E y \in codes : x.session = y.session /\ x.client = y.client /\ x.user = y.user
  <2>1. PICK row \in codes :
          /\ x.session = row.session
          /\ x = IF row.session = held[r].session THEN [row EXCEPT !.used = TRUE] ELSE row
    BY MarkedCode
  <2>2. row \in CodeRow
    BY DEF TypeOK
  <2>3. [row EXCEPT !.used = TRUE].client = row.client /\ [row EXCEPT !.used = TRUE].user = row.user
    BY <2>2 DEF CodeRow
  <2> QED BY <2>1, <2>3
<1>2. /\ access' = access /\ refresh' = refresh /\ held' = held
      /\ \A s \in Requests : pc'[s] \in HoldingPcs => pc[s] \in HoldingPcs
  BY DEF MarkUsed, Goto, Become, TypeOK, HoldingPcs, ExchangePcs
<1>3. Inherits
  <2> SUFFICES ASSUME NEW x \in Lines', x \notin codes' PROVE x \in Lines
    BY <1>1 DEF Inherits, Lines
  <2> QED BY <1>2 DEF Lines
<1> QED BY <1>3, Inherited

(* An expired row is still of its session and owner.                       *)
LEMMA ExpireOwner ==
  ASSUME TypeOK, OwnerInv, NEW row \in codes \cup access \cup refresh,
         Lines' \subseteq Lines \cup {Aged(row)}
  PROVE OwnerInv'
<1>1. Aged(row).session = row.session /\ Aged(row).client = row.client /\ Aged(row).user = row.user
  BY DEF Aged, TypeOK, CodeRow, AccessRow, RefreshRow
<1>2. Inherits
  BY <1>1 DEF Inherits, Lines
<1> QED BY <1>2, Inherited

(* A session keeps its client and its user.                                *)
LEMMA OwnerStep == TypeOK /\ NamesInv /\ ConsentInv /\ OwnerInv /\ [Next]_vars => OwnerInv'
<1> SUFFICES ASSUME TypeOK, NamesInv, ConsentInv, OwnerInv, [Next]_vars PROVE OwnerInv'
  OBVIOUS
<1> USE ClientsAssumption, Inherited
    DEF Become, Goto, Finish, Hold, NoteRace, Admits, Enter, BeginToken, BeginAdmin,
        HoldingPcs, ExchangePcs, RefreshPcs, Lines, Inherits, TypeOK
<1>1. ASSUME NEW r \in Requests, AuthorizeStep(r) PROVE OwnerInv'
  <2>1. ASSUME NEW c \in Clients, NEW u \in Users, BeginConsent(r, c, u) PROVE OwnerInv'
    BY <2>1 DEF BeginConsent, ClientActive
  <2>2. ASSUME NEW c \in Clients, NEW u \in Users, BeginSilent(r, c, u) PROVE OwnerInv'
    BY <2>2 DEF BeginSilent, ClientActive
  <2>3. ASSUME CheckAppUser(r) PROVE OwnerInv'
    BY <2>3 DEF CheckAppUser
  <2>4. ASSUME NEW o \in BOOLEAN, InsertCode(r, o) PROVE OwnerInv'
    BY <2>4, InsertCodeOwner
  <2> QED BY <1>1, <2>1, <2>2, <2>3, <2>4 DEF AuthorizeStep
<1>2. ASSUME NEW r \in Requests, ExchangeStep(r) PROVE OwnerInv'
  <2>1. ASSUME NEW c \in Clients, BeginExchange(r, c) PROVE OwnerInv'
    BY <2>1 DEF BeginExchange, ClientActive
  <2>2. ASSUME FindUnusedCode(r) PROVE OwnerInv'
    BY <2>2 DEF FindUnusedCode
  <2>3. ASSUME MissUnusedCode(r) PROVE OwnerInv'
    BY <2>3 DEF MissUnusedCode
  <2>4. ASSUME FindReusedCode(r) PROVE OwnerInv'
    BY <2>4 DEF FindReusedCode
  <2>5. ASSUME DeleteReusedAccess(r) PROVE OwnerInv'
    BY <2>5 DEF DeleteReusedAccess
  <2>6. ASSUME RecheckExchange(r) PROVE OwnerInv'
    BY <2>6 DEF RecheckExchange
  <2>7. ASSUME CreateAccess(r) PROVE OwnerInv'
    BY <2>7 DEF CreateAccess, NewAccess
  <2>8. ASSUME MarkUsed(r) PROVE OwnerInv'
    BY <2>8, MarkUsedOwner
  <2>9. ASSUME FindAppUser(r) PROVE OwnerInv'
    BY <2>9 DEF FindAppUser, AfterRecord
  <2>10. ASSUME RecordAppUser(r) PROVE OwnerInv'
    BY <2>10 DEF RecordAppUser, AfterRecord
  <2>11. ASSUME CreateRefresh(r) PROVE OwnerInv'
    BY <2>11 DEF CreateRefresh, NewRefresh
  <2> QED BY <1>2, <2>1, <2>2, <2>3, <2>4, <2>5, <2>6, <2>7, <2>8, <2>9, <2>10, <2>11 DEF ExchangeStep
<1>3. ASSUME NEW r \in Requests, RefreshStep(r) PROVE OwnerInv'
  <2>1. ASSUME NEW c \in Clients, BeginRefresh(r, c) PROVE OwnerInv'
    BY <2>1 DEF BeginRefresh, ClientActive
  <2>2. ASSUME FindRefresh(r) PROVE OwnerInv'
    BY <2>2 DEF FindRefresh, Usable
  <2>3. ASSUME RecheckRefresh(r) PROVE OwnerInv'
    BY <2>3 DEF RecheckRefresh
  <2>4. ASSUME DeleteLinkedAccess(r) PROVE OwnerInv'
    BY <2>4 DEF DeleteLinkedAccess
  <2>5. ASSUME RotateAccess(r) PROVE OwnerInv'
    BY <2>5, HolderClient DEF RotateAccess, NewAccess
  <2>6. ASSUME DeleteOldRefresh(r) PROVE OwnerInv'
    BY <2>6 DEF DeleteOldRefresh
  <2>7. ASSUME RotateRefresh(r) PROVE OwnerInv'
    BY <2>7, HolderClient DEF RotateRefresh, NewRefresh
  <2> QED BY <1>3, <2>1, <2>2, <2>3, <2>4, <2>5, <2>6, <2>7 DEF RefreshStep
<1>4. ASSUME NEW r \in Requests, RevokeStep(r) PROVE OwnerInv'
  <2>1. ASSUME NEW c \in Clients, BeginRevoke(r, c) PROVE OwnerInv'
    BY <2>1 DEF BeginRevoke, ClientActive
  <2>2. ASSUME ResolveToken(r) PROVE OwnerInv'
    BY <2>2 DEF ResolveToken
  <2>3. ASSUME RevokeAccess(r) PROVE OwnerInv'
    BY <2>3 DEF RevokeAccess
  <2>4. ASSUME RevokeRefresh(r) PROVE OwnerInv'
    BY <2>4 DEF RevokeRefresh
  <2>5. ASSUME AnswerRevoke(r) PROVE OwnerInv'
    BY <2>5 DEF AnswerRevoke
  <2> QED BY <1>4, <2>1, <2>2, <2>3, <2>4, <2>5 DEF RevokeStep
<1>5. ASSUME NEW r \in Requests, AdminStep(r) PROVE OwnerInv'
  <2>1. ASSUME NEW c \in Clients, BeginDeleteClient(r, c) PROVE OwnerInv'
    BY <2>1 DEF BeginDeleteClient
  <2>2. ASSUME NEW c \in Clients, BeginRegenerate(r, c) PROVE OwnerInv'
    BY <2>2 DEF BeginRegenerate
  <2>3. ASSUME NEW c \in Clients, BeginRevokeClient(r, c) PROVE OwnerInv'
    BY <2>3 DEF BeginRevokeClient
  <2>4. ASSUME DeleteClientCodes(r) PROVE OwnerInv'
    BY <2>4 DEF DeleteClientCodes, OfOther
  <2>5. ASSUME DeleteClientAccess(r) PROVE OwnerInv'
    BY <2>5 DEF DeleteClientAccess, OfOther
  <2>6. ASSUME DeleteClientRow(r) PROVE OwnerInv'
    BY <2>6 DEF DeleteClientRow
  <2>7. ASSUME UpdateSecret(r) PROVE OwnerInv'
    BY <2>7 DEF UpdateSecret
  <2>8. ASSUME DropAccessAfterSecret(r) PROVE OwnerInv'
    BY <2>8 DEF DropAccessAfterSecret, OfOther
  <2>9. ASSUME RevokeClientAccess(r) PROVE OwnerInv'
    BY <2>9 DEF RevokeClientAccess, OfOther
  <2>10. ASSUME RevokeClientRefresh(r) PROVE OwnerInv'
    BY <2>10 DEF RevokeClientRefresh, OfOther
  <2> QED BY <1>5, <2>1, <2>2, <2>3, <2>4, <2>5, <2>6, <2>7, <2>8, <2>9, <2>10 DEF AdminStep
<1>6. ASSUME NEW r \in Requests, Abort(r) PROVE OwnerInv'
  BY <1>6 DEF Abort
<1>7. ASSUME NEW c \in Clients, NEW status \in {"active", "disabled"}, SetActive(c, status) PROVE OwnerInv'
  BY <1>7 DEF SetActive
<1>8. ASSUME NEW a \in Apps, NEW u \in Users, RevokeUserApp(a, u) PROVE OwnerInv'
  BY <1>8 DEF RevokeUserApp
<1>9. ASSUME NEW row \in Usable(codes), ExpireCode(row) PROVE OwnerInv'
  BY <1>9, ExpireOwner DEF ExpireCode, Usable
<1>10. ASSUME NEW row \in Usable(access), ExpireAccess(row) PROVE OwnerInv'
  BY <1>10, ExpireOwner DEF ExpireAccess, Usable
<1>11. ASSUME NEW row \in Usable(refresh), ExpireRefresh(row) PROVE OwnerInv'
  BY <1>11, ExpireOwner DEF ExpireRefresh, Usable
<1>12. CASE UNCHANGED vars
  BY <1>12 DEF vars
<1> QED BY <1>1, <1>2, <1>3, <1>4, <1>5, <1>6, <1>7, <1>8, <1>9, <1>10, <1>11, <1>12
       DEF Next, RequestStep, Expiry

-----------------------------------------------------------------------------
(* The theorems about every server.                                        *)

LEMMA InitIInv == Init => IInv
<1> SUFFICES ASSUME Init PROVE IInv
  OBVIOUS
<1>1. TypeOK
  BY DEF Init, TypeOK, Pcs, IssuingPcs, ExchangePcs, ReusePcs, RefreshPcs, RevokePcs, AdminPcs
<1>2. NamesInv /\ ConsentInv
  BY DEF Init, NamesInv, ConsentInv, IssuedOnlyWithConsent, Carrying, HoldingPcs, ExchangePcs,
       RefreshPcs, ReusePcs
<1>3. ForkInv /\ ReplayInv
  BY DEF Init, ForkInv, OneHolder, OneRefresh, RefreshIsTheRight, HolderIsTheRight, CodeSpent,
       ReplayInv, ReplayedCodeIsDead, Holders, HoldingPcs, ExchangePcs, RefreshPcs
<1>4. OwnerInv
  BY DEF Init, OwnerInv, Lines, HoldingPcs, ExchangePcs, RefreshPcs
<1> QED BY <1>1, <1>2, <1>3, <1>4 DEF IInv

LEMMA IInvStep == IInv /\ [Next]_vars => IInv'
  BY TypeStep, NamesStep, ConsentStep, ForkStep, ReplayStep, OwnerStep DEF IInv

(* Every variable keeps its type, and a request in the middle of a handler *)
(* has the locals that handler needs.                                      *)
THEOREM TypeCorrect == Spec => []TypeOK
<1>1. Init => TypeOK
  BY InitIInv DEF IInv
<1> QED BY <1>1, TypeStep, PTL DEF Spec

(* The inductive invariant: names are fresh, rights to issue are linear.   *)
THEOREM Invariance == Spec => []IInv
  BY InitIInv, IInvStep, PTL DEF Spec

(* No code or token, at any distance, for an app its user never allowed.   *)
THEOREM ConsentFirst == Spec => []IssuedOnlyWithConsent
<1>1. IInv => IssuedOnlyWithConsent
  BY DEF IInv, ConsentInv
<1> QED BY <1>1, Invariance, PTL

(* Only a race forks a session: failing statements, aborted handlers and   *)
(* restarts, in any number, do not.                                        *)
THEOREM RotationIsLinear == Spec => []ForkOnlyByRace
<1>1. IInv => ForkOnlyByRace
  BY DEF IInv, ForkInv, OneRefresh, RefreshIsTheRight, CodeSpent, ForkOnlyByRace
<1> QED BY <1>1, Invariance, PTL

(* The access tokens of a replayed code are gone for good.                 *)
THEOREM ReplayKills == Spec => []ReplayedCodeIsDead
<1>1. IInv => ReplayedCodeIsDead
  BY DEF IInv, ReplayInv
<1> QED BY <1>1, Invariance, PTL

(* No sequence of exchanges and refreshes moves a session to another       *)
(* client or user.                                                         *)
THEOREM OwnerKept == Spec => []ChainKeepsOwner
<1>1. IInv => ChainKeepsOwner
  BY DEF IInv, OwnerInv, SameOwner, Lines, ChainKeepsOwner
<1> QED BY <1>1, Invariance, PTL

-----------------------------------------------------------------------------
(* Inactive clients.                                                       *)

InactiveGetsNothing == \A c \in Clients : clientStatus[c] # "active" => GetsNothing(c)

(* An expired token keeps its name and its client.                         *)
LEMMA AgedToken ==
  ASSUME TypeOK, NEW row \in access \cup refresh
  PROVE Aged(row).id = row.id /\ Aged(row).client = row.client
  BY DEF Aged, TypeOK, AccessRow, RefreshRow

(* A token is inserted by a request that has passed the client check of    *)
(* the token service, and nobody passes it for an inactive client.         *)
LEMMA InactiveStep == TypeOK /\ ConsentInv /\ [Next]_vars => InactiveGetsNothing
<1> SUFFICES ASSUME TypeOK, ConsentInv, [Next]_vars PROVE InactiveGetsNothing
  OBVIOUS
<1> USE ClientsAssumption
    DEF Become, Goto, Finish, Hold, NoteRace, Admits, Enter, BeginToken, BeginAdmin,
        HoldingPcs, ExchangePcs, RefreshPcs, InactiveGetsNothing, GetsNothing, Cleared, TokensOf,
        ClientAccepted, ClientActive, TypeOK
<1>1. ASSUME NEW r \in Requests, AuthorizeStep(r) PROVE InactiveGetsNothing
  <2>1. ASSUME NEW c \in Clients, NEW u \in Users, BeginConsent(r, c, u) PROVE InactiveGetsNothing
    BY <2>1 DEF BeginConsent, ClientActive
  <2>2. ASSUME NEW c \in Clients, NEW u \in Users, BeginSilent(r, c, u) PROVE InactiveGetsNothing
    BY <2>2 DEF BeginSilent, ClientActive
  <2>3. ASSUME CheckAppUser(r) PROVE InactiveGetsNothing
    BY <2>3 DEF CheckAppUser
  <2>4. ASSUME NEW o \in BOOLEAN, InsertCode(r, o) PROVE InactiveGetsNothing
    BY <2>4 DEF InsertCode, NewCode
  <2> QED BY <1>1, <2>1, <2>2, <2>3, <2>4 DEF AuthorizeStep
<1>2. ASSUME NEW r \in Requests, ExchangeStep(r) PROVE InactiveGetsNothing
  <2>1. ASSUME NEW c \in Clients, BeginExchange(r, c) PROVE InactiveGetsNothing
    BY <2>1 DEF BeginExchange, ClientActive
  <2>2. ASSUME FindUnusedCode(r) PROVE InactiveGetsNothing
    BY <2>2 DEF FindUnusedCode
  <2>3. ASSUME MissUnusedCode(r) PROVE InactiveGetsNothing
    BY <2>3 DEF MissUnusedCode
  <2>4. ASSUME FindReusedCode(r) PROVE InactiveGetsNothing
    BY <2>4 DEF FindReusedCode
  <2>5. ASSUME DeleteReusedAccess(r) PROVE InactiveGetsNothing
    BY <2>5 DEF DeleteReusedAccess
  <2>6. ASSUME RecheckExchange(r) PROVE InactiveGetsNothing
    BY <2>6 DEF RecheckExchange
  <2>7. ASSUME CreateAccess(r) PROVE InactiveGetsNothing
    BY <2>7, HolderClient DEF CreateAccess, NewAccess
  <2>8. ASSUME MarkUsed(r) PROVE InactiveGetsNothing
    BY <2>8 DEF MarkUsed
  <2>9. ASSUME FindAppUser(r) PROVE InactiveGetsNothing
    BY <2>9 DEF FindAppUser, AfterRecord
  <2>10. ASSUME RecordAppUser(r) PROVE InactiveGetsNothing
    BY <2>10 DEF RecordAppUser, AfterRecord
  <2>11. ASSUME CreateRefresh(r) PROVE InactiveGetsNothing
    BY <2>11, HolderClient DEF CreateRefresh, NewRefresh
  <2> QED BY <1>2, <2>1, <2>2, <2>3, <2>4, <2>5, <2>6, <2>7, <2>8, <2>9, <2>10, <2>11 DEF ExchangeStep
<1>3. ASSUME NEW r \in Requests, RefreshStep(r) PROVE InactiveGetsNothing
  <2>1. ASSUME NEW c \in Clients, BeginRefresh(r, c) PROVE InactiveGetsNothing
    BY <2>1 DEF BeginRefresh, ClientActive
  <2>2. ASSUME FindRefresh(r) PROVE InactiveGetsNothing
    BY <2>2 DEF FindRefresh, Usable
  <2>3. ASSUME RecheckRefresh(r) PROVE InactiveGetsNothing
    BY <2>3 DEF RecheckRefresh
  <2>4. ASSUME DeleteLinkedAccess(r) PROVE InactiveGetsNothing
    BY <2>4 DEF DeleteLinkedAccess
  <2>5. ASSUME RotateAccess(r) PROVE InactiveGetsNothing
    BY <2>5, HolderClient DEF RotateAccess, NewAccess
  <2>6. ASSUME DeleteOldRefresh(r) PROVE InactiveGetsNothing
    BY <2>6 DEF DeleteOldRefresh
  <2>7. ASSUME RotateRefresh(r) PROVE InactiveGetsNothing
    BY <2>7, HolderClient DEF RotateRefresh, NewRefresh
  <2> QED BY <1>3, <2>1, <2>2, <2>3, <2>4, <2>5, <2>6, <2>7 DEF RefreshStep
<1>4. ASSUME NEW r \in Requests, RevokeStep(r) PROVE InactiveGetsNothing
  <2>1. ASSUME NEW c \in Clients, BeginRevoke(r, c) PROVE InactiveGetsNothing
    BY <2>1 DEF BeginRevoke, ClientActive
  <2>2. ASSUME ResolveToken(r) PROVE InactiveGetsNothing
    BY <2>2 DEF ResolveToken
  <2>3. ASSUME RevokeAccess(r) PROVE InactiveGetsNothing
    BY <2>3 DEF RevokeAccess
  <2>4. ASSUME RevokeRefresh(r) PROVE InactiveGetsNothing
    BY <2>4 DEF RevokeRefresh
  <2>5. ASSUME AnswerRevoke(r) PROVE InactiveGetsNothing
    BY <2>5 DEF AnswerRevoke
  <2> QED BY <1>4, <2>1, <2>2, <2>3, <2>4, <2>5 DEF RevokeStep
<1>5. ASSUME NEW r \in Requests, AdminStep(r) PROVE InactiveGetsNothing
  <2>1. ASSUME NEW c \in Clients, BeginDeleteClient(r, c) PROVE InactiveGetsNothing
    BY <2>1 DEF BeginDeleteClient
  <2>2. ASSUME NEW c \in Clients, BeginRegenerate(r, c) PROVE InactiveGetsNothing
    BY <2>2 DEF BeginRegenerate
  <2>3. ASSUME NEW c \in Clients, BeginRevokeClient(r, c) PROVE InactiveGetsNothing
    BY <2>3 DEF BeginRevokeClient
  <2>4. ASSUME DeleteClientCodes(r) PROVE InactiveGetsNothing
    BY <2>4 DEF DeleteClientCodes, OfOther
  <2>5. ASSUME DeleteClientAccess(r) PROVE InactiveGetsNothing
    BY <2>5 DEF DeleteClientAccess, OfOther
  <2>6. ASSUME DeleteClientRow(r) PROVE InactiveGetsNothing
    BY <2>6 DEF DeleteClientRow
  <2>7. ASSUME UpdateSecret(r) PROVE InactiveGetsNothing
    BY <2>7 DEF UpdateSecret
  <2>8. ASSUME DropAccessAfterSecret(r) PROVE InactiveGetsNothing
    BY <2>8 DEF DropAccessAfterSecret, OfOther
  <2>9. ASSUME RevokeClientAccess(r) PROVE InactiveGetsNothing
    BY <2>9 DEF RevokeClientAccess, OfOther
  <2>10. ASSUME RevokeClientRefresh(r) PROVE InactiveGetsNothing
    BY <2>10 DEF RevokeClientRefresh, OfOther
  <2> QED BY <1>5, <2>1, <2>2, <2>3, <2>4, <2>5, <2>6, <2>7, <2>8, <2>9, <2>10 DEF AdminStep
<1>6. ASSUME NEW r \in Requests, Abort(r) PROVE InactiveGetsNothing
  BY <1>6 DEF Abort
<1>7. ASSUME NEW c \in Clients, NEW status \in {"active", "disabled"}, SetActive(c, status) PROVE InactiveGetsNothing
  BY <1>7 DEF SetActive
<1>8. ASSUME NEW a \in Apps, NEW u \in Users, RevokeUserApp(a, u) PROVE InactiveGetsNothing
  BY <1>8 DEF RevokeUserApp
<1>9. ASSUME NEW row \in Usable(codes), ExpireCode(row) PROVE InactiveGetsNothing
  BY <1>9 DEF ExpireCode, Aged, Usable
<1>10. ASSUME NEW row \in Usable(access), ExpireAccess(row) PROVE InactiveGetsNothing
  BY <1>10, AgedToken DEF ExpireAccess, Usable
<1>11. ASSUME NEW row \in Usable(refresh), ExpireRefresh(row) PROVE InactiveGetsNothing
  BY <1>11, AgedToken DEF ExpireRefresh, Usable
<1>12. CASE UNCHANGED vars
  BY <1>12 DEF vars
<1> QED BY <1>1, <1>2, <1>3, <1>4, <1>5, <1>6, <1>7, <1>8, <1>9, <1>10, <1>11, <1>12
       DEF Next, RequestStep, Expiry

(* While a client is deleted or disabled, a request that has not passed    *)
(* the client check of the token service gets it nothing more, whatever    *)
(* else is in flight.                                                      *)
THEOREM InactiveGets == Spec => InactiveClientGetsNothing
<1>1. IInv => TypeOK /\ ConsentInv
  BY DEF IInv
<1>2. IInv /\ [Next]_vars => [\A c \in Clients : clientStatus[c] # "active" => GetsNothing(c)]_vars
  BY <1>1, InactiveStep DEF InactiveGetsNothing
<1> QED BY <1>2, Invariance, PTL DEF Spec, InactiveClientGetsNothing

-----------------------------------------------------------------------------
(* Revocation, when no statement fails.                                    *)

(* The kind of a token shows in its columns.                               *)
LEMMA KindOfRow ==
  /\ \A row \in AccessRow : IsAccess(row)
  /\ \A row \in RefreshRow : ~IsAccess(row)
  BY DEF IsAccess, AccessRow, RefreshRow

RevokeWords == {"rvAccess", "rvRefresh", "rvOk"}

(* A step outside the revocation endpoint: requests only move on, and a    *)
(* row is inserted by a request that had not inserted one of its kind.     *)
Onward ==
  /\ \A q \in Requests :
       /\ pc'[q] \in RevokeWords => pc[q] = pc'[q] /\ held'[q] = held[q]
       /\ pc'[q] = "rvRefreshOnly" => pc[q] = "rvRefreshOnly"
       /\ pc[q] \in Inserted => pc'[q] \in Inserted
       /\ pc[q] = "done" => pc'[q] = "done"
  /\ \A row \in access' : pc[row.id] \notin Inserted \/ \E x \in access : x.id = row.id
  /\ \A row \in refresh' : pc[row.id] # "done" \/ \E x \in refresh : x.id = row.id

LEMMA RevokeKept ==
  ASSUME TypeOK, RevokeInv, Onward PROVE RevokeInv'
<1> SUFFICES ASSUME NEW r \in Requests, pc'[r] \in RevokeWords
             PROVE /\ pc'[held'[r].id] \in IF IsAccess(held'[r]) THEN Inserted ELSE {"done"}
                   /\ pc'[r] \in {"rvRefresh", "rvOk"} /\ IsAccess(held'[r]) => GoneFrom(access, r)'
                   /\ pc'[r] = "rvOk" /\ ~IsAccess(held'[r]) => GoneFrom(refresh, r)'
  BY DEF RevokeInv, Onward, RevokeWords
<1>1. pc[r] = pc'[r] /\ held'[r] = held[r]
  BY DEF Onward
<1>2. held[r].id \in Requests
  BY <1>1 DEF TypeOK, AccessRow, RefreshRow, RevokePcs, RevokeWords
<1>3. pc[held[r].id] \in IF IsAccess(held[r]) THEN Inserted ELSE {"done"}
  BY <1>1 DEF RevokeInv, RevokeWords
<1>4. pc'[held'[r].id] \in IF IsAccess(held'[r]) THEN Inserted ELSE {"done"}
  BY <1>1, <1>2, <1>3 DEF Onward
<1>5. ASSUME pc'[r] \in {"rvRefresh", "rvOk"}, IsAccess(held'[r]) PROVE GoneFrom(access, r)'
  <2>1. \A row \in access : row.id # held[r].id
    BY <1>1, <1>5 DEF RevokeInv, GoneFrom
  <2>2. pc[held[r].id] \in Inserted
    BY <1>1, <1>3, <1>5
  <2> QED BY <1>1, <2>1, <2>2 DEF Onward, GoneFrom
<1>6. ASSUME pc'[r] = "rvOk", ~IsAccess(held'[r]) PROVE GoneFrom(refresh, r)'
  <2>1. \A row \in refresh : row.id # held[r].id
    BY <1>1, <1>6 DEF RevokeInv, GoneFrom
  <2>2. pc[held[r].id] = "done"
    BY <1>1, <1>3, <1>6
  <2> QED BY <1>1, <2>1, <2>2 DEF Onward, GoneFrom
<1> QED BY <1>4, <1>5, <1>6

(* The statements of the revocation endpoint.                              *)
LEMMA ResolveRevocation ==
  ASSUME TypeOK, NamesInv, RevokeInv, NEW r \in Requests, ResolveToken(r) PROVE RevokeInv'
<1>1. CASE Finish(r)
  BY <1>1, RevokeKept DEF Finish, Become, Onward, RevokeWords, Inserted, TypeOK, ResolveToken
<1>2. ASSUME NEW row \in access \cup refresh, Hold(r, "rvAccess", row) PROVE RevokeInv'
  <2>1. pc[row.id] \in IF IsAccess(row) THEN Inserted ELSE {"done"}
    BY KindOfRow DEF NamesInv, TypeOK, Inserted
  <2>2. pc[row.id] # "rvResolve"
    BY <2>1 DEF Inserted
  <2>3. /\ UNCHANGED <<access, refresh>>
        /\ pc[r] = "rvResolve" /\ pc'[r] = "rvAccess" /\ held'[r] = row
        /\ \A s \in Requests \ {r} : pc'[s] = pc[s] /\ held'[s] = held[s]
    BY <1>2 DEF ResolveToken, Hold, Become, TypeOK
  <2>4. \A s \in Requests : pc[s] \in RevokeWords => held[s].id \in Requests
    BY DEF TypeOK, AccessRow, RefreshRow, RevokePcs, RevokeWords
  <2>5. row.id \in Requests
    BY DEF TypeOK, AccessRow, RefreshRow
  <2> QED BY <2>1, <2>2, <2>3, <2>4, <2>5 DEF RevokeInv, GoneFrom, RevokeWords, Inserted
<1> QED BY <1>1, <1>2 DEF ResolveToken

LEMMA RevokeAccessGone ==
  ASSUME ~Faults, TypeOK, NamesInv, RevokeInv, NEW r \in Requests, RevokeAccess(r) PROVE RevokeInv'
<1>1. /\ UNCHANGED <<refresh, held>>
      /\ access' = IF IsAccess(held[r]) THEN {row \in access : row.id # held[r].id} ELSE access
      /\ pc[r] = "rvAccess" /\ pc'[r] = "rvRefresh"
      /\ \A s \in Requests \ {r} : pc'[s] = pc[s]
  BY DEF RevokeAccess, Goto, Become, TypeOK
<1>2. \A s \in Requests : pc[s] \in RevokeWords => held[s].id \in Requests
  BY DEF TypeOK, AccessRow, RefreshRow, RevokePcs, RevokeWords
<1> QED BY <1>1, <1>2 DEF RevokeInv, GoneFrom, RevokeWords, Inserted

LEMMA RevokeRefreshGone ==
  ASSUME ~Faults, TypeOK, NamesInv, RevokeInv, NEW r \in Requests, RevokeRefresh(r) PROVE RevokeInv'
<1>1. /\ UNCHANGED <<access, held>>
      /\ refresh' = IF IsAccess(held[r]) THEN refresh ELSE {row \in refresh : row.id # held[r].id}
      /\ pc[r] = "rvRefresh" /\ pc'[r] = "rvOk"
      /\ \A s \in Requests \ {r} : pc'[s] = pc[s]
  BY DEF RevokeRefresh, Goto, Become, TypeOK, RevokeInv
<1>2. \A s \in Requests : pc[s] \in RevokeWords => held[s].id \in Requests
  BY DEF TypeOK, AccessRow, RefreshRow, RevokePcs, RevokeWords
<1> QED BY <1>1, <1>2 DEF RevokeInv, GoneFrom, RevokeWords, Inserted

(* What has been revoked stays revoked.                                    *)
LEMMA RevocationStep == ~Faults /\ TypeOK /\ NamesInv /\ RevokeInv /\ [Next]_vars => RevokeInv'
<1> SUFFICES ASSUME ~Faults, TypeOK, NamesInv, RevokeInv, [Next]_vars PROVE RevokeInv'
  OBVIOUS
<1> USE ClientsAssumption, RevokeKept
    DEF Become, Goto, Finish, Hold, NoteRace, Admits, Enter, BeginToken, BeginAdmin,
        Inserted, Onward, RevokeWords, TypeOK
<1>1. ASSUME NEW r \in Requests, AuthorizeStep(r) PROVE RevokeInv'
  <2>1. ASSUME NEW c \in Clients, NEW u \in Users, BeginConsent(r, c, u) PROVE RevokeInv'
    BY <2>1 DEF BeginConsent, ClientActive
  <2>2. ASSUME NEW c \in Clients, NEW u \in Users, BeginSilent(r, c, u) PROVE RevokeInv'
    BY <2>2 DEF BeginSilent, ClientActive
  <2>3. ASSUME CheckAppUser(r) PROVE RevokeInv'
    BY <2>3 DEF CheckAppUser
  <2>4. ASSUME NEW o \in BOOLEAN, InsertCode(r, o) PROVE RevokeInv'
    BY <2>4 DEF InsertCode, NewCode
  <2> QED BY <1>1, <2>1, <2>2, <2>3, <2>4 DEF AuthorizeStep
<1>2. ASSUME NEW r \in Requests, ExchangeStep(r) PROVE RevokeInv'
  <2>1. ASSUME NEW c \in Clients, BeginExchange(r, c) PROVE RevokeInv'
    BY <2>1 DEF BeginExchange, ClientActive
  <2>2. ASSUME FindUnusedCode(r) PROVE RevokeInv'
    BY <2>2 DEF FindUnusedCode
  <2>3. ASSUME MissUnusedCode(r) PROVE RevokeInv'
    BY <2>3 DEF MissUnusedCode
  <2>4. ASSUME FindReusedCode(r) PROVE RevokeInv'
    BY <2>4 DEF FindReusedCode
  <2>5. ASSUME DeleteReusedAccess(r) PROVE RevokeInv'
    BY <2>5 DEF DeleteReusedAccess
  <2>6. ASSUME RecheckExchange(r) PROVE RevokeInv'
    BY <2>6 DEF RecheckExchange
  <2>7. ASSUME CreateAccess(r) PROVE RevokeInv'
    BY <2>7 DEF CreateAccess, NewAccess
  <2>8. ASSUME MarkUsed(r) PROVE RevokeInv'
    BY <2>8 DEF MarkUsed
  <2>9. ASSUME FindAppUser(r) PROVE RevokeInv'
    BY <2>9 DEF FindAppUser, AfterRecord
  <2>10. ASSUME RecordAppUser(r) PROVE RevokeInv'
    BY <2>10 DEF RecordAppUser, AfterRecord
  <2>11. ASSUME CreateRefresh(r) PROVE RevokeInv'
    BY <2>11 DEF CreateRefresh, NewRefresh
  <2> QED BY <1>2, <2>1, <2>2, <2>3, <2>4, <2>5, <2>6, <2>7, <2>8, <2>9, <2>10, <2>11 DEF ExchangeStep
<1>3. ASSUME NEW r \in Requests, RefreshStep(r) PROVE RevokeInv'
  <2>1. ASSUME NEW c \in Clients, BeginRefresh(r, c) PROVE RevokeInv'
    BY <2>1 DEF BeginRefresh, ClientActive
  <2>2. ASSUME FindRefresh(r) PROVE RevokeInv'
    BY <2>2 DEF FindRefresh, Usable
  <2>3. ASSUME RecheckRefresh(r) PROVE RevokeInv'
    BY <2>3 DEF RecheckRefresh
  <2>4. ASSUME DeleteLinkedAccess(r) PROVE RevokeInv'
    BY <2>4 DEF DeleteLinkedAccess
  <2>5. ASSUME RotateAccess(r) PROVE RevokeInv'
    BY <2>5 DEF RotateAccess, NewAccess
  <2>6. ASSUME DeleteOldRefresh(r) PROVE RevokeInv'
    BY <2>6 DEF DeleteOldRefresh
  <2>7. ASSUME RotateRefresh(r) PROVE RevokeInv'
    BY <2>7 DEF RotateRefresh, NewRefresh
  <2> QED BY <1>3, <2>1, <2>2, <2>3, <2>4, <2>5, <2>6, <2>7 DEF RefreshStep
<1>4. ASSUME NEW r \in Requests, RevokeStep(r) PROVE RevokeInv'
  <2>1. ASSUME NEW c \in Clients, BeginRevoke(r, c) PROVE RevokeInv'
    BY <2>1 DEF BeginRevoke, ClientActive
  <2>2. ASSUME ResolveToken(r) PROVE RevokeInv'
    BY <2>2, ResolveRevocation
  <2>3. ASSUME RevokeAccess(r) PROVE RevokeInv'
    BY <2>3, RevokeAccessGone
  <2>4. ASSUME RevokeRefresh(r) PROVE RevokeInv'
    BY <2>4, RevokeRefreshGone
  <2>5. ASSUME AnswerRevoke(r) PROVE RevokeInv'
    BY <2>5 DEF AnswerRevoke
  <2> QED BY <1>4, <2>1, <2>2, <2>3, <2>4, <2>5 DEF RevokeStep
<1>5. ASSUME NEW r \in Requests, AdminStep(r) PROVE RevokeInv'
  <2>1. ASSUME NEW c \in Clients, BeginDeleteClient(r, c) PROVE RevokeInv'
    BY <2>1 DEF BeginDeleteClient
  <2>2. ASSUME NEW c \in Clients, BeginRegenerate(r, c) PROVE RevokeInv'
    BY <2>2 DEF BeginRegenerate
  <2>3. ASSUME NEW c \in Clients, BeginRevokeClient(r, c) PROVE RevokeInv'
    BY <2>3 DEF BeginRevokeClient
  <2>4. ASSUME DeleteClientCodes(r) PROVE RevokeInv'
    BY <2>4 DEF DeleteClientCodes, OfOther
  <2>5. ASSUME DeleteClientAccess(r) PROVE RevokeInv'
    BY <2>5 DEF DeleteClientAccess, OfOther
  <2>6. ASSUME DeleteClientRow(r) PROVE RevokeInv'
    BY <2>6 DEF DeleteClientRow
  <2>7. ASSUME UpdateSecret(r) PROVE RevokeInv'
    BY <2>7 DEF UpdateSecret
  <2>8. ASSUME DropAccessAfterSecret(r) PROVE RevokeInv'
    BY <2>8 DEF DropAccessAfterSecret, OfOther
  <2>9. ASSUME RevokeClientAccess(r) PROVE RevokeInv'
    BY <2>9 DEF RevokeClientAccess, OfOther
  <2>10. ASSUME RevokeClientRefresh(r) PROVE RevokeInv'
    BY <2>10 DEF RevokeClientRefresh, OfOther
  <2> QED BY <1>5, <2>1, <2>2, <2>3, <2>4, <2>5, <2>6, <2>7, <2>8, <2>9, <2>10 DEF AdminStep
<1>6. ASSUME NEW r \in Requests, Abort(r) PROVE RevokeInv'
  BY <1>6 DEF Abort
<1>7. ASSUME NEW c \in Clients, NEW status \in {"active", "disabled"}, SetActive(c, status) PROVE RevokeInv'
  BY <1>7 DEF SetActive
<1>8. ASSUME NEW a \in Apps, NEW u \in Users, RevokeUserApp(a, u) PROVE RevokeInv'
  BY <1>8 DEF RevokeUserApp
<1>9. ASSUME NEW row \in Usable(codes), ExpireCode(row) PROVE RevokeInv'
  BY <1>9 DEF ExpireCode, Aged, Usable
<1>10. ASSUME NEW row \in Usable(access), ExpireAccess(row) PROVE RevokeInv'
  BY <1>10, AgedToken DEF ExpireAccess, Usable
<1>11. ASSUME NEW row \in Usable(refresh), ExpireRefresh(row) PROVE RevokeInv'
  BY <1>11, AgedToken DEF ExpireRefresh, Usable
<1>12. CASE UNCHANGED vars
  BY <1>12 DEF vars
<1> QED BY <1>1, <1>2, <1>3, <1>4, <1>5, <1>6, <1>7, <1>8, <1>9, <1>10, <1>11, <1>12
       DEF Next, RequestStep, Expiry

-----------------------------------------------------------------------------
(* Access tokens of a session, when no statement fails.                    *)

(* A step that takes nothing but rows from a session, and leaves its       *)
(* holders where they are.                                                 *)
LEMMA LinkElsewhere ==
  ASSUME NEW j \in Requests, Linked(j),
         \A x \in access' : x.session = j => x \in access,
         \A y \in refresh' : y.session = j => y \in refresh,
         CodeSpent(j) => CodeSpent(j)',
         Holders(j)' = Holders(j),
         \A s \in Holders(j) : pc'[s] = pc[s] /\ held'[s] = held[s]
  PROVE Linked(j)'
<1>1. OneAccess(j)'
  BY DEF Linked, OneAccess
<1>2. AccessIsLinked(j)'
  BY DEF Linked, AccessIsLinked, LinkedTo
<1>3. HeldIsStored(j)'
  BY DEF Linked, HeldIsStored
<1> QED BY <1>1, <1>2, <1>3 DEF Linked

(* A step of a request that holds nothing.                                 *)
Aside ==
  /\ raced \subseteq raced' /\ access' \subseteq access /\ refresh' \subseteq refresh
  /\ \A k \in Requests : CodeSpent(k) => CodeSpent(k)'
  /\ \A s \in Requests : /\ pc'[s] \in HoldingPcs <=> pc[s] \in HoldingPcs
                         /\ pc[s] \in HoldingPcs => pc'[s] = pc[s] /\ held'[s] = held[s]

LEMMA LinkAside == ASSUME TypeOK, LinkInv, Aside PROVE LinkInv'
<1> SUFFICES ASSUME NEW k \in Requests, k \notin raced' PROVE Linked(k)'
  BY DEF LinkInv
<1>1. Holders(k)' = Holders(k)
  BY DEF Holders, Aside
<1> QED BY <1>1, LinkElsewhere DEF LinkInv, Aside, Holders

(* The session of a holder has no other holder.                            *)
LEMMA Alone ==
  ASSUME TypeOK, ForkInv, NEW r \in Requests, pc[r] \in HoldingPcs, held[r].session \notin raced
  PROVE Holders(held[r].session) = {r}
  BY DEF ForkInv, OneHolder, Holders, TypeOK, HoldingPcs, ExchangePcs, RefreshPcs, CodeRow, RefreshRow

(* A holder's statement concerns its own session.                          *)
Own(r) ==
  /\ pc[r] \in HoldingPcs /\ pc'[r] \in HoldingPcs \cup {"done"} /\ raced' = raced
  /\ pc'[r] # "done" => held'[r] = held[r]
  /\ \A s \in Requests \ {r} : pc'[s] = pc[s] /\ held'[s] = held[s]
  /\ \A k \in Requests : CodeSpent(k) => CodeSpent(k)'
  /\ \A x \in access' : x.session # held[r].session => x \in access
  /\ \A y \in refresh' : y.session # held[r].session => y \in refresh

LEMMA LinkOwn ==
  ASSUME TypeOK, ForkInv, LinkInv, NEW r \in Requests, Own(r),
         ASSUME held[r].session \notin raced, Linked(held[r].session),
                Holders(held[r].session) = {r}
         PROVE  \A k \in Requests : k = held[r].session => Linked(k)'
  PROVE LinkInv'
<1> SUFFICES ASSUME NEW k \in Requests, k \notin raced' PROVE Linked(k)'
  BY DEF LinkInv
<1>1. k \notin raced /\ Linked(k)
  BY DEF LinkInv, Own
<1>2. CASE k = held[r].session
  <2>1. Holders(k) = {r}
    BY <1>1, <1>2, Alone DEF Own
  <2> QED BY <1>1, <1>2, <2>1
<1>3. CASE k # held[r].session
  <2>1. Holders(k)' = Holders(k) /\ r \notin Holders(k)
    BY <1>3 DEF Holders, Own, HoldingPcs, ExchangePcs, RefreshPcs
  <2> QED BY <1>1, <1>3, <2>1, LinkElsewhere DEF Own, Holders
<1> QED BY <1>2, <1>3

(* Marking a code makes no spent code usable again.                        *)
LEMMA MarkedSpent ==
  ASSUME TypeOK, NEW r \in Requests, MarkUsed(r), NEW k, CodeSpent(k) PROVE CodeSpent(k)'
<1> SUFFICES ASSUME NEW x \in codes', x.session = k PROVE x.used
  BY DEF CodeSpent
<1>1. PICK row \in codes :
        /\ x.session = row.session
        /\ x = IF row.session = held[r].session THEN [row EXCEPT !.used = TRUE] ELSE row
  BY MarkedCode
<1>2. row \in CodeRow /\ row.used
  BY <1>1 DEF CodeSpent, TypeOK
<1>3. [row EXCEPT !.used = TRUE].used
  BY <1>2 DEF CodeRow
<1> QED BY <1>1, <1>2, <1>3

(* The statements of a holder, one by one.                                 *)
LEMMA RecheckExchangeLink ==
  ASSUME ~Faults, TypeOK, NamesInv, ForkInv, LinkInv, NEW r \in Requests, RecheckExchange(r) PROVE LinkInv'
<1>1. Own(r)
  BY DEF RecheckExchange, Own, Goto, Finish, Become, TypeOK, HoldingPcs, ExchangePcs, RefreshPcs, CodeSpent
<1>2. ASSUME held[r].session \notin raced, Linked(held[r].session),
             Holders(held[r].session) = {r}
      PROVE  \A k \in Requests : k = held[r].session => Linked(k)'
  <2> SUFFICES ASSUME NEW k \in Requests, k = held[r].session PROVE Linked(k)'
    OBVIOUS
  <2>1. r \in Holders(k) /\ k \notin raced /\ OneAccess(k) /\ AccessIsLinked(k) /\ HeldIsStored(k)
    BY <1>2 DEF Linked
  <2>2. \A x \in access : x.session # k
    BY <2>1 DEF RecheckExchange, AccessIsLinked, LinkedTo
  <2>3. Holders(k)' \subseteq {r} /\ pc'[r] \in {"exAccess", "done"} /\ UNCHANGED <<access, refresh>>
    BY <1>1, <1>2, <2>1 DEF RecheckExchange, Own, Holders, Goto, Finish, Become, TypeOK, HoldingPcs, ExchangePcs, RefreshPcs
  <2> QED BY <2>2, <2>3 DEF Linked, OneAccess, AccessIsLinked, HeldIsStored, LinkedTo, Holders
<1> QED BY <1>1, <1>2, LinkOwn

LEMMA CreateAccessLink ==
  ASSUME ~Faults, TypeOK, NamesInv, ForkInv, LinkInv, NEW r \in Requests, CreateAccess(r) PROVE LinkInv'
<1>1. Own(r)
  BY DEF CreateAccess, NewAccess, Own, Goto, Finish, Become, TypeOK, HoldingPcs, ExchangePcs, RefreshPcs, CodeSpent
<1>2. ASSUME held[r].session \notin raced, Linked(held[r].session),
             Holders(held[r].session) = {r}
      PROVE  \A k \in Requests : k = held[r].session => Linked(k)'
  <2> SUFFICES ASSUME NEW k \in Requests, k = held[r].session PROVE Linked(k)'
    OBVIOUS
  <2>1. r \in Holders(k) /\ k \notin raced /\ OneAccess(k) /\ AccessIsLinked(k) /\ HeldIsStored(k)
    BY <1>2 DEF Linked
  <2>2. \A x \in access : x.session # k
    BY <2>1 DEF CreateAccess, AccessIsLinked, LinkedTo
  <2>3. Holders(k)' = {r} /\ pc'[r] = "exMark"
    BY <1>1, <1>2, <2>1 DEF CreateAccess, Own, Holders, Goto, Become, TypeOK, HoldingPcs, ExchangePcs
  <2>4. \A x \in access' : x.session = k => x = NewAccess(r, held[r].client, TRUE) /\ x.id = r
    BY <2>2 DEF CreateAccess, NewAccess
  <2> QED BY <2>3, <2>4 DEF Linked, OneAccess, AccessIsLinked, HeldIsStored, LinkedTo
<1> QED BY <1>1, <1>2, LinkOwn

LEMMA MarkUsedLink ==
  ASSUME ~Faults, TypeOK, NamesInv, ForkInv, LinkInv, NEW r \in Requests, MarkUsed(r) PROVE LinkInv'
<1>1. Own(r)
  BY MarkedSpent DEF MarkUsed, Own, Goto, Become, TypeOK, HoldingPcs, ExchangePcs, RefreshPcs
<1>2. ASSUME held[r].session \notin raced, Linked(held[r].session),
             Holders(held[r].session) = {r}
      PROVE  \A k \in Requests : k = held[r].session => Linked(k)'
  <2> SUFFICES ASSUME NEW k \in Requests, k = held[r].session PROVE Linked(k)'
    OBVIOUS
  <2>1. r \in Holders(k) /\ k \notin raced /\ OneAccess(k) /\ AccessIsLinked(k) /\ HeldIsStored(k)
    BY <1>2 DEF Linked
  <2>2. Holders(k)' = {r} /\ pc'[r] = "exFindUser" /\ UNCHANGED <<access, refresh>> /\ pc[r] = "exMark"
    BY <1>1, <1>2, <2>1 DEF MarkUsed, Own, Holders, Goto, Become, TypeOK, HoldingPcs, ExchangePcs
  <2> QED BY <2>1, <2>2 DEF Linked, OneAccess, AccessIsLinked, HeldIsStored, LinkedTo
<1> QED BY <1>1, <1>2, LinkOwn

LEMMA FindAppUserLink ==
  ASSUME ~Faults, TypeOK, NamesInv, ForkInv, LinkInv, NEW r \in Requests, FindAppUser(r) PROVE LinkInv'
<1>1. Own(r)
  BY DEF FindAppUser, AfterRecord, Own, Goto, Finish, Become, TypeOK, HoldingPcs, ExchangePcs, RefreshPcs, CodeSpent
<1>2. ASSUME held[r].session \notin raced, Linked(held[r].session),
             Holders(held[r].session) = {r}
      PROVE  \A k \in Requests : k = held[r].session => Linked(k)'
  <2> SUFFICES ASSUME NEW k \in Requests, k = held[r].session PROVE Linked(k)'
    OBVIOUS
  <2>1. r \in Holders(k) /\ k \notin raced /\ OneAccess(k) /\ AccessIsLinked(k) /\ HeldIsStored(k)
    BY <1>2 DEF Linked
  <2>2. CodeSpent(k) /\ \A y \in refresh : y.session # k
    BY <2>1 DEF FindAppUser, ForkInv, OneHolder, OneRefresh, RefreshIsTheRight, HolderIsTheRight, RefreshHolding, CodeHolding
  <2>3. /\ Holders(k)' \subseteq {r} /\ UNCHANGED <<codes, access, refresh>>
        /\ pc[r] = "exFindUser" /\ pc'[r] \in {"exRecordUser", "exRefresh", "done"}
    BY <1>1, <1>2, <2>1 DEF FindAppUser, AfterRecord, Own, Holders, Goto, Finish, Become, TypeOK, HoldingPcs, ExchangePcs, RefreshPcs
  <2>4. \A x \in access : x.session = k => x.id = r
    BY <2>1, <2>3 DEF AccessIsLinked, LinkedTo
  <2>5. AccessIsLinked(k)'
    BY <2>2, <2>3, <2>4 DEF AccessIsLinked, LinkedTo, Holders, HoldingPcs, ExchangePcs, RefreshPcs, CodeSpent
  <2> QED BY <2>1, <2>2, <2>3, <2>5 DEF Linked, OneAccess, HeldIsStored
<1> QED BY <1>1, <1>2, LinkOwn

LEMMA RecordAppUserLink ==
  ASSUME ~Faults, TypeOK, NamesInv, ForkInv, LinkInv, NEW r \in Requests, RecordAppUser(r) PROVE LinkInv'
<1>1. Own(r)
  BY DEF RecordAppUser, AfterRecord, Own, Goto, Finish, Become, TypeOK, HoldingPcs, ExchangePcs, RefreshPcs, CodeSpent
<1>2. ASSUME held[r].session \notin raced, Linked(held[r].session),
             Holders(held[r].session) = {r}
      PROVE  \A k \in Requests : k = held[r].session => Linked(k)'
  <2> SUFFICES ASSUME NEW k \in Requests, k = held[r].session PROVE Linked(k)'
    OBVIOUS
  <2>1. r \in Holders(k) /\ k \notin raced /\ OneAccess(k) /\ AccessIsLinked(k) /\ HeldIsStored(k)
    BY <1>2 DEF Linked
  <2>2. CodeSpent(k) /\ \A y \in refresh : y.session # k
    BY <2>1 DEF RecordAppUser, ForkInv, OneHolder, OneRefresh, RefreshIsTheRight, HolderIsTheRight, RefreshHolding, CodeHolding
  <2>3. /\ Holders(k)' \subseteq {r} /\ UNCHANGED <<codes, access, refresh>>
        /\ pc[r] = "exRecordUser" /\ pc'[r] \in {"exRefresh", "done"}
    BY <1>1, <1>2, <2>1 DEF RecordAppUser, AfterRecord, Own, Holders, Goto, Finish, Become, TypeOK, HoldingPcs, ExchangePcs, RefreshPcs
  <2>4. \A x \in access : x.session = k => x.id = r
    BY <2>1, <2>3 DEF AccessIsLinked, LinkedTo
  <2>5. AccessIsLinked(k)'
    BY <2>2, <2>3, <2>4 DEF AccessIsLinked, LinkedTo, Holders, HoldingPcs, ExchangePcs, RefreshPcs, CodeSpent
  <2> QED BY <2>1, <2>2, <2>3, <2>5 DEF Linked, OneAccess, HeldIsStored
<1> QED BY <1>1, <1>2, LinkOwn

LEMMA CreateRefreshLink ==
  ASSUME ~Faults, TypeOK, NamesInv, ForkInv, LinkInv, NEW r \in Requests, CreateRefresh(r) PROVE LinkInv'
<1>1. Own(r)
  BY DEF CreateRefresh, NewRefresh, Own, Goto, Finish, Become, TypeOK, HoldingPcs, ExchangePcs, RefreshPcs, CodeSpent
<1>2. ASSUME held[r].session \notin raced, Linked(held[r].session),
             Holders(held[r].session) = {r}
      PROVE  \A k \in Requests : k = held[r].session => Linked(k)'
  <2> SUFFICES ASSUME NEW k \in Requests, k = held[r].session PROVE Linked(k)'
    OBVIOUS
  <2>1. r \in Holders(k) /\ k \notin raced /\ OneAccess(k) /\ AccessIsLinked(k) /\ HeldIsStored(k)
    BY <1>2 DEF Linked
  <2>2. CodeSpent(k) /\ \A y \in refresh : y.session # k
    BY <2>1 DEF CreateRefresh, ForkInv, OneHolder, OneRefresh, RefreshIsTheRight, HolderIsTheRight, RefreshHolding, CodeHolding
  <2>3. Holders(k)' = {} /\ UNCHANGED <<codes, access>> /\ pc[r] = "exRefresh"
    BY <1>1, <1>2, <2>1 DEF CreateRefresh, Own, Holders, Finish, Become, TypeOK, HoldingPcs, ExchangePcs, RefreshPcs
  <2>4. \A y \in refresh' : y.session = k => y.access = r
    BY <2>2 DEF CreateRefresh, NewRefresh
  <2>5. \A x \in access : x.session = k => x.id = r
    BY <2>1, <2>3 DEF AccessIsLinked, LinkedTo
  <2> QED BY <2>1, <2>2, <2>3, <2>4, <2>5 DEF Linked, OneAccess, AccessIsLinked, HeldIsStored, LinkedTo, CodeSpent
<1> QED BY <1>1, <1>2, LinkOwn

LEMMA RotateRefreshLink ==
  ASSUME ~Faults, TypeOK, NamesInv, ForkInv, LinkInv, NEW r \in Requests, RotateRefresh(r) PROVE LinkInv'
<1>1. Own(r)
  BY DEF RotateRefresh, NewRefresh, Own, Goto, Finish, Become, TypeOK, HoldingPcs, ExchangePcs, RefreshPcs, CodeSpent
<1>2. ASSUME held[r].session \notin raced, Linked(held[r].session),
             Holders(held[r].session) = {r}
      PROVE  \A k \in Requests : k = held[r].session => Linked(k)'
  <2> SUFFICES ASSUME NEW k \in Requests, k = held[r].session PROVE Linked(k)'
    OBVIOUS
  <2>1. r \in Holders(k) /\ k \notin raced /\ OneAccess(k) /\ AccessIsLinked(k) /\ HeldIsStored(k)
    BY <1>2 DEF Linked
  <2>2. CodeSpent(k) /\ \A y \in refresh : y.session # k
    BY <2>1 DEF RotateRefresh, ForkInv, OneHolder, OneRefresh, RefreshIsTheRight, HolderIsTheRight, RefreshHolding, CodeHolding
  <2>3. Holders(k)' = {} /\ UNCHANGED <<codes, access>> /\ pc[r] = "rtRefresh"
    BY <1>1, <1>2, <2>1 DEF RotateRefresh, Own, Holders, Finish, Become, TypeOK, HoldingPcs, ExchangePcs, RefreshPcs
  <2>4. \A y \in refresh' : y.session = k => y.access = r
    BY <2>2 DEF RotateRefresh, NewRefresh
  <2>5. \A x \in access : x.session = k => x.id = r
    BY <2>1, <2>3 DEF AccessIsLinked, LinkedTo
  <2> QED BY <2>1, <2>2, <2>3, <2>4, <2>5 DEF Linked, OneAccess, AccessIsLinked, HeldIsStored, LinkedTo, CodeSpent
<1> QED BY <1>1, <1>2, LinkOwn

LEMMA RecheckRefreshLink ==
  ASSUME ~Faults, TypeOK, NamesInv, ForkInv, LinkInv, NEW r \in Requests, RecheckRefresh(r) PROVE LinkInv'
<1>1. Own(r)
  BY DEF RecheckRefresh, Own, Goto, Finish, Become, TypeOK, HoldingPcs, ExchangePcs, RefreshPcs, CodeSpent
<1>2. ASSUME held[r].session \notin raced, Linked(held[r].session),
             Holders(held[r].session) = {r}
      PROVE  \A k \in Requests : k = held[r].session => Linked(k)'
  <2> SUFFICES ASSUME NEW k \in Requests, k = held[r].session PROVE Linked(k)'
    OBVIOUS
  <2>1. r \in Holders(k) /\ k \notin raced /\ OneAccess(k) /\ AccessIsLinked(k) /\ HeldIsStored(k)
    BY <1>2 DEF Linked
  <2>2. CodeSpent(k)
    BY <2>1 DEF RecheckRefresh, ForkInv, OneHolder, OneRefresh, RefreshIsTheRight, HolderIsTheRight, RefreshHolding, CodeHolding
  <2>3. /\ Holders(k)' \subseteq {r} /\ UNCHANGED <<codes, access, refresh>> /\ pc[r] = "rtClient"
        /\ \/ pc'[r] = "rtUnlink" /\ r \in Holders(k)' /\ held'[r] = held[r]
           \/ pc'[r] = "done" /\ r \notin Holders(k)'
    BY <1>1, <1>2, <2>1 DEF RecheckRefresh, Own, Holders, Goto, Finish, Become, TypeOK, HoldingPcs, ExchangePcs, RefreshPcs
  <2>4. \A x \in access : x.session = k => x.id = held[r].access
    BY <2>1, <2>3 DEF AccessIsLinked, LinkedTo
  <2>5. \A y \in refresh : y.session = k => y.access = held[r].access
    BY <2>1, <2>3 DEF HeldIsStored
  <2>6. OneAccess(k)' /\ CodeSpent(k)'
    BY <2>1, <2>2, <2>3 DEF OneAccess, CodeSpent
  <2>7. AccessIsLinked(k)'
    BY <2>2, <2>3, <2>4, <2>5, <2>6 DEF AccessIsLinked, LinkedTo
  <2> QED BY <2>3, <2>6, <2>7 DEF Linked, HeldIsStored
<1> QED BY <1>1, <1>2, LinkOwn

LEMMA DeleteLinkedAccessLink ==
  ASSUME ~Faults, TypeOK, NamesInv, ForkInv, LinkInv, NEW r \in Requests, DeleteLinkedAccess(r) PROVE LinkInv'
<1>1. Own(r)
  BY DEF DeleteLinkedAccess, Own, Goto, Finish, Become, TypeOK, HoldingPcs, ExchangePcs, RefreshPcs, CodeSpent
<1>2. ASSUME held[r].session \notin raced, Linked(held[r].session),
             Holders(held[r].session) = {r}
      PROVE  \A k \in Requests : k = held[r].session => Linked(k)'
  <2> SUFFICES ASSUME NEW k \in Requests, k = held[r].session PROVE Linked(k)'
    OBVIOUS
  <2>1. r \in Holders(k) /\ k \notin raced /\ OneAccess(k) /\ AccessIsLinked(k) /\ HeldIsStored(k)
    BY <1>2 DEF Linked
  <2>2. /\ Holders(k)' = {r} /\ UNCHANGED <<codes, refresh>> /\ pc[r] = "rtUnlink" /\ pc'[r] = "rtAccess"
        /\ access' = {x \in access : x.id # held[r].access}
    BY <1>1, <1>2, <2>1 DEF DeleteLinkedAccess, Own, Holders, Goto, Become, TypeOK, HoldingPcs, RefreshPcs
  <2>3. \A x \in access' : x.session # k
    BY <2>1, <2>2 DEF AccessIsLinked, LinkedTo
  <2> QED BY <2>2, <2>3 DEF Linked, OneAccess, AccessIsLinked, HeldIsStored, LinkedTo
<1> QED BY <1>1, <1>2, LinkOwn

LEMMA RotateAccessLink ==
  ASSUME ~Faults, TypeOK, NamesInv, ForkInv, LinkInv, NEW r \in Requests, RotateAccess(r) PROVE LinkInv'
<1>1. Own(r)
  BY DEF RotateAccess, NewAccess, Own, Goto, Finish, Become, TypeOK, HoldingPcs, ExchangePcs, RefreshPcs, CodeSpent
<1>2. ASSUME held[r].session \notin raced, Linked(held[r].session),
             Holders(held[r].session) = {r}
      PROVE  \A k \in Requests : k = held[r].session => Linked(k)'
  <2> SUFFICES ASSUME NEW k \in Requests, k = held[r].session PROVE Linked(k)'
    OBVIOUS
  <2>1. r \in Holders(k) /\ k \notin raced /\ OneAccess(k) /\ AccessIsLinked(k) /\ HeldIsStored(k)
    BY <1>2 DEF Linked
  <2>2. \A x \in access : x.session # k
    BY <2>1 DEF RotateAccess, AccessIsLinked, LinkedTo
  <2>3. Holders(k)' = {r} /\ pc'[r] = "rtDelete"
    BY <1>1, <1>2, <2>1 DEF RotateAccess, Own, Holders, Goto, Become, TypeOK, HoldingPcs, RefreshPcs
  <2>4. \A x \in access' : x.session = k => x = NewAccess(r, who[r], FALSE) /\ x.id = r
    BY <2>2 DEF RotateAccess, NewAccess
  <2> QED BY <2>3, <2>4 DEF Linked, OneAccess, AccessIsLinked, HeldIsStored, LinkedTo
<1> QED BY <1>1, <1>2, LinkOwn

LEMMA DeleteOldRefreshLink ==
  ASSUME ~Faults, TypeOK, NamesInv, ForkInv, LinkInv, NEW r \in Requests, DeleteOldRefresh(r) PROVE LinkInv'
<1>1. Own(r)
  BY DEF DeleteOldRefresh, Own, Goto, Finish, Become, TypeOK, HoldingPcs, ExchangePcs, RefreshPcs, CodeSpent
<1>2. ASSUME held[r].session \notin raced, Linked(held[r].session),
             Holders(held[r].session) = {r}
      PROVE  \A k \in Requests : k = held[r].session => Linked(k)'
  <2> SUFFICES ASSUME NEW k \in Requests, k = held[r].session PROVE Linked(k)'
    OBVIOUS
  <2>1. r \in Holders(k) /\ k \notin raced /\ OneAccess(k) /\ AccessIsLinked(k) /\ HeldIsStored(k)
    BY <1>2 DEF Linked
  <2>2. Holders(k)' = {r} /\ pc'[r] = "rtRefresh" /\ UNCHANGED <<codes, access>> /\ pc[r] = "rtDelete"
    BY <1>1, <1>2, <2>1 DEF DeleteOldRefresh, Own, Holders, Goto, Become, TypeOK, HoldingPcs, RefreshPcs
  <2> QED BY <2>1, <2>2 DEF Linked, OneAccess, AccessIsLinked, HeldIsStored, LinkedTo
<1> QED BY <1>1, <1>2, LinkOwn


(* A session begins without a token.                                       *)
LEMMA InsertCodeLink ==
  ASSUME TypeOK, NamesInv, LinkInv, NEW r \in Requests, NEW o \in BOOLEAN, InsertCode(r, o)
  PROVE LinkInv'
<1> SUFFICES ASSUME NEW k \in Requests, k \notin raced PROVE Linked(k)'
  BY DEF LinkInv, InsertCode
<1>1. /\ UNCHANGED <<access, refresh>> /\ Linked(k)
      /\ Holders(k)' = Holders(k) /\ \A s \in Holders(k) : pc'[s] = pc[s] /\ held'[s] = held[s]
  BY DEF InsertCode, Finish, Become, Holders, HoldingPcs, ExchangePcs, RefreshPcs, TypeOK, LinkInv
<1>2. CASE k = r
  <2>1. \A x \in access \cup refresh : x.session # k
    BY <1>2 DEF NamesInv, InsertCode
  <2> QED BY <1>1, <2>1 DEF Linked, OneAccess, AccessIsLinked, HeldIsStored
<1>3. CASE k # r
  <2>1. CodeSpent(k) => CodeSpent(k)'
    BY <1>3 DEF InsertCode, NewCode, CodeSpent
  <2> QED BY <1>1, <2>1, LinkElsewhere
<1> QED BY <1>2, <1>3

(* A request that finds a credential is alone with it, or the session is   *)
(* raced from now on.                                                      *)
LEMMA FoundElsewhere ==
  ASSUME TypeOK, LinkInv, NEW r \in Requests, pc[r] \notin HoldingPcs,
         NEW to \in HoldingPcs, NEW row, Hold(r, to, row), NoteRace(r, row.session),
         UNCHANGED dbVars, NEW k \in Requests, k \notin raced', k # row.session
  PROVE Linked(k)'
<1>1. k \notin raced /\ Linked(k)
  BY DEF NoteRace, LinkInv
<1>2. /\ Holders(k)' = Holders(k) /\ r \notin Holders(k)
      /\ \A s \in Requests \ {r} : pc'[s] = pc[s] /\ held'[s] = held[s]
  BY DEF Hold, Become, Holders, TypeOK
<1> QED BY <1>1, <1>2, LinkElsewhere DEF Holders, CodeSpent

LEMMA FoundAlone ==
  ASSUME TypeOK, LinkInv, NEW r \in Requests, pc[r] \notin HoldingPcs,
         NEW to \in HoldingPcs, NEW row, row.session \in Requests,
         Hold(r, to, row), NoteRace(r, row.session), row.session \notin raced'
  PROVE /\ row.session \notin raced /\ Linked(row.session) /\ Holders(row.session) = {}
        /\ \A s \in Requests : pc'[s] \in HoldingPcs /\ held'[s].session = row.session => s = r
        /\ pc'[r] = to /\ held'[r] = row
<1>1. Holders(row.session) \ {r} = {} /\ row.session \notin raced
  BY DEF NoteRace
<1>2. Holders(row.session) = {}
  BY <1>1 DEF Holders
<1>3. Linked(row.session)
  BY <1>1 DEF LinkInv
<1>4. /\ pc'[r] = to /\ held'[r] = row
      /\ \A s \in Requests \ {r} : pc'[s] = pc[s] /\ held'[s] = held[s]
  BY DEF Hold, Become, TypeOK
<1> QED BY <1>1, <1>2, <1>3, <1>4 DEF Holders

LEMMA FindUnusedCodeLink ==
  ASSUME TypeOK, NamesInv, ForkInv, LinkInv, NEW r \in Requests, FindUnusedCode(r) PROVE LinkInv'
<1>1. CASE Finish(r) /\ UNCHANGED raced
  BY <1>1, LinkAside DEF FindUnusedCode, Finish, Become, Aside, CodeSpent, TypeOK, HoldingPcs,
                          ExchangePcs, RefreshPcs
<1>2. ASSUME NEW row \in codes, ~row.used, Hold(r, "exClient", row), NoteRace(r, row.session)
      PROVE LinkInv'
  <2> SUFFICES ASSUME NEW k \in Requests, k \notin raced' PROVE Linked(k)'
    BY DEF LinkInv
  <2>1. pc[r] \notin HoldingPcs /\ "exClient" \in HoldingPcs /\ row.session \in Requests /\ UNCHANGED dbVars
    BY DEF FindUnusedCode, HoldingPcs, ExchangePcs, RefreshPcs, TypeOK, CodeRow
  <2>2. CASE k = row.session
    <3>1. /\ Linked(k) /\ Holders(k) = {} /\ pc'[r] = "exClient"
          /\ \A s \in Requests : pc'[s] \in HoldingPcs /\ held'[s].session = k => s = r
      BY <1>2, <2>1, <2>2, FoundAlone
    <3>2. \A x \in access : x.session # k
      BY <1>2, <2>2, <3>1 DEF Linked, AccessIsLinked, CodeSpent
    <3> QED BY <2>1, <3>1, <3>2 DEF Linked, OneAccess, AccessIsLinked, HeldIsStored, Holders
  <2>3. CASE k # row.session
    BY <1>2, <2>1, <2>3, FoundElsewhere
  <2> QED BY <2>2, <2>3
<1> QED BY <1>1, <1>2 DEF FindUnusedCode

LEMMA FindRefreshLink ==
  ASSUME TypeOK, NamesInv, ForkInv, LinkInv, NEW r \in Requests, FindRefresh(r) PROVE LinkInv'
<1>1. CASE Finish(r) /\ UNCHANGED raced
  BY <1>1, LinkAside DEF FindRefresh, Finish, Become, Aside, CodeSpent, TypeOK, HoldingPcs,
                          ExchangePcs, RefreshPcs
<1>2. ASSUME NEW row \in refresh, Hold(r, "rtClient", row), NoteRace(r, row.session)
      PROVE LinkInv'
  <2> SUFFICES ASSUME NEW k \in Requests, k \notin raced' PROVE Linked(k)'
    BY DEF LinkInv
  <2>1. pc[r] \notin HoldingPcs /\ "rtClient" \in HoldingPcs /\ row.session \in Requests /\ UNCHANGED dbVars
    BY DEF FindRefresh, HoldingPcs, ExchangePcs, RefreshPcs, TypeOK, RefreshRow
  <2>2. CASE k = row.session
    <3>1. /\ k \notin raced /\ Linked(k) /\ Holders(k) = {} /\ pc'[r] = "rtClient" /\ held'[r] = row
          /\ \A s \in Requests : pc'[s] \in HoldingPcs /\ held'[s].session = k => s = r
      BY <1>2, <2>1, <2>2, FoundAlone
    <3>2. \A x \in access : x.session = k => x.id = row.access
      BY <2>2, <3>1 DEF Linked, AccessIsLinked
    <3>3. \A y \in refresh : y.session = k => y = row
      BY <2>2, <3>1 DEF ForkInv, OneRefresh
    <3>4. r \in Holders(k)'
      BY <2>1, <2>2, <3>1 DEF Holders
    <3> QED BY <2>1, <3>1, <3>2, <3>3, <3>4 DEF Linked, OneAccess, AccessIsLinked, HeldIsStored,
                                            LinkedTo, Holders
  <2>3. CASE k # row.session
    BY <1>2, <2>1, <2>3, FoundElsewhere
  <2> QED BY <2>2, <2>3
<1> QED BY <1>1, <1>2 DEF FindRefresh, Usable

(* Expiry changes no link.                                                 *)
LEMMA ExpireCodeLink ==
  ASSUME TypeOK, LinkInv, NEW row \in Usable(codes), ExpireCode(row) PROVE LinkInv'
<1>1. Aged(row).session = row.session /\ Aged(row).used = row.used /\ row \in codes
  BY DEF Aged, TypeOK, CodeRow, Usable
<1>2. Aside
  BY <1>1 DEF ExpireCode, Aside, CodeSpent
<1> QED BY <1>2, LinkAside

LEMMA ExpireAccessLink ==
  ASSUME TypeOK, LinkInv, NEW row \in Usable(access), ExpireAccess(row) PROVE LinkInv'
<1>1. Aged(row).session = row.session /\ Aged(row).id = row.id /\ row \in access
  BY DEF Aged, TypeOK, AccessRow, Usable
<1> SUFFICES ASSUME NEW k \in Requests, k \notin raced PROVE Linked(k)'
  BY DEF LinkInv, ExpireAccess
<1>2. OneAccess(k) /\ AccessIsLinked(k) /\ HeldIsStored(k)
  BY DEF LinkInv, Linked
<1>3. OneAccess(k)'
  BY <1>1, <1>2 DEF OneAccess, ExpireAccess
<1>4. AccessIsLinked(k)'
  BY <1>1, <1>2 DEF AccessIsLinked, LinkedTo, ExpireAccess, Holders, CodeSpent
<1> QED BY <1>2, <1>3, <1>4 DEF Linked, HeldIsStored, ExpireAccess, Holders

LEMMA ExpireRefreshLink ==
  ASSUME TypeOK, LinkInv, NEW row \in Usable(refresh), ExpireRefresh(row) PROVE LinkInv'
<1>1. Aged(row).session = row.session /\ Aged(row).access = row.access /\ row \in refresh
  BY DEF Aged, TypeOK, RefreshRow, Usable
<1> SUFFICES ASSUME NEW k \in Requests, k \notin raced PROVE Linked(k)'
  BY DEF LinkInv, ExpireRefresh
<1>2. OneAccess(k) /\ AccessIsLinked(k) /\ HeldIsStored(k)
  BY DEF LinkInv, Linked
<1>3. AccessIsLinked(k)'
  BY <1>1, <1>2 DEF AccessIsLinked, LinkedTo, ExpireRefresh, Holders, CodeSpent
<1>4. HeldIsStored(k)'
  BY <1>1, <1>2 DEF HeldIsStored, ExpireRefresh, Holders
<1> QED BY <1>2, <1>3, <1>4 DEF Linked, OneAccess, ExpireRefresh

(* A session never raced keeps at most one access token.                   *)
LEMMA LinkStep == ~Faults /\ TypeOK /\ NamesInv /\ ConsentInv /\ ForkInv /\ LinkInv /\ [Next]_vars => LinkInv'
<1> SUFFICES ASSUME ~Faults, TypeOK, NamesInv, ConsentInv, ForkInv, LinkInv, [Next]_vars PROVE LinkInv'
  OBVIOUS
<1> USE ClientsAssumption, LinkAside
    DEF Become, Goto, Finish, Hold, NoteRace, Admits, Enter, BeginToken, BeginAdmin,
        CodeSpent, HoldingPcs, ExchangePcs, RefreshPcs, Aside, TypeOK
<1>1. ASSUME NEW r \in Requests, AuthorizeStep(r) PROVE LinkInv'
  <2>1. ASSUME NEW c \in Clients, NEW u \in Users, BeginConsent(r, c, u) PROVE LinkInv'
    BY <2>1 DEF BeginConsent, ClientActive
  <2>2. ASSUME NEW c \in Clients, NEW u \in Users, BeginSilent(r, c, u) PROVE LinkInv'
    BY <2>2 DEF BeginSilent, ClientActive
  <2>3. ASSUME CheckAppUser(r) PROVE LinkInv'
    BY <2>3 DEF CheckAppUser
  <2>4. ASSUME NEW o \in BOOLEAN, InsertCode(r, o) PROVE LinkInv'
    BY <2>4, InsertCodeLink
  <2> QED BY <1>1, <2>1, <2>2, <2>3, <2>4 DEF AuthorizeStep
<1>2. ASSUME NEW r \in Requests, ExchangeStep(r) PROVE LinkInv'
  <2>1. ASSUME NEW c \in Clients, BeginExchange(r, c) PROVE LinkInv'
    BY <2>1 DEF BeginExchange, ClientActive
  <2>2. ASSUME FindUnusedCode(r) PROVE LinkInv'
    BY <2>2, FindUnusedCodeLink
  <2>3. ASSUME MissUnusedCode(r) PROVE LinkInv'
    BY <2>3 DEF MissUnusedCode
  <2>4. ASSUME FindReusedCode(r) PROVE LinkInv'
    BY <2>4 DEF FindReusedCode
  <2>5. ASSUME DeleteReusedAccess(r) PROVE LinkInv'
    BY <2>5 DEF DeleteReusedAccess
  <2>6. ASSUME RecheckExchange(r) PROVE LinkInv'
    BY <2>6, RecheckExchangeLink
  <2>7. ASSUME CreateAccess(r) PROVE LinkInv'
    BY <2>7, CreateAccessLink
  <2>8. ASSUME MarkUsed(r) PROVE LinkInv'
    BY <2>8, MarkUsedLink
  <2>9. ASSUME FindAppUser(r) PROVE LinkInv'
    BY <2>9, FindAppUserLink
  <2>10. ASSUME RecordAppUser(r) PROVE LinkInv'
    BY <2>10, RecordAppUserLink
  <2>11. ASSUME CreateRefresh(r) PROVE LinkInv'
    BY <2>11, CreateRefreshLink
  <2> QED BY <1>2, <2>1, <2>2, <2>3, <2>4, <2>5, <2>6, <2>7, <2>8, <2>9, <2>10, <2>11 DEF ExchangeStep
<1>3. ASSUME NEW r \in Requests, RefreshStep(r) PROVE LinkInv'
  <2>1. ASSUME NEW c \in Clients, BeginRefresh(r, c) PROVE LinkInv'
    BY <2>1 DEF BeginRefresh, ClientActive
  <2>2. ASSUME FindRefresh(r) PROVE LinkInv'
    BY <2>2, FindRefreshLink
  <2>3. ASSUME RecheckRefresh(r) PROVE LinkInv'
    BY <2>3, RecheckRefreshLink
  <2>4. ASSUME DeleteLinkedAccess(r) PROVE LinkInv'
    BY <2>4, DeleteLinkedAccessLink
  <2>5. ASSUME RotateAccess(r) PROVE LinkInv'
    BY <2>5, RotateAccessLink
  <2>6. ASSUME DeleteOldRefresh(r) PROVE LinkInv'
    BY <2>6, DeleteOldRefreshLink
  <2>7. ASSUME RotateRefresh(r) PROVE LinkInv'
    BY <2>7, RotateRefreshLink
  <2> QED BY <1>3, <2>1, <2>2, <2>3, <2>4, <2>5, <2>6, <2>7 DEF RefreshStep
<1>4. ASSUME NEW r \in Requests, RevokeStep(r) PROVE LinkInv'
  <2>1. ASSUME NEW c \in Clients, BeginRevoke(r, c) PROVE LinkInv'
    BY <2>1 DEF BeginRevoke, ClientActive
  <2>2. ASSUME ResolveToken(r) PROVE LinkInv'
    BY <2>2 DEF ResolveToken
  <2>3. ASSUME RevokeAccess(r) PROVE LinkInv'
    BY <2>3 DEF RevokeAccess
  <2>4. ASSUME RevokeRefresh(r) PROVE LinkInv'
    BY <2>4 DEF RevokeRefresh
  <2>5. ASSUME AnswerRevoke(r) PROVE LinkInv'
    BY <2>5 DEF AnswerRevoke
  <2> QED BY <1>4, <2>1, <2>2, <2>3, <2>4, <2>5 DEF RevokeStep
<1>5. ASSUME NEW r \in Requests, AdminStep(r) PROVE LinkInv'
  <2>1. ASSUME NEW c \in Clients, BeginDeleteClient(r, c) PROVE LinkInv'
    BY <2>1 DEF BeginDeleteClient
  <2>2. ASSUME NEW c \in Clients, BeginRegenerate(r, c) PROVE LinkInv'
    BY <2>2 DEF BeginRegenerate
  <2>3. ASSUME NEW c \in Clients, BeginRevokeClient(r, c) PROVE LinkInv'
    BY <2>3 DEF BeginRevokeClient
  <2>4. ASSUME DeleteClientCodes(r) PROVE LinkInv'
    BY <2>4 DEF DeleteClientCodes, OfOther
  <2>5. ASSUME DeleteClientAccess(r) PROVE LinkInv'
    BY <2>5 DEF DeleteClientAccess, OfOther
  <2>6. ASSUME DeleteClientRow(r) PROVE LinkInv'
    BY <2>6 DEF DeleteClientRow
  <2>7. ASSUME UpdateSecret(r) PROVE LinkInv'
    BY <2>7 DEF UpdateSecret
  <2>8. ASSUME DropAccessAfterSecret(r) PROVE LinkInv'
    BY <2>8 DEF DropAccessAfterSecret, OfOther
  <2>9. ASSUME RevokeClientAccess(r) PROVE LinkInv'
    BY <2>9 DEF RevokeClientAccess, OfOther
  <2>10. ASSUME RevokeClientRefresh(r) PROVE LinkInv'
    BY <2>10 DEF RevokeClientRefresh, OfOther
  <2> QED BY <1>5, <2>1, <2>2, <2>3, <2>4, <2>5, <2>6, <2>7, <2>8, <2>9, <2>10 DEF AdminStep
<1>6. ASSUME NEW r \in Requests, Abort(r) PROVE LinkInv'
  BY <1>6 DEF Abort
<1>7. ASSUME NEW c \in Clients, NEW status \in {"active", "disabled"}, SetActive(c, status) PROVE LinkInv'
  BY <1>7 DEF SetActive
<1>8. ASSUME NEW a \in Apps, NEW u \in Users, RevokeUserApp(a, u) PROVE LinkInv'
  BY <1>8 DEF RevokeUserApp
<1>9. ASSUME NEW row \in Usable(codes), ExpireCode(row) PROVE LinkInv'
  BY <1>9, ExpireCodeLink
<1>10. ASSUME NEW row \in Usable(access), ExpireAccess(row) PROVE LinkInv'
  BY <1>10, ExpireAccessLink
<1>11. ASSUME NEW row \in Usable(refresh), ExpireRefresh(row) PROVE LinkInv'
  BY <1>11, ExpireRefreshLink
<1>12. CASE UNCHANGED vars
  BY <1>12 DEF vars
<1> QED BY <1>1, <1>2, <1>3, <1>4, <1>5, <1>6, <1>7, <1>8, <1>9, <1>10, <1>11, <1>12
       DEF Next, RequestStep, Expiry

(* The inductive invariant of a server whose statements do not fail.       *)
LEMMA InitCalm == Init => CalmInv
<1> SUFFICES ASSUME Init PROVE LinkInv /\ RevokeInv
  BY InitIInv DEF CalmInv
<1>1. LinkInv
  BY DEF Init, LinkInv, Linked, OneAccess, AccessIsLinked, HeldIsStored
<1>2. RevokeInv
  BY DEF Init, RevokeInv
<1> QED BY <1>1, <1>2

LEMMA CalmStep == ASSUME ~Faults PROVE CalmInv /\ [Next]_vars => CalmInv'
  BY IInvStep, LinkStep, RevocationStep DEF CalmInv, IInv

THEOREM CalmInvariance == ASSUME ~Faults PROVE Spec => []CalmInv
  BY InitCalm, CalmStep, PTL DEF Spec

(* When no statement fails, a session that was never raced has at most one *)
(* access token: each refresh deletes the one before it inserts the next.  *)
THEOREM RefreshReplaces == ASSUME ~Faults PROVE Spec => []OneAccessToken
<1>1. CalmInv => OneAccessToken
  BY DEF CalmInv, LinkInv, Linked, OneAccess, OneAccessToken
<1> QED BY <1>1, CalmInvariance, PTL

(* When no statement fails, 200 to a revocation means that the token is in *)
(* neither table, and no request in flight can insert it again.            *)
THEOREM RevocationHolds == ASSUME ~Faults PROVE Spec => []RevokedTokenIsGone
<1>1. ASSUME CalmInv PROVE RevokedTokenIsGone
  <2> SUFFICES ASSUME NEW r \in Requests, pc[r] = "rvOk", NEW row \in access \cup refresh,
                      IsAccess(row) = IsAccess(held[r]), row.id = held[r].id
               PROVE  FALSE
    BY DEF RevokedTokenIsGone
  <2>1. (row \in access => IsAccess(row)) /\ (row \in refresh => ~IsAccess(row))
    BY <1>1, KindOfRow DEF CalmInv, IInv, TypeOK
  <2>2. CASE IsAccess(row)
    BY <1>1, <2>1, <2>2 DEF CalmInv, RevokeInv, GoneFrom
  <2>3. CASE ~IsAccess(row)
    BY <1>1, <2>1, <2>3 DEF CalmInv, RevokeInv, GoneFrom
  <2> QED BY <2>2, <2>3
<1> QED BY <1>1, CalmInvariance, PTL

-----------------------------------------------------------------------------
(* Refinement: every action allows an app, issues one token under a new    *)
(* name for an allowed app, or only takes tokens away.                     *)

face == <<consented, UsableTokens>>

(* A step that adds no usable row withdraws tokens, or stutters.           *)
LEMMA Shrink ==
  ASSUME consented' = consented,
         Usable(access)' \subseteq Usable(access), Usable(refresh)' \subseteq Usable(refresh)
  PROVE [Grants!Next]_face
<1>1. UsableTokens' \subseteq UsableTokens
  BY DEF UsableTokens, Face
<1> DEFINE gone == UsableTokens \ UsableTokens'
<1>2. Grants!Withdraw(gone)
  BY <1>1 DEF Grants!Withdraw
<1>3. gone \in SUBSET UsableTokens
  OBVIOUS
<1> QED BY <1>2, <1>3 DEF Grants!Next

LEMMA Consents ==
  ASSUME NEW r \in Requests, NEW c \in Clients, NEW u \in Users, BeginConsent(r, c, u)
  PROVE [Grants!Next]_face
<1>1. UNCHANGED <<access, refresh>> /\ consented' = consented \cup {<<AppOf[c], u>>}
  BY DEF BeginConsent, Enter
<1>2. UNCHANGED UsableTokens
  BY <1>1 DEF UsableTokens, Usable
<1>3. AppOf[c] \in Apps
  BY ClientsAssumption
<1>4. Grants!Allow(AppOf[c], u)
  BY <1>1, <1>2 DEF Grants!Allow
<1> QED BY <1>3, <1>4 DEF Grants!Next

(* A row inserted under a name no row has is the issue of its face.        *)
LEMMA Issues ==
  ASSUME consented' = consented,
         NEW t \in Grants!Token,
         <<AppOf[t.client], t.user>> \in consented,
         \A s \in UsableTokens : s.kind = t.kind => s.name # t.name,
         UsableTokens' = UsableTokens \cup {t}
  PROVE [Grants!Next]_face
<1>1. Grants!Issue(t)
  BY DEF Grants!Issue
<1> QED BY <1>1 DEF Grants!Next

LEMMA IssuesAccess ==
  ASSUME TypeOK, NamesInv, ConsentInv, NEW r \in Requests, pc[r] \in {"exAccess", "rtAccess"},
         NEW c \in Clients, c = held[r].client, NEW b \in BOOLEAN,
         access' = access \cup {NewAccess(r, c, b)},
         UNCHANGED <<consented, refresh>>
  PROVE [Grants!Next]_face
<1> DEFINE new == NewAccess(r, c, b)
           t == Face("access", new)
<1>1. new \in AccessRow /\ new.id = r /\ ~new.expired /\ new.client = c /\ new.user = held[r].user
  BY NewAccessType DEF NewAccess, TypeOK, ExchangePcs, RefreshPcs
<1>2. t \in Grants!Token /\ t.kind = "access" /\ t.name = r /\ t.client = c /\ t.user = new.user
  BY <1>1 DEF Face, Grants!Token, Grants!Kinds, AccessRow
<1>3. <<AppOf[t.client], t.user>> \in consented
  BY <1>1, <1>2 DEF ConsentInv, AppUserOf, HoldingPcs, ExchangePcs, RefreshPcs
<1>4. \A x \in access : x.id # r
  BY DEF NamesInv
<1>5. \A s \in UsableTokens : s.kind = t.kind => s.name # t.name
  BY <1>2, <1>4 DEF UsableTokens, Usable, Face
<1>6. UsableTokens' = UsableTokens \cup {t}
  <2>1. Usable(access)' = Usable(access) \cup {new} /\ Usable(refresh)' = Usable(refresh)
    BY <1>1 DEF Usable
  <2> QED BY <2>1 DEF UsableTokens
<1> QED BY <1>2, <1>3, <1>5, <1>6, Issues

LEMMA IssuesRefresh ==
  ASSUME TypeOK, NamesInv, ConsentInv, NEW r \in Requests, pc[r] \in {"exRefresh", "rtRefresh"},
         NEW c \in Clients, c = held[r].client,
         refresh' = refresh \cup {NewRefresh(r, c)},
         UNCHANGED <<consented, access>>
  PROVE [Grants!Next]_face
<1> DEFINE new == NewRefresh(r, c)
           t == Face("refresh", new)
<1>1. new \in RefreshRow /\ new.id = r /\ ~new.expired /\ new.client = c /\ new.user = held[r].user
  BY NewRefreshType DEF NewRefresh, TypeOK, ExchangePcs, RefreshPcs
<1>2. t \in Grants!Token /\ t.kind = "refresh" /\ t.name = r /\ t.client = c /\ t.user = new.user
  BY <1>1 DEF Face, Grants!Token, Grants!Kinds, RefreshRow
<1>3. <<AppOf[t.client], t.user>> \in consented
  BY <1>1, <1>2 DEF ConsentInv, AppUserOf, HoldingPcs, ExchangePcs, RefreshPcs
<1>4. \A x \in refresh : x.id # r
  BY DEF NamesInv
<1>5. \A s \in UsableTokens : s.kind = t.kind => s.name # t.name
  BY <1>2, <1>4 DEF UsableTokens, Usable, Face
<1>6. UsableTokens' = UsableTokens \cup {t}
  <2>1. Usable(refresh)' = Usable(refresh) \cup {new} /\ Usable(access)' = Usable(access)
    BY <1>1 DEF Usable
  <2> QED BY <2>1 DEF UsableTokens
<1> QED BY <1>2, <1>3, <1>5, <1>6, Issues

(* The actions that issue.                                                 *)
LEMMA CreateAccessIssues ==
  ASSUME TypeOK, NamesInv, ConsentInv, NEW r \in Requests, CreateAccess(r) PROVE [Grants!Next]_face
<1>1. pc[r] \in HoldingPcs
  BY DEF CreateAccess, HoldingPcs, ExchangePcs
<1> QED BY <1>1, HolderClient, IssuesAccess DEF CreateAccess, TypeOK

LEMMA RotateAccessIssues ==
  ASSUME TypeOK, NamesInv, ConsentInv, NEW r \in Requests, RotateAccess(r) PROVE [Grants!Next]_face
<1>1. pc[r] \in HoldingPcs
  BY DEF RotateAccess, HoldingPcs, RefreshPcs
<1> QED BY <1>1, HolderClient, IssuesAccess DEF RotateAccess, TypeOK

LEMMA CreateRefreshIssues ==
  ASSUME TypeOK, NamesInv, ConsentInv, NEW r \in Requests, CreateRefresh(r) PROVE [Grants!Next]_face
<1>1. pc[r] \in HoldingPcs
  BY DEF CreateRefresh, HoldingPcs, ExchangePcs
<1> QED BY <1>1, HolderClient, IssuesRefresh DEF CreateRefresh, TypeOK

LEMMA RotateRefreshIssues ==
  ASSUME TypeOK, NamesInv, ConsentInv, NEW r \in Requests, RotateRefresh(r) PROVE [Grants!Next]_face
<1>1. pc[r] \in HoldingPcs
  BY DEF RotateRefresh, HoldingPcs, RefreshPcs
<1> QED BY <1>1, HolderClient, IssuesRefresh DEF RotateRefresh, TypeOK

LEMMA ExpireAccessShrinks ==
  ASSUME TypeOK, NEW row \in Usable(access), ExpireAccess(row) PROVE [Grants!Next]_face
<1>1. row \in AccessRow /\ Aged(row).expired
  BY DEF TypeOK, Usable, Aged, AccessRow
<1> QED BY <1>1, Shrink DEF ExpireAccess, Usable

LEMMA ExpireRefreshShrinks ==
  ASSUME TypeOK, NEW row \in Usable(refresh), ExpireRefresh(row) PROVE [Grants!Next]_face
<1>1. row \in RefreshRow /\ Aged(row).expired
  BY DEF TypeOK, Usable, Aged, RefreshRow
<1> QED BY <1>1, Shrink DEF ExpireRefresh, Usable

(* One case per action.                                                    *)
LEMMA GrantsStep == TypeOK /\ NamesInv /\ ConsentInv /\ [Next]_vars => [Grants!Next]_face
<1> SUFFICES ASSUME TypeOK, NamesInv, ConsentInv, [Next]_vars PROVE [Grants!Next]_face
  OBVIOUS
<1> USE Shrink
    DEF Become, Goto, Finish, Hold, NoteRace, Admits, Enter, BeginToken, BeginAdmin, Usable
<1>1. ASSUME NEW r \in Requests, AuthorizeStep(r) PROVE [Grants!Next]_face
  <2>1. ASSUME NEW c \in Clients, NEW u \in Users, BeginConsent(r, c, u) PROVE [Grants!Next]_face
    BY <2>1, Consents
  <2>2. ASSUME NEW c \in Clients, NEW u \in Users, BeginSilent(r, c, u) PROVE [Grants!Next]_face
    BY <2>2 DEF BeginSilent, ClientActive
  <2>3. ASSUME CheckAppUser(r) PROVE [Grants!Next]_face
    BY <2>3 DEF CheckAppUser
  <2>4. ASSUME NEW o \in BOOLEAN, InsertCode(r, o) PROVE [Grants!Next]_face
    BY <2>4 DEF InsertCode, NewCode
  <2> QED BY <1>1, <2>1, <2>2, <2>3, <2>4 DEF AuthorizeStep
<1>2. ASSUME NEW r \in Requests, ExchangeStep(r) PROVE [Grants!Next]_face
  <2>1. ASSUME NEW c \in Clients, BeginExchange(r, c) PROVE [Grants!Next]_face
    BY <2>1 DEF BeginExchange, ClientActive
  <2>2. ASSUME FindUnusedCode(r) PROVE [Grants!Next]_face
    BY <2>2 DEF FindUnusedCode
  <2>3. ASSUME MissUnusedCode(r) PROVE [Grants!Next]_face
    BY <2>3 DEF MissUnusedCode
  <2>4. ASSUME FindReusedCode(r) PROVE [Grants!Next]_face
    BY <2>4 DEF FindReusedCode
  <2>5. ASSUME DeleteReusedAccess(r) PROVE [Grants!Next]_face
    BY <2>5 DEF DeleteReusedAccess
  <2>6. ASSUME RecheckExchange(r) PROVE [Grants!Next]_face
    BY <2>6 DEF RecheckExchange
  <2>7. ASSUME CreateAccess(r) PROVE [Grants!Next]_face
    BY <2>7, CreateAccessIssues
  <2>8. ASSUME MarkUsed(r) PROVE [Grants!Next]_face
    BY <2>8 DEF MarkUsed
  <2>9. ASSUME FindAppUser(r) PROVE [Grants!Next]_face
    BY <2>9 DEF FindAppUser, AfterRecord
  <2>10. ASSUME RecordAppUser(r) PROVE [Grants!Next]_face
    BY <2>10 DEF RecordAppUser, AfterRecord, AppUserOf
  <2>11. ASSUME CreateRefresh(r) PROVE [Grants!Next]_face
    BY <2>11, CreateRefreshIssues
  <2> QED BY <1>2, <2>1, <2>2, <2>3, <2>4, <2>5, <2>6, <2>7, <2>8, <2>9, <2>10, <2>11 DEF ExchangeStep
<1>3. ASSUME NEW r \in Requests, RefreshStep(r) PROVE [Grants!Next]_face
  <2>1. ASSUME NEW c \in Clients, BeginRefresh(r, c) PROVE [Grants!Next]_face
    BY <2>1 DEF BeginRefresh, ClientActive
  <2>2. ASSUME FindRefresh(r) PROVE [Grants!Next]_face
    BY <2>2 DEF FindRefresh, Usable
  <2>3. ASSUME RecheckRefresh(r) PROVE [Grants!Next]_face
    BY <2>3 DEF RecheckRefresh
  <2>4. ASSUME DeleteLinkedAccess(r) PROVE [Grants!Next]_face
    BY <2>4 DEF DeleteLinkedAccess
  <2>5. ASSUME RotateAccess(r) PROVE [Grants!Next]_face
    BY <2>5, RotateAccessIssues
  <2>6. ASSUME DeleteOldRefresh(r) PROVE [Grants!Next]_face
    BY <2>6 DEF DeleteOldRefresh
  <2>7. ASSUME RotateRefresh(r) PROVE [Grants!Next]_face
    BY <2>7, RotateRefreshIssues
  <2> QED BY <1>3, <2>1, <2>2, <2>3, <2>4, <2>5, <2>6, <2>7 DEF RefreshStep
<1>4. ASSUME NEW r \in Requests, RevokeStep(r) PROVE [Grants!Next]_face
  <2>1. ASSUME NEW c \in Clients, BeginRevoke(r, c) PROVE [Grants!Next]_face
    BY <2>1 DEF BeginRevoke, ClientActive
  <2>2. ASSUME ResolveToken(r) PROVE [Grants!Next]_face
    BY <2>2 DEF ResolveToken
  <2>3. ASSUME RevokeAccess(r) PROVE [Grants!Next]_face
    BY <2>3 DEF RevokeAccess, IsAccess
  <2>4. ASSUME RevokeRefresh(r) PROVE [Grants!Next]_face
    BY <2>4 DEF RevokeRefresh, IsAccess
  <2>5. ASSUME AnswerRevoke(r) PROVE [Grants!Next]_face
    BY <2>5 DEF AnswerRevoke
  <2> QED BY <1>4, <2>1, <2>2, <2>3, <2>4, <2>5 DEF RevokeStep
<1>5. ASSUME NEW r \in Requests, AdminStep(r) PROVE [Grants!Next]_face
  <2>1. ASSUME NEW c \in Clients, BeginDeleteClient(r, c) PROVE [Grants!Next]_face
    BY <2>1 DEF BeginDeleteClient
  <2>2. ASSUME NEW c \in Clients, BeginRegenerate(r, c) PROVE [Grants!Next]_face
    BY <2>2 DEF BeginRegenerate
  <2>3. ASSUME NEW c \in Clients, BeginRevokeClient(r, c) PROVE [Grants!Next]_face
    BY <2>3 DEF BeginRevokeClient
  <2>4. ASSUME DeleteClientCodes(r) PROVE [Grants!Next]_face
    BY <2>4 DEF DeleteClientCodes, OfOther
  <2>5. ASSUME DeleteClientAccess(r) PROVE [Grants!Next]_face
    BY <2>5 DEF DeleteClientAccess, OfOther
  <2>6. ASSUME DeleteClientRow(r) PROVE [Grants!Next]_face
    BY <2>6 DEF DeleteClientRow
  <2>7. ASSUME UpdateSecret(r) PROVE [Grants!Next]_face
    BY <2>7 DEF UpdateSecret
  <2>8. ASSUME DropAccessAfterSecret(r) PROVE [Grants!Next]_face
    BY <2>8 DEF DropAccessAfterSecret, OfOther
  <2>9. ASSUME RevokeClientAccess(r) PROVE [Grants!Next]_face
    BY <2>9 DEF RevokeClientAccess, OfOther
  <2>10. ASSUME RevokeClientRefresh(r) PROVE [Grants!Next]_face
    BY <2>10 DEF RevokeClientRefresh, OfOther
  <2> QED BY <1>5, <2>1, <2>2, <2>3, <2>4, <2>5, <2>6, <2>7, <2>8, <2>9, <2>10 DEF AdminStep
<1>6. ASSUME NEW r \in Requests, Abort(r) PROVE [Grants!Next]_face
  BY <1>6 DEF Abort
<1>7. ASSUME NEW c \in Clients, NEW status \in {"active", "disabled"}, SetActive(c, status) PROVE [Grants!Next]_face
  BY <1>7 DEF SetActive
<1>8. ASSUME NEW a \in Apps, NEW u \in Users, RevokeUserApp(a, u) PROVE [Grants!Next]_face
  BY <1>8 DEF RevokeUserApp
<1>9. ASSUME NEW row \in Usable(codes), ExpireCode(row) PROVE [Grants!Next]_face
  BY <1>9 DEF ExpireCode, Aged, Usable
<1>10. ASSUME NEW row \in Usable(access), ExpireAccess(row) PROVE [Grants!Next]_face
  BY <1>10, ExpireAccessShrinks
<1>11. ASSUME NEW row \in Usable(refresh), ExpireRefresh(row) PROVE [Grants!Next]_face
  BY <1>11, ExpireRefreshShrinks
<1>12. CASE UNCHANGED vars
  BY <1>12 DEF vars
<1> QED BY <1>1, <1>2, <1>3, <1>4, <1>5, <1>6, <1>7, <1>8, <1>9, <1>10, <1>11, <1>12
       DEF Next, RequestStep, Expiry

LEMMA GrantsInit == Init => Grants!Init
  BY DEF Init, Grants!Init, UsableTokens, Usable

(* The authorization server implements the abstract one: a user's consent  *)
(* comes before the tokens, and no two usable tokens share a name.         *)
THEOREM Refinement == Spec => ImplementsGrants
<1>1. IInv => TypeOK /\ NamesInv /\ ConsentInv
  BY DEF IInv
<1>2. IInv /\ [Next]_vars => [Grants!Next]_<<consented, UsableTokens>>
  BY <1>1, GrantsStep DEF face
<1> QED BY <1>2, GrantsInit, Invariance, PTL DEF Spec, ImplementsGrants, Grants!Spec
=============================================================================
