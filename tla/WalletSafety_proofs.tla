------------------------ MODULE WalletSafety_proofs ------------------------
(***************************************************************************)
(* The safety of wallets and gift cards, by the inductive invariant        *)
(* WalletInv: one lemma for each part of it, one case for each shape of    *)
(* step.                                                                   *)
(***************************************************************************)
EXTENDS Wallet_proofs

USE DEF tables

(* The shapes of a step.                                                   *)

Begins(r, q) ==
  \/ \E next \in {"commit", "insert"} : Missed(r, q, next)
  \/ Misread(r, q)
  \/ \E w \in Rows : Picked(r, q, w)

(* A commit that books an amount: v is the new row.                        *)
Pays(r, v) ==
  LET q == req[r]
      n == q.balance + q.amount
      w == Target(r)
  IN /\ CommitSave(r) \/ CommitRedeem(r) \/ CommitAdjust(r)
     /\ pc[r] = "commit" /\ q.op \in {"save", "redeem", "update"}
     /\ pc' = [pc EXCEPT ![r] = "done"] /\ overflowed' = Passed(w, n)
     /\ wallets'[w] = v /\ booked'[w] = booked[w] + q.amount
     /\ \A u \in Rows \ {w} : wallets'[u] = wallets[u] /\ booked'[u] = booked[u]
     /\ UNCHANGED <<raced, contested, req, ordered>>
     /\ \/ v = wallets[w] /\ ~Live(w) /\ q.row # NoRow
        \/ /\ v.status = "live" /\ v.owner = q.owner
           /\ v.balance = Wrap(n) /\ (n \in Int64 => Wrap(n) = n)
           /\ q.op = "save" \/ q.row = NoRow \/ Live(w)
           /\ v.frozen = q.frozen \/ (q.row # NoRow /\ v.frozen = wallets[w].frozen)

Still == UNCHANGED <<wallets, booked, pc, req, ordered, raced, contested, overflowed>>

LEMMA SavePays ==
  ASSUME TypeOK, NEW r \in Requests, CommitSave(r)
  PROVE  \E v \in WalletType : Pays(r, v)
<1> DEFINE n == req[r].balance + req[r].amount
           v == Row(req[r].owner, Wrap(n), req[r].frozen)
<1>1. /\ pc[r] = "commit" /\ req[r].op = "save"
      /\ n \in Int /\ Wrap(n) \in Int64 /\ (n \in Int64 => Wrap(n) = n)
      /\ Write(Target(r), v, req[r].amount)
      /\ overflowed' = Passed(Target(r), n)
      /\ pc' = [pc EXCEPT ![r] = "done"]
      /\ UNCHANGED <<raced, contested, cards, expired, req, paid, ordered>>
  BY SaveIs
<1>2. /\ v \in WalletType /\ v.status = "live" /\ v.owner = req[r].owner
      /\ v.balance = Wrap(n) /\ v.frozen = req[r].frozen
  BY <1>1, RequestTypes, RowFields
<1>3. /\ Target(r) \in Rows /\ req[r].amount \in Int
      /\ v.owner = wallets[Target(r)].owner \/ wallets[Target(r)].status = "absent"
  BY <1>1, <1>2, TargetIs, RequestTypes
<1> HIDE DEF v
<1>4. /\ wallets'[Target(r)] = v /\ booked'[Target(r)] = booked[Target(r)] + req[r].amount
      /\ \A u \in Rows \ {Target(r)} : wallets'[u] = wallets[u] /\ booked'[u] = booked[u]
  BY <1>1, <1>2, <1>3, WriteType
<1> HIDE DEF n
<1>5. Pays(r, v)
  BY <1>1, <1>2, <1>4 DEF Pays, n
<1> QED
  BY <1>2, <1>5

LEMMA UpdatePays ==
  ASSUME TypeOK, NEW r \in Requests, CommitRedeem(r) \/ CommitAdjust(r)
  PROVE  \E v \in WalletType : Pays(r, v)
<1> DEFINE n == req[r].balance + req[r].amount
           v == NewRow(r)
           w == Target(r)
<1>1. /\ pc[r] = "commit" /\ req[r].op \in {"redeem", "update"}
      /\ Write(w, v, req[r].amount) /\ overflowed' = Passed(w, n)
      /\ pc' = [pc EXCEPT ![r] = "done"]
      /\ UNCHANGED <<raced, contested, req, ordered>>
  BY RedeemIs, AdjustIs
<1>2. /\ n \in Int /\ Wrap(n) \in Int64 /\ (n \in Int64 => Wrap(n) = n)
      /\ v \in WalletType
      /\ v.status = IF req[r].row = NoRow THEN "live" ELSE wallets[req[r].row].status
      /\ v.owner = req[r].owner
      /\ v.frozen = IF req[r].row = NoRow THEN FALSE ELSE wallets[req[r].row].frozen
      /\ v.balance = IF req[r].row = NoRow \/ Live(req[r].row) THEN Wrap(n)
                     ELSE wallets[req[r].row].balance
      /\ req[r].row # NoRow /\ ~Live(req[r].row) => v = wallets[req[r].row]
  BY <1>1, NewRowFields
<1>3. /\ w \in Rows /\ req[r].amount \in Int
      /\ req[r].row # NoRow => w = req[r].row /\ wallets[w].status # "absent"
                              /\ wallets[w].owner = req[r].owner
      /\ req[r].row = NoRow => wallets[w].status = "absent" /\ req[r].frozen = FALSE
  BY <1>1, TargetIs, RequestTypes
<1> HIDE DEF v, w
<1>4. /\ wallets'[w] = v /\ booked'[w] = booked[w] + req[r].amount
      /\ \A u \in Rows \ {w} : wallets'[u] = wallets[u] /\ booked'[u] = booked[u]
  <2>1. v.status # "absent" \/ v = wallets[w]
    BY <1>2, <1>3
  <2>2. v.owner = wallets[w].owner \/ wallets[w].status = "absent"
    BY <1>2, <1>3
  <2> QED
    BY <1>1, <1>2, <1>3, <2>1, <2>2, WriteType
<1> HIDE DEF n
<1>5. \/ v = wallets[w] /\ ~Live(w) /\ req[r].row # NoRow
      \/ /\ v.status = "live" /\ v.owner = req[r].owner
         /\ v.balance = Wrap(n) /\ (n \in Int64 => Wrap(n) = n)
         /\ req[r].op = "save" \/ req[r].row = NoRow \/ Live(w)
         /\ v.frozen = req[r].frozen \/ (req[r].row # NoRow /\ v.frozen = wallets[w].frozen)
  BY <1>2, <1>3 DEF Live
<1>6. Pays(r, v)
  BY <1>1, <1>4, <1>5 DEF Pays, n, w
<1> QED
  BY <1>2, <1>6

LEMMA StepCases ==
  ASSUME TypeOK, [Next]_vars
  PROVE  \/ \E r \in Requests, q \in RequestType, w \in Rows : Held(r, q, w)
         \/ \E r \in Requests, q \in RequestType : Begins(r, q)
         \/ \E r \in Requests, v \in WalletType : Pays(r, v)
         \/ \E r \in Requests : Inserts(r)
         \/ \E r \in Requests : BookInitial(r) \/ Abort(r)
         \/ \E r \in Requests : CommitDelete(r)
         \/ \E w \in Rows, frozen \in BOOLEAN : SetFreeze(w, frozen)
         \/ \E c \in Cards : InvalidateByID(c) \/ ExpireCard(c)
         \/ UNCHANGED vars
<1>1. ASSUME NEW r \in Requests, Begin(r)
      PROVE  \/ \E q \in RequestType, w \in Rows : Held(r, q, w)
             \/ \E q \in RequestType : Begins(r, q)
  BY <1>1, BeginCases DEF Begins
<1>2. ASSUME NEW r \in Requests, CommitSave(r) \/ CommitRedeem(r) \/ CommitAdjust(r)
      PROVE  \E v \in WalletType : Pays(r, v)
  BY <1>2, SavePays, UpdatePays
<1>3. ASSUME NEW r \in Requests, Step(r)
      PROVE  \/ Begin(r) \/ Inserts(r) \/ BookInitial(r) \/ Abort(r) \/ CommitDelete(r)
             \/ CommitSave(r) \/ CommitRedeem(r) \/ CommitAdjust(r)
  BY <1>3 DEF Step, Begin, Inserts
<1> QED
  BY <1>1, <1>2, <1>3 DEF Next

(* What each shape changes.                                                *)

LEMMA HeldIs ==
  ASSUME TypeOK, NEW r \in Requests, NEW q \in RequestType, NEW w \in Rows, Held(r, q, w)
  PROVE  /\ UNCHANGED <<wallets, booked, cards, paid, ordered, overflowed, contested>>
         /\ \A s \in Requests \ {r} : pc'[s] = pc[s] /\ req'[s] = req[s]
         /\ pc[r] \in {"idle", "read"} /\ req[r].op \in {"get", "update"}
         /\ pc'[r] = "commit" /\ req'[r].row = w /\ w # NoRow
         /\ req'[r].balance = wallets[w].balance /\ req'[r].frozen = wallets[w].frozen
         /\ req'[r].op = q.op /\ req'[r].amount = q.amount /\ req'[r].card = q.card
         /\ Live(w) /\ Fitting(q) /\ Checked(q, w)
         /\ raced' = IF Holders(w) = {} THEN raced ELSE raced \cup {w}
<1>1. /\ UNCHANGED <<wallets, booked, cards, paid, ordered, overflowed, contested>>
      /\ pc' = [pc EXCEPT ![r] = "commit"]
      /\ req' = [req EXCEPT ![r] = [q EXCEPT !.row = w, !.balance = wallets[w].balance,
                                             !.frozen = wallets[w].frozen]]
      /\ Live(w) /\ Fitting(q) /\ Checked(q, w) /\ pc[r] \in {"idle", "read"}
      /\ raced' = IF Holders(w) = {} THEN raced ELSE raced \cup {w}
  BY DEF Held, Hold
<1>2. req[r].op \in {"get", "update"}
  BY <1>1, RequestTypes DEF Formed
<1>3. /\ \A s \in Requests \ {r} : pc'[s] = pc[s] /\ req'[s] = req[s]
      /\ pc'[r] = "commit"
      /\ req'[r] = [q EXCEPT !.row = w, !.balance = wallets[w].balance,
                             !.frozen = wallets[w].frozen]
  BY <1>1 DEF TypeOK
<1>4. /\ req'[r].row = w /\ w # NoRow
      /\ req'[r].balance = wallets[w].balance /\ req'[r].frozen = wallets[w].frozen
      /\ req'[r].op = q.op /\ req'[r].amount = q.amount /\ req'[r].card = q.card
  BY <1>3, RowsAre DEF RequestType
<1> QED
  BY <1>1, <1>2, <1>3, <1>4

LEMMA BeginsAre ==
  ASSUME TypeOK, NEW r \in Requests, NEW q \in RequestType, Begins(r, q)
  PROVE  /\ UNCHANGED <<wallets, booked, cards, paid, ordered, overflowed, raced>>
         /\ \A s \in Requests \ {r} : pc'[s] = pc[s] /\ req'[s] = req[s]
         /\ pc[r] = "idle" /\ req[r].op = "get" /\ wallets[r].status = "absent"
         /\ req'[r] = q /\ Fitting(q) /\ q.owner \in Owners
         /\ pc'[r] = "read" => q.op = "update" /\ q.row # NoRow
         /\ pc'[r] # "read" => q.row = NoRow
         /\ pc'[r] = "commit" => q.op \in {"save", "redeem", "get", "create"}
                                /\ (q.op \in {"save", "redeem"} => q.amount > 0)
         /\ contested \subseteq contested'
         /\ pc'[r] # "read" =>
              q.owner \in contested' \/ (Missing(q.owner) = {} /\ Found(q.owner) = {})
<1>1. /\ UNCHANGED <<wallets, booked, cards, paid, ordered, overflowed, raced>>
      /\ req' = [req EXCEPT ![r] = q] /\ pc[r] = "idle" /\ Fitting(q)
      /\ contested \subseteq contested'
  BY DEF Begins, Missed, Miss, Misread, Picked
<1>2. pc \in [Requests -> {"idle", "commit", "insert", "read", "book", "done", "failed"}]
      /\ q.owner \in Owners
  BY DEF TypeOK, RequestType
<1>3. req[r].op = "get" /\ wallets[r].status = "absent"
  BY <1>1, RequestTypes DEF Formed
<1>4. /\ \A s \in Requests \ {r} : pc'[s] = pc[s] /\ req'[s] = req[s]
      /\ req'[r] = q
  <2>1. pc' = [pc EXCEPT ![r] = "commit"] \/ pc' = [pc EXCEPT ![r] = "insert"]
        \/ pc' = [pc EXCEPT ![r] = "read"]
    BY DEF Begins, Missed, Miss, Misread, Picked
  <2>2. req \in [Requests -> RequestType]
    BY DEF TypeOK
  <2> QED
    BY <1>1, <1>2, <2>1, <2>2
<1>5. /\ pc'[r] = "read" => q.op = "update" /\ q.row # NoRow
      /\ pc'[r] # "read" => q.row = NoRow
      /\ pc'[r] = "commit" => q.op \in {"save", "redeem", "get", "create"}
                             /\ (q.op \in {"save", "redeem"} => q.amount > 0)
      /\ pc'[r] # "read" =>
              q.owner \in contested' \/ (Missing(q.owner) = {} /\ Found(q.owner) = {})
  <2>1. CASE \E next \in {"commit", "insert"} : Missed(r, q, next)
    <3>1. PICK next \in {"commit", "insert"} : Missed(r, q, next)
      BY <2>1
    <3>2. pc'[r] = next /\ next # "read"
      BY <1>2, <3>1 DEF Missed, Miss
    <3>3. q.owner \in contested' \/ (Missing(q.owner) = {} /\ Found(q.owner) = {})
      BY <3>1 DEF Missed, Miss
    <3> QED
      BY <3>1, <3>2, <3>3 DEF Missed
  <2>2. CASE Misread(r, q)
    BY <1>2, <2>2 DEF Misread
  <2>3. CASE \E w \in Rows : Picked(r, q, w)
    BY <1>2, <2>3, RowsAre DEF Picked
  <2> QED
    BY <2>1, <2>2, <2>3 DEF Begins
<1> QED
  BY <1>1, <1>2, <1>3, <1>4, <1>5

LEMMA PaysAre ==
  ASSUME TypeOK, NEW r \in Requests, NEW v \in WalletType, Pays(r, v)
  PROVE  /\ Target(r) \in Rows /\ pc'[r] = "done" /\ req[r].op # "create"
         /\ \A s \in Requests \ {r} : pc'[s] = pc[s] /\ req'[s] = req[s]
         /\ overflowed \subseteq overflowed'
         /\ Target(r) \notin overflowed' => req[r].balance + req[r].amount \in Int64
         /\ wallets'[Target(r)].status # "absent"
         /\ wallets'[Target(r)].owner = req[r].owner
         /\ Live(Target(r)) => wallets[Target(r)].owner = req[r].owner
<1>1. /\ Target(r) \in Rows /\ pc[r] = "commit"
      /\ req[r].row # NoRow => wallets[Target(r)].status # "absent"
                              /\ wallets[Target(r)].owner = req[r].owner
      /\ req[r].row = NoRow => wallets[Target(r)].status = "absent"
  BY TargetIs DEF Pays
<1>2. /\ pc' = [pc EXCEPT ![r] = "done"] /\ req' = req /\ req[r].op # "create"
      /\ overflowed' = Passed(Target(r), req[r].balance + req[r].amount)
  BY DEF Pays
<1>3. pc'[r] = "done" /\ \A s \in Requests \ {r} : pc'[s] = pc[s] /\ req'[s] = req[s]
  BY <1>2 DEF TypeOK
<1>4. wallets'[Target(r)].status # "absent" /\ wallets'[Target(r)].owner = req[r].owner
  BY <1>1 DEF Pays
<1> QED
  BY <1>1, <1>2, <1>3, <1>4, PassedType DEF Live

LEMMA InsertsAre ==
  ASSUME TypeOK, NEW r \in Requests, Inserts(r)
  PROVE  /\ pc[r] \in {"commit", "insert"} /\ req[r].row = NoRow /\ r \in Rows
         /\ wallets[r].status = "absent" /\ Opening(r) \in Int /\ Opening(r) \in Int64
         /\ pc'[r] \notin {"idle", "commit", "insert", "failed"}
         /\ \A s \in Requests \ {r} : pc'[s] = pc[s] /\ req'[s] = req[s]
         /\ req'[r].op = req[r].op /\ req'[r].amount = req[r].amount
         /\ req[r].op = "create" => (pc'[r] = "book" <=> req[r].amount > 0)
         /\ wallets'[r].status = "live" /\ wallets'[r].owner = req[r].owner
         /\ wallets'[r].balance = Opening(r) /\ ~wallets'[r].frozen
         /\ booked'[r] = booked[r] + 0
         /\ \A u \in Rows \ {r} : wallets'[u] = wallets[u] /\ booked'[u] = booked[u]
         /\ UNCHANGED <<raced, contested, cards, expired, paid, ordered, overflowed>>
<1> DEFINE v == Row(req[r].owner, Opening(r), FALSE)
<1>1. /\ pc[r] \in {"commit", "insert"} /\ req[r].row = NoRow
      /\ wallets[r].status = "absent" /\ Opening(r) \in Int64 /\ Opening(r) \in Int
      /\ Write(r, v, 0)
      /\ UNCHANGED <<raced, contested, cards, expired, paid, ordered, overflowed>>
      /\ \/ /\ req' = req /\ req[r].op \in {"get", "create"}
            /\ pc' = [pc EXCEPT ![r] = IF Opening(r) > 0 THEN "book" ELSE "done"]
         \/ /\ pc' = [pc EXCEPT ![r] = "read"] /\ req[r].op = "update"
            /\ req' = [req EXCEPT ![r].row = r]
  BY InsertIs
<1>2. /\ v \in WalletType /\ v.status = "live" /\ v.owner = req[r].owner
      /\ v.balance = Opening(r) /\ ~v.frozen /\ r \in Rows /\ 0 \in Int
  <2>1. req[r].owner \in Owners /\ FALSE \in BOOLEAN /\ r \in Rows
    BY RequestTypes
  <2>2. ~v.frozen
    BY DEF Row
  <2>3. /\ v \in WalletType /\ v.status = "live" /\ v.owner = req[r].owner
        /\ v.balance = Opening(r)
    BY <1>1, <2>1, RowFields
  <2> HIDE DEF v
  <2> QED
    BY <2>1, <2>2, <2>3
<1> HIDE DEF v
<1>3. /\ wallets'[r] = v /\ booked'[r] = booked[r] + 0
      /\ \A u \in Rows \ {r} : wallets'[u] = wallets[u] /\ booked'[u] = booked[u]
  BY <1>1, <1>2, WriteType
<1>4. /\ pc'[r] \notin {"idle", "commit", "insert", "failed"}
      /\ \A s \in Requests \ {r} : pc'[s] = pc[s] /\ req'[s] = req[s]
      /\ req'[r].op = req[r].op /\ req'[r].amount = req[r].amount
      /\ req[r].op = "create" => (pc'[r] = "book" <=> req[r].amount > 0)
  <2>1. /\ pc \in [Requests -> {"idle", "commit", "insert", "read", "book", "done", "failed"}]
        /\ req \in [Requests -> RequestType] /\ req[r] \in RequestType
    BY RequestTypes DEF TypeOK
  <2>2. CASE /\ req' = req /\ req[r].op \in {"get", "create"}
             /\ pc' = [pc EXCEPT ![r] = IF Opening(r) > 0 THEN "book" ELSE "done"]
    BY <2>1, <2>2 DEF Opening
  <2>3. CASE /\ pc' = [pc EXCEPT ![r] = "read"] /\ req[r].op = "update"
             /\ req' = [req EXCEPT ![r].row = r]
    BY <2>1, <2>3 DEF RequestType
  <2> QED
    BY <1>1, <2>2, <2>3
<1> QED
  BY <1>1, <1>2, <1>3, <1>4

LEMMA DeleteIs ==
  ASSUME TypeOK, NEW r \in Requests, CommitDelete(r)
  PROVE  LET w == req[r].row IN
         /\ pc[r] = "commit" /\ req[r].op = "delete" /\ w \in Rows /\ w # NoRow
         /\ pc'[r] = "done" /\ wallets[w].status # "absent" /\ Target(r) = w
         /\ \A s \in Requests \ {r} : pc'[s] = pc[s]
         /\ wallets'[w].status = "deleted" /\ wallets'[w].balance = wallets[w].balance
         /\ ordered'[w] = "deleted"
         /\ \A u \in Rows \ {w} : /\ wallets'[u] = wallets[u] /\ booked'[u] = booked[u]
                                  /\ ordered'[u] = ordered[u]
         /\ UNCHANGED <<cards, req, paid, overflowed, raced, contested>>
<1>1. pc[r] = "commit" /\ req[r].op = "delete" /\ req[r].row # NoRow
  BY RequestTypes DEF CommitDelete, Formed
<1>2. /\ Target(r) = req[r].row /\ req[r].row \in Rows
      /\ wallets[req[r].row].status # "absent"
  BY <1>1, TargetIs
<1> DEFINE w == req[r].row
<1>3. /\ wallets' = [wallets EXCEPT ![w].status = "deleted"]
      /\ booked' = [booked EXCEPT ![w] = 0]
      /\ ordered' = [ordered EXCEPT ![w] = "deleted"]
      /\ pc' = [pc EXCEPT ![r] = "done"]
      /\ UNCHANGED <<cards, expired, req, paid, overflowed, raced, contested>>
  BY DEF CommitDelete, Finish
<1>4. w \in Rows
  BY <1>2
<1> HIDE DEF w
<1>5. /\ wallets'[w].status = "deleted" /\ wallets'[w].balance = wallets[w].balance
      /\ ordered'[w] = "deleted" /\ pc'[r] = "done"
      /\ \A s \in Requests \ {r} : pc'[s] = pc[s]
      /\ \A u \in Rows \ {w} : /\ wallets'[u] = wallets[u] /\ booked'[u] = booked[u]
                               /\ ordered'[u] = ordered[u]
  BY <1>3, <1>4 DEF TypeOK, WalletType
<1> QED
  BY <1>1, <1>2, <1>3, <1>5 DEF w

(* BookInitial and Abort.                                                  *)
LEMMA EndIs ==
  ASSUME TypeOK, NEW r \in Requests, BookInitial(r) \/ Abort(r)
  PROVE  /\ UNCHANGED <<wallets, cards, paid, ordered, overflowed, raced, contested, req>>
         /\ \A s \in Requests \ {r} : pc'[s] = pc[s]
         /\ \/ /\ pc[r] = "book" /\ pc'[r] = "done" /\ req[r].op = "create"
               /\ req[r].amount > 0 /\ wallets[r].status # "absent"
               /\ booked'[r] = booked[r] + req[r].amount
               /\ \A u \in Rows \ {r} : booked'[u] = booked[u]
            \/ /\ pc[r] \in {"commit", "insert", "read", "book"} /\ pc'[r] = "failed"
               /\ booked' = booked
<1>1. /\ pc \in [Requests -> {"idle", "commit", "insert", "read", "book", "done", "failed"}]
      /\ booked \in [Rows -> Int] /\ r \in Rows /\ Formed(r)
  BY RequestTypes DEF TypeOK
<1>2. CASE BookInitial(r)
  <2>1. /\ UNCHANGED <<wallets, cards, paid, ordered, overflowed, raced, contested, req>>
        /\ pc[r] = "book" /\ pc' = [pc EXCEPT ![r] = "done"]
        /\ booked' = [booked EXCEPT ![r] = @ + req[r].amount]
    BY <1>2 DEF BookInitial, Finish
  <2>2. req[r].op = "create" /\ req[r].amount > 0 /\ wallets[r].status # "absent"
    BY <1>1, <2>1 DEF Formed
  <2> QED
    BY <1>1, <2>1, <2>2
<1>3. CASE Abort(r)
  BY <1>1, <1>3 DEF Abort, Finish
<1> QED
  BY <1>2, <1>3

LEMMA FreezeIs ==
  ASSUME TypeOK, NEW w \in Rows, NEW frozen \in BOOLEAN, SetFreeze(w, frozen)
  PROVE  /\ Live(w) /\ wallets'[w].frozen = frozen
         /\ wallets'[w].status = wallets[w].status /\ wallets'[w].owner = wallets[w].owner
         /\ wallets'[w].balance = wallets[w].balance
         /\ ordered'[w] = IF frozen THEN "frozen" ELSE "open"
         /\ \A u \in Rows \ {w} : wallets'[u] = wallets[u] /\ ordered'[u] = ordered[u]
         /\ raced' = IF Holders(w) = {} THEN raced ELSE raced \cup {w}
         /\ UNCHANGED <<booked, cards, pc, req, paid, contested, overflowed>>
  BY DEF SetFreeze, TypeOK, WalletType

LEMMA StillIs ==
  ASSUME (\E c \in Cards : InvalidateByID(c) \/ ExpireCard(c)) \/ UNCHANGED vars
  PROVE  Still
  BY DEF InvalidateByID, ExpireCard, vars, Still

-----------------------------------------------------------------------------
(* A copy of an un-raced row is that row.                                  *)

LEMMA CopyFacts ==
  ASSUME TypeOK, CopyInv, NEW r \in Requests, NEW w, w = req[r].row,
         pc[r] = "commit", w \notin {NoRow} \cup raced
  PROVE  /\ w \in Rows /\ Live(w) /\ Holders(w) = {r}
         /\ wallets[w].balance = req[r].balance /\ wallets[w].frozen = req[r].frozen
  BY RequestTypes DEF CopyInv

(* Nobody else writes a row that has a true copy.                          *)
LEMMA Apart ==
  ASSUME TypeOK, CopyInv, NEW r \in Requests, NEW s \in Requests \ {r},
         pc[s] = "commit", req[s].row \notin {NoRow} \cup raced,
         pc[r] \in {"commit", "insert"}
  PROVE  Target(r) # req[s].row \/ (pc[r] = "insert" /\ req[r].row # NoRow)
<1>1. Live(req[s].row) /\ Holders(req[s].row) = {s}
  BY CopyFacts
<1>2. CASE req[r].row = NoRow
  <2>1. Target(r) = r /\ wallets[r].status = "absent"
    BY <1>2, TargetIs
  <2> QED
    BY <1>1, <2>1 DEF Live
<1>3. CASE req[r].row # NoRow /\ pc[r] = "commit"
  <2>1. Target(r) = req[r].row /\ r \notin Holders(req[s].row)
    BY <1>1, <1>3, TargetIs
  <2> QED
    BY <1>3, <2>1 DEF Holders
<1> QED
  BY <1>2, <1>3

(* The copies are true after a step that takes no new one.                 *)
LEMMA CopyKept ==
  ASSUME TypeOK, CopyInv, NEW r \in Requests, raced' = raced,
         \A s \in Requests \ {r} : pc'[s] = pc[s] /\ req'[s] = req[s],
         pc'[r] # "commit" \/ req'[r].row = NoRow,
         \A s \in Requests \ {r} :
           pc[s] = "commit" /\ req[s].row \notin {NoRow} \cup raced
             => wallets'[req[s].row] = wallets[req[s].row]
  PROVE  CopyInv'
<1> SUFFICES ASSUME NEW s \in Requests, NEW w \in Rows \ raced', pc'[s] = "commit",
                    req'[s].row = w
             PROVE  /\ Live(w)' /\ Holders(w)' = {s}
                    /\ wallets'[w].balance = req'[s].balance
                    /\ wallets'[w].frozen = req'[s].frozen
  BY DEF CopyInv
<1>1. /\ s # r /\ pc[s] = "commit" /\ req'[s] = req[s] /\ w = req[s].row
      /\ w \notin {NoRow} \cup raced
  BY RowsAre
<1>2. /\ Live(w) /\ Holders(w) = {s} /\ wallets'[w] = wallets[w] /\ w # NoRow
      /\ wallets[w].balance = req[s].balance /\ wallets[w].frozen = req[s].frozen
  BY <1>1, CopyFacts
<1>3. Live(w)'
  BY <1>1, <1>2 DEF Live
<1>4. Holders(w)' = {s}
  BY <1>1, <1>2 DEF Holders
<1> QED
  BY <1>1, <1>2, <1>3, <1>4

LEMMA CopyStep ==
  ASSUME TypeOK, CopyInv, [Next]_vars
  PROVE  CopyInv'
<1>1. ASSUME NEW r \in Requests, NEW q \in RequestType, NEW w \in Rows, Held(r, q, w)
      PROVE  CopyInv'
  <2>1. /\ wallets' = wallets /\ pc[r] \in {"idle", "read"}
        /\ \A s \in Requests \ {r} : pc'[s] = pc[s] /\ req'[s] = req[s]
        /\ pc'[r] = "commit" /\ req'[r].row = w /\ w # NoRow /\ Live(w)
        /\ req'[r].balance = wallets[w].balance /\ req'[r].frozen = wallets[w].frozen
        /\ raced' = IF Holders(w) = {} THEN raced ELSE raced \cup {w}
    BY <1>1, HeldIs
  <2> SUFFICES ASSUME NEW s \in Requests, NEW u \in Rows \ raced', pc'[s] = "commit",
                      req'[s].row = u
               PROVE  /\ Live(u)' /\ Holders(u)' = {s}
                      /\ wallets'[u].balance = req'[s].balance
                      /\ wallets'[u].frozen = req'[s].frozen
    BY DEF CopyInv
  <2>2. CASE s = r
    <3>1. Holders(w) = {}
      BY <2>1, <2>2
    <3>2. Holders(w)' = {r}
      BY <2>1, <3>1 DEF Holders
    <3>3. Live(w)'
      BY <2>1 DEF Live
    <3> QED
      BY <2>1, <2>2, <3>2, <3>3
  <2>3. CASE s # r
    <3>1. pc[s] = "commit" /\ req'[s] = req[s] /\ u = req[s].row /\ u \notin {NoRow} \cup raced
      BY <2>1, <2>3, RowsAre
    <3>2. /\ Live(u) /\ Holders(u) = {s} /\ u # NoRow
          /\ wallets[u].balance = req[s].balance /\ wallets[u].frozen = req[s].frozen
      BY <3>1, CopyFacts
    <3>3. u # w
      <4>1. CASE Holders(w) = {}
        BY <3>2, <4>1
      <4>2. CASE Holders(w) # {}
        BY <2>1, <3>1, <4>2
      <4> QED
        BY <4>1, <4>2
    <3>4. Holders(u)' = {s}
      BY <2>1, <2>3, <3>1, <3>2, <3>3 DEF Holders
    <3>5. Live(u)'
      BY <2>1, <3>2 DEF Live
    <3> QED
      BY <2>1, <3>1, <3>2, <3>4, <3>5
  <2> QED
    BY <2>2, <2>3
<1>2. ASSUME NEW r \in Requests, NEW q \in RequestType, Begins(r, q) PROVE CopyInv'
  <2>1. /\ wallets' = wallets /\ raced' = raced
        /\ \A s \in Requests \ {r} : pc'[s] = pc[s] /\ req'[s] = req[s]
        /\ pc'[r] # "commit" \/ req'[r].row = NoRow
    BY <1>2, BeginsAre
  <2> QED
    BY <2>1, CopyKept
<1>3. ASSUME NEW r \in Requests, NEW v \in WalletType, Pays(r, v) PROVE CopyInv'
  <2>1. /\ raced' = raced /\ pc[r] = "commit" /\ pc'[r] = "done"
        /\ \A s \in Requests \ {r} : pc'[s] = pc[s] /\ req'[s] = req[s]
        /\ \A u \in Rows \ {Target(r)} : wallets'[u] = wallets[u]
    BY <1>3, PaysAre DEF Pays
  <2>2. ASSUME NEW s \in Requests \ {r}, pc[s] = "commit",
               req[s].row \notin {NoRow} \cup raced
        PROVE  wallets'[req[s].row] = wallets[req[s].row]
    BY <2>1, <2>2, Apart, CopyFacts
  <2> QED
    BY <2>1, <2>2, CopyKept
<1>4. ASSUME NEW r \in Requests, Inserts(r) PROVE CopyInv'
  <2>1. /\ raced' = raced /\ pc[r] \in {"commit", "insert"} /\ req[r].row = NoRow
        /\ pc'[r] # "commit" /\ wallets[r].status = "absent"
        /\ \A s \in Requests \ {r} : pc'[s] = pc[s] /\ req'[s] = req[s]
        /\ \A u \in Rows \ {r} : wallets'[u] = wallets[u]
    BY <1>4, InsertsAre
  <2>2. ASSUME NEW s \in Requests \ {r}, pc[s] = "commit",
               req[s].row \notin {NoRow} \cup raced
        PROVE  wallets'[req[s].row] = wallets[req[s].row]
    <3>1. Live(req[s].row) /\ req[s].row \in Rows
      BY <2>2, CopyFacts
    <3> QED
      BY <2>1, <3>1 DEF Live
  <2> QED
    BY <2>1, <2>2, CopyKept
<1>5. ASSUME NEW r \in Requests, BookInitial(r) \/ Abort(r) PROVE CopyInv'
  <2>1. /\ wallets' = wallets /\ raced' = raced /\ req' = req
        /\ \A s \in Requests \ {r} : pc'[s] = pc[s]
        /\ pc'[r] # "commit"
    BY <1>5, EndIs
  <2> QED
    BY <2>1, CopyKept
<1>6. ASSUME NEW r \in Requests, CommitDelete(r) PROVE CopyInv'
  <2>1. /\ raced' = raced /\ req' = req /\ pc[r] = "commit" /\ pc'[r] = "done"
        /\ Target(r) = req[r].row
        /\ \A s \in Requests \ {r} : pc'[s] = pc[s]
        /\ \A u \in Rows \ {Target(r)} : wallets'[u] = wallets[u]
    BY <1>6, DeleteIs
  <2>2. ASSUME NEW s \in Requests \ {r}, pc[s] = "commit",
               req[s].row \notin {NoRow} \cup raced
        PROVE  wallets'[req[s].row] = wallets[req[s].row]
    BY <2>1, <2>2, Apart, CopyFacts
  <2> QED
    BY <2>1, <2>2, CopyKept
<1>7. ASSUME NEW w \in Rows, NEW frozen \in BOOLEAN, SetFreeze(w, frozen) PROVE CopyInv'
  <2>1. /\ pc' = pc /\ req' = req
        /\ \A u \in Rows \ {w} : wallets'[u] = wallets[u]
        /\ raced' = IF Holders(w) = {} THEN raced ELSE raced \cup {w}
    BY <1>7, FreezeIs
  <2> SUFFICES ASSUME NEW s \in Requests, NEW u \in Rows \ raced', pc[s] = "commit",
                      req[s].row = u
               PROVE  /\ Live(u)' /\ Holders(u)' = {s}
                      /\ wallets'[u].balance = req[s].balance
                      /\ wallets'[u].frozen = req[s].frozen
    BY <2>1 DEF CopyInv
  <2>2. /\ Live(u) /\ Holders(u) = {s}
        /\ wallets[u].balance = req[s].balance /\ wallets[u].frozen = req[s].frozen
    BY <2>1, CopyFacts, RowsAre
  <2>3. u # w
    <3>1. CASE Holders(w) = {}
      BY <2>2, <3>1
    <3>2. CASE Holders(w) # {}
      BY <2>1, <3>2
    <3> QED
      BY <3>1, <3>2
  <2>4. wallets'[u] = wallets[u] /\ Holders(u)' = {s}
    BY <2>1, <2>2, <2>3 DEF Holders
  <2> QED
    BY <2>2, <2>4 DEF Live
<1>8. ASSUME Still PROVE CopyInv'
  BY <1>8 DEF Still, CopyInv, Holders, Live
<1> QED
  BY <1>1, <1>2, <1>3, <1>4, <1>5, <1>6, <1>7, <1>8, StepCases, StillIs

-----------------------------------------------------------------------------
(* What was checked of a copy.                                             *)

LEMMA CheckedStep ==
  ASSUME TypeOK, CheckedInv, [Next]_vars
  PROVE  CheckedInv'
<1>1. ASSUME NEW r \in Requests, NEW q \in RequestType, NEW w \in Rows, Held(r, q, w)
      PROVE  CheckedInv'
  <2>1. /\ \A s \in Requests \ {r} : pc'[s] = pc[s] /\ req'[s] = req[s]
        /\ req'[r].balance = wallets[w].balance /\ req'[r].op = q.op
        /\ req'[r].amount = q.amount /\ Checked(q, w)
    BY <1>1, HeldIs
  <2> QED
    BY <2>1 DEF CheckedInv, Checked
<1>2. ASSUME NEW r \in Requests, NEW q \in RequestType, Begins(r, q) PROVE CheckedInv'
  <2>1. /\ \A s \in Requests \ {r} : pc'[s] = pc[s] /\ req'[s] = req[s]
        /\ pc'[r] = "commit" => q.op \in {"save", "redeem", "get", "create"}
                               /\ (q.op \in {"save", "redeem"} => q.amount > 0)
        /\ req'[r] = q
    BY <1>2, BeginsAre
  <2> QED
    BY <2>1 DEF CheckedInv
<1>3. ASSUME NEW r \in Requests, pc'[r] # "commit",
             \A s \in Requests \ {r} : pc'[s] = pc[s] /\ req'[s] = req[s]
      PROVE  CheckedInv'
  BY <1>3 DEF CheckedInv
<1>4. ASSUME NEW r \in Requests, \/ \E v \in WalletType : Pays(r, v)
                                 \/ Inserts(r) \/ BookInitial(r) \/ Abort(r) \/ CommitDelete(r)
      PROVE  CheckedInv'
  <2>1. pc'[r] # "commit" /\ \A s \in Requests \ {r} : pc'[s] = pc[s] /\ req'[s] = req[s]
    BY <1>4, PaysAre, InsertsAre, EndIs, DeleteIs
  <2> QED
    BY <1>3, <2>1
<1>5. ASSUME pc' = pc, req' = req PROVE CheckedInv'
  BY <1>5 DEF CheckedInv
<1>6. ASSUME NEW w \in Rows, NEW frozen \in BOOLEAN, SetFreeze(w, frozen) PROVE CheckedInv'
  BY <1>5, <1>6, FreezeIs
<1>7. ASSUME Still PROVE CheckedInv'
  BY <1>5, <1>7 DEF Still
<1> QED
  BY <1>1, <1>2, <1>4, <1>6, <1>7, StepCases, StillIs

-----------------------------------------------------------------------------
(* Balances below zero.                                                    *)

(* What a request has asked stays while its row is there.                  *)
LEMMA AskedKept ==
  ASSUME TypeOK, [Next]_vars, NEW r \in Requests
  PROVE  \/ req'[r].op = req[r].op /\ req'[r].amount = req[r].amount
         \/ req[r].op \in {"get", "update"} /\ pc[r] \in {"idle", "read"}
            /\ wallets' = wallets
            /\ (wallets[r].status = "absent" \/ req'[r].op # "create")
<1>1. ASSUME NEW s \in Requests, NEW q \in RequestType, NEW w \in Rows, Held(s, q, w)
      PROVE  \/ req'[r] = req[r]
             \/ /\ r = s /\ req[r].op \in {"get", "update"} /\ pc[r] \in {"idle", "read"}
                /\ wallets' = wallets /\ req'[r].op # "create"
  <2>1. /\ wallets' = wallets /\ \A t \in Requests \ {s} : req'[t] = req[t]
        /\ req[s].op \in {"get", "update"} /\ pc[s] \in {"idle", "read"}
        /\ req'[s].op = q.op /\ Checked(q, w)
    BY <1>1, HeldIs
  <2> QED
    BY <2>1 DEF Checked
<1>2. ASSUME NEW s \in Requests, NEW q \in RequestType, Begins(s, q)
      PROVE  \/ req'[r] = req[r]
             \/ /\ r = s /\ req[r].op \in {"get", "update"} /\ pc[r] \in {"idle", "read"}
                /\ wallets' = wallets /\ wallets[r].status = "absent"
  BY <1>2, BeginsAre
<1>3. ASSUME NEW s \in Requests, NEW v \in WalletType, Pays(s, v) PROVE req' = req
  BY <1>3 DEF Pays
<1>4. ASSUME NEW s \in Requests, Inserts(s)
      PROVE  req'[r].op = req[r].op /\ req'[r].amount = req[r].amount
  BY <1>4, InsertsAre
<1>5. ASSUME NEW s \in Requests, BookInitial(s) \/ Abort(s) \/ CommitDelete(s)
      PROVE  req' = req
  BY <1>5, EndIs, DeleteIs
<1>6. ASSUME NEW w \in Rows, NEW frozen \in BOOLEAN, SetFreeze(w, frozen) PROVE req' = req
  BY <1>6, FreezeIs
<1>7. ASSUME Still PROVE req' = req
  BY <1>7 DEF Still
<1> QED
  BY <1>1, <1>2, <1>3, <1>4, <1>5, <1>6, <1>7, StepCases, StillIs

LEMMA NegativeKept ==
  ASSUME TypeOK, [Next]_vars, NEW w \in Rows, Negative(w)
  PROVE  Negative(w)'
  BY AskedKept DEF Negative

(* The balance of a commit.                                                *)
LEMMA PaidNotNegative ==
  ASSUME TypeOK, CheckedInv, CopyNotNegative, NEW r \in Requests, NEW v \in WalletType,
         Pays(r, v), Target(r) \notin overflowed', v # wallets[Target(r)]
  PROVE  v.balance >= 0 \/ Negative(Target(r))
<1> DEFINE q == req[r]
<1>1. /\ pc[r] = "commit" /\ q.op \in {"save", "redeem", "update"}
      /\ v.balance = Wrap(q.balance + q.amount)
      /\ q.balance + q.amount \in Int64 => Wrap(q.balance + q.amount) = q.balance + q.amount
  BY DEF Pays
<1>2. /\ q.balance + q.amount \in Int64 /\ Target(r) \in Rows
      /\ overflowed \subseteq overflowed' /\ q.balance \in Int /\ q.amount \in Int
  BY PaysAre, RequestTypes
<1>3. Target(r) \in Rows \ overflowed
  BY <1>2
<1>4. q.amount > 0 \/ Wrap(q.balance + q.amount) >= 0
  BY <1>1 DEF CheckedInv
<1>5. q.balance >= 0 \/ Negative(Target(r))
  <2>1. CASE q.row = NoRow
    <3>1. Formed(r)
      BY RequestTypes
    <3> QED
      BY <2>1, <3>1 DEF Formed
  <2>2. CASE q.row # NoRow
    <3>1. Target(r) = q.row
      BY <2>2, TargetIs
    <3> QED
      BY <1>1, <1>3, <3>1 DEF CopyNotNegative
  <2> QED
    BY <2>1, <2>2
<1> QED
  BY <1>1, <1>2, <1>4, <1>5

LEMMA NegativeStep ==
  ASSUME TypeOK, CheckedInv, CopyNotNegative, NeverNegative, [Next]_vars
  PROVE  CopyNotNegative' /\ NeverNegative'
<1>1. \A w \in Rows : Negative(w) => Negative(w)'
  BY NegativeKept
<1>2. ASSUME UNCHANGED overflowed, \A w \in Rows : wallets'[w].balance = wallets[w].balance
      PROVE  NeverNegative'
  BY <1>1, <1>2 DEF NeverNegative
<1>3. ASSUME NEW r \in Requests, overflowed \subseteq overflowed', pc'[r] # "commit",
             \A s \in Requests \ {r} : pc'[s] = pc[s] /\ req'[s] = req[s]
      PROVE  CopyNotNegative'
  BY <1>1, <1>3 DEF CopyNotNegative
<1>4. ASSUME NEW r \in Requests, NEW q \in RequestType, NEW w \in Rows, Held(r, q, w)
      PROVE  CopyNotNegative' /\ NeverNegative'
  <2>1. /\ wallets' = wallets /\ overflowed' = overflowed
        /\ \A s \in Requests \ {r} : pc'[s] = pc[s] /\ req'[s] = req[s]
        /\ req'[r].row = w /\ req'[r].balance = wallets[w].balance
    BY <1>4, HeldIs
  <2>2. w \notin overflowed => wallets[w].balance >= 0 \/ Negative(w)
    BY DEF NeverNegative
  <2>3. CopyNotNegative'
    BY <1>1, <2>1, <2>2 DEF CopyNotNegative
  <2> QED
    BY <1>2, <2>1, <2>3
<1>5. ASSUME NEW r \in Requests, NEW q \in RequestType, Begins(r, q)
      PROVE  CopyNotNegative' /\ NeverNegative'
  <2>1. /\ wallets' = wallets /\ overflowed' = overflowed
        /\ \A s \in Requests \ {r} : pc'[s] = pc[s] /\ req'[s] = req[s]
        /\ pc'[r] = "commit" => req'[r].row = NoRow
    BY <1>5, BeginsAre
  <2>2. CopyNotNegative'
    BY <1>1, <2>1, RowsAre DEF CopyNotNegative
  <2> QED
    BY <1>2, <2>1, <2>2
<1>6. ASSUME NEW r \in Requests, NEW v \in WalletType, Pays(r, v)
      PROVE  CopyNotNegative' /\ NeverNegative'
  <2>1. /\ Target(r) \in Rows /\ pc'[r] = "done" /\ overflowed \subseteq overflowed'
        /\ \A s \in Requests \ {r} : pc'[s] = pc[s] /\ req'[s] = req[s]
        /\ wallets'[Target(r)] = v
        /\ \A u \in Rows \ {Target(r)} : wallets'[u] = wallets[u]
    BY <1>6, PaysAre DEF Pays
  <2>2. CopyNotNegative'
    BY <1>3, <2>1
  <2>3. ASSUME NEW u \in Rows \ overflowed'
        PROVE  wallets'[u].balance >= 0 \/ Negative(u)
    <3>1. u \in Rows \ overflowed
      BY <2>1
    <3>2. CASE wallets'[u] = wallets[u]
      BY <3>1, <3>2 DEF NeverNegative
    <3>3. CASE wallets'[u] # wallets[u]
      <4>1. u = Target(r)
        BY <2>1, <3>3
      <4> QED
        BY <1>6, <2>1, <2>3, <3>3, <4>1, PaidNotNegative
    <3> QED
      BY <3>2, <3>3
  <2>4. NeverNegative'
    BY <1>1, <2>3 DEF NeverNegative
  <2> QED
    BY <2>2, <2>4
<1>7. ASSUME NEW r \in Requests, Inserts(r)
      PROVE  CopyNotNegative' /\ NeverNegative'
  <2>1. /\ overflowed' = overflowed /\ pc'[r] # "commit" /\ r \in Rows
        /\ \A s \in Requests \ {r} : pc'[s] = pc[s] /\ req'[s] = req[s]
        /\ req'[r].op = req[r].op /\ req'[r].amount = req[r].amount
        /\ wallets'[r].balance = Opening(r) /\ Opening(r) \in Int
        /\ \A u \in Rows \ {r} : wallets'[u] = wallets[u]
    BY <1>7, InsertsAre
  <2>2. CopyNotNegative'
    BY <1>3, <2>1
  <2>3. wallets'[r].balance >= 0 \/ Negative(r)'
    BY <2>1 DEF Opening, Negative
  <2>4. NeverNegative'
    BY <1>1, <2>1, <2>3 DEF NeverNegative
  <2> QED
    BY <2>2, <2>4
<1>8. ASSUME NEW r \in Requests, BookInitial(r) \/ Abort(r)
      PROVE  CopyNotNegative' /\ NeverNegative'
  <2>1. /\ wallets' = wallets /\ overflowed' = overflowed /\ req' = req
        /\ \A s \in Requests \ {r} : pc'[s] = pc[s]
        /\ pc'[r] # "commit"
    BY <1>8, EndIs
  <2> QED
    BY <1>2, <1>3, <2>1
<1>9. ASSUME NEW r \in Requests, CommitDelete(r)
      PROVE  CopyNotNegative' /\ NeverNegative'
  <2>1. /\ overflowed' = overflowed /\ req' = req /\ pc'[r] # "commit"
        /\ \A s \in Requests \ {r} : pc'[s] = pc[s]
        /\ \A u \in Rows : wallets'[u].balance = wallets[u].balance
    BY <1>9, DeleteIs
  <2> QED
    BY <1>2, <1>3, <2>1
<1>10. ASSUME NEW w \in Rows, NEW frozen \in BOOLEAN, SetFreeze(w, frozen)
       PROVE  CopyNotNegative' /\ NeverNegative'
  <2>1. /\ overflowed' = overflowed /\ pc' = pc /\ req' = req
        /\ \A u \in Rows : wallets'[u].balance = wallets[u].balance
    BY <1>10, FreezeIs
  <2>2. CopyNotNegative'
    BY <1>1, <2>1 DEF CopyNotNegative
  <2> QED
    BY <1>2, <2>1, <2>2
<1>11. ASSUME Still PROVE CopyNotNegative' /\ NeverNegative'
  BY <1>1, <1>11 DEF Still, CopyNotNegative, NeverNegative
<1> QED
  BY <1>4, <1>5, <1>6, <1>7, <1>8, <1>9, <1>10, <1>11, StepCases, StillIs

-----------------------------------------------------------------------------
(* Rows that are not there, or no more.                                    *)

LEMMA AbsentStep ==
  ASSUME TypeOK, AbsentInv, [Next]_vars
  PROVE  AbsentInv'
<1>1. ASSUME NEW w \in Rows, wallets'[w].status # "absent", ordered' = ordered,
             \A u \in Rows \ {w} : wallets'[u] = wallets[u] /\ booked'[u] = booked[u]
      PROVE  AbsentInv'
  BY <1>1 DEF AbsentInv
<1>2. ASSUME UNCHANGED <<wallets, booked, ordered>> PROVE AbsentInv'
  BY <1>2 DEF AbsentInv
<1>3. ASSUME NEW r \in Requests, NEW q \in RequestType, NEW w \in Rows, Held(r, q, w)
      PROVE  AbsentInv'
  BY <1>2, <1>3, HeldIs
<1>4. ASSUME NEW r \in Requests, NEW q \in RequestType, Begins(r, q) PROVE AbsentInv'
  BY <1>2, <1>4, BeginsAre
<1>5. ASSUME NEW r \in Requests, NEW v \in WalletType, Pays(r, v) PROVE AbsentInv'
  <2>1. /\ Target(r) \in Rows /\ wallets'[Target(r)].status # "absent" /\ ordered' = ordered
        /\ \A u \in Rows \ {Target(r)} : wallets'[u] = wallets[u] /\ booked'[u] = booked[u]
    BY <1>5, PaysAre DEF Pays
  <2> QED
    BY <1>1, <2>1
<1>6. ASSUME NEW r \in Requests, Inserts(r) PROVE AbsentInv'
  <2>1. /\ r \in Rows /\ wallets'[r].status # "absent" /\ ordered' = ordered
        /\ \A u \in Rows \ {r} : wallets'[u] = wallets[u] /\ booked'[u] = booked[u]
    BY <1>6, InsertsAre
  <2> QED
    BY <1>1, <2>1
<1>7. ASSUME NEW r \in Requests, BookInitial(r) \/ Abort(r) PROVE AbsentInv'
  <2>1. /\ wallets' = wallets /\ ordered' = ordered /\ r \in Rows
        /\ booked' = booked
           \/ (/\ wallets[r].status # "absent"
               /\ \A u \in Rows \ {r} : booked'[u] = booked[u])
    BY <1>7, EndIs, RowsAre
  <2>2. CASE booked' = booked
    BY <1>2, <2>1, <2>2
  <2>3. CASE /\ wallets[r].status # "absent"
             /\ \A u \in Rows \ {r} : booked'[u] = booked[u]
    BY <1>1, <2>1, <2>3
  <2> QED
    BY <2>1, <2>2, <2>3
<1>8. ASSUME NEW r \in Requests, CommitDelete(r) PROVE AbsentInv'
  <2> DEFINE w == req[r].row
  <2>1. /\ w \in Rows /\ wallets'[w].status = "deleted"
        /\ \A u \in Rows \ {w} : /\ wallets'[u] = wallets[u] /\ booked'[u] = booked[u]
                                 /\ ordered'[u] = ordered[u]
    BY <1>8, DeleteIs
  <2> HIDE DEF w
  <2> QED
    BY <2>1 DEF AbsentInv
<1>9. ASSUME NEW w \in Rows, NEW frozen \in BOOLEAN, SetFreeze(w, frozen) PROVE AbsentInv'
  <2>1. /\ Live(w) /\ wallets'[w].status = wallets[w].status /\ booked' = booked
        /\ \A u \in Rows \ {w} : wallets'[u] = wallets[u] /\ ordered'[u] = ordered[u]
    BY <1>9, FreezeIs
  <2> QED
    BY <2>1 DEF AbsentInv, Live
<1>10. ASSUME Still PROVE AbsentInv'
  BY <1>2, <1>10 DEF Still
<1> QED
  BY <1>3, <1>4, <1>5, <1>6, <1>7, <1>8, <1>9, <1>10, StepCases, StillIs

LEMMA DeletedStep ==
  ASSUME TypeOK, CopyInv, CheckedInv, DeletedIsEmpty, [Next]_vars
  PROVE  DeletedIsEmpty'
<1>1. ASSUME NEW w \in Rows, raced' = raced, wallets'[w].status = "live",
             \A u \in Rows \ {w} : wallets'[u] = wallets[u]
      PROVE  DeletedIsEmpty'
  BY <1>1 DEF DeletedIsEmpty
<1>2. ASSUME raced \subseteq raced',
             \A w \in Rows : /\ wallets'[w].status = wallets[w].status
                             /\ wallets'[w].balance = wallets[w].balance
      PROVE  DeletedIsEmpty'
  BY <1>2 DEF DeletedIsEmpty
<1>3. ASSUME NEW r \in Requests, NEW q \in RequestType, NEW w \in Rows, Held(r, q, w)
      PROVE  DeletedIsEmpty'
  <2>1. wallets' = wallets /\ raced \subseteq raced'
    BY <1>3, HeldIs
  <2> QED
    BY <1>2, <2>1
<1>4. ASSUME NEW r \in Requests, NEW q \in RequestType, Begins(r, q) PROVE DeletedIsEmpty'
  BY <1>2, <1>4, BeginsAre
<1>5. ASSUME NEW r \in Requests, NEW v \in WalletType, Pays(r, v) PROVE DeletedIsEmpty'
  <2>1. /\ Target(r) \in Rows /\ raced' = raced /\ wallets'[Target(r)] = v
        /\ v = wallets[Target(r)] \/ v.status = "live"
        /\ \A u \in Rows \ {Target(r)} : wallets'[u] = wallets[u]
    BY <1>5, PaysAre DEF Pays
  <2>2. CASE v = wallets[Target(r)]
    <3>1. \A u \in Rows : wallets'[u] = wallets[u]
      BY <2>1, <2>2
    <3> QED
      BY <1>2, <2>1, <3>1
  <2>3. CASE v.status = "live"
    BY <1>1, <2>1, <2>3
  <2> QED
    BY <2>1, <2>2, <2>3
<1>6. ASSUME NEW r \in Requests, Inserts(r) PROVE DeletedIsEmpty'
  <2>1. /\ r \in Rows /\ raced' = raced /\ wallets'[r].status = "live"
        /\ \A u \in Rows \ {r} : wallets'[u] = wallets[u]
    BY <1>6, InsertsAre
  <2> QED
    BY <1>1, <2>1
<1>7. ASSUME NEW r \in Requests, BookInitial(r) \/ Abort(r) PROVE DeletedIsEmpty'
  BY <1>2, <1>7, EndIs
<1>8. ASSUME NEW r \in Requests, CommitDelete(r) PROVE DeletedIsEmpty'
  <2> DEFINE w == req[r].row
  <2>1. /\ pc[r] = "commit" /\ req[r].op = "delete" /\ w \in Rows /\ w # NoRow
        /\ wallets'[w].balance = wallets[w].balance /\ raced' = raced
        /\ \A u \in Rows \ {w} : wallets'[u] = wallets[u]
    BY <1>8, DeleteIs
  <2>2. w \notin raced => wallets[w].balance <= 0
    BY <2>1, CopyFacts DEF CheckedInv
  <2> HIDE DEF w
  <2> QED
    BY <2>1, <2>2 DEF DeletedIsEmpty
<1>9. ASSUME NEW w \in Rows, NEW frozen \in BOOLEAN, SetFreeze(w, frozen)
      PROVE  DeletedIsEmpty'
  <2>1. /\ raced \subseteq raced'
        /\ \A u \in Rows : /\ wallets'[u].status = wallets[u].status
                           /\ wallets'[u].balance = wallets[u].balance
    BY <1>9, FreezeIs
  <2> QED
    BY <1>2, <2>1
<1>10. ASSUME Still PROVE DeletedIsEmpty'
  BY <1>2, <1>10 DEF Still
<1> QED
  BY <1>3, <1>4, <1>5, <1>6, <1>7, <1>8, <1>9, <1>10, StepCases, StillIs

-----------------------------------------------------------------------------
(* Frozen and deleted wallets.                                             *)

(* A commit to an un-raced row finds it live with the frozen mark it has   *)
(* read, or inserts it.                                                    *)
LEMMA PaysUnraced ==
  ASSUME TypeOK, CopyInv, NEW r \in Requests, NEW v \in WalletType, Pays(r, v),
         NEW w, w = Target(r), w \notin raced
  PROVE  /\ w \in Rows /\ v.status = "live" /\ v.owner = req[r].owner
         /\ v.balance = Wrap(req[r].balance + req[r].amount)
         /\ \/ /\ req[r].row = NoRow /\ w = r /\ wallets[w].status = "absent"
               /\ req[r].balance = 0 /\ ~v.frozen
            \/ /\ req[r].row = w /\ Live(w) /\ wallets[w].balance = req[r].balance
               /\ v.frozen = wallets[w].frozen
<1>1. /\ pc[r] = "commit"
      /\ \/ v = wallets[w] /\ ~Live(w) /\ req[r].row # NoRow
         \/ /\ v.status = "live" /\ v.owner = req[r].owner
            /\ v.balance = Wrap(req[r].balance + req[r].amount)
            /\ v.frozen = req[r].frozen \/ (req[r].row # NoRow /\ v.frozen = wallets[w].frozen)
  BY DEF Pays
<1>2. w \in Rows
  BY PaysAre
<1>3. CASE req[r].row = NoRow
  <2>1. w = r
    BY <1>3 DEF Target
  <2>2. wallets[r].status = "absent" /\ req[r].balance = 0 /\ ~req[r].frozen
    BY <1>1, <1>3, RequestTypes DEF Formed
  <2> QED
    BY <1>1, <1>2, <1>3, <2>1, <2>2
<1>4. CASE req[r].row # NoRow
  <2>1. w = req[r].row
    BY <1>4 DEF Target
  <2>2. /\ Live(w) /\ wallets[w].balance = req[r].balance
        /\ wallets[w].frozen = req[r].frozen
    BY <1>1, <1>4, <2>1, CopyFacts
  <2> QED
    BY <1>1, <1>2, <2>1, <2>2
<1> QED
  BY <1>3, <1>4

LEMMA OrdersStep ==
  ASSUME TypeOK, AbsentInv, CopyInv, OrdersStand, [Next]_vars
  PROVE  OrdersStand'
<1> DEFINE Stands(w) == IF ordered[w] = "deleted" THEN ~Live(w)
                        ELSE Live(w) => (wallets[w].frozen <=> ordered[w] = "frozen")
<1>1. ASSUME NEW w \in Rows, raced \subseteq raced', w \notin raced' => Stands(w)',
             \A u \in Rows \ {w} : wallets'[u] = wallets[u] /\ ordered'[u] = ordered[u]
      PROVE  OrdersStand'
  BY <1>1 DEF OrdersStand, Live
<1>2. ASSUME raced \subseteq raced', wallets' = wallets, ordered' = ordered
      PROVE  OrdersStand'
  BY <1>2 DEF OrdersStand, Live
<1>3. ASSUME NEW r \in Requests, NEW q \in RequestType, NEW w \in Rows, Held(r, q, w)
      PROVE  OrdersStand'
  <2>1. wallets' = wallets /\ ordered' = ordered /\ raced \subseteq raced'
    BY <1>3, HeldIs
  <2> QED
    BY <1>2, <2>1
<1>4. ASSUME NEW r \in Requests, NEW q \in RequestType, Begins(r, q) PROVE OrdersStand'
  BY <1>2, <1>4, BeginsAre
<1>5. ASSUME NEW r \in Requests, NEW v \in WalletType, Pays(r, v) PROVE OrdersStand'
  <2>0. PICK w \in Rows : w = Target(r)
    BY <1>5, PaysAre
  <2>1. /\ w \in Rows /\ raced' = raced /\ wallets'[w] = v /\ ordered' = ordered
        /\ \A u \in Rows \ {w} : wallets'[u] = wallets[u]
    BY <1>5, <2>0 DEF Pays
  <2>2. ASSUME w \notin raced PROVE Stands(w)'
    <3>1. /\ v.status = "live"
          /\ \/ wallets[w].status = "absent" /\ ~v.frozen
             \/ Live(w) /\ v.frozen = wallets[w].frozen
      BY <1>5, <2>0, <2>2, PaysUnraced
    <3>2. Stands(w)
      BY <2>1, <2>2 DEF OrdersStand
    <3>3. wallets[w].status = "absent" => ordered[w] = "open"
      BY <2>1 DEF AbsentInv
    <3> QED
      BY <2>1, <3>1, <3>2, <3>3 DEF Live
  <2> QED
    BY <1>1, <2>1, <2>2
<1>6. ASSUME NEW r \in Requests, Inserts(r) PROVE OrdersStand'
  <2>1. /\ r \in Rows /\ raced' = raced /\ wallets[r].status = "absent"
        /\ wallets'[r].status = "live" /\ ~wallets'[r].frozen /\ ordered' = ordered
        /\ \A u \in Rows \ {r} : wallets'[u] = wallets[u]
    BY <1>6, InsertsAre
  <2>2. Stands(r)'
    BY <2>1 DEF AbsentInv
  <2> QED
    BY <1>1, <2>1, <2>2
<1>7. ASSUME NEW r \in Requests, BookInitial(r) \/ Abort(r) PROVE OrdersStand'
  BY <1>2, <1>7, EndIs
<1>8. ASSUME NEW r \in Requests, CommitDelete(r) PROVE OrdersStand'
  <2> DEFINE w == req[r].row
  <2>1. /\ w \in Rows /\ wallets'[w].status = "deleted" /\ raced' = raced
        /\ ordered'[w] = "deleted"
        /\ \A u \in Rows \ {w} : wallets'[u] = wallets[u] /\ ordered'[u] = ordered[u]
    BY <1>8, DeleteIs
  <2>2. \A u \in Rows \ raced' :
          IF ordered'[u] = "deleted" THEN wallets'[u].status # "live"
          ELSE wallets'[u].status = "live" => (wallets'[u].frozen <=> ordered'[u] = "frozen")
    <3> HIDE DEF w
    <3> QED
      BY <2>1 DEF OrdersStand, Live
  <2> QED
    BY <2>2 DEF OrdersStand, Live
<1>9. ASSUME NEW w \in Rows, NEW frozen \in BOOLEAN, SetFreeze(w, frozen)
      PROVE  OrdersStand'
  <2>1. /\ wallets'[w].frozen = frozen /\ raced \subseteq raced'
        /\ ordered'[w] = IF frozen THEN "frozen" ELSE "open"
        /\ \A u \in Rows \ {w} : wallets'[u] = wallets[u] /\ ordered'[u] = ordered[u]
    BY <1>9, FreezeIs
  <2>2. Stands(w)'
    BY <2>1
  <2> QED
    BY <1>1, <2>1, <2>2
<1>10. ASSUME Still PROVE OrdersStand'
  BY <1>2, <1>10 DEF Still
<1> QED
  BY <1>3, <1>4, <1>5, <1>6, <1>7, <1>8, <1>9, <1>10, StepCases, StillIs

-----------------------------------------------------------------------------
(* The ledger.                                                             *)

AddsUp(w) == Live(w) => wallets[w].balance = booked[w] + Unbooked(w)

(* What has no transaction yet changes with the request that opened the    *)
(* wallet alone.                                                           *)
LEMMA UnbookedKept ==
  ASSUME NEW w, w \in Requests => pc'[w] = pc[w] /\ req'[w] = req[w]
  PROVE  Unbooked(w)' = Unbooked(w)
  BY DEF Unbooked

LEMMA UnbookedType ==
  ASSUME TypeOK, NEW w
  PROVE  Unbooked(w) \in Int
  BY RequestTypes DEF Unbooked

LEMMA LedgerStep ==
  ASSUME TypeOK, AbsentInv, CopyInv, LedgerAddsUp, [Next]_vars
  PROVE  LedgerAddsUp'
<1>1. ASSUME NEW r \in Requests, raced \subseteq raced', overflowed \subseteq overflowed',
             wallets' = wallets, booked' = booked,
             \A s \in Requests \ {r} : pc'[s] = pc[s] /\ req'[s] = req[s],
             AddsUp(r)'
      PROVE  LedgerAddsUp'
  <2> SUFFICES ASSUME NEW w \in Rows \ (raced' \cup overflowed') PROVE AddsUp(w)'
    BY DEF LedgerAddsUp, AddsUp
  <2>1. CASE w = r
    BY <1>1, <2>1
  <2>2. CASE w # r
    <3>1. Unbooked(w)' = Unbooked(w)
      BY <1>1, <2>2, UnbookedKept
    <3>2. AddsUp(w)
      BY <1>1 DEF LedgerAddsUp, AddsUp
    <3> QED
      BY <1>1, <3>1, <3>2 DEF AddsUp, Live
  <2> QED
    BY <2>1, <2>2
<1>2. ASSUME NEW r \in Requests, NEW q \in RequestType, NEW w \in Rows, Held(r, q, w)
      PROVE  LedgerAddsUp'
  <2>1. /\ wallets' = wallets /\ booked' = booked /\ overflowed' = overflowed
        /\ \A s \in Requests \ {r} : pc'[s] = pc[s] /\ req'[s] = req[s]
        /\ raced \subseteq raced' /\ req[r].op \in {"get", "update"}
        /\ req'[r].op = q.op /\ Checked(q, w)
    BY <1>2, HeldIs
  <2>2. Unbooked(r) = 0 /\ Unbooked(r)' = 0
    BY <2>1 DEF Unbooked, Checked
  <2> SUFFICES ASSUME NEW u \in Rows \ (raced' \cup overflowed') PROVE AddsUp(u)'
    BY DEF LedgerAddsUp, AddsUp
  <2>3. Unbooked(u)' = Unbooked(u)
    BY <2>1, <2>2, UnbookedKept
  <2>4. AddsUp(u)
    BY <2>1 DEF LedgerAddsUp, AddsUp
  <2> QED
    BY <2>1, <2>3, <2>4 DEF AddsUp, Live
<1>3. ASSUME NEW r \in Requests, NEW q \in RequestType, Begins(r, q) PROVE LedgerAddsUp'
  <2>1. /\ UNCHANGED <<wallets, booked, overflowed, raced>>
        /\ \A s \in Requests \ {r} : pc'[s] = pc[s] /\ req'[s] = req[s]
        /\ wallets[r].status = "absent"
    BY <1>3, BeginsAre
  <2>2. AddsUp(r)'
    BY <2>1 DEF AddsUp, Live
  <2> QED
    BY <1>1, <2>1, <2>2
<1>4. ASSUME NEW r \in Requests, NEW v \in WalletType, Pays(r, v) PROVE LedgerAddsUp'
  <2>1. PICK w \in Rows : w = Target(r)
    BY <1>4, PaysAre
  <2>2. /\ raced' = raced /\ overflowed \subseteq overflowed' /\ req[r].op # "create"
        /\ req' = req /\ wallets'[w] = v /\ booked'[w] = booked[w] + req[r].amount
        /\ \A u \in Rows \ {w} : wallets'[u] = wallets[u] /\ booked'[u] = booked[u]
        /\ \A s \in Requests \ {r} : pc'[s] = pc[s]
        /\ w \notin overflowed' => req[r].balance + req[r].amount \in Int64
    BY <1>4, <2>1, PaysAre DEF Pays
  <2>3. \A u \in Rows : Unbooked(u)' = Unbooked(u)
    <3>1. Unbooked(r) = 0 /\ Unbooked(r)' = 0
      BY <2>2 DEF Unbooked
    <3> QED
      BY <2>2, <3>1, UnbookedKept
  <2> SUFFICES ASSUME NEW u \in Rows \ (raced' \cup overflowed') PROVE AddsUp(u)'
    BY DEF LedgerAddsUp, AddsUp
  <2>4. AddsUp(u)
    BY <2>2 DEF LedgerAddsUp, AddsUp
  <2>5. CASE u # w
    BY <2>2, <2>3, <2>4, <2>5 DEF AddsUp, Live
  <2>6. CASE u = w
    <3>1. /\ v.balance = Wrap(req[r].balance + req[r].amount)
          /\ \/ /\ req[r].row = NoRow /\ w = r /\ wallets[w].status = "absent"
                /\ req[r].balance = 0
             \/ Live(w) /\ wallets[w].balance = req[r].balance
      BY <1>4, <2>1, <2>2, <2>6, PaysUnraced
    <3>2. v.balance = req[r].balance + req[r].amount
      <4>1. req[r].balance + req[r].amount \in Int64
        BY <2>2, <2>6
      <4> QED
        BY <3>1, <4>1, AmountsFit
    <3>3. req[r].balance = booked[w] + Unbooked(w)
      <4>1. CASE w = r /\ wallets[w].status = "absent" /\ req[r].balance = 0
        <5>1. booked[w] = 0 /\ Unbooked(w) = 0
          BY <2>2, <4>1 DEF AbsentInv, Unbooked
        <5> QED
          BY <4>1, <5>1
      <4>2. CASE Live(w) /\ wallets[w].balance = req[r].balance
        BY <2>4, <2>6, <4>2 DEF AddsUp
      <4> QED
        BY <3>1, <4>1, <4>2
    <3>4. /\ booked[w] \in Int /\ Unbooked(w) \in Int /\ req[r].amount \in Int
          /\ req[r].balance \in Int
      BY RowTypes, RequestTypes, UnbookedType
    <3>5. v.balance = (booked[w] + req[r].amount) + Unbooked(w)
      BY <3>2, <3>3, <3>4
    <3> QED
      BY <2>2, <2>3, <2>6, <3>5 DEF AddsUp
  <2> QED
    BY <2>5, <2>6
<1>5. ASSUME NEW r \in Requests, Inserts(r) PROVE LedgerAddsUp'
  <2>1. /\ r \in Rows /\ raced' = raced /\ overflowed' = overflowed
        /\ wallets[r].status = "absent" /\ wallets'[r].balance = Opening(r)
        /\ booked'[r] = booked[r] + 0 /\ pc'[r] \notin {"failed", "commit"}
        /\ req'[r].op = req[r].op /\ req'[r].amount = req[r].amount
        /\ req[r].op = "create" => (pc'[r] = "book" <=> req[r].amount > 0)
        /\ \A s \in Requests \ {r} : pc'[s] = pc[s] /\ req'[s] = req[s]
        /\ \A u \in Rows \ {r} : wallets'[u] = wallets[u] /\ booked'[u] = booked[u]
    BY <1>5, InsertsAre
  <2> SUFFICES ASSUME NEW u \in Rows \ (raced' \cup overflowed') PROVE AddsUp(u)'
    BY DEF LedgerAddsUp, AddsUp
  <2>2. AddsUp(u)
    BY <2>1 DEF LedgerAddsUp, AddsUp
  <2>3. CASE u # r
    <3>1. Unbooked(u)' = Unbooked(u)
      BY <2>1, <2>3, UnbookedKept
    <3> QED
      BY <2>1, <2>2, <2>3, <3>1 DEF AddsUp, Live
  <2>4. CASE u = r
    <3>1. booked'[r] = 0
      BY <2>1 DEF AbsentInv
    <3>2. req[r].amount \in Int
      BY RequestTypes
    <3>3. Unbooked(r)' = Opening(r)
      BY <2>1, <3>2 DEF Unbooked, Opening
    <3>4. Opening(r) \in Int
      BY <1>5, InsertsAre
    <3> QED
      BY <2>1, <2>4, <3>1, <3>3, <3>4 DEF AddsUp
  <2> QED
    BY <2>3, <2>4
<1>6. ASSUME NEW r \in Requests, BookInitial(r) \/ Abort(r) PROVE LedgerAddsUp'
  <2>1. /\ UNCHANGED <<wallets, overflowed, raced, req>> /\ r \in Rows
        /\ \A s \in Requests \ {r} : pc'[s] = pc[s]
        /\ \/ /\ pc[r] = "book" /\ pc'[r] = "done" /\ req[r].op = "create"
              /\ req[r].amount > 0 /\ wallets[r].status # "absent"
              /\ booked'[r] = booked[r] + req[r].amount
              /\ \A u \in Rows \ {r} : booked'[u] = booked[u]
           \/ /\ pc[r] \in {"commit", "insert", "read", "book"} /\ pc'[r] = "failed"
              /\ booked' = booked
    BY <1>6, EndIs, RowsAre
  <2> SUFFICES ASSUME NEW u \in Rows \ (raced' \cup overflowed') PROVE AddsUp(u)'
    BY DEF LedgerAddsUp, AddsUp
  <2>2. AddsUp(u)
    BY <2>1 DEF LedgerAddsUp, AddsUp
  <2>3. CASE u # r
    <3>1. Unbooked(u)' = Unbooked(u)
      BY <2>1, <2>3, UnbookedKept
    <3> QED
      BY <2>1, <2>2, <2>3, <3>1 DEF AddsUp, Live
  <2>4. CASE u = r
    <3>1. /\ req[r].amount \in Int /\ booked[r] \in Int /\ Formed(r) /\ req' = req
          /\ wallets' = wallets
      BY <2>1, RequestTypes, RowTypes
    <3>2. CASE /\ pc[r] = "book" /\ pc'[r] = "done" /\ req[r].op = "create"
               /\ req[r].amount > 0 /\ booked'[r] = booked[r] + req[r].amount
      <4>1. Unbooked(r) = req[r].amount /\ Unbooked(r)' = 0
        BY <3>1, <3>2 DEF Unbooked
      <4> QED
        BY <2>2, <2>4, <3>1, <3>2, <4>1 DEF AddsUp, Live
    <3>3. CASE /\ pc[r] \in {"commit", "insert", "read", "book"} /\ pc'[r] = "failed"
               /\ booked' = booked
      <4>1. CASE req[r].op = "create" /\ pc[r] # "book"
        <5>1. wallets[r].status = "absent"
          BY <3>1, <3>3, <4>1 DEF Formed
        <5> QED
          BY <2>4, <3>1, <5>1 DEF AddsUp, Live
      <4>2. CASE ~(req[r].op = "create" /\ pc[r] # "book")
        <5>1. Unbooked(r)' = Unbooked(r)
          BY <3>1, <3>3, <4>2 DEF Unbooked
        <5> QED
          BY <2>2, <2>4, <3>1, <3>3, <5>1 DEF AddsUp, Live
      <4> QED
        BY <4>1, <4>2
    <3> QED
      BY <2>1, <3>2, <3>3
  <2> QED
    BY <2>3, <2>4
<1>7. ASSUME NEW r \in Requests, CommitDelete(r) PROVE LedgerAddsUp'
  <2>1. PICK w \in Rows : w = req[r].row
    BY <1>7, DeleteIs
  <2>2. /\ pc[r] = "commit" /\ req[r].op = "delete" /\ wallets'[w].status = "deleted"
        /\ UNCHANGED <<req, overflowed, raced>>
        /\ \A s \in Requests \ {r} : pc'[s] = pc[s]
        /\ \A u \in Rows \ {w} : wallets'[u] = wallets[u] /\ booked'[u] = booked[u]
    BY <1>7, <2>1, DeleteIs
  <2>3. \A u \in Rows : Unbooked(u)' = Unbooked(u)
    <3>1. Unbooked(r) = 0 /\ Unbooked(r)' = 0
      BY <2>2 DEF Unbooked
    <3> QED
      BY <2>2, <3>1, UnbookedKept
  <2> SUFFICES ASSUME NEW u \in Rows \ (raced' \cup overflowed') PROVE AddsUp(u)'
    BY DEF LedgerAddsUp, AddsUp
  <2>4. AddsUp(u)
    BY <2>2 DEF LedgerAddsUp, AddsUp
  <2> QED
    BY <2>2, <2>3, <2>4 DEF AddsUp, Live
<1>8. ASSUME NEW w \in Rows, NEW frozen \in BOOLEAN, SetFreeze(w, frozen)
      PROVE  LedgerAddsUp'
  <2>1. /\ raced \subseteq raced' /\ UNCHANGED <<booked, pc, req, overflowed>>
        /\ \A u \in Rows : /\ wallets'[u].status = wallets[u].status
                           /\ wallets'[u].balance = wallets[u].balance
    BY <1>8, FreezeIs
  <2> SUFFICES ASSUME NEW u \in Rows \ (raced' \cup overflowed') PROVE AddsUp(u)'
    BY DEF LedgerAddsUp, AddsUp
  <2>2. AddsUp(u) /\ Unbooked(u)' = Unbooked(u)
    BY <2>1, UnbookedKept DEF LedgerAddsUp, AddsUp
  <2> QED
    BY <2>1, <2>2 DEF AddsUp, Live
<1>9. ASSUME Still PROVE LedgerAddsUp'
  BY <1>9 DEF Still, LedgerAddsUp, Live, Unbooked
<1> QED
  BY <1>2, <1>3, <1>4, <1>5, <1>6, <1>7, <1>8, <1>9, StepCases, StillIs

-----------------------------------------------------------------------------
(* Gift cards.                                                             *)

(* Fewer requests hold the cards, whose state is the same.                 *)
LEMMA CardKept ==
  ASSUME CardInv, UNCHANGED <<cards, paid>>,
         \A s \in Requests, c \in Cards : Redeems(s, c)' => Redeems(s, c)
  PROVE  CardInv'
  BY DEF CardInv, CardPaysOnce

(* A request that asks for a card takes it when nobody has it.             *)
LEMMA CardTaken ==
  ASSUME TypeOK, CardInv, UNCHANGED <<cards, paid>>, NEW r \in Requests,
         NEW q \in RequestType, Fitting(q),
         req'[r].op = q.op, req'[r].card = q.card,
         \A s \in Requests \ {r} : pc'[s] = pc[s] /\ req'[s] = req[s]
  PROVE  CardInv'
<1> SUFFICES ASSUME NEW s \in Requests, NEW c \in Cards, Redeems(s, c)'
             PROVE  cards'[c] = "active" /\ \A t \in Requests : Redeems(t, c)' => t = s
  BY DEF CardInv, CardPaysOnce
<1>1. \A t \in Requests \ {r} : Redeems(t, c)' => Redeems(t, c)
  BY DEF Redeems
<1>2. Redeems(r, c)' => cards[c] = "active" /\ \A t \in Requests : ~Redeems(t, c)
  BY DEF Redeems, Fitting, Locked
<1>3. CASE s = r
  BY <1>1, <1>2, <1>3
<1>4. CASE s # r
  <2>1. Redeems(s, c) /\ ~Redeems(r, c)'
    BY <1>1, <1>2, <1>4
  <2>2. cards[c] = "active" /\ \A t \in Requests : Redeems(t, c) => t = s
    BY <2>1 DEF CardInv
  <2> QED
    BY <1>1, <2>1, <2>2
<1> QED
  BY <1>3, <1>4

LEMMA CardStep ==
  ASSUME TypeOK, CardInv, [Next]_vars
  PROVE  CardInv'
<1>1. ASSUME NEW r \in Requests, UNCHANGED <<cards, paid>>, pc'[r] # "commit",
             \A s \in Requests \ {r} : pc'[s] = pc[s] /\ req'[s] = req[s]
      PROVE  CardInv'
  BY <1>1, CardKept DEF Redeems
<1>2. ASSUME UNCHANGED <<cards, paid, pc, req>> PROVE CardInv'
  BY <1>2, CardKept DEF Redeems
<1>3. ASSUME NEW r \in Requests, NEW q \in RequestType, NEW w \in Rows, Held(r, q, w)
      PROVE  CardInv'
  BY <1>3, HeldIs, CardTaken
<1>4. ASSUME NEW r \in Requests, NEW q \in RequestType, Begins(r, q) PROVE CardInv'
  BY <1>4, BeginsAre, CardTaken
<1>5. ASSUME NEW r \in Requests, CommitRedeem(r) PROVE CardInv'
  <2>1. PICK c \in Cards : c = req[r].card
    BY <1>5, RedeemIs
  <2>2. /\ pc[r] = "commit" /\ req[r].op = "redeem"
        /\ cards' = [cards EXCEPT ![c] = "redeemed"]
        /\ paid' = [paid EXCEPT ![c] = @ + 1]
        /\ pc' = [pc EXCEPT ![r] = "done"] /\ req' = req
    BY <1>5, <2>1, RedeemIs
  <2>3. /\ cards \in [Cards -> {"active", "redeemed", "invalid"}]
        /\ paid \in [Cards -> Nat]
        /\ pc'[r] = "done" /\ \A s \in Requests \ {r} : pc'[s] = pc[s]
    BY <2>2 DEF TypeOK
  <2>4. /\ Redeems(r, c) /\ cards[c] = "active" /\ paid[c] = 0
        /\ \A s \in Requests : Redeems(s, c) => s = r
    BY <2>1, <2>2 DEF Redeems, CardInv, CardPaysOnce
  <2>5. CardPaysOnce'
    BY <2>2, <2>3, <2>4 DEF CardInv, CardPaysOnce
  <2>6. \A s \in Requests, d \in Cards : Redeems(s, d)' => Redeems(s, d) /\ s # r
    BY <2>2, <2>3 DEF Redeems
  <2>7. ASSUME NEW s \in Requests, NEW d \in Cards, Redeems(s, d)'
        PROVE  cards'[d] = "active" /\ \A t \in Requests : Redeems(t, d)' => t = s
    <3>1. Redeems(s, d) /\ d # c
      BY <2>4, <2>6, <2>7
    <3> QED
      BY <2>2, <2>3, <2>6, <3>1 DEF CardInv
  <2> QED
    BY <2>5, <2>7 DEF CardInv
<1>6. ASSUME NEW r \in Requests, CommitSave(r) \/ CommitAdjust(r) PROVE CardInv'
  <2>1. UNCHANGED <<cards, paid, req>> /\ pc' = [pc EXCEPT ![r] = "done"]
    BY <1>6 DEF CommitSave, CommitAdjust, Finish
  <2>2. pc'[r] = "done" /\ \A s \in Requests \ {r} : pc'[s] = pc[s]
    BY <2>1 DEF TypeOK
  <2> QED
    BY <1>1, <2>1, <2>2
<1>7. ASSUME NEW r \in Requests, NEW v \in WalletType, Pays(r, v) PROVE CardInv'
  BY <1>5, <1>6, <1>7 DEF Pays
<1>8. ASSUME NEW r \in Requests, Inserts(r) \/ BookInitial(r) \/ Abort(r) \/ CommitDelete(r)
      PROVE  CardInv'
  <2>1. /\ UNCHANGED <<cards, paid>> /\ pc'[r] # "commit"
        /\ \A s \in Requests \ {r} : pc'[s] = pc[s] /\ req'[s] = req[s]
    BY <1>8, InsertsAre, EndIs, DeleteIs
  <2> QED
    BY <1>1, <2>1
<1>9. ASSUME NEW w \in Rows, NEW frozen \in BOOLEAN, SetFreeze(w, frozen) PROVE CardInv'
  BY <1>2, <1>9, FreezeIs
<1>10. ASSUME NEW c \in Cards, InvalidateByID(c) PROVE CardInv'
  <2>1. /\ ~Locked(c) /\ cards[c] = "active" /\ cards' = [cards EXCEPT ![c] = "invalid"]
        /\ UNCHANGED <<pc, req, paid>>
    BY <1>10 DEF InvalidateByID
  <2>2. cards \in [Cards -> {"active", "redeemed", "invalid"}]
    BY DEF TypeOK
  <2>3. \A s \in Requests, d \in Cards : Redeems(s, d)' => Redeems(s, d) /\ d # c
    BY <2>1 DEF Redeems, Locked
  <2>4. CardPaysOnce'
    BY <2>1, <2>2 DEF CardInv, CardPaysOnce
  <2> QED
    BY <2>1, <2>2, <2>3, <2>4 DEF CardInv
<1>11. ASSUME (\E c \in Cards : ExpireCard(c)) \/ UNCHANGED vars PROVE CardInv'
  BY <1>2, <1>11 DEF ExpireCard, vars
<1> QED
  BY <1>3, <1>4, <1>7, <1>8, <1>9, <1>10, <1>11, StepCases

-----------------------------------------------------------------------------
(* One wallet each.                                                        *)

LEMMA MissingKept ==
  ASSUME TypeOK, MissingInv, NEW r \in Requests,
         contested \subseteq contested', raced \subseteq raced',
         \A s \in Requests \ {r} : pc'[s] = pc[s] /\ req'[s] = req[s],
         pc'[r] \notin {"commit", "insert"} \/ req'[r].row # NoRow
           \/ (pc'[r] = pc[r] /\ req'[r] = req[r]),
         \A o \in Owners \ contested : \A s \in Requests :
           Missing(o) = {s} /\ Found(o) \subseteq raced
           /\ (s # r \/ (pc'[r] = pc[r] /\ req'[r] = req[r]))
             => Found(o)' \subseteq raced
  PROVE  MissingInv'
<1> SUFFICES ASSUME NEW s \in Requests, NEW o \in Owners \ contested', s \in Missing(o)'
             PROVE  Missing(o)' = {s} /\ Found(o)' \subseteq raced'
  BY DEF MissingInv
<1>1. \A t \in Requests : t \in Missing(o)' =>
         t \in Missing(o) /\ (t # r \/ (pc'[r] = pc[r] /\ req'[r] = req[r]))
  BY DEF Missing
<1>2. Missing(o) = {s} /\ Found(o) \subseteq raced
  BY <1>1 DEF MissingInv
<1>3. Found(o)' \subseteq raced
  BY <1>1, <1>2
<1>4. \A t \in Missing(o)' : t \in Requests
  BY DEF Missing
<1> QED
  BY <1>1, <1>2, <1>3, <1>4

(* What becomes a live wallet: a row inserted for an owner who had none, or *)
(* a deleted one that is saved again.                                      *)
LEMMA PaysFound ==
  ASSUME TypeOK, CopyInv, NEW r \in Requests, NEW v \in WalletType, Pays(r, v),
         NEW u \in Rows, Live(u)'
  PROVE  \/ Live(u) /\ wallets'[u].owner = wallets[u].owner
         \/ u \in raced
         \/ u = r /\ r \in Missing(wallets'[u].owner)
<1>1. PICK w \in Rows : w = Target(r)
  BY PaysAre
<1>2. /\ \A t \in Rows \ {w} : wallets'[t] = wallets[t]
      /\ wallets'[w] = v /\ pc[r] = "commit"
      /\ v.owner = req[r].owner /\ (Live(w) => wallets[w].owner = req[r].owner)
  BY <1>1, PaysAre DEF Pays
<1>3. CASE u # w
  BY <1>2, <1>3 DEF Live
<1>4. CASE u = w /\ w \notin raced
  <2>1. \/ req[r].row = NoRow /\ w = r
        \/ Live(w)
    BY <1>1, <1>4, PaysUnraced
  <2> QED
    BY <1>2, <1>4, <2>1 DEF Missing
<1> QED
  BY <1>3, <1>4

LEMMA MissingStep ==
  ASSUME TypeOK, CopyInv, MissingInv, [Next]_vars
  PROVE  MissingInv'
<1>1. ASSUME NEW r \in Requests, NEW q \in RequestType, NEW w \in Rows, Held(r, q, w)
      PROVE  MissingInv'
  <2>1. /\ wallets' = wallets /\ contested' = contested /\ raced \subseteq raced'
        /\ \A s \in Requests \ {r} : pc'[s] = pc[s] /\ req'[s] = req[s]
        /\ req'[r].row # NoRow
    BY <1>1, HeldIs
  <2>2. \A o \in Owners : Found(o)' = Found(o)
    BY <2>1 DEF Found, Live
  <2> QED
    BY <2>1, <2>2, MissingKept
<1>2. ASSUME NEW r \in Requests, NEW q \in RequestType, Begins(r, q) PROVE MissingInv'
  <2>1. /\ wallets' = wallets /\ contested \subseteq contested' /\ raced' = raced
        /\ \A s \in Requests \ {r} : pc'[s] = pc[s] /\ req'[s] = req[s]
        /\ req'[r] = q /\ pc[r] = "idle"
        /\ pc'[r] = "read" => q.row # NoRow
        /\ pc'[r] # "read" =>
              q.owner \in contested' \/ (Missing(q.owner) = {} /\ Found(q.owner) = {})
    BY <1>2, BeginsAre
  <2>2. \A o \in Owners : Found(o)' = Found(o)
    BY <2>1 DEF Found, Live
  <2> SUFFICES ASSUME NEW s \in Requests, NEW o \in Owners \ contested', s \in Missing(o)'
               PROVE  Missing(o)' = {s} /\ Found(o)' \subseteq raced'
    BY DEF MissingInv
  <2>3. \A t \in Requests \ {r} : t \in Missing(o)' <=> t \in Missing(o)
    BY <2>1 DEF Missing
  <2>4. r \in Missing(o)' => Missing(o) = {} /\ Found(o) = {}
    BY <2>1 DEF Missing
  <2>5. r \notin Missing(o) /\ Missing(o) \subseteq Requests /\ Missing(o)' \subseteq Requests
    BY <2>1 DEF Missing
  <2>6. CASE r \in Missing(o)'
    BY <2>2, <2>3, <2>4, <2>5, <2>6
  <2>7. CASE r \notin Missing(o)'
    <3>1. s # r /\ s \in Missing(o)
      BY <2>3, <2>7
    <3>2. Missing(o) = {s} /\ Found(o) \subseteq raced
      BY <2>1, <3>1 DEF MissingInv
    <3> QED
      BY <2>1, <2>2, <2>3, <2>5, <2>7, <3>2
  <2> QED
    BY <2>6, <2>7
<1>3. ASSUME NEW r \in Requests, NEW v \in WalletType, Pays(r, v) PROVE MissingInv'
  <2>1. /\ contested' = contested /\ raced' = raced /\ pc'[r] = "done" /\ pc[r] = "commit"
        /\ \A s \in Requests \ {r} : pc'[s] = pc[s] /\ req'[s] = req[s]
    BY <1>3, PaysAre DEF Pays
  <2>2. ASSUME NEW o \in Owners \ contested, NEW s \in Requests, s # r,
               Missing(o) = {s}, Found(o) \subseteq raced
        PROVE  Found(o)' \subseteq raced
    <3> SUFFICES ASSUME NEW u \in Rows, Live(u)', wallets'[u].owner = o PROVE u \in raced
      BY DEF Found
    <3>1. \/ Live(u) /\ wallets[u].owner = o
          \/ u \in raced
          \/ r \in Missing(o)
      BY <1>3, PaysFound
    <3> QED
      BY <2>2, <3>1 DEF Found
  <2> QED
    BY <2>1, <2>2, MissingKept
<1>4. ASSUME NEW r \in Requests, Inserts(r) PROVE MissingInv'
  <2>1. /\ contested' = contested /\ raced' = raced
        /\ pc'[r] \notin {"commit", "insert"}
        /\ pc[r] \in {"commit", "insert"} /\ req[r].row = NoRow
        /\ \A s \in Requests \ {r} : pc'[s] = pc[s] /\ req'[s] = req[s]
        /\ wallets'[r].owner = req[r].owner
        /\ \A u \in Rows \ {r} : wallets'[u] = wallets[u]
    BY <1>4, InsertsAre
  <2>2. ASSUME NEW o \in Owners \ contested, NEW s \in Requests, s # r,
               Missing(o) = {s}, Found(o) \subseteq raced
        PROVE  Found(o)' \subseteq raced
    <3>1. req[r].owner # o
      BY <2>1, <2>2 DEF Missing
    <3> QED
      BY <2>1, <2>2, <3>1 DEF Found, Live
  <2> QED
    BY <2>1, <2>2, MissingKept
<1>5. ASSUME NEW r \in Requests, BookInitial(r) \/ Abort(r) \/ CommitDelete(r)
      PROVE  MissingInv'
  <2>1. /\ contested' = contested /\ raced' = raced
        /\ pc'[r] \notin {"commit", "insert"} /\ req' = req
        /\ \A s \in Requests \ {r} : pc'[s] = pc[s]
        /\ \A u \in Rows : wallets'[u] = wallets[u] \/ wallets'[u].status = "deleted"
    BY <1>5, EndIs, DeleteIs
  <2>2. \A o \in Owners : Found(o)' \subseteq Found(o)
    BY <2>1 DEF Found, Live
  <2> QED
    BY <2>1, <2>2, MissingKept
<1>6. ASSUME UNCHANGED <<pc, req, contested>>, raced \subseteq raced',
             \A u \in Rows : /\ wallets'[u].status = wallets[u].status
                             /\ wallets'[u].owner = wallets[u].owner
      PROVE  MissingInv'
  BY <1>6 DEF MissingInv, Missing, Found, Live
<1>7. ASSUME NEW w \in Rows, NEW frozen \in BOOLEAN, SetFreeze(w, frozen) PROVE MissingInv'
  <2>1. /\ UNCHANGED <<pc, req, contested>> /\ raced \subseteq raced'
        /\ \A u \in Rows : /\ wallets'[u].status = wallets[u].status
                           /\ wallets'[u].owner = wallets[u].owner
    BY <1>7, FreezeIs
  <2> QED
    BY <1>6, <2>1
<1>8. ASSUME Still PROVE MissingInv'
  BY <1>6, <1>8 DEF Still
<1> QED
  BY <1>1, <1>2, <1>3, <1>4, <1>5, <1>7, <1>8, StepCases, StillIs

LEMMA OneWalletStep ==
  ASSUME TypeOK, CopyInv, MissingInv, OneWalletEach, [Next]_vars
  PROVE  OneWalletEach'
<1>1. ASSUME contested \subseteq contested', raced \subseteq raced',
             \A u \in Rows : Live(u)' => \/ Live(u) /\ wallets'[u].owner = wallets[u].owner
                                         \/ u \in raced
      PROVE  OneWalletEach'
  BY <1>1 DEF OneWalletEach
(* A row inserted for an owner.                                            *)
<1>2. ASSUME NEW r \in Requests, UNCHANGED <<contested, raced>>, r \in Rows,
             \A u \in Rows : Live(u)' => \/ Live(u) /\ wallets'[u].owner = wallets[u].owner
                                         \/ u \in raced
                                         \/ u = r /\ r \in Missing(wallets'[u].owner)
      PROVE  OneWalletEach'
  <2> SUFFICES ASSUME NEW w1 \in Rows, NEW w2 \in Rows, w1 # w2, Live(w1)', Live(w2)',
                      wallets'[w1].owner = wallets'[w2].owner
               PROVE  wallets'[w1].owner \in contested \/ {w1, w2} \cap raced # {}
    BY <1>2 DEF OneWalletEach
  <2> DEFINE o == wallets'[w1].owner
  <2>1. ASSUME NEW u \in Rows, Live(u)', u # r, u \notin raced, wallets'[u].owner = o,
               r \in Missing(o), o \in Owners
        PROVE  o \in contested
    <3>1. Live(u) /\ wallets[u].owner = o
      BY <1>2, <2>1
    <3>2. u \in Found(o)
      BY <3>1 DEF Found
    <3> HIDE DEF o
    <3> QED
      BY <2>1, <3>2 DEF MissingInv
  <2>2. o \in Owners
    BY TypeStep DEF TypeOK, WalletType
  <2>3. CASE w1 = r /\ r \in Missing(o)
    BY <2>1, <2>2, <2>3
  <2>4. CASE w2 = r /\ r \in Missing(o)
    BY <2>1, <2>2, <2>4
  <2>5. CASE ~(w1 = r /\ r \in Missing(o)) /\ ~(w2 = r /\ r \in Missing(o))
    BY <1>2, <2>5 DEF OneWalletEach
  <2> QED
    BY <2>3, <2>4, <2>5
<1>3. ASSUME NEW r \in Requests, NEW q \in RequestType, NEW w \in Rows, Held(r, q, w)
      PROVE  OneWalletEach'
  <2>1. wallets' = wallets /\ contested' = contested /\ raced \subseteq raced'
    BY <1>3, HeldIs
  <2> QED
    BY <1>1, <2>1 DEF Live
<1>4. ASSUME NEW r \in Requests, NEW q \in RequestType, Begins(r, q) PROVE OneWalletEach'
  <2>1. wallets' = wallets /\ contested \subseteq contested' /\ raced' = raced
    BY <1>4, BeginsAre
  <2> QED
    BY <1>1, <2>1 DEF Live
<1>5. ASSUME NEW r \in Requests, NEW v \in WalletType, Pays(r, v) PROVE OneWalletEach'
  <2>1. UNCHANGED <<contested, raced>> /\ r \in Rows
    BY <1>5, RowsAre DEF Pays
  <2> QED
    BY <1>2, <1>5, <2>1, PaysFound
<1>6. ASSUME NEW r \in Requests, Inserts(r) PROVE OneWalletEach'
  <2>1. /\ UNCHANGED <<contested, raced>> /\ r \in Rows
        /\ pc[r] \in {"commit", "insert"} /\ req[r].row = NoRow
        /\ wallets'[r].owner = req[r].owner
        /\ \A u \in Rows \ {r} : wallets'[u] = wallets[u]
    BY <1>6, InsertsAre
  <2>2. r \in Missing(wallets'[r].owner)
    BY <2>1 DEF Missing
  <2> QED
    BY <1>2, <2>1, <2>2 DEF Live
<1>7. ASSUME NEW r \in Requests, BookInitial(r) \/ Abort(r) \/ CommitDelete(r)
      PROVE  OneWalletEach'
  <2>1. /\ contested' = contested /\ raced' = raced
        /\ \A u \in Rows : wallets'[u] = wallets[u] \/ wallets'[u].status = "deleted"
    BY <1>7, EndIs, DeleteIs
  <2> QED
    BY <1>1, <2>1 DEF Live
<1>8. ASSUME NEW w \in Rows, NEW frozen \in BOOLEAN, SetFreeze(w, frozen)
      PROVE  OneWalletEach'
  <2>1. /\ contested' = contested /\ raced \subseteq raced'
        /\ \A u \in Rows : /\ wallets'[u].status = wallets[u].status
                           /\ wallets'[u].owner = wallets[u].owner
    BY <1>8, FreezeIs
  <2> QED
    BY <1>1, <2>1 DEF Live
<1>9. ASSUME Still PROVE OneWalletEach'
  BY <1>1, <1>9 DEF Still, Live
<1> QED
  BY <1>3, <1>4, <1>5, <1>6, <1>7, <1>8, <1>9, StepCases, StillIs

-----------------------------------------------------------------------------
(* The invariant.                                                          *)

LEMMA InitInv == Init => WalletInv
<1> SUFFICES ASSUME Init PROVE WalletInv
  OBVIOUS
<1>1. TypeOK
  BY InitType
<1>2. PICK opened \in SUBSET Owners, b \in [Owners -> {0} \cup Amounts] :
       /\ wallets = [w \in Rows |->
                       [owner |-> IF w \in Owners THEN w ELSE CHOOSE o \in Owners : TRUE,
                        balance |-> IF w \in opened THEN b[w] ELSE 0, frozen |-> FALSE,
                        status |-> IF w \in opened THEN "live" ELSE "absent"]]
       /\ booked = [w \in Rows |-> IF w \in opened THEN b[w] ELSE 0]
  BY DEF Init
<1>3. \A r \in Requests : pc[r] = "idle" /\ req[r].op = "get"
  BY DEF Init
<1>4. \A w \in opened : b[w] >= 0 /\ b[w] \in Int
  BY AmountsFit
<1>5. \A w \in Rows :
        /\ wallets[w].balance >= 0 /\ wallets[w].balance \in Int /\ ~wallets[w].frozen
        /\ wallets[w].balance = booked[w]
        /\ wallets[w].status \in {"live", "absent"} /\ ordered[w] = "open"
        /\ wallets[w].status = "live" => w \in Owners /\ wallets[w].owner = w
        /\ wallets[w].status = "absent" => wallets[w].balance = 0
  <2>1. \A w \in Rows : ordered[w] = "open"
    BY DEF Init
  <2> QED
    BY <1>2, <1>4, <2>1
<1>6. \A w : Unbooked(w) = 0 /\ ~Negative(w)
  BY <1>3 DEF Unbooked, Negative
<1>7. AbsentInv /\ CheckedInv /\ NeverNegative /\ CopyNotNegative /\ CopyInv
  BY <1>3, <1>5 DEF AbsentInv, CheckedInv, NeverNegative, CopyNotNegative, CopyInv
<1>8. LedgerAddsUp /\ OrdersStand /\ DeletedIsEmpty
  BY <1>5, <1>6 DEF LedgerAddsUp, OrdersStand, DeletedIsEmpty, Live
<1>9. CardInv
  BY <1>3 DEF Init, CardInv, CardPaysOnce, Redeems
<1>10. MissingInv /\ OneWalletEach
  BY <1>3, <1>5 DEF MissingInv, Missing, OneWalletEach, Live
<1> QED
  BY <1>1, <1>7, <1>8, <1>9, <1>10 DEF WalletInv

LEMMA InvStep == WalletInv /\ [Next]_vars => WalletInv'
<1> SUFFICES ASSUME WalletInv, [Next]_vars PROVE WalletInv'
  OBVIOUS
<1>1. /\ TypeOK /\ AbsentInv /\ CheckedInv /\ NeverNegative /\ CopyNotNegative /\ CopyInv
      /\ LedgerAddsUp /\ OrdersStand /\ DeletedIsEmpty
      /\ CardInv /\ MissingInv /\ OneWalletEach
  BY DEF WalletInv
<1>2. TypeOK' /\ AbsentInv' /\ CheckedInv' /\ NeverNegative' /\ CopyNotNegative' /\ CopyInv'
  BY <1>1, TypeStep, AbsentStep, CheckedStep, NegativeStep, CopyStep
<1>3. LedgerAddsUp' /\ OrdersStand' /\ DeletedIsEmpty'
  BY <1>1, LedgerStep, OrdersStep, DeletedStep
<1>4. CardInv' /\ MissingInv' /\ OneWalletEach'
  BY <1>1, CardStep, MissingStep, OneWalletStep
<1> QED
  BY <1>2, <1>3, <1>4 DEF WalletInv

(* The inductive invariant: with the properties, it says that the copy of a *)
(* row only one request is at is that row, what was checked of a copy, that *)
(* the holder of a card is alone, and who is about to insert a wallet.      *)
THEOREM WalletInvariance == Spec => []WalletInv
  BY InitInv, InvStep, PTL DEF Spec

(* A balance is the sum of the wallet's transactions, but for the opening   *)
(* amount that has none, lost updates and overflow (RechargeWithTenant,     *)
(* WithdrawWithTenant, AdjustByCodeWithTenant, AdjustBalance, Redeem).      *)
THEOREM LedgerHolds == Spec => []LedgerAddsUp
<1>1. WalletInv => LedgerAddsUp
  BY DEF WalletInv
<1> QED
  BY <1>1, WalletInvariance, PTL

(* Withdrawals that race, in any number, never make a balance negative      *)
(* (WithdrawWithTenant's check of the copy it writes).                      *)
THEOREM NobodyOverdraws == Spec => []NeverNegative
<1>1. WalletInv => NeverNegative
  BY DEF WalletInv
<1> QED
  BY <1>1, WalletInvariance, PTL

(* A gift card is paid out once, whoever redeems it at the same time        *)
(* (Redeem's SELECT ... FOR UPDATE).                                        *)
THEOREM CardsPayOnce == Spec => []CardPaysOnce
<1>1. WalletInv => CardPaysOnce
  BY DEF WalletInv, CardInv
<1> QED
  BY <1>1, WalletInvariance, PTL

(* What an admin froze, unfroze or deleted stays so while no request was at *)
(* the wallet's row (FreezeWallet, UnfreezeWallet, DeleteWallet).           *)
THEOREM OrdersAreKept == Spec => []OrdersStand
<1>1. WalletInv => OrdersStand
  BY DEF WalletInv
<1> QED
  BY <1>1, WalletInvariance, PTL

(* DeleteWallet's look at the balance before its transaction suffices where *)
(* nobody else was at the row.                                              *)
THEOREM DeletionIsClean == Spec => []DeletedIsEmpty
<1>1. WalletInv => DeletedIsEmpty
  BY DEF WalletInv
<1> QED
  BY <1>1, WalletInvariance, PTL

(* FirstOrCreate and the admin's look before it inserts keep owners to one  *)
(* wallet, but for the named races.                                         *)
THEOREM OneWallet == Spec => []OneWalletEach
<1>1. WalletInv => OneWalletEach
  BY DEF WalletInv
<1> QED
  BY <1>1, WalletInvariance, PTL
=============================================================================
