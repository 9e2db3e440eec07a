--------------------------- MODULE Wallet_proofs ---------------------------
(***************************************************************************)
(* Wallets and gift cards, for every number of owners, cards, requests and *)
(* amounts and every width of integers.                                    *)
(***************************************************************************)
EXTENDS Wallet, TLAPS

USE DEF tables

LEMMA WrapFits ==
  ASSUME NEW a \in Int64, NEW b \in Int64
  PROVE  Wrap(a + b) \in Int64 /\ (a + b \in Int64 => Wrap(a + b) = a + b)
  BY WalletAssumption DEF Wrap, Int64

LEMMA AmountsFit ==
  /\ Deltas \subseteq Int64 /\ 0 \in Int64
  /\ \A a \in Amounts : a \in Int /\ a > 0 /\ a \in Deltas /\ -a \in Deltas
  /\ \A a \in Minus : a \in Deltas /\ a < 0
  /\ \A a \in Int64 : Wrap(a) = a /\ a \in Int
<1>1. \A a \in Amounts : a \in Nat /\ a > 0 /\ a <= MaxInt /\ MaxInt \in Nat
  BY WalletAssumption
<1>2. \A a \in Amounts : a \in Int64 /\ -a \in Int64 /\ -a < 0
  BY <1>1 DEF Int64
<1>3. 0 \in Int64 /\ \A a \in Int64 : Wrap(a) = a /\ a \in Int
  BY WalletAssumption DEF Int64, Wrap
<1>4. \A a \in Amounts : a \in Int /\ a > 0 /\ a \in Deltas /\ -a \in Deltas
  BY <1>1 DEF Deltas, Minus
<1>5. \A a \in Minus : a \in Deltas /\ a < 0 /\ a \in Int64
  BY <1>2 DEF Deltas, Minus
<1> QED
  BY <1>2, <1>3, <1>4, <1>5 DEF Deltas

LEMMA RowsAre == Requests \subseteq Rows /\ Owners \subseteq Rows /\ NoRow \notin Rows
  BY WalletAssumption DEF Rows

-----------------------------------------------------------------------------
(* How a request begins.                                                   *)

(* What a request has checked of the row it reads.                         *)
Checked(q, w) ==
  /\ q.op \in {"save", "redeem", "update", "delete"} /\ q.owner = wallets[w].owner
  /\ q.op = "save" => q.amount > 0 \/ Wrap(wallets[w].balance + q.amount) >= 0
  /\ q.op = "update" => Wrap(wallets[w].balance + q.amount) >= 0
  /\ q.op = "redeem" => q.amount > 0
  /\ q.op = "delete" => wallets[w].balance <= 0

Fitting(q) ==
  /\ q \in RequestType /\ (q.op = "redeem" <=> q.card \in Cards)
  /\ q.op = "redeem" => ~Locked(q.card) /\ cards[q.card] = "active"

Held(r, q, w) ==
  /\ w \in Rows /\ Live(w) /\ Fitting(q) /\ Checked(q, w)
  /\ \/ pc[r] = "idle"
     \/ pc[r] = "read" /\ q = req[r]
  /\ Hold(r, q, w)

Missed(r, q, next) ==
  /\ pc[r] = "idle" /\ Fitting(q) /\ q.row = NoRow /\ q.balance = 0 /\ ~q.frozen
  /\ \/ next = "commit" /\ q.op \in {"save", "redeem", "get", "create"}
     \/ next = "insert" /\ q.op = "update"
  /\ q.op \in {"save", "redeem"} => q.amount > 0
  /\ Miss(r, q, next)

Misread(r, q) ==
  /\ pc[r] = "idle" /\ Fitting(q) /\ q.op = "get"
  /\ q.row = NoRow /\ q.balance = 0 /\ ~q.frozen
  /\ req' = [req EXCEPT ![r] = q] /\ pc' = [pc EXCEPT ![r] = "commit"]
  /\ contested' = contested \cup {q.owner} /\ UNCHANGED <<tables, raced>>

Picked(r, q, w) ==
  /\ pc[r] = "idle" /\ Fitting(q) /\ q.op = "update" /\ w \in Found(q.owner)
  /\ q.row = w
  /\ req' = [req EXCEPT ![r] = q] /\ pc' = [pc EXCEPT ![r] = "read"]
  /\ UNCHANGED <<tables, raced, contested>>

Begin(r) ==
  \/ BeginRecharge(r) \/ BeginWithdraw(r) \/ BeginAdjustByCode(r) \/ BeginRedeem(r)
  \/ BeginGetBalance(r) \/ BeginCreateWallet(r) \/ BeginAdjustOwner(r)
  \/ ReadForAdjust(r) \/ BeginDelete(r)

LEMMA AskedFits ==
  ASSUME TypeOK, NEW r \in Requests, pc[r] = "idle",
         NEW op \in Ops, NEW o \in Owners, NEW a \in Deltas,
         NEW q, q = Asked(r, op, o, a)
  PROVE  /\ q \in RequestType /\ q.op = op /\ q.owner = o /\ q.amount = a
         /\ q.card = NoRow /\ q.card \notin Cards
         /\ q.row = NoRow /\ q.balance = 0 /\ ~q.frozen
<1>1. req[r] \in RequestType /\ Formed(r)
  BY DEF TypeOK
<1>2. req[r].row = NoRow /\ req[r].op = "get" /\ req[r].card \notin Cards
      /\ req[r].balance = 0 /\ ~req[r].frozen
  BY <1>1 DEF Formed
<1>3. req[r].card = NoRow /\ NoRow \notin Cards
  BY <1>1, <1>2, WalletAssumption DEF RequestType
<1> QED
  BY <1>1, <1>2, <1>3 DEF Asked, RequestType

LEMMA CardFits ==
  ASSUME NEW q \in RequestType, NEW c \in Cards, NEW u, u = [q EXCEPT !.card = c]
  PROVE  /\ u \in RequestType /\ u.card = c /\ u.op = q.op /\ u.owner = q.owner
         /\ u.amount = q.amount /\ u.row = q.row /\ u.balance = q.balance
         /\ u.frozen = q.frozen
  BY DEF RequestType

LEMMA FoundIs ==
  ASSUME NEW o \in Owners, NEW w \in Found(o)
  PROVE  w \in Rows /\ Live(w) /\ wallets[w].owner = o
  BY DEF Found

LEMMA FirstOrCreateCases ==
  ASSUME NEW r \in Requests, NEW q, Fitting(q), FirstOrCreate(r, q), pc[r] = "idle",
         q.op \in {"save", "redeem"}, q.amount > 0,
         q.row = NoRow, q.balance = 0, ~q.frozen
  PROVE  (\E w \in Rows : Held(r, q, w)) \/ Missed(r, q, "commit")
<1>1. q.owner \in Owners
  BY DEF Fitting, RequestType
<1>2. ASSUME NEW w \in Found(q.owner), Hold(r, q, w) PROVE Held(r, q, w)
  BY <1>1, <1>2, FoundIs DEF Held, Checked
<1>3. ASSUME Miss(r, q, "commit") PROVE Missed(r, q, "commit")
  BY <1>3 DEF Missed
<1> QED
  BY <1>1, <1>2, <1>3, FoundIs DEF FirstOrCreate

LEMMA BeginCases ==
  ASSUME TypeOK, NEW r \in Requests, Begin(r)
  PROVE  \/ \E q \in RequestType, w \in Rows : Held(r, q, w)
         \/ \E q \in RequestType, next \in {"commit", "insert"} : Missed(r, q, next)
         \/ \E q \in RequestType : Misread(r, q)
         \/ \E q \in RequestType, w \in Rows : Picked(r, q, w)
<1>1. CASE BeginRecharge(r)
  <2>1. PICK o \in Owners, a \in Amounts : FirstOrCreate(r, Asked(r, "save", o, a))
    BY <1>1 DEF BeginRecharge
  <2>2. pc[r] = "idle" /\ a \in Deltas /\ a > 0 /\ "save" \in Ops
    BY <1>1, AmountsFit DEF BeginRecharge, Ops
  <2> DEFINE q == Asked(r, "save", o, a)
  <2>3. Fitting(q) /\ q.op = "save" /\ q.amount = a /\ q.row = NoRow /\ q.balance = 0 /\ ~q.frozen
    BY <2>2, AskedFits DEF Fitting
  <2> HIDE DEF q
  <2> QED
    BY <2>1, <2>2, <2>3, FirstOrCreateCases DEF q, Fitting
<1>2. CASE BeginWithdraw(r)
  <2>1. PICK o \in Owners, a \in Amounts :
          \E w \in Found(o) : wallets[w].balance >= a /\ Hold(r, Asked(r, "save", o, -a), w)
    BY <1>2 DEF BeginWithdraw
  <2>2. PICK w \in Found(o) : wallets[w].balance >= a /\ Hold(r, Asked(r, "save", o, -a), w)
    BY <2>1
  <2>3. pc[r] = "idle" /\ -a \in Deltas /\ a \in Int /\ a > 0 /\ "save" \in Ops
    BY <1>2, AmountsFit DEF BeginWithdraw, Ops
  <2>4. w \in Rows /\ Live(w) /\ wallets[w].owner = o
    BY <2>2, FoundIs
  <2>5. Wrap(wallets[w].balance + (-a)) >= 0
    <3>1. wallets[w].balance \in Int64
      BY <2>4 DEF TypeOK, WalletType
    <3> QED
      BY <2>2, <2>3, <3>1, WalletAssumption DEF Wrap, Int64
  <2> DEFINE q == Asked(r, "save", o, -a)
  <2>6. Fitting(q) /\ q.op = "save" /\ q.amount = -a /\ q.owner = o
    BY <2>3, AskedFits DEF Fitting
  <2>7. q \in RequestType /\ Hold(r, q, w)
    BY <2>2, <2>6 DEF Fitting
  <2> HIDE DEF q
  <2>8. Checked(q, w)
    BY <2>4, <2>5, <2>6 DEF Checked
  <2> QED
    BY <2>3, <2>4, <2>6, <2>7, <2>8 DEF Held
<1>3. CASE BeginAdjustByCode(r)
  <2>1. PICK o \in Owners, d \in Amounts \cup Minus :
          \/ \E w \in Found(o) : /\ Wrap(wallets[w].balance + d) >= 0
                                 /\ Hold(r, Asked(r, "save", o, d), w)
          \/ d > 0 /\ Miss(r, Asked(r, "save", o, d), "commit")
    BY <1>3 DEF BeginAdjustByCode
  <2>2. pc[r] = "idle" /\ d \in Deltas /\ "save" \in Ops
    BY <1>3, AmountsFit DEF BeginAdjustByCode, Ops
  <2> DEFINE q == Asked(r, "save", o, d)
  <2>3. /\ Fitting(q) /\ q \in RequestType /\ q.op = "save" /\ q.amount = d /\ q.owner = o
        /\ q.row = NoRow /\ q.balance = 0 /\ ~q.frozen
    BY <2>2, AskedFits DEF Fitting
  <2> HIDE DEF q
  <2>4. ASSUME NEW w \in Found(o), Wrap(wallets[w].balance + d) >= 0, Hold(r, q, w)
        PROVE  Held(r, q, w) /\ w \in Rows
    BY <2>2, <2>3, <2>4, FoundIs DEF Held, Checked
  <2>5. ASSUME d > 0, Miss(r, q, "commit") PROVE Missed(r, q, "commit")
    BY <2>2, <2>3, <2>5 DEF Missed
  <2> QED
    BY <2>1, <2>3, <2>4, <2>5 DEF q
<1>4. CASE BeginRedeem(r)
  <2>1. PICK o \in Owners, c \in Cards :
          /\ ~Locked(c) /\ cards[c] = "active" /\ c \notin expired
          /\ FirstOrCreate(r, [Asked(r, "redeem", o, Worth[c]) EXCEPT !.card = c])
    BY <1>4 DEF BeginRedeem
  <2>2. pc[r] = "idle" /\ Worth[c] \in Deltas /\ Worth[c] > 0 /\ "redeem" \in Ops
    BY <1>4, AmountsFit, WalletAssumption DEF BeginRedeem, Ops
  <2> DEFINE p == Asked(r, "redeem", o, Worth[c])
             q == [p EXCEPT !.card = c]
  <2>3. /\ p \in RequestType /\ p.op = "redeem" /\ p.amount = Worth[c]
        /\ p.row = NoRow /\ p.balance = 0 /\ ~p.frozen
    BY <2>2, AskedFits
  <2> HIDE DEF p
  <2>4. /\ q \in RequestType /\ q.card = c /\ q.op = "redeem" /\ q.amount = Worth[c]
        /\ q.row = NoRow /\ q.balance = 0 /\ ~q.frozen
    BY <2>3, CardFits
  <2>5. FirstOrCreate(r, q)
    BY <2>1 DEF p
  <2> HIDE DEF q
  <2>6. Fitting(q)
    BY <2>1, <2>4 DEF Fitting
  <2> QED
    BY <2>2, <2>4, <2>5, <2>6, FirstOrCreateCases
<1>5. CASE BeginGetBalance(r)
  <2>1. PICK o \in Owners :
          \/ Miss(r, Asked(r, "get", o, 0), "commit")
          \/ /\ req' = [req EXCEPT ![r] = Asked(r, "get", o, 0)]
             /\ pc' = [pc EXCEPT ![r] = "commit"]
             /\ contested' = contested \cup {o}
             /\ UNCHANGED <<tables, raced>>
    BY <1>5 DEF BeginGetBalance
  <2>2. pc[r] = "idle" /\ 0 \in Deltas /\ "get" \in Ops
    BY <1>5 DEF BeginGetBalance, Ops, Deltas
  <2> DEFINE q == Asked(r, "get", o, 0)
  <2>3. /\ Fitting(q) /\ q \in RequestType /\ q.op = "get" /\ q.owner = o
        /\ q.row = NoRow /\ q.balance = 0 /\ ~q.frozen
    BY <2>2, AskedFits DEF Fitting
  <2>4. Miss(r, q, "commit") \/ (/\ req' = [req EXCEPT ![r] = q]
                                 /\ pc' = [pc EXCEPT ![r] = "commit"]
                                 /\ contested' = contested \cup {o}
                                 /\ UNCHANGED <<tables, raced>>)
    BY <2>1
  <2> HIDE DEF q
  <2> QED
    BY <2>2, <2>3, <2>4 DEF Missed, Misread
<1>6. CASE BeginCreateWallet(r)
  <2>1. PICK o \in Owners, b \in {0} \cup Amounts \cup Minus :
          Miss(r, Asked(r, "create", o, b), "commit")
    BY <1>6 DEF BeginCreateWallet
  <2>2. pc[r] = "idle" /\ b \in Deltas /\ "create" \in Ops
    BY <1>6 DEF BeginCreateWallet, Ops, Deltas
  <2> DEFINE q == Asked(r, "create", o, b)
  <2>3. /\ Fitting(q) /\ q \in RequestType /\ q.op = "create"
        /\ q.row = NoRow /\ q.balance = 0 /\ ~q.frozen
    BY <2>2, AskedFits DEF Fitting
  <2>4. Miss(r, q, "commit")
    BY <2>1
  <2> HIDE DEF q
  <2> QED
    BY <2>2, <2>3, <2>4 DEF Missed
<1>7. CASE BeginAdjustOwner(r)
  <2>1. PICK o \in Owners, d \in Amounts \cup Minus :
          \/ \E w \in Found(o) :
               /\ req' = [req EXCEPT ![r] = [Asked(r, "update", o, d) EXCEPT !.row = w]]
               /\ pc' = [pc EXCEPT ![r] = "read"]
               /\ UNCHANGED <<tables, raced, contested>>
          \/ Miss(r, Asked(r, "update", o, d), "insert")
    BY <1>7 DEF BeginAdjustOwner
  <2>2. pc[r] = "idle" /\ d \in Deltas /\ "update" \in Ops
    BY <1>7, AmountsFit DEF BeginAdjustOwner, Ops
  <2> DEFINE p == Asked(r, "update", o, d)
  <2>3. /\ Fitting(p) /\ p \in RequestType /\ p.op = "update" /\ p.owner = o
        /\ p.row = NoRow /\ p.balance = 0 /\ ~p.frozen /\ p.card \notin Cards
    BY <2>2, AskedFits DEF Fitting
  <2>4. \/ \E w \in Found(o) : /\ req' = [req EXCEPT ![r] = [p EXCEPT !.row = w]]
                               /\ pc' = [pc EXCEPT ![r] = "read"]
                               /\ UNCHANGED <<tables, raced, contested>>
        \/ Miss(r, p, "insert")
    BY <2>1
  <2> HIDE DEF p
  <2>5. ASSUME Miss(r, p, "insert") PROVE Missed(r, p, "insert")
    BY <2>2, <2>3, <2>5 DEF Missed
  <2>6. ASSUME NEW w \in Found(o), req' = [req EXCEPT ![r] = [p EXCEPT !.row = w]],
               pc' = [pc EXCEPT ![r] = "read"], UNCHANGED <<tables, raced, contested>>
        PROVE  \E q \in RequestType, v \in Rows : Picked(r, q, v)
    <3>1. w \in Rows
      BY FoundIs
    <3> DEFINE q == [p EXCEPT !.row = w]
    <3>2. q \in RequestType /\ q.op = "update" /\ q.owner = o /\ q.row = w /\ q.card = p.card
      BY <2>3, <3>1 DEF RequestType
    <3>3. req' = [req EXCEPT ![r] = q]
      BY <2>6
    <3> HIDE DEF q
    <3>4. Picked(r, q, w)
      BY <2>2, <2>3, <2>6, <3>2, <3>3 DEF Picked, Fitting
    <3> QED
      BY <3>1, <3>2, <3>4
  <2> QED
    BY <2>3, <2>4, <2>5, <2>6
<1>8. CASE ReadForAdjust(r)
  <2>1. PICK w \in Rows :
          /\ Live(w)
          /\ \/ /\ pc[r] = "idle"
                /\ \E d \in Amounts \cup Minus :
                     /\ Wrap(wallets[w].balance + d) >= 0
                     /\ Hold(r, Asked(r, "update", wallets[w].owner, d), w)
             \/ /\ pc[r] = "read" /\ w = req[r].row
                /\ Wrap(wallets[w].balance + req[r].amount) >= 0
                /\ Hold(r, req[r], w)
    BY <1>8 DEF ReadForAdjust
  <2>2. wallets[w].owner \in Owners /\ "update" \in Ops
    BY DEF TypeOK, WalletType, Ops
  <2>3. ASSUME pc[r] = "idle", NEW d \in Amounts \cup Minus,
               Wrap(wallets[w].balance + d) >= 0,
               Hold(r, Asked(r, "update", wallets[w].owner, d), w)
        PROVE  \E q \in RequestType : Held(r, q, w)
    <3> DEFINE q == Asked(r, "update", wallets[w].owner, d)
    <3>1. d \in Deltas
      BY AmountsFit
    <3>2. /\ Fitting(q) /\ q \in RequestType /\ q.op = "update" /\ q.amount = d
          /\ q.owner = wallets[w].owner
      BY <2>2, <2>3, <3>1, AskedFits DEF Fitting
    <3>3. Hold(r, q, w)
      BY <2>3
    <3> HIDE DEF q
    <3> QED
      BY <2>1, <2>3, <3>2, <3>3 DEF Held, Checked
  <2>4. ASSUME pc[r] = "read", w = req[r].row,
               Wrap(wallets[w].balance + req[r].amount) >= 0, Hold(r, req[r], w)
        PROVE  req[r] \in RequestType /\ Held(r, req[r], w)
    <3>1. req[r] \in RequestType /\ Formed(r)
      BY DEF TypeOK
    <3>2. req[r].op = "update" /\ req[r].card \notin Cards /\ wallets[w].owner = req[r].owner
      BY <2>4, <3>1 DEF Formed
    <3> QED
      BY <2>1, <2>4, <3>1, <3>2 DEF Held, Checked, Fitting
  <2> QED
    BY <2>1, <2>3, <2>4
<1>9. CASE BeginDelete(r)
  <2>1. PICK w \in Rows : /\ Live(w) /\ wallets[w].balance <= 0
                          /\ Hold(r, Asked(r, "delete", wallets[w].owner, 0), w)
    BY <1>9 DEF BeginDelete
  <2>2. /\ pc[r] = "idle" /\ 0 \in Deltas /\ "delete" \in Ops
        /\ wallets[w].owner \in Owners
    BY <1>9 DEF BeginDelete, Ops, Deltas, TypeOK, WalletType
  <2> DEFINE q == Asked(r, "delete", wallets[w].owner, 0)
  <2>3. /\ Fitting(q) /\ q \in RequestType /\ q.op = "delete" /\ q.owner = wallets[w].owner
    BY <2>2, AskedFits DEF Fitting
  <2>4. Hold(r, q, w)
    BY <2>1
  <2> HIDE DEF q
  <2> QED
    BY <2>1, <2>2, <2>3, <2>4 DEF Held, Checked
<1> QED
  BY <1>1, <1>2, <1>3, <1>4, <1>5, <1>6, <1>7, <1>8, <1>9 DEF Begin

-----------------------------------------------------------------------------
(* Types.                                                                  *)

TypeBody ==
  /\ wallets \in [Rows -> WalletType]
  /\ booked \in [Rows -> Int]
  /\ cards \in [Cards -> {"active", "redeemed", "invalid"}]
  /\ expired \subseteq Cards
  /\ pc \in [Requests -> {"idle", "commit", "insert", "read", "book", "done", "failed"}]
  /\ req \in [Requests -> RequestType]
  /\ paid \in [Cards -> Nat]
  /\ ordered \in [Rows -> {"open", "frozen", "deleted"}]
  /\ raced \subseteq Rows /\ contested \subseteq Owners /\ overflowed \subseteq Rows

LEMMA InitType == Init => TypeOK
<1> SUFFICES ASSUME Init PROVE TypeOK
  OBVIOUS
<1>1. PICK opened \in SUBSET Owners, b \in [Owners -> {0} \cup Amounts] :
       /\ wallets = [w \in Rows |->
                       [owner |-> IF w \in Owners THEN w ELSE CHOOSE o \in Owners : TRUE,
                        balance |-> IF w \in opened THEN b[w] ELSE 0, frozen |-> FALSE,
                        status |-> IF w \in opened THEN "live" ELSE "absent"]]
       /\ booked = [w \in Rows |-> IF w \in opened THEN b[w] ELSE 0]
  BY DEF Init
<1>2. (CHOOSE o \in Owners : TRUE) \in Owners
  BY WalletAssumption
<1>3. \A w \in opened : b[w] \in Int64 /\ b[w] \in Int
  BY AmountsFit DEF Deltas
<1>4. wallets \in [Rows -> WalletType] /\ booked \in [Rows -> Int]
  BY <1>1, <1>2, <1>3, AmountsFit DEF WalletType
<1>5. req \in [Requests -> RequestType] /\ \A r \in Requests :
        req[r].op = "get" /\ req[r].row = NoRow /\ req[r].card = NoRow
        /\ req[r].balance = 0 /\ ~req[r].frozen /\ pc[r] = "idle"
  BY <1>2, AmountsFit DEF Init, RequestType, Ops, Deltas
<1>6. \A r \in Requests : wallets[r].status = "absent"
  BY <1>1, WalletAssumption DEF Rows
<1>7. NoRow \notin Cards
  BY WalletAssumption
<1>8. TypeBody
  BY <1>4, <1>5 DEF Init, TypeBody
<1> QED
  BY <1>5, <1>6, <1>7, <1>8 DEF TypeOK, TypeBody, Formed

LEMMA RequestTypes ==
  ASSUME TypeOK, NEW r \in Requests
  PROVE  /\ req[r] \in RequestType /\ Formed(r) /\ r \in Rows
         /\ req[r].amount \in Int64 /\ req[r].amount \in Int /\ req[r].owner \in Owners
         /\ req[r].balance \in Int64 /\ req[r].balance \in Int /\ req[r].frozen \in BOOLEAN
         /\ req[r].row \in Rows \cup {NoRow}
         /\ req[r].op \in Ops /\ req[r].card \in Cards \cup {NoRow}
  BY AmountsFit, RowsAre DEF TypeOK, RequestType

LEMMA RowTypes ==
  ASSUME TypeOK, NEW w \in Rows
  PROVE  /\ wallets[w] \in WalletType /\ wallets[w].balance \in Int64
         /\ wallets[w].balance \in Int /\ booked[w] \in Int
         /\ wallets[w].owner \in Owners /\ wallets[w].frozen \in BOOLEAN
  BY AmountsFit DEF TypeOK, WalletType

(* Rows keep their owners and stay in the table once they are there.       *)
Kept == \A w \in Rows : wallets[w].status # "absent" =>
          wallets'[w].status # "absent" /\ wallets'[w].owner = wallets[w].owner

LEMMA OthersFormed ==
  ASSUME TypeOK, NEW r \in Requests, NEW s \in Requests \ {r}, Kept,
         pc'[s] = pc[s], req'[s] = req[s], wallets'[s] = wallets[s]
  PROVE  Formed(s)'
<1>1. Formed(s) /\ req[s].row \in Rows \cup {NoRow}
  BY RequestTypes
<1> QED
  BY <1>1 DEF Formed, Kept

LEMMA HeldType ==
  ASSUME TypeOK, NEW r \in Requests, NEW q \in RequestType, NEW w \in Rows, Held(r, q, w)
  PROVE  TypeOK'
<1>1. /\ wallets' = wallets /\ booked' = booked /\ cards' = cards /\ expired' = expired
      /\ paid' = paid /\ ordered' = ordered /\ overflowed' = overflowed
      /\ contested' = contested
      /\ pc' = [pc EXCEPT ![r] = "commit"]
      /\ req' = [req EXCEPT ![r] = [q EXCEPT !.row = w, !.balance = wallets[w].balance,
                                             !.frozen = wallets[w].frozen]]
      /\ raced' \subseteq raced \cup {w} /\ Live(w) /\ Fitting(q) /\ Checked(q, w)
  BY DEF Held, Hold
<1> DEFINE u == [q EXCEPT !.row = w, !.balance = wallets[w].balance,
                          !.frozen = wallets[w].frozen]
<1>2. /\ u \in RequestType /\ u.row = w /\ u.op = q.op /\ u.owner = q.owner
      /\ u.card = q.card /\ u.balance = wallets[w].balance
  BY RowTypes DEF RequestType
<1> HIDE DEF u
<1>3. TypeBody'
  BY <1>1, <1>2 DEF TypeOK, TypeBody, u
<1>4. Kept
  BY <1>1 DEF Kept
<1>5. Formed(r)'
  <2>1. req'[r] = u /\ pc'[r] = "commit"
    BY <1>1 DEF TypeOK, u
  <2> QED
    BY <1>1, <1>2, <2>1, RowsAre DEF Formed, Fitting, Checked, Live
<1>6. \A s \in Requests \ {r} : Formed(s)'
  BY <1>1, <1>4, OthersFormed DEF TypeOK
<1> QED
  BY <1>3, <1>5, <1>6 DEF TypeOK, TypeBody

LEMMA BeginsType ==
  ASSUME TypeOK, NEW r \in Requests, NEW q \in RequestType,
         \/ \E next \in {"commit", "insert"} : Missed(r, q, next)
         \/ Misread(r, q)
         \/ \E w \in Rows : Picked(r, q, w)
  PROVE  TypeOK'
<1>1. /\ wallets' = wallets /\ booked' = booked /\ cards' = cards /\ expired' = expired
      /\ paid' = paid /\ ordered' = ordered /\ overflowed' = overflowed /\ raced' = raced
      /\ contested' \subseteq contested \cup {q.owner}
      /\ req' = [req EXCEPT ![r] = q] /\ pc[r] = "idle" /\ Fitting(q)
  BY DEF Missed, Miss, Misread, Picked
<1>2. /\ pc' = [pc EXCEPT ![r] = pc'[r]] /\ pc'[r] \in {"commit", "insert", "read"}
      /\ pc'[r] = "insert" => q.op = "update" /\ q.row = NoRow
      /\ pc'[r] = "read" => q.op = "update" /\ q.row \in Found(q.owner) /\ q.row # NoRow
      /\ pc'[r] = "commit" => q.op \notin {"update", "delete"} /\ q.row = NoRow
      /\ q.row = NoRow => q.balance = 0 /\ ~q.frozen
  <2>1. pc \in [Requests -> {"idle", "commit", "insert", "read", "book", "done", "failed"}]
    BY DEF TypeOK
  <2>2. CASE \E next \in {"commit", "insert"} : Missed(r, q, next)
    BY <2>1, <2>2 DEF Missed, Miss
  <2>3. CASE Misread(r, q)
    BY <2>1, <2>3 DEF Misread
  <2>4. CASE \E w \in Rows : Picked(r, q, w)
    BY <2>1, <2>4, RowsAre DEF Picked
  <2> QED
    BY <2>2, <2>3, <2>4
<1>3. q.owner \in Owners
  BY DEF RequestType
<1>4. TypeBody'
  BY <1>1, <1>2, <1>3 DEF TypeOK, TypeBody
<1>5. Kept
  BY <1>1 DEF Kept
<1>6. wallets[r].status = "absent"
  BY <1>1, RequestTypes DEF Formed
<1>7. Formed(r)'
  <2>1. req'[r] = q
    BY <1>1 DEF TypeOK
  <2>2. q.row # NoRow => wallets[q.row].status # "absent" /\ wallets[q.row].owner = q.owner
    BY <1>2, <1>3, FoundIs DEF Live, RequestType
  <2> QED
    BY <1>1, <1>2, <1>6, <2>1, <2>2 DEF Formed, Fitting
<1>8. \A s \in Requests \ {r} : Formed(s)'
  BY <1>1, <1>2, <1>5, OthersFormed DEF TypeOK
<1> QED
  BY <1>4, <1>7, <1>8 DEF TypeOK, TypeBody

(* A request ends, or goes on without reading a row.                       *)
LEMMA FinishType ==
  ASSUME TypeOK, NEW r \in Requests,
         NEW next \in {"done", "failed", "read", "book"}, pc' = [pc EXCEPT ![r] = next],
         req' = req \/ (next = "read" /\ req' = [req EXCEPT ![r].row = r]),
         next = "read" => req[r].op = "update" /\ wallets'[r].owner = req[r].owner
                          /\ wallets'[r].status # "absent" /\ req' # req,
         next = "book" => req[r].op = "create" /\ req[r].amount > 0
                          /\ wallets'[r].status # "absent",
         \A s \in Requests \ {r} : wallets'[s] = wallets[s] \/ wallets[s].status # "absent",
         Kept
  PROVE  /\ req' \in [Requests -> RequestType]
         /\ pc' \in [Requests -> {"idle", "commit", "insert", "read", "book", "done", "failed"}]
         /\ \A s \in Requests : Formed(s)'
<1>1. /\ pc \in [Requests -> {"idle", "commit", "insert", "read", "book", "done", "failed"}]
      /\ req \in [Requests -> RequestType] /\ req[r] \in RequestType /\ r \in Rows
      /\ \A s \in Requests : Formed(s) /\ req[s].row \in Rows \cup {NoRow}
  BY RequestTypes DEF TypeOK
<1>2. pc' \in [Requests -> {"idle", "commit", "insert", "read", "book", "done", "failed"}]
      /\ pc'[r] = next /\ \A s \in Requests \ {r} : pc'[s] = pc[s]
  BY <1>1
<1>3. /\ req' \in [Requests -> RequestType]
      /\ \A s \in Requests \ {r} : req'[s] = req[s]
      /\ req'[r].op = req[r].op /\ req'[r].card = req[r].card /\ req'[r].owner = req[r].owner
      /\ req'[r].amount = req[r].amount /\ req'[r].balance = req[r].balance
      /\ req'[r].frozen = req[r].frozen
      /\ req'[r].row = IF next = "read" THEN r ELSE req[r].row
  <2>1. CASE req' = req /\ next # "read"
    BY <1>1, <2>1
  <2>2. CASE next = "read" /\ req' = [req EXCEPT ![r].row = r]
    BY <1>1, <2>2 DEF RequestType
  <2> QED
    BY <2>1, <2>2
<1>4. Formed(r)'
  BY <1>1, <1>2, <1>3, RowsAre DEF Formed, Kept
<1>5. ASSUME NEW s \in Requests \ {r} PROVE Formed(s)'
  <2>1. Formed(s) /\ req[s].row \in Rows \cup {NoRow} /\ s \in Rows
    BY <1>1, RowsAre
  <2>2. wallets[s].status # "absent" => wallets'[s].status # "absent"
    BY <2>1 DEF Kept
  <2> QED
    BY <1>2, <1>3, <2>1, <2>2 DEF Formed, Kept
<1> QED
  BY <1>2, <1>3, <1>4, <1>5

LEMMA WriteType ==
  ASSUME TypeOK, NEW w \in Rows, NEW v \in WalletType, NEW a \in Int, Write(w, v, a),
         v.status # "absent" \/ v = wallets[w],
         v.owner = wallets[w].owner \/ wallets[w].status = "absent"
  PROVE  /\ wallets' \in [Rows -> WalletType] /\ booked' \in [Rows -> Int] /\ Kept
         /\ wallets'[w] = v /\ booked'[w] = booked[w] + a
         /\ \A u \in Rows \ {w} : wallets'[u] = wallets[u] /\ booked'[u] = booked[u]
  BY DEF TypeOK, Write, Kept

LEMMA RowFields ==
  ASSUME NEW o \in Owners, NEW b \in Int64, NEW f \in BOOLEAN
  PROVE  /\ Row(o, b, f) \in WalletType /\ Row(o, b, f).owner = o
         /\ Row(o, b, f).balance = b /\ Row(o, b, f).frozen = f
         /\ Row(o, b, f).status = "live"
  BY DEF Row, WalletType

(* The row a commit writes.                                                *)
Target(r) == IF req[r].row = NoRow THEN r ELSE req[r].row

LEMMA TargetIs ==
  ASSUME TypeOK, NEW r \in Requests
  PROVE  /\ Target(r) \in Rows
         /\ req[r].row # NoRow => Target(r) = req[r].row
                                 /\ wallets[Target(r)].status # "absent"
                                 /\ wallets[Target(r)].owner = req[r].owner
         /\ pc[r] \in {"commit", "insert"} /\ req[r].row = NoRow =>
              Target(r) = r /\ wallets[r].status = "absent"
              /\ req[r].balance = 0 /\ req[r].frozen = FALSE
  BY RequestTypes DEF Target, Formed

(* What each commit does, with its new row spelled out.                    *)
LEMMA SaveIs ==
  ASSUME TypeOK, NEW r \in Requests, CommitSave(r)
  PROVE  LET q == req[r]
             n == q.balance + q.amount
             w == Target(r)
         IN /\ pc[r] = "commit" /\ q.op = "save"
            /\ n \in Int /\ Wrap(n) \in Int64 /\ (n \in Int64 => Wrap(n) = n)
            /\ Write(w, Row(q.owner, Wrap(n), q.frozen), q.amount)
            /\ overflowed' = Passed(w, n)
            /\ pc' = [pc EXCEPT ![r] = "done"]
            /\ UNCHANGED <<raced, contested, cards, expired, req, paid, ordered>>
  BY RequestTypes, WrapFits DEF CommitSave, Target, Finish

NewRow(r) ==
  LET q == req[r] IN
  IF q.row = NoRow THEN Row(q.owner, q.amount, FALSE)
  ELSE IF Live(q.row) THEN [wallets[q.row] EXCEPT !.balance = Wrap(q.balance + q.amount)]
  ELSE wallets[q.row]

LEMMA NewRowFields ==
  ASSUME TypeOK, NEW r \in Requests, pc[r] = "commit"
  PROVE  LET v == NewRow(r)
             n == req[r].balance + req[r].amount
         IN /\ n \in Int /\ Wrap(n) \in Int64 /\ (n \in Int64 => Wrap(n) = n)
            /\ v \in WalletType
            /\ v.status = IF req[r].row = NoRow THEN "live" ELSE wallets[req[r].row].status
            /\ v.owner = req[r].owner
            /\ v.frozen = IF req[r].row = NoRow THEN FALSE ELSE wallets[req[r].row].frozen
            /\ v.balance = IF req[r].row = NoRow \/ Live(req[r].row) THEN Wrap(n)
                           ELSE wallets[req[r].row].balance
            /\ req[r].row # NoRow /\ ~Live(req[r].row) => v = wallets[req[r].row]
<1>1. /\ req[r].balance + req[r].amount \in Int
      /\ Wrap(req[r].balance + req[r].amount) \in Int64
      /\ req[r].balance + req[r].amount \in Int64 =>
           Wrap(req[r].balance + req[r].amount) = req[r].balance + req[r].amount
  BY RequestTypes, WrapFits
<1>2. CASE req[r].row = NoRow
  <2>1. req[r].balance = 0 /\ req[r].amount \in Int64 /\ req[r].owner \in Owners
    BY <1>2, TargetIs, RequestTypes
  <2>2. Wrap(req[r].balance + req[r].amount) = req[r].amount
    BY <1>1, <2>1, AmountsFit
  <2> DEFINE v == Row(req[r].owner, req[r].amount, FALSE)
  <2>3. /\ v \in WalletType /\ v.owner = req[r].owner /\ v.balance = req[r].amount
        /\ v.frozen = FALSE /\ v.status = "live"
    BY <2>1, RowFields
  <2>4. NewRow(r) = v
    BY <1>2 DEF NewRow
  <2> HIDE DEF v
  <2> QED
    BY <1>1, <1>2, <2>2, <2>3, <2>4
<1>3. CASE req[r].row # NoRow /\ ~Live(req[r].row)
  BY <1>1, <1>3, TargetIs, RowTypes DEF NewRow
<1>4. CASE req[r].row # NoRow /\ Live(req[r].row)
  <2>1. wallets[req[r].row] \in WalletType /\ wallets[req[r].row].owner = req[r].owner
    BY <1>4, TargetIs, RowTypes
  <2> DEFINE v == [wallets[req[r].row] EXCEPT !.balance = Wrap(req[r].balance + req[r].amount)]
  <2>2. /\ v \in WalletType /\ v.balance = Wrap(req[r].balance + req[r].amount)
        /\ v.owner = req[r].owner /\ v.frozen = wallets[req[r].row].frozen
        /\ v.status = wallets[req[r].row].status
    BY <1>1, <2>1 DEF WalletType
  <2>3. NewRow(r) = v
    BY <1>4 DEF NewRow
  <2> HIDE DEF v
  <2> QED
    BY <1>1, <1>4, <2>2, <2>3
<1> QED
  BY <1>2, <1>3, <1>4

LEMMA RedeemIs ==
  ASSUME TypeOK, NEW r \in Requests, CommitRedeem(r)
  PROVE  LET q == req[r] IN
         /\ pc[r] = "commit" /\ q.op = "redeem" /\ q.card \in Cards
         /\ Write(Target(r), NewRow(r), q.amount)
         /\ overflowed' = Passed(Target(r), q.balance + q.amount)
         /\ cards' = [cards EXCEPT ![q.card] = "redeemed"]
         /\ paid' = [paid EXCEPT ![q.card] = @ + 1]
         /\ pc' = [pc EXCEPT ![r] = "done"]
         /\ UNCHANGED <<raced, contested, expired, req, ordered>>
<1>1. pc[r] = "commit" /\ req[r].op = "redeem" /\ req[r].card \in Cards
  BY RequestTypes DEF CommitRedeem, Formed
<1>2. Wrap(req[r].amount) = req[r].amount
  BY RequestTypes, AmountsFit
<1>3. UpdateBalance(req[r], Target(r))
  BY DEF CommitRedeem, Target
<1>4. Write(Target(r), NewRow(r), req[r].amount)
      /\ overflowed' = Passed(Target(r), req[r].balance + req[r].amount)
  BY <1>2, <1>3 DEF UpdateBalance, NewRow, Target
<1> QED
  BY <1>1, <1>4 DEF CommitRedeem, Finish

LEMMA AdjustIs ==
  ASSUME TypeOK, NEW r \in Requests, CommitAdjust(r)
  PROVE  LET q == req[r] IN
         /\ pc[r] = "commit" /\ q.op = "update" /\ q.row # NoRow
         /\ Write(Target(r), NewRow(r), q.amount)
         /\ overflowed' = Passed(Target(r), q.balance + q.amount)
         /\ pc' = [pc EXCEPT ![r] = "done"]
         /\ UNCHANGED <<raced, contested, cards, paid, expired, req, ordered>>
<1>1. pc[r] = "commit" /\ req[r].op = "update" /\ req[r].row # NoRow
  BY RequestTypes DEF CommitAdjust, Formed
<1>2. UpdateBalance(req[r], Target(r))
  BY <1>1 DEF CommitAdjust, Target
<1>3. Write(Target(r), NewRow(r), req[r].amount)
      /\ overflowed' = Passed(Target(r), req[r].balance + req[r].amount)
  BY <1>1, <1>2 DEF UpdateBalance, NewRow, Target
<1> QED
  BY <1>1, <1>3 DEF CommitAdjust, Finish

(* The three statements that only insert a wallet.                         *)
Inserts(r) == CommitGetBalance(r) \/ InsertForAdjust(r) \/ CommitCreateWallet(r)

Opening(r) == IF req[r].op = "create" THEN req[r].amount ELSE 0

LEMMA InsertIs ==
  ASSUME TypeOK, NEW r \in Requests, Inserts(r)
  PROVE  /\ pc[r] \in {"commit", "insert"} /\ req[r].row = NoRow
         /\ wallets[r].status = "absent" /\ Opening(r) \in Int64 /\ Opening(r) \in Int
         /\ Write(r, Row(req[r].owner, Opening(r), FALSE), 0)
         /\ UNCHANGED <<raced, contested, cards, expired, paid, ordered, overflowed>>
         /\ \/ /\ req' = req /\ req[r].op \in {"get", "create"}
               /\ pc' = [pc EXCEPT ![r] = IF Opening(r) > 0 THEN "book" ELSE "done"]
            \/ /\ pc' = [pc EXCEPT ![r] = "read"] /\ req[r].op = "update"
               /\ req' = [req EXCEPT ![r].row = r]
<1>1. /\ Formed(r) /\ req[r].amount \in Int64 /\ req[r].amount \in Int
      /\ 0 \in Int64
  BY RequestTypes, AmountsFit
<1>2. CASE CommitGetBalance(r)
  <2>1. /\ pc[r] = "commit" /\ req[r].op = "get" /\ Opening(r) = 0 /\ ~(0 > 0)
        /\ InsertWallet(r, 0) /\ Finish(r, "done") /\ req' = req
    BY <1>2 DEF CommitGetBalance, Opening
  <2>2. req[r].row = NoRow /\ wallets[r].status = "absent"
    BY <1>1, <2>1 DEF Formed
  <2>3. /\ Write(r, Row(req[r].owner, Opening(r), FALSE), 0)
        /\ UNCHANGED <<raced, contested, cards, expired, paid, ordered, overflowed>>
        /\ pc' = [pc EXCEPT ![r] = "done"]
    BY <2>1 DEF InsertWallet, Finish
  <2>4. (IF Opening(r) > 0 THEN "book" ELSE "done") = "done"
    BY <2>1
  <2>5. pc' = [pc EXCEPT ![r] = IF Opening(r) > 0 THEN "book" ELSE "done"]
    BY <2>3, <2>4
  <2>6. Opening(r) \in Int64 /\ Opening(r) \in Int
    BY <1>1, <2>1
  <2> QED
    BY <2>1, <2>2, <2>3, <2>5, <2>6
<1>3. CASE InsertForAdjust(r)
  <2>1. /\ pc[r] = "insert" /\ InsertWallet(r, 0) /\ Finish(r, "read")
        /\ req' = [req EXCEPT ![r].row = r]
    BY <1>3 DEF InsertForAdjust
  <2>2. /\ req[r].op = "update" /\ req[r].row = NoRow /\ wallets[r].status = "absent"
        /\ Opening(r) = 0
    BY <1>1, <2>1 DEF Formed, Opening
  <2>3. /\ Write(r, Row(req[r].owner, Opening(r), FALSE), 0)
        /\ UNCHANGED <<raced, contested, cards, expired, paid, ordered, overflowed>>
        /\ pc' = [pc EXCEPT ![r] = "read"]
    BY <2>1, <2>2 DEF InsertWallet, Finish
  <2>4. Opening(r) \in Int64 /\ Opening(r) \in Int
    BY <1>1, <2>2
  <2> QED
    BY <2>1, <2>2, <2>3, <2>4
<1>4. CASE CommitCreateWallet(r)
  <2>1. /\ pc[r] = "commit" /\ req[r].op = "create" /\ Opening(r) = req[r].amount
        /\ InsertWallet(r, Opening(r)) /\ req' = req
        /\ Finish(r, IF Opening(r) > 0 THEN "book" ELSE "done")
    BY <1>4 DEF CommitCreateWallet, Opening
  <2>2. req[r].row = NoRow /\ wallets[r].status = "absent"
    BY <1>1, <2>1 DEF Formed
  <2> QED
    BY <1>1, <2>1, <2>2 DEF InsertWallet, Finish
<1> QED
  BY <1>2, <1>3, <1>4 DEF Inserts

LEMMA PassedType ==
  ASSUME TypeOK, NEW w \in Rows, NEW n
  PROVE  Passed(w, n) \subseteq Rows /\ overflowed \subseteq Passed(w, n)
         /\ (w \notin Passed(w, n) => n \in Int64)
  BY DEF Passed, TypeOK

LEMMA TypeStep == TypeOK /\ [Next]_vars => TypeOK'
<1> SUFFICES ASSUME TypeOK, [Next]_vars PROVE TypeOK'
  OBVIOUS
<1>1. ASSUME NEW r \in Requests, Begin(r) PROVE TypeOK'
  BY <1>1, BeginCases, HeldType, BeginsType
<1>2. ASSUME NEW r \in Requests, CommitSave(r) PROVE TypeOK'
  <2> DEFINE q == req[r]
             n == q.balance + q.amount
             w == Target(r)
             v == Row(q.owner, Wrap(n), q.frozen)
  <2>1. /\ pc[r] = "commit" /\ Wrap(n) \in Int64 /\ Write(w, v, q.amount)
        /\ overflowed' = Passed(w, n) /\ pc' = [pc EXCEPT ![r] = "done"]
        /\ UNCHANGED <<raced, contested, cards, expired, req, paid, ordered>>
    BY <1>2, SaveIs
  <2>2. v \in WalletType /\ v.status = "live" /\ v.owner = q.owner
    BY <2>1, RequestTypes, RowFields
  <2>3. /\ w \in Rows
        /\ \/ w = r /\ wallets[r].status = "absent"
           \/ wallets[w].owner = q.owner /\ wallets[w].status # "absent"
    <3>1. CASE req[r].row = NoRow
      <4>1. /\ Target(r) \in Rows
            /\ pc[r] \in {"commit", "insert"} /\ req[r].row = NoRow =>
                 Target(r) = r /\ wallets[r].status = "absent"
        BY TargetIs
      <4>2. pc[r] \in {"commit", "insert"}
        BY <2>1
      <4> QED
        BY <3>1, <4>1, <4>2
    <3>2. CASE req[r].row # NoRow
      BY <3>2, TargetIs
    <3> QED
      BY <3>1, <3>2
  <2>4. q.amount \in Int
    BY RequestTypes
  <2> HIDE DEF q, n, w, v
  <2>5. /\ wallets' \in [Rows -> WalletType] /\ booked' \in [Rows -> Int] /\ Kept
        /\ \A u \in Rows \ {w} : wallets'[u] = wallets[u]
    BY <2>1, <2>2, <2>3, <2>4, WriteType
  <2>6. \A s \in Requests \ {r} : wallets'[s] = wallets[s] \/ wallets[s].status # "absent"
    BY <2>3, <2>5, RowsAre
  <2>7. \A s \in Requests : Formed(s)'
    BY <2>1, <2>5, <2>6, FinishType
  <2> QED
    BY <2>1, <2>3, <2>5, <2>7, PassedType DEF TypeOK
<1>3. ASSUME NEW r \in Requests, CommitRedeem(r) \/ CommitAdjust(r) PROVE TypeOK'
  <2> DEFINE w == Target(r)
             v == NewRow(r)
             n == req[r].balance + req[r].amount
  <2>1. /\ pc[r] = "commit" /\ Write(w, v, req[r].amount) /\ overflowed' = Passed(w, n)
        /\ pc' = [pc EXCEPT ![r] = "done"]
        /\ UNCHANGED <<raced, contested, expired, req, ordered>>
        /\ cards' \in [Cards -> {"active", "redeemed", "invalid"}]
        /\ paid' \in [Cards -> Nat]
    <3>1. CASE CommitRedeem(r)
      <4>1. /\ cards \in [Cards -> {"active", "redeemed", "invalid"}]
            /\ paid \in [Cards -> Nat]
        BY DEF TypeOK
      <4> QED
        BY <3>1, <4>1, RedeemIs
    <3>2. CASE CommitAdjust(r)
      BY <3>2, AdjustIs DEF TypeOK
    <3> QED
      BY <1>3, <3>1, <3>2
  <2>2. /\ v \in WalletType /\ (v.status # "absent" \/ v = wallets[w])
        /\ v.owner = req[r].owner /\ req[r].amount \in Int
    BY <2>1, NewRowFields, RequestTypes, TargetIs
  <2>3. /\ w \in Rows
        /\ \/ w = r /\ wallets[r].status = "absent"
           \/ wallets[w].owner = req[r].owner /\ wallets[w].status # "absent"
    <3>1. CASE req[r].row = NoRow
      <4>1. /\ Target(r) \in Rows
            /\ pc[r] \in {"commit", "insert"} /\ req[r].row = NoRow =>
                 Target(r) = r /\ wallets[r].status = "absent"
        BY TargetIs
      <4>2. pc[r] \in {"commit", "insert"}
        BY <2>1
      <4> QED
        BY <3>1, <4>1, <4>2
    <3>2. CASE req[r].row # NoRow
      BY <3>2, TargetIs
    <3> QED
      BY <3>1, <3>2
  <2> HIDE DEF n, w, v
  <2>5. /\ wallets' \in [Rows -> WalletType] /\ booked' \in [Rows -> Int] /\ Kept
        /\ \A u \in Rows \ {w} : wallets'[u] = wallets[u]
    BY <2>1, <2>2, <2>3, WriteType
  <2>6. \A s \in Requests \ {r} : wallets'[s] = wallets[s] \/ wallets[s].status # "absent"
    BY <2>3, <2>5, RowsAre
  <2>7. \A s \in Requests : Formed(s)'
    BY <2>1, <2>5, <2>6, FinishType
  <2> QED
    BY <2>1, <2>3, <2>5, <2>7, PassedType DEF TypeOK
<1>4. ASSUME NEW r \in Requests, Inserts(r) PROVE TypeOK'
  <2> DEFINE v == Row(req[r].owner, Opening(r), FALSE)
  <2>1. /\ wallets[r].status = "absent" /\ Opening(r) \in Int64 /\ Write(r, v, 0)
        /\ UNCHANGED <<raced, contested, cards, expired, paid, ordered, overflowed>>
        /\ \/ /\ req' = req /\ req[r].op \in {"get", "create"}
              /\ pc' = [pc EXCEPT ![r] = IF Opening(r) > 0 THEN "book" ELSE "done"]
           \/ /\ pc' = [pc EXCEPT ![r] = "read"] /\ req[r].op = "update"
              /\ req' = [req EXCEPT ![r].row = r]
        /\ req[r].row = NoRow
    BY <1>4, InsertIs
  <2>2. v \in WalletType /\ v.status = "live" /\ v.owner = req[r].owner
    <3>1. req[r].owner \in Owners /\ Opening(r) \in Int64 /\ FALSE \in BOOLEAN
      BY <2>1, RequestTypes
    <3> QED
      BY <3>1, RowFields
  <2>3. r \in Rows /\ 0 \in Int
    BY RowsAre
  <2> HIDE DEF v
  <2>4. /\ wallets' \in [Rows -> WalletType] /\ booked' \in [Rows -> Int] /\ Kept
        /\ wallets'[r] = v /\ \A u \in Rows \ {r} : wallets'[u] = wallets[u]
    BY <2>1, <2>2, <2>3, WriteType
  <2>5. /\ \A s \in Requests \ {r} : wallets'[s] = wallets[s]
        /\ wallets'[r].status # "absent" /\ wallets'[r].owner = req[r].owner
    BY <2>2, <2>4, RowsAre
  <2>6. req' # req \/ (req' = req /\ req[r].op # "update")
    <3>1. req \in [Requests -> RequestType] /\ r # NoRow
      BY RowsAre DEF TypeOK
    <3>2. ASSUME req' = [req EXCEPT ![r].row = r] PROVE req' # req
      <4>1. req'[r].row = r
        BY <3>1, <3>2 DEF RequestType
      <4>2. req[r].row # req'[r].row
        BY <2>1, <3>1, <4>1
      <4> QED
        BY <4>2
    <3>3. CASE req' = req /\ req[r].op \in {"get", "create"}
      BY <3>3
    <3>4. CASE req' = [req EXCEPT ![r].row = r]
      BY <3>2, <3>4
    <3> QED
      BY <2>1, <3>3, <3>4
  <2>7. /\ req' \in [Requests -> RequestType]
        /\ pc' \in [Requests -> {"idle", "commit", "insert", "read", "book", "done", "failed"}]
        /\ \A s \in Requests : Formed(s)'
    <3>1. CASE /\ pc' = [pc EXCEPT ![r] = "read"] /\ req[r].op = "update"
               /\ req' = [req EXCEPT ![r].row = r]
      BY <2>4, <2>5, <2>6, <3>1, FinishType
    <3>2. CASE /\ req' = req /\ req[r].op \in {"get", "create"} /\ Opening(r) > 0
               /\ pc' = [pc EXCEPT ![r] = "book"]
      <4>1. req[r].op = "create" /\ req[r].amount > 0
        BY <3>2 DEF Opening
      <4> QED
        BY <2>4, <2>5, <3>2, <4>1, FinishType
    <3>3. CASE req' = req /\ pc' = [pc EXCEPT ![r] = "done"]
      BY <2>4, <2>5, <3>3, FinishType
    <3> QED
      BY <2>1, <3>1, <3>2, <3>3
  <2> QED
    BY <2>1, <2>4, <2>7 DEF TypeOK
<1>5. ASSUME NEW r \in Requests, BookInitial(r) \/ Abort(r) PROVE TypeOK'
  <2>1. /\ UNCHANGED <<wallets, cards, expired, paid, ordered, overflowed, raced, contested, req>>
        /\ \E next \in {"done", "failed"} : pc' = [pc EXCEPT ![r] = next]
        /\ booked' \in [Rows -> Int]
    <3>1. CASE BookInitial(r)
      <4>1. booked \in [Rows -> Int] /\ r \in Rows /\ req[r].amount \in Int
        BY RequestTypes DEF TypeOK
      <4> QED
        BY <3>1, <4>1 DEF BookInitial, Finish
    <3>2. CASE Abort(r)
      BY <3>2 DEF Abort, Finish, TypeOK
    <3> QED
      BY <1>5, <3>1, <3>2
  <2>2. Kept
    BY <2>1 DEF Kept
  <2>3. /\ pc' \in [Requests -> {"idle", "commit", "insert", "read", "book", "done", "failed"}]
        /\ \A s \in Requests : Formed(s)'
    BY <2>1, <2>2, FinishType
  <2> QED
    BY <2>1, <2>3 DEF TypeOK
<1>6. ASSUME NEW r \in Requests, CommitDelete(r) PROVE TypeOK'
  <2>1. pc[r] = "commit" /\ req[r].op = "delete" /\ req[r].row # NoRow
    BY <1>6, RequestTypes DEF CommitDelete, Formed
  <2> DEFINE w == req[r].row
  <2>2. w \in Rows /\ wallets[w] \in WalletType
    BY <2>1, TargetIs, RowTypes
  <2>3. /\ wallets' = [wallets EXCEPT ![w].status = "deleted"]
        /\ booked' = [booked EXCEPT ![w] = 0]
        /\ ordered' = [ordered EXCEPT ![w] = "deleted"]
        /\ pc' = [pc EXCEPT ![r] = "done"]
        /\ UNCHANGED <<cards, expired, req, paid, overflowed, raced, contested>>
    BY <1>6 DEF CommitDelete, Finish
  <2> HIDE DEF w
  <2>4. /\ wallets' \in [Rows -> WalletType] /\ wallets'[w].status = "deleted"
        /\ wallets'[w].owner = wallets[w].owner
        /\ \A u \in Rows \ {w} : wallets'[u] = wallets[u]
    BY <2>2, <2>3 DEF TypeOK, WalletType
  <2>5. Kept
    BY <2>4 DEF Kept
  <2>6. wallets[w].status # "absent"
    BY <2>1, TargetIs DEF w
  <2>7. \A s \in Requests : Formed(s)'
    BY <2>3, <2>4, <2>5, <2>6, RowsAre, FinishType
  <2> QED
    BY <2>2, <2>3, <2>4, <2>7 DEF TypeOK
<1>7. ASSUME NEW w \in Rows, NEW frozen \in BOOLEAN, SetFreeze(w, frozen) PROVE TypeOK'
  <2>1. /\ Live(w) /\ wallets' = [wallets EXCEPT ![w].frozen = frozen]
        /\ ordered' = [ordered EXCEPT ![w] = IF frozen THEN "frozen" ELSE "open"]
        /\ raced' \subseteq raced \cup {w}
        /\ UNCHANGED <<booked, cards, expired, pc, req, paid, contested, overflowed>>
    BY <1>7 DEF SetFreeze
  <2>2. /\ wallets' \in [Rows -> WalletType]
        /\ \A u \in Rows : wallets'[u].status = wallets[u].status
                           /\ wallets'[u].owner = wallets[u].owner
    BY <2>1 DEF TypeOK, WalletType
  <2>3. \A s \in Requests : Formed(s)'
    BY <2>1, <2>2, RequestTypes DEF Formed
  <2> QED
    BY <2>1, <2>2, <2>3 DEF TypeOK
<1>8. ASSUME NEW c \in Cards, InvalidateByID(c) \/ ExpireCard(c) PROVE TypeOK'
  <2>1. \A s \in Requests : Formed(s)'
    BY <1>8 DEF InvalidateByID, ExpireCard, TypeOK, Formed
  <2> QED
    BY <1>8, <2>1 DEF InvalidateByID, ExpireCard, TypeOK
<1>9. CASE UNCHANGED vars
  <2>1. \A s \in Requests : Formed(s)'
    BY <1>9 DEF vars, TypeOK, Formed
  <2> QED
    BY <1>9, <2>1 DEF vars, TypeOK
<1> QED
  BY <1>1, <1>2, <1>3, <1>4, <1>5, <1>6, <1>7, <1>8, <1>9 DEF Next, Step, Begin, Inserts

(* TypeOK holds in every reachable state.                                  *)
THEOREM WalletTypeCorrect == Spec => []TypeOK
  BY InitType, TypeStep, PTL DEF Spec
=============================================================================
