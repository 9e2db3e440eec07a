------------------------------- MODULE Wallet -------------------------------
(* Wallets and gift cards (service/wallet, service/giftcard,                *)
(* handler/admin/wallet).  Every operation reads a wallet's row without     *)
(* locking it and later writes what it has computed from that copy, in the  *)
(* same transaction or in a later one; only a gift card's row is locked.    *)
(* What a transaction writes others see at its commit, so an operation is a *)
(* read and a commit, with a few statements of their own before and after.  *)
EXTENDS Integers, FiniteSets

CONSTANTS Owners,     \* a user or team in its tenant, with one currency
          Cards,
          Requests,
          Amounts,
          Worth,      \* card -> its amount
          MaxInt,     \* the largest int64
          NoRow

(* A wallet's row is named after the request that inserted it, the one an   *)
(* owner has from before after the owner.                                   *)
Rows == Owners \cup Requests

ASSUME WalletAssumption ==
  /\ MaxInt \in Nat /\ Amounts \subseteq 1..MaxInt
  /\ Worth \in [Cards -> Amounts]
  /\ Owners # {} /\ Owners \cap Requests = {} /\ NoRow \notin Rows \cup Cards

VARIABLES
  wallets,    \* row -> [owner, balance, frozen, status]
  booked,     \* row -> sum of its wallet transactions
  cards,      \* card -> "active", "redeemed" or "invalid"
  expired,    \* cards past their expires_at
  pc,         \* request -> its next statement
  req,        \* request -> what it asks, and the row it has read
  \* History:
  paid,       \* card -> how many wallet transactions were written for it
  ordered,    \* row -> what an admin last made of it: "open", "frozen", "deleted"
  raced,      \* rows that one request read or changed while another was to write
  contested,  \* owners whom two requests found without a wallet at once, or for
              \* whom GetBalance took a failed lookup for that
  overflowed  \* rows whose balance once passed MaxInt

vars == <<wallets, booked, cards, expired, pc, req, paid, ordered, raced, contested,
          overflowed>>
tables == <<wallets, booked, cards, expired, paid, ordered, overflowed>>

Minus == {-a : a \in Amounts}

Int64 == (-MaxInt - 1)..MaxInt

(* Mutant of Wrap: integers have no end.                                    *)
Endless(n) == n

(* A sum of two int64.                                                      *)
Wrap(n) == IF n > MaxInt THEN n - 2 * (MaxInt + 1)
           ELSE IF n < -MaxInt - 1 THEN n + 2 * (MaxInt + 1) ELSE n

Live(w) == wallets[w].status = "live"
Found(o) == {w \in Rows : Live(w) /\ wallets[w].owner = o}

Init ==
  /\ \E opened \in SUBSET Owners, b \in [Owners -> {0} \cup Amounts] :
       /\ wallets = [w \in Rows |->
                       [owner |-> IF w \in Owners THEN w ELSE CHOOSE o \in Owners : TRUE,
                        balance |-> IF w \in opened THEN b[w] ELSE 0, frozen |-> FALSE,
                        status |-> IF w \in opened THEN "live" ELSE "absent"]]
       /\ booked = [w \in Rows |-> IF w \in opened THEN b[w] ELSE 0]
  /\ cards = [c \in Cards |-> "active"] /\ expired = {} /\ paid = [c \in Cards |-> 0]
  /\ pc = [r \in Requests |-> "idle"]
  /\ req = [r \in Requests |->
              [op |-> "get", owner |-> CHOOSE o \in Owners : TRUE, amount |-> 0,
               card |-> NoRow, row |-> NoRow, balance |-> 0,
               frozen |-> FALSE]]
  /\ ordered = [w \in Rows |-> "open"]
  /\ raced = {} /\ contested = {} /\ overflowed = {}

-----------------------------------------------------------------------------
(* Reads.                                                                   *)

(* Who is going to write a row it has read.                                 *)
Holders(w) == {r \in Requests : pc[r] = "commit" /\ req[r].row = w}

(* Who is going to insert a wallet.                                         *)
Missing(o) == {r \in Requests : /\ pc[r] \in {"commit", "insert"}
                                /\ req[r].row = NoRow /\ req[r].owner = o}

Asked(r, op, o, a) == [req[r] EXCEPT !.op = op, !.owner = o, !.amount = a]

(* Request q has read row w and goes on to write it.                        *)
Hold(r, q, w) ==
  /\ req' = [req EXCEPT ![r] = [q EXCEPT !.row = w, !.balance = wallets[w].balance,
                                         !.frozen = wallets[w].frozen]]
  /\ pc' = [pc EXCEPT ![r] = "commit"]
  /\ raced' = IF Holders(w) = {} THEN raced ELSE raced \cup {w}
  /\ UNCHANGED <<tables, contested>>

(* It has found no wallet and goes on to insert one.                        *)
Miss(r, q, next) ==
  /\ Found(q.owner) = {}
  /\ req' = [req EXCEPT ![r] = q]
  /\ pc' = [pc EXCEPT ![r] = next]
  /\ contested' = IF Missing(q.owner) = {} THEN contested ELSE contested \cup {q.owner}
  /\ UNCHANGED <<tables, raced>>

(* FirstOrCreate: which of two wallets is the first is left open.           *)
FirstOrCreate(r, q) == (\E w \in Found(q.owner) : Hold(r, q, w)) \/ Miss(r, q, "commit")

BeginRecharge(r) ==
  /\ pc[r] = "idle"
  /\ \E o \in Owners, a \in Amounts : FirstOrCreate(r, Asked(r, "save", o, a))

(* Mutant of BeginWithdraw: the balance is not looked at.                   *)
BeginWithdrawUnchecked(r) ==
  /\ pc[r] = "idle"
  /\ \E o \in Owners, a \in Amounts : \E w \in Found(o) : Hold(r, Asked(r, "save", o, -a), w)

BeginWithdraw(r) ==
  /\ pc[r] = "idle"
  /\ \E o \in Owners, a \in Amounts : \E w \in Found(o) :
       wallets[w].balance >= a /\ Hold(r, Asked(r, "save", o, -a), w)

(* The adjustment of a service, up or down.                                 *)
BeginAdjustByCode(r) ==
  /\ pc[r] = "idle"
  /\ \E o \in Owners, d \in Amounts \cup Minus :
       \/ \E w \in Found(o) : /\ Wrap(wallets[w].balance + d) >= 0
                              /\ Hold(r, Asked(r, "save", o, d), w)
       \/ d > 0 /\ Miss(r, Asked(r, "save", o, d), "commit")

(* Mutant of Locked: SELECT without FOR UPDATE.                             *)
NotLocked(c) == FALSE

(* A request's transaction has read the card's row FOR UPDATE.              *)
Redeems(r, c) == pc[r] = "commit" /\ req[r].op = "redeem" /\ req[r].card = c
Locked(c) == \E r \in Requests : Redeems(r, c)

BeginRedeem(r) ==
  /\ pc[r] = "idle"
  /\ \E o \in Owners, c \in Cards :
       /\ ~Locked(c) /\ cards[c] = "active" /\ c \notin expired
       /\ FirstOrCreate(r, [Asked(r, "redeem", o, Worth[c]) EXCEPT !.card = c])

(* GetBalance and EnsureUserCreditWalletTx insert the wallet that is        *)
(* missing; GetBalance also when its lookup failed.                         *)
BeginGetBalance(r) ==
  /\ pc[r] = "idle"
  /\ \E o \in Owners :
       \/ Miss(r, Asked(r, "get", o, 0), "commit")
       \/ /\ req' = [req EXCEPT ![r] = Asked(r, "get", o, 0)]
          /\ pc' = [pc EXCEPT ![r] = "commit"]
          /\ contested' = contested \cup {o}
          /\ UNCHANGED <<tables, raced>>

(* Mutant of BeginCreateWallet: no look whether there is one already.       *)
BeginCreateAnother(r) ==
  /\ pc[r] = "idle"
  /\ \E o \in Owners, b \in {0} \cup Amounts \cup Minus :
       /\ req' = [req EXCEPT ![r] = Asked(r, "create", o, b)]
       /\ pc' = [pc EXCEPT ![r] = "commit"]
       /\ UNCHANGED <<tables, raced, contested>>

(* CreateWalletForUser and CreateWalletForTeam take any initial balance.    *)
BeginCreateWallet(r) ==
  /\ pc[r] = "idle"
  /\ \E o \in Owners, b \in {0} \cup Amounts \cup Minus :
       Miss(r, Asked(r, "create", o, b), "commit")

(* AdjustUserBalance and AdjustTeamBalance: the wallet is looked up, or     *)
(* inserted, and handed to AdjustBalance by its id.                         *)
BeginAdjustOwner(r) ==
  /\ pc[r] = "idle"
  /\ \E o \in Owners, d \in Amounts \cup Minus :
       \/ \E w \in Found(o) :
            /\ req' = [req EXCEPT ![r] = [Asked(r, "update", o, d) EXCEPT !.row = w]]
            /\ pc' = [pc EXCEPT ![r] = "read"]
            /\ UNCHANGED <<tables, raced, contested>>
       \/ Miss(r, Asked(r, "update", o, d), "insert")

(* AdjustBalance of a wallet by its id reads the row before its transaction.*)
ReadForAdjust(r) ==
  \E w \in Rows :
    /\ Live(w)
    /\ \/ /\ pc[r] = "idle"
          /\ \E d \in Amounts \cup Minus :
               /\ Wrap(wallets[w].balance + d) >= 0
               /\ Hold(r, Asked(r, "update", wallets[w].owner, d), w)
       \/ /\ pc[r] = "read" /\ w = req[r].row
          /\ Wrap(wallets[w].balance + req[r].amount) >= 0
          /\ Hold(r, req[r], w)

(* Mutant of BeginDelete: a wallet with money in it can be deleted.         *)
BeginDeleteUnchecked(r) ==
  /\ pc[r] = "idle"
  /\ \E w \in Rows : Live(w) /\ Hold(r, Asked(r, "delete", wallets[w].owner, 0), w)

BeginDelete(r) ==
  /\ pc[r] = "idle"
  /\ \E w \in Rows : /\ Live(w) /\ wallets[w].balance <= 0
                     /\ Hold(r, Asked(r, "delete", wallets[w].owner, 0), w)

-----------------------------------------------------------------------------
(* Writes.                                                                  *)

Finish(r, next) == pc' = [pc EXCEPT ![r] = next] /\ UNCHANGED <<raced, contested>>

Row(o, b, f) == [owner |-> o, balance |-> b, frozen |-> f, status |-> "live"]

Passed(w, n) == IF n \in Int64 THEN overflowed ELSE overflowed \cup {w}

(* The row w becomes v; a is added to its transactions.                     *)
Write(w, v, a) ==
  /\ wallets' = [wallets EXCEPT ![w] = v]
  /\ booked' = [booked EXCEPT ![w] = @ + a]

(* Mutant of CommitSave: the transaction is not written along with it.      *)
CommitSaveAlone(r) ==
  LET q == req[r]
      w == IF q.row = NoRow THEN r ELSE q.row
  IN
  /\ pc[r] = "commit" /\ q.op = "save"
  /\ Write(w, Row(q.owner, Wrap(q.balance + q.amount), q.frozen), 0)
  /\ overflowed' = Passed(w, q.balance + q.amount)
  /\ Finish(r, "done")
  /\ UNCHANGED <<cards, expired, req, paid, ordered>>

(* Recharge, Withdraw and AdjustByCode save the whole row as it was read,   *)
(* which brings a deleted one back, after they have inserted a missing one. *)
CommitSave(r) ==
  LET q == req[r]
      w == IF q.row = NoRow THEN r ELSE q.row
  IN
  /\ pc[r] = "commit" /\ q.op = "save"
  /\ Write(w, Row(q.owner, Wrap(q.balance + q.amount), q.frozen), q.amount)
  /\ overflowed' = Passed(w, q.balance + q.amount)
  /\ Finish(r, "done")
  /\ UNCHANGED <<cards, expired, req, paid, ordered>>

(* Redeem and AdjustBalance update the balance alone, of a row not deleted. *)
UpdateBalance(q, w) ==
  /\ Write(w, IF q.row = NoRow THEN Row(q.owner, Wrap(q.amount), FALSE)
              ELSE IF Live(w) THEN [wallets[w] EXCEPT !.balance = Wrap(q.balance + q.amount)]
              ELSE wallets[w], q.amount)
  /\ overflowed' = Passed(w, q.balance + q.amount)

CommitRedeem(r) ==
  LET q == req[r] IN
  /\ pc[r] = "commit" /\ q.op = "redeem"
  /\ UpdateBalance(q, IF q.row = NoRow THEN r ELSE q.row)
  /\ cards' = [cards EXCEPT ![q.card] = "redeemed"]
  /\ paid' = [paid EXCEPT ![q.card] = @ + 1]
  /\ Finish(r, "done")
  /\ UNCHANGED <<expired, req, ordered>>

CommitAdjust(r) ==
  /\ pc[r] = "commit" /\ req[r].op = "update"
  /\ UpdateBalance(req[r], req[r].row)
  /\ Finish(r, "done")
  /\ UNCHANGED <<cards, expired, req, paid, ordered>>

InsertWallet(r, b) ==
  /\ Write(r, Row(req[r].owner, b, FALSE), 0)
  /\ UNCHANGED <<cards, expired, paid, ordered, overflowed>>

CommitGetBalance(r) ==
  /\ pc[r] = "commit" /\ req[r].op = "get"
  /\ InsertWallet(r, 0) /\ Finish(r, "done") /\ UNCHANGED req

InsertForAdjust(r) ==
  /\ pc[r] = "insert"
  /\ InsertWallet(r, 0) /\ Finish(r, "read")
  /\ req' = [req EXCEPT ![r].row = r]

CommitCreateWallet(r) ==
  /\ pc[r] = "commit" /\ req[r].op = "create"
  /\ InsertWallet(r, req[r].amount)
  /\ Finish(r, IF req[r].amount > 0 THEN "book" ELSE "done") /\ UNCHANGED req

(* The transaction for the initial balance comes after, and its error is    *)
(* dropped (Abort).                                                         *)
BookInitial(r) ==
  /\ pc[r] = "book"
  /\ booked' = [booked EXCEPT ![r] = @ + req[r].amount]
  /\ Finish(r, "done")
  /\ UNCHANGED <<wallets, cards, expired, req, paid, ordered, overflowed>>

(* Mutant of CommitDelete: only the wallet's transactions are deleted.      *)
CommitDeleteLedger(r) ==
  LET w == req[r].row IN
  /\ pc[r] = "commit" /\ req[r].op = "delete"
  /\ booked' = [booked EXCEPT ![w] = 0]
  /\ ordered' = [ordered EXCEPT ![w] = "deleted"]
  /\ Finish(r, "done")
  /\ UNCHANGED <<wallets, cards, expired, req, paid, overflowed>>

CommitDelete(r) ==
  LET w == req[r].row IN
  /\ pc[r] = "commit" /\ req[r].op = "delete"
  /\ wallets' = [wallets EXCEPT ![w].status = "deleted"]
  /\ booked' = [booked EXCEPT ![w] = 0]
  /\ ordered' = [ordered EXCEPT ![w] = "deleted"]
  /\ Finish(r, "done")
  /\ UNCHANGED <<cards, expired, req, paid, overflowed>>

(* A statement fails, or the process dies: a transaction leaves nothing.    *)
Abort(r) ==
  /\ pc[r] \notin {"idle", "done", "failed"}
  /\ Finish(r, "failed") /\ UNCHANGED <<tables, req>>

-----------------------------------------------------------------------------
(* Single statements and a transaction that holds its lock throughout.      *)

SetFreeze(w, frozen) ==
  /\ Live(w) /\ wallets[w].frozen # frozen
  /\ wallets' = [wallets EXCEPT ![w].frozen = frozen]
  /\ ordered' = [ordered EXCEPT ![w] = IF frozen THEN "frozen" ELSE "open"]
  /\ raced' = IF Holders(w) = {} THEN raced ELSE raced \cup {w}
  /\ UNCHANGED <<booked, cards, expired, pc, req, paid, contested, overflowed>>

InvalidateByID(c) ==
  /\ ~Locked(c) /\ cards[c] = "active"
  /\ cards' = [cards EXCEPT ![c] = "invalid"]
  /\ UNCHANGED <<wallets, booked, expired, pc, req, paid, ordered, raced, contested,
                 overflowed>>

(* Time.  The status "expired" is written in the transaction that is rolled *)
(* back because of it, so that it is never seen.                            *)
ExpireCard(c) ==
  /\ c \notin expired /\ expired' = expired \cup {c}
  /\ UNCHANGED <<wallets, booked, cards, pc, req, paid, ordered, raced, contested,
                 overflowed>>

Step(r) ==
  \/ BeginRecharge(r) \/ BeginWithdraw(r) \/ BeginAdjustByCode(r) \/ BeginRedeem(r)
  \/ BeginGetBalance(r) \/ BeginCreateWallet(r) \/ BeginAdjustOwner(r)
  \/ ReadForAdjust(r) \/ BeginDelete(r)
  \/ CommitSave(r) \/ CommitRedeem(r) \/ CommitAdjust(r) \/ CommitGetBalance(r)
  \/ InsertForAdjust(r) \/ CommitCreateWallet(r) \/ BookInitial(r) \/ CommitDelete(r)
  \/ Abort(r)

Next ==
  \/ \E r \in Requests : Step(r)
  \/ \E w \in Rows, frozen \in BOOLEAN : SetFreeze(w, frozen)
  \/ \E c \in Cards : InvalidateByID(c) \/ ExpireCard(c)

Spec == Init /\ [][Next]_vars
-----------------------------------------------------------------------------
(* Properties.                                                              *)

Ops == {"save", "redeem", "get", "create", "update", "delete"}
Deltas == {0} \cup Amounts \cup Minus

WalletType == [owner : Owners, balance : Int64, frozen : BOOLEAN,
               status : {"absent", "live", "deleted"}]

RequestType == [op : Ops, owner : Owners, amount : Deltas, card : Cards \cup {NoRow},
                row : Rows \cup {NoRow}, balance : Int64, frozen : BOOLEAN]

(* A request that has not begun has read nothing; only some insert a row    *)
(* that is missing, and none has two; a row is there since its insertion.   *)
Formed(r) ==
  /\ pc[r] = "idle" => req[r].op = "get" /\ req[r].row = NoRow
  /\ req[r].op = "redeem" <=> req[r].card \in Cards
  /\ req[r].row = NoRow => req[r].balance = 0 /\ ~req[r].frozen
  /\ pc[r] = "commit" => /\ req[r].op \in {"update", "delete"} => req[r].row # NoRow
                         /\ req[r].op \in {"get", "create"} => req[r].row = NoRow
  /\ pc[r] = "insert" => req[r].op = "update" /\ req[r].row = NoRow
  /\ pc[r] = "read" => req[r].op = "update" /\ req[r].row # NoRow
  /\ pc[r] = "book" => /\ req[r].op = "create" /\ req[r].amount > 0
                       /\ wallets[r].status # "absent"
  /\ pc[r] \in {"idle", "commit", "insert"} /\ req[r].row = NoRow
       => wallets[r].status = "absent"
  /\ req[r].row # NoRow =>
       wallets[req[r].row].status # "absent" /\ wallets[req[r].row].owner = req[r].owner

TypeOK ==
  /\ wallets \in [Rows -> WalletType]
  /\ booked \in [Rows -> Int]
  /\ cards \in [Cards -> {"active", "redeemed", "invalid"}]
  /\ expired \subseteq Cards
  /\ pc \in [Requests -> {"idle", "commit", "insert", "read", "book", "done", "failed"}]
  /\ req \in [Requests -> RequestType]
  /\ paid \in [Cards -> Nat]
  /\ ordered \in [Rows -> {"open", "frozen", "deleted"}]
  /\ raced \subseteq Rows /\ contested \subseteq Owners /\ overflowed \subseteq Rows
  /\ \A r \in Requests : Formed(r)

(* The part of an initial balance that has no transaction: not yet, never   *)
(* because the insert failed, or never because it is negative.              *)
Unbooked(w) ==
  IF w \in Requests /\ req[w].op = "create"
     /\ (req[w].amount < 0 \/ pc[w] \in {"book", "failed"})
  THEN req[w].amount ELSE 0

(* What a wallet holds is the sum of its transactions, after any recharge,  *)
(* withdrawal, adjustment, redemption, deletion or failure, unless two      *)
(* requests were at its row at once or an int64 overflowed.                 *)
LedgerAddsUp ==
  \A w \in Rows \ (raced \cup overflowed) :
    Live(w) => wallets[w].balance = booked[w] + Unbooked(w)

(* A wallet that an admin opened below zero.                                *)
Negative(w) == w \in Requests /\ req[w].op = "create" /\ req[w].amount < 0

(* Nobody overdraws a wallet, not even two withdrawals at once: then one of *)
(* them is lost.  Only an admin's negative opening balance, or recharging   *)
(* beyond int64, brings it below zero.                                      *)
NeverNegative ==
  \A w \in Rows \ overflowed :
    \/ wallets[w].balance >= 0
    \/ Negative(w)

(* A gift card pays into one wallet once, whoever redeems or invalidates it *)
(* at the same time and whatever fails; one that is invalid has paid none.  *)
CardPaysOnce == \A c \in Cards : paid[c] = IF cards[c] = "redeemed" THEN 1 ELSE 0

(* A wallet stays frozen, open or deleted as an admin left it, unless a     *)
(* request was about to save it: Save brings the old row back.              *)
OrdersStand ==
  \A w \in Rows \ raced :
    IF ordered[w] = "deleted" THEN ~Live(w)
    ELSE Live(w) => (wallets[w].frozen <=> ordered[w] = "frozen")

(* A wallet that was deleted had nothing in it, unless somebody wrote it    *)
(* between the look at its balance and the deletion.                        *)
DeletedIsEmpty ==
  \A w \in Rows \ raced : wallets[w].status = "deleted" => wallets[w].balance <= 0

(* An owner has two wallets only after two requests found none at once,     *)
(* GetBalance could not look, or a deleted one was saved again.             *)
OneWalletEach ==
  \A w1, w2 \in Rows :
    /\ w1 # w2 /\ Live(w1) /\ Live(w2) /\ wallets[w1].owner = wallets[w2].owner
    => wallets[w1].owner \in contested \/ {w1, w2} \cap raced # {}
-----------------------------------------------------------------------------
(* The inductive invariant.                                                 *)

(* No row, no money.                                                        *)
AbsentInv ==
  \A w \in Rows : wallets[w].status = "absent" =>
    wallets[w].balance = 0 /\ booked[w] = 0 /\ ~wallets[w].frozen /\ ordered[w] = "open"

(* What was checked of a copy holds of it: the new balance of a decrease,   *)
(* the old one of a deletion; and what is written without a check is an     *)
(* increase.                                                                *)
CheckedInv ==
  \A r \in Requests : pc[r] = "commit" =>
    LET q == req[r] IN
      /\ q.op = "save" => q.amount > 0 \/ Wrap(q.balance + q.amount) >= 0
      /\ q.op = "redeem" => q.amount > 0
      /\ q.op = "update" => Wrap(q.balance + q.amount) >= 0
      /\ q.op = "delete" => q.balance <= 0

(* A copy is not below zero either.                                         *)
CopyNotNegative ==
  \A r \in Requests, w \in Rows \ overflowed :
    pc[r] = "commit" /\ req[r].row = w => Negative(w) \/ req[r].balance >= 0

(* The copy of a row nobody else is at is the row.                          *)
CopyInv ==
  \A r \in Requests, w \in Rows \ raced : pc[r] = "commit" /\ req[r].row = w =>
    /\ Live(w) /\ Holders(w) = {r}
    /\ wallets[w].balance = req[r].balance /\ wallets[w].frozen = req[r].frozen

(* Who holds a card's row is alone, and the card has not paid.              *)
CardInv ==
  /\ CardPaysOnce
  /\ \A r \in Requests, c \in Cards : Redeems(r, c) =>
       cards[c] = "active" /\ \A s \in Requests : Redeems(s, c) => s = r

(* Who is to insert an uncontested owner's wallet is alone, and there is    *)
(* none but such as a save has brought back.                                *)
MissingInv ==
  \A r \in Requests : \A o \in Owners \ contested :
    r \in Missing(o) => Missing(o) = {r} /\ Found(o) \subseteq raced

WalletInv ==
  /\ TypeOK /\ AbsentInv /\ CheckedInv
  /\ NeverNegative /\ CopyNotNegative /\ CopyInv
  /\ LedgerAddsUp /\ OrdersStand /\ DeletedIsEmpty
  /\ CardInv /\ MissingInv /\ OneWalletEach
=============================================================================
