-------------------------- MODULE Payments_proofs --------------------------
(***************************************************************************)
(* Payments, for every number of orders, plans, sessions, webhook calls,   *)
(* visits and happenings at Stripe.                                        *)
(***************************************************************************)
EXTENDS Payments, FiniteSetTheorems, WellFoundedInduction, TLAPS

LEMMA Names ==
  /\ \A s \in Sessions : s \in Nat /\ s # 0
  /\ \A h \in Deliveries : h \in Jobs /\ h \notin Visits /\ h # None
  /\ \A v \in Visits : v \in Jobs /\ v \notin Deliveries /\ v # None
  /\ \A o \in Orders : o # None
  /\ \A p \in Plans : p # None
  BY PaymentsAssumption DEF Sessions, Jobs

LEMMA IdleType == Idle \in JobType
  BY DEF Idle, JobType

(* A job that goes on.                                                     *)
LEMMA Going ==
  ASSUME NEW q \in JobType,
         NEW place \in {"idle", "read", "save", "credit", "confirm", "order", "commit", "mark",
                        "bind", "check", "trust", "lookAgain", "list", "ask",
                        "confirmPaid", "settle", "simOrder", "simRead", "simSave", "simCredit"}
  PROVE  /\ [q EXCEPT !.at = place] \in JobType
         /\ [q EXCEPT !.at = place].at = place
         /\ [q EXCEPT !.at = place].kind = q.kind /\ [q EXCEPT !.at = place].session = q.session
         /\ [q EXCEPT !.at = place].order = q.order /\ [q EXCEPT !.at = place].owes = q.owes
         /\ [q EXCEPT !.at = place].todo = q.todo /\ [q EXCEPT !.at = place].met = q.met
  BY DEF JobType

LEMMA Meeting ==
  ASSUME NEW q \in JobType
  PROVE  /\ q = [q EXCEPT !.met = q.met] /\ q.met \in SUBSET Orders
         /\ \A met \in SUBSET Orders : [q EXCEPT !.met = met] \in JobType
         /\ \A o \in Orders : /\ [q EXCEPT !.met = @ \cup {o}] = [q EXCEPT !.met = q.met \cup {o}]
                            /\ [q EXCEPT !.met = q.met \cup {o}] \in JobType
<1>1. q = [q EXCEPT !.met = q.met] /\ q.met \in SUBSET Orders
  BY DEF JobType
<1>2. \A met \in SUBSET Orders : [q EXCEPT !.met = met] \in JobType
  BY DEF JobType
<1>3. \A o \in Orders : q.met \cup {o} \in SUBSET Orders
  BY <1>1
<1> QED
  BY <1>1, <1>2, <1>3

-----------------------------------------------------------------------------
(* What a step does to the requests: x becomes q, the visits may have met  *)
(* somebody else.                                                          *)

Met(y) ==
  /\ job[y].at \in {"check", "trust", "ask", "confirmPaid", "settle"}
  /\ \E met \in SUBSET Orders : job[y].met \subseteq met /\ job'[y] = [job[y] EXCEPT !.met = met]

Becomes(x, q) ==
  /\ x \in Jobs /\ q \in JobType
  /\ job' \in [Jobs -> JobType] /\ job'[x] = q
  /\ \A y \in Jobs \ {x} : job'[y] = job[y] \/ Met(y)

LEMMA GotoBecomes ==
  ASSUME TypeOK, NEW x \in Jobs, NEW q \in JobType, job' = [job EXCEPT ![x] = q]
  PROVE  Becomes(x, q)
  BY DEF TypeOK, Becomes

Places == {"idle", "read", "save", "credit", "confirm", "order", "commit", "mark",
           "bind", "check", "trust", "lookAgain", "list", "ask",
           "confirmPaid", "settle", "simOrder", "simRead", "simSave", "simCredit"}

Moved(x, place) == [job[x] EXCEPT !.at = place]

LEMMA GotoMoves ==
  ASSUME TypeOK, NEW x \in Jobs, NEW place \in Places
  PROVE  /\ Goto(x, place) => Becomes(x, Moved(x, place))
         /\ Moved(x, place) \in JobType /\ Moved(x, place).at = place
         /\ Moved(x, place).kind = job[x].kind /\ Moved(x, place).session = Of(x)
         /\ Moved(x, place).order = job[x].order /\ Moved(x, place).owes = job[x].owes
         /\ Moved(x, place).todo = job[x].todo /\ Moved(x, place).met = job[x].met
<1>1. job[x] \in JobType
  BY DEF TypeOK
<1>2. Moved(x, place) \in JobType
  BY <1>1 DEF Moved, Places, JobType
<1>3. Goto(x, place) => Becomes(x, Moved(x, place))
  BY <1>2, GotoBecomes DEF Goto, Moved
<1>4. /\ Moved(x, place).at = place
      /\ Moved(x, place).kind = job[x].kind /\ Moved(x, place).session = Of(x)
      /\ Moved(x, place).order = job[x].order /\ Moved(x, place).owes = job[x].owes
      /\ Moved(x, place).todo = job[x].todo /\ Moved(x, place).met = job[x].met
  BY <1>1, Going DEF Moved, Places, Of
<1> QED
  BY <1>2, <1>3, <1>4

LEMMA SettlesOrder ==
  ASSUME TypeOK, NEW o \in Orders, NEW s \in Sessions, NEW success \in BOOLEAN, NEW x \in Jobs,
         NEW by \in {"webhook", "visit", "trust", "simulation"}, NEW q \in JobType,
         SettleOrder(o, s, success, x, by, q)
  PROVE  /\ Becomes(x, q)
         /\ orders' \in [Orders -> [status : {"pending", "paid", "cancelled"},
                                   session : Sessions \cup {0}]]
         /\ subs' \in [Orders -> SUBSET Subscription] /\ \A p \in Orders : IsFiniteSet(subs'[p])
<1>1. CASE success
  <2>1. Becomes(x, q)
    <3>1. \A y \in Jobs : /\ job[y].met \in SUBSET Orders /\ job[y] = [job[y] EXCEPT !.met = job[y].met]
                         /\ [job[y] EXCEPT !.met = @ \cup {o}] = [job[y] EXCEPT !.met = job[y].met \cup {o}]
                         /\ [job[y] EXCEPT !.met = job[y].met \cup {o}] \in JobType
      BY Meeting DEF TypeOK
    <3>2. job' = [y \in Jobs |->
                    IF y = x THEN q
                    ELSE IF job[y].at \in {"check", "trust", "ask", "confirmPaid", "settle"}
                    THEN [job[y] EXCEPT !.met = @ \cup {o}] ELSE job[y]]
      BY <1>1 DEF SettleOrder
    <3>3. job' \in [Jobs -> JobType] /\ job'[x] = q
      BY <3>1, <3>2 DEF TypeOK
    <3>4. ASSUME NEW y \in Jobs \ {x}
          PROVE  job'[y] = job[y] \/ Met(y)
      <4>1. \/ job'[y] = job[y]
            \/ /\ job[y].at \in {"check", "trust", "ask", "confirmPaid", "settle"}
               /\ job'[y] = [job[y] EXCEPT !.met = job[y].met \cup {o}]
        BY <3>1, <3>2
      <4>2. job[y].met \cup {o} \in SUBSET Orders /\ job[y].met \subseteq job[y].met \cup {o}
        BY <3>1
      <4> QED
        BY <4>1, <4>2 DEF Met
    <3> QED
      BY <3>3, <3>4 DEF Becomes
  <2>2. orders' \in [Orders -> [status : {"pending", "paid", "cancelled"},
                               session : Sessions \cup {0}]]
    BY <1>1 DEF SettleOrder, TypeOK
  <2>3. subs' \in [Orders -> SUBSET Subscription] /\ \A p \in Orders : IsFiniteSet(subs'[p])
    <3> DEFINE b == [n |-> Cardinality(subs[o]) + 1, by |-> by, session |-> s, met |-> o \in job[x].met]
    <3>1. subs' = [subs EXCEPT ![o] = subs[o] \cup {b}]
      BY <1>1 DEF SettleOrder, Subscribed
    <3>2. subs[o] \subseteq Subscription /\ IsFiniteSet(subs[o]) /\ Cardinality(subs[o]) \in Nat
      BY FS_CardinalityType DEF TypeOK
    <3>3. b \in Subscription
      BY <3>2 DEF Subscription
    <3>4. IsFiniteSet(subs[o] \cup {b})
      BY <3>2, FS_AddElement
    <3> HIDE DEF b
    <3> QED
      BY <3>1, <3>2, <3>3, <3>4 DEF TypeOK
  <2> QED
    BY <2>1, <2>2, <2>3
<1>2. CASE ~success
  <2>1. job' = [job EXCEPT ![x] = q] /\ subs' = subs /\ orders' = [orders EXCEPT ![o].status = "cancelled"]
    BY <1>2 DEF SettleOrder
  <2> QED
    BY <2>1, GotoBecomes DEF TypeOK
<1> QED
  BY <1>1, <1>2

-----------------------------------------------------------------------------
(* Types.                                                                  *)

TablesTyped ==
  /\ stripe \in [Sessions -> {"absent", "created", "open", "paid", "over"}]
  /\ canceled \subseteq Sessions
  /\ buys \in [Sessions -> Orders \cup {None}] /\ starts \in [Sessions -> Plans \cup {None}]
  /\ status \in [Sessions -> {"absent", "open", "complete", "expired"}]
  /\ lock \in [Sessions -> Deliveries \cup {None}]
  /\ events \in [Event -> {"absent", "pending", "processed", "failed"}]
  /\ orders \in [Orders -> [status : {"pending", "paid", "cancelled"},
                            session : Sessions \cup {0}]]
  /\ plans \in [Plans -> {"pending", "active", "overdue"}]
  /\ subs \in [Orders -> SUBSET Subscription] /\ \A o \in Orders : IsFiniteSet(subs[o])
  /\ credits \in [Sessions -> Nat]
  /\ simulated \in [Sessions -> Nat] /\ mishaps \subseteq Sessions

LocksHeld ==
  \A s \in Sessions : lock[s] # None =>
    Of(lock[s]) = s /\ job[lock[s]].at \in {"credit", "confirm", "order", "commit"}

LEMMA TypeParts == TypeOK <=> TablesTyped /\ job \in [Jobs -> JobType] /\ LocksHeld
  BY DEF TypeOK, TablesTyped, LocksHeld

LEMMA TypePartsPrimed == TypeOK' <=> TablesTyped' /\ job' \in [Jobs -> JobType] /\ LocksHeld'
  BY DEF TypeOK, TablesTyped, LocksHeld

(* A lock is kept by a request that does not move, or let go, or held by   *)
(* the one that does.                                                      *)
LEMMA StepTyped ==
  ASSUME TypeOK, NEW x \in Jobs, NEW q \in JobType, Becomes(x, q), TablesTyped',
         \A s \in Sessions : \/ lock'[s] = None
                             \/ lock'[s] # x /\ lock'[s] = lock[s]
                             \/ lock'[s] = x /\ q.session = s /\ q.at \in {"credit", "confirm", "order", "commit"}
  PROVE  TypeOK'
<1>1. LocksHeld'
  <2> SUFFICES ASSUME NEW s \in Sessions, lock'[s] # None
               PROVE  job'[lock'[s]].session = s /\ job'[lock'[s]].at \in {"credit", "confirm", "order", "commit"}
    BY DEF LocksHeld, Of
  <2>1. CASE lock'[s] = x /\ q.session = s /\ q.at \in {"credit", "confirm", "order", "commit"}
    BY <2>1 DEF Becomes
  <2>2. CASE lock'[s] # x /\ lock'[s] = lock[s]
    <3>1. lock[s] \in Jobs \ {x}
      BY <2>2, Names DEF TypeOK
    <3>2. PICK met \in SUBSET Orders : \/ job'[lock[s]] = job[lock[s]]
                                      \/ job'[lock[s]] = [job[lock[s]] EXCEPT !.met = met]
      BY <3>1 DEF Becomes, Met
    <3>3. job[lock[s]] \in JobType
      BY <3>1 DEF TypeOK
    <3>4. job'[lock[s]].session = job[lock[s]].session /\ job'[lock[s]].at = job[lock[s]].at
      BY <3>2, <3>3 DEF JobType
    <3> QED
      BY <2>2, <3>4 DEF TypeOK, Of
  <2> QED
    BY <2>1, <2>2
<1> QED
  BY <1>1, TypePartsPrimed DEF Becomes

LEMMA StripeTyped ==
  ASSUME TypeOK, NEW s \in Sessions, UserPays(s) \/ SessionExpires(s) \/ IntentCanceled(s)
  PROVE  TypeOK'
<1>1. TablesTyped' /\ job' \in [Jobs -> JobType] /\ LocksHeld'
  BY DEF TypeOK, TablesTyped, LocksHeld, UserPays, SessionExpires, IntentCanceled, here, goods, Of
<1> QED
  BY <1>1, TypePartsPrimed

(* The next state of the job of each action that moves one.                *)
LEMMA DeliverTyped ==
  ASSUME TypeOK, NEW h \in Deliveries, NEW e \in Event, Deliver(h, e)
  PROVE  TypeOK'
<1> DEFINE q == [Idle EXCEPT !.at = "read", !.kind = e.kind, !.session = e.session]
<1>1. h \in Jobs
  BY Names
<1>2. CASE UNCHANGED <<events, job>>
  BY <1>2 DEF Deliver, stripeAndTables, goods, TypeOK, Of
<1>3. CASE events' = [events EXCEPT ![e] = "pending"] /\ job' = [job EXCEPT ![h] = q]
  <2>1. q \in JobType
    BY DEF Event, Idle, JobType, Kinds
  <2>2. TablesTyped'
    BY <1>3 DEF Deliver, stripeAndTables, goods, TypeOK, TablesTyped
  <2>3. \A s \in Sessions : lock'[s] = None \/ (lock'[s] # h /\ lock'[s] = lock[s])
    BY DEF Deliver, stripeAndTables, TypeOK, At
  <2> HIDE DEF q
  <2>4. Becomes(h, q)
    BY <1>1, <1>3, <2>1, GotoBecomes
  <2> QED
    BY <1>1, <2>1, <2>2, <2>3, <2>4, StepTyped
<1> QED
  BY <1>2, <1>3 DEF Deliver

LEMMA WebhookTyped ==
  ASSUME TypeOK, FormedInv, NEW h \in Deliveries,
         \/ ReadSession(h) \/ SaveSession(h) \/ Credit(h)
         \/ Commit(h) \/ MarkProcessed(h) \/ RollBack(h)
  PROVE  TypeOK'
<1>1. h \in Jobs /\ job[h] \in JobType /\ h # None
  BY Names DEF TypeOK
<1>2. ~At(h, "idle") /\ Of(h) \in Sessions /\ job[h].kind \in Kinds
  BY DEF FormedInv, WebhookFormed, Idle, Of, Exists, ReadSession, SaveSession, Credit, Commit,
         MarkProcessed, RollBack, At
<1>3. Told(h) \in Event
  BY <1>2 DEF Told, Event
<1>4. \A q \in JobType : job' = [job EXCEPT ![h] = q] => Becomes(h, q)
  BY <1>1, GotoBecomes
<1>5. CASE ReadSession(h)
  <2>1. PICK place \in {"confirm", "save"} : Goto(h, place)
    BY <1>5 DEF ReadSession
  <2>2. Becomes(h, Moved(h, place)) /\ Moved(h, place) \in JobType
    BY <1>1, <2>1, GotoMoves DEF Places
  <2>3. TablesTyped' /\ lock' = lock
    BY <1>2, <1>5 DEF ReadSession, Mishap, stripeAndTables, goods, TypeOK, TablesTyped
  <2>4. \A s \in Sessions : lock[s] # h
    BY <1>5, <1>1 DEF ReadSession, At, TypeOK
  <2> QED
    BY <1>1, <2>2, <2>3, <2>4, StepTyped
<1>6. CASE SaveSession(h)
  <2>1. PICK place \in {"credit", "confirm", "order", "commit"} : Goto(h, place)
    BY <1>2, <1>6 DEF SaveSession, Kinds
  <2>2. /\ Becomes(h, Moved(h, place)) /\ Moved(h, place) \in JobType
        /\ Moved(h, place).session = Of(h) /\ Moved(h, place).at = place
    BY <1>1, <2>1, GotoMoves DEF Places
  <2>3. TablesTyped'
    BY <1>2, <1>6 DEF SaveSession, goods, TypeOK, TablesTyped
  <2>4. /\ lock' = [lock EXCEPT ![Of(h)] = h] \/ lock' = lock
        /\ \A s \in Sessions : lock[s] # h
    BY <1>6, <1>1 DEF SaveSession, At, TypeOK
  <2>5. \A s \in Sessions : (lock'[s] # h /\ lock'[s] = lock[s]) \/ (lock'[s] = h /\ Of(h) = s)
    BY <2>4 DEF TypeOK
  <2> QED
    BY <1>1, <2>1, <2>2, <2>3, <2>5, StepTyped
<1>7. CASE Credit(h)
  <2>1. /\ Becomes(h, Moved(h, "confirm")) /\ Moved(h, "confirm") \in JobType
        /\ Moved(h, "confirm").session = Of(h) /\ Moved(h, "confirm").at = "confirm"
    BY <1>1, <1>7, GotoMoves DEF Places, Credit
  <2>2. TablesTyped' /\ lock' = lock
    BY <1>2, <1>7 DEF Credit, goods, TypeOK, TablesTyped
  <2>3. \A s \in Sessions : lock[s] = h => Of(h) = s
    BY <1>1 DEF TypeOK
  <2> QED
    BY <1>1, <2>1, <2>2, <2>3, StepTyped
<1>8. CASE Commit(h)
  <2>1. Becomes(h, Moved(h, "mark")) /\ Moved(h, "mark") \in JobType
    BY <1>1, <1>8, GotoMoves DEF Places, Commit
  <2>2. TablesTyped'
    BY <1>1, <1>2, <1>8 DEF Commit, Mishap, Unlock, goods, TypeOK, TablesTyped
  <2>3. \A s \in Sessions : lock'[s] = None \/ (lock'[s] # h /\ lock'[s] = lock[s])
    BY <1>8 DEF Commit, Unlock
  <2> QED
    BY <1>1, <2>1, <2>2, <2>3, StepTyped
<1>9. CASE MarkProcessed(h)
  <2>1. Becomes(h, Idle)
    BY <1>4, <1>9, IdleType DEF MarkProcessed, Leave
  <2>2. TablesTyped' /\ lock' = lock
    BY <1>3, <1>9 DEF MarkProcessed, stripeAndTables, goods, TypeOK, TablesTyped
  <2>3. \A s \in Sessions : lock[s] # h
    BY <1>9, <1>1 DEF MarkProcessed, At, TypeOK
  <2> QED
    BY <1>1, <2>1, <2>2, <2>3, IdleType, StepTyped
<1>10. CASE RollBack(h)
  <2>1. Becomes(h, Idle)
    BY <1>4, <1>10, IdleType DEF RollBack, Leave
  <2>2. TablesTyped'
    BY <1>2, <1>3, <1>10 DEF RollBack, Mishap, Unlock, goods, TypeOK, TablesTyped
  <2>3. \A s \in Sessions : lock'[s] = None \/ (lock'[s] # h /\ lock'[s] = lock[s])
    BY <1>10 DEF RollBack, Unlock
  <2> QED
    BY <1>1, <2>1, <2>2, <2>3, IdleType, StepTyped
<1> QED
  BY <1>5, <1>6, <1>7, <1>8, <1>9, <1>10

LEMMA DieTyped ==
  ASSUME TypeOK, NEW x \in Jobs, Die(x), Of(x) \in Sessions \/ ~Torn(x)
  PROVE  TypeOK'
<1>1. Becomes(x, Idle)
  BY IdleType, GotoBecomes DEF Die, Leave
<1>2. TablesTyped'
  BY DEF Die, Mishap, Unlock, goods, TypeOK, TablesTyped
<1>3. \A s \in Sessions : lock'[s] = None \/ (lock'[s] # x /\ lock'[s] = lock[s])
  BY DEF Die, Unlock
<1> QED
  BY <1>1, <1>2, <1>3, IdleType, StepTyped

(* What a settlement leaves of the goods.                                  *)
GoodsTyped ==
  /\ orders \in [Orders -> [status : {"pending", "paid", "cancelled"},
                            session : Sessions \cup {0}]]
  /\ plans \in [Plans -> {"pending", "active", "overdue"}]
  /\ subs \in [Orders -> SUBSET Subscription] /\ \A o \in Orders : IsFiniteSet(subs[o])

LEMMA Settles ==
  ASSUME TypeOK, NEW s \in Sessions, NEW success \in BOOLEAN, NEW x \in Jobs,
         NEW by \in {"webhook", "visit", "trust", "simulation"}, NEW q \in JobType,
         Settle(s, success, x, by, q), plans' = plans
  PROVE  Becomes(x, q) /\ GoodsTyped'
<1>1. CASE buys[s] \in Orders /\ SettleOrder(buys[s], s, success, x, by, q)
  BY <1>1, SettlesOrder DEF TypeOK, GoodsTyped
<1>2. CASE buys[s] = None /\ job' = [job EXCEPT ![x] = q] /\ UNCHANGED <<orders, subs>>
  BY <1>2, GotoBecomes DEF TypeOK, GoodsTyped
<1> QED
  BY <1>1, <1>2 DEF Settle

LEMMA SettlesPlan ==
  ASSUME TypeOK, NEW s \in Sessions, NEW success \in BOOLEAN, SettlePlan(s, success)
  PROVE  plans' \in [Plans -> {"pending", "active", "overdue"}]
  BY DEF TypeOK, SettlePlan

LEMMA ConfirmTyped ==
  ASSUME TypeOK, FormedInv, NEW h \in Deliveries, ConfirmSubscription(h) \/ ConfirmOrder(h)
  PROVE  TypeOK'
<1>1. h \in Jobs /\ Of(h) \in Sessions
  BY Names DEF ConfirmSubscription, ConfirmOrder, FormedInv, WebhookFormed, Idle, Of, Exists, At
<1>2. \A place \in {"order", "commit"} : /\ Goto(h, place) => Becomes(h, Moved(h, place))
                                       /\ Moved(h, place) \in JobType
                                       /\ Moved(h, place).at = place
                                       /\ Moved(h, place).session = Of(h)
  BY <1>1, GotoMoves DEF Places
<1>3. \A s \in Sessions : lock[s] = h => Of(h) = s
  BY Names DEF TypeOK
<1>4. CASE ConfirmSubscription(h)
  <2>1. Becomes(h, Moved(h, "order"))
    BY <1>2, <1>4 DEF ConfirmSubscription
  <2>2. SettlePlan(Of(h), job[h].kind = "completed") /\ (job[h].kind = "completed") \in BOOLEAN
    BY <1>4 DEF ConfirmSubscription
  <2>3. plans' \in [Plans -> {"pending", "active", "overdue"}]
    BY <1>1, <2>2, SettlesPlan
  <2>4. TablesTyped' /\ lock' = lock
    BY <1>4, <2>3 DEF ConfirmSubscription, TypeOK, TablesTyped
  <2> QED
    BY <1>1, <1>2, <1>3, <2>1, <2>4, StepTyped
<1>5. CASE ConfirmOrder(h)
  <2>1. /\ Settle(Of(h), job[h].kind = "completed", h, "webhook", Moved(h, "commit"))
        /\ plans' = plans
    BY <1>5 DEF ConfirmOrder, Moved
  <2>2. Becomes(h, Moved(h, "commit")) /\ GoodsTyped'
    BY <1>1, <1>2, <2>1, Settles
  <2>3. TablesTyped' /\ lock' = lock
    BY <1>5, <2>2 DEF ConfirmOrder, TypeOK, TablesTyped, GoodsTyped
  <2> QED
    BY <1>1, <1>2, <1>3, <2>2, <2>3, StepTyped
<1> QED
  BY <1>4, <1>5

(* A visit holds no lock.                                                  *)
LEMMA VisitStepTyped ==
  ASSUME TypeOK, NEW v \in Visits, NEW q \in JobType, Becomes(v, q), TablesTyped', lock' = lock
  PROVE  TypeOK'
<1>1. \A s \in Sessions : lock'[s] # v /\ lock'[s] = lock[s]
  BY Names DEF TypeOK
<1> QED
  BY <1>1, Names, StepTyped

LEMMA TakesUp ==
  ASSUME TypeOK, NEW v \in Visits, NEW kind \in {"page", "list"}, NEW order \in Orders \cup {None},
         TakeUp(v, kind, order, PendingOrders)
  PROVE  \E q \in JobType : /\ job' = [job EXCEPT ![v] = q] /\ q.at = "ask" /\ q.kind = kind
                            /\ q.order = order /\ q.todo \subseteq PendingOrders /\ ~q.owes
                            /\ q.session = 0
<1>1. PendingOrders \subseteq Orders \X (Sessions \cup {0})
  BY DEF PendingOrders, TypeOK
<1>2. PICK todo \in {PendingOrders, {}} :
        job' = [job EXCEPT ![v] = [Idle EXCEPT !.at = "ask", !.kind = kind, !.order = order,
                                               !.todo = todo]]
  BY DEF TakeUp
<1> DEFINE q == [Idle EXCEPT !.at = "ask", !.kind = kind, !.order = order, !.todo = todo]
<1>3. todo \in SUBSET (Orders \X (Sessions \cup {0})) /\ todo \subseteq PendingOrders
  BY <1>1, <1>2
<1>4. q \in JobType
  BY <1>3 DEF Idle, JobType
<1>5. q.at = "ask" /\ q.kind = kind /\ q.order = order /\ q.todo = todo /\ ~q.owes /\ q.session = 0
  BY DEF Idle
<1> QED
  BY <1>2, <1>3, <1>4, <1>5

(* Actions that change nothing but the request.                            *)
Looks(v) ==
  \/ \E o \in Orders : GetOrder(v, o)
  \/ Finalize(v) \/ LookAgain(v) \/ ListSubscriptions(v) \/ ReconcileOrders(v) \/ Reconciled(v)

LEMMA LooksMove ==
  ASSUME TypeOK, FormedInv, NEW v \in Visits, Looks(v)
  PROVE  UNCHANGED unchanged /\ \E q \in JobType : job' = [job EXCEPT ![v] = q]
<1> SUFFICES \E q \in JobType : job' = [job EXCEPT ![v] = q]
  BY DEF Looks, GetOrder, Finalize, LookAgain, ListSubscriptions, ReconcileOrders, Reconciled
<1>1. v \in Jobs /\ job[v] \in JobType
  BY Names DEF TypeOK
<1>2. \A place \in Places : Goto(v, place) => \E q \in JobType : job' = [job EXCEPT ![v] = q]
  BY <1>1, GotoMoves DEF Goto, Moved
<1>3. Leave(v) => \E q \in JobType : job' = [job EXCEPT ![v] = q]
  BY IdleType DEF Leave
<1>4. ASSUME NEW o \in Orders, GetOrder(v, o)
      PROVE  \E q \in JobType : job' = [job EXCEPT ![v] = q]
  <2> DEFINE q == [Idle EXCEPT !.at = IF orders[o].session # 0 THEN "check" ELSE "list",
                               !.kind = "page", !.order = o, !.session = orders[o].session]
  <2>1. orders[o].session \in Sessions \cup {0}
    BY DEF TypeOK
  <2>2. q \in JobType
    BY <2>1 DEF Idle, JobType
  <2>3. job' = [job EXCEPT ![v] = q]
    BY <1>4 DEF GetOrder
  <2> QED
    BY <2>2, <2>3
<1>5. CASE Finalize(v)
  BY <1>2, <1>5 DEF Finalize, Places
<1>6. CASE LookAgain(v)
  BY <1>2, <1>3, <1>6 DEF LookAgain, Places
<1>7. CASE ListSubscriptions(v)
  BY <1>7, TakesUp DEF ListSubscriptions
<1>8. CASE ReconcileOrders(v)
  <2>1. job[v].order \in Orders \cup {None} /\ "page" \in {"page", "list"}
    BY <1>1 DEF JobType
  <2>2. TakeUp(v, "page", job[v].order, PendingOrders)
    BY <1>8 DEF ReconcileOrders
  <2> QED
    BY <2>1, <2>2, TakesUp
<1>9. CASE Reconciled(v)
  <2>1. CASE Leave(v)
    BY <1>3, <2>1
  <2>2. ASSUME NEW o \in Orders,
               job' = [job EXCEPT ![v] = [Idle EXCEPT !.at = "check", !.kind = "last", !.order = o,
                                                      !.session = orders[o].session]]
        PROVE  \E q \in JobType : job' = [job EXCEPT ![v] = q]
    <3> DEFINE q == [Idle EXCEPT !.at = "check", !.kind = "last", !.order = o,
                                 !.session = orders[o].session]
    <3>1. orders[o].session \in Sessions \cup {0}
      BY DEF TypeOK
    <3>2. q \in JobType
      BY <3>1 DEF Idle, JobType
    <3> QED
      BY <2>2, <3>2
  <2>3. job[v].order \in Orders \cup {None}
    BY <1>1 DEF JobType
  <2> QED
    BY <1>9, <2>1, <2>2, <2>3 DEF Reconciled
<1> QED
  BY <1>4, <1>5, <1>6, <1>7, <1>8, <1>9 DEF Looks

LEMMA LooksTyped ==
  ASSUME TypeOK, FormedInv, NEW v \in Visits, Looks(v)
  PROVE  TypeOK'
<1>1. PICK q \in JobType : job' = [job EXCEPT ![v] = q]
  BY LooksMove
<1>2. Becomes(v, q)
  BY <1>1, Names, GotoBecomes
<1>3. TablesTyped' /\ lock' = lock
  BY LooksMove DEF TypeOK, TablesTyped, unchanged, untouched, goods
<1> QED
  BY <1>2, <1>3, VisitStepTyped

LEMMA BuysTyped ==
  ASSUME TypeOK, FormedInv, NEW v \in Visits, CreateSession(v) \/ BindOrder(v)
  PROVE  TypeOK'
<1>1. CASE CreateSession(v)
  <2>1. PICK s \in Sessions, o \in Orders \cup {None}, p \in Plans \cup {None} :
          /\ job' = [job EXCEPT ![v] = [Idle EXCEPT !.at = "bind", !.session = s]]
          /\ stripe' = [stripe EXCEPT ![s] = "created"]
          /\ status' = [status EXCEPT ![s] = "open"]
          /\ buys' = [buys EXCEPT ![s] = o] /\ starts' = [starts EXCEPT ![s] = p]
          /\ UNCHANGED <<canceled, lock, events, goods, credits, simulated, mishaps>>
    <3>1. \A s \in Sessions : \A ware \in Wares[s] :
            ware[1] \in Orders \cup {None} /\ ware[2] \in Plans \cup {None}
      BY PaymentsAssumption DEF Sessions
    <3>2. PICK s \in Sessions : \E ware \in Wares[s] :
          /\ job' = [job EXCEPT ![v] = [Idle EXCEPT !.at = "bind", !.session = s]]
          /\ stripe' = [stripe EXCEPT ![s] = "created"]
          /\ status' = [status EXCEPT ![s] = "open"]
          /\ buys' = [buys EXCEPT ![s] = ware[1]] /\ starts' = [starts EXCEPT ![s] = ware[2]]
          /\ UNCHANGED <<canceled, lock, events, goods, credits, simulated, mishaps>>
      BY <1>1 DEF CreateSession
    <3>3. PICK ware \in Wares[s] :
          /\ job' = [job EXCEPT ![v] = [Idle EXCEPT !.at = "bind", !.session = s]]
          /\ stripe' = [stripe EXCEPT ![s] = "created"]
          /\ status' = [status EXCEPT ![s] = "open"]
          /\ buys' = [buys EXCEPT ![s] = ware[1]] /\ starts' = [starts EXCEPT ![s] = ware[2]]
          /\ UNCHANGED <<canceled, lock, events, goods, credits, simulated, mishaps>>
      BY <3>2
    <3>4. ware[1] \in Orders \cup {None} /\ ware[2] \in Plans \cup {None}
      BY <3>1
    <3> USE <3>4
    <3> WITNESS s \in Sessions, ware[1] \in Orders \cup {None}, ware[2] \in Plans \cup {None}
    <3> QED
      BY <3>3
  <2> DEFINE q == [Idle EXCEPT !.at = "bind", !.session = s]
  <2>2. q \in JobType
    BY DEF Idle, JobType
  <2>3. TablesTyped' /\ lock' = lock
    BY <2>1 DEF TypeOK, TablesTyped, goods
  <2>4. Becomes(v, q)
    BY <2>1, <2>2, Names, GotoBecomes
  <2> HIDE DEF q
  <2> QED
    BY <2>2, <2>3, <2>4, VisitStepTyped
<1>2. CASE BindOrder(v)
  <2>1. Of(v) \in Sessions
    BY <1>2 DEF BindOrder, FormedInv, VisitFormed, Of, SessionPlaces, Exists, At
  <2>2. orders' \in [Orders -> [status : {"pending", "paid", "cancelled"},
                               session : Sessions \cup {0}]]
    BY <1>2, <2>1 DEF BindOrder, TypeOK
  <2>3. TablesTyped' /\ lock' = lock
    BY <1>2, <2>1, <2>2 DEF BindOrder, TypeOK, TablesTyped
  <2>4. Becomes(v, Idle)
    BY <1>2, Names, IdleType, GotoBecomes DEF BindOrder, Leave
  <2> QED
    BY <2>3, <2>4, IdleType, VisitStepTyped
<1> QED
  BY <1>1, <1>2

LEMMA LatestIs ==
  ASSUME NEW o
  PROVE  Latest(o) \in Sessions \cup {0} /\ (Latest(o) # 0 => status[Latest(o)] # "absent" /\ buys[Latest(o)] = o)
<1> DEFINE made == {s \in Sessions : status[s] # "absent" /\ buys[s] = o}
<1>1. CASE made = {}
  BY <1>1 DEF Latest
<1>2. CASE made # {}
  <2>1. \E s \in made : \A t \in made : t <= s
    <3> DEFINE left == {MaxSessions - s : s \in made}
    <3>1. \A s \in made : s \in Nat /\ MaxSessions - s \in Nat
      BY PaymentsAssumption DEF Sessions
    <3>2. left \in SUBSET Nat /\ left # {}
      BY <1>2, <3>1
    <3> HIDE DEF left
    <3>3. PICK n \in left : \A m \in left : n <= m
      <4>1. PICK n \in left : \A m \in left : <<m, n>> \notin OpToRel(<, Nat)
        BY <3>2, NatLessThanWellFounded, WFMin
      <4>2. \A m \in left : ~(m < n)
        BY <3>2, <4>1 DEF OpToRel
      <4> QED
        BY <3>2, <4>2
    <3>4. PICK s \in made : n = MaxSessions - s
      BY <3>3 DEF left
    <3>5. \A t \in made : MaxSessions - s <= MaxSessions - t
      BY <3>3, <3>4 DEF left
    <3> HIDE DEF made
    <3> QED
      BY <3>1, <3>4, <3>5, PaymentsAssumption
  <2> QED
    BY <1>2, <2>1 DEF Latest
<1> QED
  BY <1>1, <1>2

LEMMA ConfirmsTyped ==
  ASSUME TypeOK, FormedInv, NEW v \in Visits,
         TrustUser(v) \/ AskStripe(v) \/ ConfirmPaid(v) \/ SettleSession(v)
  PROVE  TypeOK'
<1>1. v \in Jobs /\ job[v] \in JobType
  BY Names DEF TypeOK
<1>2. \A place \in Places : /\ Goto(v, place) => Becomes(v, Moved(v, place))
                            /\ Moved(v, place) \in JobType
  BY <1>1, GotoMoves
<1>3. CASE TrustUser(v)
  <2>1. Of(v) \in Sessions /\ job[v].order \in Orders
    BY <1>3 DEF TrustUser, FormedInv, VisitFormed, Of, SessionPlaces, OrderPlaces, Exists, At
  <2>2. lock' = lock /\ UNCHANGED <<untouched, status, plans, mishaps>>
    BY <1>3 DEF TrustUser, untouched
  <2>3. CASE SettleOrder(job[v].order, Of(v), TRUE, v, "trust", Moved(v, "lookAgain"))
    <3>1. Becomes(v, Moved(v, "lookAgain")) /\ GoodsTyped'
      BY <1>1, <1>2, <2>1, <2>2, <2>3, SettlesOrder DEF Places, GoodsTyped, TypeOK
    <3>2. TablesTyped'
      BY <2>2, <3>1 DEF TypeOK, TablesTyped, GoodsTyped, untouched
    <3> QED
      BY <1>2, <2>2, <3>1, <3>2, VisitStepTyped DEF Places
  <2>4. CASE Goto(v, "lookAgain") /\ UNCHANGED <<orders, subs>>
    <3>1. TablesTyped'
      BY <2>2, <2>4 DEF TypeOK, TablesTyped, untouched
    <3> QED
      BY <1>2, <2>2, <2>4, <3>1, VisitStepTyped DEF Places
  <2> QED
    BY <1>3, <2>3, <2>4 DEF TrustUser, Moved
<1>4. CASE AskStripe(v)
  <2>1. PICK item \in job[v].todo :
          LET o == item[1]
              s == IF item[2] = 0 THEN Latest(o) ELSE item[2]
              rest == [job[v] EXCEPT !.todo = @ \ {item}]
          IN /\ orders' \in {orders, [orders EXCEPT ![o].session = s]}
             /\ \/ IsPaid(s) /\ job' = [job EXCEPT ![v] = [rest EXCEPT !.at = "confirmPaid",
                                                                       !.session = s]]
                \/ (~IsPaid(s) \/ Faults) /\ job' = [job EXCEPT ![v] = rest]
    BY <1>4 DEF AskStripe
  <2>2. item \in Orders \X (Sessions \cup {0})
    BY <1>1 DEF JobType
  <2> DEFINE s == IF item[2] = 0 THEN Latest(item[1]) ELSE item[2]
             rest == [job[v] EXCEPT !.todo = @ \ {item}]
             paid == [rest EXCEPT !.at = "confirmPaid", !.session = s]
  <2>3. s \in Sessions \cup {0}
    <3>1. Latest(item[1]) \in Sessions \cup {0}
      BY LatestIs, <2>2
    <3> QED
      BY <2>2, <3>1
  <2>4. rest \in JobType /\ paid \in JobType
    BY <1>1, <2>3 DEF JobType
  <2>5. TablesTyped' /\ lock' = lock
    <3>1. orders' = orders \/ orders' = [orders EXCEPT ![item[1]].session = s]
      BY <2>1
    <3> HIDE DEF s
    <3> DEFINE Rows == [status : {"pending", "paid", "cancelled"}, session : Sessions \cup {0}]
    <3>2. orders \in [Orders -> Rows] /\ item[1] \in Orders
      BY <2>2 DEF TypeOK
    <3>3. [orders[item[1]] EXCEPT !.session = s] \in Rows
      BY <2>3, <3>2
    <3> HIDE DEF Rows
    <3>4. orders' \in [Orders -> Rows]
      BY <3>1, <3>2, <3>3
    <3> USE DEF Rows
    <3> QED
      BY <1>4, <3>4 DEF AskStripe, untouched, TypeOK, TablesTyped
  <2>6. \E q \in JobType : job' = [job EXCEPT ![v] = q]
    BY <2>1, <2>4
  <2> QED
    BY <1>1, <2>5, <2>6, GotoBecomes, VisitStepTyped
<1>5. CASE ConfirmPaid(v)
  <2>1. Of(v) \in Sessions /\ buys[Of(v)] \in Orders
    BY <1>5 DEF ConfirmPaid, FormedInv, VisitFormed, Of, SessionPlaces, Exists, At
  <2>2. lock' = lock /\ UNCHANGED <<untouched, status, plans, mishaps>>
    BY <1>5 DEF ConfirmPaid, untouched
  <2>3. CASE SettleOrder(buys[Of(v)], Of(v), TRUE, v, "visit", Moved(v, "settle"))
    <3>1. Becomes(v, Moved(v, "settle")) /\ GoodsTyped'
      BY <1>1, <1>2, <2>1, <2>2, <2>3, SettlesOrder DEF Places, GoodsTyped, TypeOK
    <3>2. TablesTyped'
      BY <2>2, <3>1 DEF TypeOK, TablesTyped, GoodsTyped, untouched
    <3> QED
      BY <1>2, <2>2, <3>1, <3>2, VisitStepTyped DEF Places
  <2>4. CASE Goto(v, "ask") /\ UNCHANGED <<orders, subs>>
    <3>1. TablesTyped'
      BY <2>2, <2>4 DEF TypeOK, TablesTyped, untouched
    <3> QED
      BY <1>2, <2>2, <2>4, <3>1, VisitStepTyped DEF Places
  <2> QED
    BY <1>5, <2>3, <2>4 DEF ConfirmPaid, Moved
<1>6. CASE SettleSession(v)
  <2>1. Of(v) \in Sessions
    BY <1>6 DEF SettleSession, FormedInv, VisitFormed, Of, SessionPlaces, Exists, At
  <2> DEFINE q == [job[v] EXCEPT !.at = "ask", !.session = 0]
  <2>2. q \in JobType
    BY <1>1 DEF JobType
  <2>3. job' = [job EXCEPT ![v] = q]
    BY <1>6 DEF SettleSession, TypeOK
  <2>4. TablesTyped' /\ lock' = lock
    BY <1>6, <2>1 DEF SettleSession, untouched, goods, TypeOK, TablesTyped
  <2> HIDE DEF q
  <2> QED
    BY <1>1, <2>2, <2>3, <2>4, GotoBecomes, VisitStepTyped
<1> QED
  BY <1>3, <1>4, <1>5, <1>6

LEMMA SimulationTyped ==
  ASSUME TypeOK, FormedInv, NEW v \in Visits,
         \/ \E s \in Sessions, success \in BOOLEAN : Simulate(v, s, success)
         \/ SimulateOrder(v) \/ SimulateRead(v) \/ SimulateSave(v) \/ SimulateCredit(v)
  PROVE  TypeOK'
<1>1. v \in Jobs /\ job[v] \in JobType
  BY Names DEF TypeOK
<1>2. ASSUME NEW s \in Sessions, NEW success \in BOOLEAN, Simulate(v, s, success)
      PROVE  TypeOK'
  <2> DEFINE q == [Idle EXCEPT !.at = "simOrder", !.session = s,
                               !.kind = IF success THEN "success" ELSE "failure"]
  <2>1. q \in JobType
    BY DEF Idle, JobType
  <2>2. job' = [job EXCEPT ![v] = q]
    BY <1>2 DEF Simulate
  <2> HIDE DEF q
  <2>3. Becomes(v, q)
    BY <1>1, <2>1, <2>2, GotoBecomes
  <2>4. plans' \in [Plans -> {"pending", "active", "overdue"}]
    BY <1>2, SettlesPlan DEF Simulate, TypeOK
  <2>5. TablesTyped' /\ lock' = lock
    <3>1. simulated' \in [Sessions -> Nat]
      <4>1. simulated' = [simulated EXCEPT ![s] = simulated[s] + 1] /\ simulated \in [Sessions -> Nat]
        BY <1>2 DEF Simulate, TypeOK
      <4> QED
        BY <4>1
    <3> QED
      BY <1>2, <2>4, <3>1 DEF Simulate, TypeOK, TablesTyped
  <2> QED
    BY <2>1, <2>3, <2>5, VisitStepTyped
<1>3. ASSUME SimulateRead(v) \/ SimulateSave(v) \/ SimulateCredit(v)
      PROVE  TypeOK'
  <2>1. Of(v) \in Sessions
    BY <1>3 DEF SimulateRead, SimulateSave, SimulateCredit, FormedInv, VisitFormed, Of, SessionPlaces,
                SimulationPlaces, Exists, At
  <2>2. \E q \in JobType : job' = [job EXCEPT ![v] = q]
    <3>1. CASE SimulateRead(v)
      <4>1. \A owes \in BOOLEAN : [job[v] EXCEPT !.at = "simSave", !.owes = owes] \in JobType
        BY <1>1 DEF JobType
      <4> QED
        BY <3>1, <4>1 DEF SimulateRead, TypeOK
    <3>2. CASE SimulateSave(v)
      BY <1>1, <3>2, GotoMoves DEF SimulateSave, Goto, Moved, Places
    <3>3. CASE SimulateCredit(v)
      BY <3>3, IdleType DEF SimulateCredit, Leave
    <3> QED
      BY <1>3, <3>1, <3>2, <3>3
  <2>3. TablesTyped' /\ lock' = lock
    BY <1>3, <2>1 DEF SimulateRead, SimulateSave, SimulateCredit, Mishap, untouched, goods, TypeOK,
                      TablesTyped
  <2> QED
    BY <1>1, <2>2, <2>3, GotoBecomes, VisitStepTyped
<1>4. CASE SimulateOrder(v)
  <2>1. Of(v) \in Sessions /\ (job[v].kind = "success") \in BOOLEAN
    BY <1>4 DEF SimulateOrder, FormedInv, VisitFormed, Of, SessionPlaces, SimulationPlaces, Exists, At
  <2>2. Moved(v, "simRead") \in JobType /\ (Goto(v, "simRead") => Becomes(v, Moved(v, "simRead")))
    BY <1>1, GotoMoves DEF Places
  <2>3. UNCHANGED <<untouched, status, plans, mishaps>> /\ lock' = lock
    BY <1>4 DEF SimulateOrder, untouched
  <2>4. Becomes(v, Moved(v, "simRead")) /\ GoodsTyped'
    <3>1. CASE Settle(Of(v), job[v].kind = "success", v, "simulation", Moved(v, "simRead"))
      BY <1>1, <2>1, <2>2, <2>3, <3>1, Settles
    <3>2. CASE Goto(v, "simRead") /\ UNCHANGED <<orders, subs>>
      BY <2>2, <2>3, <3>2 DEF GoodsTyped, TypeOK
    <3> QED
      BY <1>4, <3>1, <3>2 DEF SimulateOrder, Moved
  <2>5. TablesTyped'
    BY <2>3, <2>4 DEF TypeOK, TablesTyped, GoodsTyped, untouched
  <2> QED
    BY <2>2, <2>3, <2>4, <2>5, VisitStepTyped
<1> QED
  BY <1>2, <1>3, <1>4

LEMMA TypeStep ==
  ASSUME TypeOK, FormedInv, Next
  PROVE  TypeOK'
<1>1. ASSUME NEW s \in Sessions, UserPays(s) \/ SessionExpires(s) \/ IntentCanceled(s)
      PROVE  TypeOK'
  BY <1>1, StripeTyped
<1>2. ASSUME NEW h \in Deliveries, NEW e \in Event, Deliver(h, e)
      PROVE  TypeOK'
  BY <1>2, DeliverTyped
<1>3. ASSUME NEW v \in Visits, Arrive(v)
      PROVE  TypeOK'
  BY <1>3, BuysTyped, LooksTyped, SimulationTyped DEF Arrive, Looks
<1>4. ASSUME NEW h \in Deliveries, WebhookStep(h)
      PROVE  TypeOK'
  BY <1>4, WebhookTyped, ConfirmTyped DEF WebhookStep
<1>5. ASSUME NEW v \in Visits, VisitStep(v)
      PROVE  TypeOK'
  BY <1>5, BuysTyped, LooksTyped, ConfirmsTyped, SimulationTyped DEF VisitStep, Looks
<1>6. ASSUME NEW x \in Jobs, Die(x)
      PROVE  TypeOK'
  <2>1. Of(x) \in Sessions \/ ~Torn(x)
    BY DEF FormedInv, WebhookFormed, VisitFormed, Exists, WebhookPlaces, Idle, Torn, Of, Jobs
  <2> QED
    BY <1>6, <2>1, DieTyped
<1> QED
  BY <1>1, <1>2, <1>3, <1>4, <1>5, <1>6 DEF Next, Step

-----------------------------------------------------------------------------
(* What a request knows.                                                   *)

LEMMA GotoPicks ==
  ASSUME TypeOK, NEW x \in Jobs, NEW place \in Places, Goto(x, place)
  PROVE  \E q \in JobType :
           /\ Becomes(x, q) /\ q.at = place /\ q.kind = job[x].kind /\ q.session = job[x].session
           /\ q.order = job[x].order /\ q.owes = job[x].owes /\ q.todo = job[x].todo
           /\ q.met = job[x].met
  BY GotoMoves DEF Of

(* The other requests.                                                     *)
LEMMA OthersStay ==
  ASSUME TypeOK, NEW x \in Jobs, NEW q \in JobType, Becomes(x, q), NEW y \in Jobs, y # x
  PROVE  /\ job'[y].at = job[y].at /\ job'[y].kind = job[y].kind
         /\ job'[y].session = job[y].session /\ job'[y].order = job[y].order
         /\ job'[y].owes = job[y].owes /\ job'[y].todo = job[y].todo
         /\ job[y].met \subseteq job'[y].met
         /\ job[y] = Idle => job'[y] = Idle
<1>1. PICK met \in SUBSET Orders :
        \/ job'[y] = job[y]
        \/ job[y].met \subseteq met /\ job'[y] = [job[y] EXCEPT !.met = met] /\ job[y].at # "idle"
  <2>1. {} \in SUBSET Orders
    OBVIOUS
  <2>2. CASE Met(y)
    BY <2>2 DEF Met
  <2> QED
    BY <2>1, <2>2 DEF Becomes
<1>2. job[y] \in JobType
  BY DEF TypeOK
<1>3. CASE job'[y] = job[y]
  BY <1>3
<1>4. CASE job[y].met \subseteq met /\ job'[y] = [job[y] EXCEPT !.met = met] /\ job[y].at # "idle"
  <2>1. job'[y].met = met /\ job[y] # Idle
    BY <1>2, <1>4 DEF JobType, Idle
  <2> QED
    BY <1>2, <1>4, <2>1 DEF JobType
<1> QED
  BY <1>1, <1>3, <1>4

(* What never goes back.                                                   *)
Grows ==
  /\ \A s \in Sessions : /\ stripe[s] # "absent" => stripe'[s] # "absent" /\ buys'[s] = buys[s]
                         /\ stripe[s] = "paid" => stripe'[s] = "paid"
  /\ \A s \in Sessions : simulated[s] > 0 => simulated'[s] > 0
  /\ canceled \subseteq canceled'
  /\ \A o \in Orders : subs[o] \subseteq subs'[o]
  /\ \A e \in Event : events[e] # "absent" => events'[e] # "absent"


TablesFormed ==
  /\ \A s \in Sessions : status[s] = "absent" <=> stripe[s] = "absent"
  /\ \A s \in canceled : Exists(s)
  /\ \A s \in Sessions : simulated[s] > 0 => Exists(s)
  /\ \A o \in Orders : orders[o].session # 0 =>
       Exists(orders[o].session) /\ buys[orders[o].session] = o

LEMMA FormedStep ==
  ASSUME TypeOK, FormedInv, NEW x \in Jobs, NEW q \in JobType, Becomes(x, q), Grows, TablesFormed',
         x \in Deliveries => WebhookFormed(x, q)', x \in Visits => VisitFormed(q)',
         \A s \in Sessions : lock[s] \in {None, x} \/ lock'[s] = lock[s]
  PROVE  FormedInv'
<1>1. \A s : Exists(s) => /\ Exists(s)' /\ buys'[s] = buys[s]
                          /\ stripe[s] = "paid" => stripe'[s] = "paid"
                          /\ simulated[s] > 0 => simulated'[s] > 0
  BY DEF Exists, Grows
<1>2. job'[x] = q
  BY DEF Becomes
<1>3. ASSUME NEW h \in Deliveries
      PROVE  WebhookFormed(h, job[h])'
  <2>1. CASE h = x
    BY <1>2, <2>1 DEF WebhookFormed
  <2>2. CASE h # x
    <3>1. h \in Jobs /\ h # None /\ WebhookFormed(h, job[h])
      BY Names DEF FormedInv
    <3>2. /\ job'[h].at = job[h].at /\ job'[h].kind = job[h].kind /\ job'[h].session = job[h].session
          /\ job[h] = Idle => job'[h] = Idle
      BY <2>2, <3>1, OthersStay
    <3>3. Exists(job[h].session) /\ lock[job[h].session] = h => lock'[job[h].session] = h
      BY <2>2, <3>1 DEF Exists
    <3> QED
      BY <1>1, <3>1, <3>2, <3>3 DEF WebhookFormed
  <2> QED
    BY <2>1, <2>2
<1>4. ASSUME NEW v \in Visits
      PROVE  VisitFormed(job[v])'
  <2>1. CASE v = x
    BY <1>2, <2>1 DEF VisitFormed, Exists
  <2>2. CASE v # x
    <3>1. v \in Jobs /\ VisitFormed(job[v])
      BY Names DEF FormedInv
    <3>2. /\ job'[v].at = job[v].at /\ job'[v].kind = job[v].kind /\ job'[v].session = job[v].session
          /\ job'[v].order = job[v].order /\ job'[v].owes = job[v].owes /\ job'[v].todo = job[v].todo
      BY <2>2, <3>1, OthersStay
    <3>3. /\ job[v].at \in {"check", "trust", "confirmPaid", "simOrder"} => Exists(job[v].session)
          /\ \A i \in job[v].todo : i[2] # 0 => Exists(i[2])
      BY <3>1 DEF VisitFormed, SessionPlaces, SimulationPlaces
    <3> QED
      BY <1>1, <3>1, <3>2, <3>3 DEF VisitFormed
  <2> QED
    BY <2>1, <2>2
<1> QED
  BY <1>3, <1>4 DEF FormedInv, TablesFormed


LEMMA SettleGrows ==
  ASSUME TypeOK, NEW s \in Sessions, NEW success \in BOOLEAN, NEW x, NEW by, NEW q,
         \/ Settle(s, success, x, by, q)
         \/ buys[s] \in Orders /\ SettleOrder(buys[s], s, success, x, by, q)
  PROVE  \A o \in Orders : subs[o] \subseteq subs'[o]
  BY DEF Settle, SettleOrder, Subscribed, goods, TypeOK

LEMMA GrowsStep ==
  ASSUME TypeOK, FormedInv, Next
  PROVE  Grows
<1>1. ASSUME NEW s \in Sessions, UserPays(s) \/ SessionExpires(s) \/ IntentCanceled(s)
      PROVE  Grows
  BY <1>1 DEF UserPays, SessionExpires, IntentCanceled, here, goods, TypeOK, Grows
<1>2. ASSUME NEW h \in Deliveries, NEW e \in Event, Deliver(h, e)
      PROVE  Grows
  BY <1>2 DEF Deliver, stripeAndTables, goods, TypeOK, Grows
<1>3. ASSUME NEW v \in Visits, CreateSession(v) \/ BindOrder(v)
      PROVE  Grows
  BY <1>3 DEF CreateSession, BindOrder, goods, TypeOK, Grows
<1>4. ASSUME NEW v \in Visits, Looks(v)
      PROVE  Grows
  BY <1>4, LooksMove DEF unchanged, untouched, goods, Grows
<1>5. ASSUME NEW v \in Visits, NEW s \in Sessions, NEW success \in BOOLEAN, Simulate(v, s, success)
      PROVE  Grows
  BY <1>5 DEF Simulate, TypeOK, Grows
<1>6. ASSUME NEW v \in Visits, SimulateOrder(v) \/ SimulateRead(v) \/ SimulateSave(v) \/ SimulateCredit(v)
      PROVE  Grows
  <2>1. CASE SimulateRead(v) \/ SimulateSave(v) \/ SimulateCredit(v)
    BY <2>1 DEF SimulateRead, SimulateSave, SimulateCredit, untouched, goods, Grows
  <2>2. CASE SimulateOrder(v)
    <3>1. Of(v) \in Sessions /\ v \in Jobs
      BY <2>2, Names DEF SimulateOrder, FormedInv, VisitFormed, Of, SessionPlaces, SimulationPlaces,
                         Exists, At
    <3>2. CASE subs' = subs
      BY <2>2, <3>2 DEF SimulateOrder, untouched, Grows
    <3>3. CASE Settle(Of(v), job[v].kind = "success", v, "simulation", [job[v] EXCEPT !.at = "simRead"])
      <4> DEFINE q == [job[v] EXCEPT !.at = "simRead"]
                 success == job[v].kind = "success"
      <4>1. Settle(Of(v), success, v, "simulation", q) /\ success \in BOOLEAN
        BY <3>3
      <4> HIDE DEF q, success
      <4>2. \A o \in Orders : subs[o] \subseteq subs'[o]
        BY <3>1, <4>1, SettleGrows
      <4> QED
        BY <2>2, <4>2 DEF SimulateOrder, untouched, Grows
    <3> QED
      BY <2>2, <3>2, <3>3 DEF SimulateOrder
  <2> QED
    BY <1>6, <2>1, <2>2
<1>7. ASSUME NEW v \in Visits, TrustUser(v) \/ ConfirmPaid(v)
      PROVE  Grows
  <2>1. Of(v) \in Sessions /\ v \in Jobs /\ Exists(Of(v))
    BY <1>7, Names DEF TrustUser, ConfirmPaid, FormedInv, VisitFormed, Of, SessionPlaces, Exists, At
  <2>2. At(v, "trust") => buys[Of(v)] = job[v].order /\ job[v].order \in Orders
    BY <2>1 DEF FormedInv, VisitFormed, Of, OrderPlaces, At
  <2>3. At(v, "confirmPaid") => buys[Of(v)] \in Orders
    BY <2>1 DEF FormedInv, VisitFormed, Of, At
  <2>4. \A o \in Orders : subs[o] \subseteq subs'[o]
    <3>1. CASE subs' = subs
      BY <3>1
    <3>2. CASE SettleOrder(job[v].order, Of(v), TRUE, v, "trust", [job[v] EXCEPT !.at = "lookAgain"])
               /\ At(v, "trust")
      BY <2>1, <2>2, <3>2, SettleGrows
    <3>3. CASE SettleOrder(buys[Of(v)], Of(v), TRUE, v, "visit", [job[v] EXCEPT !.at = "settle"])
               /\ At(v, "confirmPaid")
      BY <2>1, <2>3, <3>3, SettleGrows
    <3> QED
      BY <1>7, <3>1, <3>2, <3>3 DEF TrustUser, ConfirmPaid
  <2> QED
    BY <1>7, <2>4 DEF TrustUser, ConfirmPaid, untouched, Grows
<1>8. ASSUME NEW v \in Visits, AskStripe(v) \/ SettleSession(v)
      PROVE  Grows
  BY <1>8 DEF AskStripe, SettleSession, untouched, goods, Grows
<1>9. ASSUME NEW h \in Deliveries, ReadSession(h) \/ SaveSession(h) \/ Credit(h) \/ Commit(h)
      PROVE  Grows
  BY <1>9 DEF ReadSession, SaveSession, Credit, Commit, stripeAndTables, goods, Grows
<1>10. ASSUME NEW h \in Deliveries, MarkProcessed(h) \/ RollBack(h)
       PROVE  Grows
  BY <1>10 DEF MarkProcessed, RollBack, stripeAndTables, goods, TypeOK, Grows
<1>11. ASSUME NEW h \in Deliveries, ConfirmSubscription(h) \/ ConfirmOrder(h)
       PROVE  Grows
  <2>1. CASE ConfirmSubscription(h)
    BY <2>1 DEF ConfirmSubscription, Grows
  <2>2. CASE ConfirmOrder(h)
    <3>1. Of(h) \in Sessions
      BY <2>2, Names DEF ConfirmOrder, FormedInv, WebhookFormed, Idle, Of, Exists, At
    <3>2. \A o \in Orders : subs[o] \subseteq subs'[o]
      <4> DEFINE q == [job[h] EXCEPT !.at = "commit"]
                 success == job[h].kind = "completed"
      <4>1. Settle(Of(h), success, h, "webhook", q) /\ success \in BOOLEAN
        BY <2>2 DEF ConfirmOrder
      <4> HIDE DEF q, success
      <4> QED
        BY <3>1, <4>1, SettleGrows
    <3> QED
      BY <2>2, <3>2 DEF ConfirmOrder, Grows
  <2> QED
    BY <1>11, <2>1, <2>2
<1>12. ASSUME NEW x \in Jobs, Die(x)
       PROVE  Grows
  BY <1>12 DEF Die, goods, Grows
<1> QED
  BY <1>1, <1>2, <1>3, <1>4, <1>5, <1>6, <1>7, <1>8, <1>9, <1>10, <1>11, <1>12
     DEF Next, Arrive, Step, WebhookStep, VisitStep, Looks


-----------------------------------------------------------------------------
(* FormedInv.                                                              *)

LEMMA TablesKept ==
  ASSUME TypeOK, FormedInv, Grows,
         \A s \in Sessions : /\ status'[s] = "absent" <=> status[s] = "absent"
                             /\ stripe'[s] = "absent" <=> stripe[s] = "absent",
         \A s \in canceled' : s \in canceled \/ Exists(s),
         \A s \in Sessions : simulated'[s] > 0 => simulated[s] > 0 \/ Exists(s),
         \A o \in Orders : \/ orders'[o].session = orders[o].session
                           \/ Exists(orders'[o].session) /\ buys[orders'[o].session] = o
  PROVE  TablesFormed'
<1>1. \A s : Exists(s) => Exists(s)' /\ buys'[s] = buys[s]
  BY DEF Exists, Grows
<1>2. \A o \in Orders : orders'[o].session # 0 =>
        Exists(orders'[o].session) /\ buys[orders'[o].session] = o
  BY DEF FormedInv
<1>3. /\ \A s \in canceled' : Exists(s)
      /\ \A s \in Sessions : simulated'[s] > 0 => Exists(s)
  BY DEF FormedInv
<1>4. \A s \in Sessions : status'[s] = "absent" <=> stripe'[s] = "absent"
  BY DEF FormedInv
<1> QED
  BY <1>1, <1>2, <1>3, <1>4 DEF TablesFormed

LEMMA StripeForms ==
  ASSUME TypeOK, FormedInv, Grows,
         NEW s \in Sessions, UserPays(s) \/ SessionExpires(s) \/ IntentCanceled(s)
  PROVE  FormedInv'
<1>1. \A t : Exists(t) => /\ Exists(t)' /\ buys'[t] = buys[t]
                          /\ stripe[t] = "paid" => stripe'[t] = "paid"
                          /\ simulated[t] > 0 => simulated'[t] > 0
  BY DEF Exists, Grows
<1>2. job' = job /\ lock' = lock
  BY DEF UserPays, SessionExpires, IntentCanceled, here
<1>3. TablesFormed'
  <2>1. Exists(s)
    BY DEF UserPays, SessionExpires, IntentCanceled, Exists
  <2>2. \A t \in Sessions : stripe'[t] = "absent" <=> stripe[t] = "absent"
    BY DEF UserPays, SessionExpires, IntentCanceled, TypeOK
  <2>3. canceled' \subseteq canceled \cup {s} /\ UNCHANGED here
    BY DEF UserPays, SessionExpires, IntentCanceled
  <2> QED
    BY <2>1, <2>2, <2>3, TablesKept DEF here, goods
<1>4. \A h \in Deliveries : WebhookFormed(h, job[h])'
  BY <1>1, <1>2 DEF FormedInv, WebhookFormed
<1>5. \A v \in Visits : VisitFormed(job[v])'
  <2> SUFFICES ASSUME NEW v \in Visits
               PROVE  VisitFormed(job[v])'
    OBVIOUS
  <2>1. VisitFormed(job[v])
    BY DEF FormedInv
  <2>2. /\ job[v].at \in {"check", "trust", "confirmPaid", "simOrder"} => Exists(job[v].session)
        /\ \A i \in job[v].todo : i[2] # 0 => Exists(i[2])
    BY <2>1 DEF VisitFormed, SessionPlaces, SimulationPlaces
  <2> QED
    BY <1>1, <1>2, <2>1, <2>2 DEF VisitFormed
<1> QED
  BY <1>3, <1>4, <1>5 DEF FormedInv, TablesFormed

LEMMA DeliverForms ==
  ASSUME TypeOK, FormedInv, Grows, NEW h \in Deliveries, NEW e \in Event, Deliver(h, e)
  PROVE  FormedInv'
<1>1. TablesFormed' /\ lock' = lock /\ stripe' = stripe /\ canceled' = canceled
  BY TablesKept DEF Deliver, stripeAndTables, goods
<1>2. CASE job' = job
  BY <1>1, <1>2 DEF Deliver, stripeAndTables, goods, FormedInv, TablesFormed, WebhookFormed, VisitFormed,
                    Exists
<1>3. CASE job' = [job EXCEPT ![h] = [Idle EXCEPT !.at = "read", !.kind = e.kind, !.session = e.session]]
  <2>1. PICK q \in JobType : /\ q = [Idle EXCEPT !.at = "read", !.kind = e.kind, !.session = e.session]
                             /\ q.at = "read" /\ q.kind = e.kind /\ q.session = e.session
    <3> DEFINE q == [Idle EXCEPT !.at = "read", !.kind = e.kind, !.session = e.session]
    <3>1. q \in JobType /\ q.at = "read" /\ q.kind = e.kind /\ q.session = e.session
      BY DEF Event, Idle, JobType, Kinds
    <3> HIDE DEF q
    <3> QED
      BY <3>1 DEF q
  <2>2. Becomes(h, q)
    BY <1>3, <2>1, Names, GotoBecomes
  <2>3. Exists(e.session) /\ e.kind \in Kinds /\ (e.kind = "completed" => stripe[e.session] = "paid")
    <3>1. \A s \in canceled : Exists(s)
      BY DEF FormedInv
    <3> QED
      BY <3>1 DEF Deliver, Due, Exists, Event
  <2>4. WebhookFormed(h, q)'
    BY <1>1, <2>1, <2>3 DEF WebhookFormed, WebhookPlaces, Exists
  <2> QED
    BY <1>1, <2>2, <2>4, Names, FormedStep
<1> QED
  BY <1>2, <1>3 DEF Deliver


LEMMA WebhookForms ==
  ASSUME TypeOK, FormedInv, Grows, NEW h \in Deliveries, WebhookStep(h)
  PROVE  FormedInv'
<1>1. h \in Jobs /\ h \notin Visits /\ h # None /\ WebhookFormed(h, job[h])
  BY Names DEF FormedInv
<1>2. job[h] # Idle
  BY DEF WebhookStep, ReadSession, SaveSession, Credit, ConfirmSubscription, ConfirmOrder, Commit, MarkProcessed,
         RollBack, Idle, At
<1>3. /\ stripe'[Of(h)] # "absent" /\ Of(h) \in Sessions
      /\ job[h].kind = "completed" => stripe'[Of(h)] = "paid"
  BY <1>1, <1>2 DEF WebhookFormed, Exists, Grows, Of
<1>4. TablesFormed'
  <2>1. \A s \in Sessions : /\ status'[s] = "absent" <=> status[s] = "absent"
                            /\ stripe'[s] = stripe[s]
    BY <1>1, <1>2, <1>3 DEF FormedInv, WebhookFormed, Exists, Of, WebhookStep, ReadSession, SaveSession,
       Credit, ConfirmSubscription, ConfirmOrder, Commit, MarkProcessed, RollBack, stripeAndTables, TypeOK
  <2>2. simulated' = simulated /\ canceled' = canceled
    BY DEF WebhookStep, ReadSession, SaveSession, Credit, ConfirmSubscription, ConfirmOrder, Commit, MarkProcessed,
           RollBack, stripeAndTables
  <2>3. \A o \in Orders : orders'[o].session = orders[o].session \/ (Exists(Of(h)) /\ buys[Of(h)] = o
                                                                  /\ orders'[o].session = Of(h))
    <3>1. CASE orders' = orders
      BY <3>1
    <3>2. CASE ConfirmOrder(h)
      BY <1>1, <1>2, <3>2 DEF ConfirmOrder, Settle, SettleOrder, goods, TypeOK, WebhookFormed, Of
    <3> QED
      BY <3>1, <3>2 DEF WebhookStep, ReadSession, SaveSession, Credit, ConfirmSubscription, Commit,
                        MarkProcessed, RollBack, stripeAndTables, goods
  <2> QED
    BY <2>1, <2>2, <2>3, TablesKept
<1>5. \A s \in Sessions : lock[s] \in {None, h} \/ lock'[s] = lock[s]
  BY <1>1 DEF WebhookStep, ReadSession, SaveSession, Credit, ConfirmSubscription, ConfirmOrder, Commit, MarkProcessed,
         RollBack, stripeAndTables, Unlock, TypeOK
<1>6. \E q \in JobType : Becomes(h, q) /\ WebhookFormed(h, q)'
  <2>1. ASSUME NEW place \in WebhookPlaces, Goto(h, place), place = "credit" =>
                 job[h].kind = "completed" /\ lock'[Of(h)] = h
        PROVE  \E q \in JobType : Becomes(h, q) /\ WebhookFormed(h, q)'
    <3>1. PICK q \in JobType : Becomes(h, q) /\ q.at = place /\ q.kind = job[h].kind
                               /\ q.session = job[h].session
      BY <1>1, <2>1, GotoPicks DEF Places, WebhookPlaces
    <3>2. WebhookFormed(h, q)'
      BY <1>1, <1>2, <1>3, <2>1, <3>1 DEF WebhookFormed, Exists, Of
    <3> QED
      BY <3>1, <3>2
  <2>2. ASSUME Leave(h)
        PROVE  \E q \in JobType : Becomes(h, q) /\ WebhookFormed(h, q)'
    <3>1. PICK q \in JobType : q = Idle
      BY IdleType
    <3>2. Becomes(h, q) /\ WebhookFormed(h, q)'
      BY <1>1, <2>2, <3>1, GotoBecomes DEF Leave, WebhookFormed
    <3> QED
      BY <3>2
  <2>3. CASE SaveSession(h)
    <3>1. PICK place \in {"credit", "confirm", "order", "commit"} :
            Goto(h, place) /\ (place = "credit" => job[h].kind = "completed" /\ lock'[Of(h)] = h)
      BY <1>1, <1>2, <1>3, <2>3 DEF SaveSession, WebhookFormed, Kinds, TypeOK
    <3> QED
      BY <2>1, <3>1 DEF WebhookPlaces
  <2>4. CASE ConfirmOrder(h)
    <3>1. PICK q \in JobType : q = Moved(h, "commit") /\ q.at = "commit"
                               /\ q.kind = job[h].kind /\ q.session = job[h].session
      BY <1>1, GotoMoves DEF Places, Of
    <3>2. PICK success \in BOOLEAN : Settle(Of(h), success, h, "webhook", q) /\ plans' = plans
      BY <2>4, <3>1 DEF ConfirmOrder, Moved
    <3>3. Becomes(h, q)
      BY <1>1, <1>3, <3>2, Settles
    <3>4. WebhookFormed(h, q)'
      BY <1>1, <1>2, <1>3, <3>1 DEF WebhookFormed, Exists, WebhookPlaces, Of
    <3> QED
      BY <3>3, <3>4
  <2>5. CASE ReadSession(h)
    <3>1. PICK place \in {"confirm", "save"} : Goto(h, place)
      BY <2>5 DEF ReadSession
    <3> QED
      BY <2>1, <3>1 DEF WebhookPlaces
  <2> QED
    BY <2>1, <2>2, <2>3, <2>4, <2>5 DEF WebhookStep, Credit, ConfirmSubscription, Commit, MarkProcessed,
                                        RollBack, WebhookPlaces
<1> QED
  BY <1>1, <1>4, <1>5, <1>6, FormedStep


(* A visit moves and no table it reads changes.                            *)
LEMMA VisitMoves ==
  ASSUME TypeOK, FormedInv, Grows, TablesFormed', NEW v \in Visits, NEW q \in JobType,
         job' = [job EXCEPT ![v] = q] \/ Becomes(v, q), VisitFormed(q), lock' = lock
  PROVE  FormedInv'
<1>1. \A s : Exists(s) => /\ Exists(s)' /\ buys'[s] = buys[s]
                          /\ stripe[s] = "paid" => stripe'[s] = "paid"
                          /\ simulated[s] > 0 => simulated'[s] > 0
  BY DEF Exists, Grows
<1>2. VisitFormed(q)'
  BY <1>1 DEF VisitFormed, SessionPlaces, SimulationPlaces
<1>3. Becomes(v, q)
  BY Names, GotoBecomes
<1> QED
  BY <1>2, <1>3, Names, FormedStep

LEMMA IdleFormed == VisitFormed(Idle)
  BY DEF VisitFormed, Idle, WebhookPlaces, SessionPlaces, OrderPlaces, SimulationPlaces

LEMMA PendingForms ==
  ASSUME TypeOK, FormedInv
  PROVE  /\ \A i, j \in PendingOrders : i[1] = j[1] => i = j
         /\ \A i \in PendingOrders : /\ i[1] \in Orders /\ Pending(i[1])
                                     /\ i[2] # 0 => Exists(i[2]) /\ buys[i[2]] = i[1]
  BY DEF PendingOrders, FormedInv

LEMMA LooksForm ==
  ASSUME TypeOK, FormedInv, Grows, NEW v \in Visits, Looks(v)
  PROVE  FormedInv'
<1>1. v \in Jobs /\ VisitFormed(job[v])
  BY Names DEF FormedInv
<1>2. lock' = lock /\ TablesFormed'
  BY LooksMove, TablesKept DEF unchanged, untouched, goods
<1>3. ASSUME NEW place \in {"lookAgain", "trust", "list"}, Goto(v, place),
             place = "trust" => At(v, "check"), job[v].at \in OrderPlaces
      PROVE  FormedInv'
  <2>1. PICK q \in JobType : /\ Becomes(v, q) /\ q.at = place /\ q.kind = job[v].kind
                             /\ q.session = job[v].session /\ q.order = job[v].order
                             /\ q.owes = job[v].owes /\ q.todo = job[v].todo
    BY <1>1, <1>3, GotoPicks DEF Places
  <2>2. VisitFormed(q)
    BY <1>1, <1>3, <2>1 DEF VisitFormed, SessionPlaces, SimulationPlaces, OrderPlaces, WebhookPlaces, At
  <2> QED
    BY <1>2, <2>1, <2>2, VisitMoves
<1>4. ASSUME Leave(v)
      PROVE  FormedInv'
  BY <1>2, <1>4, IdleType, IdleFormed, VisitMoves DEF Leave
<1>5. ASSUME NEW o \in Orders, NEW s, NEW place \in {"check", "list"}, NEW kind \in {"page", "last"},
             job' = [job EXCEPT ![v] = [Idle EXCEPT !.at = place, !.kind = kind, !.order = o, !.session = s]],
             s = orders[o].session, place = "check" => s # 0
      PROVE  FormedInv'
  <2> DEFINE q == [Idle EXCEPT !.at = place, !.kind = kind, !.order = o, !.session = s]
  <2>1. q \in JobType /\ q.at = place /\ q.order = o /\ q.session = s /\ q.todo = {} /\ q.owes = FALSE
    BY <1>5 DEF Idle, JobType, TypeOK
  <2>2. VisitFormed(q)
    <3> HIDE DEF q
    <3> QED
      BY <1>5, <2>1 DEF VisitFormed, FormedInv, WebhookPlaces, SessionPlaces, SimulationPlaces, OrderPlaces
  <2>3. job' = [job EXCEPT ![v] = q]
    BY <1>5
  <2> HIDE DEF q
  <2> QED
    BY <1>2, <2>1, <2>2, <2>3, VisitMoves
<1>6. ASSUME NEW kind \in {"page", "list"}, NEW order \in Orders \cup {None},
             TakeUp(v, kind, order, PendingOrders)
      PROVE  FormedInv'
  <2>1. PICK q \in JobType : /\ job' = [job EXCEPT ![v] = q] /\ q.at = "ask"
                             /\ q.order = order /\ q.todo \subseteq PendingOrders /\ ~q.owes
    BY <1>6, TakesUp
  <2>2. VisitFormed(q)
    BY <2>1, PendingForms DEF VisitFormed, WebhookPlaces, SessionPlaces, SimulationPlaces, OrderPlaces
  <2> QED
    BY <1>2, <2>1, <2>2, VisitMoves
<1>7. ASSUME NEW o \in Orders, GetOrder(v, o)
      PROVE  FormedInv'
  BY <1>5, <1>7 DEF GetOrder
<1>8. CASE Finalize(v)
  BY <1>3, <1>8 DEF Finalize, OrderPlaces, At
<1>9. CASE LookAgain(v)
  BY <1>3, <1>4, <1>9 DEF LookAgain, OrderPlaces, At
<1>10. CASE ListSubscriptions(v)
  BY <1>6, <1>10 DEF ListSubscriptions
<1>11. CASE ReconcileOrders(v)
  <2>1. job[v].order \in Orders \cup {None}
    BY <1>1 DEF TypeOK, JobType
  <2>2. TakeUp(v, "page", job[v].order, PendingOrders)
    BY <1>11 DEF ReconcileOrders
  <2> QED
    BY <1>6, <2>1, <2>2
<1>12. CASE Reconciled(v)
  <2>1. job[v].order \in Orders \cup {None}
    BY <1>1 DEF TypeOK, JobType
  <2> QED
    BY <1>4, <1>5, <1>12, <2>1 DEF Reconciled
<1> QED
  BY <1>7, <1>8, <1>9, <1>10, <1>11, <1>12 DEF Looks


LEMMA BuysForm ==
  ASSUME TypeOK, FormedInv, Grows, NEW v \in Visits, CreateSession(v) \/ BindOrder(v)
  PROVE  FormedInv'
<1>1. CASE CreateSession(v)
  <2>1. PICK s \in Sessions, o \in Orders \cup {None}, p \in Plans \cup {None} :
          /\ stripe[s] = "absent"
          /\ job' = [job EXCEPT ![v] = [Idle EXCEPT !.at = "bind", !.session = s]]
          /\ stripe' = [stripe EXCEPT ![s] = "created"]
          /\ status' = [status EXCEPT ![s] = "open"]
          /\ buys' = [buys EXCEPT ![s] = o] /\ starts' = [starts EXCEPT ![s] = p]
          /\ UNCHANGED <<canceled, lock, events, goods, credits, simulated, mishaps>>
    <3>1. \A s \in Sessions : \A ware \in Wares[s] :
            ware[1] \in Orders \cup {None} /\ ware[2] \in Plans \cup {None}
      BY PaymentsAssumption DEF Sessions
    <3>2. PICK s \in Sessions : \E ware \in Wares[s] :
          /\ stripe[s] = "absent"
          /\ job' = [job EXCEPT ![v] = [Idle EXCEPT !.at = "bind", !.session = s]]
          /\ stripe' = [stripe EXCEPT ![s] = "created"]
          /\ status' = [status EXCEPT ![s] = "open"]
          /\ buys' = [buys EXCEPT ![s] = ware[1]] /\ starts' = [starts EXCEPT ![s] = ware[2]]
          /\ UNCHANGED <<canceled, lock, events, goods, credits, simulated, mishaps>>
      BY <1>1 DEF CreateSession
    <3>3. PICK ware \in Wares[s] :
          /\ stripe[s] = "absent"
          /\ job' = [job EXCEPT ![v] = [Idle EXCEPT !.at = "bind", !.session = s]]
          /\ stripe' = [stripe EXCEPT ![s] = "created"]
          /\ status' = [status EXCEPT ![s] = "open"]
          /\ buys' = [buys EXCEPT ![s] = ware[1]] /\ starts' = [starts EXCEPT ![s] = ware[2]]
          /\ UNCHANGED <<canceled, lock, events, goods, credits, simulated, mishaps>>
      BY <3>2
    <3>4. ware[1] \in Orders \cup {None} /\ ware[2] \in Plans \cup {None}
      BY <3>1
    <3> USE <3>4
    <3> WITNESS s \in Sessions, ware[1] \in Orders \cup {None}, ware[2] \in Plans \cup {None}
    <3> QED
      BY <3>3
  <2>2. \A t : Exists(t) => Exists(t)' /\ buys'[t] = buys[t]
    BY DEF Exists, Grows
  <2>3. TablesFormed'
    <3>1. \A t \in Sessions : status'[t] = "absent" <=> stripe'[t] = "absent"
      BY <2>1 DEF FormedInv, TypeOK
    <3> QED
      BY <2>1, <2>2, <3>1 DEF FormedInv, TablesFormed, goods
  <2>4. PICK q \in JobType : /\ q = [Idle EXCEPT !.at = "bind", !.session = s] /\ q.at = "bind"
                             /\ q.session = s /\ q.todo = {} /\ q.owes = FALSE
    <3> DEFINE q == [Idle EXCEPT !.at = "bind", !.session = s]
    <3>1. q \in JobType /\ q.at = "bind" /\ q.session = s /\ q.todo = {} /\ q.owes = FALSE
      BY DEF Idle, JobType
    <3> HIDE DEF q
    <3> QED
      BY <3>1 DEF q
  <2>5. Becomes(v, q)
    BY <2>1, <2>4, Names, GotoBecomes
  <2>6. VisitFormed(q)'
    BY <2>1, <2>4 DEF VisitFormed, WebhookPlaces, SessionPlaces, SimulationPlaces, OrderPlaces, Exists,
                      TypeOK
  <2> QED
    BY <2>1, <2>3, <2>5, <2>6, Names, FormedStep
<1>2. CASE BindOrder(v)
  <2>1. Exists(Of(v))
    BY <1>2 DEF BindOrder, FormedInv, VisitFormed, Of, SessionPlaces, At
  <2>2. TablesFormed'
    <3>1. \A s \in Sessions : stripe'[s] = "absent" <=> stripe[s] = "absent"
      BY <1>2 DEF BindOrder, TypeOK
    <3>2. \A o \in Orders : orders'[o].session = orders[o].session
                            \/ (orders'[o].session = Of(v) /\ buys[Of(v)] = o)
      BY <1>2 DEF BindOrder, TypeOK
    <3>3. status' = status /\ simulated' = simulated /\ canceled' = canceled
      BY <1>2 DEF BindOrder
    <3> QED
      BY <2>1, <3>1, <3>2, <3>3, TablesKept
  <2> QED
    BY <1>2, <2>2, IdleType, IdleFormed, VisitMoves DEF BindOrder, Leave
<1> QED
  BY <1>1, <1>2

LEMMA SettlementForms ==
  ASSUME TypeOK, FormedInv, Grows, NEW v \in Visits, NEW o \in Orders, NEW s \in Sessions,
         NEW success \in BOOLEAN, NEW by \in {"visit", "trust", "simulation"}, NEW q \in JobType,
         Exists(s), buys[s] = o, SettleOrder(o, s, success, v, by, q), VisitFormed(q),
         lock' = lock, stripe' = stripe, status' = status, canceled' = canceled,
         simulated' = simulated
  PROVE  FormedInv'
<1>1. Becomes(v, q)
  BY Names, SettlesOrder
<1>2. TablesFormed'
  <2>1. \A p \in Orders : orders'[p].session = orders[p].session \/ (orders'[p].session = s /\ p = o)
    BY DEF SettleOrder, TypeOK
  <2> QED
    BY <2>1, TablesKept
<1> QED
  BY <1>1, <1>2, VisitMoves

LEMMA ConfirmsForm ==
  ASSUME TypeOK, FormedInv, Grows, NEW v \in Visits,
         TrustUser(v) \/ ConfirmPaid(v) \/ SettleSession(v)
  PROVE  FormedInv'
<1>1. v \in Jobs /\ job[v] \in JobType /\ VisitFormed(job[v])
  BY Names DEF TypeOK, FormedInv
<1>2. \A place \in {"lookAgain", "settle", "ask"} :
        LET q == Moved(v, place)
        IN /\ q \in JobType /\ q.at = place /\ q.session = job[v].session /\ q.order = job[v].order
           /\ q.owes = job[v].owes /\ q.todo = job[v].todo
           /\ Goto(v, place) => Becomes(v, q)
  BY <1>1, GotoMoves DEF Places, Of
<1>3. CASE TrustUser(v)
  <2>1. /\ Exists(Of(v)) /\ Of(v) \in Sessions /\ job[v].order \in Orders
        /\ buys[Of(v)] = job[v].order
    BY <1>1, <1>3 DEF TrustUser, VisitFormed, Of, SessionPlaces, OrderPlaces, Exists, At
  <2>2. PICK q \in JobType : /\ q = Moved(v, "lookAgain") /\ q.at = "lookAgain" /\ q.todo = job[v].todo
                             /\ q.order = job[v].order /\ q.owes = job[v].owes
                             /\ Goto(v, "lookAgain") => Becomes(v, q)
    BY <1>2
  <2>3. VisitFormed(q)
    BY <1>1, <1>3, <2>1, <2>2 DEF TrustUser, VisitFormed, WebhookPlaces, SessionPlaces, SimulationPlaces,
                                  OrderPlaces, At
  <2>4. UNCHANGED <<untouched, status, plans, mishaps>>
    BY <1>3 DEF TrustUser
  <2>5. CASE SettleOrder(job[v].order, Of(v), TRUE, v, "trust", q)
    BY <2>1, <2>3, <2>4, <2>5, SettlementForms DEF untouched
  <2>6. CASE Goto(v, "lookAgain") /\ orders' = orders
    <3>1. TablesFormed'
      BY <2>4, <2>6, TablesKept DEF untouched
    <3> QED
      BY <2>2, <2>3, <2>4, <2>6, <3>1, VisitMoves DEF untouched
  <2> QED
    BY <1>3, <2>2, <2>5, <2>6 DEF TrustUser, Moved
<1>4. CASE ConfirmPaid(v)
  <2>1. Exists(Of(v)) /\ Of(v) \in Sessions /\ buys[Of(v)] \in Orders
    BY <1>1, <1>4 DEF ConfirmPaid, VisitFormed, Of, SessionPlaces, Exists, At
  <2>2. \A q \in JobType : q.at \in {"settle", "ask"} /\ q.todo = job[v].todo /\ q.owes = job[v].owes
                           /\ q.session = job[v].session => VisitFormed(q)
    BY <1>1, <1>4, <2>1 DEF ConfirmPaid, VisitFormed, WebhookPlaces, SessionPlaces, SimulationPlaces,
                            OrderPlaces, At, Of
  <2>3. UNCHANGED <<untouched, status, plans, mishaps>>
    BY <1>4 DEF ConfirmPaid
  <2>4. CASE SettleOrder(buys[Of(v)], Of(v), TRUE, v, "visit", Moved(v, "settle"))
    <3>1. PICK q \in JobType : q = Moved(v, "settle") /\ VisitFormed(q)
      BY <1>2, <2>2
    <3> QED
      BY <2>1, <2>3, <2>4, <3>1, SettlementForms DEF untouched
  <2>5. CASE Goto(v, "ask") /\ orders' = orders
    <3>1. PICK q \in JobType : Becomes(v, q) /\ VisitFormed(q)
      BY <1>2, <2>2, <2>5
    <3>2. TablesFormed'
      BY <2>3, <2>5, TablesKept DEF untouched
    <3> QED
      BY <2>3, <2>5, <3>1, <3>2, VisitMoves DEF untouched
  <2> QED
    BY <1>4, <2>4, <2>5 DEF ConfirmPaid, Moved
<1>5. CASE SettleSession(v)
  <2>1. PICK q \in JobType : /\ q = [job[v] EXCEPT !.at = "ask", !.session = 0] /\ q.at = "ask"
                             /\ q.todo = job[v].todo /\ q.owes = job[v].owes
    <3> DEFINE q == [job[v] EXCEPT !.at = "ask", !.session = 0]
    <3>1. q \in JobType /\ q.at = "ask" /\ q.todo = job[v].todo /\ q.owes = job[v].owes
      BY <1>1 DEF JobType
    <3> HIDE DEF q
    <3> QED
      BY <3>1 DEF q
  <2>2. job' = [job EXCEPT ![v] = q]
    BY <1>1, <1>5, <2>1 DEF SettleSession, TypeOK
  <2>3. VisitFormed(q)
    BY <1>1, <1>5, <2>1 DEF SettleSession, VisitFormed, WebhookPlaces, SessionPlaces, SimulationPlaces,
                            OrderPlaces, At
  <2>4. Exists(Of(v))
    BY <1>1, <1>5 DEF SettleSession, VisitFormed, Of, SessionPlaces, At
  <2>5. TablesFormed'
    <3>1. \A s \in Sessions : status'[s] = "absent" <=> status[s] = "absent"
      BY <1>5, <2>4 DEF SettleSession, TypeOK, FormedInv, Exists
    <3>2. UNCHANGED <<untouched, goods>>
      BY <1>5 DEF SettleSession
    <3> QED
      BY <3>1, <3>2, TablesKept DEF untouched, goods
  <2> QED
    BY <1>5, <2>2, <2>3, <2>5, VisitMoves DEF SettleSession, untouched
<1> QED
  BY <1>3, <1>4, <1>5


(* What a visit that takes up an order asks about.                         *)
LEMMA Asks ==
  ASSUME TypeOK, FormedInv, NEW v \in Visits, AskStripe(v)
  PROVE  \E item \in job[v].todo, s \in Sessions \cup {0}, q \in JobType :
           /\ item[1] \in Orders /\ (s # 0 => Exists(s) /\ buys[s] = item[1])
           /\ \/ orders' = orders
              \/ s # 0 /\ orders' = [orders EXCEPT ![item[1]].session = s]
           /\ job' = [job EXCEPT ![v] = q]
           /\ q.todo = job[v].todo \ {item} /\ q.owes = job[v].owes /\ q.met = job[v].met
           /\ q.order = job[v].order /\ q.kind = job[v].kind
           /\ \/ q.at = "ask"
              \/ q.at = "confirmPaid" /\ q.session = s /\ s # 0 /\ stripe[s] = "paid"
<1>1. v \in Jobs /\ job[v] \in JobType /\ VisitFormed(job[v])
  BY Names DEF TypeOK, FormedInv
<1>2. PICK item \in job[v].todo :
        LET o == item[1]
            s == IF item[2] = 0 THEN Latest(o) ELSE item[2]
            rest == [job[v] EXCEPT !.todo = @ \ {item}]
        IN /\ orders' = orders \/ (s # 0 /\ orders' = [orders EXCEPT ![o].session = s])
           /\ \/ IsPaid(s) /\ job' = [job EXCEPT ![v] = [rest EXCEPT !.at = "confirmPaid",
                                                                     !.session = s]]
              \/ (~IsPaid(s) \/ Faults) /\ job' = [job EXCEPT ![v] = rest]
  BY DEF AskStripe
<1>3. item \in Orders \X (Sessions \cup {0})
  BY <1>1 DEF JobType
<1>4. PICK s : s = IF item[2] = 0 THEN Latest(item[1]) ELSE item[2]
  OBVIOUS
<1>5. s \in Sessions \cup {0} /\ (s # 0 => Exists(s) /\ buys[s] = item[1])
  <2>1. CASE item[2] = 0
    BY <1>4, <2>1, LatestIs DEF FormedInv, Exists
  <2>2. CASE item[2] # 0
    BY <1>1, <1>3, <1>4, <2>2 DEF VisitFormed
  <2> QED
    BY <2>1, <2>2
<1> DEFINE rest == [job[v] EXCEPT !.todo = @ \ {item}]
           paid == [rest EXCEPT !.at = "confirmPaid", !.session = s]
<1>6. /\ rest \in JobType /\ rest.todo = job[v].todo \ {item} /\ rest.at = "ask"
      /\ rest.owes = job[v].owes /\ rest.met = job[v].met /\ rest.order = job[v].order
      /\ rest.kind = job[v].kind
  BY <1>1 DEF JobType, AskStripe, At
<1>7. /\ paid \in JobType /\ paid.todo = job[v].todo \ {item} /\ paid.at = "confirmPaid"
      /\ paid.session = s /\ paid.owes = job[v].owes /\ paid.met = job[v].met
      /\ paid.order = job[v].order /\ paid.kind = job[v].kind
  BY <1>5, <1>6 DEF JobType
<1>8. \/ IsPaid(s) /\ job' = [job EXCEPT ![v] = paid]
      \/ job' = [job EXCEPT ![v] = rest]
  BY <1>2, <1>4
<1>9. orders' = orders \/ (s # 0 /\ orders' = [orders EXCEPT ![item[1]].session = s])
  BY <1>2, <1>4
<1>10. IsPaid(s) => s # 0 /\ stripe[s] = "paid"
  BY DEF IsPaid
<1> HIDE DEF rest, paid
<1> QED
  BY <1>3, <1>5, <1>6, <1>7, <1>8, <1>9, <1>10

LEMMA AsksForm ==
  ASSUME TypeOK, FormedInv, Grows, NEW v \in Visits, AskStripe(v)
  PROVE  FormedInv'
<1>1. v \in Jobs /\ job[v] \in JobType /\ VisitFormed(job[v])
  BY Names DEF TypeOK, FormedInv
<1>2. PICK item \in job[v].todo, s \in Sessions \cup {0}, q \in JobType :
        /\ item[1] \in Orders /\ (s # 0 => Exists(s) /\ buys[s] = item[1])
        /\ \/ orders' = orders
           \/ s # 0 /\ orders' = [orders EXCEPT ![item[1]].session = s]
        /\ job' = [job EXCEPT ![v] = q]
        /\ q.todo = job[v].todo \ {item} /\ q.owes = job[v].owes
        /\ \/ q.at = "ask"
           \/ q.at = "confirmPaid" /\ q.session = s /\ s # 0 /\ stripe[s] = "paid"
  BY Asks
<1>3. UNCHANGED <<untouched, status>>
  BY DEF AskStripe
<1>4. VisitFormed(q)
  BY <1>1, <1>2 DEF AskStripe, VisitFormed, WebhookPlaces, SessionPlaces, SimulationPlaces, OrderPlaces,
                    At
<1>5. TablesFormed'
  <2>1. \A o \in Orders : orders'[o].session = orders[o].session \/ (orders'[o].session = s /\ s # 0
                                                                  /\ o = item[1])
    BY <1>2 DEF TypeOK
  <2> QED
    BY <1>2, <1>3, <2>1, TablesKept DEF untouched
<1> QED
  BY <1>2, <1>3, <1>4, <1>5, VisitMoves DEF untouched

LEMMA SimulationForms ==
  ASSUME TypeOK, FormedInv, Grows, NEW v \in Visits,
         \/ \E s \in Sessions, success \in BOOLEAN : Simulate(v, s, success)
         \/ SimulateOrder(v) \/ SimulateRead(v) \/ SimulateSave(v) \/ SimulateCredit(v)
  PROVE  FormedInv'
<1>1. v \in Jobs /\ job[v] \in JobType /\ VisitFormed(job[v])
  BY Names DEF TypeOK, FormedInv
<1>2. ASSUME NEW s \in Sessions, NEW success \in BOOLEAN, Simulate(v, s, success)
      PROVE  FormedInv'
  <2> DEFINE r == [Idle EXCEPT !.at = "simOrder", !.session = s,
                               !.kind = IF success THEN "success" ELSE "failure"]
  <2>1. /\ r \in JobType /\ r.at = "simOrder" /\ r.session = s /\ r.todo = {} /\ r.owes = FALSE
        /\ job' = [job EXCEPT ![v] = r]
    BY <1>2 DEF Idle, JobType, Simulate
  <2> HIDE DEF r
  <2>2. Becomes(v, r)
    BY <1>1, <2>1, GotoBecomes
  <2>3. Exists(s)
    BY <1>2 DEF Simulate, FormedInv, Exists
  <2>4. /\ UNCHANGED <<stripe, canceled, status, lock, orders>>
        /\ simulated' = [simulated EXCEPT ![s] = simulated[s] + 1]
    BY <1>2 DEF Simulate
  <2>5. simulated'[s] > 0 /\ \A t \in Sessions : simulated'[t] > 0 => simulated[t] > 0 \/ t = s
    BY <2>4 DEF TypeOK
  <2>6. VisitFormed(r)'
    BY <2>1, <2>3, <2>4, <2>5 DEF VisitFormed, WebhookPlaces, SessionPlaces, SimulationPlaces,
                                  OrderPlaces, Exists
  <2>7. TablesFormed'
    BY <2>3, <2>4, <2>5, TablesKept
  <2> QED
    BY <2>1, <2>2, <2>4, <2>6, <2>7, Names, FormedStep
<1>3. ASSUME SimulateRead(v) \/ SimulateSave(v) \/ SimulateCredit(v)
      PROVE  FormedInv'
  <2>1. Exists(Of(v)) /\ Of(v) \in Sessions
    BY <1>1, <1>3 DEF SimulateRead, SimulateSave, SimulateCredit, VisitFormed, Of, SessionPlaces,
                      SimulationPlaces, Exists, At
  <2>2. TablesFormed' /\ lock' = lock
    <3>1. \A s \in Sessions : status'[s] = "absent" <=> status[s] = "absent"
      BY <1>3, <2>1 DEF SimulateRead, SimulateSave, SimulateCredit, TypeOK, FormedInv, Exists
    <3>2. UNCHANGED <<stripe, canceled, simulated, lock, orders>>
      BY <1>3 DEF SimulateRead, SimulateSave, SimulateCredit, untouched, goods
    <3> QED
      BY <3>1, <3>2, TablesKept
  <2>3. \E q \in JobType : job' = [job EXCEPT ![v] = q] /\ VisitFormed(q)
    <3>1. CASE SimulateRead(v)
      <4>1. PICK owes \in BOOLEAN : /\ job' = [job EXCEPT ![v] = [job[v] EXCEPT !.at = "simSave", !.owes = owes]]
                                    /\ owes => job[v].kind = "success"
        BY <1>1, <3>1 DEF SimulateRead, TypeOK
      <4> DEFINE q == [job[v] EXCEPT !.at = "simSave", !.owes = owes]
      <4>2. /\ q \in JobType /\ q.at = "simSave" /\ q.owes = owes /\ q.kind = job[v].kind
            /\ q.session = job[v].session /\ q.todo = job[v].todo
        BY <1>1 DEF JobType
      <4> HIDE DEF q
      <4>3. VisitFormed(q)
        BY <1>1, <2>1, <3>1, <4>1, <4>2 DEF SimulateRead, VisitFormed, WebhookPlaces, SessionPlaces,
           SimulationPlaces, OrderPlaces, At, Of
      <4> QED
        BY <4>1, <4>2, <4>3 DEF q
    <3>2. CASE SimulateSave(v)
      <4>1. PICK q \in JobType : /\ q = Moved(v, "simCredit") /\ q.at = "simCredit" /\ q.owes = job[v].owes
                                 /\ q.kind = job[v].kind
                                 /\ q.session = job[v].session /\ q.todo = job[v].todo
        BY <1>1, GotoMoves DEF Places, Of
      <4>2. VisitFormed(q)
        BY <1>1, <2>1, <3>2, <4>1 DEF SimulateSave, VisitFormed, WebhookPlaces, SessionPlaces,
           SimulationPlaces, OrderPlaces, At, Of
      <4> QED
        BY <3>2, <4>1, <4>2 DEF SimulateSave, Goto, Moved
    <3>3. CASE SimulateCredit(v)
      BY <3>3, IdleType, IdleFormed DEF SimulateCredit, Leave
    <3> QED
      BY <1>3, <3>1, <3>2, <3>3
  <2> QED
    BY <2>2, <2>3, VisitMoves
<1>4. CASE SimulateOrder(v)
  <2>1. Exists(Of(v)) /\ Of(v) \in Sessions
    BY <1>1, <1>4 DEF SimulateOrder, VisitFormed, Of, SessionPlaces, SimulationPlaces, Exists, At
  <2>2. PICK q \in JobType : /\ q = Moved(v, "simRead") /\ q.at = "simRead" /\ q.owes = job[v].owes
                             /\ q.session = job[v].session /\ q.todo = job[v].todo
                             /\ Goto(v, "simRead") => Becomes(v, q)
    BY <1>1, GotoMoves DEF Places, Of
  <2>3. VisitFormed(q)
    BY <1>1, <1>4, <2>1, <2>2 DEF SimulateOrder, VisitFormed, WebhookPlaces, SessionPlaces,
       SimulationPlaces, OrderPlaces, At, Of
  <2>4. UNCHANGED <<untouched, status, plans, mishaps>>
    BY <1>4 DEF SimulateOrder
  <2>5. PICK success \in BOOLEAN : success = (job[v].kind = "success")
    OBVIOUS
  <2>6. CASE orders' = orders /\ Becomes(v, q)
    <3>1. TablesFormed'
      BY <2>4, <2>6, TablesKept DEF untouched
    <3> QED
      BY <2>3, <2>4, <2>6, <3>1, VisitMoves DEF untouched
  <2>7. CASE buys[Of(v)] \in Orders /\ SettleOrder(buys[Of(v)], Of(v), success, v, "simulation", q)
    BY <2>1, <2>3, <2>4, <2>7, SettlementForms DEF untouched
  <2>8. CASE job' = [job EXCEPT ![v] = q] /\ orders' = orders
    BY <1>1, <2>6, <2>8, GotoBecomes
  <2> QED
    BY <1>4, <2>2, <2>5, <2>6, <2>7, <2>8 DEF SimulateOrder, Settle, Moved
<1> QED
  BY <1>2, <1>3, <1>4


LEMMA DieForms ==
  ASSUME TypeOK, FormedInv, Grows, NEW x \in Jobs, Die(x)
  PROVE  FormedInv'
<1>1. PICK q \in JobType : q = Idle
  BY IdleType
<1>2. Becomes(x, q)
  BY <1>1, GotoBecomes DEF Die, Leave
<1>3. TablesFormed'
  BY TablesKept DEF Die, goods
<1>4. VisitFormed(q)' /\ WebhookFormed(x, q)'
  BY <1>1 DEF VisitFormed, WebhookFormed, Idle, WebhookPlaces, SessionPlaces, OrderPlaces,
              SimulationPlaces
<1>5. \A s \in Sessions : lock[s] \in {None, x} \/ lock'[s] = lock[s]
  BY DEF Die, Unlock
<1> QED
  BY <1>2, <1>3, <1>4, <1>5, FormedStep

LEMMA FormedNext ==
  ASSUME TypeOK, FormedInv, Next
  PROVE  FormedInv'
<1> Grows
  BY GrowsStep
<1>1. ASSUME NEW s \in Sessions, UserPays(s) \/ SessionExpires(s) \/ IntentCanceled(s)
      PROVE  FormedInv'
  BY <1>1, StripeForms
<1>2. ASSUME NEW h \in Deliveries, NEW e \in Event, Deliver(h, e)
      PROVE  FormedInv'
  BY <1>2, DeliverForms
<1>3. ASSUME NEW v \in Visits, Arrive(v)
      PROVE  FormedInv'
  BY <1>3, BuysForm, LooksForm, SimulationForms DEF Arrive, Looks
<1>4. ASSUME NEW h \in Deliveries, WebhookStep(h)
      PROVE  FormedInv'
  BY <1>4, WebhookForms
<1>5. ASSUME NEW v \in Visits, VisitStep(v)
      PROVE  FormedInv'
  BY <1>5, BuysForm, LooksForm, ConfirmsForm, AsksForm, SimulationForms DEF VisitStep, Looks
<1>6. ASSUME NEW x \in Jobs, Die(x)
      PROVE  FormedInv'
  BY <1>6, DieForms
<1> QED
  BY <1>1, <1>2, <1>3, <1>4, <1>5, <1>6 DEF Next, Step

-----------------------------------------------------------------------------
(* Orders and their subscriptions.                                         *)

(* No order becomes paid.                                                  *)
Quiet == subs' = subs /\ \A o \in Orders : orders'[o].status \in {orders[o].status, "cancelled"}

LEMMA PaidKept ==
  ASSUME TypeOK, FormedInv, Grows, PaidWasPaid, Quiet
  PROVE  PaidWasPaid'
<1> SUFFICES ASSUME NEW o \in Orders, orders'[o].status = "paid"
             PROVE  \/ \E s \in Sessions : buys'[s] = o /\ (stripe'[s] = "paid" \/ simulated'[s] > 0)
                    \/ \E b \in subs'[o] : b.by = "trust"
  BY DEF PaidWasPaid
<1>1. orders[o].status = "paid"
  BY DEF Quiet
<1>2. CASE \E s \in Sessions : buys[s] = o /\ (stripe[s] = "paid" \/ simulated[s] > 0)
  BY <1>2 DEF Grows, FormedInv, Exists
<1>3. CASE \E b \in subs[o] : b.by = "trust"
  BY <1>3 DEF Quiet
<1> QED
  BY <1>1, <1>2, <1>3 DEF PaidWasPaid

(* What the others aim at.                                                 *)
LEMMA AimsStay ==
  ASSUME TypeOK, FormedInv, Grows, NEW x \in Jobs, NEW q \in JobType, Becomes(x, q),
         NEW v \in Visits, v # x
  PROVE  Aims(job[v])' = Aims(job[v]) /\ job[v].met \subseteq job'[v].met
<1>1. v \in Jobs /\ VisitFormed(job[v])
  BY Names DEF FormedInv
<1>2. /\ job'[v].at = job[v].at /\ job'[v].session = job[v].session
      /\ job'[v].order = job[v].order /\ job'[v].todo = job[v].todo
      /\ job[v].met \subseteq job'[v].met
  BY <1>1, OthersStay
<1>3. job[v].at = "confirmPaid" => buys'[job[v].session] = buys[job[v].session]
  BY <1>1 DEF VisitFormed, SessionPlaces, Exists, Grows
<1> QED
  BY <1>2, <1>3 DEF Aims

LEMMA SubsKept ==
  ASSUME TypeOK, FormedInv, Grows, SubsInv, NEW x \in Jobs, NEW q \in JobType, Becomes(x, q), Quiet,
         x \in Visits =>
           \A o \in Orders : o \in Aims(q)' => Pending(o) \/ (o \in Aims(job[x]) /\ job[x].met \subseteq q.met)
  PROVE  SubsInv'
<1> SUFFICES ASSUME NEW o \in Orders
             PROVE  /\ \A b \in subs'[o] : b.n <= Cardinality(subs'[o])
                    /\ Pending(o)' => subs'[o] = {}
                    /\ \A v \in Visits : o \in Aims(job[v])' /\ subs'[o] # {} => o \in job'[v].met
  BY DEF SubsInv
<1>1. subs'[o] = subs[o] /\ (Pending(o)' => Pending(o))
  BY DEF Quiet, Pending
<1>2. ASSUME NEW v \in Visits, o \in Aims(job[v])', subs[o] # {}
      PROVE  o \in job'[v].met
  <2>1. CASE v # x
    BY <1>2, <2>1, AimsStay DEF SubsInv
  <2>2. CASE v = x
    <3>1. job'[v] = q
      BY <2>2 DEF Becomes
    <3>2. o \in Aims(q)'
      BY <1>2, <3>1 DEF Aims
    <3> QED
      BY <1>2, <2>2, <3>1, <3>2 DEF SubsInv
  <2> QED
    BY <2>1, <2>2
<1> QED
  BY <1>1, <1>2 DEF SubsInv


EventOf(q) == [session |-> q.session, kind |-> q.kind]

(* What a webhook call may become: nothing, itself further on, or the first *)
(* delivery of its event.                                                  *)
Follows(h, q) ==
  \/ q = Idle
  \/ /\ job[h] # Idle /\ q.kind = job[h].kind /\ q.session = job[h].session /\ q.at # "idle"
     /\ job[h].at \in {"commit", "mark"} => q.at \in {"commit", "mark"}
  \/ EventOf(q) \in Event /\ events[EventOf(q)] = "absent" /\ events'[EventOf(q)] # "absent"

(* The webhooks' subscriptions.                                            *)
MadeByOne ==
  \A o \in Orders : \A b \in subs[o] :
    b.by = "webhook" =>
      /\ events[Completed(b.session)] # "absent"
      /\ \A h \in Deliveries : Told(h) = Completed(b.session) => job[h].at \in {"commit", "mark"}

DeliveredOnce ==
  /\ \A h \in Deliveries : At(h, "idle") \/ events[Told(h)] # "absent"
  /\ \A g, h \in Deliveries : At(g, "idle") \/ At(h, "idle") \/ Told(g) # Told(h) \/ g = h

LEMMA EventParts == EventInv <=> DeliveredOnce /\ MadeByOne
  BY DEF EventInv, DeliveredOnce, MadeByOne

LEMMA EventPartsPrimed == EventInv' <=> DeliveredOnce' /\ MadeByOne'
  BY DEF EventInv, DeliveredOnce, MadeByOne

LEMMA OneDelivery ==
  ASSUME TypeOK, FormedInv, Grows, DeliveredOnce, NEW x \in Jobs, NEW q \in JobType, Becomes(x, q),
         x \in Deliveries => Follows(x, q)
  PROVE  DeliveredOnce'
<1>1. \A h \in Deliveries : At(h, "idle") \/ Told(h) \in Event
  BY DEF FormedInv, WebhookFormed, Idle, Exists, At, Told, Of, Event
<1>2. \A h \in Deliveries : h # x => /\ job'[h].at = job[h].at /\ job'[h].session = job[h].session
                                     /\ job'[h].kind = job[h].kind
  BY Names, OthersStay
<1>3. job'[x] = q
  BY DEF Becomes
<1>4. \A h \in Deliveries : job[h] # Idle => ~At(h, "idle")
  BY DEF FormedInv, WebhookFormed, WebhookPlaces, At
<1>5. \A h \in Deliveries : job'[h].at = "idle" \/ events'[EventOf(job'[h])] # "absent"
  <2> SUFFICES ASSUME NEW h \in Deliveries
               PROVE  job'[h].at = "idle" \/ events'[EventOf(job'[h])] # "absent"
    OBVIOUS
  <2>1. CASE h # x
    BY <1>1, <1>2, <2>1 DEF DeliveredOnce, Grows, Told, Of, At, EventOf
  <2>2. CASE h = x
    <3>1. CASE q = Idle
      BY <1>3, <2>2, <3>1 DEF Idle
    <3>2. CASE job[h] # Idle /\ q.kind = job[h].kind /\ q.session = job[h].session
      BY <1>1, <1>3, <1>4, <2>2, <3>2 DEF DeliveredOnce, Grows, Told, Of, EventOf
    <3> QED
      BY <1>3, <2>2, <3>1, <3>2 DEF Follows
  <2> QED
    BY <2>1, <2>2
<1>6. ASSUME NEW h \in Deliveries, h # x, x \in Deliveries, ~At(h, "idle"), q.at # "idle"
      PROVE  EventOf(q) # EventOf(job[h])
  <2>1. events[EventOf(job[h])] # "absent"
    BY <1>6 DEF DeliveredOnce, Told, Of, EventOf
  <2>2. CASE job[x] # Idle /\ q.kind = job[x].kind /\ q.session = job[x].session
    BY <1>4, <1>6, <2>2 DEF DeliveredOnce, Told, Of, EventOf
  <2>3. CASE events[EventOf(q)] = "absent"
    BY <2>1, <2>3
  <2> QED
    BY <1>6, <2>2, <2>3 DEF Follows, Idle
<1>7. ASSUME NEW g \in Deliveries, NEW h \in Deliveries, job'[g].at # "idle", job'[h].at # "idle",
             EventOf(job'[g]) = EventOf(job'[h])
      PROVE  g = h
  <2>1. CASE g # x /\ h # x
    <3>1. /\ ~At(g, "idle") /\ ~At(h, "idle")
          /\ EventOf(job'[g]) = Told(g) /\ EventOf(job'[h]) = Told(h)
      BY <1>2, <1>7, <2>1 DEF At, Told, Of, EventOf
    <3> QED
      BY <1>7, <3>1 DEF DeliveredOnce
  <2>2. CASE g = x /\ h # x
    <3>1. ~At(h, "idle") /\ EventOf(job'[h]) = EventOf(job[h])
      BY <1>2, <1>7, <2>2 DEF At, EventOf
    <3> QED
      BY <1>3, <1>6, <1>7, <2>2, <3>1
  <2>3. CASE g # x /\ h = x
    <3>1. ~At(g, "idle") /\ EventOf(job'[g]) = EventOf(job[g])
      BY <1>2, <1>7, <2>3 DEF At, EventOf
    <3> QED
      BY <1>3, <1>6, <1>7, <2>3, <3>1
  <2> QED
    BY <2>1, <2>2, <2>3
<1>8. \A h \in Deliveries : Told(h)' = EventOf(job'[h])
  BY DEF Told, Of, EventOf
<1> QED
  BY <1>5, <1>7, <1>8 DEF DeliveredOnce, At

LEMMA MadeKept ==
  ASSUME TypeOK, FormedInv, Grows, MadeByOne, NEW x \in Jobs, NEW q \in JobType, Becomes(x, q),
         x \in Deliveries => Follows(x, q), subs' = subs
  PROVE  MadeByOne'
<1> SUFFICES ASSUME NEW o \in Orders, NEW b \in subs[o], b.by = "webhook"
             PROVE  /\ events'[Completed(b.session)] # "absent"
                    /\ \A h \in Deliveries :
                         EventOf(job'[h]) = Completed(b.session) => job'[h].at \in {"commit", "mark"}
  <2>1. \A h \in Deliveries : Told(h)' = EventOf(job'[h])
    BY DEF Told, Of, EventOf
  <2> QED
    BY <2>1 DEF MadeByOne, Completed
<1>1. Completed(b.session) \in Event
  BY DEF TypeOK, Subscription, Completed, Event, Kinds
<1>2. events[Completed(b.session)] # "absent" /\ events'[Completed(b.session)] # "absent"
  BY <1>1 DEF MadeByOne, Grows
<1>3. ASSUME NEW h \in Deliveries, EventOf(job'[h]) = Completed(b.session)
      PROVE  job'[h].at \in {"commit", "mark"}
  <2>1. \A g \in Deliveries : EventOf(job[g]) = Completed(b.session) => job[g].at \in {"commit", "mark"}
    BY DEF MadeByOne, Told, Of, EventOf
  <2>2. CASE h # x
    <3>1. job'[h].at = job[h].at /\ EventOf(job'[h]) = EventOf(job[h])
      BY <2>2, Names, OthersStay DEF EventOf
    <3> QED
      BY <1>3, <2>1, <3>1
  <2>3. CASE h = x
    <3>1. job'[h] = q /\ Follows(h, q)
      BY <2>3 DEF Becomes
    <3>2. q # Idle /\ ~(events[EventOf(q)] = "absent")
      BY <1>2, <1>3, <3>1 DEF Idle, EventOf, Completed
    <3>3. /\ q.kind = job[h].kind /\ q.session = job[h].session
          /\ job[h].at \in {"commit", "mark"} => q.at \in {"commit", "mark"}
      BY <3>1, <3>2 DEF Follows
    <3> QED
      BY <1>3, <2>1, <3>1, <3>3 DEF EventOf
  <2> QED
    BY <2>2, <2>3
<1> QED
  BY <1>2, <1>3


(* Who confirms order o with session s, and why it was paid.               *)
Confirms(x, o, s, by, q) ==
  /\ \/ x \in Visits /\ by \in {"visit", "trust"} /\ o \in Aims(job[x])
     \/ x \in Visits /\ by = "simulation"
     \/ /\ x \in Deliveries /\ by = "webhook" /\ At(x, "order") /\ Told(x) = Completed(s)
        /\ EventOf(q) = Completed(s) /\ q.at = "commit"
  /\ by = "trust" \/ (buys'[s] = o /\ (stripe'[s] = "paid" \/ simulated'[s] > 0))

LEMMA Subscribes ==
  ASSUME TypeOK, FormedInv, Grows, SubsInv, EventInv, OneSubscription, PaidWasPaid,
         NEW x \in Jobs, NEW o \in Orders, NEW s \in Sessions, NEW q \in JobType,
         NEW by \in {"webhook", "visit", "trust", "simulation"},
         SettleOrder(o, s, TRUE, x, by, q), Confirms(x, o, s, by, q),
         x \in Visits => \A p \in Aims(q)' : p # o /\ p \in Aims(job[x]) /\ job[x].met \subseteq q.met
  PROVE  SubsInv' /\ OneSubscription' /\ MadeByOne' /\ PaidWasPaid'
<1>1. Becomes(x, q) /\ job'[x] = q
  <2>1. TRUE \in BOOLEAN
    OBVIOUS
  <2>2. Becomes(x, q)
    BY ONLY <2>1, SettlesOrder, TypeOK, x \in Jobs, o \in Orders, s \in Sessions, q \in JobType,
            by \in {"webhook", "visit", "trust", "simulation"}, SettleOrder(o, s, TRUE, x, by, q)
  <2> QED
    BY <2>2 DEF Becomes
<1>2. PICK b \in Subscription : /\ b.n = Cardinality(subs[o]) + 1 /\ b.by = by /\ b.session = s
                                /\ (b.met <=> o \in job[x].met)
                                /\ subs' = [subs EXCEPT ![o] = subs[o] \cup {b}]
  <2> DEFINE b == [n |-> Cardinality(subs[o]) + 1, by |-> by, session |-> s, met |-> o \in job[x].met]
  <2>1. Cardinality(subs[o]) \in Nat
    BY FS_CardinalityType DEF TypeOK
  <2>2. /\ b \in Subscription /\ b.n = Cardinality(subs[o]) + 1 /\ b.by = by /\ b.session = s
        /\ b.met = (o \in job[x].met)
    BY <2>1 DEF Subscription
  <2>3. subs' = [subs EXCEPT ![o] = subs[o] \cup {b}]
    BY DEF SettleOrder, Subscribed
  <2> HIDE DEF b
  <2>4. /\ b \in Subscription /\ b.n = Cardinality(subs[o]) + 1 /\ b.by = by /\ b.session = s
        /\ (b.met <=> o \in job[x].met) /\ subs' = [subs EXCEPT ![o] = subs[o] \cup {b}]
    BY <2>2, <2>3
  <2> QED
    BY <2>4
<1>3. /\ subs[o] \subseteq Subscription /\ Cardinality(subs[o]) \in Nat
      /\ \A a \in subs[o] : a.n \in Nat /\ a.n <= Cardinality(subs[o])
  BY FS_CardinalityType DEF TypeOK, SubsInv, Subscription
<1>4. Cardinality(subs[o] \cup {b}) = Cardinality(subs[o]) + 1
  <2>1. b \notin subs[o]
    BY <1>2, <1>3
  <2> QED
    BY <2>1, FS_AddElement DEF TypeOK
<1>5. orders' = [orders EXCEPT ![o] = [status |-> "paid", session |-> s]]
  BY DEF SettleOrder
<1>6. /\ subs'[o] = subs[o] \cup {b} /\ orders'[o].status = "paid"
      /\ \A p \in Orders : p # o => subs'[p] = subs[p] /\ orders'[p] = orders[p]
  BY <1>2, <1>5 DEF TypeOK
<1>7. SubsInv'
  <2> SUFFICES ASSUME NEW p \in Orders
               PROVE  /\ \A a \in subs'[p] : a.n <= Cardinality(subs'[p])
                      /\ Pending(p)' => subs'[p] = {}
                      /\ \A v \in Visits : p \in Aims(job[v])' /\ subs'[p] # {} => p \in job'[v].met
    BY DEF SubsInv
  <2>1. \A a \in subs'[p] : a.n <= Cardinality(subs'[p])
    BY <1>2, <1>3, <1>4, <1>6 DEF SubsInv
  <2>2. Pending(p)' => subs'[p] = {}
    BY <1>6 DEF SubsInv, Pending
  <2>3. ASSUME NEW v \in Visits, p \in Aims(job[v])', subs'[p] # {}
        PROVE  p \in job'[v].met
    <3>1. CASE v = x
      <4>1. p \in Aims(q)'
        BY <1>1, <2>3, <3>1 DEF Aims
      <4> QED
        BY <1>1, <1>6, <2>3, <3>1, <4>1 DEF SubsInv
    <3>2. CASE v # x /\ p # o
      BY <1>1, <1>6, <2>3, <3>2, AimsStay DEF SubsInv
    <3>3. CASE v # x /\ p = o
      <4>1. p \in Aims(job[v])
        BY <1>1, <2>3, <3>3, AimsStay
      <4>2. v \in Jobs /\ job[v] \in JobType /\ VisitFormed(job[v])
        BY Names DEF TypeOK, FormedInv
      <4>3. job[v].at \in {"check", "trust", "ask", "confirmPaid", "settle"}
        BY <4>1, <4>2 DEF Aims, VisitFormed
      <4>4. job'[v] = [job[v] EXCEPT !.met = job[v].met \cup {o}]
        BY <3>3, <4>2, <4>3 DEF SettleOrder
      <4> QED
        BY <3>3, <4>2, <4>4 DEF JobType
    <3> QED
      BY <3>1, <3>2, <3>3
  <2> QED
    BY <2>1, <2>2, <2>3
<1>8. OneSubscription'
  <2> SUFFICES ASSUME NEW p \in Orders, NEW a \in subs'[p], NEW c \in subs'[p], a.n < c.n
               PROVE  \/ c.by \in {"visit", "trust"} /\ c.met
                      \/ c.by = "simulation"
                      \/ c.by = "webhook" /\ ~(a.by = "webhook" /\ a.session = c.session)
    BY DEF OneSubscription
  <2>1. CASE a \in subs[p] /\ c \in subs[p]
    BY <2>1 DEF OneSubscription
  <2>2. CASE p = o /\ a \in subs[o] /\ c = b
    <3>1. CASE by \in {"visit", "trust"} /\ x \in Visits /\ o \in Aims(job[x])
      BY <1>2, <2>2, <3>1 DEF SubsInv
    <3>2. CASE by = "simulation"
      BY <1>2, <2>2, <3>2
    <3>3. CASE x \in Deliveries /\ by = "webhook" /\ At(x, "order") /\ Told(x) = Completed(s)
      BY <1>2, <2>2, <3>3 DEF EventInv, At
    <3> QED
      BY <3>1, <3>2, <3>3 DEF Confirms
  <2>3. CASE p = o /\ a = b
    BY <1>2, <1>3, <1>6, <2>3
  <2> QED
    BY <1>6, <2>1, <2>2, <2>3
<1>9. MadeByOne'
  <2> SUFFICES ASSUME NEW p \in Orders, NEW a \in subs'[p], a.by = "webhook"
               PROVE  /\ events'[Completed(a.session)] # "absent"
                      /\ \A h \in Deliveries :
                           EventOf(job'[h]) = Completed(a.session) => job'[h].at \in {"commit", "mark"}
    <3>1. \A h \in Deliveries : Told(h)' = EventOf(job'[h])
      BY DEF Told, Of, EventOf
    <3> QED
      BY <3>1 DEF MadeByOne, Completed
  <2>1. ASSUME NEW t \in Sessions, events[Completed(t)] # "absent"
        PROVE  events'[Completed(t)] # "absent"
    BY <2>1 DEF Grows, Completed, Event, Kinds
  <2>2. \A h \in Deliveries : h # x => EventOf(job'[h]) = Told(h) /\ job'[h].at = job[h].at
    BY <1>1, Names, OthersStay DEF Told, Of, EventOf
  <2>3. x \in Deliveries => /\ by = "webhook" /\ At(x, "order") /\ Told(x) = Completed(s)
                            /\ EventOf(q) = Completed(s) /\ q.at = "commit"
    BY Names DEF Confirms
  <2>4. CASE a \in subs[p]
    <3>1. a.session \in Sessions
      BY <2>4 DEF TypeOK, Subscription
    <3>2. /\ events[Completed(a.session)] # "absent"
          /\ \A h \in Deliveries : Told(h) = Completed(a.session) => job[h].at \in {"commit", "mark"}
      BY <2>4 DEF EventInv
    <3>3. x \in Deliveries => EventOf(q) # Completed(a.session)
      BY <2>3, <3>2 DEF At
    <3> QED
      BY <1>1, <2>1, <2>2, <3>1, <3>2, <3>3
  <2>5. CASE p = o /\ a = b
    <3>1. x \in Deliveries /\ a.session = s
      BY <1>2, <2>5 DEF Confirms
    <3>2. events[Completed(s)] # "absent"
      BY <2>3, <3>1 DEF EventInv, At
    <3>3. \A h \in Deliveries : h # x => EventOf(job'[h]) # Completed(s)
      <4>1. \A h \in Deliveries : job[h].at = "idle" => Told(h) # Completed(s)
        BY DEF FormedInv, WebhookFormed, WebhookPlaces, Idle, Told, Of, Completed
      <4> QED
        BY <2>2, <2>3, <3>1, <4>1 DEF EventInv, At
    <3> QED
      BY <1>1, <2>1, <2>3, <3>1, <3>2, <3>3
  <2> QED
    BY <1>6, <2>4, <2>5
<1>10. PaidWasPaid'
  <2> SUFFICES ASSUME NEW p \in Orders, orders'[p].status = "paid"
               PROVE  \/ \E t \in Sessions : buys'[t] = p /\ (stripe'[t] = "paid" \/ simulated'[t] > 0)
                      \/ \E a \in subs'[p] : a.by = "trust"
    BY DEF PaidWasPaid
  <2>1. CASE p = o
    BY <1>2, <1>6, <2>1 DEF Confirms
  <2>2. CASE p # o
    <3>1. CASE \E t \in Sessions : buys[t] = p /\ (stripe[t] = "paid" \/ simulated[t] > 0)
      BY <3>1 DEF Grows, FormedInv, Exists
    <3>2. CASE \E a \in subs[p] : a.by = "trust"
      BY <1>6, <2>2, <3>2
    <3> QED
      BY <1>6, <2>2, <3>1, <3>2 DEF PaidWasPaid
  <2> QED
    BY <2>1, <2>2
<1> QED
  BY <1>7, <1>8, <1>9, <1>10


OrdersInv == SubsInv /\ EventInv /\ OneSubscription /\ PaidWasPaid

(* Visit v goes on as q with no order it did not aim at before.            *)
Aimed(v, q) ==
  \A o \in Orders : o \in Aims(q) => Pending(o) \/ (o \in Aims(job[v]) /\ job[v].met \subseteq q.met)

LEMMA QuietStep ==
  ASSUME TypeOK, FormedInv, Grows, OrdersInv, NEW x \in Jobs, NEW q \in JobType, Becomes(x, q), Quiet,
         x \in Deliveries => Follows(x, q),
         x \in Visits =>
           \A o \in Orders : o \in Aims(q)' => Pending(o) \/ (o \in Aims(job[x]) /\ job[x].met \subseteq q.met)
  PROVE  OrdersInv'
<1>1. SubsInv'
  BY SubsKept DEF OrdersInv
<1>2. EventInv'
  BY OneDelivery, MadeKept, EventParts, EventPartsPrimed DEF OrdersInv, Quiet
<1>3. OneSubscription'
  BY DEF OrdersInv, OneSubscription, Quiet
<1>4. PaidWasPaid'
  BY PaidKept DEF OrdersInv
<1> QED
  BY <1>1, <1>2, <1>3, <1>4 DEF OrdersInv

LEMMA SubscribesStep ==
  ASSUME TypeOK, FormedInv, Grows, OrdersInv,
         NEW x \in Jobs, NEW o \in Orders, NEW s \in Sessions, NEW q \in JobType,
         NEW by \in {"webhook", "visit", "trust", "simulation"},
         SettleOrder(o, s, TRUE, x, by, q), Confirms(x, o, s, by, q), x \in Deliveries => Follows(x, q),
         x \in Visits => \A p \in Aims(q)' : p # o /\ p \in Aims(job[x]) /\ job[x].met \subseteq q.met
  PROVE  OrdersInv'
<1>1. SubsInv' /\ OneSubscription' /\ MadeByOne' /\ PaidWasPaid'
  BY Subscribes DEF OrdersInv
<1>2. Becomes(x, q)
  <2>1. TRUE \in BOOLEAN
    OBVIOUS
  <2> QED
    BY ONLY <2>1, SettlesOrder, TypeOK, x \in Jobs, o \in Orders, s \in Sessions, q \in JobType,
            by \in {"webhook", "visit", "trust", "simulation"}, SettleOrder(o, s, TRUE, x, by, q)
<1>3. DeliveredOnce'
  BY <1>2, OneDelivery, EventParts DEF OrdersInv
<1> QED
  BY <1>1, <1>3, EventPartsPrimed DEF OrdersInv

(* Nothing but Stripe's state changes.                                     *)
LEMMA StripeOrders ==
  ASSUME TypeOK, FormedInv, Grows, OrdersInv, job' = job, buys' = buys, orders' = orders,
         subs' = subs, events' = events
  PROVE  OrdersInv'
<1>1. PaidWasPaid'
  BY PaidKept DEF OrdersInv, Quiet
<1> QED
  BY <1>1 DEF OrdersInv, SubsInv, EventInv, OneSubscription, Aims, Pending, At, Told, Of

LEMMA DeliverOrders ==
  ASSUME TypeOK, FormedInv, Grows, OrdersInv, NEW h \in Deliveries, NEW e \in Event, Deliver(h, e)
  PROVE  OrdersInv'
<1>1. CASE UNCHANGED <<events, job>>
  BY <1>1, StripeOrders DEF Deliver, stripeAndTables, goods
<1>2. CASE /\ events[e] = "absent" /\ events' = [events EXCEPT ![e] = "pending"]
           /\ job' = [job EXCEPT ![h] = [Idle EXCEPT !.at = "read", !.kind = e.kind, !.session = e.session]]
  <2>1. PICK q \in JobType : /\ job' = [job EXCEPT ![h] = q]
                             /\ q.kind = e.kind /\ q.session = e.session
    <3> DEFINE q == [Idle EXCEPT !.at = "read", !.kind = e.kind, !.session = e.session]
    <3>1. q \in JobType /\ q.kind = e.kind /\ q.session = e.session
      BY DEF Event, Idle, JobType, Kinds
    <3>2. job' = [job EXCEPT ![h] = q]
      BY <1>2
    <3> HIDE DEF q
    <3> QED
      BY <3>1, <3>2
  <2>2. Becomes(h, q)
    BY <2>1, Names, GotoBecomes
  <2>3. Follows(h, q)
    BY <1>2, <2>1 DEF Follows, EventOf, Event, TypeOK
  <2>4. Quiet
    BY DEF Deliver, stripeAndTables, goods, Quiet
  <2> QED
    BY <2>2, <2>3, <2>4, Names, QuietStep
<1> QED
  BY <1>1, <1>2 DEF Deliver

(* A settlement by visit or webhook x.                                     *)
LEMMA SettlementOrders ==
  ASSUME TypeOK, FormedInv, Grows, OrdersInv,
         NEW x \in Jobs, NEW s \in Sessions, NEW success \in BOOLEAN, NEW q \in JobType,
         NEW by \in {"webhook", "visit", "trust", "simulation"}, Settle(s, success, x, by, q), plans' = plans,
         success /\ buys[s] \in Orders => Confirms(x, buys[s], s, by, q), x \in Deliveries => Follows(x, q),
         x \in Visits => Aims(q)' = {}
  PROVE  OrdersInv'
<1>1. Becomes(x, q)
  BY Settles
<1>2. CASE buys[s] \in Orders /\ success = TRUE /\ SettleOrder(buys[s], s, success, x, by, q)
  BY <1>2, SubscribesStep
<1>3. CASE Quiet
  BY <1>1, <1>3, QuietStep
<1>4. CASE ~success /\ SettleOrder(buys[s], s, success, x, by, q) /\ buys[s] \in Orders
  BY <1>3, <1>4 DEF SettleOrder, Quiet, TypeOK
<1>5. CASE UNCHANGED <<orders, subs>>
  BY <1>3, <1>5 DEF Quiet
<1> QED
  BY <1>2, <1>4, <1>5 DEF Settle, goods


LEMMA IdleAims == Aims(Idle) = {}
  BY DEF Aims, Idle

LEMMA WebhookOrders ==
  ASSUME TypeOK, FormedInv, Grows, OrdersInv, NEW h \in Deliveries, WebhookStep(h)
  PROVE  OrdersInv'
<1>1. h \in Jobs /\ h \notin Visits /\ WebhookFormed(h, job[h])
  BY Names DEF FormedInv
<1>2. job[h] # Idle /\ Of(h) \in Sessions
  BY <1>1 DEF WebhookStep, ReadSession, SaveSession, Credit, ConfirmSubscription, ConfirmOrder, Commit,
              MarkProcessed, RollBack, Idle, At, WebhookFormed, Exists, Of
<1>3. ASSUME NEW place \in WebhookPlaces, Goto(h, place), Quiet,
             job[h].at \in {"commit", "mark"} => place \in {"commit", "mark"}
      PROVE  OrdersInv'
  <2>1. PICK q \in JobType : Becomes(h, q) /\ q.at = place /\ q.kind = job[h].kind
                             /\ q.session = job[h].session
    BY <1>1, <1>3, GotoPicks DEF Places, WebhookPlaces
  <2>2. Follows(h, q)
    BY <1>2, <1>3, <2>1 DEF Follows, WebhookPlaces
  <2> QED
    BY <1>1, <1>3, <2>1, <2>2, QuietStep
<1>4. ASSUME Leave(h), Quiet
      PROVE  OrdersInv'
  <2>1. PICK q \in JobType : q = Idle
    BY IdleType
  <2>2. Becomes(h, q) /\ Follows(h, q)
    BY <1>1, <1>4, <2>1, GotoBecomes DEF Leave, Follows
  <2> QED
    BY <1>1, <1>4, <2>2, QuietStep
<1>5. CASE ReadSession(h) \/ SaveSession(h) \/ Credit(h) \/ ConfirmSubscription(h) \/ Commit(h)
  <2>1. Quiet
    BY <1>5 DEF ReadSession, SaveSession, Credit, ConfirmSubscription, Commit, stripeAndTables, goods, Quiet
  <2>2. PICK place \in WebhookPlaces :
          Goto(h, place) /\ (job[h].at \in {"commit", "mark"} => place \in {"commit", "mark"})
    <3>1. job[h].kind \in Kinds
      BY <1>1, <1>2 DEF WebhookFormed
    <3> QED
      BY <1>5, <3>1 DEF ReadSession, SaveSession, Credit, ConfirmSubscription, Commit, WebhookPlaces, At,
                       Kinds
  <2> QED
    BY <1>3, <2>1, <2>2
<1>6. CASE MarkProcessed(h) \/ RollBack(h)
  <2>1. Quiet
    BY <1>6 DEF MarkProcessed, RollBack, stripeAndTables, goods, Quiet
  <2> QED
    BY <1>4, <1>6, <2>1 DEF MarkProcessed, RollBack
<1>7. CASE ConfirmOrder(h)
  <2>1. PICK q \in JobType : q = Moved(h, "commit") /\ q.at = "commit"
                             /\ q.kind = job[h].kind /\ q.session = job[h].session
    BY <1>1, GotoMoves DEF Places, Of
  <2>2. PICK success \in BOOLEAN : /\ success <=> job[h].kind = "completed"
                                   /\ Settle(Of(h), success, h, "webhook", q) /\ plans' = plans
    BY <1>7, <2>1 DEF ConfirmOrder, Moved
  <2>3. Follows(h, q)
    BY <1>2, <1>7, <2>1 DEF Follows, ConfirmOrder, At
  <2>4. success => Confirms(h, buys[Of(h)], Of(h), "webhook", q)
    <3>1. ASSUME success
          PROVE  stripe[Of(h)] = "paid" /\ stripe' = stripe /\ buys' = buys
      BY <1>1, <1>2, <1>7, <2>2, <3>1 DEF WebhookFormed, ConfirmOrder, Of
    <3> QED
      BY <1>7, <2>1, <2>2, <3>1 DEF Confirms, ConfirmOrder, Told, Of, EventOf, Completed
  <2> QED
    BY <1>1, <1>2, <2>2, <2>3, <2>4, SettlementOrders
<1> QED
  BY <1>5, <1>6, <1>7 DEF WebhookStep

(* A visit that confirms no order.                                         *)
LEMMA QuietVisit ==
  ASSUME TypeOK, FormedInv, Grows, OrdersInv, NEW v \in Visits, NEW q \in JobType,
         job' = [job EXCEPT ![v] = q] \/ Becomes(v, q), Quiet, Aimed(v, q),
         q.at = "confirmPaid" => Exists(q.session)
  PROVE  OrdersInv'
<1>1. Becomes(v, q)
  BY Names, GotoBecomes
<1>2. Aims(q)' = Aims(q)
  BY DEF Aims, Grows, Exists
<1> QED
  BY <1>1, <1>2, Names, QuietStep DEF Aimed

LEMMA LooksOrders ==
  ASSUME TypeOK, FormedInv, Grows, OrdersInv, NEW v \in Visits, Looks(v)
  PROVE  OrdersInv'
<1>1. v \in Jobs /\ VisitFormed(job[v])
  BY Names DEF FormedInv
<1>2. Quiet
  BY LooksMove DEF unchanged, goods, Quiet
<1>3. ASSUME NEW place \in {"lookAgain", "trust"}, Goto(v, place), At(v, "check")
      PROVE  OrdersInv'
  <2>1. PICK q \in JobType : /\ Becomes(v, q) /\ q.at = place /\ q.order = job[v].order
                             /\ q.todo = job[v].todo /\ q.met = job[v].met
    BY <1>1, <1>3, GotoPicks DEF Places
  <2>2. Aimed(v, q)
    BY <1>3, <2>1 DEF Aimed, Aims, At
  <2> QED
    BY <1>2, <1>3, <2>1, <2>2, QuietVisit
<1>4. ASSUME Goto(v, "list"), At(v, "lookAgain")
      PROVE  OrdersInv'
  <2>1. PICK q \in JobType : /\ Becomes(v, q) /\ q.at = "list"
                             /\ q.todo = job[v].todo /\ q.met = job[v].met
    BY <1>1, <1>4, GotoPicks DEF Places
  <2>2. Aimed(v, q)
    BY <1>4, <2>1 DEF Aimed, Aims, At
  <2> QED
    BY <1>2, <2>1, <2>2, QuietVisit
<1>5. ASSUME Leave(v)
      PROVE  OrdersInv'
  BY <1>2, <1>5, IdleType, IdleAims, QuietVisit DEF Leave, Aimed, Idle
<1>6. ASSUME NEW o \in Orders, Pending(o), NEW s, NEW place \in {"check", "list"},
             NEW kind \in {"page", "last"}, s = orders[o].session,
             job' = [job EXCEPT ![v] = [Idle EXCEPT !.at = place, !.kind = kind, !.order = o, !.session = s]]
      PROVE  OrdersInv'
  <2> DEFINE q == [Idle EXCEPT !.at = place, !.kind = kind, !.order = o, !.session = s]
  <2>1. q \in JobType /\ q.at = place /\ q.order = o /\ q.todo = {}
    BY <1>6 DEF Idle, JobType, TypeOK
  <2>2. job' = [job EXCEPT ![v] = q]
    BY <1>6
  <2> HIDE DEF q
  <2>3. Aimed(v, q)
    BY <1>6, <2>1 DEF Aimed, Aims
  <2>4. q.at # "confirmPaid"
    BY <2>1
  <2> QED
    BY <1>2, <2>1, <2>2, <2>3, <2>4, QuietVisit
<1>7. ASSUME NEW kind \in {"page", "list"}, NEW order \in Orders \cup {None},
             TakeUp(v, kind, order, PendingOrders)
      PROVE  OrdersInv'
  <2>1. PICK q \in JobType : job' = [job EXCEPT ![v] = q] /\ q.at = "ask" /\ q.todo \subseteq PendingOrders
    BY <1>7, TakesUp
  <2>2. Aimed(v, q)
    BY <2>1, PendingForms DEF Aimed, Aims
  <2> QED
    BY <1>2, <2>1, <2>2, QuietVisit
<1>8. ASSUME NEW o \in Orders, GetOrder(v, o)
      PROVE  OrdersInv'
  BY <1>6, <1>8 DEF GetOrder
<1>9. CASE Finalize(v)
  BY <1>3, <1>9 DEF Finalize
<1>10. CASE LookAgain(v)
  BY <1>4, <1>5, <1>10 DEF LookAgain
<1>11. CASE ListSubscriptions(v)
  BY <1>7, <1>11 DEF ListSubscriptions
<1>12. job[v].order \in Orders \cup {None}
  BY <1>1 DEF TypeOK, JobType
<1>13. CASE ReconcileOrders(v)
  BY <1>7, <1>12, <1>13 DEF ReconcileOrders
<1>14. CASE Reconciled(v)
  BY <1>5, <1>6, <1>12, <1>14 DEF Reconciled
<1> QED
  BY <1>8, <1>9, <1>10, <1>11, <1>13, <1>14 DEF Looks


LEMMA BuysOrders ==
  ASSUME TypeOK, FormedInv, Grows, OrdersInv, NEW v \in Visits, CreateSession(v) \/ BindOrder(v)
  PROVE  OrdersInv'
<1>1. Quiet
  <2>1. subs' = subs
    BY DEF CreateSession, BindOrder, goods
  <2>2. CASE orders' = orders
    BY <2>1, <2>2 DEF Quiet
  <2>3. CASE BindOrder(v)
    BY <2>1, <2>3 DEF BindOrder, Quiet, TypeOK
  <2> QED
    BY <2>2, <2>3 DEF CreateSession, goods
<1>2. CASE BindOrder(v)
  BY <1>1, <1>2, IdleType, IdleAims, QuietVisit DEF BindOrder, Leave, Aimed, Idle
<1>3. CASE CreateSession(v)
  <2>1. PICK s \in Sessions : job' = [job EXCEPT ![v] = [Idle EXCEPT !.at = "bind", !.session = s]]
    BY <1>3 DEF CreateSession
  <2> DEFINE q == [Idle EXCEPT !.at = "bind", !.session = s]
  <2>2. q \in JobType /\ q.at = "bind" /\ q.todo = {}
    BY DEF Idle, JobType
  <2>3. job' = [job EXCEPT ![v] = q]
    BY <2>1
  <2> HIDE DEF q
  <2>4. Aimed(v, q) /\ q.at # "confirmPaid"
    BY <2>2 DEF Aimed, Aims
  <2> QED
    BY <1>1, <2>2, <2>3, <2>4, QuietVisit
<1> QED
  BY <1>2, <1>3

LEMMA ConfirmsOrders ==
  ASSUME TypeOK, FormedInv, Grows, OrdersInv, NEW v \in Visits, TrustUser(v) \/ ConfirmPaid(v)
  PROVE  OrdersInv'
<1>1. v \in Jobs /\ job[v] \in JobType /\ VisitFormed(job[v]) /\ v \notin Deliveries
  BY Names DEF TypeOK, FormedInv
<1>2. Exists(Of(v)) /\ Of(v) \in Sessions
  BY <1>1 DEF TrustUser, ConfirmPaid, VisitFormed, Of, SessionPlaces, Exists, At
<1>3. stripe' = stripe /\ buys' = buys
  BY DEF TrustUser, ConfirmPaid, untouched
<1>4. CASE TrustUser(v)
  <2>1. PICK q \in JobType : /\ q = Moved(v, "lookAgain") /\ q.at = "lookAgain" /\ q.todo = job[v].todo
                             /\ Goto(v, "lookAgain") => Becomes(v, q)
    BY <1>1, GotoMoves DEF Places
  <2>2. q.todo = {} /\ Aims(q)' = {} /\ Aims(q) = {}
    BY <1>1, <1>4, <2>1 DEF TrustUser, VisitFormed, Aims, At
  <2>3. CASE SettleOrder(job[v].order, Of(v), TRUE, v, "trust", q)
    <3>1. job[v].order \in Orders
      BY <1>1, <1>4 DEF TrustUser, VisitFormed, OrderPlaces, At
    <3>2. Confirms(v, job[v].order, Of(v), "trust", q)
      BY <1>4 DEF TrustUser, Confirms, Aims, At
    <3> QED
      BY <1>1, <1>2, <2>2, <2>3, <3>1, <3>2, SubscribesStep
  <2>4. CASE Goto(v, "lookAgain") /\ UNCHANGED <<orders, subs>>
    <3>1. Quiet
      BY <2>4 DEF Quiet
    <3> QED
      BY <2>1, <2>2, <2>4, <3>1, QuietVisit DEF Aimed
  <2> QED
    BY <1>4, <2>1, <2>3, <2>4 DEF TrustUser, Moved
<1>5. CASE ConfirmPaid(v)
  <2>1. /\ buys[Of(v)] \in Orders /\ stripe[Of(v)] = "paid"
        /\ \A i \in job[v].todo : i[1] # buys[Of(v)]
    BY <1>1, <1>5 DEF ConfirmPaid, VisitFormed, Of, At
  <2>2. CASE SettleOrder(buys[Of(v)], Of(v), TRUE, v, "visit", Moved(v, "settle"))
    <3>1. PICK q \in JobType : /\ q = Moved(v, "settle") /\ q.at = "settle" /\ q.todo = job[v].todo
                               /\ q.met = job[v].met
      BY <1>1, GotoMoves DEF Places
    <3>2. Confirms(v, buys[Of(v)], Of(v), "visit", q)
      BY <1>3, <1>5, <2>1 DEF ConfirmPaid, Confirms, Aims, At, Of
    <3>3. \A p \in Aims(q)' : p # buys[Of(v)] /\ p \in Aims(job[v]) /\ job[v].met \subseteq q.met
      BY <2>1, <3>1 DEF Aims
    <3> QED
      BY <1>1, <1>2, <2>1, <2>2, <3>1, <3>2, <3>3, SubscribesStep
  <2>3. CASE Goto(v, "ask") /\ UNCHANGED <<orders, subs>>
    <3>1. PICK q \in JobType : /\ Becomes(v, q) /\ q.at = "ask" /\ q.todo = job[v].todo
                               /\ q.met = job[v].met
      BY <1>1, <2>3, GotoPicks DEF Places
    <3>2. Quiet /\ Aimed(v, q)
      BY <2>3, <3>1 DEF Quiet, Aimed, Aims
    <3> QED
      BY <3>1, <3>2, QuietVisit
  <2> QED
    BY <1>5, <2>2, <2>3 DEF ConfirmPaid, Moved
<1> QED
  BY <1>4, <1>5

LEMMA ReconcilesOrders ==
  ASSUME TypeOK, FormedInv, Grows, OrdersInv, NEW v \in Visits, AskStripe(v) \/ SettleSession(v)
  PROVE  OrdersInv'
<1>1. v \in Jobs /\ job[v] \in JobType
  BY Names DEF TypeOK
<1>2. CASE AskStripe(v)
  <2>1. PICK item \in job[v].todo, s \in Sessions \cup {0}, q \in JobType :
          /\ item[1] \in Orders /\ (s # 0 => Exists(s) /\ buys[s] = item[1])
          /\ \/ orders' = orders
             \/ s # 0 /\ orders' = [orders EXCEPT ![item[1]].session = s]
          /\ job' = [job EXCEPT ![v] = q]
          /\ q.todo = job[v].todo \ {item} /\ q.owes = job[v].owes /\ q.met = job[v].met
          /\ q.order = job[v].order /\ q.kind = job[v].kind
          /\ \/ q.at = "ask"
             \/ q.at = "confirmPaid" /\ q.session = s /\ s # 0 /\ stripe[s] = "paid"
    BY <1>2, Asks
  <2>2. Quiet
    <3>1. subs' = subs
      BY <1>2 DEF AskStripe
    <3>2. CASE orders' = [orders EXCEPT ![item[1]].session = s]
      BY <3>1, <3>2 DEF TypeOK, Quiet
    <3>3. CASE orders' = orders
      BY <3>1, <3>3 DEF Quiet
    <3> QED
      BY <2>1, <3>2, <3>3
  <2>3. Aims(q) \subseteq {i[1] : i \in job[v].todo}
    <3>1. {i[1] : i \in q.todo} \subseteq {i[1] : i \in job[v].todo}
      BY <2>1
    <3>2. item[1] \in {i[1] : i \in job[v].todo}
      OBVIOUS
    <3>3. CASE q.at = "ask"
      BY <3>1, <3>3 DEF Aims
    <3>4. CASE q.at = "confirmPaid" /\ buys[q.session] = item[1]
      BY <3>1, <3>2, <3>4 DEF Aims
    <3> QED
      BY <2>1, <3>3, <3>4
  <2>4. Aimed(v, q)
    BY <2>1, <2>3 DEF Aimed, Aims
  <2> QED
    BY <2>1, <2>2, <2>4, QuietVisit
<1>3. CASE SettleSession(v)
  <2> DEFINE q == [job[v] EXCEPT !.at = "ask", !.session = 0]
  <2>1. q \in JobType /\ q.at = "ask" /\ q.todo = job[v].todo /\ q.met = job[v].met
    BY <1>1 DEF JobType
  <2>2. job' = [job EXCEPT ![v] = q]
    BY <1>1, <1>3 DEF SettleSession, TypeOK
  <2> HIDE DEF q
  <2>3. Quiet /\ Aimed(v, q)
    BY <1>3, <2>1 DEF SettleSession, goods, Quiet, Aimed, Aims
  <2> QED
    BY <2>1, <2>2, <2>3, QuietVisit
<1> QED
  BY <1>2, <1>3

LEMMA SimulationOrders ==
  ASSUME TypeOK, FormedInv, Grows, OrdersInv, NEW v \in Visits,
         \/ \E s \in Sessions, success \in BOOLEAN : Simulate(v, s, success)
         \/ SimulateOrder(v) \/ SimulateRead(v) \/ SimulateSave(v) \/ SimulateCredit(v)
  PROVE  OrdersInv'
<1>1. v \in Jobs /\ job[v] \in JobType /\ v \notin Deliveries
  BY Names DEF TypeOK
<1>2. ASSUME NEW s \in Sessions, NEW success \in BOOLEAN, Simulate(v, s, success)
      PROVE  OrdersInv'
  <2> DEFINE r == [Idle EXCEPT !.at = "simOrder", !.session = s,
                               !.kind = IF success THEN "success" ELSE "failure"]
  <2>1. r \in JobType /\ r.at = "simOrder" /\ r.todo = {} /\ job' = [job EXCEPT ![v] = r]
    BY <1>2 DEF Idle, JobType, Simulate
  <2> HIDE DEF r
  <2>2. Quiet /\ Aimed(v, r)
    BY <1>2, <2>1 DEF Simulate, Quiet, Aimed, Aims
  <2> QED
    BY <2>1, <2>2, QuietVisit
<1>3. ASSUME SimulateRead(v) \/ SimulateSave(v) \/ SimulateCredit(v)
      PROVE  OrdersInv'
  <2>1. Quiet
    BY <1>3 DEF SimulateRead, SimulateSave, SimulateCredit, goods, Quiet
  <2>2. \E q \in JobType : job' = [job EXCEPT ![v] = q] /\ Aimed(v, q) /\ q.at # "confirmPaid"
    <3>1. CASE SimulateRead(v)
      <4>1. PICK owes \in BOOLEAN : job' = [job EXCEPT ![v] = [job[v] EXCEPT !.at = "simSave", !.owes = owes]]
        BY <1>1, <3>1 DEF SimulateRead, TypeOK
      <4> DEFINE q == [job[v] EXCEPT !.at = "simSave", !.owes = owes]
      <4>2. q \in JobType /\ q.at = "simSave" /\ q.todo = job[v].todo /\ q.met = job[v].met
        BY <1>1 DEF JobType
      <4>3. job' = [job EXCEPT ![v] = q]
        BY <4>1
      <4> HIDE DEF q
      <4>4. Aimed(v, q)
        BY <3>1, <4>2 DEF Aimed, Aims
      <4> QED
        BY <4>2, <4>3, <4>4
    <3>2. CASE SimulateSave(v)
      <4>1. PICK q \in JobType : /\ q = Moved(v, "simCredit") /\ q.at = "simCredit"
                                 /\ q.todo = job[v].todo /\ q.met = job[v].met
        BY <1>1, GotoMoves DEF Places
      <4>2. Aimed(v, q)
        BY <4>1 DEF Aimed, Aims
      <4> QED
        BY <3>2, <4>1, <4>2 DEF SimulateSave, Goto, Moved
    <3>3. CASE SimulateCredit(v)
      BY <3>3, IdleType, IdleAims DEF SimulateCredit, Leave, Aimed, Idle
    <3> QED
      BY <1>3, <3>1, <3>2, <3>3
  <2> QED
    BY <2>1, <2>2, QuietVisit
<1>4. CASE SimulateOrder(v)
  <2>1. /\ Exists(Of(v)) /\ Of(v) \in Sessions /\ simulated'[Of(v)] > 0 /\ buys' = buys
        /\ plans' = plans /\ job[v].todo = {}
    BY <1>4, Names DEF SimulateOrder, FormedInv, VisitFormed, Of, SessionPlaces, SimulationPlaces, Exists,
                       At, untouched
  <2>2. PICK q \in JobType : /\ q = Moved(v, "simRead") /\ q.at = "simRead" /\ q.todo = job[v].todo
                             /\ q.met = job[v].met
                             /\ Goto(v, "simRead") => Becomes(v, q)
    BY <1>1, GotoMoves DEF Places
  <2>3. Aims(q)' = {} /\ Aims(q) = {}
    <3>1. {i[1] : i \in q.todo} = {}
      BY <2>1, <2>2
    <3> QED
      BY <2>2, <3>1 DEF Aims
  <2>4. PICK success \in BOOLEAN : success = (job[v].kind = "success")
    OBVIOUS
  <2>5. CASE Goto(v, "simRead") /\ UNCHANGED <<orders, subs>>
    <3>1. Quiet
      BY <1>4, <2>1, <2>5 DEF Quiet, SimulateOrder, untouched, goods
    <3>2. Aimed(v, q)
      BY <2>3 DEF Aimed
    <3>3. Becomes(v, q)
      BY <2>2, <2>5
    <3>4. q.at # "confirmPaid"
      BY <2>2
    <3> QED
      BY <3>1, <3>2, <3>3, <3>4, QuietVisit
  <2>6. CASE Settle(Of(v), success, v, "simulation", q)
    <3>1. Confirms(v, buys[Of(v)], Of(v), "simulation", q)
      BY <2>1 DEF Confirms
    <3>2. "simulation" \in {"webhook", "visit", "trust", "simulation"}
      OBVIOUS
    <3> QED
      BY <1>1, <2>1, <2>3, <2>6, <3>1, <3>2, SettlementOrders
  <2> QED
    BY <1>4, <2>2, <2>4, <2>5, <2>6 DEF SimulateOrder, Moved
<1> QED
  BY <1>2, <1>3, <1>4

LEMMA DieOrders ==
  ASSUME TypeOK, FormedInv, Grows, OrdersInv, NEW x \in Jobs, Die(x)
  PROVE  OrdersInv'
<1>1. PICK q \in JobType : q = Idle
  BY IdleType
<1>2. Becomes(x, q) /\ Follows(x, q) /\ Quiet
  BY <1>1, GotoBecomes DEF Die, Leave, Follows, Quiet, goods
<1>3. Aims(q)' = {}
  BY <1>1 DEF Aims, Idle
<1> QED
  BY <1>2, <1>3, QuietStep

LEMMA OrdersNext ==
  ASSUME TypeOK, FormedInv, OrdersInv, Next
  PROVE  OrdersInv'
<1> Grows
  BY GrowsStep
<1>1. ASSUME NEW s \in Sessions, UserPays(s) \/ SessionExpires(s) \/ IntentCanceled(s)
      PROVE  OrdersInv'
  BY <1>1, StripeOrders DEF UserPays, SessionExpires, IntentCanceled, here, goods
<1>2. ASSUME NEW h \in Deliveries, NEW e \in Event, Deliver(h, e)
      PROVE  OrdersInv'
  BY <1>2, DeliverOrders
<1>3. ASSUME NEW v \in Visits, Arrive(v)
      PROVE  OrdersInv'
  BY <1>3, BuysOrders, LooksOrders, SimulationOrders DEF Arrive, Looks
<1>4. ASSUME NEW h \in Deliveries, WebhookStep(h)
      PROVE  OrdersInv'
  BY <1>4, WebhookOrders
<1>5. ASSUME NEW v \in Visits, VisitStep(v)
      PROVE  OrdersInv'
  BY <1>5, BuysOrders, LooksOrders, ConfirmsOrders, ReconcilesOrders, SimulationOrders
     DEF VisitStep, Looks
<1>6. ASSUME NEW x \in Jobs, Die(x)
      PROVE  OrdersInv'
  BY <1>6, DieOrders
<1> QED
  BY <1>1, <1>2, <1>3, <1>4, <1>5, <1>6 DEF Next, Step


-----------------------------------------------------------------------------
(* Credits.                                                                *)

(* Request y, as q, owes the amount of session s.                          *)
Owes(y, q, s) ==
  /\ q.session = s
  /\ \/ q.kind = "completed" /\ q.at \in {"save", "credit"}
     \/ q.kind = "completed" /\ lock[s] = y
     \/ q.owes /\ q.at \in {"simSave", "simCredit"}

CreditOf(s) ==
  /\ \A x, y \in Jobs : Owes(x, job[x], s) /\ Owes(y, job[y], s) => x = y
  /\ \A x \in Jobs : Owes(x, job[x], s) /\ job[x].at \in {"save", "credit", "simSave", "simCredit"}
                       => credits[s] = 0
  /\ \A x \in Jobs : Owes(x, job[x], s) /\ job[x].at = "simCredit" => status[s] = "complete"
  /\ credits[s] <= 1
  /\ credits[s] = 1 /\ status[s] # "complete" =>
       \E h \in Deliveries : /\ lock[s] = h /\ job[h].kind = "completed"
                             /\ job[h].at \in {"confirm", "order", "commit"}

LEMMA OwingIs == \A s : Owing(s) = {x \in Jobs : Owes(x, job[x], s)}
  BY DEF Owing, Crediting, Owes, Of, At

LEMMA CreditParts == CreditInv <=> \A s \in Sessions \ mishaps : CreditOf(s)
<1>1. ASSUME NEW s
      PROVE  CreditOf(s) <=>
               /\ \A x, y \in Owing(s) : x = y
               /\ \A x \in Owing(s) : job[x].at \in {"save", "credit", "simSave", "simCredit"} => credits[s] = 0
               /\ \A x \in Owing(s) : At(x, "simCredit") => status[s] = "complete"
               /\ credits[s] <= 1
               /\ credits[s] = 1 /\ status[s] # "complete" =>
                    \E h \in Deliveries : /\ lock[s] = h /\ job[h].kind = "completed"
                                          /\ job[h].at \in {"confirm", "order", "commit"}
  <2>1. \A x : x \in Owing(s) <=> x \in Jobs /\ Owes(x, job[x], s)
    BY OwingIs
  <2> QED
    BY <2>1 DEF CreditOf, At
<1> QED
  BY <1>1 DEF CreditInv

LEMMA CreditPartsPrimed == CreditInv' <=> \A s \in Sessions \ mishaps' : CreditOf(s)'
<1>1. CreditInv' <=> (\A s \in Sessions \ mishaps : CreditOf(s))'
  BY CreditParts, PTL
<1> QED
  BY <1>1

(* The debts of the other requests.                                        *)
LEMMA DebtsStay ==
  ASSUME TypeOK, NEW s \in Sessions, NEW x \in Jobs, NEW q \in JobType, Becomes(x, q),
         lock'[s] = lock[s] \/ (lock[s] \in {None, x} /\ lock'[s] \in {None, x}),
         NEW y \in Jobs, y # x
  PROVE  /\ Owes(y, job[y], s)' => Owes(y, job[y], s) /\ job'[y].at = job[y].at
         /\ job'[y].at = job[y].at /\ job'[y].kind = job[y].kind
<1>1. /\ job'[y].at = job[y].at /\ job'[y].kind = job[y].kind /\ job'[y].session = job[y].session
      /\ job'[y].owes = job[y].owes
  BY OthersStay
<1>2. lock'[s] = y => lock[s] = y
  BY Names DEF Jobs
<1> QED
  BY <1>1, <1>2 DEF Owes

(* No new debt on session s.                                               *)
LEMMA CreditKept ==
  ASSUME TypeOK, NEW s \in Sessions, CreditOf(s), NEW x \in Jobs, NEW q \in JobType, Becomes(x, q),
         lock'[s] = lock[s] \/ (lock[s] \in {None, x} /\ lock'[s] \in {None, x}),
         credits'[s] = credits[s], status[s] = "complete" => status'[s] = "complete",
         Owes(x, q, s)' => /\ Owes(x, job[x], s)
                           /\ q.at = "simCredit" => status'[s] = "complete"
                           /\ q.at \in {"save", "credit", "simSave", "simCredit"} =>
                                job[x].at \in {"save", "credit", "simSave", "simCredit"},
         lock[s] = x /\ job[x].kind = "completed" /\ job[x].at \in {"confirm", "order", "commit"} =>
           \/ status'[s] = "complete"
           \/ lock'[s] = x /\ q.kind = "completed" /\ q.at \in {"confirm", "order", "commit"}
  PROVE  CreditOf(s)'
<1>1. job'[x] = q
  BY DEF Becomes
<1>2. \A y \in Jobs : y # x => /\ Owes(y, job[y], s)' => Owes(y, job[y], s)
                               /\ job'[y].at = job[y].at /\ job'[y].kind = job[y].kind
  BY DebtsStay
<1>3. Owes(x, job[x], s)' <=> Owes(x, q, s)'
  BY <1>1 DEF Owes
<1>4. \A y \in Jobs : Owes(y, job[y], s)' => Owes(y, job[y], s)
  BY <1>2, <1>3
<1>5. \A y, z \in Jobs : Owes(y, job[y], s)' /\ Owes(z, job[z], s)' => y = z
  BY <1>4 DEF CreditOf
<1>6. \A y \in Jobs : Owes(y, job[y], s)' /\ job'[y].at \in {"save", "credit", "simSave", "simCredit"}
                        => credits'[s] = 0
  BY <1>1, <1>2, <1>3 DEF CreditOf
<1>7. \A y \in Jobs : Owes(y, job[y], s)' /\ job'[y].at = "simCredit" => status'[s] = "complete"
  BY <1>1, <1>2, <1>3 DEF CreditOf
<1>8. ASSUME credits'[s] = 1, status'[s] # "complete"
      PROVE  \E h \in Deliveries : /\ lock'[s] = h /\ job'[h].kind = "completed"
                                   /\ job'[h].at \in {"confirm", "order", "commit"}
  <2>1. PICK h \in Deliveries : /\ lock[s] = h /\ job[h].kind = "completed"
                                /\ job[h].at \in {"confirm", "order", "commit"}
    BY <1>8 DEF CreditOf
  <2>2. CASE h = x
    BY <1>1, <1>8, <2>1, <2>2
  <2>3. CASE h # x
    BY <1>2, <2>1, <2>3, Names
  <2> QED
    BY <2>2, <2>3
<1> QED
  BY <1>5, <1>6, <1>7, <1>8 DEF CreditOf


(* The first debt on session s.                                            *)
LEMMA CreditStarts ==
  ASSUME TypeOK, NEW s \in Sessions, CreditOf(s), NEW x \in Jobs, NEW q \in JobType, Becomes(x, q),
         lock'[s] = lock[s], credits'[s] = credits[s], status'[s] = status[s],
         Crediting(s) = {}, status[s] # "complete", q.at \in {"save", "simSave"}
  PROVE  CreditOf(s)'
<1>1. job'[x] = q
  BY DEF Becomes
<1>2. \A y \in Jobs : y # x => /\ Owes(y, job[y], s)' => Owes(y, job[y], s)
                               /\ job'[y].at = job[y].at /\ job'[y].kind = job[y].kind
  BY DebtsStay
<1>3. \A y \in Jobs : ~Owes(y, job[y], s)
  <2> SUFFICES ASSUME NEW y \in Jobs, Owes(y, job[y], s)
               PROVE  FALSE
    OBVIOUS
  <2>1. y \notin Crediting(s)
    OBVIOUS
  <2>2. job[y].at = "simCredit"
    BY <2>1 DEF Owes, Crediting, Of, At
  <2> QED
    BY <2>2 DEF CreditOf
<1>4. credits[s] = 0
  <2>1. \A h \in Deliveries : ~(lock[s] = h /\ job[h].kind = "completed")
    <3> SUFFICES ASSUME NEW h \in Deliveries, lock[s] = h, job[h].kind = "completed"
                 PROVE  FALSE
      OBVIOUS
    <3>1. Of(h) = s /\ h \in Jobs
      BY Names DEF TypeOK
    <3> QED
      BY <3>1 DEF Crediting
  <2>2. credits[s] \in Nat /\ credits[s] <= 1 /\ credits[s] # 1
    BY <2>1 DEF CreditOf, TypeOK
  <2> QED
    BY <2>2
<1>5. \A y \in Jobs : Owes(y, job[y], s)' => y = x
  BY <1>2, <1>3
<1> QED
  BY <1>1, <1>4, <1>5 DEF CreditOf

(* A debt is paid.                                                         *)
LEMMA CreditPays ==
  ASSUME TypeOK, NEW s \in Sessions, CreditOf(s), NEW x \in Jobs, NEW q \in JobType, Becomes(x, q),
         Owes(x, job[x], s), job[x].at \in {"credit", "simCredit"},
         q.at \notin {"save", "credit", "simSave", "simCredit"},
         lock'[s] = lock[s], credits'[s] = credits[s] + 1, status'[s] = status[s],
         \/ status[s] = "complete"
         \/ x \in Deliveries /\ lock[s] = x /\ q.kind = "completed" /\ q.at = "confirm"
  PROVE  CreditOf(s)'
<1>1. job'[x] = q
  BY DEF Becomes
<1>2. \A y \in Jobs : y # x => (Owes(y, job[y], s)' => Owes(y, job[y], s))
  BY DebtsStay
<1>3. \A y \in Jobs : Owes(y, job[y], s)' => y = x
  BY <1>2 DEF CreditOf
<1>4. credits'[s] = 1
  BY DEF CreditOf
<1> QED
  BY <1>1, <1>3, <1>4 DEF CreditOf

(* A request that owes nothing neither before nor after, and no table of   *)
(* credits changes.                                                        *)
LEMMA CreditApart ==
  ASSUME TypeOK, CreditInv, NEW x \in Jobs, NEW q \in JobType,
         job' = [job EXCEPT ![x] = q] \/ Becomes(x, q),
         UNCHANGED <<lock, credits, mishaps>>,
         \A s \in Sessions : /\ lock[s] # x
                             /\ status[s] = "complete" => status'[s] = "complete"
                             /\ ~Owes(x, q, s)
  PROVE  CreditInv'
<1>1. Becomes(x, q)
  BY GotoBecomes
<1>2. ASSUME NEW s \in Sessions \ mishaps'
      PROVE  CreditOf(s)'
  <2>1. ~Owes(x, q, s)' /\ lock'[s] = lock[s] /\ lock[s] # x
    BY DEF Owes
  <2>2. CreditOf(s)
    BY CreditParts
  <2> QED
    BY <1>1, <2>1, <2>2, CreditKept
<1> QED
  BY <1>2, CreditPartsPrimed

(* A visit that does not simulate.                                         *)
LEMMA VisitApart ==
  ASSUME TypeOK, CreditInv, NEW v \in Visits, NEW q \in JobType,
         job' = [job EXCEPT ![v] = q] \/ Becomes(v, q), UNCHANGED <<lock, credits, mishaps>>,
         \A s \in Sessions : status[s] = "complete" => status'[s] = "complete",
         ~q.owes, q.at \notin WebhookPlaces
  PROVE  CreditInv'
<1>1. \A s \in Sessions : lock[s] # v
  BY Names DEF TypeOK
<1>2. \A s \in Sessions : ~Owes(v, q, s)
  BY <1>1 DEF Owes, WebhookPlaces
<1> QED
  BY <1>1, <1>2, Names, CreditApart


LEMMA StripeCredits ==
  ASSUME TypeOK, CreditInv, UNCHANGED <<job, lock, credits, status, mishaps>>
  PROVE  CreditInv'
<1>1. \A s \in Sessions : CreditOf(s) => CreditOf(s)'
  BY DEF CreditOf, Owes
<1> QED
  BY <1>1, CreditParts, CreditPartsPrimed

LEMMA DeliverCredits ==
  ASSUME TypeOK, CreditInv, NEW h \in Deliveries, NEW e \in Event, Deliver(h, e)
  PROVE  CreditInv'
<1>1. UNCHANGED <<lock, credits, status, mishaps>>
  BY DEF Deliver, stripeAndTables
<1>2. CASE job' = job
  BY <1>1, <1>2, StripeCredits
<1>3. CASE job' = [job EXCEPT ![h] = [Idle EXCEPT !.at = "read", !.kind = e.kind, !.session = e.session]]
  <2> DEFINE q == [Idle EXCEPT !.at = "read", !.kind = e.kind, !.session = e.session]
  <2>1. q \in JobType /\ q.at = "read" /\ q.owes = FALSE
    BY DEF Event, Idle, JobType, Kinds
  <2>2. job' = [job EXCEPT ![h] = q]
    BY <1>3
  <2> HIDE DEF q
  <2>3. h \in Jobs /\ \A s \in Sessions : lock[s] # h
    BY Names DEF Deliver, At, TypeOK
  <2>4. \A s \in Sessions : ~Owes(h, q, s)
    BY <2>1, <2>3 DEF Owes
  <2> QED
    BY <1>1, <2>1, <2>2, <2>3, <2>4, CreditApart
<1> QED
  BY <1>2, <1>3 DEF Deliver

LEMMA WebhookCredits ==
  ASSUME TypeOK, FormedInv, CreditInv, NEW h \in Deliveries, WebhookStep(h)
  PROVE  CreditInv'
<1>1. h \in Jobs /\ h \notin Visits /\ h # None /\ WebhookFormed(h, job[h]) /\ job[h] \in JobType
  BY Names DEF FormedInv, TypeOK
<1>2. job[h] # Idle /\ Of(h) \in Sessions /\ job[h].kind \in Kinds
  BY <1>1 DEF WebhookStep, ReadSession, SaveSession, Credit, ConfirmSubscription, ConfirmOrder, Commit,
              MarkProcessed, RollBack, Idle, At, WebhookFormed, Exists, Of
<1>3. \A s \in Sessions : lock[s] = h => s = Of(h) /\ job[h].at \in {"credit", "confirm", "order", "commit"}
  BY <1>1 DEF TypeOK
<1>4. \A place \in Places : Goto(h, place) =>
        \E q \in JobType : Becomes(h, q) /\ q.at = place /\ q.kind = job[h].kind
                           /\ q.session = job[h].session /\ q.owes = job[h].owes
  BY <1>1, GotoPicks
<1>5. ASSUME NEW s \in Sessions \ mishaps', s # Of(h) PROVE CreditOf(s)'
  <2>1. \E q \in JobType : Becomes(h, q) /\ (q.session = job[h].session \/ q = Idle)
    <3>1. CASE \E place \in Places : Goto(h, place)
      BY <1>4, <3>1
    <3>2. CASE Leave(h)
      BY <1>1, <3>2, IdleType, GotoBecomes DEF Leave
    <3>3. CASE ConfirmOrder(h)
      <4>1. PICK q \in JobType : q = Moved(h, "commit") /\ q.session = job[h].session
        BY <1>1, GotoMoves DEF Places, Of
      <4>2. PICK success \in BOOLEAN : Settle(Of(h), success, h, "webhook", q) /\ plans' = plans
        BY <3>3, <4>1 DEF ConfirmOrder, Moved
      <4> QED
        BY <1>1, <1>2, <4>1, <4>2, Settles
    <3> QED
      BY <1>2, <3>1, <3>2, <3>3 DEF WebhookStep, ReadSession, SaveSession, Credit, ConfirmSubscription,
         Commit, MarkProcessed, RollBack, Places, Kinds
  <2>2. PICK q \in JobType : Becomes(h, q) /\ (q.session = job[h].session \/ q = Idle)
    BY <2>1
  <2>3. lock'[s] = lock[s] /\ lock[s] # h /\ credits'[s] = credits[s] /\ status'[s] = status[s]
        /\ mishaps \subseteq mishaps'
    BY <1>2, <1>3, <1>5 DEF WebhookStep, ReadSession, SaveSession, Credit, ConfirmSubscription,
       ConfirmOrder, Commit, MarkProcessed, RollBack, stripeAndTables, Unlock, Mishap, TypeOK
  <2>4. ~Owes(h, q, s)'
    BY <1>5, <2>2, <2>3 DEF Owes, Of, Idle
  <2>5. CreditOf(s)
    BY <1>5, <2>3, CreditParts
  <2> QED
    BY <1>1, <2>2, <2>3, <2>4, <2>5, CreditKept
<1> PICK s : s = Of(h)
  OBVIOUS
<1>6. ASSUME s \notin mishaps' PROVE CreditOf(s)'
  <2>1. s \in Sessions /\ mishaps \subseteq mishaps' /\ CreditOf(s)
    <3>1. mishaps \subseteq mishaps'
      BY DEF WebhookStep, ReadSession, SaveSession, Credit, ConfirmSubscription, ConfirmOrder, Commit,
             MarkProcessed, RollBack, stripeAndTables, Mishap
    <3> QED
      BY <1>2, <1>6, <3>1, CreditParts
  <2>2. CASE ReadSession(h)
    <3>1. UNCHANGED <<lock, credits, status>>
      BY <2>2 DEF ReadSession, stripeAndTables
    <3>2. lock[s] # h
      BY <1>3, <2>1, <2>2 DEF ReadSession, At
    <3>3. CASE job[h].kind = "completed" /\ status[s] # "complete"
      <4>1. Goto(h, "save") /\ Crediting(s) = {}
        BY <1>6, <2>2, <3>3 DEF ReadSession, Mishap
      <4>2. PICK q \in JobType : Becomes(h, q) /\ q.at = "save"
        BY <1>4, <4>1 DEF Places
      <4> QED
        BY <1>1, <2>1, <3>1, <3>3, <4>1, <4>2, CreditStarts
    <3>4. CASE job[h].kind # "completed" \/ status[s] = "complete"
      <4>1. PICK place \in {"save", "confirm"} : Goto(h, place) /\ (place = "save" => job[h].kind # "completed")
        BY <2>2, <3>4 DEF ReadSession
      <4>2. PICK q \in JobType : Becomes(h, q) /\ q.at = place /\ q.kind = job[h].kind
        BY <1>4, <4>1 DEF Places
      <4>3. ~Owes(h, q, s)'
        BY <3>1, <3>2, <4>1, <4>2 DEF Owes
      <4> QED
        BY <1>1, <2>1, <3>1, <3>2, <4>2, <4>3, CreditKept
    <3> QED
      BY <3>3, <3>4
  <2>3. CASE SaveSession(h)
    <3>1. /\ UNCHANGED <<credits, status>> /\ At(h, "save") /\ lock[s] # h
          /\ \/ lock[s] = None /\ lock'[s] = h
             \/ lock'[s] = lock[s] /\ job[h].kind = "canceled"
      BY <1>3, <2>1, <2>3 DEF SaveSession, TypeOK, At
    <3>2. PICK place \in {"credit", "confirm", "commit"} : Goto(h, place)
      BY <1>2, <2>3 DEF SaveSession, Kinds
    <3>3. PICK q \in JobType : Becomes(h, q) /\ q.at = place /\ q.kind = job[h].kind
                               /\ q.session = job[h].session /\ q.owes = job[h].owes
      BY <1>4, <3>2 DEF Places
    <3>4. Owes(h, q, s)' => Owes(h, job[h], s)
      BY <3>1, <3>3 DEF Owes, Of, At
    <3>5. q.at # "simCredit" /\ job[h].at = "save"
      BY <3>1, <3>3 DEF At
    <3>6. lock'[s] = lock[s] \/ (lock[s] \in {None, h} /\ lock'[s] \in {None, h})
      BY <3>1
    <3> QED
      BY <1>1, <2>1, <3>1, <3>3, <3>4, <3>5, <3>6, CreditKept
  <2>4. CASE Credit(h)
    <3>1. /\ credits'[s] = credits[s] + 1 /\ UNCHANGED <<lock, status>> /\ At(h, "credit")
          /\ Goto(h, "confirm")
      BY <2>1, <2>4 DEF Credit, TypeOK
    <3>2. job[h].kind = "completed" /\ lock[s] = h
      BY <1>1, <1>2, <3>1 DEF WebhookFormed, At, Of
    <3>3. PICK q \in JobType : Becomes(h, q) /\ q.at = "confirm" /\ q.kind = job[h].kind
      BY <1>4, <3>1 DEF Places
    <3>4. Owes(h, job[h], s)
      BY <3>2 DEF Owes, Of
    <3> QED
      BY <1>1, <2>1, <3>1, <3>2, <3>3, <3>4, CreditPays DEF At
  <2>5. CASE ConfirmOrder(h)
    <3>1. UNCHANGED <<lock, credits, status>> /\ At(h, "order") /\ plans' = plans
      BY <2>5 DEF ConfirmOrder
    <3>2. PICK q \in JobType : q = Moved(h, "commit") /\ q.at = "commit" /\ q.kind = job[h].kind
                               /\ q.session = job[h].session /\ q.owes = job[h].owes
      BY <1>1, GotoMoves DEF Places, Of
    <3>3. PICK success \in BOOLEAN : Settle(Of(h), success, h, "webhook", q)
      BY <2>5, <3>2 DEF ConfirmOrder, Moved
    <3>4. Becomes(h, q)
      BY <1>1, <1>2, <3>1, <3>3, Settles
    <3>5. Owes(h, q, s)' => Owes(h, job[h], s)
      BY <3>1, <3>2 DEF Owes
    <3> QED
      BY <1>1, <2>1, <3>1, <3>2, <3>4, <3>5, CreditKept
  <2>6. CASE Commit(h)
    <3>1. /\ Goto(h, "mark") /\ credits' = credits /\ lock' = Unlock(h)
          /\ lock[s] # h => status'[s] = status[s]
          /\ lock[s] = h /\ job[h].kind = "completed" => status'[s] = "complete"
          /\ status[s] = "complete" => status'[s] = "complete"
      BY <1>6, <2>1, <2>6 DEF Commit, Mishap, Reverts, TypeOK
    <3>2. PICK q \in JobType : Becomes(h, q) /\ q.at = "mark"
      BY <1>4, <3>1 DEF Places
    <3>3. /\ lock'[s] # h
          /\ lock'[s] = lock[s] \/ (lock[s] \in {None, h} /\ lock'[s] \in {None, h})
      BY <1>1, <2>1, <3>1 DEF Unlock
    <3>4. ~Owes(h, q, s)'
      BY <3>2, <3>3 DEF Owes
    <3> QED
      BY <1>1, <2>1, <3>1, <3>2, <3>3, <3>4, CreditKept
  <2>7. CASE MarkProcessed(h) \/ RollBack(h)
    <3>1. UNCHANGED <<credits, status>> /\ Leave(h)
      BY <2>7 DEF MarkProcessed, RollBack, stripeAndTables
    <3>2. lock'[s] = lock[s] \/ (lock[s] \in {None, h} /\ lock'[s] \in {None, h})
      BY <2>1, <2>7 DEF MarkProcessed, RollBack, stripeAndTables, Unlock
    <3>3. ~(lock[s] = h /\ job[h].kind = "completed" /\ job[h].at \in {"confirm", "order", "commit"})
      BY <1>6, <2>7 DEF MarkProcessed, RollBack, Mishap, Torn, At
    <3>4. PICK q \in JobType : q = Idle
      BY IdleType
    <3>5. Becomes(h, q)
      BY <1>1, <3>1, <3>4, GotoBecomes DEF Leave
    <3>6. ~Owes(h, q, s)'
      BY <2>1, <3>4 DEF Owes, Idle
    <3> QED
      BY <1>1, <2>1, <3>1, <3>2, <3>3, <3>5, <3>6, CreditKept
  <2>8. CASE ConfirmSubscription(h)
    <3>1. UNCHANGED <<lock, credits, status>> /\ At(h, "confirm") /\ Goto(h, "order")
      BY <2>8 DEF ConfirmSubscription
    <3>2. PICK q \in JobType : Becomes(h, q) /\ q.at = "order" /\ q.kind = job[h].kind
                               /\ q.session = job[h].session /\ q.owes = job[h].owes
      BY <1>4, <3>1 DEF Places
    <3>3. Owes(h, q, s)' => Owes(h, job[h], s)
      BY <3>1, <3>2 DEF Owes
    <3> QED
      BY <1>1, <2>1, <3>1, <3>2, <3>3, CreditKept
  <2> QED
    BY <2>2, <2>3, <2>4, <2>5, <2>6, <2>7, <2>8 DEF WebhookStep
<1> QED
  BY <1>2, <1>5, <1>6, CreditPartsPrimed


(* Visits that change no credit.                                           *)
LEMMA VisitCredits ==
  ASSUME TypeOK, FormedInv, CreditInv, NEW v \in Visits,
         \/ CreateSession(v) \/ BindOrder(v) \/ Looks(v) \/ TrustUser(v) \/ AskStripe(v)
         \/ ConfirmPaid(v) \/ SettleSession(v)
  PROVE  CreditInv'
<1>1. v \in Jobs /\ job[v] \in JobType /\ VisitFormed(job[v])
  BY Names DEF TypeOK, FormedInv
<1>2. VisitFormed(Idle) /\ Idle.owes = FALSE /\ Idle.at = "idle"
  BY IdleFormed DEF Idle
<1>3. CASE Looks(v)
  <2>1. UNCHANGED <<lock, credits, mishaps, status>>
    BY <1>3, LooksMove DEF unchanged, untouched
  <2>2. \E q \in JobType : job' = [job EXCEPT ![v] = q] /\ q.owes = FALSE /\ q.at \notin WebhookPlaces
    <3>1. \A place \in {"lookAgain", "trust", "list"} : Goto(v, place) /\ job[v].at \in OrderPlaces =>
            \E q \in JobType : job' = [job EXCEPT ![v] = q] /\ q.owes = FALSE /\ q.at \notin WebhookPlaces
      <4> SUFFICES ASSUME NEW place \in {"lookAgain", "trust", "list"}, Goto(v, place),
                          job[v].at \in OrderPlaces
                   PROVE  \E q \in JobType : job' = [job EXCEPT ![v] = q] /\ q.owes = FALSE
                                             /\ q.at \notin WebhookPlaces
        OBVIOUS
      <4>1. PICK q \in JobType : q = Moved(v, place) /\ q.at = place /\ q.owes = job[v].owes
        BY <1>1, GotoMoves DEF Places
      <4>2. q.owes = FALSE
        BY <1>1, <4>1 DEF VisitFormed, OrderPlaces, JobType
      <4> QED
        BY <4>1, <4>2 DEF Goto, Moved, WebhookPlaces
    <3>2. Leave(v) => \E q \in JobType : job' = [job EXCEPT ![v] = q] /\ q.owes = FALSE
                                         /\ q.at \notin WebhookPlaces
      BY <1>2, IdleType DEF Leave, WebhookPlaces
    <3>3. ASSUME NEW o \in Orders, NEW s, NEW place \in {"check", "list"}, NEW kind \in {"page", "last"},
                 s = orders[o].session,
                 job' = [job EXCEPT ![v] = [Idle EXCEPT !.at = place, !.kind = kind, !.order = o,
                                                        !.session = s]]
          PROVE  \E q \in JobType : job' = [job EXCEPT ![v] = q] /\ q.owes = FALSE
                                    /\ q.at \notin WebhookPlaces
      <4> DEFINE q == [Idle EXCEPT !.at = place, !.kind = kind, !.order = o, !.session = s]
      <4>1. q \in JobType /\ q.owes = FALSE /\ q.at = place
        BY <3>3 DEF Idle, JobType, TypeOK
      <4>2. job' = [job EXCEPT ![v] = q]
        BY <3>3
      <4> HIDE DEF q
      <4> QED
        BY <4>1, <4>2 DEF WebhookPlaces
    <3>4. ASSUME NEW kind \in {"page", "list"}, NEW order \in Orders \cup {None},
                 TakeUp(v, kind, order, PendingOrders)
          PROVE  \E q \in JobType : job' = [job EXCEPT ![v] = q] /\ q.owes = FALSE
                                    /\ q.at \notin WebhookPlaces
      <4>1. PICK q \in JobType : job' = [job EXCEPT ![v] = q] /\ q.at = "ask" /\ ~q.owes
        BY <3>4, TakesUp
      <4> QED
        BY <4>1 DEF JobType, WebhookPlaces
    <3>5. ASSUME NEW o \in Orders, GetOrder(v, o)
          PROVE  \E q \in JobType : job' = [job EXCEPT ![v] = q] /\ q.owes = FALSE
                                    /\ q.at \notin WebhookPlaces
      BY <3>3, <3>5 DEF GetOrder
    <3>6. job[v].order \in Orders \cup {None}
      BY <1>1 DEF JobType
    <3>7. CASE Finalize(v) \/ LookAgain(v)
      BY <3>1, <3>2, <3>7 DEF Finalize, LookAgain, OrderPlaces, At
    <3>8. CASE ListSubscriptions(v)
      BY <3>4, <3>8 DEF ListSubscriptions
    <3>9. CASE ReconcileOrders(v)
      BY <3>4, <3>6, <3>9 DEF ReconcileOrders
    <3>10. CASE Reconciled(v)
      BY <3>2, <3>3, <3>6, <3>10 DEF Reconciled
    <3> QED
      BY <1>3, <3>5, <3>7, <3>8, <3>9, <3>10 DEF Looks
  <2> QED
    BY <2>1, <2>2, VisitApart
<1>4. CASE BindOrder(v)
  <2>1. UNCHANGED <<lock, credits, mishaps, status>> /\ job' = [job EXCEPT ![v] = Idle]
    BY <1>4 DEF BindOrder, Leave
  <2> QED
    BY <1>2, <2>1, IdleType, VisitApart DEF WebhookPlaces
<1>5. CASE CreateSession(v)
  <2>1. PICK s \in Sessions : /\ stripe[s] = "absent" /\ status' = [status EXCEPT ![s] = "open"]
                              /\ job' = [job EXCEPT ![v] = [Idle EXCEPT !.at = "bind", !.session = s]]
                              /\ UNCHANGED <<lock, credits, mishaps>>
    BY <1>5 DEF CreateSession
  <2>2. \A t \in Sessions : status[t] = "complete" => status'[t] = "complete"
    BY <2>1 DEF FormedInv, TypeOK
  <2> DEFINE q == [Idle EXCEPT !.at = "bind", !.session = s]
  <2>3. q \in JobType /\ q.owes = FALSE /\ q.at = "bind"
    BY DEF Idle, JobType
  <2>4. job' = [job EXCEPT ![v] = q]
    BY <2>1
  <2> HIDE DEF q
  <2> QED
    BY <2>1, <2>2, <2>3, <2>4, VisitApart DEF WebhookPlaces
<1>6. CASE TrustUser(v) \/ ConfirmPaid(v)
  <2>1. UNCHANGED <<lock, credits, mishaps, status>>
    BY <1>6 DEF TrustUser, ConfirmPaid, untouched
  <2>2. job[v].owes = FALSE
    BY <1>1, <1>6 DEF TrustUser, ConfirmPaid, VisitFormed, At, JobType
  <2>3. \E q \in JobType : Becomes(v, q) /\ q.owes = FALSE /\ q.at \notin WebhookPlaces
    <3>1. \A place \in {"lookAgain", "settle", "ask"} :
            \E q \in JobType : /\ q = Moved(v, place) /\ q.at = place /\ q.owes = job[v].owes
                               /\ Goto(v, place) => Becomes(v, q)
      BY <1>1, GotoMoves DEF Places
    <3>2. CASE Goto(v, "lookAgain") \/ Goto(v, "ask")
      BY <2>2, <3>1, <3>2 DEF WebhookPlaces
    <3>3. CASE At(v, "trust") /\ SettleOrder(job[v].order, Of(v), TRUE, v, "trust", Moved(v, "lookAgain"))
      <4>1. job[v].order \in Orders /\ Of(v) \in Sessions
        BY <1>1, <3>3 DEF VisitFormed, OrderPlaces, SessionPlaces, Exists, At, Of
      <4>2. PICK q \in JobType : /\ q = Moved(v, "lookAgain") /\ q.at = "lookAgain"
                                 /\ q.owes = job[v].owes
        BY <3>1
      <4>3. Becomes(v, q)
        BY <1>1, <3>3, <4>1, <4>2, SettlesOrder
      <4> QED
        BY <2>2, <4>2, <4>3 DEF WebhookPlaces
    <3>4. CASE /\ At(v, "confirmPaid")
               /\ SettleOrder(buys[Of(v)], Of(v), TRUE, v, "visit", Moved(v, "settle"))
      <4>1. buys[Of(v)] \in Orders /\ Of(v) \in Sessions
        BY <1>1, <3>4 DEF VisitFormed, SessionPlaces, Exists, At, Of
      <4>2. PICK q \in JobType : /\ q = Moved(v, "settle") /\ q.at = "settle" /\ q.owes = job[v].owes
        BY <3>1
      <4>3. Becomes(v, q)
        BY <1>1, <3>4, <4>1, <4>2, SettlesOrder
      <4> QED
        BY <2>2, <4>2, <4>3 DEF WebhookPlaces
    <3> QED
      BY <1>6, <3>2, <3>3, <3>4 DEF TrustUser, ConfirmPaid, Moved
  <2> QED
    BY <2>1, <2>3, VisitApart
<1>7. CASE AskStripe(v)
  <2>1. PICK q \in JobType : /\ job' = [job EXCEPT ![v] = q] /\ q.owes = job[v].owes
                             /\ q.at \in {"ask", "confirmPaid"}
    BY <1>7, Asks
  <2>2. job[v].owes = FALSE
    BY <1>1, <1>7 DEF AskStripe, VisitFormed, At, JobType
  <2>3. UNCHANGED <<lock, credits, mishaps, status>>
    BY <1>7 DEF AskStripe, untouched
  <2> QED
    BY <2>1, <2>2, <2>3, VisitApart DEF WebhookPlaces
<1>8. CASE SettleSession(v)
  <2> DEFINE q == [job[v] EXCEPT !.at = "ask", !.session = 0]
  <2>1. q \in JobType /\ q.at = "ask" /\ q.owes = job[v].owes
    BY <1>1 DEF JobType
  <2>2. job' = [job EXCEPT ![v] = q]
    BY <1>1, <1>8 DEF SettleSession, TypeOK
  <2> HIDE DEF q
  <2>3. job[v].owes = FALSE
    BY <1>1, <1>8 DEF SettleSession, VisitFormed, At, JobType
  <2>4. /\ UNCHANGED <<lock, credits, mishaps>>
        /\ \A s \in Sessions : status[s] = "complete" => status'[s] = "complete"
    BY <1>8 DEF SettleSession, untouched, TypeOK
  <2> QED
    BY <2>1, <2>2, <2>3, <2>4, VisitApart DEF WebhookPlaces
<1> QED
  BY <1>3, <1>4, <1>5, <1>6, <1>7, <1>8


LEMMA SimulationCredits ==
  ASSUME TypeOK, FormedInv, CreditInv, NEW v \in Visits,
         \/ \E s \in Sessions, success \in BOOLEAN : Simulate(v, s, success)
         \/ SimulateOrder(v) \/ SimulateRead(v) \/ SimulateSave(v) \/ SimulateCredit(v)
  PROVE  CreditInv'
<1>1. v \in Jobs /\ job[v] \in JobType /\ VisitFormed(job[v]) /\ \A s \in Sessions : lock[s] # v
  BY Names DEF TypeOK, FormedInv
<1>2. ASSUME NEW s \in Sessions, NEW success \in BOOLEAN, Simulate(v, s, success)
      PROVE  CreditInv'
  <2> DEFINE r == [Idle EXCEPT !.at = "simOrder", !.session = s,
                               !.kind = IF success THEN "success" ELSE "failure"]
  <2>1. /\ r \in JobType /\ r.at = "simOrder" /\ r.owes = FALSE
        /\ job' = [job EXCEPT ![v] = r]
    BY <1>2 DEF Idle, JobType, Simulate
  <2> HIDE DEF r
  <2>2. UNCHANGED <<lock, credits, mishaps, status>>
    BY <1>2 DEF Simulate
  <2> QED
    BY <2>1, <2>2, VisitApart DEF WebhookPlaces
<1>3. ASSUME SimulateRead(v) \/ SimulateSave(v) \/ SimulateCredit(v)
      PROVE  CreditInv'
  <2>1. Of(v) \in Sessions
    BY <1>1, <1>3 DEF SimulateRead, SimulateSave, SimulateCredit, VisitFormed, Of, SessionPlaces,
                      SimulationPlaces, Exists, At
  <2>2. /\ lock' = lock /\ mishaps \subseteq mishaps'
        /\ \A s \in Sessions : s # Of(v) => credits'[s] = credits[s] /\ status'[s] = status[s]
    BY <1>3, <2>1 DEF SimulateRead, SimulateSave, SimulateCredit, untouched, Mishap, TypeOK
  <2>3. CASE SimulateRead(v)
    <3>1. PICK owes \in BOOLEAN :
            /\ job' = [job EXCEPT ![v] = [job[v] EXCEPT !.at = "simSave", !.owes = owes]]
            /\ owes <=> job[v].kind = "success" /\ status[Of(v)] # "complete"
            /\ owes /\ Crediting(Of(v)) # {} => Of(v) \in mishaps'
      BY <1>1, <2>1, <2>3 DEF SimulateRead, Mishap, TypeOK
    <3>2. UNCHANGED <<lock, credits, status>>
      BY <2>3 DEF SimulateRead, untouched
    <3> DEFINE r == [job[v] EXCEPT !.at = "simSave", !.owes = owes]
    <3>3. /\ r \in JobType /\ r.at = "simSave" /\ r.owes = owes /\ r.session = Of(v)
          /\ job' = [job EXCEPT ![v] = r]
      BY <1>1, <3>1 DEF JobType, Of
    <3> HIDE DEF r
    <3>4. PICK q \in JobType : /\ q.at = "simSave" /\ q.owes = owes /\ q.session = Of(v)
                               /\ Becomes(v, q)
      BY <1>1, <3>3, GotoBecomes
    <3> SUFFICES ASSUME NEW s \in Sessions \ mishaps'
                 PROVE  CreditOf(s)'
      BY CreditPartsPrimed
    <3>5. CreditOf(s)
      BY <2>2, CreditParts
    <3>6. CASE s = Of(v) /\ owes
      BY <1>1, <3>1, <3>2, <3>4, <3>5, <3>6, CreditStarts
    <3>7. CASE s # Of(v) \/ ~owes
      <4>1. ~Owes(v, q, s)'
        BY <1>1, <3>2, <3>4, <3>7 DEF Owes
      <4> QED
        BY <1>1, <3>2, <3>4, <3>5, <4>1, CreditKept
    <3> QED
      BY <3>6, <3>7
  <2>4. CASE SimulateSave(v)
    <3>1. PICK q \in JobType : /\ q = Moved(v, "simCredit") /\ q.at = "simCredit" /\ q.owes = job[v].owes
                               /\ q.kind = job[v].kind /\ q.session = job[v].session
      BY <1>1, GotoMoves DEF Places, Of
    <3>2. Becomes(v, q)
      BY <1>1, <2>4, <3>1, GotoBecomes DEF SimulateSave, Goto, Moved
    <3>3. /\ credits' = credits /\ At(v, "simSave")
          /\ job[v].kind = "success" => status'[Of(v)] = "complete"
          /\ status[Of(v)] = "complete" => status'[Of(v)] = "complete" \/ Of(v) \in mishaps'
      BY <2>1, <2>4 DEF SimulateSave, untouched, Mishap, Reverts, TypeOK
    <3> SUFFICES ASSUME NEW s \in Sessions \ mishaps'
                 PROVE  CreditOf(s)'
      BY CreditPartsPrimed
    <3>4. CreditOf(s)
      BY <2>2, CreditParts
    <3>5. Owes(v, q, s)' => Owes(v, job[v], s) /\ status'[s] = "complete"
      <4> SUFFICES ASSUME Owes(v, q, s)'
                   PROVE  Owes(v, job[v], s) /\ status'[s] = "complete"
        OBVIOUS
      <4>1. q.owes /\ q.session = s
        BY <1>1, <2>2, <3>1 DEF Owes
      <4> QED
        BY <1>1, <3>1, <3>3, <4>1 DEF Owes, VisitFormed, At, Of
    <3>6. status[s] = "complete" => status'[s] = "complete"
      BY <2>2, <3>3
    <3>7. credits'[s] = credits[s] /\ lock'[s] = lock[s] /\ lock[s] # v
      BY <1>1, <2>2, <3>3
    <3> QED
      BY <1>1, <3>1, <3>2, <3>3, <3>4, <3>5, <3>6, <3>7, CreditKept DEF At
  <2>5. CASE SimulateCredit(v)
    <3>1. PICK q \in JobType : q = Idle /\ Becomes(v, q)
      BY <1>1, <2>5, IdleType, GotoBecomes DEF SimulateCredit, Leave
    <3>2. /\ status' = status /\ At(v, "simCredit")
          /\ credits'[Of(v)] = IF job[v].owes THEN credits[Of(v)] + 1 ELSE credits[Of(v)]
      BY <2>1, <2>5 DEF SimulateCredit, TypeOK
    <3> SUFFICES ASSUME NEW s \in Sessions \ mishaps'
                 PROVE  CreditOf(s)'
      BY CreditPartsPrimed
    <3>3. CreditOf(s)
      BY <2>2, CreditParts
    <3>4. ~Owes(v, q, s)' /\ q.at = "idle"
      BY <3>1 DEF Owes, Idle
    <3>5. CASE s = Of(v) /\ job[v].owes
      <4>1. Owes(v, job[v], s) /\ status[s] = "complete"
        BY <1>1, <3>2, <3>3, <3>5 DEF Owes, CreditOf, At, Of
      <4> QED
        BY <1>1, <2>2, <3>1, <3>2, <3>3, <3>4, <3>5, <4>1, CreditPays DEF At
    <3>6. CASE s # Of(v) \/ ~job[v].owes
      <4>1. credits'[s] = credits[s]
        BY <2>2, <3>2, <3>6
      <4> QED
        BY <1>1, <2>2, <3>1, <3>2, <3>3, <3>4, <4>1, CreditKept
    <3> QED
      BY <3>5, <3>6
  <2> QED
    BY <1>3, <2>3, <2>4, <2>5
<1>4. CASE SimulateOrder(v)
  <2>1. /\ Of(v) \in Sessions /\ plans' = plans /\ job[v].owes = FALSE
        /\ UNCHANGED <<lock, credits, mishaps, status>>
    BY <1>1, <1>4 DEF SimulateOrder, VisitFormed, Of, SessionPlaces, SimulationPlaces, Exists, At,
                      JobType, untouched
  <2>2. PICK q \in JobType : /\ q = Moved(v, "simRead") /\ q.at = "simRead" /\ q.owes = job[v].owes
                             /\ Goto(v, "simRead") => Becomes(v, q)
    BY <1>1, GotoMoves DEF Places
  <2>3. PICK success \in BOOLEAN : success = (job[v].kind = "success")
    OBVIOUS
  <2>4. CASE Settle(Of(v), success, v, "simulation", q)
    <3>1. Becomes(v, q)
      BY <1>1, <2>1, <2>4, Settles
    <3> QED
      BY <2>1, <2>2, <3>1, VisitApart DEF WebhookPlaces
  <2>5. CASE Goto(v, "simRead")
    BY <2>1, <2>2, <2>5, VisitApart DEF WebhookPlaces
  <2> QED
    BY <1>4, <2>2, <2>3, <2>4, <2>5 DEF SimulateOrder, Moved
<1> QED
  BY <1>2, <1>3, <1>4

LEMMA DieCredits ==
  ASSUME TypeOK, CreditInv, NEW x \in Jobs, Die(x)
  PROVE  CreditInv'
<1>1. PICK q \in JobType : q = Idle /\ Becomes(x, q)
  BY IdleType, GotoBecomes DEF Die, Leave
<1>2. UNCHANGED <<credits, status>> /\ mishaps \subseteq mishaps' /\ lock' = Unlock(x)
  BY DEF Die, Mishap
<1> SUFFICES ASSUME NEW s \in Sessions \ mishaps'
             PROVE  CreditOf(s)'
  BY CreditPartsPrimed
<1>3. CreditOf(s)
  BY <1>2, CreditParts
<1>4. ~Owes(x, q, s)'
  BY <1>1 DEF Owes, Idle
<1>5. lock'[s] = lock[s] \/ (lock[s] \in {None, x} /\ lock'[s] \in {None, x})
  BY <1>2 DEF Unlock
<1>6. ~(lock[s] = x /\ job[x].kind = "completed" /\ job[x].at \in {"confirm", "order", "commit"})
  <2> SUFFICES ASSUME lock[s] = x, job[x].kind = "completed", job[x].at \in {"confirm", "order", "commit"}
               PROVE  FALSE
    OBVIOUS
  <2>1. Of(x) = s \/ lock[s] = None
    BY DEF TypeOK
  <2>2. x # None
    BY Names DEF Jobs
  <2> QED
    BY <2>1, <2>2 DEF Die, Mishap, Torn
<1> QED
  BY <1>1, <1>2, <1>3, <1>4, <1>5, <1>6, CreditKept

LEMMA CreditNext ==
  ASSUME TypeOK, FormedInv, CreditInv, Next
  PROVE  CreditInv'
<1>1. ASSUME NEW s \in Sessions, UserPays(s) \/ SessionExpires(s) \/ IntentCanceled(s)
      PROVE  CreditInv'
  BY <1>1, StripeCredits DEF UserPays, SessionExpires, IntentCanceled, here
<1>2. ASSUME NEW h \in Deliveries, NEW e \in Event, Deliver(h, e)
      PROVE  CreditInv'
  BY <1>2, DeliverCredits
<1>3. ASSUME NEW v \in Visits, Arrive(v)
      PROVE  CreditInv'
  BY <1>3, VisitCredits, SimulationCredits DEF Arrive, Looks
<1>4. ASSUME NEW h \in Deliveries, WebhookStep(h)
      PROVE  CreditInv'
  BY <1>4, WebhookCredits
<1>5. ASSUME NEW v \in Visits, VisitStep(v)
      PROVE  CreditInv'
  BY <1>5, VisitCredits, SimulationCredits DEF VisitStep, Looks
<1>6. ASSUME NEW x \in Jobs, Die(x)
      PROVE  CreditInv'
  BY <1>6, DieCredits
<1> QED
  BY <1>1, <1>2, <1>3, <1>4, <1>5, <1>6 DEF Next, Step

-----------------------------------------------------------------------------
(* The theorems.                                                           *)

LEMMA Stutter ==
  ASSUME PaymentsInv, UNCHANGED vars
  PROVE  PaymentsInv'
<1> USE DEF vars, goods
<1>1. TypeOK'
  BY DEF PaymentsInv, TypeOK, Of
<1>2. FormedInv'
  BY DEF PaymentsInv, FormedInv, WebhookFormed, VisitFormed, Exists
<1>3. OrdersInv'
  BY DEF PaymentsInv, OrdersInv, SubsInv, EventInv, OneSubscription, PaidWasPaid, Aims, Pending, At, Told, Of
<1>4. CreditInv'
  BY StripeCredits DEF PaymentsInv
<1> QED
  BY <1>1, <1>2, <1>3, <1>4 DEF PaymentsInv, OrdersInv

LEMMA Inits ==
  ASSUME Init
  PROVE  PaymentsInv
<1>1. \A x \in Jobs : job[x] = Idle
  BY DEF Init
<1>2. \A o \in Orders : subs[o] = {} /\ IsFiniteSet(subs[o]) /\ orders[o].status = "pending"
                        /\ orders[o].session = 0
  BY FS_EmptySet DEF Init
<1>3. TypeOK
  <2>1. job \in [Jobs -> JobType]
    BY IdleType DEF Init
  <2>2. \A s \in Sessions : lock[s] = None
    BY DEF Init
  <2> QED
    BY <1>2, <2>1, <2>2, FS_EmptySet DEF Init, TypeOK
<1>4. FormedInv
  BY <1>1, <1>2, IdleFormed, Names DEF Init, FormedInv, WebhookFormed
<1>5. SubsInv /\ OneSubscription /\ PaidWasPaid
  BY <1>2 DEF SubsInv, OneSubscription, PaidWasPaid
<1>6. EventInv
  BY <1>1, <1>2, Names DEF EventInv, At, Idle
<1>7. CreditInv
  <2>1. \A s \in Sessions : lock[s] = None /\ credits[s] = 0
    BY DEF Init
  <2>2. \A s \in Sessions, x \in Jobs : ~Owes(x, job[x], s)
    BY <1>1, <2>1, Names DEF Owes, Idle, Sessions
  <2> QED
    BY <2>1, <2>2, CreditParts DEF CreditOf
<1> QED
  BY <1>3, <1>4, <1>5, <1>6, <1>7 DEF PaymentsInv

(* Whatever fails, dies or is delivered again, and however many requests   *)
(* there are: the inductive invariant of the three properties below.       *)
THEOREM PaymentsInvariance == Spec => []PaymentsInv
<1>1. Init => PaymentsInv
  BY Inits
<1>2. PaymentsInv /\ [Next]_vars => PaymentsInv'
  <2>1. CASE UNCHANGED vars
    BY <2>1, Stutter
  <2>2. ASSUME PaymentsInv, Next
        PROVE  PaymentsInv'
    BY <2>2, TypeStep, FormedNext, OrdersNext, CreditNext DEF PaymentsInv, OrdersInv
  <2> QED
    BY <2>1, <2>2
<1> QED
  BY <1>1, <1>2, PTL DEF Spec

(* The types, and that a row is locked by the webhook that works on it.    *)
THEOREM PaymentsTyped == Spec => []TypeOK
<1>1. PaymentsInv => TypeOK
  BY DEF PaymentsInv
<1> QED
  BY <1>1, PaymentsInvariance, PTL

(* A payment is put into the wallet once, but for the mishaps.             *)
THEOREM CreditsOnce == Spec => []CreditedOnce
<1>1. PaymentsInv => CreditedOnce
  <2> SUFFICES ASSUME PaymentsInv, NEW s \in Sessions, credits[s] > 1, s \notin mishaps
               PROVE  FALSE
    BY DEF CreditedOnce
  <2>1. credits[s] \in Nat /\ credits[s] <= 1
    BY DEF PaymentsInv, TypeOK, CreditInv
  <2> QED
    BY <2>1
<1> QED
  BY <1>1, PaymentsInvariance, PTL

(* An order has one subscription, but for the ways that OneSubscription    *)
(* names.                                                                  *)
THEOREM SubscribesOnce == Spec => []OneSubscription
<1>1. PaymentsInv => OneSubscription
  BY DEF PaymentsInv
<1> QED
  BY <1>1, PaymentsInvariance, PTL

(* An order is paid by a payment, an admin or a user's word.               *)
THEOREM NoOrderPaidUnasked == Spec => []PaidWasPaid
<1>1. PaymentsInv => PaidWasPaid
  BY DEF PaymentsInv
<1> QED
  BY <1>1, PaymentsInvariance, PTL

=============================================================================
