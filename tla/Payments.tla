------------------------------ MODULE Payments ------------------------------
(* Stripe payments (service/payment) with what they pay for: orders         *)
(* (service/order), pending subscriptions (handler/public/subscription) and *)
(* wallets.  A payment is confirmed by Stripe's webhook, by the pages its   *)
(* user looks at afterwards, or by an admin who simulates it; each of these *)
(* reads a row, decides, and writes in statements of their own.  The        *)
(* webhook has a transaction, but what it calls has connections of its own. *)
EXTENDS Naturals, FiniteSets

CONSTANTS Orders,       \* each pending at first
          Plans,        \* subscriptions that a checkout has left pending
          MaxSessions,
          Wares,        \* session -> <<order, plan>> its user may pay for with it
          Deliveries,   \* webhook calls that can be under way at once
          Visits,       \* requests of users and admins that can be
          MaxEvents,    \* payments, expiries and cancellations at Stripe, and simulations
          Faults,       \* whether statements fail and requests die
          None

ASSUME PaymentsAssumption ==
  /\ MaxSessions \in Nat /\ MaxEvents \in Nat /\ Faults \in BOOLEAN
  /\ Wares \in [1..MaxSessions -> SUBSET ((Orders \cup {None}) \X (Plans \cup {None}))]
  /\ None \notin Orders \cup Plans
  /\ Deliveries \cap Visits = {} /\ None \notin Deliveries \cup Visits

Sessions == 1..MaxSessions
Jobs == Deliveries \cup Visits

Kinds == {"completed", "expired", "canceled"}

VARIABLES
  \* Stripe:
  stripe,     \* session -> "absent", "created", "open" (its user has the URL), "paid", "over"
  canceled,   \* sessions whose intent was canceled
  \* Tables:
  buys,       \* session -> the order its intent's metadata names, or None
  starts,     \* session -> the pending subscription it names, or None
  status,     \* session -> "absent", "open", "complete" or "expired"
  lock,       \* session -> the webhook whose transaction has written its row, or None
  events,     \* event -> "absent", "pending", "processed" or "failed"
  orders,     \* order -> [status, session]
  plans,      \* plan -> "pending", "active" or "overdue"
  subs,       \* order -> its subscriptions [n, by, session, met]
  credits,    \* session -> how often its amount was put into the wallet
  \* Requests:
  job,        \* request -> [at, kind, session, order, owes, todo, met]
  \* History:
  simulated,  \* session -> how often an admin has simulated it
  mishaps     \* sessions credited by two at once, turned back or left half done

goods == <<orders, plans, subs>>
vars == <<stripe, canceled, buys, starts, status, lock, events, orders, plans, subs, credits,
          job, simulated, mishaps>>

Event == [session : Sessions, kind : Kinds]

Idle == [at |-> "idle", kind |-> "none", session |-> 0, order |-> None, owes |-> FALSE,
         todo |-> {}, met |-> {}]

Init ==
  /\ stripe = [s \in Sessions |-> "absent"] /\ canceled = {}
  /\ buys = [s \in Sessions |-> None] /\ starts = [s \in Sessions |-> None]
  /\ status = [s \in Sessions |-> "absent"] /\ lock = [s \in Sessions |-> None]
  /\ events = [e \in Event |-> "absent"]
  /\ orders = [o \in Orders |-> [status |-> "pending", session |-> 0]]
  /\ plans = [p \in Plans |-> "pending"]
  /\ subs = [o \in Orders |-> {}]
  /\ credits = [s \in Sessions |-> 0]
  /\ job = [x \in Jobs |-> Idle]
  /\ simulated = [s \in Sessions |-> 0] /\ mishaps = {}

At(x, place) == job[x].at = place
Goto(x, place) == job' = [job EXCEPT ![x].at = place]
Leave(x) == job' = [job EXCEPT ![x] = Idle]

Of(x) == job[x].session
Told(x) == [session |-> Of(x), kind |-> job[x].kind]

Mishap(s, happened) == mishaps' = IF happened THEN mishaps \cup {s} ELSE mishaps

-----------------------------------------------------------------------------
(* What a payment is for.                                                   *)

Subscribed(o, s, by, met) ==
  [subs EXCEPT ![o] = @ \cup {[n |-> Cardinality(@) + 1, by |-> by, session |-> s, met |-> met]}]

(* processOrderPaymentWebhook: the order is paid and always gets a new      *)
(* subscription, or it is cancelled.  Visits under way have now met another *)
(* confirmation of the order.  The request itself goes on as next.          *)
SettleOrder(o, s, success, x, by, next) ==
  IF success
  THEN /\ orders' = [orders EXCEPT ![o] = [status |-> "paid", session |-> s]]
       /\ subs' = Subscribed(o, s, by, o \in job[x].met)
       /\ job' = [y \in Jobs |->
                    IF y = x THEN next
                    ELSE IF job[y].at \in {"check", "trust", "ask", "confirmPaid", "settle"}
                    THEN [job[y] EXCEPT !.met = @ \cup {o}] ELSE job[y]]
  ELSE /\ orders' = [orders EXCEPT ![o].status = "cancelled"]
       /\ job' = [job EXCEPT ![x] = next]
       /\ UNCHANGED subs

(* processSubscriptionPaymentWebhook and processOrderPaymentWebhook are      *)
(* transactions of their own; the user's metadata may name something for    *)
(* both, for one or for none.                                               *)
SettlePlan(s, success) ==
  plans' = IF starts[s] = None THEN plans
           ELSE [plans EXCEPT ![starts[s]] = IF success THEN "active" ELSE "overdue"]

Settle(s, success, x, by, next) ==
  \/ buys[s] \in Orders /\ SettleOrder(buys[s], s, success, x, by, next)
  \/ buys[s] = None /\ job' = [job EXCEPT ![x] = next] /\ UNCHANGED <<orders, subs>>

-----------------------------------------------------------------------------
(* Stripe.                                                                  *)

(* What Stripe has to tell.                                                 *)
Due == {e \in Event : \/ e.kind = "completed" /\ stripe[e.session] = "paid"
                      \/ e.kind = "expired" /\ stripe[e.session] = "over"
                      \/ e.kind = "canceled" /\ e.session \in canceled}

Simulations == {i \in Sessions \X (1..MaxEvents) : i[2] <= simulated[i[1]]}

More == Cardinality(Due) + Cardinality(Simulations) < MaxEvents

here == <<buys, starts, status, lock, events, goods, credits, job, simulated, mishaps>>

UserPays(s) ==
  /\ More /\ stripe[s] = "open"
  /\ stripe' = [stripe EXCEPT ![s] = "paid"]
  /\ UNCHANGED <<canceled, here>>

SessionExpires(s) ==
  /\ More /\ stripe[s] \in {"created", "open"}
  /\ stripe' = [stripe EXCEPT ![s] = "over"]
  /\ UNCHANGED <<canceled, here>>

(* payment_intent.canceled or payment_failed for the intent that was        *)
(* created before the session; the session has one of its own at Stripe.    *)
IntentCanceled(s) ==
  /\ More /\ stripe[s] # "absent" /\ s \notin canceled
  /\ canceled' = canceled \cup {s}
  /\ UNCHANGED <<stripe, here>>

-----------------------------------------------------------------------------
(* ProcessStripeWebhook.                                                    *)

stripeAndTables == <<stripe, canceled, buys, starts, status, lock, goods, credits>>

(* Mutant of Deliver: no unique index.                                      *)
DeliverAgain(h, e) ==
  /\ At(h, "idle") /\ e \in Due
  /\ events' = [events EXCEPT ![e] = "pending"]
  /\ job' = [job EXCEPT ![h] = [Idle EXCEPT !.at = "read", !.kind = e.kind, !.session = e.session]]
  /\ UNCHANGED <<stripeAndTables, simulated, mishaps>>

(* Stripe delivers an event until it is answered with 200, and now and then *)
(* once more.  An event that has a row, whatever became of it, is answered  *)
(* with 200: the lookup finds it, or the unique index does.                 *)
Deliver(h, e) ==
  /\ At(h, "idle") /\ e \in Due
  /\ IF events[e] # "absent" THEN UNCHANGED <<events, job>>
     ELSE /\ events' = [events EXCEPT ![e] = "pending"]
          /\ job' = [job EXCEPT ![h] = [Idle EXCEPT !.at = "read", !.kind = e.kind,
                                                    !.session = e.session]]
  /\ UNCHANGED <<stripeAndTables, simulated, mishaps>>

(* Requests that have found session s incomplete and will credit it.        *)
Crediting(s) ==
  {x \in Jobs : /\ Of(x) = s
                /\ \/ job[x].kind = "completed" /\ job[x].at \in {"save", "credit"}
                   \/ job[x].kind = "completed" /\ lock[s] = x
                   \/ job[x].owes /\ At(x, "simSave")}

(* The transaction begins; the session is read with its intent.             *)
ReadSession(h) ==
  /\ At(h, "read")
  /\ LET s == Of(h)
         completed == job[h].kind = "completed"
     IN /\ Goto(h, IF completed /\ status[s] = "complete" THEN "confirm" ELSE "save")
        /\ Mishap(s, completed /\ status[s] # "complete" /\ Crediting(s) # {})
  /\ UNCHANGED <<stripeAndTables, events, simulated>>

(* Save locks the row and is seen at the commit.  When the intent was       *)
(* canceled, an error of it is dropped.                                     *)
SaveSession(h) ==
  /\ At(h, "save")
  /\ \/ /\ lock[Of(h)] = None /\ lock' = [lock EXCEPT ![Of(h)] = h]
        /\ Goto(h, CASE job[h].kind = "completed" -> "credit"
                     [] job[h].kind = "expired" -> "confirm"
                     [] job[h].kind = "canceled" -> "commit")
     \/ Faults /\ job[h].kind = "canceled" /\ Goto(h, "commit") /\ UNCHANGED lock
  /\ UNCHANGED <<stripe, canceled, buys, starts, status, events, goods, credits, simulated,
                 mishaps>>

(* RechargeByCodeWithTenant, on a connection of its own, for an order or a  *)
(* subscription as well.                                                    *)
Credit(h) ==
  /\ At(h, "credit")
  /\ credits' = [credits EXCEPT ![Of(h)] = @ + 1]
  /\ Goto(h, "confirm")
  /\ UNCHANGED <<stripe, canceled, buys, starts, status, lock, events, goods, simulated, mishaps>>

ConfirmSubscription(h) ==
  /\ At(h, "confirm")
  /\ SettlePlan(Of(h), job[h].kind = "completed") /\ Goto(h, "order")
  /\ UNCHANGED <<stripe, canceled, buys, starts, status, lock, events, orders, subs, credits,
                 simulated, mishaps>>

ConfirmOrder(h) ==
  /\ At(h, "order")
  /\ Settle(Of(h), job[h].kind = "completed", h, "webhook", [job[h] EXCEPT !.at = "commit"])
  /\ UNCHANGED <<stripe, canceled, buys, starts, status, lock, events, plans, credits,
                 simulated, mishaps>>

(* Mutant of Unlock: the transaction stays open.                            *)
StillLocked(h) == lock

Unlock(h) == [s \in Sessions |-> IF lock[s] = h THEN None ELSE lock[s]]

(* A session that was complete is no longer.                                *)
Reverts(s, new) == status[s] = "complete" /\ new # "complete"

Commit(h) ==
  /\ At(h, "commit")
  /\ LET s == Of(h)
         new == IF lock[s] # h THEN status[s]
                ELSE IF job[h].kind = "completed" THEN "complete" ELSE "expired"
     IN status' = [status EXCEPT ![s] = new] /\ Mishap(s, Reverts(s, new))
  /\ lock' = Unlock(h)
  /\ Goto(h, "mark")
  /\ UNCHANGED <<stripe, canceled, buys, starts, events, goods, credits, simulated>>

MarkProcessed(h) ==
  /\ At(h, "mark")
  /\ events' = [events EXCEPT ![Told(h)] = "processed"]
  /\ Leave(h)
  /\ UNCHANGED <<stripeAndTables, simulated, mishaps>>

(* When the request ends here, its credit outlives the transaction that     *)
(* would have said so.                                                      *)
Torn(x) ==
  job[x].kind = "completed" /\ job[x].at \in {"confirm", "order", "commit"} /\ lock[Of(x)] = x

(* Mutant of RollBack: the error of the transaction is not looked at.       *)
RollBackProcessed(h) ==
  /\ Faults /\ job[h].at \in {"read", "save", "credit", "confirm", "order", "commit"}
  /\ lock' = Unlock(h)
  /\ events' = [events EXCEPT ![Told(h)] = "processed"]
  /\ Leave(h) /\ Mishap(Of(h), Torn(h))
  /\ UNCHANGED <<stripe, canceled, buys, starts, status, goods, credits, simulated>>

(* A statement fails: the transaction is rolled back, the event marked      *)
(* failed, and answered with 400.  The next delivery will find its row.     *)
RollBack(h) ==
  /\ Faults /\ job[h].at \in {"read", "save", "credit", "confirm", "order", "commit"}
  /\ lock' = Unlock(h)
  /\ events' = [events EXCEPT ![Told(h)] = "failed"]
  /\ Leave(h) /\ Mishap(Of(h), Torn(h))
  /\ UNCHANGED <<stripe, canceled, buys, starts, status, goods, credits, simulated>>

-----------------------------------------------------------------------------
(* The user's requests.                                                     *)

(* CreatePaymentSessionForTenant: a session at Stripe and its row.          *)
CreateSession(v) ==
  \E s \in Sessions : \E ware \in Wares[s] :
    /\ At(v, "idle")
    /\ stripe[s] = "absent" /\ \A t \in 1..(s - 1) : stripe[t] # "absent"
    /\ job' = [job EXCEPT ![v] = [Idle EXCEPT !.at = "bind", !.session = s]]
    /\ stripe' = [stripe EXCEPT ![s] = "created"]
    /\ status' = [status EXCEPT ![s] = "open"]
    /\ buys' = [buys EXCEPT ![s] = ware[1]] /\ starts' = [starts EXCEPT ![s] = ware[2]]
    /\ UNCHANGED <<canceled, lock, events, goods, credits, simulated, mishaps>>

(* bindOrderPaymentSessionIfPresent, in the order while it is pending; then *)
(* the user is given the URL.                                               *)
BindOrder(v) ==
  /\ At(v, "bind")
  /\ orders' = [o \in Orders |-> IF o = buys[Of(v)] /\ orders[o].status = "pending"
                                 THEN [orders[o] EXCEPT !.session = Of(v)] ELSE orders[o]]
  /\ stripe' = IF stripe[Of(v)] = "created" THEN [stripe EXCEPT ![Of(v)] = "open"] ELSE stripe
  /\ Leave(v)
  /\ UNCHANGED <<canceled, buys, starts, status, lock, events, plans, subs, credits, simulated,
                 mishaps>>

untouched == <<stripe, canceled, buys, starts, lock, events, credits, simulated>>
unchanged == <<untouched, status, goods, mishaps>>

Pending(o) == orders[o].status = "pending"

(* GetOrder with activate, as the page after the payment asks for it: a     *)
(* pending order with a session goes to                                     *)
(* FinalizeOrderPaymentBySessionForUser, without one to the reconciliation. *)
GetOrder(v, o) ==
  /\ At(v, "idle") /\ Pending(o)
  /\ LET s == orders[o].session IN
     job' = [job EXCEPT ![v] = [Idle EXCEPT !.at = IF s # 0 THEN "check" ELSE "list",
                                            !.kind = "page", !.order = o, !.session = s]]
  /\ UNCHANGED unchanged

(* FinalizeOrderPaymentBySessionForUser looks again, and does not ask       *)
(* Stripe.  Its errors are dropped.                                         *)
Finalize(v) ==
  /\ At(v, "check")
  /\ \/ orders[job[v].order].status = "paid" /\ Goto(v, "lookAgain") \* with its subscription
     \/ orders[job[v].order].status # "paid" /\ Goto(v, "trust")
     \/ Faults /\ Goto(v, "lookAgain")
  /\ UNCHANGED unchanged

TrustUser(v) ==
  /\ At(v, "trust")
  /\ \/ SettleOrder(job[v].order, Of(v), TRUE, v, "trust", [job[v] EXCEPT !.at = "lookAgain"])
     \/ Faults /\ Goto(v, "lookAgain") /\ UNCHANGED <<orders, subs>>
  /\ UNCHANGED <<untouched, status, plans, mishaps>>

(* Still pending: reconcile, and after that finalize once more.             *)
LookAgain(v) ==
  /\ At(v, "lookAgain")
  /\ IF Pending(job[v].order) /\ job[v].kind = "page" THEN Goto(v, "list") ELSE Leave(v)
  /\ UNCHANGED unchanged

(* ReconcileUserOrderPaymentsFromStripe takes up the user's pending orders  *)
(* with the sessions bound to them, or fails.                               *)
TakeUp(v, kind, order, all) ==
  \E todo \in {all} \cup IF Faults THEN {{}} ELSE {} :
    job' = [job EXCEPT ![v] = [Idle EXCEPT !.at = "ask", !.kind = kind, !.order = order,
                                           !.todo = todo]]

PendingOrders == {<<o, orders[o].session>> : o \in {q \in Orders : Pending(q)}}

(* ListSubscriptions begins with it.                                        *)
ListSubscriptions(v) ==
  At(v, "idle") /\ TakeUp(v, "list", None, PendingOrders) /\ UNCHANGED unchanged

ReconcileOrders(v) ==
  At(v, "list") /\ TakeUp(v, "page", job[v].order, PendingOrders) /\ UNCHANGED unchanged

(* findLatestPaymentSessionForOrder.                                        *)
Latest(o) ==
  LET made == {s \in Sessions : status[s] # "absent" /\ buys[s] = o}
  IN IF made = {} THEN 0 ELSE CHOOSE s \in made : \A t \in made : t <= s

(* Mutant of IsPaid: a session is enough.                                   *)
IsThere(s) == s # 0

IsPaid(s) == s # 0 /\ stripe[s] = "paid"

(* One order after the other: a session that was not bound is, or that      *)
(* fails and is dropped, and Stripe says whether it was paid.               *)
AskStripe(v) ==
  /\ At(v, "ask")
  /\ \E item \in job[v].todo :
       LET o == item[1]
           s == IF item[2] = 0 THEN Latest(o) ELSE item[2]
           rest == [job[v] EXCEPT !.todo = @ \ {item}]
       IN /\ \/ orders' = IF item[2] = 0 /\ s # 0 THEN [orders EXCEPT ![o].session = s] ELSE orders
             \/ Faults /\ UNCHANGED orders
          /\ \/ IsPaid(s) /\ job' = [job EXCEPT ![v] = [rest EXCEPT !.at = "confirmPaid",
                                                                    !.session = s]]
             \/ (~IsPaid(s) \/ Faults) /\ job' = [job EXCEPT ![v] = rest]
  /\ UNCHANGED <<untouched, status, plans, subs, mishaps>>

ConfirmPaid(v) ==
  /\ At(v, "confirmPaid")
  /\ \/ SettleOrder(buys[Of(v)], Of(v), TRUE, v, "visit", [job[v] EXCEPT !.at = "settle"])
     \/ Faults /\ Goto(v, "ask") /\ UNCHANGED <<orders, subs>>
  /\ UNCHANGED <<untouched, status, plans, mishaps>>

(* The session is complete now, and its amount in no wallet.                *)
SettleSession(v) ==
  /\ At(v, "settle")
  /\ \/ lock[Of(v)] = None /\ status' = [status EXCEPT ![Of(v)] = "complete"]
     \/ Faults /\ UNCHANGED status
  /\ job' = [job EXCEPT ![v].at = "ask", ![v].session = 0]
  /\ UNCHANGED <<untouched, goods, mishaps>>

(* GetOrder looks at its order a last time.                                 *)
Reconciled(v) ==
  /\ At(v, "ask") /\ job[v].todo = {}
  /\ LET o == job[v].order IN
     IF o # None /\ Pending(o) /\ orders[o].session # 0
     THEN job' = [job EXCEPT ![v] = [Idle EXCEPT !.at = "check", !.kind = "last", !.order = o,
                                                 !.session = orders[o].session]]
     ELSE Leave(v)
  /\ UNCHANGED unchanged

-----------------------------------------------------------------------------
(* SimulatePayment, by an admin.                                            *)

Simulate(v, s, success) ==
  /\ At(v, "idle") /\ status[s] # "absent" /\ More
  /\ simulated' = [simulated EXCEPT ![s] = @ + 1]
  /\ \/ SettlePlan(s, success)
     \/ Faults /\ UNCHANGED plans \* the session could not be looked up
  /\ job' = [job EXCEPT ![v] = [Idle EXCEPT !.at = "simOrder", !.session = s,
                                            !.kind = IF success THEN "success" ELSE "failure"]]
  /\ UNCHANGED <<stripe, canceled, buys, starts, status, lock, events, orders, subs, credits,
                 mishaps>>

SimulateOrder(v) ==
  /\ At(v, "simOrder")
  /\ \/ Settle(Of(v), job[v].kind = "success", v, "simulation", [job[v] EXCEPT !.at = "simRead"])
     \/ Faults /\ Goto(v, "simRead") /\ UNCHANGED <<orders, subs>>
  /\ UNCHANGED <<untouched, status, plans, mishaps>>

SimulateRead(v) ==
  /\ At(v, "simRead")
  /\ LET s == Of(v)
         owes == job[v].kind = "success" /\ status[s] # "complete"
     IN /\ job' = [job EXCEPT ![v].at = "simSave", ![v].owes = owes]
        /\ Mishap(s, owes /\ Crediting(s) # {})
  /\ UNCHANGED <<untouched, status, goods>>

SimulateSave(v) ==
  /\ At(v, "simSave") /\ lock[Of(v)] = None
  /\ LET s == Of(v)
         new == IF job[v].kind = "success" THEN "complete" ELSE "expired"
     IN status' = [status EXCEPT ![s] = new] /\ Mishap(s, Reverts(s, new))
  /\ Goto(v, "simCredit")
  /\ UNCHANGED <<untouched, goods>>

(* Mutant of SimulateCredit: whether it was complete is not looked at.      *)
SimulateCreditAgain(v) ==
  /\ At(v, "simCredit")
  /\ credits' = IF job[v].kind = "success" THEN [credits EXCEPT ![Of(v)] = @ + 1] ELSE credits
  /\ Leave(v)
  /\ UNCHANGED <<stripe, canceled, buys, starts, status, lock, events, goods, simulated, mishaps>>

SimulateCredit(v) ==
  /\ At(v, "simCredit")
  /\ credits' = IF job[v].owes THEN [credits EXCEPT ![Of(v)] = @ + 1] ELSE credits
  /\ Leave(v)
  /\ UNCHANGED <<stripe, canceled, buys, starts, status, lock, events, goods, simulated, mishaps>>

-----------------------------------------------------------------------------

(* A request ends anywhere: its process dies, or an error that it hands on. *)
Die(x) ==
  /\ Faults /\ ~At(x, "idle")
  /\ lock' = Unlock(x)
  /\ Leave(x) /\ Mishap(Of(x), Torn(x))
  /\ UNCHANGED <<stripe, canceled, buys, starts, status, events, goods, credits, simulated>>

WebhookStep(h) ==
  \/ ReadSession(h) \/ SaveSession(h) \/ Credit(h) \/ ConfirmSubscription(h) \/ ConfirmOrder(h)
  \/ Commit(h) \/ MarkProcessed(h) \/ RollBack(h)

VisitStep(v) ==
  \/ BindOrder(v)
  \/ Finalize(v) \/ TrustUser(v) \/ LookAgain(v)
  \/ ReconcileOrders(v) \/ AskStripe(v) \/ ConfirmPaid(v) \/ SettleSession(v) \/ Reconciled(v)
  \/ SimulateOrder(v) \/ SimulateRead(v) \/ SimulateSave(v) \/ SimulateCredit(v)

Step(x) == (x \in Deliveries /\ WebhookStep(x)) \/ (x \in Visits /\ VisitStep(x)) \/ Die(x)

Arrive(v) ==
  \/ CreateSession(v)
  \/ \E o \in Orders : GetOrder(v, o)
  \/ ListSubscriptions(v)
  \/ \E s \in Sessions, success \in BOOLEAN : Simulate(v, s, success)

Next ==
  \/ \E s \in Sessions : UserPays(s) \/ SessionExpires(s) \/ IntentCanceled(s)
  \/ \E h \in Deliveries, e \in Event : Deliver(h, e)
  \/ \E v \in Visits : Arrive(v)
  \/ \E x \in Jobs : Step(x)

Spec == Init /\ [][Next]_vars

(* Stripe sends an event until it is answered with 200, and every webhook   *)
(* call goes on until it ends or dies.  Users need not do anything.         *)
FairSpec ==
  /\ Spec
  /\ WF_vars(\E h \in Deliveries, e \in Event : Deliver(h, e))
  /\ \A h \in Deliveries : WF_vars(Step(h))

-----------------------------------------------------------------------------
(* Properties.                                                              *)

JobType ==
  [at : {"idle", "read", "save", "credit", "confirm", "order", "commit", "mark",
         "bind", "check", "trust", "lookAgain", "list", "ask",
         "confirmPaid", "settle", "simOrder", "simRead", "simSave", "simCredit"},
   kind : Kinds \cup {"none", "page", "last", "list", "success", "failure"},
   session : Sessions \cup {0}, order : Orders \cup {None}, owes : BOOLEAN,
   todo : SUBSET (Orders \X (Sessions \cup {0})), met : SUBSET Orders]

Subscription ==
  [n : Nat, by : {"webhook", "visit", "trust", "simulation"}, session : Sessions, met : BOOLEAN]

(* Types, and whose transaction has which row.                              *)
TypeOK ==
  /\ stripe \in [Sessions -> {"absent", "created", "open", "paid", "over"}]
  /\ canceled \subseteq Sessions
  /\ buys \in [Sessions -> Orders \cup {None}] /\ starts \in [Sessions -> Plans \cup {None}]
  /\ status \in [Sessions -> {"absent", "open", "complete", "expired"}]
  /\ lock \in [Sessions -> Deliveries \cup {None}]
  /\ events \in [Event -> {"absent", "pending", "processed", "failed"}]
  /\ orders \in [Orders -> [status : {"pending", "paid", "cancelled"},
                            session : Sessions \cup {0}]]
  /\ plans \in [Plans -> {"pending", "active", "overdue"}]
  /\ subs \in [Orders -> SUBSET Subscription] /\ \A o \in Orders : IsFiniteSet(subs[o])
  /\ credits \in [Sessions -> Nat]
  /\ job \in [Jobs -> JobType]
  /\ \A s \in Sessions : lock[s] # None =>
       Of(lock[s]) = s /\ job[lock[s]].at \in {"credit", "confirm", "order", "commit"}
  /\ simulated \in [Sessions -> Nat] /\ mishaps \subseteq Sessions

(* A payment is put into the wallet once: however often its event is        *)
(* delivered, and whoever else confirms it.  Twice takes two requests that  *)
(* both found it incomplete, a session that was complete and was turned     *)
(* back, or a webhook that stopped after its credit.                        *)
CreditedOnce == \A s \in Sessions : credits[s] > 1 => s \in mishaps

(* A second subscription for an order is made by the webhook or an admin,   *)
(* who do not look whether there is one, or by a visit during which someone *)
(* else confirmed the order; and the webhook makes one for each session.    *)
OneSubscription ==
  \A o \in Orders : \A x, y \in subs[o] :
    x.n < y.n => \/ y.by \in {"visit", "trust"} /\ y.met
                 \/ y.by = "simulation"
                 \/ y.by = "webhook" /\ ~(x.by = "webhook" /\ x.session = y.session)

(* An order is paid when Stripe has the money for one of its sessions, or   *)
(* an admin said so, or the user asked for the page that comes after the    *)
(* payment.                                                                 *)
PaidWasPaid ==
  \A o \in Orders :
    orders[o].status = "paid" =>
      \/ \E s \in Sessions : buys[s] = o /\ (stripe[s] = "paid" \/ simulated[s] > 0)
      \/ \E b \in subs[o] : b.by = "trust"

(* The amount is in the wallet, or the session is complete without it or    *)
(* was and got turned back; the order has a subscription, the plan is not   *)
(* pending.                                                                 *)
Booked(s) ==
  /\ credits[s] > 0 \/ status[s] = "complete" \/ s \in mishaps
  /\ buys[s] \in Orders => \E b \in subs[buys[s]] : b.session = s
  /\ starts[s] \in Plans => plans[starts[s]] # "pending"

(* A delivery of event e was recorded and failed or died.                   *)
GivenUp(e) ==
  \/ events[e] = "failed"
  \/ events[e] = "pending" /\ \A h \in Deliveries : Told(h) # e

(* What was paid at Stripe is booked in the end, unless a delivery of it    *)
(* failed or died after it had been recorded.                               *)
PaidIsBooked ==
  \A s \in Sessions :
    stripe[s] = "paid" ~> Booked(s) \/ GivenUp([session |-> s, kind |-> "completed"])

-----------------------------------------------------------------------------
(* The inductive invariant of the safety properties.                        *)

WebhookPlaces == {"read", "save", "credit", "confirm", "order", "commit", "mark"}
OrderPlaces == {"check", "trust", "lookAgain", "list"}
SimulationPlaces == {"simOrder", "simRead", "simSave", "simCredit"}
SessionPlaces == {"bind", "check", "trust", "confirmPaid", "settle"} \cup SimulationPlaces

Exists(s) == s \in Sessions /\ stripe[s] # "absent"

(* What webhook call h knows, as job q.                                     *)
WebhookFormed(h, q) ==
  \/ q = Idle
  \/ /\ q.at \in WebhookPlaces /\ q.kind \in Kinds
     /\ Exists(q.session)
     /\ q.kind = "completed" => stripe[q.session] = "paid"
     /\ q.at = "credit" => q.kind = "completed" /\ lock[q.session] = h

(* What a visit knows: its session is of its order, and its todo list has   *)
(* an order once.                                                           *)
VisitFormed(q) ==
  /\ q.at \notin WebhookPlaces
  /\ q.at \in SessionPlaces => Exists(q.session)
  /\ q.at \in OrderPlaces => q.order \in Orders
  /\ q.at \in {"check", "trust"} => buys[q.session] = q.order
  /\ q.at = "confirmPaid" => /\ stripe[q.session] = "paid" /\ buys[q.session] \in Orders
                            /\ \A i \in q.todo : i[1] # buys[q.session]
  /\ q.todo # {} => q.at \in {"ask", "confirmPaid", "settle"}
  /\ \A i, j \in q.todo : i[1] = j[1] => i = j
  /\ \A i \in q.todo : i[2] # 0 => Exists(i[2]) /\ buys[i[2]] = i[1]
  /\ q.at = "simOrder" => simulated[q.session] > 0
  /\ q.owes => q.at \in {"simSave", "simCredit"} /\ q.kind = "success"

FormedInv ==
  /\ \A h \in Deliveries : WebhookFormed(h, job[h])
  /\ \A v \in Visits : VisitFormed(job[v])
  /\ \A s \in Sessions : status[s] = "absent" <=> stripe[s] = "absent"
  /\ \A s \in canceled : Exists(s)
  /\ \A s \in Sessions : simulated[s] > 0 => Exists(s)
  /\ \A o \in Orders : orders[o].session # 0 =>
       Exists(orders[o].session) /\ buys[orders[o].session] = o

(* The orders that job q is about to confirm because it has read them pending. *)
Aims(q) ==
  {i[1] : i \in q.todo} \cup (IF q.at \in {"check", "trust"} THEN {q.order} ELSE {})
                        \cup (IF q.at = "confirmPaid" THEN {buys[q.session]} ELSE {})

(* Subscriptions are numbered; a pending order has none; and a visit has    *)
(* met whoever made one for an order it is about to confirm.                *)
SubsInv ==
  \A o \in Orders :
    /\ \A b \in subs[o] : b.n <= Cardinality(subs[o])
    /\ Pending(o) => subs[o] = {}
    /\ \A v \in Visits : o \in Aims(job[v]) /\ subs[o] # {} => o \in job[v].met

Completed(s) == [session |-> s, kind |-> "completed"]

(* An event has one delivery, and its subscription is made by that one.     *)
EventInv ==
  /\ \A h \in Deliveries : At(h, "idle") \/ events[Told(h)] # "absent"
  /\ \A g, h \in Deliveries : At(g, "idle") \/ At(h, "idle") \/ Told(g) # Told(h) \/ g = h
  /\ \A o \in Orders : \A b \in subs[o] :
       b.by = "webhook" =>
         /\ events[Completed(b.session)] # "absent"
         /\ \A h \in Deliveries : Told(h) = Completed(b.session) => job[h].at \in {"commit", "mark"}

(* Requests that will credit session s or have within their transaction.    *)
Owing(s) == Crediting(s) \cup {x \in Jobs : Of(x) = s /\ job[x].owes /\ At(x, "simCredit")}

(* Without a mishap one request owes the amount of a session, it is in no   *)
(* wallet yet, and when it is the session is complete or about to be.       *)
CreditInv ==
  \A s \in Sessions \ mishaps :
    /\ \A x, y \in Owing(s) : x = y
    /\ \A x \in Owing(s) : job[x].at \in {"save", "credit", "simSave", "simCredit"} => credits[s] = 0
    /\ \A x \in Owing(s) : At(x, "simCredit") => status[s] = "complete"
    /\ credits[s] <= 1
    /\ credits[s] = 1 /\ status[s] # "complete" =>
         \E h \in Deliveries : /\ lock[s] = h /\ job[h].kind = "completed"
                               /\ job[h].at \in {"confirm", "order", "commit"}

PaymentsInv ==
  /\ TypeOK /\ FormedInv /\ PaidWasPaid
  /\ SubsInv /\ EventInv /\ OneSubscription /\ CreditInv
=============================================================================
