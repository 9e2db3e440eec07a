---------------------------- MODULE ConsolePage ----------------------------
(* One mounted page of a console: the user, the browser's callbacks and the *)
(* server.  Handlers run to their first await and continue when the answer  *)
(* arrives; in between the user goes on and other answers arrive, in any    *)
(* order.  Which page it is, is the choice of Init.                         *)
EXTENDS ConsoleKit

CONSTANTS Catalogue,     \* the page records, each with its name
          MaxEvents,     \* page name -> user events (filters, clicks, openings) explored
          MaxFailures,   \* calls the server refuses
          MaxBoth,       \* page name -> events and refusals together
          \* Where the code falls short of a property below:
          LeftStale,     \* <<page, act, load>>: the panel may miss what the act did
          Pretends,      \* <<page, act, load>>: the panel shows a refused act as done
          Overtaken,     \* <<page, load>>: an answer to old filters may stay
          MixesRows,     \* <<page, load>>: a dialog may show another row's data
          Doubled        \* <<page, act>>: may be sent again before it is answered

(* The parts of a page's record fit together.                               *)
WellFormed(P) ==
  LET parts(name) == {p \in P.parts : p.on = name}
      dialog(name) == \E p \in parts(name) : p.kind = "dialog"
  IN
  /\ DOMAIN P.loads \cap DOMAIN P.acts = {} /\ Blank \notin DOMAIN P.acts
  /\ parts("page") # {} /\ ~dialog("page") /\ parts(Blank) = {}
  /\ \A p \in P.parts : p.shows \cup p.brings \subseteq DOMAIN P.loads
  /\ \A l \in DOMAIN P.loads :
        LET load == P.loads[l] IN
        /\ load.next \subseteq DOMAIN P.loads
        /\ "remount" \in load.by => "mount" \in load.by
        /\ load.opens = Blank \/ parts(load.opens) # {}
  /\ \A a \in DOMAIN P.acts :
        LET act == P.acts[a] IN
        /\ act.then \cup act.after \cup act.patch \subseteq DOMAIN P.loads
        /\ act.after # {} => act.then # {} /\ \A l \in DOMAIN P.loads : ~P.loads[l].latest
        /\ act.steps \in Seq(SUBSET STRING) /\ act.goes \in BOOLEAN
        /\ act.together => ~act.blind
        /\ act.opens = Blank \/ parts(act.opens) # {}
        /\ \A name \in {act.leaves, act.closes} : name = Blank \/ dialog(name)

ASSUME PagesAssumption ==
  \A P \in Catalogue : WellFormed(P) /\ MaxEvents[P.name] \in Nat

ASSUME FailuresAssumption == MaxFailures \in Nat

(* A handler that does not learn of a refusal changes panels in place only  *)
(* where Pretends says so.                                                  *)
ASSUME PretendsAssumption ==
  \A P \in Catalogue : \A a \in DOMAIN P.acts : P.acts[a].blind =>
    \A l \in P.acts[a].patch : <<P.name, a, l>> \in Pretends

(* A busy flag that keeps its acts from being sent twice: it does not live  *)
(* in a dialog, no load raises and lowers it too, every control that sends  *)
(* one of its acts is disabled or covered by it, no act of it sends several *)
(* calls at once (the first refusal lowers the flag while the others are    *)
(* under way), and a handler that waits for loads waits for one at a time.  *)
One(ls) == \A l, k \in ls : l = k

Guards(P, f) ==
  /\ \A l \in DOMAIN P.loads : P.loads[l].flag # f /\ (P.loads[l].waits => One(P.loads[l].next))
  /\ \A p \in P.parts : f \notin p.own
  /\ \A p \in P.parts : \A a \in DOMAIN P.acts \cap DOMAIN p.offers :
        P.acts[a].flag = f => f \in p.hides \cup p.offers[a]
  /\ \A a \in DOMAIN P.acts : P.acts[a].flag = f => ~P.acts[a].together
  /\ \A a \in DOMAIN P.acts : P.acts[a].flag = f /\ P.acts[a].waits =>
        LET act == P.acts[a] IN
        /\ One(act.then) /\ One(act.after) /\ act.opens = Blank
        /\ act.after # {} => \A l \in act.then : P.loads[l].next = {}

ASSUME DoubledAssumption ==
  \A P \in Catalogue : \A a \in DOMAIN P.acts :
    P.acts[a].flag = Blank \/ Guards(P, P.acts[a].flag) \/ <<P.name, a>> \in Doubled

VARIABLES
  page,       \* the page's record, with its name
  query,      \* version of its filters, page number and tab
  surfaces,   \* the page or tab and the dialogs over it, numbered as they opened
  opened,     \* how many tabs and dialogs were opened
  asking,     \* the act behind the uiConfirm box, or Blank
  flags,      \* raised busy flags
  requests,   \* calls not yet answered
  sent,       \* load -> how often it was sent
  shown,      \* load -> the answer its panel shows
  log,        \* writes the server carried out: [act, of]
  gone,       \* the user was taken to another page
  events, failures

vars == <<page, query, surfaces, opened, asking, flags, requests, sent, shown, log,
          gone, events, failures>>
user == <<query, surfaces, opened, asking, events>>

L == page.loads
A == page.acts

Flag(f) == {f} \ {Blank}

(* The version of its inputs a load depends on: the filters, the dialog, or *)
(* the row picked, which changes with every call.                           *)
Key(l, q, d, n) == IF "query" \in L[l].by THEN q
                   ELSE IF {"open", "dialog"} \cap L[l].by # {} THEN d
                   ELSE IF "ask" \in L[l].by THEN n ELSE 0

(* What the handler that waits for a load does when it is over: flags to    *)
(* lower and further loads to send.                                         *)
Nothing == [lowers |-> {}, sends |-> {}]

Call(l, q, d, owed) ==
  [what |-> l, n |-> sent[l] + 1, key |-> Key(l, q, d, sent[l] + 1), q |-> q, d |-> d,
   from |-> Len(log), owed |-> owed]

(* Flags that live in a dialog end with it, and while a spinner replaces it.*)
Own(stack) == UNION {p.own : p \in {q \in page.parts : \E e \in stack : e.on = q.on}}
Remounted(raised) ==
  UNION {p.own : p \in {q \in page.parts : q.hides \cap raised # {}}}
Unmounted == Own(surfaces) \ Own(surfaces')

(* Mutant of Send: the loads are not counted, so that no answer is the last.*)
SendUncounted(ls, q, d, kept, lowered, owed) ==
  /\ requests' = kept \cup {Call(l, q, d, owed) : l \in ls}
  /\ UNCHANGED sent
  /\ flags' = (flags \ lowered) \cup UNION {Flag(L[l].flag) : l \in ls}

(* The loads ls are called with filters q from dialog d; the caller goes on *)
(* with what is owed when they are over.                                    *)
Send(ls, q, d, kept, lowered, owed) ==
  /\ requests' = kept \cup {Call(l, q, d, owed) : l \in ls}
  /\ sent' = [l \in DOMAIN L |-> IF l \in ls THEN sent[l] + 1 ELSE sent[l]]
  /\ LET raised == UNION {Flag(L[l].flag) : l \in ls}
     IN flags' = ((flags \ lowered) \cup raised) \ (Remounted(raised) \cup Unmounted)

(* Mutant of Emptied: the old rows stay while their load runs.              *)
EmptiedLater(ls) == [l \in DOMAIN L |-> shown[l]]

(* Panels emptied when their load starts.                                   *)
Emptied(ls) ==
  [l \in DOMAIN L |-> IF l \in ls /\ L[l].resets
                      THEN [shown[l] EXCEPT !.ok = FALSE] ELSE shown[l]]

By(cause) == {l \in DOMAIN L : cause \in L[l].by}

(* The n-th calls, by the effects that run when the page comes up.          *)
Mounted(cause, n) ==
  {[what |-> l, n |-> n, key |-> 0, q |-> 0, d |-> 0, from |-> 0, owed |-> Nothing] :
     l \in By(cause)}

Init ==
  /\ page \in Catalogue
  /\ query = 0 /\ surfaces = {[on |-> "page", n |-> 0]} /\ opened = 0 /\ asking = Blank
  /\ requests = Mounted("mount", 1) \cup Mounted("remount", 2)
  /\ flags = UNION {Flag(L[l].flag) : l \in By("mount")}
  /\ sent = [l \in DOMAIN L |-> IF "remount" \in L[l].by THEN 2
                                ELSE IF "mount" \in L[l].by THEN 1 ELSE 0]
  /\ shown = [l \in DOMAIN L |-> [n |-> 0, key |-> 0, has |-> {}, believes |-> {},
                                  ok |-> FALSE, failed |-> FALSE, late |-> FALSE]]
  /\ log = <<>> /\ gone = FALSE /\ events = 0 /\ failures = 0

-----------------------------------------------------------------------------
(* What the user sees and can use.                                          *)

Top == CHOOSE e \in surfaces : \A d \in surfaces : d.n <= e.n

PartsOn(name) == {p \in page.parts : p.on = name}

Visible == {p \in PartsOn(Top.on) : p.hides \cap flags = {}}

(* Mutant of Enabled: the controls stay enabled while a call runs.          *)
EnabledBusy(c) == ~gone /\ asking = Blank /\ \E p \in Visible : c \in DOMAIN p.offers

Enabled(c) ==
  /\ ~gone /\ asking = Blank
  /\ \E p \in Visible : c \in DOMAIN p.offers /\ p.offers[c] \cap flags = {}

Spare == events + failures < MaxBoth[page.name]

Event == events < MaxEvents[page.name] /\ Spare /\ events' = events + 1

Refusal == failures < MaxFailures /\ Spare /\ failures' = failures + 1

(* Another filter, page number or tab: the effects that depend on it run.   *)
ChangeQuery ==
  /\ Enabled("query") /\ query = 0 /\ Event
  /\ query' = 1
  /\ UNCHANGED <<surfaces, opened>>
  /\ Send(By("query"), 1, Top.n, requests, {}, Nothing)
  /\ shown' = Emptied(By("query"))
  /\ UNCHANGED <<page, asking, log, gone, failures>>

(* A refresh button or a load on request.                                   *)
Refresh(l) ==
  /\ Enabled(l) /\ Event
  /\ UNCHANGED <<query, surfaces, opened>>
  /\ Send({l}, query, Top.n, requests, {}, Nothing)
  /\ shown' = Emptied({l})
  /\ UNCHANGED <<page, asking, log, gone, failures>>

(* A dialog is laid over the present surface; a tab replaces all of them.   *)
Over(name, stack) ==
  LET entry == [on |-> name, n |-> opened + 1]
  IN IF \E p \in PartsOn(name) : p.kind = "dialog" THEN stack \cup {entry} ELSE {entry}

Brought(name) == UNION {p.brings : p \in PartsOn(name)}

Open(name) ==
  /\ Enabled(name) /\ Event
  /\ surfaces' = Over(name, surfaces) /\ opened' = opened + 1
  /\ UNCHANGED query
  /\ Send(Brought(name), query, opened', requests, {}, Nothing)
  /\ shown' = Emptied(Brought(name))
  /\ UNCHANGED <<page, asking, log, gone, failures>>

Close ==
  /\ asking = Blank /\ ~gone
  /\ \E p \in Visible : p.kind = "dialog"
  /\ \A p \in PartsOn(Top.on) : p.held \cap flags = {}
  /\ surfaces' = surfaces \ {Top}
  /\ flags' = flags \ Unmounted
  /\ UNCHANGED <<page, query, opened, asking, requests, sent, shown, log,
                 gone, events, failures>>

Without(name) == {e \in surfaces : e.on # name}

(* An act's calls leave the browser, with the filters and the dialog of the *)
(* render whose handler runs.  One request stands for the handler: for what *)
(* its calls did, for those left, and (ended) for those it gave up.         *)
SendAct(a) ==
  /\ requests' = requests \cup
       {[what |-> a, n |-> events', q |-> query, d |-> Top.n,
         did |-> {}, left |-> DOMAIN A[a].steps, ended |-> FALSE]}
  /\ flags' = (flags \cup Flag(A[a].flag)) \ Unmounted

Submit(a) ==
  /\ Enabled(a) /\ Event
  /\ surfaces' = Without(A[a].leaves)
  /\ IF A[a].asks
     THEN asking' = a /\ flags' = flags \ Unmounted /\ UNCHANGED requests
     ELSE SendAct(a) /\ UNCHANGED asking
  /\ UNCHANGED <<page, query, opened, sent, shown, log, gone, failures>>

Confirm(yes) ==
  /\ asking # Blank /\ ~gone
  /\ asking' = Blank
  /\ UNCHANGED <<events, surfaces>>
  /\ IF yes THEN SendAct(asking) ELSE UNCHANGED <<flags, requests>>
  /\ UNCHANGED <<page, query, opened, sent, shown, log, gone, failures>>

-----------------------------------------------------------------------------
(* The server and the answers.                                              *)

(* The calls of an act that may be answered: the next, or any of those sent *)
(* together.                                                                *)
Ready(r) ==
  IF A[r.what].together THEN r.left ELSE {k \in r.left : \A j \in r.left : k <= j}

(* A call of an act is carried out.                                         *)
Serve(r) ==
  /\ r.what \in DOMAIN A
  /\ \E k \in Ready(r) :
       /\ log' = Append(log, [act |-> r.what, of |-> A[r.what].steps[k]])
       /\ requests' = (requests \ {r}) \cup
            {[r EXCEPT !.did = @ \cup {Len(log) + 1}, !.left = @ \ {k}]}
  /\ UNCHANGED <<page, user, flags, sent, shown, gone, failures>>

(* The flag an act's answer lowers: one of a dialog that is gone is no more. *)
Lowered(r, outcome) ==
  LET a == A[r.what] IN
    IF outcome \in a.lowers /\ (a.flag \in Own(surfaces) =>
                                   \E e \in surfaces : e.n = r.d)
    THEN Flag(a.flag) ELSE {}

(* The handler goes on to its end.  The loads it sends again run even when  *)
(* the dialog it was sent from has been closed since; a dialog that follows *)
(* it opens only in its place.  Panels it changes in place take over what   *)
(* was done, or (refused) what was not.                                     *)
Conclude(r, refused) ==
  LET a == A[r.what]
      left == Without(a.closes)
      follows == a.opens # Blank /\ (a.closes = Blank \/ left # surfaces)
      waiting == IF a.waits /\ a.then # {} THEN Lowered(r, "done") ELSE {}
  IN
  /\ gone' = (gone \/ a.goes)
  /\ surfaces' = IF follows THEN Over(a.opens, left) ELSE left
  /\ opened' = IF follows THEN opened + 1 ELSE opened
  /\ UNCHANGED query
  /\ IF gone' THEN requests' = requests \ {r} /\ UNCHANGED <<sent, flags>>
     ELSE Send(a.then \cup (IF follows THEN Brought(a.opens) ELSE {}),
               IF a.captures THEN r.q ELSE query,
               IF follows THEN opened' ELSE r.d,
               requests \ {r},
               Lowered(r, "done") \ waiting,
               [lowers |-> waiting, sends |-> a.after])
  /\ shown' = [l \in DOMAIN L |->
                 IF l \in a.patch /\ shown[l].ok
                 THEN [shown[l] EXCEPT !.has = @ \cup r.did, !.believes = @ \cup refused]
                 ELSE shown[l]]

(* Mutant of ActDone: the handler goes on only while its dialog is on top.  *)
ActDoneIfThere(r) ==
  /\ r.what \in DOMAIN A /\ r.left = {}
  /\ IF r.d = Top.n THEN Conclude(r, {})
     ELSE /\ requests' = requests \ {r} /\ flags' = flags \ Lowered(r, "done")
          /\ UNCHANGED <<query, surfaces, opened, sent, shown, gone>>
  /\ UNCHANGED <<page, asking, log, events, failures>>

(* All calls of the act succeeded.  When the handler has ended before them  *)
(* nothing follows.                                                         *)
ActDone(r) ==
  /\ r.what \in DOMAIN A /\ r.left = {}
  /\ IF r.ended
     THEN requests' = requests \ {r} /\ UNCHANGED <<user, flags, sent, shown, gone>>
     ELSE Conclude(r, {}) /\ UNCHANGED <<asking, events>>
  /\ UNCHANGED <<page, log, failures>>

(* Mutant of ActRefused: the handler goes on as if it had been done.        *)
ActRefusedUnseen(r) ==
  /\ r.what \in DOMAIN A /\ r.left # {}
  /\ Refusal /\ Conclude(r, {r.what})
  /\ UNCHANGED <<page, asking, events, log>>

(* What stays under way when call k is refused: the calls after it are not  *)
(* sent, those sent with it go on without the handler.                      *)
Remaining(r, k) ==
  IF A[r.what].together THEN {[r EXCEPT !.left = @ \ {k}, !.ended = TRUE]} ELSE {}

(* A call of the act is refused: the rest of the handler's try block is     *)
(* skipped, what its other calls did stays done.  A handler that is blind   *)
(* goes on as if it had been done.                                          *)
ActRefused(r) ==
  /\ r.what \in DOMAIN A
  /\ Refusal
  /\ IF A[r.what].blind THEN r.left # {} /\ Conclude(r, {r.what})
     ELSE /\ \E k \in Ready(r) : requests' = (requests \ {r}) \cup Remaining(r, k)
          /\ flags' = IF gone \/ r.ended THEN flags ELSE flags \ Lowered(r, "refused")
          /\ UNCHANGED <<query, surfaces, opened, sent, shown, gone>>
  /\ UNCHANGED <<page, asking, events, log>>

(* The answer is for the present filters or dialog.                         *)
Due(r) == r.key = Key(r.what, query, Top.n, sent[r.what])

(* Mutant of Dropped: no load minds.                                        *)
DroppedIfGone(r) == gone

(* An answer that is not, if the load minds, or that comes after the page   *)
(* was left, changes nothing.                                               *)
Dropped(r) == gone \/ (L[r.what].latest /\ ~Due(r))

(* Mutant of Continue: what waits for the load is not told of its end.      *)
ContinueAlone(r, ls) ==
  Send(ls, r.q, r.d, requests \ {r}, {L[r.what].flag}, Nothing)

(* What follows a load: the loads it sends itself, and when it does not     *)
(* wait for those, what the handler that called it does next.               *)
Continue(r, ls) ==
  LET l == L[r.what] IN
    IF l.waits /\ ls # {}
    THEN Send(ls, r.q, r.d, requests \ {r}, {}, [r.owed EXCEPT !.lowers = @ \cup Flag(l.flag)])
    ELSE IF r.owed.sends # {}
    THEN Send(ls \cup r.owed.sends, r.q, r.d, requests \ {r}, {l.flag},
              [r.owed EXCEPT !.sends = {}])
    ELSE Send(ls, r.q, r.d, requests \ {r}, {l.flag} \cup r.owed.lowers, Nothing)

(* The dialog that waited for the answer opens, unless it is there already. *)
Opens(name) ==
  IF name = Blank \/ name = Top.on THEN UNCHANGED <<surfaces, opened>>
  ELSE surfaces' = Over(name, surfaces) /\ opened' = opened + 1

(* A load's answer is the server's data at some moment since it was sent.   *)
LoadDone(r) ==
  /\ r.what \in DOMAIN L
  /\ UNCHANGED <<page, query, asking, events, log, gone, failures>>
  /\ LET l == L[r.what] IN
     IF Dropped(r)
     THEN requests' = requests \ {r} /\ UNCHANGED <<flags, sent, shown, surfaces, opened>>
     ELSE /\ \E seen \in r.from..Len(log) :
               shown' = [shown EXCEPT ![r.what] =
                           [n |-> r.n, key |-> r.key, has |-> 1..seen, believes |-> {},
                            ok |-> TRUE, failed |-> FALSE, late |-> ~Due(r)]]
          /\ Opens(l.opens)
          /\ Continue(r, l.next)

LoadFailed(r) ==
  /\ r.what \in DOMAIN L
  /\ Refusal
  /\ UNCHANGED <<page, query, asking, events, log, gone>>
  /\ LET l == L[r.what] IN
     IF Dropped(r)
     THEN requests' = requests \ {r} /\ UNCHANGED <<flags, sent, shown, surfaces, opened>>
     ELSE /\ shown' = [shown EXCEPT ![r.what].n = r.n,
                                    ![r.what].failed = TRUE,
                                    ![r.what].ok = @ /\ l.fails = "keep"]
          /\ Opens(IF l.always THEN l.opens ELSE Blank)
          /\ Continue(r, IF l.always THEN l.next ELSE {})

UserStep ==
  \/ ChangeQuery
  \/ Close
  \/ \E l \in DOMAIN L : Refresh(l)
  \/ \E name \in {p.on : p \in page.parts} : Open(name)
  \/ \E a \in DOMAIN A : Submit(a)
  \/ \E yes \in BOOLEAN : Confirm(yes)

Answer ==
  \E r \in requests : Serve(r) \/ ActDone(r) \/ ActRefused(r) \/ LoadDone(r) \/ LoadFailed(r)

Next == UserStep \/ Answer

Spec == Init /\ [][Next]_vars

(* Every call is answered, if only by the timeout of shared/api/client.ts,  *)
(* and the browser runs what waits for the answer.  The user need do        *)
(* nothing, not even answer a uiConfirm box.                                *)
FairSpec == Spec /\ WF_vars(Answer)

-----------------------------------------------------------------------------
(* Properties.                                                              *)

FlagNames == {L[l].flag : l \in DOMAIN L} \cup {A[a].flag : a \in DOMAIN A}

LoadCalls == [what : DOMAIN L, n : Nat, key : Nat, q : 0..query, d : 0..opened,
              from : 0..Len(log), owed : [lowers : SUBSET FlagNames, sends : SUBSET DOMAIN L]]

ActCalls ==
  {c \in [what : DOMAIN A, n : Nat, q : 0..query, d : 0..opened,
          did : SUBSET (1..Len(log)), left : SUBSET Nat, ended : BOOLEAN] :
     c.left \subseteq DOMAIN A[c.what].steps}

PanelStates == [n : Nat, key : Nat, has : SUBSET (1..Len(log)), believes : SUBSET DOMAIN A,
                ok : BOOLEAN, failed : BOOLEAN, late : BOOLEAN]

TypeOK ==
  /\ page \in Catalogue /\ query \in 0..1 /\ opened \in Nat /\ gone \in BOOLEAN
  /\ surfaces # {} /\ surfaces \subseteq [on : {p.on : p \in page.parts}, n : 0..opened]
  /\ asking \in DOMAIN A \cup {Blank}
  /\ flags \subseteq FlagNames \ {Blank}
  /\ requests \subseteq LoadCalls \cup ActCalls
  /\ sent \in [DOMAIN L -> Nat]
  /\ \A r \in requests : r.what \in DOMAIN L => r.n <= sent[r.what]
  /\ shown \in [DOMAIN L -> PanelStates]
  /\ \A l \in DOMAIN L : shown[l].n <= sent[l]
  /\ log \in Seq([act : DOMAIN A, of : SUBSET STRING])
  /\ events \in 0..MaxEvents[page.name] /\ failures \in 0..MaxFailures

AtRest == requests = {} /\ asking = Blank /\ ~gone

Panels == UNION {p.shows : p \in Visible}

(* The panel shows rows and no failed call has been over it since.          *)
Filled(l) == shown[l].ok /\ ~shown[l].failed

(* The rows are the answer to the last call, or the load keeps answers that *)
(* are out of date away by itself.                                          *)
Settled(l) == Filled(l) /\ (shown[l].n = sent[l] \/ L[l].latest)

Current(l) == shown[l].key = Key(l, query, Top.n, sent[l])

Unseen(l) == {i \in 1..Len(log) : log[i].of \cap L[l].reads # {}} \ shown[l].has

(* When all is quiet the rows of a panel are those of the filters, page and *)
(* dialog on the screen: no answer that overtook a later one has put rows   *)
(* of before back.  Most pages do not order their answers; those safe are   *)
(* safe because a spinner covers the filters or the load drops old answers. *)
ShowsItsQuery ==
  AtRest => \A l \in Panels : Filled(l) /\ ~Current(l) => <<page.name, l>> \in Overtaken

(* When all is quiet a panel shows everything the user's own acts changed,  *)
(* also what the first calls of a handler did whose later call was refused: *)
(* every handler reloads, or changes in place, each panel that reads what   *)
(* it writes.                                                               *)
SeesOwnWrites ==
  AtRest => \A l \in Panels : Settled(l) =>
              \A i \in Unseen(l) : <<page.name, log[i].act, l>> \in LeftStale

(* No panel shows as done what the server refused.                          *)
ShowsOnlyDone ==
  \A l \in Panels : \A a \in shown[l].believes : <<page.name, a, l>> \in Pretends

(* A spinner covers or a flag disables something of what is on top.         *)
Blocked ==
  ~gone /\ \E p \in PartsOn(Top.on) :
            (p.hides \cup UNION {p.offers[c] : c \in DOMAIN p.offers}) \cap flags # {}

(* A dialog about a row does not show what another row's dialog fetched:    *)
(* while its own rows are on their way a spinner is in their place, or the  *)
(* old ones are gone.  Answers that come when their own dialog is no longer *)
(* on top are the matter of ShowsItsQuery.                                  *)
ShowsItsOwnRow ==
  (\E p \in PartsOn(Top.on) : p.kind = "dialog") =>
    \A l \in Panels : /\ {"open", "ask"} \cap L[l].by # {}
                      /\ shown[l].ok /\ ~shown[l].late /\ ~Current(l)
                     => <<page.name, l>> \in MixesRows

(* An act with a busy flag is not sent again before it is answered, though  *)
(* flags are shared among handlers, live in dialogs that are closed and are *)
(* lowered by answers to other calls.                                       *)
OneAtATime ==
  \A a \in DOMAIN A : A[a].flag # Blank /\ <<page.name, a>> \notin Doubled =>
     Cardinality({r \in requests : r.what = a}) <= 1

(* Whatever the user does meanwhile, what is covered or disabled becomes    *)
(* usable again: handlers that call each other in turn raise and lower the  *)
(* same flags, but they come to an end.                                     *)
BecomesUsable == Blocked ~> ~Blocked

-----------------------------------------------------------------------------
(* Why they hold.                                                           *)

(* Under the dialogs there is a surface no Close takes away.                *)
Base(stack) == \E e \in stack : \A p \in PartsOn(e.on) : p.kind # "dialog"

IInv == TypeOK /\ Base(surfaces)

(* What the panels take for done is what Pretends lists.                    *)
Believed == \A l \in DOMAIN L : \A a \in shown[l].believes : <<page.name, a, l>> \in Pretends

(* The calls that end with the flag lowered.                                *)
IsAct(r, f) == r.what \in DOMAIN A /\ A[r.what].flag = f
Holds(r, f) == IsAct(r, f) \/ (r.what \in DOMAIN L /\ f \in r.owed.lowers)

(* There is one at most, while it runs the flag is up, and a uiConfirm box  *)
(* for one of the flag's acts is only over the page when there is none.     *)
Held(f) ==
  /\ \A r, s \in requests : Holds(r, f) /\ Holds(s, f) => r = s
  /\ \A r \in requests : Holds(r, f) => f \in flags
  /\ asking # Blank /\ A[asking].flag = f => \A r \in requests : ~Holds(r, f)
  /\ \A r \in requests : r.what \in DOMAIN L /\ f \in r.owed.lowers =>
        One(r.owed.sends) /\ (r.owed.sends # {} => L[r.what].next = {})

HeldInv == \A f \in FlagNames \ {Blank} : Guards(page, f) => Held(f)

(* The handler of a fetches l again after the last of its calls, the only   *)
(* one that writes what l reads, or it leaves the page.                     *)
Reloads(P, a, l) ==
  LET act == P.acts[a] IN
  /\ act.goes \/ l \in act.then \cup act.after
  /\ \A k \in 1..Len(act.steps) : k < Len(act.steps) => act.steps[k] \cap P.loads[l].reads = {}
  /\ ~P.loads[l].latest /\ ~act.together

Touches(P, a, l) ==
  \E k \in 1..Len(P.acts[a].steps) : P.acts[a].steps[k] \cap P.loads[l].reads # {}

(* A page whose handlers fetch every panel they write, with the exceptions. *)
Diligent(P) ==
  \A a \in DOMAIN P.acts : \A l \in UNION {p.shows : p \in P.parts} :
    Touches(P, a, l) => Reloads(P, a, l) \/ <<P.name, a, l>> \in LeftStale

(* What an act has done so far are its calls that are not left, its first   *)
(* ones unless they are sent together, and nothing else is ever done.       *)
Step(a, k) == [act |-> a, of |-> A[a].steps[k]]

DoneInv ==
  /\ \A r \in requests : r.what \in DOMAIN A =>
       /\ \A i \in r.did : \E k \in DOMAIN A[r.what].steps \ r.left : log[i] = Step(r.what, k)
       /\ A[r.what].together \/ (~r.ended /\ \A j \in r.left : \A k \in DOMAIN A[r.what].steps :
                                              j <= k => k \in r.left)
  /\ \A i \in 1..Len(log) : \E k \in 1..Len(A[log[i].act].steps) : log[i] = Step(log[i].act, k)

(* Loads are owed only on a page with an act that fetches in two rounds.    *)
Deferred ==
  \A r \in requests : r.what \in DOMAIN L /\ r.owed.sends # {} => \E a \in DOMAIN A : A[a].after # {}

(* A write is still to be fetched, or the last call of the load saw it.     *)
Owing(r, i, l) == \/ r.what \in DOMAIN A /\ i \in r.did
                  \/ r.what \in DOMAIN L /\ l \in r.owed.sends

Owed(i, l) == \E r \in requests : Owing(r, i, l)

Fetched(i, l) ==
  /\ \A r \in requests : r.what = l /\ r.n = sent[l] => i <= r.from
  /\ shown[l].n = sent[l] /\ Filled(l) => i \in shown[l].has

(* A write of an act that fetches l again for it.                           *)
Awaited(i, l) == Reloads(page, log[i].act, l) /\ log[i].of \cap L[l].reads # {}

FetchInv ==
  \A l \in DOMAIN L : \A i \in 1..Len(log) :
    Awaited(i, l) => gone \/ Owed(i, l) \/ Fetched(i, l)

Dialogs(P) == {p.on : p \in {q \in P.parts : q.kind = "dialog"}}

(* Nothing opens the dialog but a click, and what opens over it closes it.  *)
ClicksOnly(P, dialog) ==
  /\ \A a \in DOMAIN P.acts : \/ P.acts[a].opens = Blank
                              \/ P.acts[a].closes = dialog /\ P.acts[a].opens # dialog
  /\ \A l \in DOMAIN P.loads : P.loads[l].opens = Blank
  /\ \A p \in P.parts : p.on = dialog => DOMAIN p.offers \cap {q.on : q \in P.parts} = {}

(* A flag hides l in the dialog until an answer to l lowers it, and a call  *)
(* of l that fails leaves no rows.                                          *)
HidesUntil(P, dialog, l) ==
  LET f == P.loads[l].flag IN
  /\ f # Blank /\ ~P.loads[l].waits /\ P.loads[l].fails # "keep"
  /\ \A k \in DOMAIN P.loads : P.loads[k].flag = f => k = l
  /\ \A a \in DOMAIN P.acts : P.acts[a].flag # f
  /\ \A p \in P.parts : f \notin p.own /\ (p.on = dialog /\ l \in p.shows => f \in p.hides)

(* Opening the dialog fetches l for it.                                     *)
Fetches(P, dialog, l) ==
  /\ ClicksOnly(P, dialog)
  /\ \E p \in P.parts : p.on = dialog /\ l \in p.brings
  /\ "query" \notin P.loads[l].by /\ {"open", "dialog"} \cap P.loads[l].by # {}

(* What was there of another row is gone or hidden.                         *)
OpensBare(P, dialog, l) ==
  /\ Fetches(P, dialog, l)
  /\ P.loads[l].resets \/ HidesUntil(P, dialog, l)

(* The answer for its row opens the dialog, from which l is not sent.       *)
OpensWithRow(P, dialog, l) ==
  /\ P.loads[l].by = {"ask"} /\ P.loads[l].opens = dialog /\ ~P.loads[l].always
  /\ \A k \in DOMAIN P.loads : l \notin P.loads[k].next /\ (P.loads[k].opens = dialog => k = l)
  /\ \A a \in DOMAIN P.acts : /\ P.acts[a].opens # dialog /\ P.acts[a].after = {}
                              /\ l \notin P.acts[a].then
  /\ \A p \in P.parts : /\ dialog \notin DOMAIN p.offers /\ l \notin p.brings
                        /\ l \in DOMAIN p.offers => p.on \notin Dialogs(P)

(* A page whose dialogs about rows come up in one of these ways, with the   *)
(* exceptions.                                                              *)
RowsApart(P) ==
  \A p \in P.parts : \A l \in p.shows :
    p.on \in Dialogs(P) /\ {"open", "ask"} \cap P.loads[l].by # {} =>
      OpensBare(P, p.on, l) \/ OpensWithRow(P, p.on, l) \/ <<P.name, l>> \in MixesRows

(* Surfaces have numbers of their own, and all but the lowest are dialogs.  *)
Stacked ==
  \A e, d \in surfaces : e # d => e.n # d.n /\ (e.n < d.n => d.on \in Dialogs(page))

(* Rows that are not late are those of the dialog that shows them, gone or  *)
(* hidden.                                                                  *)
Rows(l) == shown[l].ok /\ ~shown[l].late

BareInv ==
  \A dialog \in Dialogs(page) : \A l \in DOMAIN L : OpensBare(page, dialog, l) =>
    /\ \A e \in surfaces : e.on = dialog => e = Top
    /\ Rows(l) /\ Top.on = dialog =>
          shown[l].key = Top.n \/ (~L[l].resets /\ L[l].flag \in flags)
    /\ L[l].resets \/ \A r \in requests : r.what \in DOMAIN L => L[l].flag \notin r.owed.lowers

RowInv ==
  \A dialog \in Dialogs(page) : \A l \in DOMAIN L :
    OpensWithRow(page, dialog, l) /\ Rows(l) /\ (\E e \in surfaces : e.on = dialog) =>
      shown[l].key = sent[l]

(* The loads of a flag are sent one after the other, with the filters on    *)
(* the screen: while it is down, or by one of them that is over.            *)
OneByOne(P, f) ==
  LET loads == {l \in DOMAIN P.loads : P.loads[l].flag = f}
      filtered == {l \in loads : "query" \in P.loads[l].by}
  IN
  /\ f # Blank /\ One(filtered) /\ One({l \in loads : "mount" \in P.loads[l].by})
  /\ \A l \in loads : /\ ~P.loads[l].waits /\ "remount" \notin P.loads[l].by
                       /\ One(P.loads[l].next \cap loads)
  /\ \A l \in DOMAIN P.loads \ loads : P.loads[l].next \cap loads = {}
  /\ \A a \in DOMAIN P.acts : /\ P.acts[a].flag # f /\ P.acts[a].after = {}
                              /\ P.acts[a].then \cap loads = {}
  /\ \A p \in P.parts :
       /\ f \notin p.own /\ p.brings \cap loads = {}
       /\ \A c \in DOMAIN p.offers :
            c \in loads \/ (c = "query" /\ filtered # {}) => f \in p.hides \cup p.offers[c]

(* Why a part's panel shows the rows of what is on the screen: there is     *)
(* nothing they depend on, calls do not overlap, or old answers are dropped.*)
Keyless(P, l) == {"query", "open", "dialog", "ask"} \cap P.loads[l].by = {}

Lasting(P, l) == "query" \in P.loads[l].by \/ P.loads[l].by = {"ask"}

Ordered(P, p, l) ==
  \/ Keyless(P, l)
  \/ Lasting(P, l) /\ OneByOne(P, P.loads[l].flag)
  \/ p.on \in Dialogs(P) /\ Fetches(P, p.on, l) /\ P.loads[l].latest

(* A page on which that is so, with the exceptions.                         *)
InOrder(P) ==
  \A p \in P.parts : \A l \in p.shows : Ordered(P, p, l) \/ <<P.name, l>> \in Overtaken

KeylessInv ==
  \A l \in DOMAIN L : Keyless(page, l) =>
    shown[l].key = 0 /\ \A r \in requests : r.what = l => r.key = 0

Chained(r, f) == r.what \in DOMAIN L /\ L[r.what].flag = f

(* At most one call of the flag's loads runs, for what is on the screen;    *)
(* while it does the flag is up, and rows of before are replaced.           *)
Line(f) ==
  /\ \A r, s \in requests : Chained(r, f) /\ Chained(s, f) => r = s
  /\ \A r \in requests : Chained(r, f) =>
       f \in flags /\ ((\E l \in By("query") : L[l].flag = f) => r.q = query)
  /\ \A r \in requests : r.what \in DOMAIN L => f \notin r.owed.lowers
  /\ \A l \in DOMAIN L : L[l].flag = f /\ Lasting(page, l) =>
       /\ \A r \in requests : r.what = l => r.key = Key(l, query, Top.n, sent[l])
       /\ Filled(l) => Current(l) \/ \E r \in requests : r.what = l

LineInv == \A f \in FlagNames : OneByOne(page, f) /\ ~gone => Line(f)

(* Rows of before in a dialog that drops old answers are replaced.          *)
DropInv ==
  \A dialog \in Dialogs(page) : \A l \in DOMAIN L :
    Fetches(page, dialog, l) /\ L[l].latest /\ ~gone =>
      /\ \A e \in surfaces : e.on = dialog => e = Top
      /\ Top.on = dialog /\ Filled(l) =>
           Current(l) \/ \E r \in requests : r.what = l /\ r.key = Key(l, query, Top.n, sent[l])
=============================================================================
