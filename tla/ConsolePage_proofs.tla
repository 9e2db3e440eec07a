------------------------ MODULE ConsolePage_proofs ------------------------
(* What holds of every page of every catalogue, however many events there  *)
(* are.                                                                     *)
EXTENDS ConsolePage, TLAPS, FiniteSetTheorems, WellFoundedInduction

-----------------------------------------------------------------------------
(* The page's record.                                                       *)

(* The record never changes, nor what is read off it.                       *)
LEMMA SamePage ==
  ASSUME page' = page
  PROVE  /\ L' = L /\ A' = A /\ FlagNames' = FlagNames
         /\ \A name : PartsOn(name)' = PartsOn(name)
BY DEF L, A, FlagNames, PartsOn, Flag

(* What a well formed record says of the loads it names.                    *)
LEMMA Named ==
  ASSUME page \in Catalogue
  PROVE  /\ DOMAIN L \cap DOMAIN A = {} /\ Blank \notin DOMAIN A
         /\ PartsOn("page") # {} /\ PartsOn(Blank) = {}
         /\ \A p \in PartsOn("page") : p.kind # "dialog"
         /\ \A p \in page.parts : p.shows \subseteq DOMAIN L /\ p.brings \subseteq DOMAIN L
         /\ \A l \in DOMAIN L : /\ L[l].next \subseteq DOMAIN L
                                /\ L[l].opens = Blank \/ PartsOn(L[l].opens) # {}
                                /\ "remount" \in L[l].by => "mount" \in L[l].by
         /\ \A a \in DOMAIN A :
              /\ A[a].then \subseteq DOMAIN L /\ A[a].after \subseteq DOMAIN L
              /\ A[a].patch \subseteq DOMAIN L
              /\ A[a].after # {} => A[a].then # {} /\ \A l \in DOMAIN L : ~L[l].latest
              /\ A[a].steps \in Seq(SUBSET STRING) /\ A[a].goes \in BOOLEAN
              /\ A[a].opens = Blank \/ PartsOn(A[a].opens) # {}
              /\ A[a].leaves = Blank \/ \E p \in PartsOn(A[a].leaves) : p.kind = "dialog"
              /\ A[a].closes = Blank \/ \E p \in PartsOn(A[a].closes) : p.kind = "dialog"
         /\ MaxEvents[page.name] \in Nat
<1>1. WellFormed(page) /\ MaxEvents[page.name] \in Nat
  BY PagesAssumption
<1> QED
  BY <1>1 DEF WellFormed, L, A, PartsOn

LEMMA BroughtAreLoads ==
  ASSUME page \in Catalogue
  PROVE  /\ \A name : Brought(name) \subseteq DOMAIN L
         /\ \A cause : By(cause) \subseteq DOMAIN L
BY Named DEF Brought, By, PartsOn

LEMMA Numbers ==
  ASSUME TypeOK
  PROVE  /\ query \in 0..1 /\ opened \in Nat /\ Len(log) \in Nat
         /\ \A i \in 1..Len(log) : log[i].act \in DOMAIN A
<1>1. log \in Seq([act : DOMAIN A, of : SUBSET STRING]) /\ query \in 0..1 /\ opened \in Nat
  BY DEF TypeOK
<1> DEFINE E == [act : DOMAIN A, of : SUBSET STRING]
<1>2. \A e \in E : e.act \in DOMAIN A
  OBVIOUS
<1>3. log \in Seq(E)
  BY <1>1
<1> HIDE DEF E
<1>4. Len(log) \in Nat /\ \A i \in 1..Len(log) : log[i] \in E
  BY <1>3
<1> QED
  BY <1>1, <1>2, <1>4

-----------------------------------------------------------------------------
(* The surface on top.                                                      *)

(* A set of numbers below a bound that is not empty has a greatest one.     *)
LEMMA Greatest ==
  ASSUME NEW N, NEW S, NEW n \in Nat, S \subseteq [on : N, n : 0..n], S # {}
  PROVE  \E e \in S : \A d \in S : d.n <= e.n
<1> DEFINE T == {n - e.n : e \in S}
<1>1. T \subseteq Nat /\ T # {}
  OBVIOUS
<1>2. PICK x \in T : \A y \in T : ~ (<<y, x>> \in OpToRel(<, Nat))
  BY <1>1, NatLessThanWellFounded, WFMin
<1>3. \A y \in T : ~ (y < x)
  BY <1>1, <1>2 DEF OpToRel
<1>4. PICK e \in S : x = n - e.n
  OBVIOUS
<1>5. \A d \in S : d.n <= e.n
  <2> TAKE d \in S
  <2>2. ~ (n - d.n < n - e.n)
    BY <1>3, <1>4
  <2>3. d.n \in Int /\ e.n \in Int
    OBVIOUS
  <2> HIDE DEF T
  <2> QED
    BY <2>2, <2>3
<1> QED
  BY <1>5

LEMMA TopIsThere ==
  ASSUME TypeOK
  PROVE  /\ Top \in surfaces /\ Top.n \in 0..opened
         /\ \A e \in surfaces : e.n <= Top.n
<1>1. \E e \in surfaces : \A d \in surfaces : d.n <= e.n
  BY Greatest DEF TypeOK
<1> QED
  BY <1>1 DEF TypeOK, Top

-----------------------------------------------------------------------------
(* Sending.                                                                 *)

Owes == [lowers : SUBSET FlagNames, sends : SUBSET DOMAIN L]

LEMMA FlagsOfLoads ==
  /\ \A l \in DOMAIN L : Flag(L[l].flag) \subseteq FlagNames \ {Blank}
  /\ \A a \in DOMAIN A : Flag(A[a].flag) \subseteq FlagNames \ {Blank}
BY DEF FlagNames, Flag

LEMMA KeyIsNumber ==
  ASSUME NEW l, NEW q \in Nat, NEW d \in Nat, NEW n \in Nat
  PROVE  Key(l, q, d, n) \in Nat
BY DEF Key

(* A call is a load's or an act's, as its name is.                          *)
LEMMA CallTypes ==
  ASSUME TypeOK, NEW r \in requests
  PROVE  /\ r.what \in DOMAIN L \cup DOMAIN A /\ r.n \in Nat
         /\ r.what \in DOMAIN L => r \in LoadCalls /\ r.n <= sent[r.what] /\ r.what \notin DOMAIN A
         /\ r.what \in DOMAIN A => r \in ActCalls /\ r.what \notin DOMAIN L
<1>1. r \in LoadCalls \cup ActCalls /\ (r.what \in DOMAIN L => r.n <= sent[r.what])
      /\ page \in Catalogue
  BY DEF TypeOK
<1>2. DOMAIN L \cap DOMAIN A = {}
  BY <1>1, Named
<1>3. r \in LoadCalls => r.what \in DOMAIN L /\ r.n \in Nat
  BY DEF LoadCalls
<1>4. r \in ActCalls => r.what \in DOMAIN A /\ r.n \in Nat
  BY DEF ActCalls
<1> QED
  BY <1>1, <1>2, <1>3, <1>4

(* What the calls not yet answered are stays so while versions and the log  *)
(* grow.                                                                    *)
LEMMA CallsKept ==
  ASSUME TypeOK, page' = page, query' \in query..1, opened' \in Nat, opened <= opened',
         Len(log) <= Len(log)', Len(log)' \in Nat
  PROVE  requests \subseteq (LoadCalls \cup ActCalls)'
<1> USE SamePage
<1>1. query \in 0..1 /\ opened \in Nat /\ Len(log) \in Nat
  BY Numbers
<1>2. 0..query \subseteq 0..query' /\ 0..opened \subseteq 0..opened'
      /\ 0..Len(log) \subseteq 0..Len(log)' /\ 1..Len(log) \subseteq 1..Len(log)'
  BY <1>1
<1>3. LoadCalls \subseteq LoadCalls'
  BY <1>2 DEF LoadCalls
<1>4. ActCalls \subseteq ActCalls'
  BY <1>2 DEF ActCalls
<1> QED
  BY <1>3, <1>4 DEF TypeOK

LEMMA SendTypes ==
  ASSUME TypeOK, page' = page, log' = log, query' \in query..1, opened' \in Nat, opened <= opened',
         NEW ls, NEW q, NEW d, NEW kept, NEW lowered, NEW owed,
         ls \subseteq DOMAIN L, q \in 0..query', d \in 0..opened', kept \subseteq requests,
         owed \in Owes, Send(ls, q, d, kept, lowered, owed)
  PROVE  /\ requests' \subseteq (LoadCalls \cup ActCalls)'
         /\ sent' \in [DOMAIN L -> Nat] /\ \A l \in DOMAIN L : sent[l] <= sent'[l]
         /\ \A r \in requests' : r.what \in DOMAIN L => r.n <= sent'[r.what]
         /\ flags' \subseteq FlagNames \ {Blank}
<1>1. query \in 0..1 /\ query' \in 0..1 /\ opened \in Nat /\ Len(log) \in Nat /\ q \in Nat /\ d \in Nat
  BY Numbers
<1>2. /\ requests' = kept \cup {Call(l, q, d, owed) : l \in ls}
      /\ sent' = [l \in DOMAIN L |-> IF l \in ls THEN sent[l] + 1 ELSE sent[l]]
      /\ flags' \subseteq flags \cup UNION {Flag(L[l].flag) : l \in ls}
  BY DEF Send
<1>3. sent \in [DOMAIN L -> Nat] /\ flags \subseteq FlagNames \ {Blank}
  BY DEF TypeOK
<1>4. sent' \in [DOMAIN L -> Nat] /\ \A l \in DOMAIN L : sent[l] <= sent'[l]
  <2>1. sent' = [l \in DOMAIN L |-> IF l \in ls THEN sent[l] + 1 ELSE sent[l]]
    BY <1>2
  <2>2. sent \in [DOMAIN L -> Nat]
    BY <1>3
  <2>3. \A l \in DOMAIN L : sent[l] \in Nat /\ sent'[l] \in Nat /\ sent[l] <= sent'[l]
    BY <2>1, <2>2
  <2>4. sent' \in [DOMAIN L -> Nat]
    BY <2>1, <2>3
  <2> QED
    BY <2>3, <2>4
<1>5. \A l \in ls : Call(l, q, d, owed) \in LoadCalls' /\ Call(l, q, d, owed).n <= sent'[l]
  <2> TAKE l \in ls
  <2>2. l \in DOMAIN L /\ sent[l] + 1 \in Nat
    BY <1>3
  <2>3. Key(l, q, d, sent[l] + 1) \in Nat
    BY <2>2, <1>1, KeyIsNumber
  <2>4. /\ Call(l, q, d, owed) = [what |-> l, n |-> sent[l] + 1, key |-> Key(l, q, d, sent[l] + 1),
                               q |-> q, d |-> d, from |-> Len(log), owed |-> owed]
    BY DEF Call
  <2>5. Call(l, q, d, owed) \in LoadCalls'
    BY <2>2, <2>3, <2>4, <1>1, SamePage DEF LoadCalls, Owes
  <2> QED
    BY <2>2, <2>4, <2>5, <1>2
<1>6. requests \subseteq (LoadCalls \cup ActCalls)'
  BY <1>1, CallsKept
<1>7. \A r \in kept : r.what \in DOMAIN L => r.n <= sent'[r.what]
  <2> TAKE r \in kept
  <2>2. r.what \in DOMAIN L => r.n \in Nat /\ r.n <= sent[r.what]
    BY CallTypes
  <2> QED
    BY <2>2, <1>3, <1>4
<1>8. \A l \in ls : Call(l, q, d, owed).what = l
  BY DEF Call
<1>9. flags' \subseteq FlagNames \ {Blank}
  BY <1>2, <1>3, FlagsOfLoads
<1> QED
  BY <1>2, <1>4, <1>5, <1>6, <1>7, <1>8, <1>9

-----------------------------------------------------------------------------
(* The surfaces.                                                            *)

Surfaces(n) == [on : {p.on : p \in page.parts}, n : 0..n]

LEMMA LaidOver ==
  ASSUME TypeOK, NEW stack, stack \subseteq surfaces, Base(stack),
         NEW name, PartsOn(name) # {}
  PROVE  Over(name, stack) \subseteq Surfaces(opened + 1) /\ Base(Over(name, stack))
<1> DEFINE entry == [on |-> name, n |-> opened + 1]
<1>1. opened \in Nat /\ surfaces \subseteq Surfaces(opened)
  BY DEF TypeOK, Surfaces
<1>2. surfaces \subseteq Surfaces(opened + 1) /\ entry \in Surfaces(opened + 1)
  BY <1>1 DEF Surfaces, PartsOn
<1>3. CASE \E p \in PartsOn(name) : p.kind = "dialog"
  <2>1. Over(name, stack) = stack \cup {entry}
    BY <1>3 DEF Over
  <2> QED
    BY <2>1, <1>2 DEF Base
<1>4. CASE ~ \E p \in PartsOn(name) : p.kind = "dialog"
  <2>1. Over(name, stack) = {entry}
    BY <1>4 DEF Over
  <2>2. entry.on = name
    OBVIOUS
  <2> QED
    BY <2>1, <2>2, <1>2, <1>4 DEF Base
<1> QED
  BY <1>3, <1>4

LEMMA LaidWithout ==
  ASSUME TypeOK, Base(surfaces), NEW name,
         name = Blank \/ \E p \in PartsOn(name) : p.kind = "dialog"
  PROVE  Without(name) \subseteq surfaces /\ Base(Without(name))
<1>1. PICK e \in surfaces : \A p \in PartsOn(e.on) : p.kind # "dialog"
  BY DEF Base
<1>2. PartsOn(e.on) # {} /\ PartsOn(Blank) = {}
  BY Named DEF TypeOK, PartsOn
<1>3. e.on # name
  BY <1>1, <1>2
<1> QED
  BY <1>1, <1>3 DEF Without, Base

LEMMA LaidClosed ==
  ASSUME TypeOK, Base(surfaces), \E p \in Visible : p.kind = "dialog"
  PROVE  Base(surfaces \ {Top})
BY DEF Base, Visible

-----------------------------------------------------------------------------
(* The panels.                                                              *)

LEMMA PanelsEmptied ==
  ASSUME TypeOK, NEW ls
  PROVE  /\ Emptied(ls) \in [DOMAIN L -> PanelStates]
         /\ \A l \in DOMAIN L : Emptied(ls)[l].n = shown[l].n
<1>1. shown \in [DOMAIN L -> PanelStates]
  BY DEF TypeOK
<1>2. \A l \in DOMAIN L : LET e == [shown[l] EXCEPT !.ok = FALSE]
                          IN e \in PanelStates /\ e.n = shown[l].n
  BY <1>1 DEF PanelStates
<1> QED
  BY <1>1, <1>2 DEF Emptied

LEMMA SameStates ==
  ASSUME page' = page, log' = log
  PROVE  PanelStates' = PanelStates
BY SamePage DEF PanelStates

(* The parts of a step that leaves the log alone.                           *)
LEMMA Assembled ==
  ASSUME TypeOK, page' = page, log' = log, query' \in query..1, opened' \in Nat, gone' \in BOOLEAN,
         surfaces' # {}, surfaces' \subseteq Surfaces(opened'),
         asking' \in DOMAIN A \cup {Blank}, flags' \subseteq FlagNames \ {Blank},
         requests' \subseteq (LoadCalls \cup ActCalls)', sent' \in [DOMAIN L -> Nat],
         \A r \in requests' : r.what \in DOMAIN L => r.n <= sent'[r.what],
         shown' \in [DOMAIN L -> PanelStates], \A l \in DOMAIN L : shown'[l].n <= sent'[l],
         events' \in 0..MaxEvents[page.name], failures' \in 0..MaxFailures
  PROVE  TypeOK'
<1>1. query' \in 0..1 /\ page \in Catalogue /\ log \in Seq([act : DOMAIN A, of : SUBSET STRING])
  BY DEF TypeOK
<1>2. PanelStates' = PanelStates /\ DOMAIN L' = DOMAIN L /\ DOMAIN A' = DOMAIN A
      /\ FlagNames' = FlagNames
  BY SameStates, SamePage
<1> QED
  BY <1>1, <1>2 DEF TypeOK, Surfaces

(* What every step finds.                                                   *)
LEMMA Found ==
  ASSUME TypeOK
  PROVE  /\ page \in Catalogue /\ gone \in BOOLEAN /\ asking \in DOMAIN A \cup {Blank}
         /\ surfaces # {} /\ surfaces \subseteq Surfaces(opened)
         /\ flags \subseteq FlagNames \ {Blank} /\ sent \in [DOMAIN L -> Nat]
         /\ shown \in [DOMAIN L -> PanelStates] /\ (\A l \in DOMAIN L : shown[l].n <= sent[l])
         /\ events \in 0..MaxEvents[page.name] /\ failures \in 0..MaxFailures
         /\ query \in query..1 /\ opened <= opened
         /\ (\A l \in DOMAIN L : shown[l].n \in Nat /\ sent[l] \in Nat)
         /\ (\A r \in requests : r.what \in DOMAIN L => r.n <= sent[r.what])
<1>1. shown \in [DOMAIN L -> PanelStates] /\ sent \in [DOMAIN L -> Nat] /\ query \in 0..1 /\ opened \in Nat
  BY DEF TypeOK
<1>2. \A l \in DOMAIN L : shown[l].n \in Nat /\ sent[l] \in Nat
  BY <1>1 DEF PanelStates
<1>3. query \in query..1 /\ opened <= opened
  BY <1>1
<1> QED
  BY <1>1, <1>2, <1>3 DEF TypeOK, Surfaces

LEMMA Counted ==
  ASSUME TypeOK
  PROVE  /\ Event => events' \in 0..MaxEvents[page.name]
         /\ Refusal => failures' \in 0..MaxFailures
<1>1. MaxEvents[page.name] \in Nat /\ MaxFailures \in Nat
  BY Found, Named, FailuresAssumption
<1> QED
  BY <1>1, Found DEF Event, Refusal

(* The panels' numbers stay below those of the calls.                       *)
LEMMA PanelsBehind ==
  ASSUME TypeOK, sent' \in [DOMAIN L -> Nat], \A l \in DOMAIN L : sent[l] <= sent'[l]
  PROVE  \A l \in DOMAIN L : shown[l].n <= sent'[l]
BY Found

LEMMA ChangeQueryTypes ==
  ASSUME IInv, ChangeQuery
  PROVE  IInv'
<1> DEFINE ls == By("query")
<1>1. /\ query = 0 /\ query' = 1 /\ surfaces' = surfaces /\ opened' = opened /\ page' = page
      /\ asking' = asking /\ log' = log /\ gone' = gone /\ failures' = failures
      /\ shown' = Emptied(ls) /\ Event /\ Send(ls, 1, Top.n, requests, {}, Nothing)
  BY DEF ChangeQuery
<1>2. TypeOK /\ Base(surfaces)
  BY DEF IInv
<1>3. ls \subseteq DOMAIN L /\ Top.n \in 0..opened' /\ Nothing \in Owes /\ 1 \in 0..query'
      /\ query' \in query..1 /\ opened' \in Nat /\ opened <= opened'
  BY <1>1, <1>2, Found, BroughtAreLoads, TopIsThere, Numbers DEF Nothing, Owes
<1>4. PICK d \in 0..opened', owed \in Owes : Send(ls, 1, d, requests, {}, owed)
  BY <1>1, <1>3
<1> HIDE DEF ls
<1>5. /\ requests' \subseteq (LoadCalls \cup ActCalls)'
      /\ sent' \in [DOMAIN L -> Nat] /\ \A l \in DOMAIN L : sent[l] <= sent'[l]
      /\ \A r \in requests' : r.what \in DOMAIN L => r.n <= sent'[r.what]
      /\ flags' \subseteq FlagNames \ {Blank}
  BY <1>1, <1>2, <1>3, <1>4, SendTypes
<1>6. shown' \in [DOMAIN L -> PanelStates] /\ \A l \in DOMAIN L : shown'[l].n <= sent'[l]
  BY <1>1, <1>2, <1>5, PanelsEmptied, PanelsBehind
<1>7. TypeOK'
  BY <1>1, <1>2, <1>3, <1>5, <1>6, Found, Counted, Assembled
<1>8. Base(surfaces)'
  BY <1>1, <1>2, SamePage DEF Base
<1> QED
  BY <1>7, <1>8 DEF IInv

LEMMA RefreshTypes ==
  ASSUME IInv, NEW l \in DOMAIN L, Refresh(l)
  PROVE  IInv'
<1>1. /\ query' = query /\ surfaces' = surfaces /\ opened' = opened /\ page' = page
      /\ asking' = asking /\ log' = log /\ gone' = gone /\ failures' = failures
      /\ shown' = Emptied({l}) /\ Event /\ Send({l}, query, Top.n, requests, {}, Nothing)
  BY DEF Refresh
<1>2. TypeOK /\ Base(surfaces)
  BY DEF IInv
<1>3. Top.n \in 0..opened' /\ Nothing \in Owes /\ query \in 0..query'
      /\ query' \in query..1 /\ opened' \in Nat /\ opened <= opened'
  BY <1>1, <1>2, Found, TopIsThere, Numbers DEF Nothing, Owes
<1>4. PICK q \in 0..query', d \in 0..opened', owed \in Owes : Send({l}, q, d, requests, {}, owed)
  BY <1>1, <1>3
<1>5. /\ requests' \subseteq (LoadCalls \cup ActCalls)'
      /\ sent' \in [DOMAIN L -> Nat] /\ \A k \in DOMAIN L : sent[k] <= sent'[k]
      /\ \A r \in requests' : r.what \in DOMAIN L => r.n <= sent'[r.what]
      /\ flags' \subseteq FlagNames \ {Blank}
  BY <1>1, <1>2, <1>3, <1>4, SendTypes
<1>6. shown' \in [DOMAIN L -> PanelStates] /\ \A k \in DOMAIN L : shown'[k].n <= sent'[k]
  BY <1>1, <1>2, <1>5, PanelsEmptied, PanelsBehind
<1>7. TypeOK'
  BY <1>1, <1>2, <1>3, <1>5, <1>6, Found, Counted, Assembled
<1>8. Base(surfaces)'
  BY <1>1, <1>2, SamePage DEF Base
<1> QED
  BY <1>7, <1>8 DEF IInv

LEMMA OpenTypes ==
  ASSUME IInv, NEW name \in {p.on : p \in page.parts}, Open(name)
  PROVE  IInv'
<1> DEFINE ls == Brought(name)
<1>1. /\ query' = query /\ surfaces' = Over(name, surfaces) /\ opened' = opened + 1 /\ page' = page
      /\ asking' = asking /\ log' = log /\ gone' = gone /\ failures' = failures
      /\ shown' = Emptied(ls) /\ Event /\ Send(ls, query, opened', requests, {}, Nothing)
  BY DEF Open
<1>2. TypeOK /\ Base(surfaces)
  BY DEF IInv
<1>3. ls \subseteq DOMAIN L /\ opened' \in 0..opened' /\ Nothing \in Owes /\ query \in 0..query'
      /\ query' \in query..1 /\ opened' \in Nat /\ opened <= opened'
  BY <1>1, <1>2, Found, BroughtAreLoads, Numbers DEF Nothing, Owes
<1>4. PICK q \in 0..query', d \in 0..opened', owed \in Owes : Send(ls, q, d, requests, {}, owed)
  BY <1>1, <1>3
<1> HIDE DEF ls
<1>5. /\ requests' \subseteq (LoadCalls \cup ActCalls)'
      /\ sent' \in [DOMAIN L -> Nat] /\ \A k \in DOMAIN L : sent[k] <= sent'[k]
      /\ \A r \in requests' : r.what \in DOMAIN L => r.n <= sent'[r.what]
      /\ flags' \subseteq FlagNames \ {Blank}
  BY <1>1, <1>2, <1>3, <1>4, SendTypes
<1>6. shown' \in [DOMAIN L -> PanelStates] /\ \A k \in DOMAIN L : shown'[k].n <= sent'[k]
  BY <1>1, <1>2, <1>5, PanelsEmptied, PanelsBehind
<1>7. PartsOn(name) # {}
  BY DEF PartsOn
<1>8. surfaces' \subseteq Surfaces(opened') /\ Base(Over(name, surfaces)) /\ surfaces' # {}
  BY <1>1, <1>2, <1>7, LaidOver DEF Base
<1>9. TypeOK'
  BY <1>1, <1>2, <1>3, <1>5, <1>6, <1>8, Found, Counted, Assembled
<1>10. Base(surfaces)'
  BY <1>1, <1>8, SamePage DEF Base
<1> QED
  BY <1>9, <1>10 DEF IInv

LEMMA CloseTypes ==
  ASSUME IInv, Close
  PROVE  IInv'
<1>1. /\ \E p \in Visible : p.kind = "dialog"
      /\ surfaces' = surfaces \ {Top} /\ flags' \subseteq flags
      /\ page' = page /\ query' = query /\ opened' = opened /\ asking' = asking
      /\ requests' = requests /\ sent' = sent /\ shown' = shown /\ log' = log
      /\ gone' = gone /\ events' = events /\ failures' = failures
  BY DEF Close
<1>2. TypeOK /\ Base(surfaces)
  BY DEF IInv
<1>3. query' \in query..1 /\ opened' \in Nat /\ opened <= opened'
      /\ Len(log) <= Len(log)' /\ Len(log)' \in Nat
  BY <1>1, <1>2, Found, Numbers
<1>4. requests' \subseteq (LoadCalls \cup ActCalls)'
  BY <1>1, <1>2, <1>3, CallsKept
<1>5. Base(surfaces \ {Top})
  BY <1>1, <1>2, LaidClosed
<1>6. Base(surfaces)' /\ surfaces' # {}
  BY <1>1, <1>5, SamePage DEF Base
<1>7. surfaces' \subseteq Surfaces(opened') /\ flags' \subseteq FlagNames \ {Blank}
  BY <1>1, <1>2, Found
<1>8. TypeOK'
  BY <1>1, <1>2, <1>3, <1>4, <1>6, <1>7, Found, Assembled
<1> QED
  BY <1>6, <1>8 DEF IInv

(* The call of an act.                                                      *)
LEMMA SendActTypes ==
  ASSUME TypeOK, page' = page, log' = log, query' = query, opened' = opened,
         NEW a \in DOMAIN A, SendAct(a), events' \in Nat
  PROVE  /\ requests' \subseteq (LoadCalls \cup ActCalls)'
         /\ \A r \in requests' : r.what \in DOMAIN L => r.n <= sent[r.what]
         /\ flags' \subseteq FlagNames \ {Blank}
<1> DEFINE c == [what |-> a, n |-> events', q |-> query, d |-> Top.n,
                 did |-> {}, left |-> DOMAIN A[a].steps, ended |-> FALSE]
<1>1. requests' = requests \cup {c} /\ flags' \subseteq flags \cup Flag(A[a].flag)
  BY DEF SendAct
<1>2. query' \in query..1 /\ opened' \in Nat /\ opened <= opened'
      /\ Len(log) <= Len(log)' /\ Len(log)' \in Nat /\ Top.n \in 0..opened' /\ query \in 0..query'
  BY Found, Numbers, TopIsThere
<1>3. requests \subseteq (LoadCalls \cup ActCalls)'
  BY <1>2, CallsKept
<1>4. DOMAIN A[a].steps \subseteq Nat
  <2>1. A[a].steps \in Seq(SUBSET STRING)
    BY Found, Named
  <2> QED
    BY <2>1
<1>5. c \in ActCalls'
  BY <1>2, <1>4, SamePage DEF ActCalls
<1>6. a \notin DOMAIN L
  BY Found, Named
<1>7. flags' \subseteq FlagNames \ {Blank}
  BY <1>1, Found, FlagsOfLoads
<1>8. c.what = a
  OBVIOUS
<1> HIDE DEF c
<1> QED
  BY <1>1, <1>3, <1>5, <1>6, <1>7, <1>8, Found

LEMMA SubmitTypes ==
  ASSUME IInv, NEW a \in DOMAIN A, Submit(a)
  PROVE  IInv'
<1>1. /\ surfaces' = Without(A[a].leaves) /\ Event
      /\ \/ asking' = a /\ flags' \subseteq flags /\ requests' = requests
         \/ SendAct(a) /\ asking' = asking
      /\ page' = page /\ query' = query /\ opened' = opened /\ sent' = sent /\ shown' = shown
      /\ log' = log /\ gone' = gone /\ failures' = failures
  BY DEF Submit
<1>2. TypeOK /\ Base(surfaces)
  BY DEF IInv
<1>3. query' \in query..1 /\ opened' \in Nat /\ opened <= opened'
      /\ Len(log) <= Len(log)' /\ Len(log)' \in Nat
  BY <1>1, <1>2, Found, Numbers
<1>4. events' \in 0..MaxEvents[page.name] /\ events' \in Nat
  BY <1>1, <1>2, Counted
<1>5. Without(A[a].leaves) \subseteq surfaces /\ Base(Without(A[a].leaves))
  BY <1>2, Found, Named, LaidWithout
<1>6. Base(surfaces)' /\ surfaces' # {}
  BY <1>1, <1>5, SamePage DEF Base
<1>7. surfaces' \subseteq Surfaces(opened')
  BY <1>1, <1>2, <1>5, Found
<1>8. /\ requests' \subseteq (LoadCalls \cup ActCalls)'
      /\ \A r \in requests' : r.what \in DOMAIN L => r.n <= sent[r.what]
      /\ flags' \subseteq FlagNames \ {Blank} /\ asking' \in DOMAIN A \cup {Blank}
  <2>1. CASE asking' = a /\ flags' \subseteq flags /\ requests' = requests
    BY <1>1, <1>2, <1>3, <2>1, CallsKept, Found
  <2>2. CASE SendAct(a) /\ asking' = asking
    BY <1>1, <1>2, <1>4, <2>2, SendActTypes, Found
  <2> QED
    BY <1>1, <2>1, <2>2
<1>9. TypeOK'
  BY <1>1, <1>2, <1>3, <1>4, <1>6, <1>7, <1>8, Found, Assembled
<1> QED
  BY <1>6, <1>9 DEF IInv

LEMMA ConfirmTypes ==
  ASSUME IInv, NEW yes \in BOOLEAN, Confirm(yes)
  PROVE  IInv'
<1>1. /\ asking # Blank /\ asking' = Blank /\ surfaces' = surfaces
      /\ SendAct(asking) \/ (flags' = flags /\ requests' = requests)
      /\ page' = page /\ query' = query /\ opened' = opened /\ sent' = sent /\ shown' = shown
      /\ log' = log /\ gone' = gone /\ failures' = failures /\ events' = events
  BY DEF Confirm
<1>2. TypeOK /\ Base(surfaces)
  BY DEF IInv
<1>3. query' \in query..1 /\ opened' \in Nat /\ opened <= opened'
      /\ Len(log) <= Len(log)' /\ Len(log)' \in Nat
  BY <1>1, <1>2, Found, Numbers
<1>4. events' \in 0..MaxEvents[page.name] /\ events' \in Nat
  BY <1>1, <1>2, Found
<1>5. PICK a \in DOMAIN A : a = asking
  BY <1>1, <1>2, Found
<1>6. Base(surfaces)' /\ surfaces' # {}
  BY <1>1, <1>2, Found, SamePage DEF Base
<1>7. surfaces' \subseteq Surfaces(opened')
  BY <1>1, <1>2, Found
<1>8. /\ requests' \subseteq (LoadCalls \cup ActCalls)'
      /\ \A r \in requests' : r.what \in DOMAIN L => r.n <= sent[r.what]
      /\ flags' \subseteq FlagNames \ {Blank}
  <2>1. CASE flags' = flags /\ requests' = requests
    BY <1>1, <1>2, <1>3, <2>1, CallsKept, Found
  <2>2. CASE SendAct(asking)
    <3>1. SendAct(a)
      BY <1>5, <2>2
    <3> QED
      BY <1>1, <1>2, <1>4, <3>1, SendActTypes, Found
  <2> QED
    BY <1>1, <2>1, <2>2
<1>9. TypeOK'
  BY <1>1, <1>2, <1>3, <1>4, <1>6, <1>7, <1>8, Found, Assembled
<1> QED
  BY <1>6, <1>9 DEF IInv

(* What a call of an act that is carried out leaves behind.                 *)
Carried(r, k) == [r EXCEPT !.did = @ \cup {Len(log) + 1}, !.left = @ \ {k}]

LEMMA CarriedIs ==
  ASSUME TypeOK, NEW r \in requests, r.what \in DOMAIN A, NEW k
  PROVE  /\ Carried(r, k) = [what |-> r.what, n |-> r.n, q |-> r.q, d |-> r.d,
                             did |-> r.did \cup {Len(log) + 1}, left |-> r.left \ {k},
                             ended |-> r.ended]
         /\ r \in ActCalls /\ r.did \subseteq 1..Len(log) /\ r.left \subseteq DOMAIN A[r.what].steps
         /\ r.n \in Nat /\ r.q \in 0..query /\ r.d \in 0..opened /\ r.ended \in BOOLEAN
<1>1. r \in ActCalls
  BY CallTypes
<1>2. PICK w, n, q, d, did, left, ended :
        r = [what |-> w, n |-> n, q |-> q, d |-> d, did |-> did, left |-> left,
             ended |-> ended]
  BY <1>1 DEF ActCalls
<1>3. Carried(r, k) = [what |-> r.what, n |-> r.n, q |-> r.q, d |-> r.d,
                       did |-> r.did \cup {Len(log) + 1}, left |-> r.left \ {k},
                       ended |-> r.ended]
  <2>1. \A x, y :
          [[what |-> w, n |-> n, q |-> q, d |-> d, did |-> did, left |-> left,
            ended |-> ended] EXCEPT !.did = x, !.left = y]
            \in [what : {w}, n : {n}, q : {q}, d : {d}, did : {x}, left : {y}, ended : {ended}]
    OBVIOUS
  <2>2. \A x, y : \A z \in
          [what : {w}, n : {n}, q : {q}, d : {d}, did : {x}, left : {y}, ended : {ended}] :
            z = [what |-> w, n |-> n, q |-> q, d |-> d, did |-> x, left |-> y, ended |-> ended]
    OBVIOUS
  <2>3. PICK x, y : x = r.did \cup {Len(log) + 1} /\ y = r.left \ {k}
    OBVIOUS
  <2>4. Carried(r, k) = [r EXCEPT !.did = x, !.left = y]
    BY <2>3 DEF Carried
  <2>5. r.what = w /\ r.n = n /\ r.q = q /\ r.d = d /\ r.ended = ended
    BY <1>2
  <2> QED
    BY <1>2, <2>1, <2>2, <2>3, <2>4, <2>5
<1> QED
  BY <1>1, <1>3 DEF ActCalls

LEMMA ReadyIsLeft ==
  ASSUME NEW r, NEW k \in Ready(r)
  PROVE  k \in r.left
BY DEF Ready

LEMMA Served ==
  ASSUME TypeOK, NEW r \in requests, r.what \in DOMAIN A, NEW k \in DOMAIN A[r.what].steps,
         page' = page, query' = query, opened' = opened,
         NEW entry, entry = [act |-> r.what, of |-> A[r.what].steps[k]],
         log' = Append(log, entry)
  PROVE  /\ log' \in Seq([act : DOMAIN A, of : SUBSET STRING]) /\ Len(log') = Len(log) + 1
         /\ Carried(r, k) \in ActCalls' /\ Carried(r, k).what = r.what
<1>1. A[r.what].steps \in Seq(SUBSET STRING) /\ Len(log) \in Nat
      /\ log \in Seq([act : DOMAIN A, of : SUBSET STRING])
  BY Found, Named, Numbers DEF TypeOK
<1>2. A[r.what].steps[k] \in SUBSET STRING
  BY <1>1
<1>3. entry \in [act : DOMAIN A, of : SUBSET STRING]
  BY <1>2
<1> DEFINE E == [act : DOMAIN A, of : SUBSET STRING]
<1>4. log' \in Seq(E) /\ Len(log') = Len(log) + 1
  <2>1. log \in Seq(E) /\ entry \in E
    BY <1>1, <1>3
  <2> HIDE DEF E
  <2> QED
    BY <2>1
<1>5. r.did \cup {Len(log) + 1} \subseteq 1..Len(log')
  <2>1. r.did \subseteq 1..Len(log)
    BY CarriedIs
  <2> QED
    BY <1>1, <1>4, <2>1
<1>6. Carried(r, k) \in ActCalls'
  BY <1>5, CarriedIs, SamePage DEF ActCalls
<1>7. Carried(r, k).what = r.what
  BY CarriedIs
<1> QED
  BY <1>4, <1>6, <1>7

LEMMA ServeTypes ==
  ASSUME IInv, NEW r \in requests, Serve(r)
  PROVE  IInv'
<1>1. /\ r.what \in DOMAIN A
      /\ page' = page /\ query' = query /\ surfaces' = surfaces /\ opened' = opened
      /\ asking' = asking /\ events' = events /\ flags' = flags /\ sent' = sent
      /\ shown' = shown /\ gone' = gone /\ failures' = failures
  BY DEF Serve, user
<1>2. TypeOK /\ Base(surfaces)
  BY DEF IInv
<1> DEFINE entry(k) == [act |-> r.what, of |-> A[r.what].steps[k]]
<1>3. PICK k \in Ready(r) : /\ log' = Append(log, entry(k))
                           /\ requests' = (requests \ {r}) \cup {Carried(r, k)}
  BY DEF Serve, Carried
<1> HIDE DEF entry
<1>4. /\ log' \in Seq([act : DOMAIN A, of : SUBSET STRING]) /\ Len(log') = Len(log) + 1
      /\ Carried(r, k) \in ActCalls' /\ Carried(r, k).what = r.what
  <2>1. k \in DOMAIN A[r.what].steps
    BY <1>1, <1>2, ReadyIsLeft, CarriedIs
  <2> QED
    BY <1>1, <1>2, <1>3, <2>1, Served DEF entry
<1>5. query' \in query..1 /\ opened' \in Nat /\ opened <= opened'
      /\ Len(log) <= Len(log)' /\ Len(log)' \in Nat
  BY <1>1, <1>2, <1>4, Found, Numbers
<1>6. requests' \subseteq (LoadCalls \cup ActCalls)'
  BY <1>1, <1>2, <1>3, <1>4, <1>5, CallsKept
<1>7. \A s \in requests' : s.what \in DOMAIN L => s.n <= sent'[s.what]
  BY <1>1, <1>2, <1>3, <1>4, Found, CallTypes
<1>8. shown' \in [DOMAIN L -> PanelStates']
  <2>1. 1..Len(log) \subseteq 1..Len(log)'
    BY <1>5, <1>2, Numbers
  <2>2. PanelStates \subseteq PanelStates'
    BY <1>1, <2>1, SamePage DEF PanelStates
  <2> QED
    BY <1>1, <1>2, <2>2, Found
<1>9. Base(surfaces)'
  BY <1>1, <1>2, SamePage DEF Base
<1>10. TypeOK'
  <2>1. DOMAIN L' = DOMAIN L /\ DOMAIN A' = DOMAIN A /\ FlagNames' = FlagNames
    BY <1>1, SamePage
  <2>2. query \in 0..1 /\ opened \in Nat
    BY <1>2, Numbers
  <2> QED
    BY <1>1, <1>2, <1>4, <1>6, <1>7, <1>8, <2>1, <2>2, Found DEF TypeOK, Surfaces
<1> QED
  BY <1>9, <1>10 DEF IInv

(* Panels changed in place.                                                 *)
Patched(a, done, refused) ==
  [l \in DOMAIN L |-> IF l \in A[a].patch /\ shown[l].ok
                      THEN [shown[l] EXCEPT !.has = @ \cup done, !.believes = @ \cup refused]
                      ELSE shown[l]]

LEMMA PatchedTypes ==
  ASSUME TypeOK, NEW a, NEW done \in SUBSET (1..Len(log)), NEW refused \in SUBSET DOMAIN A
  PROVE  /\ Patched(a, done, refused) \in [DOMAIN L -> PanelStates]
         /\ \A l \in DOMAIN L : Patched(a, done, refused)[l].n = shown[l].n
<1>1. \A s \in PanelStates :
        LET e == [s EXCEPT !.has = @ \cup done, !.believes = @ \cup refused]
        IN e \in PanelStates /\ e.n = s.n
  BY DEF PanelStates
<1>2. shown \in [DOMAIN L -> PanelStates]
  BY Found
<1>3. \A l \in DOMAIN L : LET e == [shown[l] EXCEPT !.has = @ \cup done, !.believes = @ \cup refused]
                          IN e \in PanelStates /\ e.n = shown[l].n /\ shown[l] \in PanelStates
  BY <1>1, <1>2
<1> QED
  BY <1>3 DEF Patched

LEMMA DoneTypes ==
  ASSUME TypeOK, NEW r \in requests, r.what \in DOMAIN A
  PROVE  r.did \subseteq 1..Len(log) /\ r.q \in 0..query /\ r.d \in 0..opened
BY CallTypes DEF ActCalls

LEMMA LoweredTypes ==
  ASSUME NEW r, r.what \in DOMAIN A, NEW outcome
  PROVE  Lowered(r, outcome) \subseteq Flag(A[r.what].flag)
         /\ Lowered(r, outcome) \subseteq FlagNames \ {Blank}
BY FlagsOfLoads DEF Lowered

(* The steps of Conclude, one by one.                                       *)
LEMMA Concluded ==
  ASSUME NEW r, NEW refused, Conclude(r, refused)
  PROVE  LET a == A[r.what]
             left == Without(a.closes)
             follows == a.opens # Blank /\ (a.closes = Blank \/ left # surfaces)
             waiting == IF a.waits /\ a.then # {} THEN Lowered(r, "done") ELSE {}
         IN
         /\ gone' = (gone \/ a.goes)
         /\ surfaces' = IF follows THEN Over(a.opens, left) ELSE left
         /\ opened' = IF follows THEN opened + 1 ELSE opened
         /\ query' = query
         /\ \/ gone' /\ requests' = requests \ {r} /\ sent' = sent /\ flags' = flags
            \/ /\ ~gone'
               /\ \E ls, q, d, lowered, owed :
                    /\ Send(ls, q, d, requests \ {r}, lowered, owed)
                    /\ ls = a.then \cup (IF follows THEN Brought(a.opens) ELSE {})
                    /\ q \in {r.q, query}
                    /\ d = IF follows THEN opened' ELSE r.d
                    /\ lowered = Lowered(r, "done") \ waiting
                    /\ owed = [lowers |-> waiting, sends |-> a.after]
         /\ shown' = Patched(r.what, r.did, refused)
<1> DEFINE a == A[r.what]
           left == Without(a.closes)
           follows == a.opens # Blank /\ (a.closes = Blank \/ left # surfaces)
           waiting == IF a.waits /\ a.then # {} THEN Lowered(r, "done") ELSE {}
           ls == a.then \cup (IF follows THEN Brought(a.opens) ELSE {})
           q == IF a.captures THEN r.q ELSE query
           d == IF follows THEN opened' ELSE r.d
           lowered == Lowered(r, "done") \ waiting
           owed == [lowers |-> waiting, sends |-> a.after]
<1>1. /\ gone' = (gone \/ a.goes)
      /\ surfaces' = IF follows THEN Over(a.opens, left) ELSE left
      /\ opened' = IF follows THEN opened + 1 ELSE opened
      /\ query' = query
      /\ IF gone' THEN requests' = requests \ {r} /\ sent' = sent /\ flags' = flags
         ELSE Send(ls, q, d, requests \ {r}, lowered, owed)
      /\ shown' = Patched(r.what, r.did, refused)
  BY DEF Conclude, Patched
<1>2. q \in {r.q, query}
  OBVIOUS
<1>3. \/ gone' /\ requests' = requests \ {r} /\ sent' = sent /\ flags' = flags
      \/ ~gone' /\ Send(ls, q, d, requests \ {r}, lowered, owed)
  BY <1>1
<1>4. ~gone' => \E ls_, q_, d_, lowered_, owed_ :
                  /\ Send(ls_, q_, d_, requests \ {r}, lowered_, owed_)
                  /\ ls_ = ls /\ q_ \in {r.q, query} /\ d_ = d /\ lowered_ = lowered /\ owed_ = owed
  <2> HIDE DEF ls, q, d, lowered, owed
  <2> QED
    BY <1>2, <1>3
<1> QED
  BY <1>1, <1>3, <1>4

LEMMA ConcludeTypes ==
  ASSUME IInv, NEW r \in requests, r.what \in DOMAIN A, NEW refused \in SUBSET DOMAIN A,
         Conclude(r, refused), page' = page, asking' = asking, log' = log, events' = events,
         failures' \in 0..MaxFailures
  PROVE  IInv'
<1> DEFINE a == A[r.what]
           left == Without(a.closes)
           follows == a.opens # Blank /\ (a.closes = Blank \/ left # surfaces)
           waiting == IF a.waits /\ a.then # {} THEN Lowered(r, "done") ELSE {}
<1>1. /\ gone' = (gone \/ a.goes)
      /\ surfaces' = IF follows THEN Over(a.opens, left) ELSE left
      /\ opened' = IF follows THEN opened + 1 ELSE opened
      /\ query' = query
      /\ \/ gone' /\ requests' = requests \ {r} /\ sent' = sent /\ flags' = flags
         \/ \E ls, q, d, lowered, owed :
              /\ Send(ls, q, d, requests \ {r}, lowered, owed)
              /\ ls = a.then \cup (IF follows THEN Brought(a.opens) ELSE {})
              /\ q \in {r.q, query}
              /\ d = IF follows THEN opened' ELSE r.d
              /\ owed = [lowers |-> waiting, sends |-> a.after]
      /\ shown' = Patched(r.what, r.did, refused)
  BY Concluded
<1>2. TypeOK /\ Base(surfaces)
  BY DEF IInv
<1>3. /\ a.then \subseteq DOMAIN L /\ a.after \subseteq DOMAIN L /\ a.goes \in BOOLEAN
      /\ a.opens = Blank \/ PartsOn(a.opens) # {}
      /\ left \subseteq surfaces /\ Base(left)
  BY <1>2, Found, Named, LaidWithout
<1>4. waiting \in SUBSET FlagNames
  BY LoweredTypes
<1>5. /\ opened \in Nat /\ query \in 0..1 /\ Len(log) \in Nat /\ r.q \in 0..query /\ r.d \in 0..opened
      /\ r.did \in SUBSET (1..Len(log))
  BY <1>2, Numbers, DoneTypes
<1>6. Brought(a.opens) \subseteq DOMAIN L
  BY <1>2, Found, BroughtAreLoads
<1> HIDE DEF a, left, waiting
<1>7. /\ opened' \in Nat /\ opened <= opened' /\ query' \in query..1 /\ gone' \in BOOLEAN
      /\ Len(log) <= Len(log)' /\ Len(log)' \in Nat
  BY <1>1, <1>2, <1>3, <1>5, Found
<1>8. surfaces' \subseteq Surfaces(opened') /\ Base(surfaces')
  <2>1. CASE follows
    BY <1>1, <1>2, <1>3, <2>1, LaidOver
  <2>2. CASE ~follows
    BY <1>1, <1>2, <1>3, <2>2, Found
  <2> QED
    BY <2>1, <2>2
<1>9. surfaces' # {} /\ Base(surfaces)'
  BY <1>8, SamePage DEF Base
<1>10. /\ requests' \subseteq (LoadCalls \cup ActCalls)'
       /\ sent' \in [DOMAIN L -> Nat] /\ \A l \in DOMAIN L : sent[l] <= sent'[l]
       /\ \A s \in requests' : s.what \in DOMAIN L => s.n <= sent'[s.what]
       /\ flags' \subseteq FlagNames \ {Blank}
  <2>1. CASE gone' /\ requests' = requests \ {r} /\ sent' = sent /\ flags' = flags
    <3>1. requests \subseteq (LoadCalls \cup ActCalls)'
      BY <1>2, <1>7, CallsKept
    <3> QED
      BY <1>2, <2>1, <3>1, Found
  <2>2. CASE \E ls, q, d, lowered, owed :
               /\ Send(ls, q, d, requests \ {r}, lowered, owed)
               /\ ls = a.then \cup (IF follows THEN Brought(a.opens) ELSE {})
               /\ q \in {r.q, query}
               /\ d = IF follows THEN opened' ELSE r.d
               /\ owed = [lowers |-> waiting, sends |-> a.after]
    <3>1. PICK ls, q, d, lowered, owed :
               /\ Send(ls, q, d, requests \ {r}, lowered, owed)
               /\ ls = a.then \cup (IF follows THEN Brought(a.opens) ELSE {})
               /\ q \in {r.q, query}
               /\ d = IF follows THEN opened' ELSE r.d
               /\ owed = [lowers |-> waiting, sends |-> a.after]
      BY <2>2
    <3>2. ls \subseteq DOMAIN L
      BY <1>3, <1>6, <3>1
    <3>3. q \in 0..query' /\ d \in 0..opened'
      BY <1>1, <1>5, <1>7, <3>1
    <3>4. owed \in Owes
      BY <1>3, <1>4, <3>1 DEF Owes
    <3>5. requests \ {r} \subseteq requests
      OBVIOUS
    <3>6. PICK kept : kept = requests \ {r}
      OBVIOUS
    <3>7. Send(ls, q, d, kept, lowered, owed) /\ kept \subseteq requests
      BY <3>1, <3>6
    <3> QED
      BY <1>2, <1>7, <3>2, <3>3, <3>4, <3>7, SendTypes
  <2> QED
    BY <1>1, <2>1, <2>2
<1>11. shown' \in [DOMAIN L -> PanelStates] /\ \A l \in DOMAIN L : shown'[l].n <= sent'[l]
  <2>1. PICK done \in SUBSET (1..Len(log)) : done = r.did
    BY <1>5
  <2>2. shown' = Patched(r.what, done, refused)
    BY <1>1, <2>1
  <2>3. shown' \in [DOMAIN L -> PanelStates] /\ \A l \in DOMAIN L : shown'[l].n = shown[l].n
    BY <1>2, <2>2, PatchedTypes
  <2> QED
    BY <1>2, <1>10, <2>3, PanelsBehind
<1>12. asking' \in DOMAIN A \cup {Blank} /\ events' \in 0..MaxEvents[page.name]
  BY <1>2, Found
<1>13. TypeOK'
  BY <1>2, <1>7, <1>8, <1>9, <1>10, <1>11, <1>12, Assembled
<1> QED
  BY <1>9, <1>13 DEF IInv

(* The handler of an act goes on to its end, or it gives up: what is left   *)
(* of calls sent together goes on without it.                               *)
GivesUp(r) ==
  /\ \E rest \in SUBSET ActCalls :
       /\ requests' = (requests \ {r}) \cup rest
       /\ \A c \in rest : /\ c.what = r.what /\ A[r.what].together /\ c.ended
                          /\ c.did = r.did /\ c.left \subseteq r.left
  /\ flags' \in {flags, flags \ Lowered(r, "refused")}
  /\ query' = query /\ surfaces' = surfaces /\ opened' = opened
  /\ sent' = sent /\ shown' = shown /\ gone' = gone

LEMMA RemainingIs ==
  ASSUME TypeOK, NEW r \in requests, r.what \in DOMAIN A, NEW k
  PROVE  /\ Remaining(r, k) \subseteq ActCalls
         /\ \A c \in Remaining(r, k) : /\ c.what = r.what /\ A[r.what].together /\ c.ended
                                       /\ c.did = r.did /\ c.left \subseteq r.left
<1> DEFINE c == [r EXCEPT !.left = @ \ {k}, !.ended = TRUE]
<1>1. r \in ActCalls
  BY CallTypes
<1>2. PICK w, n, q, d, did, left, ended :
        r = [what |-> w, n |-> n, q |-> q, d |-> d, did |-> did, left |-> left,
             ended |-> ended]
  BY <1>1 DEF ActCalls
<1>3. c = [what |-> r.what, n |-> r.n, q |-> r.q, d |-> r.d, did |-> r.did,
           left |-> r.left \ {k}, ended |-> TRUE]
  <2>1. \A x, y :
          [[what |-> w, n |-> n, q |-> q, d |-> d, did |-> did, left |-> left,
            ended |-> ended] EXCEPT !.left = x, !.ended = y]
            \in [what : {w}, n : {n}, q : {q}, d : {d}, did : {did}, left : {x}, ended : {y}]
    OBVIOUS
  <2>2. \A x, y : \A z \in
          [what : {w}, n : {n}, q : {q}, d : {d}, did : {did}, left : {x}, ended : {y}] :
            z = [what |-> w, n |-> n, q |-> q, d |-> d, did |-> did, left |-> x, ended |-> y]
    OBVIOUS
  <2>3. c = [r EXCEPT !.left = r.left \ {k}, !.ended = TRUE]
    OBVIOUS
  <2>4. r.what = w /\ r.n = n /\ r.q = q /\ r.d = d /\ r.did = did
    BY <1>2
  <2> HIDE DEF c
  <2> QED
    BY <1>2, <2>1, <2>2, <2>3, <2>4
<1>4. c \in ActCalls
  BY <1>1, <1>3 DEF ActCalls
<1>5. c.what = r.what /\ c.ended /\ c.did = r.did /\ c.left \subseteq r.left
  BY <1>3
<1> HIDE DEF c
<1>6. Remaining(r, k) = IF A[r.what].together THEN {c} ELSE {}
  BY DEF Remaining, c
<1> QED
  BY <1>4, <1>5, <1>6

LEMMA ActStep ==
  ASSUME TypeOK, NEW r \in requests, ActDone(r) \/ ActRefused(r)
  PROVE  /\ r.what \in DOMAIN A /\ page' = page /\ asking' = asking
         /\ log' = log /\ events' = events /\ failures' \in 0..MaxFailures
         /\ \/ \E refused \in SUBSET {r.what} :
                 Conclude(r, refused) /\ (refused = {} \/ A[r.what].blind)
            \/ GivesUp(r) /\ (r.left # {} \/ r.ended)
<1>1. r.what \in DOMAIN A /\ page' = page /\ asking' = asking /\ log' = log /\ events' = events
  BY DEF ActDone, ActRefused, Conclude, user
<1>2. failures' \in 0..MaxFailures
  BY Found, Counted DEF ActDone, ActRefused
<1>3. CASE ActDone(r)
  <2>1. CASE ~r.ended
    <3>1. Conclude(r, {})
      BY <1>3, <2>1 DEF ActDone
    <3> QED
      BY <1>1, <1>2, <3>1
  <2>2. CASE r.ended
    <3>1. PICK rest : rest = {}
      OBVIOUS
    <3>2. requests' = (requests \ {r}) \cup rest /\ flags' = flags
          /\ query' = query /\ surfaces' = surfaces /\ opened' = opened
          /\ sent' = sent /\ shown' = shown /\ gone' = gone
      BY <1>3, <2>2, <3>1 DEF ActDone, user
    <3>3. GivesUp(r)
      BY <3>1, <3>2 DEF GivesUp
    <3> QED
      BY <1>1, <1>2, <2>2, <3>3
  <2> QED
    BY <2>1, <2>2
<1>4. CASE ActRefused(r)
  <2>1. CASE A[r.what].blind
    <3>1. Conclude(r, {r.what}) /\ {r.what} \in SUBSET {r.what}
      BY <1>4, <2>1 DEF ActRefused
    <3> QED
      BY <1>1, <1>2, <2>1, <3>1
  <2>2. CASE ~A[r.what].blind
    <3>1. PICK k \in Ready(r) : requests' = (requests \ {r}) \cup Remaining(r, k)
      BY <1>4, <2>2 DEF ActRefused
    <3>2. flags' \in {flags, flags \ Lowered(r, "refused")}
          /\ query' = query /\ surfaces' = surfaces /\ opened' = opened
          /\ sent' = sent /\ shown' = shown /\ gone' = gone
      BY <1>4, <2>2 DEF ActRefused
    <3>3. GivesUp(r)
      BY <1>1, <3>1, <3>2, RemainingIs DEF GivesUp
    <3> QED
      BY <1>1, <1>2, <3>1, <3>3, ReadyIsLeft
  <2> QED
    BY <2>1, <2>2
<1> QED
  BY <1>3, <1>4

LEMMA GivenUpLoads ==
  ASSUME TypeOK, NEW r \in requests, r.what \in DOMAIN A, GivesUp(r)
  PROVE  /\ requests \ {r} \subseteq requests'
         /\ \A c \in requests' : c.what \in DOMAIN L => c \in requests
<1>1. DOMAIN L \cap DOMAIN A = {}
  BY Found, Named
<1>2. PICK rest : /\ requests' = (requests \ {r}) \cup rest
                  /\ \A c \in rest : c.what = r.what
  BY DEF GivesUp
<1> QED
  BY <1>1, <1>2

LEMMA ActTypes ==
  ASSUME IInv, NEW r \in requests, ActDone(r) \/ ActRefused(r)
  PROVE  IInv'
<1>1. TypeOK /\ Base(surfaces)
  BY DEF IInv
<1>2. /\ r.what \in DOMAIN A /\ page' = page /\ asking' = asking
      /\ log' = log /\ events' = events /\ failures' \in 0..MaxFailures
  BY <1>1, ActStep
<1>3. ASSUME NEW refused \in SUBSET {r.what}, Conclude(r, refused)
      PROVE  IInv'
  <2>1. refused \in SUBSET DOMAIN A
    BY <1>2
  <2> QED
    BY <1>2, <1>3, <2>1, ConcludeTypes
<1>4. CASE GivesUp(r)
  <2>1. PICK rest \in SUBSET ActCalls :
          /\ requests' = (requests \ {r}) \cup rest /\ \A c \in rest : c.what = r.what
    BY <1>4 DEF GivesUp
  <2>2. /\ flags' \subseteq flags /\ query' = query /\ surfaces' = surfaces
        /\ opened' = opened /\ sent' = sent /\ shown' = shown /\ gone' = gone
    BY <1>4 DEF GivesUp
  <2>3. query' \in query..1 /\ opened' \in Nat /\ opened <= opened'
        /\ Len(log) <= Len(log)' /\ Len(log)' \in Nat
    BY <1>1, <1>2, <2>2, Found, Numbers
  <2>4. requests' \subseteq (LoadCalls \cup ActCalls)'
    <3>1. requests \subseteq (LoadCalls \cup ActCalls)'
      BY <1>1, <1>2, <2>3, CallsKept
    <3>2. ActCalls' = ActCalls
      BY <1>2, <2>2, SamePage DEF ActCalls
    <3> QED
      BY <2>1, <3>1, <3>2
  <2>5. \A s \in requests' : s.what \in DOMAIN L => s \in requests
    BY <1>1, <1>2, <2>1, CallTypes
  <2>6. TypeOK'
    BY <1>1, <1>2, <2>2, <2>3, <2>4, <2>5, Found, Assembled
  <2>7. Base(surfaces)'
    BY <1>1, <1>2, <2>2, SamePage DEF Base
  <2> QED
    BY <2>6, <2>7 DEF IInv
<1> QED
  BY <1>1, <1>3, <1>4, ActStep

(* What follows a load, by what it waits for.                               *)
LEMMA Continued ==
  ASSUME TypeOK, NEW r \in requests, r.what \in DOMAIN L, NEW ls \in SUBSET DOMAIN L, Continue(r, ls)
  PROVE  \E es \in SUBSET DOMAIN L, owed \in Owes : \E lowered :
           /\ Send(es, r.q, r.d, requests \ {r}, lowered, owed)
           /\ ls \subseteq es
           /\ \/ /\ L[r.what].waits /\ ls # {} /\ es = ls /\ lowered = {}
                 /\ owed.lowers = r.owed.lowers \cup Flag(L[r.what].flag)
                 /\ owed.sends = r.owed.sends
              \/ /\ r.owed.sends # {} /\ es = ls \cup r.owed.sends
                 /\ lowered = {L[r.what].flag}
                 /\ owed.lowers = r.owed.lowers /\ owed.sends = {}
              \/ /\ r.owed.sends = {} /\ es = ls
                 /\ lowered = {L[r.what].flag} \cup r.owed.lowers
                 /\ owed.lowers = {} /\ owed.sends = {}
<1> DEFINE l == L[r.what]
<1>1. r \in LoadCalls
  BY CallTypes
<1>2. r.owed \in Owes
  BY <1>1 DEF LoadCalls, Owes
<1>3. Flag(l.flag) \subseteq FlagNames
  BY FlagsOfLoads
<1>4. /\ [r.owed EXCEPT !.lowers = @ \cup Flag(l.flag)] \in Owes
      /\ [r.owed EXCEPT !.lowers = @ \cup Flag(l.flag)].lowers = r.owed.lowers \cup Flag(l.flag)
      /\ [r.owed EXCEPT !.lowers = @ \cup Flag(l.flag)].sends = r.owed.sends
  BY <1>2, <1>3 DEF Owes
<1>5. /\ [r.owed EXCEPT !.sends = {}] \in Owes
      /\ [r.owed EXCEPT !.sends = {}].lowers = r.owed.lowers
      /\ [r.owed EXCEPT !.sends = {}].sends = {}
  BY <1>2 DEF Owes
<1>6. Nothing \in Owes /\ Nothing.lowers = {} /\ Nothing.sends = {}
  BY DEF Nothing, Owes
<1>7. r.owed.sends \in SUBSET DOMAIN L /\ ls \cup r.owed.sends \in SUBSET DOMAIN L
  BY <1>2 DEF Owes
<1>8. CASE l.waits /\ ls # {}
  <2>1. Send(ls, r.q, r.d, requests \ {r}, {}, [r.owed EXCEPT !.lowers = @ \cup Flag(l.flag)])
    BY <1>8 DEF Continue
  <2> QED
    BY <1>4, <1>8, <2>1
<1>9. CASE ~(l.waits /\ ls # {}) /\ r.owed.sends # {}
  <2>1. Send(ls \cup r.owed.sends, r.q, r.d, requests \ {r}, {l.flag}, [r.owed EXCEPT !.sends = {}])
    BY <1>9 DEF Continue
  <2> QED
    BY <1>5, <1>7, <1>9, <2>1
<1>10. CASE ~(l.waits /\ ls # {}) /\ r.owed.sends = {}
  <2>1. Send(ls, r.q, r.d, requests \ {r}, {l.flag} \cup r.owed.lowers, Nothing)
    BY <1>10 DEF Continue
  <2> QED
    BY <1>6, <1>10, <2>1
<1> QED
  BY <1>8, <1>9, <1>10

LEMMA ContinueTypes ==
  ASSUME TypeOK, NEW r \in requests, r.what \in DOMAIN L, NEW ls \in SUBSET DOMAIN L, Continue(r, ls),
         page' = page, log' = log, query' = query, opened' \in Nat, opened <= opened'
  PROVE  /\ requests' \subseteq (LoadCalls \cup ActCalls)'
         /\ sent' \in [DOMAIN L -> Nat] /\ \A l \in DOMAIN L : sent[l] <= sent'[l]
         /\ \A s \in requests' : s.what \in DOMAIN L => s.n <= sent'[s.what]
         /\ flags' \subseteq FlagNames \ {Blank}
<1>1. PICK es \in SUBSET DOMAIN L, owed \in Owes : \E lowered :
        Send(es, r.q, r.d, requests \ {r}, lowered, owed)
  BY Continued
<1>2. r \in LoadCalls
  BY CallTypes
<1>3. r.q \in 0..query /\ r.d \in 0..opened
  BY <1>2 DEF LoadCalls
<1>4. r.q \in 0..query' /\ r.d \in 0..opened' /\ query' \in query..1
  BY <1>3, Numbers
<1>5. PICK q, d, kept : q = r.q /\ d = r.d /\ kept = requests \ {r}
  OBVIOUS
<1>6. PICK lowered : Send(es, q, d, kept, lowered, owed) /\ kept \subseteq requests
                     /\ q \in 0..query' /\ d \in 0..opened'
  BY <1>1, <1>4, <1>5
<1> QED
  BY <1>4, <1>6, SendTypes

(* The dialog a load opens.                                                 *)
LEMMA OpensTypes ==
  ASSUME IInv, page' = page, NEW name, name = Blank \/ PartsOn(name) # {}, Opens(name)
  PROVE  /\ opened' \in Nat /\ opened <= opened' /\ surfaces' # {}
         /\ surfaces' \subseteq Surfaces(opened') /\ Base(surfaces)'
<1>1. TypeOK /\ Base(surfaces) /\ opened \in Nat
  BY Numbers DEF IInv
<1>2. CASE name = Blank \/ name = Top.on
  <2>1. surfaces' = surfaces /\ opened' = opened
    BY <1>2 DEF Opens
  <2> QED
    BY <1>1, <2>1, Found, SamePage DEF Base
<1>3. CASE ~(name = Blank \/ name = Top.on)
  <2>1. surfaces' = Over(name, surfaces) /\ opened' = opened + 1
    BY <1>3 DEF Opens
  <2>2. Over(name, surfaces) \subseteq Surfaces(opened + 1) /\ Base(Over(name, surfaces))
    BY <1>1, <1>3, LaidOver
  <2>3. Base(surfaces') /\ surfaces' # {}
    BY <2>1, <2>2 DEF Base
  <2> QED
    BY <1>1, <2>1, <2>2, <2>3, SamePage DEF Base
<1> QED
  BY <1>2, <1>3

(* An answer that is dropped.                                               *)
LEMMA DroppedTypes ==
  ASSUME IInv, page' = page, query' = query, asking' = asking, events' = events, log' = log,
         gone' = gone, failures' \in 0..MaxFailures, NEW r, requests' = requests \ {r},
         flags' = flags, sent' = sent, shown' = shown, surfaces' = surfaces, opened' = opened
  PROVE  IInv'
<1>1. TypeOK /\ Base(surfaces)
  BY DEF IInv
<1>2. query' \in query..1 /\ opened' \in Nat /\ opened <= opened'
      /\ Len(log) <= Len(log)' /\ Len(log)' \in Nat
  BY <1>1, Found, Numbers
<1>3. requests' \subseteq (LoadCalls \cup ActCalls)'
  BY <1>1, <1>2, CallsKept
<1>4. TypeOK'
  BY <1>1, <1>2, <1>3, Found, Assembled
<1>5. Base(surfaces)'
  BY <1>1, SamePage DEF Base
<1> QED
  BY <1>4, <1>5 DEF IInv

LEMMA LoadCallTypes ==
  ASSUME TypeOK, NEW r \in requests, r.what \in DOMAIN L
  PROVE  /\ r.n \in Nat /\ r.n <= sent[r.what] /\ r.key \in Nat /\ r.from \in 0..Len(log)
         /\ r.q \in 0..query /\ r.d \in 0..opened /\ r.owed \in Owes
<1>1. r \in LoadCalls /\ r.n <= sent[r.what]
  BY CallTypes
<1> QED
  BY <1>1 DEF LoadCalls, Owes

LEMMA LoadDoneTypes ==
  ASSUME IInv, NEW r \in requests, LoadDone(r)
  PROVE  IInv'
<1> DEFINE l == L[r.what]
<1>1. /\ r.what \in DOMAIN L /\ page' = page /\ query' = query /\ asking' = asking
      /\ events' = events /\ log' = log /\ gone' = gone /\ failures' = failures
  BY DEF LoadDone
<1>2. TypeOK /\ Base(surfaces)
  BY DEF IInv
<1>3. CASE Dropped(r)
  <2>1. /\ requests' = requests \ {r} /\ flags' = flags /\ sent' = sent /\ shown' = shown
        /\ surfaces' = surfaces /\ opened' = opened
    BY <1>3 DEF LoadDone
  <2>2. failures' \in 0..MaxFailures
    BY <1>1, <1>2, Found
  <2> QED
    BY <1>1, <2>1, <2>2, DroppedTypes
<1>4. CASE ~Dropped(r)
  <2>1. PICK seen \in r.from..Len(log) :
          shown' = [shown EXCEPT ![r.what] =
                      [n |-> r.n, key |-> r.key, has |-> 1..seen, believes |-> {},
                       ok |-> TRUE, failed |-> FALSE, late |-> ~Due(r)]]
    BY <1>4 DEF LoadDone
  <2>2. Opens(l.opens) /\ Continue(r, l.next)
    BY <1>4 DEF LoadDone
  <2>3. /\ r.n \in Nat /\ r.n <= sent[r.what] /\ r.key \in Nat /\ r.from \in 0..Len(log)
        /\ Len(log) \in Nat
    BY <1>1, <1>2, LoadCallTypes, Numbers
  <2>4. l.next \in SUBSET DOMAIN L /\ (l.opens = Blank \/ PartsOn(l.opens) # {})
    BY <1>1, <1>2, Found, Named
  <2>5. /\ opened' \in Nat /\ opened <= opened' /\ surfaces' # {}
        /\ surfaces' \subseteq Surfaces(opened') /\ Base(surfaces)'
    BY <1>1, <2>2, <2>4, OpensTypes
  <2>6. /\ requests' \subseteq (LoadCalls \cup ActCalls)'
        /\ sent' \in [DOMAIN L -> Nat] /\ \A k \in DOMAIN L : sent[k] <= sent'[k]
        /\ \A s \in requests' : s.what \in DOMAIN L => s.n <= sent'[s.what]
        /\ flags' \subseteq FlagNames \ {Blank}
    BY <1>1, <1>2, <2>2, <2>4, <2>5, ContinueTypes
  <2>7. [n |-> r.n, key |-> r.key, has |-> 1..seen, believes |-> {},
         ok |-> TRUE, failed |-> FALSE, late |-> ~Due(r)] \in PanelStates
    <3>1. 1..seen \in SUBSET (1..Len(log))
      BY <2>1, <2>3
    <3> QED
      BY <2>3, <3>1 DEF PanelStates
  <2>8. shown' \in [DOMAIN L -> PanelStates] /\ \A k \in DOMAIN L : shown'[k].n <= sent'[k]
    <3>1. PICK s \in PanelStates : s.n = r.n /\ shown' = [shown EXCEPT ![r.what] = s]
      BY <2>1, <2>7
    <3>2. shown \in [DOMAIN L -> PanelStates] /\ \A k \in DOMAIN L : shown[k].n <= sent'[k]
      BY <1>2, <2>6, Found, PanelsBehind
    <3>3. r.n <= sent'[r.what]
      BY <1>1, <1>2, <2>3, <2>6, Found
    <3> QED
      BY <1>1, <3>1, <3>2, <3>3
  <2>9. /\ query' \in query..1 /\ gone' \in BOOLEAN /\ asking' \in DOMAIN A \cup {Blank}
        /\ events' \in 0..MaxEvents[page.name] /\ failures' \in 0..MaxFailures
    BY <1>1, <1>2, Found
  <2>10. TypeOK'
    BY <1>1, <1>2, <2>5, <2>6, <2>8, <2>9, Assembled
  <2> QED
    BY <2>5, <2>10 DEF IInv
<1> QED
  BY <1>3, <1>4

LEMMA LoadFailedTypes ==
  ASSUME IInv, NEW r \in requests, LoadFailed(r)
  PROVE  IInv'
<1> DEFINE l == L[r.what]
           name == IF l.always THEN l.opens ELSE Blank
           ls == IF l.always THEN l.next ELSE {}
<1>1. /\ r.what \in DOMAIN L /\ page' = page /\ query' = query /\ asking' = asking
      /\ events' = events /\ log' = log /\ gone' = gone /\ Refusal
  BY DEF LoadFailed
<1>2. TypeOK /\ Base(surfaces)
  BY DEF IInv
<1>3. failures' \in 0..MaxFailures
  BY <1>1, <1>2, Counted
<1>4. CASE Dropped(r)
  <2>1. /\ requests' = requests \ {r} /\ flags' = flags /\ sent' = sent /\ shown' = shown
        /\ surfaces' = surfaces /\ opened' = opened
    BY <1>4 DEF LoadFailed
  <2> QED
    BY <1>1, <1>3, <2>1, DroppedTypes
<1>5. CASE ~Dropped(r)
  <2>1. shown' = [shown EXCEPT ![r.what].n = r.n,
                               ![r.what].failed = TRUE,
                               ![r.what].ok = @ /\ l.fails = "keep"]
    BY <1>5 DEF LoadFailed
  <2>2. Opens(name) /\ Continue(r, ls)
    BY <1>5 DEF LoadFailed
  <2>3. r.n \in Nat /\ r.n <= sent[r.what]
    BY <1>1, <1>2, LoadCallTypes
  <2>4. ls \in SUBSET DOMAIN L /\ (name = Blank \/ PartsOn(name) # {})
    BY <1>1, <1>2, Found, Named
  <2> HIDE DEF ls, name
  <2>5. /\ opened' \in Nat /\ opened <= opened' /\ surfaces' # {}
        /\ surfaces' \subseteq Surfaces(opened') /\ Base(surfaces)'
    BY <1>1, <2>2, <2>4, OpensTypes
  <2>6. /\ requests' \subseteq (LoadCalls \cup ActCalls)'
        /\ sent' \in [DOMAIN L -> Nat] /\ \A k \in DOMAIN L : sent[k] <= sent'[k]
        /\ \A s \in requests' : s.what \in DOMAIN L => s.n <= sent'[s.what]
        /\ flags' \subseteq FlagNames \ {Blank}
    BY <1>1, <1>2, <2>2, <2>4, <2>5, ContinueTypes
  <2>7. shown' \in [DOMAIN L -> PanelStates] /\ \A k \in DOMAIN L : shown'[k].n <= sent'[k]
    <3>1. shown \in [DOMAIN L -> PanelStates] /\ shown[r.what] \in PanelStates
      BY <1>1, <1>2, Found
    <3>2. PICK s \in PanelStates : s.n = r.n /\ shown' = [shown EXCEPT ![r.what] = s]
      <4> DEFINE s == [shown[r.what] EXCEPT !.n = r.n, !.failed = TRUE, !.ok = @ /\ l.fails = "keep"]
      <4>1. s \in PanelStates /\ s.n = r.n
        BY <2>3, <3>1 DEF PanelStates
      <4>2. shown' = [shown EXCEPT ![r.what] = s]
        BY <2>1, <3>1, <1>1
      <4> QED
        BY <4>1, <4>2
    <3>3. \A k \in DOMAIN L : shown[k].n <= sent'[k]
      BY <1>2, <2>6, PanelsBehind
    <3>4. r.n <= sent'[r.what]
      BY <1>1, <1>2, <2>3, <2>6, Found
    <3> QED
      BY <1>1, <3>1, <3>2, <3>3, <3>4
  <2>8. /\ query' \in query..1 /\ gone' \in BOOLEAN /\ asking' \in DOMAIN A \cup {Blank}
        /\ events' \in 0..MaxEvents[page.name]
    BY <1>1, <1>2, Found
  <2>9. TypeOK'
    BY <1>1, <1>2, <1>3, <2>5, <2>6, <2>7, <2>8, Assembled
  <2> QED
    BY <2>5, <2>9 DEF IInv
<1> QED
  BY <1>4, <1>5

-----------------------------------------------------------------------------
(* Type correctness.                                                        *)

(* The first calls are those of the effects that run at first.              *)
LEMMA AtFirst ==
  ASSUME Init
  PROVE  \A r \in requests :
           /\ r.what \in By("mount") /\ r.what \in DOMAIN L /\ r.what \notin DOMAIN A
           /\ r.n \in 1..2 /\ r.n <= sent[r.what]
           /\ r.n # 1 => "remount" \in L[r.what].by
           /\ r = [what |-> r.what, n |-> r.n, key |-> 0, q |-> 0, d |-> 0, from |-> 0,
                  owed |-> Nothing]
<1>1. /\ page \in Catalogue /\ requests = Mounted("mount", 1) \cup Mounted("remount", 2)
      /\ sent = [l \in DOMAIN L |-> IF "remount" \in L[l].by THEN 2
                                    ELSE IF "mount" \in L[l].by THEN 1 ELSE 0]
  BY DEF Init
<1>2. DOMAIN L \cap DOMAIN A = {} /\ \A l \in DOMAIN L : "remount" \in L[l].by => "mount" \in L[l].by
  BY <1>1, Named
<1> DEFINE c(l, n) == [what |-> l, n |-> n, key |-> 0, q |-> 0, d |-> 0, from |-> 0,
                       owed |-> Nothing]
<1>3. ASSUME NEW r \in Mounted("mount", 1)
      PROVE  \E l \in DOMAIN L : "mount" \in L[l].by /\ r = c(l, 1)
  BY <1>3 DEF Mounted, By
<1>4. ASSUME NEW r \in Mounted("remount", 2)
      PROVE  \E l \in DOMAIN L : "mount" \in L[l].by /\ "remount" \in L[l].by /\ r = c(l, 2)
  BY <1>2, <1>4 DEF Mounted, By
<1>5. \A l, n : c(l, n).what = l /\ c(l, n).n = n
  OBVIOUS
<1>6. ASSUME NEW r \in requests
      PROVE  \E l \in DOMAIN L, n \in 1..2 :
               /\ "mount" \in L[l].by /\ (n # 1 => "remount" \in L[l].by) /\ n <= sent[l]
               /\ r = c(l, n)
  <2>1. CASE r \in Mounted("mount", 1)
    <3>1. PICK l \in DOMAIN L : "mount" \in L[l].by /\ r = c(l, 1)
      BY <1>3, <2>1
    <3>2. 1 <= sent[l] /\ 1 \in 1..2
      BY <1>1, <3>1
    <3> QED
      BY <3>1, <3>2
  <2>2. CASE r \in Mounted("remount", 2)
    <3>1. PICK l \in DOMAIN L : "mount" \in L[l].by /\ "remount" \in L[l].by /\ r = c(l, 2)
      BY <1>4, <2>2
    <3>2. 2 <= sent[l] /\ 2 \in 1..2
      BY <1>1, <3>1
    <3> QED
      BY <3>1, <3>2
  <2> QED
    BY <1>1, <1>6, <2>1, <2>2
<1> TAKE r \in requests
<1>7. PICK l \in DOMAIN L, n \in 1..2 :
        /\ "mount" \in L[l].by /\ (n # 1 => "remount" \in L[l].by) /\ n <= sent[l]
        /\ r = c(l, n)
  BY <1>6
<1>8. r.what = l /\ r.n = n
  BY <1>5, <1>7
<1> QED
  BY <1>2, <1>7, <1>8 DEF By

LEMMA InitTypes ==
  ASSUME Init
  PROVE  IInv
<1> DEFINE ls == By("mount")
<1>1. /\ page \in Catalogue /\ query = 0 /\ opened = 0 /\ asking = Blank /\ gone = FALSE
      /\ surfaces = {[on |-> "page", n |-> 0]} /\ log = <<>> /\ events = 0 /\ failures = 0
      /\ flags = UNION {Flag(L[l].flag) : l \in ls}
      /\ sent = [l \in DOMAIN L |-> IF "remount" \in L[l].by THEN 2
                                    ELSE IF "mount" \in L[l].by THEN 1 ELSE 0]
      /\ shown = [l \in DOMAIN L |-> [n |-> 0, key |-> 0, has |-> {}, believes |-> {},
                                      ok |-> FALSE, failed |-> FALSE, late |-> FALSE]]
  BY DEF Init
<1>2. ls \subseteq DOMAIN L /\ \A l \in ls : "mount" \in L[l].by
  BY DEF By
<1>3. PartsOn("page") # {} /\ \A p \in PartsOn("page") : p.kind # "dialog"
  BY <1>1, Named
<1>4. Base(surfaces) /\ surfaces # {}
  BY <1>1, <1>3 DEF Base
<1>5. surfaces \subseteq [on : {p.on : p \in page.parts}, n : 0..opened]
  BY <1>1, <1>3 DEF PartsOn
<1>6. Len(log) = 0 /\ log \in Seq([act : DOMAIN A, of : SUBSET STRING])
  BY <1>1
<1>7. Nothing \in [lowers : SUBSET FlagNames, sends : SUBSET DOMAIN L]
  BY DEF Nothing
<1> HIDE DEF ls
<1>8. ASSUME NEW r \in requests
      PROVE  r.n <= sent[r.what] /\ r \in LoadCalls
  <2>1. /\ r.what \in DOMAIN L /\ r.n \in Nat /\ r.n <= sent[r.what]
        /\ r = [what |-> r.what, n |-> r.n, key |-> 0, q |-> 0, d |-> 0, from |-> 0,
               owed |-> Nothing]
    BY AtFirst
  <2>2. 0 \in 0..query /\ 0 \in 0..opened /\ 0 \in 0..Len(log)
    BY <1>1, <1>6
  <2>3. ASSUME NEW l \in DOMAIN L, NEW n \in Nat
        PROVE  [what |-> l, n |-> n, key |-> 0, q |-> 0, d |-> 0, from |-> 0,
                owed |-> Nothing] \in LoadCalls
    BY <1>7, <2>2 DEF LoadCalls
  <2> QED
    BY <2>1, <2>3
<1>9. sent \in [DOMAIN L -> Nat]
  BY <1>1
<1>10. shown \in [DOMAIN L -> PanelStates] /\ \A l \in DOMAIN L : shown[l].n <= sent[l]
  <2>1. [n |-> 0, key |-> 0, has |-> {}, believes |-> {}, ok |-> FALSE, failed |-> FALSE,
         late |-> FALSE] \in PanelStates
    BY DEF PanelStates
  <2> QED
    BY <1>1, <1>9, <2>1
<1>11. flags \subseteq FlagNames \ {Blank}
  BY <1>1, <1>2, FlagsOfLoads
<1>12. events \in 0..MaxEvents[page.name] /\ failures \in 0..MaxFailures
  BY <1>1, Named, FailuresAssumption
<1>13. TypeOK
  <2>1. requests \subseteq LoadCalls \cup ActCalls /\ \A r \in requests : r.what \in DOMAIN L => r.n <= sent[r.what]
    BY <1>8
  <2>2. query \in 0..1 /\ opened \in Nat /\ gone \in BOOLEAN /\ asking \in DOMAIN A \cup {Blank}
        /\ page \in Catalogue
    <3>1. page \in Catalogue /\ query = 0 /\ opened = 0 /\ asking = Blank
      BY <1>1
    <3>2. gone \in BOOLEAN
      <4>1. gone = FALSE
        BY <1>1
      <4> QED
        BY <4>1
    <3> QED
      BY <3>1, <3>2
  <2> QED
    BY <2>2, <1>4, <1>5, <1>6, <1>9, <1>10, <1>11, <1>12, <2>1 DEF TypeOK
<1> QED
  BY <1>4, <1>13 DEF IInv

LEMMA StutterTypes ==
  ASSUME IInv, UNCHANGED vars
  PROVE  IInv'
<1>1. TypeOK /\ Base(surfaces)
  BY DEF IInv
<1>2. /\ page' = page /\ query' = query /\ surfaces' = surfaces /\ opened' = opened
      /\ asking' = asking /\ flags' = flags /\ requests' = requests /\ sent' = sent
      /\ shown' = shown /\ log' = log /\ gone' = gone /\ events' = events /\ failures' = failures
  BY DEF vars
<1>3. query' \in query..1 /\ opened' \in Nat /\ opened <= opened'
      /\ Len(log) <= Len(log)' /\ Len(log)' \in Nat
  BY <1>1, <1>2, Found, Numbers
<1>4. requests' \subseteq (LoadCalls \cup ActCalls)'
  BY <1>1, <1>2, <1>3, CallsKept
<1>5. TypeOK'
  BY <1>1, <1>2, <1>3, <1>4, Found, Assembled
<1>6. Base(surfaces)'
  BY <1>1, <1>2, SamePage DEF Base
<1> QED
  BY <1>5, <1>6 DEF IInv

LEMMA Inductive ==
  ASSUME IInv, [Next]_vars
  PROVE  IInv'
<1>1. CASE UserStep
  BY <1>1, ChangeQueryTypes, CloseTypes, RefreshTypes, OpenTypes, SubmitTypes, ConfirmTypes DEF UserStep
<1>2. CASE Answer
  BY <1>2, ServeTypes, ActTypes, LoadDoneTypes, LoadFailedTypes DEF Answer
<1>3. CASE UNCHANGED vars
  BY <1>3, StutterTypes
<1> QED
  BY <1>1, <1>2, <1>3 DEF Next

LEMMA Invariance == Spec => []IInv
<1>1. Init => IInv
  BY InitTypes
<1>2. IInv /\ [Next]_vars => IInv'
  BY Inductive
<1> QED
  BY <1>1, <1>2, PTL DEF Spec

(* Whatever page it is, its variables keep their types: a call is one of    *)
(* the page's loads or acts, what a panel shows is what the server had done *)
(* and no newer than the last call of its load, a call comes from filters   *)
(* and a dialog the page has had.                                           *)
THEOREM TypeCorrect == Spec => []TypeOK
<1>1. IInv => TypeOK
  BY DEF IInv
<1> QED
  BY <1>1, Invariance, PTL

-----------------------------------------------------------------------------
(* What the panels take for done.                                           *)

(* Handlers that go on although a call was refused are the only ones from   *)
(* which a panel takes over what was not done.                              *)
Hidden(l) == {a \in DOMAIN A : A[a].blind /\ l \in A[a].patch}

LEMMA HiddenPretends ==
  ASSUME page \in Catalogue, NEW l, NEW a \in Hidden(l)
  PROVE  <<page.name, a, l>> \in Pretends
BY PretendsAssumption DEF Hidden, A

LEMMA PanelsKeepBelief ==
  ASSUME TypeOK, NEW ls, NEW l \in DOMAIN L
  PROVE  Emptied(ls)[l].believes = shown[l].believes
<1>1. shown \in [DOMAIN L -> PanelStates]
  BY Found
<1>2. [shown[l] EXCEPT !.ok = FALSE].believes = shown[l].believes
  BY <1>1 DEF PanelStates
<1> QED
  BY <1>2 DEF Emptied

LEMMA PatchedBelief ==
  ASSUME TypeOK, NEW a \in DOMAIN A, NEW done, NEW refused, refused = {} \/ (A[a].blind /\ refused = {a}),
         NEW l \in DOMAIN L
  PROVE  Patched(a, done, refused)[l].believes \subseteq shown[l].believes \cup Hidden(l)
<1>1. shown \in [DOMAIN L -> PanelStates]
  BY Found
<1>2. [shown[l] EXCEPT !.has = @ \cup done, !.believes = @ \cup refused].believes
      = shown[l].believes \cup refused
  BY <1>1 DEF PanelStates
<1>3. CASE l \in A[a].patch /\ shown[l].ok
  <2>1. Patched(a, done, refused)[l].believes = shown[l].believes \cup refused
    BY <1>2, <1>3 DEF Patched
  <2>2. refused \subseteq Hidden(l)
    BY <1>3 DEF Hidden
  <2> QED
    BY <2>1, <2>2
<1>4. CASE ~(l \in A[a].patch /\ shown[l].ok)
  <2>1. Patched(a, done, refused)[l] = shown[l]
    BY <1>4 DEF Patched
  <2> QED
    BY <2>1
<1> QED
  BY <1>3, <1>4

LEMMA ConcludeBelief ==
  ASSUME TypeOK, NEW r \in requests, r.what \in DOMAIN A, NEW refused, Conclude(r, refused),
         refused = {} \/ (A[r.what].blind /\ refused = {r.what}), NEW l \in DOMAIN L
  PROVE  shown'[l].believes \subseteq shown[l].believes \cup Hidden(l)
<1>1. shown' = Patched(r.what, r.did, refused)
  BY DEF Conclude, Patched
<1> QED
  BY <1>1, PatchedBelief

LEMMA StepBelief ==
  ASSUME IInv, [Next]_vars, NEW l \in DOMAIN L
  PROVE  shown'[l].believes \subseteq shown[l].believes \cup Hidden(l)
<1>1. TypeOK
  BY DEF IInv
<1>2. CASE \E ls : shown' = Emptied(ls)
  BY <1>1, <1>2, PanelsKeepBelief
<1>3. CASE shown' = shown
  BY <1>3
<1>5. ASSUME NEW r \in requests, ActDone(r) \/ ActRefused(r)
      PROVE  shown'[l].believes \subseteq shown[l].believes \cup Hidden(l)
  <2>1. ASSUME NEW refused \in SUBSET {r.what}, Conclude(r, refused),
               refused = {} \/ A[r.what].blind
        PROVE  shown'[l].believes \subseteq shown[l].believes \cup Hidden(l)
    <3>1. r.what \in DOMAIN A /\ (refused = {} \/ (A[r.what].blind /\ refused = {r.what}))
      BY <1>1, <1>5, <2>1, ActStep
    <3> QED
      BY <1>1, <2>1, <3>1, ConcludeBelief
  <2>2. CASE GivesUp(r)
    BY <2>2 DEF GivesUp
  <2> QED
    BY <1>1, <1>5, <2>1, <2>2, ActStep
<1>6. ASSUME NEW r \in requests, LoadDone(r)
      PROVE  shown'[l].believes \subseteq shown[l].believes \cup Hidden(l)
  <2>1. CASE Dropped(r)
    BY <1>6, <2>1 DEF LoadDone
  <2>2. CASE ~Dropped(r)
    <3>1. PICK s : s.believes = {} /\ shown' = [shown EXCEPT ![r.what] = s]
      BY <1>6, <2>2 DEF LoadDone
    <3> QED
      BY <1>1, <3>1, Found
  <2> QED
    BY <2>1, <2>2
<1>7. ASSUME NEW r \in requests, LoadFailed(r)
      PROVE  shown'[l].believes \subseteq shown[l].believes \cup Hidden(l)
  <2>1. CASE Dropped(r)
    BY <1>7, <2>1 DEF LoadFailed
  <2>2. CASE ~Dropped(r)
    <3>1. shown' = [shown EXCEPT ![r.what].n = r.n,
                                 ![r.what].failed = TRUE,
                                 ![r.what].ok = @ /\ L[r.what].fails = "keep"]
      BY <1>7, <2>2 DEF LoadFailed
    <3>2. shown \in [DOMAIN L -> PanelStates]
      BY <1>1, Found
    <3> QED
      BY <3>1, <3>2 DEF PanelStates
  <2> QED
    BY <2>1, <2>2
<1>8. CASE UserStep
  <2>1. (\E ls : shown' = Emptied(ls)) \/ shown' = shown
    BY <1>8 DEF UserStep, ChangeQuery, Close, Refresh, Open, Submit, Confirm
  <2> QED
    BY <1>2, <1>3, <2>1
<1>9. CASE Answer
  <2>1. PICK r \in requests :
          \/ Serve(r) \/ ActDone(r) \/ ActRefused(r) \/ LoadDone(r) \/ LoadFailed(r)
    BY <1>9 DEF Answer
  <2>2. CASE Serve(r)
    BY <1>3, <2>2 DEF Serve
  <2> QED
    BY <1>5, <1>6, <1>7, <2>1, <2>2
<1>10. CASE UNCHANGED vars
  BY <1>3, <1>10 DEF vars
<1> QED
  BY <1>8, <1>9, <1>10 DEF Next

(* The page is the one chosen at first.                                     *)
LEMMA PageStays ==
  ASSUME [Next]_vars
  PROVE  page' = page
BY DEF Next, vars, UserStep, Answer, ChangeQuery, Close, Refresh, Open, Submit, Confirm, Serve,
       ActDone, ActRefused, LoadDone, LoadFailed

LEMMA BelievedHolds == Spec => []Believed
<1>1. Init => Believed
  BY DEF Init, Believed
<1>2. ASSUME IInv, Believed, [Next]_vars
      PROVE  Believed'
  <2>1. page' = page /\ L' = L /\ page \in Catalogue
    BY <1>2, PageStays, SamePage DEF IInv, TypeOK
  <2> SUFFICES ASSUME NEW l \in DOMAIN L, NEW a \in shown'[l].believes
               PROVE  <<page.name, a, l>> \in Pretends
    BY <2>1 DEF Believed
  <2>2. a \in shown[l].believes \/ a \in Hidden(l)
    BY <1>2, StepBelief
  <2> QED
    BY <1>2, <2>1, <2>2, HiddenPretends DEF Believed
<1> QED
  BY <1>1, <1>2, Invariance, PTL DEF Spec

(* On every page, a panel shows as done what the server refused only where  *)
(* Pretends says that a handler hides the refusal.                          *)
THEOREM OnlyDoneIsShown == Spec => []ShowsOnlyDone
<1>1. IInv /\ Believed => ShowsOnlyDone
  <2> SUFFICES ASSUME IInv, Believed, NEW l \in Panels, NEW a \in shown[l].believes
               PROVE  <<page.name, a, l>> \in Pretends
    BY DEF ShowsOnlyDone
  <2>1. l \in DOMAIN L
    BY Named DEF Panels, Visible, PartsOn, IInv, TypeOK
  <2> QED
    BY <2>1 DEF Believed
<1> QED
  BY <1>1, Invariance, BelievedHolds, PTL

-----------------------------------------------------------------------------
(* Busy flags.                                                              *)

LEMMA SameHolds ==
  ASSUME page' = page
  PROVE  /\ \A r, f : Holds(r, f)' = Holds(r, f)
         /\ \A f : Guards(page, f)' = Guards(page, f)
BY SamePage DEF Holds, IsAct, Guards

LEMMA GuardsSays ==
  ASSUME NEW f, Guards(page, f)
  PROVE  /\ \A l \in DOMAIN L : L[l].flag # f /\ (L[l].waits => One(L[l].next))
         /\ \A p \in page.parts : f \notin p.own
         /\ \A p \in page.parts : \A a \in DOMAIN A \cap DOMAIN p.offers :
              A[a].flag = f => f \in p.hides \cup p.offers[a]
         /\ \A a \in DOMAIN A : A[a].flag = f => ~A[a].together
         /\ \A a \in DOMAIN A : A[a].flag = f /\ A[a].waits =>
              /\ One(A[a].then) /\ One(A[a].after) /\ A[a].opens = Blank
              /\ A[a].after # {} => \A l \in A[a].then : L[l].next = {}
BY DEF Guards, L, A

(* A flag that lives in no dialog is not lost with one.                     *)
LEMMA NotLost ==
  ASSUME page' = page, NEW f, Guards(page, f)
  PROVE  f \notin Unmounted /\ \A raised : f \notin Remounted(raised)
BY GuardsSays DEF Unmounted, Own, Remounted

(* Calls that go away take nothing from the others.                         *)
LEMMA FewerHeld ==
  ASSUME NEW f, Held(f), page' = page, requests' \subseteq requests, asking' \in {asking, Blank},
         \A r \in requests' : Holds(r, f) => f \in flags'
  PROVE  Held(f)'
<1>1. L' = L /\ A' = A /\ \A r : Holds(r, f)' = Holds(r, f)
  BY SamePage, SameHolds
<1> QED
  BY <1>1 DEF Held, One

(* Loads are sent, and what the flag guards ends with the last of them.     *)
LEMMA SendHeld ==
  ASSUME TypeOK, NEW f, f # Blank, Guards(page, f), Held(f), page' = page, asking' = asking,
         NEW ls, NEW q, NEW d, NEW kept, NEW lowered, NEW owed,
         ls \subseteq DOMAIN L, kept \subseteq requests, Send(ls, q, d, kept, lowered, owed),
         \A r \in kept : Holds(r, f) => f \notin lowered /\ f \notin owed.lowers,
         f \in owed.lowers =>
           /\ f \notin lowered /\ f \in flags /\ One(ls) /\ One(owed.sends)
           /\ owed.sends # {} => \A l \in ls : L[l].next = {}
           /\ asking # Blank => A[asking].flag # f
  PROVE  Held(f)'
<1>1. /\ requests' = kept \cup {Call(l, q, d, owed) : l \in ls}
      /\ f \in flags /\ f \notin lowered => f \in flags'
  BY NotLost DEF Send
<1>2. DOMAIN L \cap DOMAIN A = {}
  BY Found, Named
<1>3. \A l \in ls : Call(l, q, d, owed).what = l /\ Call(l, q, d, owed).owed = owed
  BY DEF Call
<1>4. \A l \in ls : Holds(Call(l, q, d, owed), f) <=> f \in owed.lowers
  BY <1>2, <1>3 DEF Holds, IsAct
<1>5. L' = L /\ A' = A /\ \A r : Holds(r, f)' = Holds(r, f)
  BY SamePage, SameHolds
<1>6. CASE f \notin owed.lowers
  <2>1. \A r \in requests' : Holds(r, f) => r \in kept
    BY <1>1, <1>4, <1>6
  <2>2. \A r \in requests' : r.what \in DOMAIN L /\ f \in r.owed.lowers => r \in kept
    BY <2>1 DEF Holds
  <2> QED
    BY <1>1, <1>5, <2>1, <2>2 DEF Held, One
<1>7. CASE f \in owed.lowers
  <2>1. \A r \in requests' : Holds(r, f) => \E l \in ls : r = Call(l, q, d, owed)
    BY <1>1, <1>7
  <2>2. \A r, s \in requests' : Holds(r, f) /\ Holds(s, f) => r = s
    BY <1>7, <2>1 DEF One
  <2>3. f \in flags'
    BY <1>1, <1>7
  <2>4. \A r \in requests' : r.what \in DOMAIN L /\ f \in r.owed.lowers =>
          One(r.owed.sends) /\ (r.owed.sends # {} => L[r.what].next = {})
    BY <1>3, <1>7, <2>1 DEF Holds
  <2>5. asking # Blank => A[asking].flag # f
    BY <1>7
  <2> QED
    BY <1>5, <2>2, <2>3, <2>4, <2>5 DEF Held, One
<1> QED
  BY <1>6, <1>7

(* An act is sent while nothing is under way that the flag guards.          *)
LEMMA SendActHeld ==
  ASSUME TypeOK, NEW f, f # Blank, Guards(page, f), Held(f), page' = page,
         NEW a \in DOMAIN A, SendAct(a), asking' = Blank,
         A[a].flag = f => \A r \in requests : ~Holds(r, f)
  PROVE  Held(f)'
<1> DEFINE c == [what |-> a, n |-> events', q |-> query, d |-> Top.n,
                 did |-> {}, left |-> DOMAIN A[a].steps, ended |-> FALSE]
<1>1. requests' = requests \cup {c} /\ flags' = (flags \cup Flag(A[a].flag)) \ Unmounted
  BY DEF SendAct
<1>2. c.what = a
  OBVIOUS
<1> HIDE DEF c
<1>3. DOMAIN L \cap DOMAIN A = {}
  BY Found, Named
<1>4. Holds(c, f) <=> A[a].flag = f
  BY <1>2, <1>3 DEF Holds, IsAct
<1>5. (f \in flags => f \in flags') /\ (A[a].flag = f => f \in flags')
  BY <1>1, NotLost DEF Flag
<1>6. L' = L /\ A' = A /\ \A r : Holds(r, f)' = Holds(r, f)
  BY SamePage, SameHolds
<1>7. c.what \notin DOMAIN L
  BY <1>2, <1>3
<1>8. \A r, s \in requests' : Holds(r, f) /\ Holds(s, f) => r = s
  BY <1>1, <1>4 DEF Held
<1>9. \A r \in requests' : Holds(r, f) => f \in flags'
  BY <1>1, <1>4, <1>5 DEF Held
<1> QED
  BY <1>1, <1>6, <1>7, <1>8, <1>9 DEF Held, One

(* What follows a load keeps the flag up until the last of it is over.      *)
LEMMA ContinueHeld ==
  ASSUME TypeOK, NEW f, f # Blank, Guards(page, f), Held(f), page' = page, asking' = asking,
         NEW r \in requests, r.what \in DOMAIN L, NEW ls \in SUBSET L[r.what].next, Continue(r, ls)
  PROVE  Held(f)'
<1>1. L[r.what].flag # f /\ (L[r.what].waits => One(L[r.what].next))
  BY GuardsSays
<1>2. ls \in SUBSET DOMAIN L
  BY Found, Named
<1>3. PICK es \in SUBSET DOMAIN L, owed \in Owes : \E lowered :
        /\ Send(es, r.q, r.d, requests \ {r}, lowered, owed)
        /\ ls \subseteq es
        /\ \/ /\ L[r.what].waits /\ ls # {} /\ es = ls /\ lowered = {}
              /\ owed.lowers = r.owed.lowers \cup Flag(L[r.what].flag)
              /\ owed.sends = r.owed.sends
           \/ /\ r.owed.sends # {} /\ es = ls \cup r.owed.sends
              /\ lowered = {L[r.what].flag}
              /\ owed.lowers = r.owed.lowers /\ owed.sends = {}
           \/ /\ r.owed.sends = {} /\ es = ls
              /\ lowered = {L[r.what].flag} \cup r.owed.lowers
              /\ owed.lowers = {} /\ owed.sends = {}
  BY <1>2, Continued
<1>4. PICK q, d, kept : q = r.q /\ d = r.d /\ kept = requests \ {r}
  OBVIOUS
<1>5. PICK lowered :
        /\ Send(es, q, d, kept, lowered, owed)
        /\ \/ /\ L[r.what].waits /\ ls # {} /\ es = ls /\ lowered = {}
              /\ owed.lowers = r.owed.lowers \cup Flag(L[r.what].flag)
              /\ owed.sends = r.owed.sends
           \/ /\ r.owed.sends # {} /\ es = ls \cup r.owed.sends
              /\ lowered = {L[r.what].flag}
              /\ owed.lowers = r.owed.lowers /\ owed.sends = {}
           \/ /\ r.owed.sends = {} /\ es = ls
              /\ lowered = {L[r.what].flag} \cup r.owed.lowers
              /\ owed.lowers = {} /\ owed.sends = {}
  BY <1>3, <1>4
<1>6. f \notin Flag(L[r.what].flag)
  BY <1>1 DEF Flag
<1>7. f \in r.owed.lowers =>
        /\ Holds(r, f) /\ f \in flags /\ One(r.owed.sends)
        /\ r.owed.sends # {} => L[r.what].next = {}
        /\ asking # Blank => A[asking].flag # f
  BY DEF Held, Holds
<1>8. \A s \in kept : Holds(s, f) => f \notin r.owed.lowers
  BY <1>4 DEF Held, Holds
<1>9. \A s \in kept : Holds(s, f) => f \notin lowered /\ f \notin owed.lowers
  BY <1>1, <1>5, <1>6, <1>8
<1>10. f \in owed.lowers => f \in r.owed.lowers /\ f \notin lowered
  BY <1>1, <1>5, <1>6
<1>11. f \in owed.lowers => One(es) /\ One(owed.sends)
  BY <1>1, <1>5, <1>7, <1>10 DEF One
<1>12. f \in owed.lowers /\ owed.sends # {} => \A l \in es : L[l].next = {}
  BY <1>5, <1>7, <1>10
<1> QED
  BY <1>4, <1>5, <1>7, <1>9, <1>10, <1>11, <1>12, SendHeld

(* Nothing of what a flag guards is under way while a control that sends it *)
(* can be used.                                                             *)
LEMMA EnabledFree ==
  ASSUME TypeOK, NEW f, Guards(page, f), Held(f), NEW a \in DOMAIN A, A[a].flag = f, Enabled(a)
  PROVE  \A r \in requests : ~Holds(r, f)
<1>1. PICK p \in page.parts : p.hides \cap flags = {} /\ a \in DOMAIN p.offers
                              /\ p.offers[a] \cap flags = {}
  BY DEF Enabled, Visible, PartsOn
<1>2. f \in p.hides \cup p.offers[a]
  BY <1>1, GuardsSays
<1> QED
  BY <1>1, <1>2 DEF Held

LEMMA SubmitHeld ==
  ASSUME TypeOK, NEW f, f # Blank, Guards(page, f), Held(f), NEW a \in DOMAIN A, Submit(a)
  PROVE  Held(f)'
<1>1. page' = page /\ Enabled(a) /\ asking = Blank
  BY DEF Submit, Enabled
<1>2. A[a].flag = f => \A r \in requests : ~Holds(r, f)
  BY <1>1, EnabledFree
<1>3. CASE A[a].asks
  <2>1. asking' = a /\ flags' = flags \ Unmounted /\ requests' = requests
    BY <1>3 DEF Submit
  <2>2. L' = L /\ A' = A /\ \A r : Holds(r, f)' = Holds(r, f)
    BY <1>1, SamePage, SameHolds
  <2>3. \A r \in requests' : Holds(r, f) => f \in flags'
    BY <1>1, <2>1, NotLost DEF Held
  <2> QED
    BY <1>2, <2>1, <2>2, <2>3 DEF Held, One
<1>4. CASE ~A[a].asks
  <2>1. SendAct(a) /\ asking' = Blank
    BY <1>1, <1>4 DEF Submit
  <2> QED
    BY <1>1, <1>2, <2>1, SendActHeld
<1> QED
  BY <1>3, <1>4

LEMMA ConfirmHeld ==
  ASSUME TypeOK, NEW f, f # Blank, Guards(page, f), Held(f), NEW yes \in BOOLEAN, Confirm(yes)
  PROVE  Held(f)'
<1>1. page' = page /\ asking' = Blank /\ asking # Blank /\ asking \in DOMAIN A
  BY Found DEF Confirm
<1>2. CASE yes
  <2>1. PICK a \in DOMAIN A : a = asking
    BY <1>1
  <2>2. SendAct(a)
    BY <1>2, <2>1 DEF Confirm
  <2>3. A[a].flag = f => \A r \in requests : ~Holds(r, f)
    BY <1>1, <2>1 DEF Held
  <2> QED
    BY <1>1, <2>2, <2>3, SendActHeld
<1>3. CASE ~yes
  <2>1. requests' = requests /\ flags' = flags
    BY <1>3 DEF Confirm
  <2>2. \A r \in requests' : Holds(r, f) => f \in flags'
    BY <2>1 DEF Held
  <2> QED
    BY <1>1, <2>1, <2>2, FewerHeld
<1> QED
  BY <1>2, <1>3

(* A handler's end lowers the flag, or hands it to the loads it waits for.  *)
LEMMA ConcludeHeld ==
  ASSUME TypeOK, NEW f, f # Blank, Guards(page, f), Held(f), page' = page, asking' = asking,
         NEW r \in requests, r.what \in DOMAIN A, NEW refused, Conclude(r, refused)
  PROVE  Held(f)'
<1> DEFINE a == A[r.what]
           left == Without(a.closes)
           follows == a.opens # Blank /\ (a.closes = Blank \/ left # surfaces)
           waiting == IF a.waits /\ a.then # {} THEN Lowered(r, "done") ELSE {}
<1>1. \/ gone' /\ requests' = requests \ {r} /\ sent' = sent /\ flags' = flags
      \/ \E ls, q, d, lowered, owed :
           /\ Send(ls, q, d, requests \ {r}, lowered, owed)
           /\ ls = a.then \cup (IF follows THEN Brought(a.opens) ELSE {})
           /\ lowered = Lowered(r, "done") \ waiting
           /\ owed = [lowers |-> waiting, sends |-> a.after]
  BY Concluded
<1>2. CASE gone' /\ requests' = requests \ {r} /\ sent' = sent /\ flags' = flags
  <2>1. \A s \in requests' : Holds(s, f) => f \in flags'
    BY <1>2 DEF Held
  <2> QED
    BY <1>2, <2>1, FewerHeld
<1>3. ASSUME NEW ls, NEW q, NEW d, NEW lowered, NEW owed,
             Send(ls, q, d, requests \ {r}, lowered, owed),
             ls = a.then \cup (IF follows THEN Brought(a.opens) ELSE {}),
             lowered = Lowered(r, "done") \ waiting,
             owed = [lowers |-> waiting, sends |-> a.after]
      PROVE  Held(f)'
  <2>1. PICK kept : kept = requests \ {r}
    OBVIOUS
  <2>2. Lowered(r, "done") \subseteq Flag(a.flag) /\ (f \in Flag(a.flag) => a.flag = f)
    BY LoweredTypes DEF Flag
  <2>3. f \in Lowered(r, "done") => a.flag = f /\ Holds(r, f) /\ f \in flags
    BY <2>2 DEF Flag, Holds, IsAct, Held
  <2>4. \A s \in kept : Holds(s, f) => ~Holds(r, f)
    BY <2>1 DEF Held
  <2>5. owed.lowers = waiting /\ owed.sends = a.after
    BY <1>3
  <2>6. f \in waiting => f \in Lowered(r, "done") /\ a.waits /\ f \notin lowered
    BY <1>3
  <2>7. \A s \in kept : Holds(s, f) => f \notin lowered /\ f \notin owed.lowers
    BY <1>3, <2>3, <2>4, <2>5, <2>6
  <2>8. ls \subseteq DOMAIN L
    BY <1>3, Found, Named, BroughtAreLoads
  <2>9. ASSUME f \in owed.lowers
        PROVE  /\ f \notin lowered /\ f \in flags /\ One(ls) /\ One(owed.sends)
               /\ owed.sends # {} => \A l \in ls : L[l].next = {}
               /\ asking # Blank => A[asking].flag # f
    <3>1. a.flag = f /\ a.waits /\ Holds(r, f) /\ f \in flags /\ f \notin lowered
      BY <2>3, <2>5, <2>6, <2>9
    <3>2. One(a.then) /\ One(a.after) /\ a.opens = Blank
          /\ (a.after # {} => \A l \in a.then : L[l].next = {})
      BY <3>1, GuardsSays
    <3>3. ls = a.then
      BY <1>3, <3>2
    <3>4. asking # Blank => A[asking].flag # f
      BY <3>1 DEF Held
    <3> QED
      BY <2>5, <3>1, <3>2, <3>3, <3>4
  <2> QED
    BY <1>3, <2>1, <2>7, <2>8, <2>9, SendHeld
<1> QED
  BY <1>1, <1>2, <1>3

(* What goes on without its handler holds no flag that Guards speaks of.    *)
LEMMA ActHeld ==
  ASSUME TypeOK, NEW f, f # Blank, Guards(page, f), Held(f), NEW r \in requests,
         ActDone(r) \/ ActRefused(r)
  PROVE  Held(f)'
<1>1. r.what \in DOMAIN A /\ page' = page /\ asking' = asking
  BY ActStep
<1>2. ASSUME NEW refused, Conclude(r, refused)
      PROVE  Held(f)'
  BY <1>1, <1>2, ConcludeHeld
<1>3. CASE GivesUp(r)
  <2>1. PICK rest : /\ requests' = (requests \ {r}) \cup rest
                    /\ \A c \in rest : c.what = r.what /\ A[r.what].together
    BY <1>3 DEF GivesUp
  <2>2. \A c \in rest : ~Holds(c, f) /\ c.what \notin DOMAIN L
    <3>1. A[r.what].together => A[r.what].flag # f
      BY <1>1, GuardsSays
    <3>2. r.what \notin DOMAIN L
      BY <1>1, CallTypes
    <3> QED
      BY <2>1, <3>1, <3>2 DEF Holds, IsAct
  <2>3. f \in Lowered(r, "refused") => Holds(r, f)
    BY <1>1, LoweredTypes DEF Flag, Holds, IsAct
  <2>4. \A s \in requests' : Holds(s, f) => s \in requests /\ s # r
    BY <2>1, <2>2
  <2>5. flags' = flags \/ flags' = flags \ Lowered(r, "refused")
    BY <1>3 DEF GivesUp
  <2>6. \A s \in requests' : Holds(s, f) => f \in flags'
    BY <2>3, <2>4, <2>5 DEF Held
  <2>7. L' = L /\ A' = A /\ \A s : Holds(s, f)' = Holds(s, f)
    BY <1>1, SamePage, SameHolds
  <2>8. \A s \in requests' : s.what \in DOMAIN L => s \in requests
    BY <2>1, <2>2
  <2> QED
    BY <1>1, <2>4, <2>6, <2>7, <2>8 DEF Held, One
<1> QED
  BY <1>2, <1>3, ActStep

LEMMA LoadHeld ==
  ASSUME TypeOK, NEW f, f # Blank, Guards(page, f), Held(f), NEW r \in requests,
         LoadDone(r) \/ LoadFailed(r)
  PROVE  Held(f)'
<1>1. r.what \in DOMAIN L /\ page' = page /\ asking' = asking
  BY DEF LoadDone, LoadFailed
<1>2. CASE Dropped(r)
  <2>1. requests' = requests \ {r} /\ flags' = flags
    BY <1>2 DEF LoadDone, LoadFailed
  <2>2. \A s \in requests' : Holds(s, f) => f \in flags'
    BY <2>1 DEF Held
  <2> QED
    BY <1>1, <2>1, <2>2, FewerHeld
<1>3. CASE ~Dropped(r)
  <2>1. \E ls \in SUBSET L[r.what].next : Continue(r, ls)
    <3>1. CASE LoadDone(r)
      <4>1. Continue(r, L[r.what].next)
        BY <1>3, <3>1 DEF LoadDone
      <4> QED
        BY <4>1
    <3>2. CASE LoadFailed(r)
      <4>1. Continue(r, IF L[r.what].always THEN L[r.what].next ELSE {})
        BY <1>3, <3>2 DEF LoadFailed
      <4>2. (IF L[r.what].always THEN L[r.what].next ELSE {}) \in SUBSET L[r.what].next
        OBVIOUS
      <4> QED
        BY <4>1, <4>2
    <3> QED
      BY <3>1, <3>2
  <2> QED
    BY <1>1, <2>1, ContinueHeld
<1> QED
  BY <1>2, <1>3

(* A call carried out is the same call.                                     *)
LEMMA ServeHeld ==
  ASSUME TypeOK, NEW f, f # Blank, Guards(page, f), Held(f), NEW r \in requests, Serve(r)
  PROVE  Held(f)'
<1>1. r.what \in DOMAIN A /\ page' = page /\ asking' = asking /\ flags' = flags
  BY DEF Serve, user
<1>2. PICK s : s.what = r.what /\ requests' = (requests \ {r}) \cup {s}
  <2>1. PICK k \in Ready(r) : requests' = (requests \ {r}) \cup {Carried(r, k)}
    BY DEF Serve, Carried
  <2>2. Carried(r, k).what = r.what
    BY <1>1, CarriedIs
  <2> QED
    BY <2>1, <2>2
<1>3. DOMAIN L \cap DOMAIN A = {}
  BY Found, Named
<1>4. (Holds(s, f) <=> Holds(r, f)) /\ s.what \notin DOMAIN L
  BY <1>1, <1>2, <1>3 DEF Holds, IsAct
<1>5. L' = L /\ A' = A /\ \A x : Holds(x, f)' = Holds(x, f)
  BY <1>1, SamePage, SameHolds
<1>6. \A x, y \in requests' : Holds(x, f) /\ Holds(y, f) => x = y
  BY <1>1, <1>2, <1>4 DEF Held
<1>7. \A x \in requests' : Holds(x, f) => f \in flags'
  BY <1>1, <1>2, <1>4 DEF Held
<1>8. asking # Blank /\ A[asking].flag = f => \A x \in requests' : ~Holds(x, f)
  BY <1>1, <1>2, <1>4 DEF Held
<1> QED
  BY <1>1, <1>2, <1>4, <1>5, <1>6, <1>7, <1>8 DEF Held, One

LEMMA NothingOwed == Nothing.lowers = {} /\ Nothing.sends = {}
BY DEF Nothing

LEMMA UserHeld ==
  ASSUME TypeOK, NEW f, f # Blank, Guards(page, f), Held(f), UserStep
  PROVE  Held(f)'
<1>1. ASSUME NEW ls \in SUBSET DOMAIN L, NEW q, NEW d, page' = page, asking' = asking,
             Send(ls, q, d, requests, {}, Nothing)
      PROVE  Held(f)'
  <2>1. PICK kept, lowered, owed : kept = requests /\ lowered = {} /\ owed = Nothing
    OBVIOUS
  <2>2. Send(ls, q, d, kept, lowered, owed) /\ kept \subseteq requests
        /\ f \notin lowered /\ f \notin owed.lowers
    BY <1>1, <2>1, NothingOwed
  <2> QED
    BY <1>1, <2>2, SendHeld
<1>2. CASE ChangeQuery
  <2>1. By("query") \in SUBSET DOMAIN L
    BY Found, BroughtAreLoads
  <2>2. \E q, d : Send(By("query"), q, d, requests, {}, Nothing)
    BY <1>2 DEF ChangeQuery
  <2>3. page' = page /\ asking' = asking
    BY <1>2 DEF ChangeQuery
  <2> QED
    BY <1>1, <2>1, <2>2, <2>3
<1>3. ASSUME NEW l \in DOMAIN L, Refresh(l)
      PROVE  Held(f)'
  <2>1. {l} \in SUBSET DOMAIN L /\ page' = page /\ asking' = asking
    BY <1>3 DEF Refresh
  <2>2. \E q, d : Send({l}, q, d, requests, {}, Nothing)
    BY <1>3 DEF Refresh
  <2> QED
    BY <1>1, <2>1, <2>2
<1>4. ASSUME NEW name, Open(name)
      PROVE  Held(f)'
  <2>1. Brought(name) \in SUBSET DOMAIN L /\ page' = page /\ asking' = asking
    BY <1>4, Found, BroughtAreLoads DEF Open
  <2>2. \E q, d : Send(Brought(name), q, d, requests, {}, Nothing)
    BY <1>4 DEF Open
  <2> QED
    BY <1>1, <2>1, <2>2
<1>5. CASE Close
  <2>1. page' = page /\ asking' = asking /\ requests' = requests /\ flags' = flags \ Unmounted
    BY <1>5 DEF Close
  <2>2. \A r \in requests' : Holds(r, f) => f \in flags'
    BY <2>1, NotLost DEF Held
  <2> QED
    BY <2>1, <2>2, FewerHeld
<1>6. ASSUME NEW a \in DOMAIN A, Submit(a)
      PROVE  Held(f)'
  BY <1>6, SubmitHeld
<1>7. ASSUME NEW yes \in BOOLEAN, Confirm(yes)
      PROVE  Held(f)'
  BY <1>7, ConfirmHeld
<1> QED
  BY <1>2, <1>3, <1>4, <1>5, <1>6, <1>7 DEF UserStep

LEMMA StepHeld ==
  ASSUME TypeOK, NEW f, f # Blank, Guards(page, f), Held(f), [Next]_vars
  PROVE  Held(f)'
<1>1. CASE UserStep
  BY <1>1, UserHeld
<1>2. CASE Answer
  <2>1. PICK r \in requests :
          \/ Serve(r) \/ ActDone(r) \/ ActRefused(r) \/ LoadDone(r) \/ LoadFailed(r)
    BY <1>2 DEF Answer
  <2> QED
    BY <2>1, ServeHeld, ActHeld, LoadHeld
<1>3. CASE UNCHANGED vars
  <2>1. page' = page /\ asking' = asking /\ requests' = requests /\ flags' = flags
    BY <1>3 DEF vars
  <2>2. \A r \in requests' : Holds(r, f) => f \in flags'
    BY <2>1 DEF Held
  <2> QED
    BY <2>1, <2>2, FewerHeld
<1> QED
  BY <1>1, <1>2, <1>3 DEF Next

(* At first there is nothing for a flag to guard.                           *)
LEMMA InitHeld == Init => HeldInv
<1> SUFFICES ASSUME Init
             PROVE  HeldInv
  OBVIOUS
<1>1. page \in Catalogue /\ asking = Blank
  BY DEF Init
<1>2. \A r \in requests : r.what \notin DOMAIN A /\ r.owed.lowers = {}
  BY AtFirst, NothingOwed
<1>3. \A f : \A r \in requests : ~Holds(r, f)
  BY <1>2 DEF Holds, IsAct
<1> QED
  BY <1>1, <1>2, <1>3 DEF HeldInv, Held

LEMMA HeldInvariance == Spec => []HeldInv
<1>1. ASSUME IInv, HeldInv, [Next]_vars
      PROVE  HeldInv'
  <2>1. page' = page /\ FlagNames' = FlagNames /\ TypeOK
    BY <1>1, PageStays, SamePage DEF IInv
  <2> SUFFICES ASSUME NEW f \in FlagNames \ {Blank}, Guards(page, f)
               PROVE  Held(f)'
    BY <2>1, SameHolds DEF HeldInv
  <2>2. Held(f)
    BY <1>1 DEF HeldInv
  <2> QED
    BY <1>1, <2>1, <2>2, StepHeld
<1> QED
  BY <1>1, InitHeld, Invariance, PTL DEF Spec

(* On every page whose busy flags are wired as Guards asks, which is all of *)
(* them but for what Doubled lists, an act is never under way twice.        *)
THEOREM NoneTwice == Spec => []OneAtATime
<1>1. ASSUME TypeOK, HeldInv
      PROVE  OneAtATime
  <2> SUFFICES ASSUME NEW a \in DOMAIN A, A[a].flag # Blank, <<page.name, a>> \notin Doubled
               PROVE  Cardinality({r \in requests : r.what = a}) <= 1
    BY DEF OneAtATime
  <2> DEFINE S == {r \in requests : r.what = a}
  <2>1. Guards(page, A[a].flag) /\ A[a].flag \in FlagNames \ {Blank}
    BY <1>1, Found, DoubledAssumption DEF A, FlagNames
  <2>2. Held(A[a].flag)
    BY <1>1, <2>1 DEF HeldInv
  <2>3. \A r, s \in S : r = s
    BY <2>2 DEF Held, Holds, IsAct
  <2>4. CASE S = {}
    BY <2>4, FS_EmptySet
  <2>5. CASE S # {}
    <3>1. PICK r \in S : S = {r}
      BY <2>3, <2>5
    <3>2. Cardinality({r}) = 1
      BY FS_Singleton
    <3> QED
      BY <3>1, <3>2
  <2> QED
    BY <2>4, <2>5
<1>2. IInv => TypeOK
  BY DEF IInv
<1> QED
  BY <1>1, <1>2, Invariance, HeldInvariance, PTL

-----------------------------------------------------------------------------
(* What the user's acts did is fetched again.                               *)

LEMMA SameOwing ==
  ASSUME page' = page
  PROVE  /\ \A r, i, l : Owing(r, i, l)' = Owing(r, i, l)
         /\ \A a, l : Reloads(page, a, l)' = Reloads(page, a, l)
         /\ log' = log => \A i, l : Awaited(i, l)' = Awaited(i, l)
BY SamePage DEF Owing, Reloads, Awaited

(* A panel that is filled by its last call shows what it showed, or what    *)
(* that call found.                                                         *)
Kept(l) ==
  shown'[l].n = sent[l] /\ shown'[l].ok /\ ~shown'[l].failed =>
    \/ shown[l].n = sent[l] /\ Filled(l) /\ shown[l].has \subseteq shown'[l].has
    \/ \E r \in requests : r.what = l /\ r.n = sent[l] /\ 1..r.from \subseteq shown'[l].has

(* The loads ls are sent, the calls kept stay, and what the others owed is  *)
(* passed on.                                                               *)
LEMMA FetchStep ==
  ASSUME TypeOK, page' = page, log' = log, gone => gone', FetchInv,
         NEW ls, NEW kept \in SUBSET requests, kept \subseteq requests',
         \A r \in requests' \ kept : r.what \in DOMAIN L => r.what \in ls /\ r.from = Len(log),
         sent' = [l \in DOMAIN L |-> IF l \in ls THEN sent[l] + 1 ELSE sent[l]],
         \A l \in DOMAIN L : shown'[l].n <= sent[l] /\ shown'[l].n \in Nat /\ Kept(l),
         \A l \in DOMAIN L : \A i \in 1..Len(log) : \A r \in requests \ kept :
           Awaited(i, l) /\ Owing(r, i, l) => gone' \/ l \in ls \/ Owed(i, l)'
  PROVE  FetchInv'
<1>1. L' = L /\ A' = A
  BY SamePage
<1> SUFFICES ASSUME NEW l \in DOMAIN L, NEW i \in 1..Len(log), Awaited(i, l), ~gone',
                    ~Owed(i, l)'
             PROVE  Fetched(i, l)'
  BY <1>1, SameOwing DEF FetchInv
<1>2. sent[l] \in Nat /\ Len(log) \in Nat
  BY Found, Numbers
<1>3. ASSUME l \in ls
      PROVE  Fetched(i, l)'
  <2>1. sent'[l] = sent[l] + 1 /\ shown'[l].n # sent'[l]
    BY <1>2, <1>3
  <2>2. \A r \in kept : r.what = l => r.n \in Nat /\ r.n <= sent[l]
    BY CallTypes
  <2>3. \A r \in requests' : r.what = l /\ r.n = sent'[l] => r.from = Len(log)
    BY <1>2, <2>1, <2>2
  <2> QED
    BY <1>2, <2>1, <2>3 DEF Fetched
<1>4. ASSUME l \notin ls
      PROVE  Fetched(i, l)'
  <2>1. sent'[l] = sent[l]
    BY <1>4
  <2>2. ~Owed(i, l)
    BY <1>4, SameOwing DEF Owed
  <2>3. Fetched(i, l)
    BY <2>2 DEF FetchInv
  <2>4. \A r \in requests' : r.what = l => r \in requests
    BY <1>4
  <2>5. \A r \in requests' : r.what = l /\ r.n = sent'[l] => i <= r.from
    BY <2>1, <2>3, <2>4 DEF Fetched
  <2>6. ASSUME shown'[l].n = sent[l], shown'[l].ok, ~shown'[l].failed
        PROVE  i \in shown'[l].has
    <3>1. CASE shown[l].n = sent[l] /\ Filled(l) /\ shown[l].has \subseteq shown'[l].has
      BY <2>3, <3>1 DEF Fetched
    <3>2. ASSUME NEW r \in requests, r.what = l, r.n = sent[l], 1..r.from \subseteq shown'[l].has
          PROVE  i \in shown'[l].has
      <4>1. i <= r.from /\ r.from \in Int
        BY <2>3, <3>2, LoadCallTypes DEF Fetched
      <4> QED
        BY <3>2, <4>1
    <3> QED
      BY <2>6, <3>1, <3>2 DEF Kept
  <2> QED
    BY <2>1, <2>5, <2>6 DEF Fetched, Filled
<1> QED
  BY <1>3, <1>4

LEMMA FetchSend ==
  ASSUME TypeOK, page' = page, log' = log, gone => gone', FetchInv,
         NEW ls, NEW q, NEW d, NEW kept \in SUBSET requests, NEW lowered, NEW owed,
         Send(ls, q, d, kept, lowered, owed),
         \A l \in DOMAIN L : shown'[l].n <= sent[l] /\ shown'[l].n \in Nat /\ Kept(l),
         \A l \in DOMAIN L : \A i \in 1..Len(log) : \A r \in requests \ kept :
           Awaited(i, l) /\ Owing(r, i, l) => gone' \/ l \in ls \/ Owed(i, l)'
  PROVE  FetchInv'
<1>1. /\ requests' = kept \cup {Call(l, q, d, owed) : l \in ls}
      /\ sent' = [l \in DOMAIN L |-> IF l \in ls THEN sent[l] + 1 ELSE sent[l]]
  BY DEF Send
<1>2. \A l : Call(l, q, d, owed).what = l /\ Call(l, q, d, owed).from = Len(log)
  BY DEF Call
<1>3. \A r \in requests' \ kept : r.what \in ls /\ r.from = Len(log)
  BY <1>1, <1>2
<1> QED
  BY <1>1, <1>3, FetchStep

LEMMA SameKept ==
  ASSUME TypeOK, NEW l \in DOMAIN L, shown'[l] = shown[l]
  PROVE  shown'[l].n <= sent[l] /\ shown'[l].n \in Nat /\ Kept(l)
BY Found DEF Kept, Filled

LEMMA EmptiedKept ==
  ASSUME TypeOK, NEW ls, shown' = Emptied(ls)
  PROVE  \A l \in DOMAIN L : shown'[l].n <= sent[l] /\ shown'[l].n \in Nat /\ Kept(l)
<1> SUFFICES ASSUME NEW l \in DOMAIN L
             PROVE  shown'[l].n <= sent[l] /\ shown'[l].n \in Nat /\ Kept(l)
  OBVIOUS
<1>1. shown[l] \in PanelStates
  BY Found
<1>2. CASE l \in ls /\ L[l].resets
  <2>1. shown'[l] = [shown[l] EXCEPT !.ok = FALSE]
    BY <1>2 DEF Emptied
  <2>2. ~shown'[l].ok /\ shown'[l].n = shown[l].n
    BY <1>1, <2>1 DEF PanelStates
  <2> QED
    BY <2>2, Found DEF Kept
<1>3. CASE ~(l \in ls /\ L[l].resets)
  <2>1. shown'[l] = shown[l]
    BY <1>3 DEF Emptied
  <2> QED
    BY <2>1, SameKept
<1> QED
  BY <1>2, <1>3

LEMMA PatchedKept ==
  ASSUME TypeOK, NEW a, NEW done \in SUBSET (1..Len(log)), NEW refused,
         shown' = Patched(a, done, refused)
  PROVE  \A l \in DOMAIN L : shown'[l].n <= sent[l] /\ shown'[l].n \in Nat /\ Kept(l)
<1> SUFFICES ASSUME NEW l \in DOMAIN L
             PROVE  shown'[l].n <= sent[l] /\ shown'[l].n \in Nat /\ Kept(l)
  OBVIOUS
<1>1. shown[l] \in PanelStates
  BY Found
<1>2. CASE l \in A[a].patch /\ shown[l].ok
  <2>1. shown'[l] = [shown[l] EXCEPT !.has = @ \cup done, !.believes = @ \cup refused]
    BY <1>2 DEF Patched
  <2>2. /\ shown'[l].n = shown[l].n /\ shown'[l].ok = shown[l].ok
        /\ shown'[l].failed = shown[l].failed /\ shown[l].has \subseteq shown'[l].has
    BY <1>1, <2>1 DEF PanelStates
  <2> QED
    BY <2>2, Found DEF Kept, Filled
<1>3. CASE ~(l \in A[a].patch /\ shown[l].ok)
  <2>1. shown'[l] = shown[l]
    BY <1>3 DEF Patched
  <2> QED
    BY <2>1, SameKept
<1> QED
  BY <1>2, <1>3

(* Acts join the calls under way; no load is sent or answered.              *)
LEMMA FetchJoined ==
  ASSUME TypeOK, page' = page, log' = log, gone' = gone, FetchInv, sent' = sent, shown' = shown,
         requests \subseteq requests', \A r \in requests' \ requests : r.what \in DOMAIN A
  PROVE  FetchInv'
<1>1. PICK ls, kept : ls = {} /\ kept = requests
  OBVIOUS
<1>2. sent' = [l \in DOMAIN L |-> IF l \in ls THEN sent[l] + 1 ELSE sent[l]]
  BY <1>1, Found
<1>3. \A l \in DOMAIN L : shown'[l].n <= sent[l] /\ shown'[l].n \in Nat /\ Kept(l)
  BY SameKept
<1>4. DOMAIN L \cap DOMAIN A = {}
  BY Found, Named
<1> QED
  BY <1>1, <1>2, <1>3, <1>4, FetchStep

LEMMA UserFetch ==
  ASSUME TypeOK, FetchInv, UserStep
  PROVE  FetchInv'
<1>1. ASSUME NEW ls, NEW q, NEW d, page' = page, log' = log, gone' = gone,
             Send(ls, q, d, requests, {}, Nothing), shown' = Emptied(ls)
      PROVE  FetchInv'
  <2>1. PICK kept, lowered, owed : kept = requests /\ lowered = {} /\ owed = Nothing
    OBVIOUS
  <2>2. Send(ls, q, d, kept, lowered, owed) /\ kept \in SUBSET requests
    BY <1>1, <2>1
  <2>3. \A l \in DOMAIN L : shown'[l].n <= sent[l] /\ shown'[l].n \in Nat /\ Kept(l)
    BY <1>1, EmptiedKept
  <2> QED
    BY <1>1, <2>1, <2>2, <2>3, FetchSend
<1>2. CASE ChangeQuery
  <2>1. \E q, d : Send(By("query"), q, d, requests, {}, Nothing)
    BY <1>2 DEF ChangeQuery
  <2> QED
    BY <1>1, <1>2, <2>1 DEF ChangeQuery
<1>3. ASSUME NEW l \in DOMAIN L, Refresh(l)
      PROVE  FetchInv'
  <2>1. \E q, d : Send({l}, q, d, requests, {}, Nothing)
    BY <1>3 DEF Refresh
  <2> QED
    BY <1>1, <1>3, <2>1 DEF Refresh
<1>4. ASSUME NEW name, Open(name)
      PROVE  FetchInv'
  <2>1. \E q, d : Send(Brought(name), q, d, requests, {}, Nothing)
    BY <1>4 DEF Open
  <2> QED
    BY <1>1, <1>4, <2>1 DEF Open
<1>5. CASE Close
  BY <1>5, FetchJoined DEF Close
<1>6. ASSUME NEW a \in DOMAIN A, SendAct(a)
      PROVE  requests \subseteq requests' /\ \A r \in requests' \ requests : r.what \in DOMAIN A
  BY <1>6 DEF SendAct
<1>7. ASSUME NEW a \in DOMAIN A, Submit(a)
      PROVE  FetchInv'
  <2>1. requests' = requests \/ SendAct(a)
    BY <1>7 DEF Submit
  <2> QED
    BY <1>6, <1>7, <2>1, FetchJoined DEF Submit
<1>8. ASSUME NEW yes \in BOOLEAN, Confirm(yes)
      PROVE  FetchInv'
  <2>1. asking \in DOMAIN A /\ (requests' = requests \/ SendAct(asking))
    BY <1>8, Found DEF Confirm
  <2> QED
    BY <1>6, <1>8, <2>1, FetchJoined DEF Confirm
<1> QED
  BY <1>2, <1>3, <1>4, <1>5, <1>7, <1>8 DEF UserStep

(* What an act owes is one of its own steps.                                *)
LEMMA OwnStep ==
  ASSUME TypeOK, DoneInv, NEW r \in requests, r.what \in DOMAIN A, NEW i, NEW l, Owing(r, i, l)
  PROVE  \E k \in DOMAIN A[r.what].steps \ r.left :
           log[i].act = r.what /\ log[i].of = A[r.what].steps[k]
<1>1. i \in r.did
  BY CallTypes DEF Owing
<1>2. PICK k \in DOMAIN A[r.what].steps \ r.left : log[i] = Step(r.what, k)
  BY <1>1 DEF DoneInv
<1> QED
  BY <1>2 DEF Step

LEMMA ConcludeFetch ==
  ASSUME TypeOK, FetchInv, DoneInv, page' = page, log' = log,
         NEW r \in requests, r.what \in DOMAIN A, NEW refused, Conclude(r, refused)
  PROVE  FetchInv'
<1> DEFINE a == A[r.what]
           left == Without(a.closes)
           follows == a.opens # Blank /\ (a.closes = Blank \/ left # surfaces)
           waiting == IF a.waits /\ a.then # {} THEN Lowered(r, "done") ELSE {}
<1>1. /\ gone' = (gone \/ a.goes) /\ shown' = Patched(r.what, r.did, refused)
      /\ \/ gone'
         \/ \E ls, q, d, lowered, owed :
              /\ Send(ls, q, d, requests \ {r}, lowered, owed)
              /\ ls = a.then \cup (IF follows THEN Brought(a.opens) ELSE {})
              /\ owed = [lowers |-> waiting, sends |-> a.after]
  BY Concluded
<1>2. CASE gone'
  BY <1>2 DEF FetchInv
<1>3. ASSUME ~gone', NEW ls, NEW q, NEW d, NEW lowered, NEW owed,
             Send(ls, q, d, requests \ {r}, lowered, owed),
             ls = a.then \cup (IF follows THEN Brought(a.opens) ELSE {}),
             owed = [lowers |-> waiting, sends |-> a.after]
      PROVE  FetchInv'
  <2> HIDE DEF left, follows, waiting
  <2>1. PICK kept \in SUBSET requests : kept = requests \ {r}
    OBVIOUS
  <2>2. \A l \in DOMAIN L : shown'[l].n <= sent[l] /\ shown'[l].n \in Nat /\ Kept(l)
    BY <1>1, DoneTypes, PatchedKept
  <2>3. ASSUME NEW l \in DOMAIN L, NEW i \in 1..Len(log), Awaited(i, l), Owing(r, i, l)
        PROVE  l \in ls \/ Owed(i, l)'
    <3>1. log[i].act = r.what
      BY <2>3, OwnStep
    <3>2. l \in a.then \cup a.after
      BY <1>1, <1>3, <2>3, <3>1 DEF Awaited, Reloads, A
    <3>3. ASSUME l \in a.after
          PROVE  Owed(i, l)'
      <4>1. PICK x \in a.then : x \in DOMAIN L
        BY <3>3, Found, Named
      <4>2. Call(x, q, d, owed) \in requests'
        BY <1>3, <4>1 DEF Send
      <4>3. Owing(Call(x, q, d, owed), i, l)
        BY <1>3, <3>3, <4>1 DEF Owing, Call
      <4> QED
        BY <4>2, <4>3, SameOwing DEF Owed
    <3> QED
      BY <1>3, <3>2, <3>3
  <2>4. gone => gone'
    BY <1>1
  <2>5. Send(ls, q, d, kept, lowered, owed)
    BY <1>3, <2>1
  <2>6. \A l \in DOMAIN L : \A i \in 1..Len(log) : \A s \in requests \ kept :
          Awaited(i, l) /\ Owing(s, i, l) => gone' \/ l \in ls \/ Owed(i, l)'
    BY <2>1, <2>3
  <2> QED
    BY <2>2, <2>4, <2>5, <2>6, FetchSend
<1> QED
  BY <1>1, <1>2, <1>3

LEMMA ActFetch ==
  ASSUME TypeOK, FetchInv, DoneInv, NEW r \in requests, ActDone(r) \/ ActRefused(r)
  PROVE  FetchInv'
<1>1. /\ r.what \in DOMAIN A /\ page' = page /\ log' = log
      /\ \/ \E refused : Conclude(r, refused)
         \/ GivesUp(r) /\ (r.left # {} \/ r.ended)
  BY ActStep
<1>2. CASE \E refused : Conclude(r, refused)
  BY <1>1, <1>2, ConcludeFetch
<1>3. CASE GivesUp(r) /\ (r.left # {} \/ r.ended)
  <2>1. PICK rest \in SUBSET ActCalls : requests' = (requests \ {r}) \cup rest
    BY <1>3 DEF GivesUp
  <2>2. gone' = gone /\ sent' = sent /\ shown' = shown
    BY <1>3 DEF GivesUp
  <2>3. PICK ls, kept : ls = {} /\ kept = requests \ {r}
    OBVIOUS
  <2>4. sent' = [l \in DOMAIN L |-> IF l \in ls THEN sent[l] + 1 ELSE sent[l]]
    BY <2>2, <2>3, Found
  <2>5. \A l \in DOMAIN L : shown'[l].n <= sent[l] /\ shown'[l].n \in Nat /\ Kept(l)
    BY <2>2, SameKept
  <2>6. ASSUME NEW l \in DOMAIN L, NEW i \in 1..Len(log), Awaited(i, l), Owing(r, i, l)
        PROVE  FALSE
    <3>1. PICK k \in DOMAIN A[r.what].steps \ r.left :
            log[i].act = r.what /\ log[i].of = A[r.what].steps[k]
      BY <1>1, <2>6, OwnStep
    <3>2. ~A[r.what].together
      BY <2>6, <3>1 DEF Awaited, Reloads, A
    <3>3. /\ r.left # {}
          /\ \A j \in r.left : \A m \in DOMAIN A[r.what].steps : j <= m => m \in r.left
      BY <1>1, <1>3, <3>2 DEF DoneInv
    <3>4. A[r.what].steps \in Seq(SUBSET STRING) /\ r.left \subseteq DOMAIN A[r.what].steps
      BY <1>1, CarriedIs, Found, Named
    <3>5. PICK j \in r.left : j \in 1..Len(A[r.what].steps)
      BY <3>3, <3>4
    <3>6. k \in 1..Len(A[r.what].steps) /\ k < Len(A[r.what].steps)
      BY <3>3, <3>4, <3>5
    <3> QED
      BY <2>6, <3>1, <3>6 DEF Awaited, Reloads, A, L
  <2>7. \A s \in requests' \ kept : s.what \in DOMAIN L => s.what \in ls /\ s.from = Len(log)
    <3>1. DOMAIN L \cap DOMAIN A = {} /\ \A c \in ActCalls : c.what \in DOMAIN A
      BY Found, Named DEF ActCalls
    <3> QED
      BY <2>1, <2>3, <3>1
  <2>8. kept \in SUBSET requests /\ kept \subseteq requests' /\ (gone => gone')
    BY <2>1, <2>2, <2>3
  <2>9. \A l \in DOMAIN L : \A i \in 1..Len(log) : \A s \in requests \ kept :
          Awaited(i, l) /\ Owing(s, i, l) => gone' \/ l \in ls \/ Owed(i, l)'
    BY <2>3, <2>6
  <2> QED
    BY <1>1, <2>4, <2>5, <2>7, <2>8, <2>9, FetchStep
<1> QED
  BY <1>1, <1>2, <1>3

LEMMA ContinueFetch ==
  ASSUME TypeOK, FetchInv, page' = page, log' = log, gone' = gone,
         NEW r \in requests, r.what \in DOMAIN L, NEW ls \in SUBSET DOMAIN L, Continue(r, ls),
         \A l \in DOMAIN L : shown'[l].n <= sent[l] /\ shown'[l].n \in Nat /\ Kept(l)
  PROVE  FetchInv'
<1>1. PICK es \in SUBSET DOMAIN L, owed \in Owes : \E lowered :
        /\ Send(es, r.q, r.d, requests \ {r}, lowered, owed)
        /\ ls \subseteq es
        /\ \/ /\ L[r.what].waits /\ ls # {} /\ es = ls /\ lowered = {}
              /\ owed.lowers = r.owed.lowers \cup Flag(L[r.what].flag)
              /\ owed.sends = r.owed.sends
           \/ /\ r.owed.sends # {} /\ es = ls \cup r.owed.sends
              /\ lowered = {L[r.what].flag}
              /\ owed.lowers = r.owed.lowers /\ owed.sends = {}
           \/ /\ r.owed.sends = {} /\ es = ls
              /\ lowered = {L[r.what].flag} \cup r.owed.lowers
              /\ owed.lowers = {} /\ owed.sends = {}
  BY Continued
<1>2. \A l \in r.owed.sends : l \in es \/ (es # {} /\ owed.sends = r.owed.sends)
  BY <1>1
<1>3. PICK q, d, kept : q = r.q /\ d = r.d /\ kept = requests \ {r}
  OBVIOUS
<1>4. PICK lowered : Send(es, q, d, kept, lowered, owed) /\ kept \in SUBSET requests
  BY <1>1, <1>3
<1>5. ASSUME NEW l \in DOMAIN L, NEW i \in 1..Len(log), Owing(r, i, l)
      PROVE  l \in es \/ Owed(i, l)'
  <2>1. l \in r.owed.sends
    BY <1>5, CallTypes DEF Owing
  <2>2. ASSUME es # {}, owed.sends = r.owed.sends
        PROVE  Owed(i, l)'
    <3>1. PICK x \in es : x \in DOMAIN L
      BY <2>2
    <3>2. Call(x, q, d, owed) \in requests'
      BY <1>4, <3>1 DEF Send
    <3>3. Owing(Call(x, q, d, owed), i, l)
      BY <2>1, <2>2, <3>1 DEF Owing, Call
    <3> QED
      BY <3>2, <3>3, SameOwing DEF Owed
  <2> QED
    BY <1>2, <2>1, <2>2
<1>6. \A l \in DOMAIN L : \A i \in 1..Len(log) : \A s \in requests \ kept :
        Awaited(i, l) /\ Owing(s, i, l) => gone' \/ l \in es \/ Owed(i, l)'
  BY <1>3, <1>5
<1> QED
  BY <1>4, <1>6, FetchSend

(* An answer that is dropped is not one that other loads wait for.          *)
LEMMA DroppedFetch ==
  ASSUME TypeOK, FetchInv, Deferred, page' = page, log' = log, gone' = gone, sent' = sent,
         shown' = shown, NEW r \in requests, r.what \in DOMAIN L, Dropped(r),
         requests' = requests \ {r}
  PROVE  FetchInv'
<1>1. CASE gone
  BY <1>1 DEF FetchInv
<1>2. CASE ~gone
  <2>1. r.owed.sends = {}
    <3>1. L[r.what].latest
      BY <1>2 DEF Dropped
    <3>2. \A a \in DOMAIN A : A[a].after = {}
      BY <3>1, Found, Named
    <3> QED
      BY <3>2 DEF Deferred
  <2>2. \A i, l : ~Owing(r, i, l)
    BY <2>1, CallTypes DEF Owing
  <2>3. PICK ls, kept : ls = {} /\ kept = requests \ {r}
    OBVIOUS
  <2>4. sent' = [l \in DOMAIN L |-> IF l \in ls THEN sent[l] + 1 ELSE sent[l]]
    BY <2>3, Found
  <2>5. \A l \in DOMAIN L : shown'[l].n <= sent[l] /\ shown'[l].n \in Nat /\ Kept(l)
    BY SameKept
  <2>6. kept \in SUBSET requests /\ kept \subseteq requests' /\ (gone => gone')
    BY <2>3
  <2>7. \A s \in requests' \ kept : s.what \in DOMAIN L => s.what \in ls /\ s.from = Len(log)
    BY <2>3
  <2>8. \A l \in DOMAIN L : \A i \in 1..Len(log) : \A s \in requests \ kept :
          Awaited(i, l) /\ Owing(s, i, l) => gone' \/ l \in ls \/ Owed(i, l)'
    BY <2>2, <2>3
  <2> QED
    BY <2>4, <2>5, <2>6, <2>7, <2>8, FetchStep
<1> QED
  BY <1>1, <1>2

LEMMA LoadFetch ==
  ASSUME TypeOK, FetchInv, Deferred, NEW r \in requests, LoadDone(r) \/ LoadFailed(r)
  PROVE  FetchInv'
<1>1. r.what \in DOMAIN L /\ page' = page /\ log' = log /\ gone' = gone
  BY DEF LoadDone, LoadFailed
<1>2. CASE Dropped(r)
  <2>1. requests' = requests \ {r} /\ sent' = sent /\ shown' = shown
    BY <1>2 DEF LoadDone, LoadFailed
  <2> QED
    BY <1>1, <1>2, <2>1, DroppedFetch
<1>3. r.n \in Nat /\ r.n <= sent[r.what] /\ r.from \in 0..Len(log) /\ Len(log) \in Nat
  BY <1>1, LoadCallTypes, Numbers
<1>4. shown \in [DOMAIN L -> PanelStates]
  BY Found
<1>5. CASE LoadDone(r) /\ ~Dropped(r)
  <2>1. PICK seen \in r.from..Len(log) :
          shown' = [shown EXCEPT ![r.what] =
                      [n |-> r.n, key |-> r.key, has |-> 1..seen, believes |-> {},
                       ok |-> TRUE, failed |-> FALSE, late |-> ~Due(r)]]
    BY <1>5 DEF LoadDone
  <2>2. shown'[r.what].n = r.n /\ shown'[r.what].has = 1..seen
    BY <1>1, <1>4, <2>1
  <2>3. 1..r.from \subseteq 1..seen
    BY <1>3, <2>1
  <2>4. \A l \in DOMAIN L : l # r.what => shown'[l] = shown[l]
    BY <1>4, <2>1
  <2>5. \A l \in DOMAIN L : shown'[l].n <= sent[l] /\ shown'[l].n \in Nat /\ Kept(l)
    <3> TAKE l \in DOMAIN L
    <3>1. CASE l = r.what
      BY <1>3, <2>2, <2>3, <3>1 DEF Kept
    <3>2. CASE l # r.what
      BY <2>4, <3>2, SameKept
    <3> QED
      BY <3>1, <3>2
  <2>6. Continue(r, L[r.what].next) /\ L[r.what].next \in SUBSET DOMAIN L
    BY <1>1, <1>5, Found, Named DEF LoadDone
  <2> QED
    BY <1>1, <2>5, <2>6, ContinueFetch
<1>6. CASE LoadFailed(r) /\ ~Dropped(r)
  <2>1. shown' = [shown EXCEPT ![r.what].n = r.n,
                               ![r.what].failed = TRUE,
                               ![r.what].ok = @ /\ L[r.what].fails = "keep"]
    BY <1>6 DEF LoadFailed
  <2>2. shown'[r.what].n = r.n /\ shown'[r.what].failed
    BY <1>1, <1>4, <2>1 DEF PanelStates
  <2>3. \A l \in DOMAIN L : l # r.what => shown'[l] = shown[l]
    BY <1>4, <2>1
  <2>4. \A l \in DOMAIN L : shown'[l].n <= sent[l] /\ shown'[l].n \in Nat /\ Kept(l)
    <3> TAKE l \in DOMAIN L
    <3>1. CASE l = r.what
      BY <1>3, <2>2, <3>1 DEF Kept
    <3>2. CASE l # r.what
      BY <2>3, <3>2, SameKept
    <3> QED
      BY <3>1, <3>2
  <2>5. PICK ls \in SUBSET DOMAIN L : Continue(r, ls)
    <3>1. Continue(r, IF L[r.what].always THEN L[r.what].next ELSE {})
      BY <1>6 DEF LoadFailed
    <3>2. (IF L[r.what].always THEN L[r.what].next ELSE {}) \in SUBSET DOMAIN L
      BY <1>1, Found, Named
    <3> QED
      BY <3>1, <3>2
  <2> QED
    BY <1>1, <2>4, <2>5, ContinueFetch
<1> QED
  BY <1>2, <1>5, <1>6

(* A call carried out adds the next step of its act to the log and to what  *)
(* the act has done.                                                        *)
LEMMA ServeMakes ==
  ASSUME TypeOK, NEW r \in requests, Serve(r)
  PROVE  \E c, k :
           /\ r.what \in DOMAIN A /\ requests' = (requests \ {r}) \cup {c} /\ page' = page
           /\ sent' = sent /\ shown' = shown /\ gone' = gone /\ c.what = r.what
           /\ c.did = r.did \cup {Len(log) + 1} /\ c.left = r.left \ {k} /\ c.ended = r.ended
           /\ k \in r.left /\ r.left \subseteq DOMAIN A[r.what].steps
           /\ A[r.what].together \/ \A j \in r.left : k <= j
           /\ Len(log) \in Nat /\ Len(log)' = Len(log) + 1
           /\ \A i \in 1..Len(log) : log'[i] = log[i]
           /\ log'[Len(log) + 1] = Step(r.what, k)
<1>1. PICK k \in Ready(r) : /\ r.what \in DOMAIN A
                            /\ log' = Append(log, Step(r.what, k))
                            /\ requests' = (requests \ {r}) \cup {Carried(r, k)}
  BY DEF Serve, Step, Carried
<1>2. page' = page /\ sent' = sent /\ shown' = shown /\ gone' = gone
  BY DEF Serve
<1>3. /\ Carried(r, k).what = r.what /\ Carried(r, k).did = r.did \cup {Len(log) + 1}
      /\ Carried(r, k).left = r.left \ {k} /\ Carried(r, k).ended = r.ended
      /\ r.left \subseteq DOMAIN A[r.what].steps
  BY <1>1, CarriedIs
<1>4. k \in r.left /\ (A[r.what].together \/ \A j \in r.left : k <= j)
  BY <1>1 DEF Ready
<1>5. Len(log) \in Nat
  BY Numbers
<1>6. /\ Len(log)' = Len(log) + 1 /\ log'[Len(log) + 1] = Step(r.what, k)
      /\ \A i \in 1..Len(log) : log'[i] = log[i]
  <2>1. PICK E, e : E = [act : DOMAIN A, of : SUBSET STRING] /\ e = Step(r.what, k)
    OBVIOUS
  <2>2. A[r.what].steps \in Seq(SUBSET STRING) /\ k \in DOMAIN A[r.what].steps
    BY <1>1, <1>3, <1>4, Found, Named
  <2>3. A[r.what].steps[k] \in SUBSET STRING
    BY <2>2
  <2>4. e \in E
    BY <1>1, <2>1, <2>3 DEF Step
  <2>5. log \in Seq(E)
    BY <2>1 DEF TypeOK
  <2> QED
    BY <1>1, <2>1, <2>4, <2>5
<1> QED
  BY <1>1, <1>2, <1>3, <1>4, <1>5, <1>6

LEMMA ServeFetch ==
  ASSUME TypeOK, FetchInv, NEW r \in requests, Serve(r)
  PROVE  FetchInv'
<1>1. PICK c :
        /\ r.what \in DOMAIN A /\ requests' = (requests \ {r}) \cup {c} /\ page' = page
        /\ sent' = sent /\ shown' = shown /\ gone' = gone /\ c.what = r.what
        /\ c.did = r.did \cup {Len(log) + 1}
        /\ Len(log) \in Nat /\ Len(log)' = Len(log) + 1
        /\ \A i \in 1..Len(log) : log'[i] = log[i]
  BY ServeMakes
<1>2. L' = L /\ A' = A /\ DOMAIN L \cap DOMAIN A = {}
  BY <1>1, SamePage, Found, Named
<1> SUFFICES ASSUME NEW l \in DOMAIN L, NEW i \in 1..Len(log)', Awaited(i, l)', ~gone'
             PROVE  Owed(i, l)' \/ Fetched(i, l)'
  BY <1>2 DEF FetchInv
<1>3. r.did \cup {Len(log) + 1} \subseteq c.did
  BY <1>1
<1>4. CASE i = Len(log) + 1
  <2>1. Owing(c, i, l)
    BY <1>1, <1>3, <1>4 DEF Owing
  <2> QED
    BY <1>1, <2>1, SameOwing DEF Owed
<1>5. CASE i # Len(log) + 1
  <2>1. i \in 1..Len(log)
    BY <1>1, <1>5
  <2>2. Awaited(i, l)
    BY <1>1, <1>2, <2>1, SameOwing DEF Awaited
  <2>3. ASSUME Owed(i, l)
        PROVE  Owed(i, l)'
    <3>1. PICK s \in requests : Owing(s, i, l)
      BY <2>3 DEF Owed
    <3>2. CASE s = r
      <4>1. Owing(c, i, l)
        BY <1>1, <1>2, <1>3, <3>1, <3>2 DEF Owing
      <4> QED
        BY <1>1, <4>1, SameOwing DEF Owed
    <3>3. CASE s # r
      BY <1>1, <3>1, <3>3, SameOwing DEF Owed
    <3> QED
      BY <3>2, <3>3
  <2>4. ASSUME Fetched(i, l)
        PROVE  Fetched(i, l)'
    <3>1. \A s \in requests' : s.what = l => s \in requests
      BY <1>1, <1>2
    <3> QED
      BY <1>1, <2>4, <3>1 DEF Fetched, Filled
  <2> QED
    BY <1>1, <2>1, <2>2, <2>3, <2>4 DEF FetchInv
<1> QED
  BY <1>4, <1>5

(* What a step other than Serve adds to the calls: an act with nothing done *)
(* yet, what goes on of an act whose handler gave up, or loads that owe what*)
(* an act or a load before them owed, each with the key of some filters,    *)
(* dialog and call.                                                         *)
Begun(s) ==
  s.what \in DOMAIN A /\ s.did = {} /\ s.left = DOMAIN A[s.what].steps /\ ~s.ended

Abandoned(s) ==
  /\ s.what \in DOMAIN A /\ A[s.what].together
  /\ \E r \in requests : r.what = s.what /\ s.did = r.did /\ s.left \subseteq r.left

Passed(s) ==
  /\ s.what \in DOMAIN L
  /\ \E q, d, n : s.key = Key(s.what, q, d, n)
  /\ \/ s.owed.sends = {}
     \/ \E a \in DOMAIN A : A[a].after = s.owed.sends
     \/ \E r \in requests : r.what \in DOMAIN L /\ r.owed.sends = s.owed.sends

LEMMA SentCalls ==
  ASSUME NEW ls, NEW q, NEW d, NEW kept, NEW lowered, NEW owed,
         kept \subseteq requests, Send(ls, q, d, kept, lowered, owed)
  PROVE  \A s \in requests' \ requests :
           s.what \in ls /\ s.owed = owed /\ \E m : s.key = Key(s.what, q, d, m)
<1>1. requests' = kept \cup {Call(l, q, d, owed) : l \in ls}
  BY DEF Send
<1>2. \A l : LET c == Call(l, q, d, owed) IN
             c.what = l /\ c.owed = owed /\ c.key = Key(l, q, d, sent[l] + 1)
  BY DEF Call
<1> QED
  BY <1>1, <1>2

LEMMA UserCalls ==
  ASSUME TypeOK, UserStep
  PROVE  log' = log /\ page' = page /\ \A s \in requests' \ requests : Begun(s) \/ Passed(s)
<1>1. log' = log /\ page' = page
  BY DEF UserStep, ChangeQuery, Close, Refresh, Open, Submit, Confirm
<1>2. ASSUME NEW ls \in SUBSET DOMAIN L, NEW q, NEW d, Send(ls, q, d, requests, {}, Nothing)
      PROVE  \A s \in requests' \ requests : Passed(s)
  <2>1. PICK kept, lowered, owed : kept = requests /\ lowered = {} /\ owed = Nothing
    OBVIOUS
  <2>2. Send(ls, q, d, kept, lowered, owed) /\ kept \subseteq requests
    BY <1>2, <2>1
  <2>3. \A s \in requests' \ requests :
         s.what \in ls /\ s.owed = owed /\ \E m : s.key = Key(s.what, q, d, m)
    BY <2>2, SentCalls
  <2> QED
    BY <2>1, <2>3, NothingOwed DEF Passed
<1>3. CASE ChangeQuery
  <2>1. \E q, d : Send(By("query"), q, d, requests, {}, Nothing)
    BY <1>3 DEF ChangeQuery
  <2> QED
    BY <1>1, <1>2, <2>1, Found, BroughtAreLoads
<1>4. ASSUME NEW l \in DOMAIN L, Refresh(l)
      PROVE  \A s \in requests' \ requests : Passed(s)
  <2>1. \E q, d : Send({l}, q, d, requests, {}, Nothing)
    BY <1>4 DEF Refresh
  <2>2. {l} \in SUBSET DOMAIN L
    OBVIOUS
  <2> QED
    BY <1>2, <2>1, <2>2
<1>5. ASSUME NEW name, Open(name)
      PROVE  \A s \in requests' \ requests : Passed(s)
  <2>1. \E q, d : Send(Brought(name), q, d, requests, {}, Nothing)
    BY <1>5 DEF Open
  <2> QED
    BY <1>2, <2>1, Found, BroughtAreLoads
<1>6. ASSUME NEW a \in DOMAIN A, SendAct(a)
      PROVE  \A s \in requests' \ requests : Begun(s)
  BY <1>6 DEF SendAct, Begun
<1>7. CASE Close
  BY <1>1, <1>7 DEF Close
<1>8. ASSUME NEW a \in DOMAIN A, Submit(a)
      PROVE  \A s \in requests' \ requests : Begun(s)
  <2>1. requests' = requests \/ SendAct(a)
    BY <1>8 DEF Submit
  <2> QED
    BY <1>6, <2>1
<1>9. ASSUME NEW yes \in BOOLEAN, Confirm(yes)
      PROVE  \A s \in requests' \ requests : Begun(s)
  <2>1. asking \in DOMAIN A /\ (requests' = requests \/ SendAct(asking))
    BY <1>9, Found DEF Confirm
  <2> QED
    BY <1>6, <2>1
<1> QED
  BY <1>1, <1>3, <1>4, <1>5, <1>7, <1>8, <1>9 DEF UserStep

LEMMA ActCall ==
  ASSUME TypeOK, NEW r \in requests, ActDone(r) \/ ActRefused(r)
  PROVE  log' = log /\ page' = page /\ \A s \in requests' \ requests : Abandoned(s) \/ Passed(s)
<1> DEFINE a == A[r.what]
           left == Without(a.closes)
           follows == a.opens # Blank /\ (a.closes = Blank \/ left # surfaces)
           waiting == IF a.waits /\ a.then # {} THEN Lowered(r, "done") ELSE {}
<1>1. log' = log /\ page' = page /\ r.what \in DOMAIN A
      /\ (GivesUp(r) \/ \E refused : Conclude(r, refused))
  BY ActStep
<1>2. ASSUME GivesUp(r)
      PROVE  \A s \in requests' \ requests : Abandoned(s)
  BY <1>1, <1>2 DEF GivesUp, Abandoned
<1>3. ASSUME NEW refused, Conclude(r, refused)
      PROVE  \/ requests' = requests \ {r}
             \/ \E ls, q, d, lowered, owed :
                  /\ Send(ls, q, d, requests \ {r}, lowered, owed)
                  /\ ls = a.then \cup (IF follows THEN Brought(a.opens) ELSE {})
                  /\ owed = [lowers |-> waiting, sends |-> a.after]
  BY <1>3, Concluded
<1> HIDE DEF left, follows, waiting
<1>4. ASSUME NEW ls, NEW q, NEW d, NEW lowered, NEW owed,
             Send(ls, q, d, requests \ {r}, lowered, owed),
             ls = a.then \cup (IF follows THEN Brought(a.opens) ELSE {}),
             owed = [lowers |-> waiting, sends |-> a.after]
      PROVE  \A s \in requests' \ requests : Passed(s)
  <2>1. ls \subseteq DOMAIN L /\ owed.sends = a.after
    BY <1>1, <1>4, Found, Named, BroughtAreLoads
  <2>2. PICK kept : kept = requests \ {r}
    OBVIOUS
  <2>3. \A s \in requests' \ requests :
         s.what \in ls /\ s.owed = owed /\ \E m : s.key = Key(s.what, q, d, m)
    BY <1>4, <2>2, SentCalls
  <2> QED
    BY <1>1, <2>1, <2>3 DEF Passed
<1> QED
  BY <1>1, <1>2, <1>3, <1>4

LEMMA LoadCall ==
  ASSUME TypeOK, NEW r \in requests, LoadDone(r) \/ LoadFailed(r)
  PROVE  log' = log /\ page' = page /\ \A s \in requests' \ requests : Passed(s)
<1>1. log' = log /\ page' = page /\ r.what \in DOMAIN L
  BY DEF LoadDone, LoadFailed
<1>2. CASE Dropped(r)
  BY <1>1, <1>2 DEF LoadDone, LoadFailed
<1>3. CASE ~Dropped(r)
  <2>1. PICK ls \in SUBSET DOMAIN L : Continue(r, ls)
    <3>1. L[r.what].next \in SUBSET DOMAIN L /\ {} \in SUBSET DOMAIN L
      BY <1>1, Found, Named
    <3>2. \/ Continue(r, L[r.what].next)
          \/ Continue(r, IF L[r.what].always THEN L[r.what].next ELSE {})
      BY <1>3 DEF LoadDone, LoadFailed
    <3>3. (IF L[r.what].always THEN L[r.what].next ELSE {}) \in SUBSET DOMAIN L
      BY <3>1
    <3> QED
      BY <3>1, <3>2, <3>3
  <2>2. PICK es \in SUBSET DOMAIN L, owed \in Owes : \E lowered :
          /\ Send(es, r.q, r.d, requests \ {r}, lowered, owed)
          /\ ls \subseteq es
          /\ \/ /\ L[r.what].waits /\ ls # {} /\ es = ls /\ lowered = {}
                /\ owed.lowers = r.owed.lowers \cup Flag(L[r.what].flag)
                /\ owed.sends = r.owed.sends
             \/ /\ r.owed.sends # {} /\ es = ls \cup r.owed.sends
                /\ lowered = {L[r.what].flag}
                /\ owed.lowers = r.owed.lowers /\ owed.sends = {}
             \/ /\ r.owed.sends = {} /\ es = ls
                /\ lowered = {L[r.what].flag} \cup r.owed.lowers
                /\ owed.lowers = {} /\ owed.sends = {}
    BY <1>1, <2>1, Continued
  <2>3. owed.sends = {} \/ owed.sends = r.owed.sends
    BY <2>2
  <2>4. PICK q, d, kept : q = r.q /\ d = r.d /\ kept = requests \ {r}
    OBVIOUS
  <2>5. PICK lowered : Send(es, q, d, kept, lowered, owed) /\ kept \subseteq requests
    BY <2>2, <2>4
  <2>6. \A s \in requests' \ requests :
         s.what \in es /\ s.owed = owed /\ \E m : s.key = Key(s.what, q, d, m)
    BY <2>5, SentCalls
  <2>7. \A s \in requests' \ requests : Passed(s)
    BY <1>1, <2>3, <2>6 DEF Passed
  <2> QED
    BY <1>1, <2>7
<1> QED
  BY <1>2, <1>3

LEMMA StepCalls ==
  ASSUME TypeOK, [Next]_vars, ~ \E r \in requests : Serve(r)
  PROVE  /\ log' = log /\ page' = page
         /\ \A s \in requests' \ requests : Begun(s) \/ Abandoned(s) \/ Passed(s)
<1>1. CASE UserStep
  BY <1>1, UserCalls
<1>2. CASE Answer
  <2>1. PICK r \in requests : ActDone(r) \/ ActRefused(r) \/ LoadDone(r) \/ LoadFailed(r)
    BY <1>2 DEF Answer
  <2> QED
    BY <2>1, ActCall, LoadCall
<1>3. CASE UNCHANGED vars
  BY <1>3 DEF vars
<1> QED
  BY <1>1, <1>2, <1>3 DEF Next

LEMMA DeferredStep ==
  ASSUME TypeOK, Deferred, [Next]_vars
  PROVE  Deferred'
<1>1. DOMAIN L \cap DOMAIN A = {}
  BY Found, Named
<1>2. CASE \E r \in requests : Serve(r)
  <2> PICK r \in requests : Serve(r)
    BY <1>2
  <2>1. PICK c :
          r.what \in DOMAIN A /\ requests' = (requests \ {r}) \cup {c} /\ page' = page
          /\ c.what = r.what
    BY ServeMakes
  <2>2. \A s \in requests' : s.what \in DOMAIN L => s \in requests
    BY <1>1, <2>1
  <2> QED
    BY <2>1, <2>2, SamePage DEF Deferred
<1>3. CASE ~ \E r \in requests : Serve(r)
  <2>1. page' = page /\ \A s \in requests' \ requests : Begun(s) \/ Abandoned(s) \/ Passed(s)
    BY <1>3, StepCalls
  <2>2. \A s \in requests' : s.what \in DOMAIN L => s \in requests \/ Passed(s)
    BY <1>1, <2>1 DEF Begun, Abandoned
  <2>3. \A s \in requests' : s.what \in DOMAIN L /\ s.owed.sends # {} => \E a \in DOMAIN A : A[a].after # {}
    BY <2>2 DEF Deferred, Passed
  <2> QED
    BY <2>1, <2>3, SamePage DEF Deferred
<1> QED
  BY <1>2, <1>3

LEMMA DoneStep ==
  ASSUME TypeOK, DoneInv, [Next]_vars
  PROVE  DoneInv'
<1>1. DOMAIN L \cap DOMAIN A = {}
  BY Found, Named
<1> DEFINE Done(s) ==
      /\ \A i \in s.did : \E k \in DOMAIN A[s.what].steps \ s.left : log'[i] = Step(s.what, k)
      /\ A[s.what].together \/ (~s.ended /\ \A j \in s.left : \A k \in DOMAIN A[s.what].steps :
                                            j <= k => k \in s.left)
<1>2. ASSUME page' = page, \A i \in 1..Len(log) : log'[i] = log[i],
             NEW s \in requests, s.what \in DOMAIN A
      PROVE  Done(s)
  <2>1. s.did \subseteq 1..Len(log)
    BY <1>2, DoneTypes
  <2> QED
    BY <1>2, <2>1 DEF DoneInv
<1>3. ASSUME page' = page, \A s \in requests' : s.what \in DOMAIN A => Done(s),
             \A i \in 1..Len(log)' : \E k \in 1..Len(A[log'[i].act].steps) :
                                        log'[i] = Step(log'[i].act, k)
      PROVE  DoneInv'
  <2>1. L' = L /\ A' = A /\ \A a, k : Step(a, k)' = Step(a, k)
    BY <1>3, SamePage DEF Step
  <2> QED
    BY <1>3, <2>1 DEF DoneInv
<1>4. ASSUME NEW r \in requests, Serve(r)
      PROVE  DoneInv'
  <2>1. PICK c, k :
          /\ r.what \in DOMAIN A /\ requests' = (requests \ {r}) \cup {c} /\ page' = page
          /\ sent' = sent /\ shown' = shown /\ gone' = gone /\ c.what = r.what
          /\ c.did = r.did \cup {Len(log) + 1} /\ c.left = r.left \ {k} /\ c.ended = r.ended
          /\ k \in r.left /\ r.left \subseteq DOMAIN A[r.what].steps
          /\ A[r.what].together \/ \A j \in r.left : k <= j
          /\ Len(log) \in Nat /\ Len(log)' = Len(log) + 1
          /\ \A i \in 1..Len(log) : log'[i] = log[i]
          /\ log'[Len(log) + 1] = Step(r.what, k)
    BY <1>4, ServeMakes
  <2>2. A[r.what].steps \in Seq(SUBSET STRING)
    BY <2>1, Found, Named
  <2>3. Done(r)
    BY <1>2, <2>1
  <2>4. Done(c)
    <3>1. ASSUME NEW i \in c.did
          PROVE  \E m \in DOMAIN A[c.what].steps \ c.left : log'[i] = Step(c.what, m)
      <4>1. CASE i \in r.did
        BY <2>1, <2>3, <4>1
      <4>2. CASE i = Len(log) + 1
        BY <2>1, <4>2
      <4> QED
        BY <2>1, <3>1, <4>1, <4>2
    <3>2. ASSUME ~A[c.what].together
          PROVE  /\ ~c.ended
                 /\ \A j \in c.left : \A m \in DOMAIN A[c.what].steps : j <= m => m \in c.left
      <4>1. \A j \in r.left : k <= j /\ j \in 1..Len(A[r.what].steps)
        BY <2>1, <2>2, <3>2
      <4>2. ASSUME NEW j \in c.left, NEW m \in DOMAIN A[c.what].steps, j <= m
            PROVE  m \in c.left
        <5>1. m \in r.left
          BY <2>1, <2>3, <3>2, <4>2
        <5>2. m # k
          BY <2>1, <4>1, <4>2
        <5> QED
          BY <2>1, <5>1, <5>2
      <4> QED
        BY <2>1, <2>3, <3>2, <4>2
    <3> QED
      BY <3>1, <3>2
  <2>5. ASSUME NEW i \in 1..Len(log)'
        PROVE  \E m \in 1..Len(A[log'[i].act].steps) : log'[i] = Step(log'[i].act, m)
    <3>1. CASE i = Len(log) + 1
      <4>1. log'[i] = Step(r.what, k) /\ log'[i].act = r.what
        BY <2>1, <3>1 DEF Step
      <4>2. k \in 1..Len(A[r.what].steps)
        BY <2>1, <2>2
      <4> QED
        BY <4>1, <4>2
    <3>2. CASE i # Len(log) + 1
      <4>1. i \in 1..Len(log) /\ log'[i] = log[i]
        BY <2>1, <3>2
      <4> QED
        BY <4>1 DEF DoneInv
    <3> QED
      BY <3>1, <3>2
  <2>6. \A s \in requests' : s.what \in DOMAIN A => Done(s)
    <3> HIDE DEF Done
    <3> QED
      BY <1>2, <2>1, <2>4
  <2> HIDE DEF Done
  <2> QED
    BY <1>3, <2>1, <2>5, <2>6
<1>5. CASE ~ \E r \in requests : Serve(r)
  <2>1. log' = log /\ page' = page
        /\ \A s \in requests' \ requests : Begun(s) \/ Abandoned(s) \/ Passed(s)
    BY <1>5, StepCalls
  <2>2. ASSUME NEW s \in requests', s.what \in DOMAIN A
        PROVE  Done(s)
    <3>1. CASE s \in requests
      BY <1>2, <2>1, <2>2, <3>1
    <3>2. CASE Begun(s)
      BY <3>2 DEF Begun
    <3>3. CASE Abandoned(s)
      <4>1. PICK r \in requests : r.what = s.what /\ s.did = r.did /\ s.left \subseteq r.left
        BY <3>3 DEF Abandoned
      <4>2. Done(r)
        BY <1>2, <2>1, <2>2, <4>1
      <4> QED
        BY <3>3, <4>1, <4>2 DEF Abandoned
    <3>4. ~Passed(s)
      BY <1>1, <2>2 DEF Passed
    <3> QED
      BY <2>1, <3>1, <3>2, <3>3, <3>4
  <2>3. \A i \in 1..Len(log)' : \E k \in 1..Len(A[log'[i].act].steps) :
                                    log'[i] = Step(log'[i].act, k)
    BY <2>1 DEF DoneInv
  <2> HIDE DEF Done
  <2> QED
    BY <1>3, <2>1, <2>2, <2>3
<1> QED
  BY <1>4, <1>5

LEMMA FetchInitially == Init => DoneInv /\ Deferred /\ FetchInv
<1> SUFFICES ASSUME Init
             PROVE  DoneInv /\ Deferred /\ FetchInv
  OBVIOUS
<1>1. log = <<>>
  BY DEF Init
<1>2. \A r \in requests : r.what \notin DOMAIN A /\ r.owed.sends = {}
  BY AtFirst, NothingOwed
<1>3. Len(log) = 0
  BY <1>1
<1> QED
  BY <1>2, <1>3 DEF DoneInv, Deferred, FetchInv

LEMMA FetchKept ==
  ASSUME TypeOK, DoneInv, Deferred, FetchInv, [Next]_vars
  PROVE  FetchInv'
<1>1. CASE UserStep
  BY <1>1, UserFetch
<1>2. CASE Answer
  <2>1. PICK r \in requests :
          \/ Serve(r) \/ ActDone(r) \/ ActRefused(r) \/ LoadDone(r) \/ LoadFailed(r)
    BY <1>2 DEF Answer
  <2> QED
    BY <2>1, ServeFetch, ActFetch, LoadFetch
<1>3. CASE UNCHANGED vars
  <2>1. page' = page /\ log' = log /\ gone' = gone /\ sent' = sent /\ shown' = shown
        /\ requests' = requests
    BY <1>3 DEF vars
  <2> QED
    BY <2>1, FetchJoined
<1> QED
  BY <1>1, <1>2, <1>3 DEF Next

LEMMA FetchInvariance == Spec => [](DoneInv /\ Deferred /\ FetchInv)
<1>1. ASSUME IInv, DoneInv, Deferred, FetchInv, [Next]_vars
      PROVE  DoneInv' /\ Deferred' /\ FetchInv'
  BY <1>1, DoneStep, DeferredStep, FetchKept DEF IInv
<1> QED
  BY <1>1, FetchInitially, Invariance, PTL DEF Spec

(* On a page whose handlers fetch every panel they write again after their  *)
(* last call, but for what LeftStale lists, the panels show all the user's  *)
(* acts have changed when all is quiet: however many acts and filters       *)
(* overlapped, whichever dialogs were closed in between and whatever the    *)
(* server refused.                                                          *)
THEOREM OwnWritesSeen == Spec => [](Diligent(page) => SeesOwnWrites)
<1>1. ASSUME TypeOK, DoneInv, FetchInv, Diligent(page)
      PROVE  SeesOwnWrites
  <2> SUFFICES ASSUME AtRest, NEW l \in Panels, Settled(l), NEW i \in Unseen(l)
               PROVE  <<page.name, log[i].act, l>> \in LeftStale
    BY DEF SeesOwnWrites
  <2>1. i \in 1..Len(log) /\ log[i].of \cap L[l].reads # {} /\ i \notin shown[l].has
    BY DEF Unseen
  <2>2. l \in DOMAIN L /\ l \in UNION {p.shows : p \in page.parts}
    BY <1>1, Found, Named DEF Panels, Visible, PartsOn
  <2>3. log[i].act \in DOMAIN A
    BY <1>1, <2>1, Numbers
  <2>4. Touches(page, log[i].act, l)
    <3>1. PICK k \in 1..Len(A[log[i].act].steps) : log[i] = Step(log[i].act, k)
      BY <1>1, <2>1 DEF DoneInv
    <3>2. log[i].of = A[log[i].act].steps[k]
      BY <3>1 DEF Step
    <3> QED
      BY <2>1, <3>2 DEF Touches, A, L
  <2>5. Reloads(page, log[i].act, l) \/ <<page.name, log[i].act, l>> \in LeftStale
    BY <1>1, <2>2, <2>3, <2>4 DEF Diligent, A
  <2>6. ASSUME Reloads(page, log[i].act, l)
        PROVE  FALSE
    <3>1. Awaited(i, l)
      BY <2>1, <2>6 DEF Awaited
    <3>2. Fetched(i, l)
      BY <1>1, <2>1, <2>2, <3>1 DEF FetchInv, AtRest, Owed
    <3>3. shown[l].n = sent[l] /\ Filled(l)
      BY <2>6 DEF Settled, Reloads, L
    <3> QED
      BY <2>1, <3>2, <3>3 DEF Fetched
  <2> QED
    BY <2>5, <2>6
<1>2. IInv => TypeOK
  BY DEF IInv
<1> QED
  BY <1>1, <1>2, Invariance, FetchInvariance, PTL

-----------------------------------------------------------------------------
(* The stack of surfaces.                                                   *)

LEMMA TopThen ==
  ASSUME TypeOK'
  PROVE  /\ Top' \in surfaces' /\ Top'.n \in Nat
         /\ \A e \in surfaces' : e.n \in Nat /\ e.n <= Top'.n
<1>1. opened' \in Nat /\ surfaces' # {}
      /\ surfaces' \subseteq [on : {p.on : p \in page'.parts}, n : 0..opened']
  BY DEF TypeOK
<1>2. \E e \in surfaces' : \A d \in surfaces' : d.n <= e.n
  BY <1>1, Greatest
<1>3. \A e \in surfaces' : e.n \in Nat
  BY <1>1
<1> QED
  BY <1>2, <1>3 DEF Top

LEMMA TopNow ==
  ASSUME TypeOK
  PROVE  /\ Top \in surfaces /\ opened \in Nat
         /\ \A e \in surfaces : e.n \in Nat /\ e.n <= Top.n /\ e.n <= opened
<1>1. opened \in Nat /\ surfaces \subseteq [on : {p.on : p \in page.parts}, n : 0..opened]
  BY DEF TypeOK
<1>2. \A e \in surfaces : e.n \in Nat /\ e.n <= opened
  BY <1>1
<1> QED
  BY <1>1, <1>2, TopIsThere

LEMMA SameDialogs ==
  ASSUME page' = page
  PROVE  Dialogs(page') = Dialogs(page)
BY DEF Dialogs

(* A dialog is laid over what is there, a tab alone remains.                *)
LEMMA Laid ==
  ASSUME NEW name, NEW stack
  PROVE  LET entry == [on |-> name, n |-> opened + 1] IN
         /\ entry \in Over(name, stack) /\ Over(name, stack) \subseteq stack \cup {entry}
         /\ name \notin Dialogs(page) => Over(name, stack) = {entry}
BY DEF Over, Dialogs, PartsOn

(* The page's own surface is never over a dialog.                           *)
LEMMA StackedOver ==
  ASSUME TypeOK, Stacked, NEW name, NEW stack, stack \subseteq surfaces,
         NEW e \in Over(name, stack), NEW d \in Over(name, stack), e # d
  PROVE  e.n # d.n /\ (e.n < d.n => d.on \in Dialogs(page))
<1> DEFINE entry == [on |-> name, n |-> opened + 1]
<1>1. /\ Over(name, stack) \subseteq stack \cup {entry}
      /\ name \notin Dialogs(page) => Over(name, stack) = {entry}
  BY Laid
<1>2. entry.on = name /\ entry.n = opened + 1
  OBVIOUS
<1>3. opened \in Nat /\ \A s \in stack : s.n \in Nat /\ s.n <= opened
  BY TopNow
<1> HIDE DEF entry
<1>4. CASE e \in stack /\ d \in stack
  BY <1>4 DEF Stacked
<1>5. CASE e = entry
  <2>1. d \in stack
    BY <1>1, <1>5
  <2> QED
    BY <1>2, <1>3, <1>5, <2>1
<1>6. CASE e \in stack /\ d = entry
  <2>1. name \in Dialogs(page)
    BY <1>1, <1>6
  <2> QED
    BY <1>2, <1>3, <1>6, <2>1
<1> QED
  BY <1>1, <1>4, <1>5, <1>6

(* How surfaces come up: the user opens one, a handler goes on in another   *)
(* dialog, or the answer to a load opens one.                               *)
ByHandler ==
  \E a \in DOMAIN A :
    A[a].opens # Blank /\ surfaces' = Over(A[a].opens, Without(A[a].closes))

ByAnswer(l) ==
  /\ L[l].opens # Blank /\ surfaces' = Over(L[l].opens, surfaces)
  /\ \E r \in requests : /\ r.what = l /\ ~Dropped(r)
                         /\ LoadDone(r) \/ (L[l].always /\ LoadFailed(r))

LEMMA ActLays ==
  ASSUME NEW r \in requests, ActDone(r) \/ ActRefused(r)
  PROVE  surfaces' \subseteq surfaces \/ ByHandler
<1>1. r.what \in DOMAIN A
  BY DEF ActDone, ActRefused
<1>2. CASE surfaces' = surfaces
  BY <1>2
<1>3. CASE \E refused : Conclude(r, refused)
  <2> DEFINE a == A[r.what]
             left == Without(a.closes)
             follows == a.opens # Blank /\ (a.closes = Blank \/ left # surfaces)
  <2>1. surfaces' = IF follows THEN Over(a.opens, left) ELSE left
    BY <1>3 DEF Conclude
  <2>2. CASE follows
    BY <1>1, <2>1, <2>2 DEF ByHandler
  <2>3. CASE ~follows
    BY <2>1, <2>3 DEF Without
  <2> QED
    BY <2>2, <2>3
<1>4. surfaces' = surfaces \/ \E refused : Conclude(r, refused)
  BY DEF ActDone, ActRefused, user
<1> QED
  BY <1>2, <1>3, <1>4

LEMMA LoadLays ==
  ASSUME NEW r \in requests, LoadDone(r) \/ LoadFailed(r)
  PROVE  surfaces' = surfaces \/ \E l \in DOMAIN L : ByAnswer(l)
<1>1. r.what \in DOMAIN L
  BY DEF LoadDone, LoadFailed
<1>2. CASE Dropped(r)
  BY <1>2 DEF LoadDone, LoadFailed
<1>3. CASE ~Dropped(r) /\ LoadDone(r)
  <2>1. Opens(L[r.what].opens)
    BY <1>3 DEF LoadDone
  <2>2. surfaces' = surfaces \/ (L[r.what].opens # Blank /\ surfaces' = Over(L[r.what].opens, surfaces))
    BY <2>1 DEF Opens
  <2> QED
    BY <1>1, <1>3, <2>2 DEF ByAnswer
<1>4. CASE ~Dropped(r) /\ LoadFailed(r)
  <2>1. Opens(IF L[r.what].always THEN L[r.what].opens ELSE Blank)
    BY <1>4 DEF LoadFailed
  <2>2. \/ surfaces' = surfaces
        \/ L[r.what].always /\ L[r.what].opens # Blank /\ surfaces' = Over(L[r.what].opens, surfaces)
    BY <2>1 DEF Opens
  <2> QED
    BY <1>1, <1>4, <2>2 DEF ByAnswer
<1> QED
  BY <1>2, <1>3, <1>4

LEMMA StepLays ==
  ASSUME [Next]_vars
  PROVE  \/ surfaces' \subseteq surfaces
         \/ \E name \in {p.on : p \in page.parts} : Open(name)
         \/ ByHandler
         \/ \E l \in DOMAIN L : ByAnswer(l)
<1>1. CASE UserStep
  <2>1. \/ ChangeQuery \/ Close \/ (\E l \in DOMAIN L : Refresh(l)) \/ (\E a \in DOMAIN A : Submit(a))
        \/ (\E yes \in BOOLEAN : Confirm(yes)) \/ (\E name \in {p.on : p \in page.parts} : Open(name))
    BY <1>1 DEF UserStep
  <2> QED
    BY <2>1 DEF ChangeQuery, Close, Refresh, Submit, Confirm, Without
<1>2. CASE Answer
  <2>1. PICK r \in requests :
          \/ Serve(r) \/ ActDone(r) \/ ActRefused(r) \/ LoadDone(r) \/ LoadFailed(r)
    BY <1>2 DEF Answer
  <2>2. CASE Serve(r)
    BY <2>2 DEF Serve, user
  <2> QED
    BY <2>1, <2>2, ActLays, LoadLays
<1>3. CASE UNCHANGED vars
  BY <1>3 DEF vars
<1> QED
  BY <1>1, <1>2, <1>3 DEF Next

LEMMA StackedStep ==
  ASSUME TypeOK, Stacked, [Next]_vars
  PROVE  Stacked'
<1>1. page' = page
  BY PageStays
<1>2. CASE surfaces' \subseteq surfaces
  BY <1>1, <1>2, SameDialogs DEF Stacked
<1>3. ASSUME NEW name, NEW stack \in SUBSET surfaces, surfaces' = Over(name, stack)
      PROVE  Stacked'
  <2>1. \A e, d \in surfaces' : e # d => e.n # d.n /\ (e.n < d.n => d.on \in Dialogs(page))
    BY <1>3, StackedOver
  <2> QED
    BY <1>1, <2>1, SameDialogs DEF Stacked
<1>4. surfaces \in SUBSET surfaces /\ \A name : Without(name) \in SUBSET surfaces
  BY DEF Without
<1> QED
  BY <1>2, <1>3, <1>4, StepLays DEF Open, ByHandler, ByAnswer

(* The greatest number is that of the top.                                  *)
LEMMA TopStays ==
  ASSUME TypeOK, TypeOK', Stacked, surfaces' \subseteq surfaces, Top \in surfaces'
  PROVE  Top' = Top
<1>1. Top' \in surfaces /\ Top'.n <= Top.n /\ Top.n <= Top'.n /\ Top \in surfaces
      /\ Top.n \in Nat /\ Top'.n \in Nat
  BY TopThen, TopNow
<1>2. Top'.n = Top.n
  BY <1>1
<1> QED
  BY <1>1, <1>2 DEF Stacked

LEMMA TopLaid ==
  ASSUME TypeOK, TypeOK', NEW name, NEW stack, stack \subseteq surfaces, surfaces' = Over(name, stack)
  PROVE  Top' = [on |-> name, n |-> opened + 1]
<1> DEFINE entry == [on |-> name, n |-> opened + 1]
<1>1. entry \in surfaces' /\ surfaces' \subseteq surfaces \cup {entry}
  BY Laid
<1>2. entry.n = opened + 1
  OBVIOUS
<1> HIDE DEF entry
<1>3. opened \in Nat /\ \A s \in surfaces : s.n \in Nat /\ s.n <= opened
  BY TopNow
<1>4. Top' \in surfaces' /\ entry.n <= Top'.n
  BY <1>1, TopThen
<1>5. Top' \notin surfaces
  BY <1>2, <1>3, <1>4
<1>6. Top' = entry
  BY <1>1, <1>4, <1>5
<1> QED
  BY <1>6 DEF entry

-----------------------------------------------------------------------------
(* Rows.                                                                    *)

(* The answer to a load that is not dropped.                                *)
Answered(l) == \E r \in requests : r.what = l /\ ~Dropped(r) /\ LoadDone(r)

(* But for that, rows come from nowhere.                                    *)
LEMMA RowsStep ==
  ASSUME TypeOK, [Next]_vars, NEW l \in DOMAIN L
  PROVE  \/ Answered(l)
         \/ /\ shown'[l].key = shown[l].key
            /\ Rows(l)' => Rows(l)
            /\ shown'[l].ok /\ ~shown'[l].failed => Filled(l)
<1> DEFINE Same == /\ shown'[l].key = shown[l].key
                   /\ Rows(l)' => Rows(l)
                   /\ shown'[l].ok /\ ~shown'[l].failed => Filled(l)
<1>1. shown \in [DOMAIN L -> PanelStates] /\ shown[l] \in PanelStates
  BY Found
<1>2. ASSUME \E ls : shown' = Emptied(ls)
      PROVE  Same
  <2>1. PICK ls : shown' = Emptied(ls)
    BY <1>2
  <2>2. shown'[l] = shown[l] \/ shown'[l] = [shown[l] EXCEPT !.ok = FALSE]
    BY <2>1 DEF Emptied
  <2>3. LET s == [shown[l] EXCEPT !.ok = FALSE] IN s.ok = FALSE /\ s.key = shown[l].key
    BY <1>1 DEF PanelStates
  <2> QED
    BY <2>2, <2>3 DEF Rows, Filled
<1>3. ASSUME shown' = shown
      PROVE  Same
  BY <1>3 DEF Rows, Filled
<1>4. ASSUME NEW r \in requests, ActDone(r) \/ ActRefused(r)
      PROVE  Same
  <2>1. shown' = shown \/ \E refused : Conclude(r, refused)
    BY <1>4 DEF ActDone, ActRefused, user
  <2>2. ASSUME NEW refused, Conclude(r, refused)
        PROVE  Same
    <3>1. shown' = Patched(r.what, r.did, refused)
      BY <2>2 DEF Conclude, Patched
    <3>2. \/ shown'[l] = shown[l]
          \/ shown[l].ok
             /\ shown'[l] = [shown[l] EXCEPT !.has = @ \cup r.did, !.believes = @ \cup refused]
      BY <3>1 DEF Patched
    <3>3. LET s == [shown[l] EXCEPT !.has = @ \cup r.did, !.believes = @ \cup refused]
          IN s.late = shown[l].late /\ s.key = shown[l].key /\ s.failed = shown[l].failed
      BY <1>1 DEF PanelStates
    <3> QED
      BY <3>2, <3>3 DEF Rows, Filled
  <2> QED
    BY <1>3, <2>1, <2>2
<1>5. ASSUME NEW r \in requests, LoadDone(r)
      PROVE  Answered(l) \/ Same
  <2>1. CASE Dropped(r)
    BY <1>3, <1>5, <2>1 DEF LoadDone
  <2>2. CASE ~Dropped(r) /\ r.what = l
    BY <1>5, <2>2 DEF Answered
  <2>3. CASE ~Dropped(r) /\ r.what # l
    <3>1. PICK s : shown' = [shown EXCEPT ![r.what] = s]
      BY <1>5, <2>3 DEF LoadDone
    <3>2. shown'[l] = shown[l]
      BY <1>1, <2>3, <3>1
    <3> QED
      BY <3>2 DEF Rows, Filled
  <2> QED
    BY <2>1, <2>2, <2>3
<1>6. ASSUME NEW r \in requests, LoadFailed(r)
      PROVE  Same
  <2>1. CASE Dropped(r)
    BY <1>3, <1>6, <2>1 DEF LoadFailed
  <2>2. CASE ~Dropped(r)
    <3>1. shown' = [shown EXCEPT ![r.what].n = r.n,
                                 ![r.what].failed = TRUE,
                                 ![r.what].ok = @ /\ L[r.what].fails = "keep"]
      BY <1>6, <2>2 DEF LoadFailed
    <3>2. (shown'[l].ok => shown[l].ok) /\ shown'[l].late = shown[l].late
          /\ shown'[l].key = shown[l].key
          /\ (shown'[l].failed = shown[l].failed \/ shown'[l].failed)
      BY <1>1, <3>1 DEF PanelStates
    <3> QED
      BY <3>2 DEF Rows, Filled
  <2> QED
    BY <2>1, <2>2
<1>7. CASE UserStep
  <2>1. (\E ls : shown' = Emptied(ls)) \/ shown' = shown
    BY <1>7 DEF UserStep, ChangeQuery, Close, Refresh, Open, Submit, Confirm
  <2> QED
    BY <1>2, <1>3, <2>1
<1>8. CASE Answer
  <2>1. PICK r \in requests :
          \/ Serve(r) \/ ActDone(r) \/ ActRefused(r) \/ LoadDone(r) \/ LoadFailed(r)
    BY <1>8 DEF Answer
  <2>2. CASE Serve(r)
    BY <1>3, <2>2 DEF Serve
  <2> QED
    BY <1>4, <1>5, <1>6, <2>1, <2>2
<1>9. CASE UNCHANGED vars
  BY <1>3, <1>9 DEF vars
<1> QED
  BY <1>7, <1>8, <1>9 DEF Next

(* What an answer shows.                                                    *)
LEMMA AnswerShows ==
  ASSUME TypeOK, NEW r \in requests, ~Dropped(r), LoadDone(r)
  PROVE  /\ r.what \in DOMAIN L /\ query' = query /\ gone' = gone
         /\ shown'[r.what].key = r.key /\ (~shown'[r.what].late => Due(r))
<1>1. PICK late : late = ~Due(r)
  OBVIOUS
<1>2. PICK seen : shown' = [shown EXCEPT ![r.what] =
                    [n |-> r.n, key |-> r.key, has |-> 1..seen, believes |-> {},
                     ok |-> TRUE, failed |-> FALSE, late |-> late]]
  BY <1>1 DEF LoadDone
<1>3. r.what \in DOMAIN L /\ query' = query /\ gone' = gone
  BY DEF LoadDone
<1>4. shown'[r.what].key = r.key /\ shown'[r.what].late = late
  BY <1>2, <1>3, Found
<1> QED
  BY <1>1, <1>3, <1>4

(* One that brings rows that are not late has the present key.              *)
LEMMA AnswerIsDue ==
  ASSUME TypeOK, NEW l \in DOMAIN L, Answered(l), Rows(l)'
  PROVE  shown'[l].key = Key(l, query, Top.n, sent[l])
BY AnswerShows DEF Answered, Rows, Due

-----------------------------------------------------------------------------
(* A load whose answer opens its dialog is sent only from outside dialogs.  *)

LEMMA NotSent ==
  ASSUME NEW ls, NEW q, NEW d, NEW kept, NEW lowered, NEW owed, NEW l \in DOMAIN L, l \notin ls,
         Send(ls, q, d, kept, lowered, owed)
  PROVE  sent'[l] = sent[l]
BY DEF Send

LEMMA WithRowSays ==
  ASSUME NEW dialog, NEW l \in DOMAIN L, OpensWithRow(page, dialog, l)
  PROVE  /\ L[l].by = {"ask"} /\ L[l].opens = dialog /\ ~L[l].always
         /\ \A k \in DOMAIN L : l \notin L[k].next /\ (L[k].opens = dialog => k = l)
         /\ \A a \in DOMAIN A : A[a].opens # dialog /\ A[a].after = {} /\ l \notin A[a].then
         /\ \A p \in page.parts : dialog \notin DOMAIN p.offers /\ l \notin p.brings
         /\ \A p \in page.parts : l \in DOMAIN p.offers => p.on \notin Dialogs(page)
         /\ \A name : l \notin Brought(name)
         /\ l \notin By("query")
<1>1. /\ L[l].by = {"ask"} /\ L[l].opens = dialog /\ ~L[l].always
      /\ \A k \in DOMAIN L : l \notin L[k].next /\ (L[k].opens = dialog => k = l)
      /\ \A a \in DOMAIN A : A[a].opens # dialog /\ A[a].after = {} /\ l \notin A[a].then
      /\ \A p \in page.parts : dialog \notin DOMAIN p.offers /\ l \notin p.brings
      /\ \A p \in page.parts : l \in DOMAIN p.offers => p.on \notin Dialogs(page)
  BY DEF OpensWithRow, L, A
<1>2. \A name : l \notin Brought(name)
  BY <1>1 DEF Brought, PartsOn
<1>3. l \notin By("query")
  BY <1>1 DEF By
<1> QED
  BY <1>1, <1>2, <1>3

LEMMA ActSends ==
  ASSUME TypeOK, NEW r \in requests, ActDone(r) \/ ActRefused(r),
         NEW dialog, NEW l \in DOMAIN L, OpensWithRow(page, dialog, l)
  PROVE  sent'[l] = sent[l]
<1> DEFINE a == A[r.what]
           left == Without(a.closes)
           follows == a.opens # Blank /\ (a.closes = Blank \/ left # surfaces)
           waiting == IF a.waits /\ a.then # {} THEN Lowered(r, "done") ELSE {}
<1>1. r.what \in DOMAIN A /\ (sent' = sent \/ \E refused : Conclude(r, refused))
  BY DEF ActDone, ActRefused, user
<1>2. ASSUME NEW refused, Conclude(r, refused)
      PROVE  \/ sent' = sent
             \/ \E ls, q, d, lowered, owed :
                  /\ Send(ls, q, d, requests \ {r}, lowered, owed)
                  /\ ls = a.then \cup (IF follows THEN Brought(a.opens) ELSE {})
  BY <1>2, Concluded
<1> HIDE DEF left, follows, waiting
<1>3. ASSUME NEW ls, NEW q, NEW d, NEW lowered, NEW owed,
             Send(ls, q, d, requests \ {r}, lowered, owed),
             ls = a.then \cup (IF follows THEN Brought(a.opens) ELSE {})
      PROVE  sent'[l] = sent[l]
  <2>1. l \notin ls
    BY <1>1, <1>3, WithRowSays
  <2>2. PICK kept : kept = requests \ {r}
    OBVIOUS
  <2> QED
    BY <1>3, <2>1, <2>2, NotSent
<1> QED
  BY <1>1, <1>2, <1>3

LEMMA LoadSends ==
  ASSUME TypeOK, Deferred, NEW r \in requests, LoadDone(r) \/ LoadFailed(r),
         NEW dialog, NEW l \in DOMAIN L, OpensWithRow(page, dialog, l)
  PROVE  sent'[l] = sent[l]
<1>1. r.what \in DOMAIN L
  BY DEF LoadDone, LoadFailed
<1>2. CASE Dropped(r)
  BY <1>2 DEF LoadDone, LoadFailed
<1>3. CASE ~Dropped(r)
  <2>1. \E ls \in SUBSET L[r.what].next : Continue(r, ls)
    <3>1. CASE LoadDone(r)
      <4>1. Continue(r, L[r.what].next)
        BY <1>3, <3>1 DEF LoadDone
      <4> QED
        BY <4>1
    <3>2. CASE LoadFailed(r)
      <4>1. Continue(r, IF L[r.what].always THEN L[r.what].next ELSE {})
        BY <1>3, <3>2 DEF LoadFailed
      <4>2. (IF L[r.what].always THEN L[r.what].next ELSE {}) \in SUBSET L[r.what].next
        OBVIOUS
      <4> QED
        BY <4>1, <4>2
    <3> QED
      BY <3>1, <3>2
  <2>2. PICK ls \in SUBSET L[r.what].next : Continue(r, ls)
    BY <2>1
  <2>3. ls \in SUBSET DOMAIN L
    BY <1>1, Found, Named
  <2>4. PICK es : (es = ls \/ es = ls \cup r.owed.sends)
                  /\ \E owed, lowered : Send(es, r.q, r.d, requests \ {r}, lowered, owed)
    BY <1>1, <2>2, <2>3, Continued
  <2>5. r.owed.sends = {}
    BY <1>1, WithRowSays DEF Deferred
  <2>6. l \notin es
    BY <1>1, <2>2, <2>4, <2>5, WithRowSays
  <2>7. PICK q, d, kept : q = r.q /\ d = r.d /\ kept = requests \ {r}
    OBVIOUS
  <2> QED
    BY <2>4, <2>6, <2>7, NotSent
<1> QED
  BY <1>2, <1>3

LEMMA StepSends ==
  ASSUME TypeOK, Deferred, [Next]_vars,
         NEW dialog, NEW l \in DOMAIN L, OpensWithRow(page, dialog, l)
  PROVE  sent'[l] = sent[l] \/ Refresh(l)
<1>1. CASE ChangeQuery
  <2>1. \E q, d : Send(By("query"), q, d, requests, {}, Nothing)
    BY <1>1 DEF ChangeQuery
  <2>2. l \notin By("query")
    BY WithRowSays
  <2>3. PICK ls : ls = By("query")
    OBVIOUS
  <2> QED
    BY <2>1, <2>2, <2>3, NotSent
<1>2. ASSUME NEW k \in DOMAIN L, Refresh(k)
      PROVE  sent'[l] = sent[l] \/ Refresh(l)
  <2>1. CASE k = l
    BY <1>2, <2>1
  <2>2. CASE k # l
    <3>1. \E q, d : Send({k}, q, d, requests, {}, Nothing)
      BY <1>2 DEF Refresh
    <3>2. l \notin {k}
      BY <2>2
    <3> QED
      BY <3>1, <3>2, NotSent
  <2> QED
    BY <2>1, <2>2
<1>3. ASSUME NEW name, Open(name)
      PROVE  sent'[l] = sent[l]
  <2>1. \E q, d : Send(Brought(name), q, d, requests, {}, Nothing)
    BY <1>3 DEF Open
  <2>2. l \notin Brought(name)
    BY WithRowSays
  <2>3. PICK ls : ls = Brought(name)
    OBVIOUS
  <2> QED
    BY <2>1, <2>2, <2>3, NotSent
<1>4. CASE UserStep
  <2>1. \/ ChangeQuery \/ Close \/ (\E k \in DOMAIN L : Refresh(k)) \/ (\E a \in DOMAIN A : Submit(a))
        \/ (\E yes \in BOOLEAN : Confirm(yes)) \/ (\E name : Open(name))
    BY <1>4 DEF UserStep
  <2> QED
    BY <1>1, <1>2, <1>3, <2>1 DEF Close, Submit, Confirm
<1>5. CASE Answer
  <2>1. PICK r \in requests :
          \/ Serve(r) \/ ActDone(r) \/ ActRefused(r) \/ LoadDone(r) \/ LoadFailed(r)
    BY <1>5 DEF Answer
  <2>2. CASE Serve(r)
    BY <2>2 DEF Serve
  <2> QED
    BY <2>1, <2>2, ActSends, LoadSends
<1>6. CASE UNCHANGED vars
  BY <1>6 DEF vars
<1> QED
  BY <1>4, <1>5, <1>6 DEF Next

LEMMA RowKept ==
  ASSUME TypeOK, TypeOK', Stacked, Deferred, [Next]_vars,
         NEW dialog \in Dialogs(page), NEW l \in DOMAIN L, OpensWithRow(page, dialog, l),
         Rows(l) /\ (\E e \in surfaces : e.on = dialog) => shown[l].key = sent[l],
         Rows(l)', NEW e \in surfaces', e.on = dialog
  PROVE  shown'[l].key = sent'[l]
<1>1. CASE Answered(l)
  <2>1. shown'[l].key = Key(l, query, Top.n, sent[l])
    BY <1>1, AnswerIsDue
  <2>2. Key(l, query, Top.n, sent[l]) = sent[l]
    BY WithRowSays DEF Key
  <2>3. ~Refresh(l)
    <3>1. PICK r \in requests : r.what = l /\ LoadDone(r)
      BY <1>1 DEF Answered
    <3>2. events' = events /\ events \in Nat
      BY <3>1, Found, Named DEF LoadDone
    <3> QED
      BY <3>2 DEF Refresh, Event
  <2> QED
    BY <2>1, <2>2, <2>3, StepSends
<1>2. CASE ~Answered(l)
  <2>1. Rows(l) /\ shown'[l].key = shown[l].key
    BY <1>2, RowsStep
  <2>2. \E s \in surfaces : s.on = dialog
    <3>1. CASE surfaces' \subseteq surfaces
      BY <3>1
    <3>2. ASSUME NEW name, NEW stack \in SUBSET surfaces, surfaces' = Over(name, stack), name # dialog
          PROVE  e \in surfaces
      <4>1. surfaces' \subseteq stack \cup {[on |-> name, n |-> opened + 1]}
        BY <3>2, Laid
      <4> QED
        BY <3>2, <4>1
    <3>3. ASSUME NEW name, Open(name)
          PROVE  name # dialog
      <4>1. \E p \in page.parts : name \in DOMAIN p.offers
        BY <3>3 DEF Open, Enabled, Visible, PartsOn
      <4> QED
        BY <4>1, WithRowSays
    <3>4. CASE \E name : Open(name)
      <4>1. surfaces \in SUBSET surfaces
        OBVIOUS
      <4> QED
        BY <3>2, <3>3, <3>4, <4>1 DEF Open
    <3>5. CASE ByHandler
      <4>1. \A name : Without(name) \in SUBSET surfaces
        BY DEF Without
      <4> QED
        BY <3>2, <3>5, <4>1, WithRowSays DEF ByHandler
    <3>6. ASSUME NEW k \in DOMAIN L, ByAnswer(k)
          PROVE  e \in surfaces
      <4>1. k # l
        BY <1>2, <3>6, WithRowSays DEF ByAnswer, Answered
      <4>2. surfaces \in SUBSET surfaces
        OBVIOUS
      <4> QED
        BY <3>2, <3>6, <4>1, <4>2, WithRowSays DEF ByAnswer
    <3> QED
      BY <3>1, <3>4, <3>5, <3>6, StepLays
  <2>3. ~Refresh(l)
    <3> SUFFICES ASSUME Refresh(l)
                 PROVE  FALSE
      OBVIOUS
    <3>1. Top.on \notin Dialogs(page)
      <4>1. \E p \in page.parts : p.on = Top.on /\ l \in DOMAIN p.offers
        BY DEF Refresh, Enabled, Visible, PartsOn
      <4> QED
        BY <4>1, WithRowSays
    <3>2. PICK s \in surfaces : s.on = dialog
      BY <2>2
    <3>3. Top \in surfaces /\ s.n <= Top.n /\ s.n \in Nat /\ Top.n \in Nat
      BY <3>2, TopNow
    <3>4. s # Top
      BY <3>1, <3>2
    <3>5. s.n < Top.n
      BY <3>2, <3>3, <3>4 DEF Stacked
    <3> QED
      BY <3>1, <3>2, <3>3, <3>4, <3>5 DEF Stacked
  <2> QED
    BY <2>1, <2>2, <2>3, StepSends
<1> QED
  BY <1>1, <1>2

-----------------------------------------------------------------------------
(* A flag only one load raises and lowers.                                  *)

(* Nothing else lowers the flag when it is over.                            *)
Free(f) == \A r \in requests : r.what \in DOMAIN L => f \notin r.owed.lowers

(* No act and no load that waits for others has the flag, and no dialog.    *)
Alone(f) ==
  /\ \A k \in DOMAIN L : f \in Flag(L[k].flag) => ~L[k].waits
  /\ \A k \in DOMAIN L : f \in Flag(L[k].flag) <=> L[k].flag = f
  /\ \A a \in DOMAIN A : f \notin Flag(A[a].flag)
  /\ \A p \in page.parts : f \notin p.own

LEMMA HidesSays ==
  ASSUME NEW dialog, NEW l \in DOMAIN L, HidesUntil(page, dialog, l), NEW f, f = L[l].flag
  PROVE  /\ f # Blank /\ ~L[l].waits /\ L[l].fails # "keep"
         /\ \A k \in DOMAIN L : L[k].flag = f => k = l
         /\ \A p \in page.parts : f \notin p.own
         /\ \A p \in page.parts : p.on = dialog /\ l \in p.shows => f \in p.hides
         /\ f \in Flag(f) /\ Alone(f)
BY DEF HidesUntil, L, A, Flag, Alone

LEMMA NotOwned ==
  ASSUME page' = page, NEW f, \A p \in page.parts : f \notin p.own
  PROVE  f \notin Unmounted /\ \A raised : f \notin Remounted(raised)
BY DEF Unmounted, Own, Remounted

LEMMA FreeFewer ==
  ASSUME NEW f, Free(f), page' = page,
         \A r \in requests' : r.what \in DOMAIN L => r \in requests \/ f \notin r.owed.lowers
  PROVE  Free(f)'
BY SamePage DEF Free

LEMMA SendUp ==
  ASSUME page' = page, NEW f, \A p \in page.parts : f \notin p.own, Free(f),
         NEW ls, NEW q, NEW d, NEW kept, NEW lowered, NEW owed,
         kept \subseteq requests, f \notin owed.lowers, Send(ls, q, d, kept, lowered, owed)
  PROVE  /\ Free(f)'
         /\ f \in flags /\ f \notin lowered => f \in flags'
         /\ \A l \in ls : f \in Flag(L[l].flag) => f \in flags'
<1>1. \A s \in requests' \ requests : s.owed = owed
  BY SentCalls
<1>2. Free(f)'
  BY <1>1, FreeFewer
<1>3. LET raised == UNION {Flag(L[l].flag) : l \in ls}
      IN flags' = ((flags \ lowered) \cup raised) \ (Remounted(raised) \cup Unmounted)
  BY DEF Send
<1> QED
  BY <1>2, <1>3, NotOwned

(* What the steps do to such a flag: only an answer to its load lowers it.  *)
Up(f) == f \in flags => f \in flags'

LEMMA UserUp ==
  ASSUME TypeOK, UserStep, NEW f, \A p \in page.parts : f \notin p.own, Free(f)
  PROVE  Free(f)' /\ Up(f)
<1>0. f \notin Nothing.lowers /\ page' = page
  BY NothingOwed DEF UserStep, ChangeQuery, Close, Refresh, Open, Submit, Confirm
<1>1. ASSUME NEW ls, NEW q, NEW d, Send(ls, q, d, requests, {}, Nothing)
      PROVE  Free(f)' /\ Up(f)
  <2>1. PICK kept, lowered, owed : kept = requests /\ lowered = {} /\ owed = Nothing
    OBVIOUS
  <2>2. Send(ls, q, d, kept, lowered, owed) /\ kept \subseteq requests
        /\ f \notin lowered /\ f \notin owed.lowers
    BY <1>0, <1>1, <2>1
  <2> QED
    BY <1>0, <2>2, SendUp DEF Up
<1>2. ASSUME NEW a \in DOMAIN A, SendAct(a)
      PROVE  Free(f)' /\ Up(f)
  <2> DEFINE c == [what |-> a, n |-> events', q |-> query, d |-> Top.n,
                   did |-> {}, left |-> DOMAIN A[a].steps, ended |-> FALSE]
  <2>1. requests' = requests \cup {c} /\ flags' = (flags \cup Flag(A[a].flag)) \ Unmounted
    BY <1>2 DEF SendAct
  <2>2. c.what = a
    OBVIOUS
  <2> HIDE DEF c
  <2>3. c.what \notin DOMAIN L
    BY <2>2, Found, Named
  <2>4. Free(f)'
    BY <1>0, <2>1, <2>3, FreeFewer
  <2>5. Up(f)
    BY <1>0, <2>1, NotOwned DEF Up
  <2> QED
    BY <2>4, <2>5
<1>3. ASSUME requests' = requests, flags' = flags \/ flags' = flags \ Unmounted
      PROVE  Free(f)' /\ Up(f)
  <2>1. Free(f)'
    BY <1>0, <1>3, FreeFewer
  <2>2. Up(f)
    BY <1>0, <1>3, NotOwned DEF Up
  <2> QED
    BY <2>1, <2>2
<1>4. CASE \E ls, q, d : Send(ls, q, d, requests, {}, Nothing)
  BY <1>1, <1>4
<1>5. CASE ChangeQuery \/ (\E l \in DOMAIN L : Refresh(l)) \/ (\E name : Open(name))
  BY <1>4, <1>5 DEF ChangeQuery, Refresh, Open
<1>6. ASSUME NEW a \in DOMAIN A, Submit(a)
      PROVE  Free(f)' /\ Up(f)
  <2>1. SendAct(a) \/ (requests' = requests /\ flags' = flags \ Unmounted)
    BY <1>6 DEF Submit
  <2> QED
    BY <1>2, <1>3, <2>1
<1>7. ASSUME NEW yes \in BOOLEAN, Confirm(yes)
      PROVE  Free(f)' /\ Up(f)
  <2>1. asking \in DOMAIN A /\ (SendAct(asking) \/ (requests' = requests /\ flags' = flags))
    BY <1>7, Found DEF Confirm
  <2> QED
    BY <1>2, <1>3, <2>1
<1>8. CASE Close
  BY <1>3, <1>8 DEF Close
<1> QED
  BY <1>5, <1>6, <1>7, <1>8 DEF UserStep

LEMMA ActUp ==
  ASSUME TypeOK, NEW r \in requests, ActDone(r) \/ ActRefused(r),
         NEW f, \A p \in page.parts : f \notin p.own, Free(f),
         \A a \in DOMAIN A : f \notin Flag(A[a].flag)
  PROVE  Free(f)' /\ Up(f)
<1> DEFINE a == A[r.what]
           left == Without(a.closes)
           follows == a.opens # Blank /\ (a.closes = Blank \/ left # surfaces)
           waiting == IF a.waits /\ a.then # {} THEN Lowered(r, "done") ELSE {}
<1>1. /\ page' = page /\ r.what \in DOMAIN A
      /\ \/ \E refused : Conclude(r, refused)
         \/ GivesUp(r)
  BY ActStep
<1>2. f \notin Lowered(r, "done") /\ f \notin Lowered(r, "refused")
  BY <1>1, LoweredTypes
<1>3. ASSUME requests' = requests \ {r} \/ GivesUp(r),
             flags' = flags \/ flags' = flags \ Lowered(r, "refused")
      PROVE  Free(f)' /\ Up(f)
  <2>1. \A c \in requests' : c.what \in DOMAIN L => c \in requests
    BY <1>1, <1>3, GivenUpLoads
  <2>2. Free(f)'
    BY <1>1, <2>1, FreeFewer
  <2>3. Up(f)
    BY <1>2, <1>3 DEF Up
  <2> QED
    BY <2>2, <2>3
<1>4. ASSUME NEW refused, Conclude(r, refused)
      PROVE  \/ requests' = requests \ {r} /\ flags' = flags
             \/ \E ls, q, d, lowered, owed :
                  /\ Send(ls, q, d, requests \ {r}, lowered, owed)
                  /\ lowered = Lowered(r, "done") \ waiting
                  /\ owed = [lowers |-> waiting, sends |-> a.after]
  BY <1>4, Concluded
<1>5. f \notin waiting
  BY <1>2
<1> HIDE DEF left, follows, waiting
<1>6. ASSUME NEW ls, NEW q, NEW d, NEW lowered, NEW owed,
             Send(ls, q, d, requests \ {r}, lowered, owed), lowered = Lowered(r, "done") \ waiting,
             owed = [lowers |-> waiting, sends |-> a.after]
      PROVE  Free(f)' /\ Up(f)
  <2>1. PICK kept : kept = requests \ {r}
    OBVIOUS
  <2>2. f \notin lowered /\ f \notin owed.lowers
    BY <1>2, <1>5, <1>6
  <2> QED
    BY <1>1, <1>6, <2>1, <2>2, SendUp DEF Up
<1>7. GivesUp(r) => flags' = flags \/ flags' = flags \ Lowered(r, "refused")
  BY DEF GivesUp
<1> QED
  BY <1>1, <1>3, <1>4, <1>6, <1>7

LEMMA LoadUp ==
  ASSUME TypeOK, NEW r \in requests, LoadDone(r) \/ LoadFailed(r), NEW f, Alone(f), Free(f)
  PROVE  Free(f)' /\ ((L[r.what].flag = f => Dropped(r)) => Up(f))
<1>1. r.what \in DOMAIN L /\ page' = page
  BY DEF LoadDone, LoadFailed
<1>2. CASE Dropped(r)
  <2>1. requests' = requests \ {r} /\ flags' = flags
    BY <1>2 DEF LoadDone, LoadFailed
  <2> QED
    BY <1>1, <2>1, FreeFewer DEF Up
<1>3. CASE ~Dropped(r)
  <2>1. PICK ls \in SUBSET DOMAIN L : Continue(r, ls)
    <3>1. L[r.what].next \in SUBSET DOMAIN L /\ {} \in SUBSET DOMAIN L
      BY <1>1, Found, Named
    <3>2. \/ Continue(r, L[r.what].next)
          \/ Continue(r, IF L[r.what].always THEN L[r.what].next ELSE {})
      BY <1>3 DEF LoadDone, LoadFailed
    <3>3. (IF L[r.what].always THEN L[r.what].next ELSE {}) \in SUBSET DOMAIN L
      BY <3>1
    <3> QED
      BY <3>1, <3>2, <3>3
  <2>2. PICK es \in SUBSET DOMAIN L, owed \in Owes : \E lowered :
          /\ Send(es, r.q, r.d, requests \ {r}, lowered, owed)
          /\ ls \subseteq es
          /\ \/ /\ L[r.what].waits /\ ls # {} /\ es = ls /\ lowered = {}
                /\ owed.lowers = r.owed.lowers \cup Flag(L[r.what].flag)
                /\ owed.sends = r.owed.sends
             \/ /\ r.owed.sends # {} /\ es = ls \cup r.owed.sends
                /\ lowered = {L[r.what].flag}
                /\ owed.lowers = r.owed.lowers /\ owed.sends = {}
             \/ /\ r.owed.sends = {} /\ es = ls
                /\ lowered = {L[r.what].flag} \cup r.owed.lowers
                /\ owed.lowers = {} /\ owed.sends = {}
    BY <1>1, <2>1, Continued
  <2>3. PICK q, d, kept : q = r.q /\ d = r.d /\ kept = requests \ {r}
    OBVIOUS
  <2>4. PICK lowered :
          /\ Send(es, q, d, kept, lowered, owed)
          /\ lowered \subseteq {L[r.what].flag} \cup r.owed.lowers
          /\ \/ L[r.what].waits /\ owed.lowers = r.owed.lowers \cup Flag(L[r.what].flag)
             \/ owed.lowers \subseteq r.owed.lowers
    BY <2>2, <2>3
  <2>5. f \notin r.owed.lowers
    BY <1>1 DEF Free
  <2>6. f \notin owed.lowers
    BY <1>1, <2>4, <2>5 DEF Alone
  <2>7. L[r.what].flag # f => f \notin lowered
    BY <1>1, <2>4, <2>5
  <2>8. \A p \in page.parts : f \notin p.own
    BY DEF Alone
  <2> QED
    BY <1>1, <1>3, <2>3, <2>4, <2>6, <2>7, <2>8, SendUp DEF Up
<1> QED
  BY <1>2, <1>3

LEMMA StepUp ==
  ASSUME TypeOK, [Next]_vars, NEW f, Alone(f), Free(f)
  PROVE  /\ Free(f)'
         /\ Up(f) \/ \E r \in requests : /\ r.what \in DOMAIN L /\ L[r.what].flag = f
                                       /\ ~Dropped(r) /\ (LoadDone(r) \/ LoadFailed(r))
<1>1. (\A p \in page.parts : f \notin p.own) /\ \A a \in DOMAIN A : f \notin Flag(A[a].flag)
  BY DEF Alone
<1>2. CASE UserStep
  BY <1>1, <1>2, UserUp
<1>3. CASE Answer
  <2>1. PICK r \in requests :
          \/ Serve(r) \/ ActDone(r) \/ ActRefused(r) \/ LoadDone(r) \/ LoadFailed(r)
    BY <1>3 DEF Answer
  <2>2. CASE Serve(r)
    <3>1. PICK c :
            r.what \in DOMAIN A /\ requests' = (requests \ {r}) \cup {c} /\ page' = page
            /\ c.what = r.what
      BY <2>2, ServeMakes
    <3>2. c.what \notin DOMAIN L
      BY <3>1, Found, Named
    <3>3. Free(f)'
      BY <3>1, <3>2, FreeFewer
    <3>4. Up(f)
      BY <2>2 DEF Serve, Up
    <3> QED
      BY <3>3, <3>4
  <2>3. CASE ActDone(r) \/ ActRefused(r)
    BY <1>1, <2>3, ActUp
  <2>4. CASE LoadDone(r) \/ LoadFailed(r)
    BY <2>4, LoadUp DEF LoadDone, LoadFailed
  <2> QED
    BY <2>1, <2>2, <2>3, <2>4
<1>4. CASE UNCHANGED vars
  <2>1. page' = page /\ requests' = requests /\ flags' = flags
    BY <1>4 DEF vars
  <2> QED
    BY <2>1, FreeFewer DEF Up
<1> QED
  BY <1>2, <1>3, <1>4 DEF Next

-----------------------------------------------------------------------------
(* A dialog that opens bare.                                                *)

LEMMA FetchSays ==
  ASSUME NEW dialog, NEW l \in DOMAIN L, Fetches(page, dialog, l)
  PROVE  /\ \A a \in DOMAIN A :
              A[a].opens # Blank => A[a].closes = dialog /\ A[a].opens # dialog
         /\ \A k \in DOMAIN L : L[k].opens = Blank
         /\ \A p \in page.parts : p.on = dialog => DOMAIN p.offers \cap {q.on : q \in page.parts} = {}
         /\ l \in Brought(dialog)
         /\ \A q, d, n : Key(l, q, d, n) = d
<1>1. l \in Brought(dialog)
  BY DEF Fetches, Brought, PartsOn
<1>2. "query" \notin L[l].by /\ {"open", "dialog"} \cap L[l].by # {}
  BY DEF Fetches, L
<1>3. \A q, d, n : Key(l, q, d, n) = d
  BY <1>2 DEF Key
<1> QED
  BY <1>1, <1>3 DEF Fetches, ClicksOnly, A, L

LEMMA BareSays ==
  ASSUME NEW dialog, NEW l \in DOMAIN L, OpensBare(page, dialog, l)
  PROVE  /\ Fetches(page, dialog, l) /\ l \in Brought(dialog)
         /\ \A q, d, n : Key(l, q, d, n) = d
         /\ L[l].resets \/ HidesUntil(page, dialog, l)
BY FetchSays DEF OpensBare, L

(* It is on top as long as it is there.                                     *)
LEMMA FetchTop ==
  ASSUME TypeOK, TypeOK', Stacked, [Next]_vars,
         NEW dialog, NEW l \in DOMAIN L, Fetches(page, dialog, l),
         \A e \in surfaces : e.on = dialog => e = Top
  PROVE  /\ \A e \in surfaces' : e.on = dialog => e = Top'
         /\ Open(dialog) \/ (Top'.on = dialog => Top' = Top)
<1>1. CASE surfaces' \subseteq surfaces
  <2>1. \A e \in surfaces' : e.on = dialog => e = Top /\ Top' = Top
    BY <1>1, TopStays
  <2>2. Top' \in surfaces'
    BY TopThen
  <2> QED
    BY <2>1, <2>2
<1>2. ASSUME NEW name, NEW stack \in SUBSET surfaces, surfaces' = Over(name, stack),
             \A e \in stack : e.on # dialog
      PROVE  Top'.on = name /\ \A e \in surfaces' : e.on = dialog => e = Top'
  <2> DEFINE entry == [on |-> name, n |-> opened + 1]
  <2>1. surfaces' \subseteq stack \cup {entry}
    BY <1>2, Laid
  <2>2. Top' = entry
    BY <1>2, TopLaid
  <2>3. entry.on = name
    OBVIOUS
  <2> HIDE DEF entry
  <2> QED
    BY <1>2, <2>1, <2>2, <2>3
<1>3. CASE \E name \in {p.on : p \in page.parts} : Open(name)
  <2>1. PICK name \in {p.on : p \in page.parts} : Open(name)
    BY <1>3
  <2>2. \E p \in page.parts : p.on = Top.on /\ name \in DOMAIN p.offers
    BY <2>1 DEF Open, Enabled, Visible, PartsOn
  <2>3. Top.on # dialog
    BY <2>1, <2>2, FetchSays
  <2>4. surfaces' = Over(name, surfaces) /\ \A e \in surfaces : e.on # dialog
    BY <2>1, <2>3 DEF Open
  <2>5. surfaces \in SUBSET surfaces
    OBVIOUS
  <2>6. Top'.on = name /\ \A e \in surfaces' : e.on = dialog => e = Top'
    BY <1>2, <2>4, <2>5
  <2> QED
    BY <2>1, <2>6
<1>4. CASE ByHandler
  <2>1. PICK a \in DOMAIN A :
          A[a].opens # Blank /\ surfaces' = Over(A[a].opens, Without(A[a].closes))
    BY <1>4 DEF ByHandler
  <2>2. A[a].closes = dialog /\ A[a].opens # dialog
    BY <2>1, FetchSays
  <2>3. Without(dialog) \in SUBSET surfaces /\ \A e \in Without(dialog) : e.on # dialog
    BY DEF Without
  <2> QED
    BY <1>2, <2>1, <2>2, <2>3
<1>5. ~ \E k \in DOMAIN L : ByAnswer(k)
  BY FetchSays DEF ByAnswer
<1> QED
  BY <1>1, <1>3, <1>4, <1>5, StepLays

(* Opening it empties the panel, or a spinner covers it.                    *)
LEMMA BareOpened ==
  ASSUME TypeOK, NEW dialog, NEW l \in DOMAIN L, OpensBare(page, dialog, l), Open(dialog),
         L[l].resets \/ Free(L[l].flag), Rows(l)'
  PROVE  ~L[l].resets /\ L[l].flag \in flags'
<1>1. l \in Brought(dialog) /\ (L[l].resets \/ HidesUntil(page, dialog, l))
  BY BareSays
<1>2. ~L[l].resets
  <2> SUFFICES ASSUME L[l].resets
               PROVE  FALSE
    OBVIOUS
  <2>1. shown' = Emptied(Brought(dialog))
    BY DEF Open
  <2>2. shown'[l] = [shown[l] EXCEPT !.ok = FALSE]
    BY <1>1, <2>1 DEF Emptied
  <2>3. shown[l] \in PanelStates
    BY Found
  <2>4. shown'[l].ok = FALSE
    BY <2>2, <2>3 DEF PanelStates
  <2> QED
    BY <2>4 DEF Rows
<1>3. PICK f : f = L[l].flag
  OBVIOUS
<1>4. page' = page /\ f \notin Nothing.lowers
      /\ Send(Brought(dialog), query, opened', requests, {}, Nothing)
  BY NothingOwed DEF Open
<1>5. PICK ls, q, d, kept, lowered, owed :
        /\ ls = Brought(dialog) /\ q = query /\ d = opened' /\ kept = requests /\ lowered = {}
        /\ owed = Nothing
  OBVIOUS
<1>6. Send(ls, q, d, kept, lowered, owed) /\ l \in ls /\ f \notin owed.lowers /\ kept \subseteq requests
  BY <1>1, <1>4, <1>5
<1>7. (\A p \in page.parts : f \notin p.own) /\ f \in Flag(L[l].flag) /\ Free(f)
  BY <1>1, <1>2, <1>3, HidesSays
<1>8. f \in flags'
  BY <1>4, <1>6, <1>7, SendUp
<1> QED
  BY <1>2, <1>3, <1>8

LEMMA BareKept ==
  ASSUME TypeOK, TypeOK', Stacked, [Next]_vars,
         NEW dialog, NEW l \in DOMAIN L, OpensBare(page, dialog, l),
         \A e \in surfaces : e.on = dialog => e = Top,
         Rows(l) /\ Top.on = dialog =>
           shown[l].key = Top.n \/ (~L[l].resets /\ L[l].flag \in flags),
         L[l].resets \/ Free(L[l].flag),
         Rows(l)', Top'.on = dialog
  PROVE  shown'[l].key = Top'.n \/ (~L[l].resets /\ L[l].flag \in flags')
<1>1. CASE Open(dialog)
  BY <1>1, BareOpened
<1>2. CASE ~Open(dialog)
  <2>1. Top' = Top
    BY <1>2, FetchTop, BareSays
  <2>2. CASE Answered(l)
    BY <2>1, <2>2, AnswerIsDue, BareSays
  <2>3. CASE ~Answered(l)
    <3>1. Rows(l) /\ shown'[l].key = shown[l].key
      BY <2>3, RowsStep
    <3>2. shown[l].key = Top.n \/ (~L[l].resets /\ L[l].flag \in flags)
      BY <2>1, <3>1
    <3>3. ASSUME ~L[l].resets, L[l].flag \in flags
          PROVE  L[l].flag \in flags'
      <4>1. HidesUntil(page, dialog, l) /\ Free(L[l].flag)
        BY <3>3, BareSays
      <4>2. PICK f : f = L[l].flag
        OBVIOUS
      <4>3. ASSUME NEW r \in requests, r.what = l, ~Dropped(r), LoadFailed(r)
            PROVE  FALSE
        <5>1. shown' = [shown EXCEPT ![l].n = r.n,
                                     ![l].failed = TRUE,
                                     ![l].ok = @ /\ L[l].fails = "keep"]
          BY <4>3 DEF LoadFailed
        <5>2. L[l].fails # "keep"
          BY <4>1, HidesSays
        <5>3. shown'[l].ok = FALSE
          BY <5>1, <5>2, Found DEF PanelStates
        <5> QED
          BY <5>3 DEF Rows
      <4>4. Up(f)
        BY <2>3, <4>1, <4>2, <4>3, StepUp, HidesSays DEF Answered
      <4> QED
        BY <3>3, <4>2, <4>4 DEF Up
    <3> QED
      BY <2>1, <3>1, <3>2, <3>3
  <2> QED
    BY <2>2, <2>3
<1> QED
  BY <1>1, <1>2

LEMMA BareStep ==
  ASSUME TypeOK, TypeOK', Stacked, BareInv, [Next]_vars
  PROVE  BareInv'
<1>1. page' = page /\ L' = L /\ Dialogs(page') = Dialogs(page)
  BY PageStays, SamePage, SameDialogs
<1> SUFFICES ASSUME NEW dialog \in Dialogs(page), NEW l \in DOMAIN L, OpensBare(page, dialog, l)
             PROVE  /\ \A e \in surfaces' : e.on = dialog => e = Top'
                    /\ Rows(l)' /\ Top'.on = dialog =>
                          shown'[l].key = Top'.n \/ (~L[l].resets /\ L[l].flag \in flags')
                    /\ L[l].resets \/ Free(L[l].flag)'
  BY <1>1 DEF BareInv, Free
<1>2. /\ \A e \in surfaces : e.on = dialog => e = Top
      /\ Rows(l) /\ Top.on = dialog =>
           shown[l].key = Top.n \/ (~L[l].resets /\ L[l].flag \in flags)
      /\ L[l].resets \/ Free(L[l].flag)
  BY DEF BareInv, Free
<1>3. \A e \in surfaces' : e.on = dialog => e = Top'
  BY <1>2, FetchTop, BareSays
<1>4. Rows(l)' /\ Top'.on = dialog =>
        shown'[l].key = Top'.n \/ (~L[l].resets /\ L[l].flag \in flags')
  BY <1>2, BareKept
<1>5. L[l].resets \/ Free(L[l].flag)'
  <2> SUFFICES ASSUME ~L[l].resets
               PROVE  Free(L[l].flag)'
    OBVIOUS
  <2>1. PICK f : f = L[l].flag
    OBVIOUS
  <2>2. Free(f) /\ HidesUntil(page, dialog, l)
    BY <1>2, <2>1, BareSays
  <2>3. Free(f)'
    BY <2>1, <2>2, StepUp, HidesSays
  <2> QED
    BY <1>1, <2>1, <2>3 DEF Free
<1> QED
  BY <1>3, <1>4, <1>5

LEMMA RowStep ==
  ASSUME TypeOK, TypeOK', Stacked, Deferred, RowInv, [Next]_vars
  PROVE  RowInv'
<1>1. page' = page /\ L' = L /\ Dialogs(page') = Dialogs(page)
  BY PageStays, SamePage, SameDialogs
<1> SUFFICES ASSUME NEW dialog \in Dialogs(page), NEW l \in DOMAIN L, OpensWithRow(page, dialog, l),
                    Rows(l)', NEW e \in surfaces', e.on = dialog
             PROVE  shown'[l].key = sent'[l]
  BY <1>1 DEF RowInv
<1>2. Rows(l) /\ (\E s \in surfaces : s.on = dialog) => shown[l].key = sent[l]
  BY DEF RowInv
<1> QED
  BY <1>2, RowKept

LEMMA RowsInitially == Init => Stacked /\ BareInv /\ RowInv
<1> SUFFICES ASSUME Init
             PROVE  Stacked /\ BareInv /\ RowInv
  OBVIOUS
<1>1. page \in Catalogue /\ surfaces = {[on |-> "page", n |-> 0]}
  BY DEF Init
<1>2. "page" \notin Dialogs(page)
  BY <1>1, Named DEF Dialogs, PartsOn
<1>3. \A e \in surfaces : e.on \notin Dialogs(page)
  BY <1>1, <1>2
<1>4. Top.on = "page"
  BY <1>1, TopIsThere, InitTypes DEF IInv
<1>5. \A r \in requests : r.owed.lowers = {}
  BY AtFirst, NothingOwed
<1> QED
  BY <1>1, <1>2, <1>3, <1>4, <1>5 DEF Stacked, BareInv, RowInv

LEMMA RowsInvariance == Spec => [](Stacked /\ BareInv /\ RowInv)
<1>1. ASSUME IInv, IInv', Deferred, Stacked, BareInv, RowInv, [Next]_vars
      PROVE  Stacked' /\ BareInv' /\ RowInv'
  BY <1>1, StackedStep, BareStep, RowStep DEF IInv
<1>2. IInv /\ IInv' /\ Deferred /\ Stacked /\ BareInv /\ RowInv /\ [Next]_vars
      => Stacked' /\ BareInv' /\ RowInv'
  BY <1>1
<1> QED
  BY <1>2, RowsInitially, Invariance, FetchInvariance, PTL DEF Spec

(* On a page whose dialogs about rows open bare or with their row, but for  *)
(* what MixesRows lists, no dialog shows what another row's dialog fetched: *)
(* however often dialogs are opened and closed while calls run, and in      *)
(* whatever order the answers come.                                         *)
THEOREM OwnRowShown == Spec => [](RowsApart(page) => ShowsItsOwnRow)
<1>1. ASSUME TypeOK, Stacked, BareInv, RowInv, RowsApart(page)
      PROVE  ShowsItsOwnRow
  <2> SUFFICES ASSUME Top.on \in Dialogs(page), NEW l \in Panels,
                      {"open", "ask"} \cap L[l].by # {}, shown[l].ok, ~shown[l].late, ~Current(l)
               PROVE  <<page.name, l>> \in MixesRows
    BY DEF ShowsItsOwnRow, Dialogs, PartsOn
  <2>1. PICK p \in page.parts : p.on = Top.on /\ l \in p.shows /\ p.hides \cap flags = {}
    BY DEF Panels, Visible, PartsOn
  <2>2. l \in DOMAIN L /\ Rows(l) /\ Top \in surfaces
    BY <1>1, <2>1, Found, Named, TopIsThere DEF Rows
  <2>3. \/ OpensBare(page, p.on, l) \/ OpensWithRow(page, p.on, l) \/ <<page.name, l>> \in MixesRows
    BY <1>1, <2>1 DEF RowsApart, L
  <2>4. ~OpensWithRow(page, p.on, l)
    <3> SUFFICES ASSUME OpensWithRow(page, p.on, l)
                 PROVE  FALSE
      OBVIOUS
    <3>1. shown[l].key = sent[l]
      BY <1>1, <2>1, <2>2 DEF RowInv
    <3>2. Key(l, query, Top.n, sent[l]) = sent[l]
      BY <2>2, WithRowSays DEF Key
    <3> QED
      BY <3>1, <3>2 DEF Current
  <2>5. ~OpensBare(page, p.on, l)
    <3> SUFFICES ASSUME OpensBare(page, p.on, l)
                 PROVE  FALSE
      OBVIOUS
    <3>1. shown[l].key # Top.n
      BY <2>2, BareSays DEF Current
    <3>2. ~L[l].resets /\ L[l].flag \in flags
      BY <1>1, <2>1, <2>2, <3>1 DEF BareInv
    <3>3. HidesUntil(page, p.on, l)
      BY <2>2, <3>2, BareSays
    <3>4. L[l].flag \in p.hides
      BY <2>1, <2>2, <3>3, HidesSays
    <3> QED
      BY <2>1, <3>2, <3>4
  <2> QED
    BY <2>3, <2>4, <2>5
<1>2. IInv => TypeOK
  BY DEF IInv
<1> QED
  BY <1>1, <1>2, Invariance, RowsInvariance, PTL

-----------------------------------------------------------------------------
(* Rows and the filters.                                                    *)

(* A call stays until it is answered.                                       *)
LEMMA RequestStays ==
  ASSUME TypeOK, [Next]_vars, NEW r \in requests, r.what \in DOMAIN L
  PROVE  r \in requests' \/ LoadDone(r) \/ LoadFailed(r)
<1>1. r.what \notin DOMAIN A
  BY Found, Named
<1>2. ASSUME NEW ls, NEW q, NEW d, NEW kept, NEW lowered, NEW owed,
             Send(ls, q, d, kept, lowered, owed), r \in kept
      PROVE  r \in requests'
  BY <1>2 DEF Send
<1>3. CASE UserStep
  <2>1. \/ requests' = requests
        \/ \E ls, q, d : Send(ls, q, d, requests, {}, Nothing)
        \/ \E a : SendAct(a)
    BY <1>3 DEF UserStep, ChangeQuery, Close, Refresh, Open, Submit, Confirm
  <2>2. PICK kept, lowered, owed : kept = requests /\ lowered = {} /\ owed = Nothing
    OBVIOUS
  <2>3. CASE \E ls, q, d : Send(ls, q, d, requests, {}, Nothing)
    BY <1>2, <2>2, <2>3
  <2> QED
    BY <2>1, <2>3 DEF SendAct
<1>4. ASSUME NEW s \in requests, s # r, ActDone(s) \/ ActRefused(s)
      PROVE  r \in requests'
  <2>1. requests \ {s} \subseteq requests' \/ \E refused : Conclude(s, refused)
    BY <1>4, ActStep, GivenUpLoads
  <2>2. ASSUME NEW refused, Conclude(s, refused)
        PROVE  \/ requests' = requests \ {s}
               \/ \E ls, q, d, lowered, owed : Send(ls, q, d, requests \ {s}, lowered, owed)
    BY <2>2, Concluded
  <2>3. PICK kept : kept = requests \ {s}
    OBVIOUS
  <2> QED
    BY <1>2, <1>4, <2>1, <2>2, <2>3
<1>5. ASSUME NEW s \in requests, s # r, LoadDone(s) \/ LoadFailed(s)
      PROVE  r \in requests'
  <2>1. requests' = requests \ {s} \/ \E ls : Continue(s, ls)
    BY <1>5 DEF LoadDone, LoadFailed
  <2>2. \/ requests' = requests \ {s}
        \/ \E ls, lowered, owed : Send(ls, s.q, s.d, requests \ {s}, lowered, owed)
    BY <2>1 DEF Continue
  <2>3. PICK q, d, kept : q = s.q /\ d = s.d /\ kept = requests \ {s}
    OBVIOUS
  <2> QED
    BY <1>2, <1>5, <2>2, <2>3
<1>6. CASE Answer
  <2>1. PICK s \in requests :
          \/ Serve(s) \/ ActDone(s) \/ ActRefused(s) \/ LoadDone(s) \/ LoadFailed(s)
    BY <1>6 DEF Answer
  <2>2. CASE Serve(s)
    BY <1>1, <2>2 DEF Serve
  <2>3. CASE s = r
    BY <1>1, <2>1, <2>2, <2>3 DEF ActDone, ActRefused
  <2> QED
    BY <1>4, <1>5, <2>1, <2>2, <2>3
<1>7. CASE UNCHANGED vars
  BY <1>7 DEF vars
<1> QED
  BY <1>3, <1>6, <1>7 DEF Next

(* Nobody comes back to the page.                                           *)
LEMMA GoneStays ==
  ASSUME [Next]_vars, gone
  PROVE  gone'
<1>1. CASE UserStep
  BY <1>1 DEF UserStep, ChangeQuery, Close, Refresh, Open, Submit, Confirm
<1>2. CASE Answer
  BY <1>2 DEF Answer, Serve, ActDone, ActRefused, LoadDone, LoadFailed, Conclude
<1> QED
  BY <1>1, <1>2 DEF Next, vars

(* A call that fails and is not dropped leaves a panel that is not filled.  *)
LEMMA FailureShows ==
  ASSUME TypeOK, NEW r \in requests, ~Dropped(r), LoadFailed(r)
  PROVE  r.what \in DOMAIN L /\ shown'[r.what].failed
<1>1. r.what \in DOMAIN L
      /\ shown' = [shown EXCEPT ![r.what].n = r.n,
                                ![r.what].failed = TRUE,
                                ![r.what].ok = @ /\ L[r.what].fails = "keep"]
  BY DEF LoadFailed
<1> QED
  BY <1>1, Found DEF PanelStates

-----------------------------------------------------------------------------
(* Loads that depend on nothing.                                            *)

LEMMA KeylessStep ==
  ASSUME TypeOK, KeylessInv, [Next]_vars
  PROVE  KeylessInv'
<1>1. page' = page /\ L' = L /\ DOMAIN L \cap DOMAIN A = {}
  BY PageStays, SamePage, Found, Named
<1> SUFFICES ASSUME NEW l \in DOMAIN L, Keyless(page, l)
             PROVE  shown'[l].key = 0 /\ \A r \in requests' : r.what = l => r.key = 0
  BY <1>1 DEF KeylessInv
<1>2. \A q, d, n : Key(l, q, d, n) = 0
  BY DEF Key, Keyless, L
<1>3. shown[l].key = 0 /\ \A r \in requests : r.what = l => r.key = 0
  BY DEF KeylessInv
<1>4. shown'[l].key = 0
  BY <1>3, RowsStep, AnswerShows DEF Answered
<1>5. \A r \in requests' : r.what = l => r.key = 0
  <2>1. CASE \E r \in requests : Serve(r)
    <3>1. PICK r \in requests : Serve(r)
      BY <2>1
    <3>2. PICK c : r.what \in DOMAIN A /\ requests' = (requests \ {r}) \cup {c} /\ c.what = r.what
      BY <3>1, ServeMakes
    <3> QED
      BY <1>1, <1>3, <3>2
  <2>2. CASE ~ \E r \in requests : Serve(r)
    <3>1. \A s \in requests' \ requests : Begun(s) \/ Abandoned(s) \/ Passed(s)
      BY <2>2, StepCalls
    <3> QED
      BY <1>1, <1>2, <1>3, <3>1 DEF Begun, Abandoned, Passed
  <2> QED
    BY <2>1, <2>2
<1> QED
  BY <1>4, <1>5

-----------------------------------------------------------------------------
(* Dialogs that drop old answers.                                           *)

LEMMA DropStep ==
  ASSUME TypeOK, TypeOK', Stacked, DropInv, [Next]_vars
  PROVE  DropInv'
<1>1. page' = page /\ L' = L /\ Dialogs(page') = Dialogs(page)
  BY PageStays, SamePage, SameDialogs
<1> SUFFICES ASSUME NEW dialog \in Dialogs(page), NEW l \in DOMAIN L,
                    Fetches(page, dialog, l), L[l].latest, ~gone'
             PROVE  /\ \A e \in surfaces' : e.on = dialog => e = Top'
                    /\ Top'.on = dialog /\ Filled(l)' =>
                         \/ Current(l)'
                         \/ \E r \in requests' : r.what = l /\ r.key = Key(l, query, Top.n, sent[l])'
  BY <1>1 DEF DropInv
<1>2. ~gone /\ (\A q, d, n : Key(l, q, d, n) = d) /\ (\A q, d, n : Key(l, q, d, n)' = d)
  <2>1. \A q, d, n : Key(l, q, d, n)' = Key(l, q, d, n)
    BY <1>1 DEF Key
  <2> QED
    BY <2>1, GoneStays, FetchSays
<1>3. /\ \A e \in surfaces : e.on = dialog => e = Top
      /\ Top.on = dialog /\ Filled(l) =>
           shown[l].key = Top.n \/ \E r \in requests : r.what = l /\ r.key = Top.n
  BY <1>2 DEF DropInv, Current
<1>4. /\ \A e \in surfaces' : e.on = dialog => e = Top'
      /\ Open(dialog) \/ (Top'.on = dialog => Top' = Top)
  BY <1>3, FetchTop
<1>5. ASSUME Top'.on = dialog, Filled(l)'
      PROVE  shown'[l].key = Top'.n \/ \E r \in requests' : r.what = l /\ r.key = Top'.n
  <2>1. CASE Open(dialog)
    <3> DEFINE c == Call(l, query, opened', Nothing)
    <3>1. l \in Brought(dialog) /\ surfaces' = Over(dialog, surfaces) /\ opened' = opened + 1
          /\ requests' = requests \cup {Call(k, query, opened', Nothing) : k \in Brought(dialog)}
      BY <2>1, FetchSays DEF Open, Send
    <3>2. c \in requests' /\ c.what = l /\ c.key = opened'
      BY <1>2, <3>1 DEF Call
    <3>3. Top' = [on |-> dialog, n |-> opened + 1]
      BY <3>1, TopLaid
    <3> QED
      BY <3>1, <3>2, <3>3
  <2>2. CASE ~Open(dialog)
    <3>1. Top' = Top
      BY <1>4, <1>5, <2>2
    <3>2. ASSUME NEW r \in requests, r.what = l, ~Dropped(r), LoadDone(r)
          PROVE  shown'[l].key = Top.n
      <4>1. r.key = Top.n
        BY <1>2, <3>2 DEF Dropped, Due
      <4> QED
        BY <3>2, <4>1, AnswerShows
    <3>3. CASE ~Answered(l)
      <4>1. shown'[l].key = shown[l].key /\ Filled(l)
        BY <1>1, <1>5, <3>3, RowsStep DEF Filled
      <4>2. ASSUME NEW r \in requests, r.what = l, r.key = Top.n
            PROVE  r \in requests'
        <5>1. ~Dropped(r)
          BY <1>2, <4>2 DEF Dropped, Due
        <5>2. ~LoadDone(r)
          BY <3>3, <4>2, <5>1 DEF Answered
        <5>3. ~LoadFailed(r)
          BY <1>5, <4>2, <5>1, FailureShows DEF Filled
        <5> QED
          BY <4>2, <5>2, <5>3, RequestStays
      <4> QED
        BY <1>3, <1>5, <3>1, <4>1, <4>2
    <3> QED
      BY <3>1, <3>2, <3>3 DEF Answered
  <2> QED
    BY <2>1, <2>2
<1> QED
  BY <1>2, <1>4, <1>5 DEF Current

-----------------------------------------------------------------------------
(* Loads that are sent one by one.                                          *)

(* The filters matter to the loads of the flag.                             *)
Filtered(f) == \E l \in By("query") : L[l].flag = f

LEMMA OneSays ==
  ASSUME TypeOK, NEW f, OneByOne(page, f)
  PROVE  /\ Alone(f)
         /\ \A l, k \in By("query") : L[l].flag = f /\ L[k].flag = f => l = k
         /\ \A l, k \in By("mount") : L[l].flag = f /\ L[k].flag = f => l = k
         /\ \A l \in DOMAIN L : \A k, m \in L[l].next : L[k].flag = f /\ L[m].flag = f => k = m
         /\ \A l \in DOMAIN L : L[l].flag # f => \A k \in L[l].next : L[k].flag # f
         /\ \A a \in DOMAIN A : A[a].after = {} /\ \A k \in A[a].then : L[k].flag # f
         /\ \A name : \A k \in Brought(name) : L[k].flag # f
         /\ \A p \in page.parts : \A c \in DOMAIN p.offers \cap DOMAIN L :
              L[c].flag = f => f \in p.hides \cup p.offers[c]
         /\ \A p \in page.parts : "query" \in DOMAIN p.offers /\ Filtered(f) =>
              f \in p.hides \cup p.offers["query"]
<1> DEFINE loads == {l \in DOMAIN L : L[l].flag = f}
           filtered == {l \in loads : "query" \in L[l].by}
<1>1. /\ f # Blank /\ One(filtered) /\ One({l \in loads : "mount" \in L[l].by})
      /\ \A l \in loads : ~L[l].waits /\ One(L[l].next \cap loads)
      /\ \A l \in DOMAIN L \ loads : L[l].next \cap loads = {}
      /\ \A a \in DOMAIN A : /\ A[a].flag # f /\ A[a].after = {}
                             /\ A[a].then \cap loads = {}
      /\ \A p \in page.parts :
           /\ f \notin p.own /\ p.brings \cap loads = {}
           /\ \A c \in DOMAIN p.offers :
                c \in loads \/ (c = "query" /\ filtered # {}) => f \in p.hides \cup p.offers[c]
  BY DEF OneByOne, L, A
<1>2. /\ \A l \in DOMAIN L : L[l].next \subseteq DOMAIN L
      /\ \A a \in DOMAIN A : A[a].then \subseteq DOMAIN L
      /\ \A p \in page.parts : p.brings \subseteq DOMAIN L
  BY Found, Named
<1>3. Alone(f)
  BY <1>1 DEF Alone, Flag
<1>4. /\ \A l, k \in By("query") : L[l].flag = f /\ L[k].flag = f => l = k
      /\ \A l, k \in By("mount") : L[l].flag = f /\ L[k].flag = f => l = k
  BY <1>1 DEF By, One
<1>5. \A l \in DOMAIN L : \A k, m \in L[l].next : L[k].flag = f /\ L[m].flag = f => k = m
  <2> SUFFICES ASSUME NEW l \in DOMAIN L, NEW k \in L[l].next, NEW m \in L[l].next,
                      L[k].flag = f, L[m].flag = f
               PROVE  k = m
    OBVIOUS
  <2>1. k \in loads /\ m \in loads
    BY <1>2
  <2>2. One(L[l].next \cap loads)
    BY <1>1, <2>1
  <2> QED
    BY <2>1, <2>2 DEF One
<1>6. \A l \in DOMAIN L : L[l].flag # f => \A k \in L[l].next : L[k].flag # f
  BY <1>1, <1>2
<1>7. \A a \in DOMAIN A : A[a].after = {} /\ \A k \in A[a].then : L[k].flag # f
  BY <1>1, <1>2
<1>8. \A name : \A k \in Brought(name) : L[k].flag # f
  BY <1>1, <1>2 DEF Brought, PartsOn
<1>9. \A p \in page.parts : \A c \in DOMAIN p.offers \cap DOMAIN L :
        L[c].flag = f => f \in p.hides \cup p.offers[c]
  BY <1>1
<1>10. \A p \in page.parts : "query" \in DOMAIN p.offers /\ Filtered(f) =>
         f \in p.hides \cup p.offers["query"]
  <2>1. Filtered(f) => filtered # {}
    BY DEF Filtered, By
  <2> QED
    BY <1>1, <2>1
<1> QED
  BY <1>3, <1>4, <1>5, <1>6, <1>7, <1>8, <1>9, <1>10

LEMMA LastingKey ==
  ASSUME NEW l \in DOMAIN L, Lasting(page, l)
  PROVE  \A q, d, n : Key(l, q, d, n) = IF "query" \in L[l].by THEN q ELSE n
BY DEF Lasting, Key, L

(* Line, for what a step makes of it.                                       *)
LEMMA SameLine ==
  ASSUME page' = page, NEW f
  PROVE  /\ \A r : Chained(r, f)' = Chained(r, f)
         /\ \A l, q, d, n : Key(l, q, d, n)' = Key(l, q, d, n)
         /\ Filtered(f)' = Filtered(f) /\ OneByOne(page, f)' = OneByOne(page, f)
         /\ \A l : Lasting(page, l)' = Lasting(page, l)
         /\ Flag(f)' = Flag(f)
BY SamePage DEF Chained, Key, Filtered, By, OneByOne, Lasting, Flag

(* The loads ls are sent with filters q, of the calls there were kept stay: *)
(* in the flag's line one at most goes out, when none is there, for the     *)
(* filters on the screen, and no panel of before is left as it is.          *)
LEMMA LineMoves ==
  ASSUME TypeOK, page' = page, NEW f, Line(f), Free(f)',
         NEW ls \in SUBSET DOMAIN L, NEW q, NEW kept \in SUBSET requests,
         \A r \in requests' : Chained(r, f) => r \in kept \/ (r.what \in ls /\ r.q = q),
         \A r \in requests' \ kept : Chained(r, f) => \E d : r.key = Key(r.what, q, d, sent[r.what] + 1),
         \A r, s \in requests' \ kept : Chained(r, f) /\ r.what = s.what => r = s,
         \A l \in ls : \E r \in requests' : r.what = l,
         \A l \in DOMAIN L : sent'[l] = IF l \in ls THEN sent[l] + 1 ELSE sent[l],
         \A k, m \in ls : L[k].flag = f /\ L[m].flag = f => k = m,
         \A k \in ls : L[k].flag = f =>
           (\A r \in kept : ~Chained(r, f)) /\ (Filtered(f) => q = query'),
         \A r \in requests' : Chained(r, f) => f \in flags',
         query' # query => /\ Filtered(f) => \A r \in kept : ~Chained(r, f)
                           /\ \A l \in By("query") : L[l].flag = f => l \in ls,
         \A l \in DOMAIN L : L[l].flag = f /\ Lasting(page, l) /\ Filled(l)' =>
           \/ shown'[l].key = Key(l, query, Top.n, sent[l])
           \/ \E r \in requests' : r.what = l
  PROVE  Line(f)'
<1>1. L' = L /\ \A l : Filled(l)' = (shown'[l].ok /\ ~shown'[l].failed)
  BY SamePage DEF Filled
<1>2. ASSUME NEW r \in requests', NEW s \in requests', Chained(r, f), Chained(s, f)
      PROVE  r = s
  <2>1. CASE r \in kept /\ s \in kept
    BY <1>2, <2>1 DEF Line
  <2>2. CASE r \notin kept
    <3>1. r.what \in ls /\ L[r.what].flag = f
      BY <1>2, <2>2 DEF Chained
    <3>2. s \notin kept
      BY <1>2, <3>1
    <3>3. s.what \in ls /\ L[s.what].flag = f
      BY <1>2, <3>2 DEF Chained
    <3> QED
      BY <1>2, <2>2, <3>1, <3>2, <3>3
  <2>3. CASE r \in kept /\ s \notin kept
    <3>1. s.what \in ls /\ L[s.what].flag = f
      BY <1>2, <2>3 DEF Chained
    <3> QED
      BY <1>2, <2>3, <3>1
  <2> QED
    BY <2>1, <2>2, <2>3
<1>3. ASSUME NEW r \in requests', Chained(r, f), Filtered(f)
      PROVE  r.q = query'
  <2>1. CASE r \in kept
    <3>1. r.q = query
      BY <1>3, <2>1 DEF Line, Filtered
    <3> QED
      BY <1>3, <2>1, <3>1
  <2>2. CASE r \notin kept
    BY <1>3, <2>2 DEF Chained
  <2> QED
    BY <2>1, <2>2
<1>4. ASSUME NEW l \in DOMAIN L, L[l].flag = f, Lasting(page, l), NEW r \in requests', r.what = l
      PROVE  r.key = Key(l, query', Top'.n, sent'[l])
  <2>1. Chained(r, f) /\ ("query" \in L[l].by => Filtered(f))
    BY <1>4 DEF Chained, Filtered, By
  <2>2. \A n, d : Key(l, n, d, sent'[l]) = IF "query" \in L[l].by THEN n ELSE sent'[l]
    BY <1>4, LastingKey
  <2>3. CASE r \in kept
    <3>1. r.key = Key(l, query, Top.n, sent[l])
      BY <1>4, <2>3 DEF Line
    <3>2. l \notin ls
      BY <1>4, <2>1, <2>3
    <3>3. "query" \in L[l].by => query' = query
      BY <2>1, <2>3
    <3> QED
      BY <1>4, <2>2, <3>1, <3>2, <3>3, LastingKey
  <2>4. CASE r \notin kept
    <3>1. l \in ls /\ r.q = q /\ \E d : r.key = Key(l, q, d, sent[l] + 1)
      BY <1>4, <2>1, <2>4
    <3>2. Filtered(f) => q = query'
      BY <1>4, <3>1
    <3> QED
      BY <1>4, <2>1, <2>2, <3>1, <3>2, LastingKey
  <2> QED
    BY <2>3, <2>4
<1>5. ASSUME NEW l \in DOMAIN L, L[l].flag = f, Lasting(page, l), Filled(l)',
             ~ \E r \in requests' : r.what = l
      PROVE  shown'[l].key = Key(l, query', Top'.n, sent'[l])
  <2>1. shown'[l].key = Key(l, query, Top.n, sent[l]) /\ l \notin ls
    BY <1>5
  <2>2. sent'[l] = sent[l]
    BY <2>1
  <2>3. "query" \in L[l].by => query' = query
    BY <1>5, <2>1 DEF By
  <2> QED
    BY <1>5, <2>1, <2>2, <2>3, LastingKey
<1>6. \A r \in requests' : r.what \in DOMAIN L => f \notin r.owed.lowers
  BY <1>1 DEF Free
<1>7. /\ \A r, s \in requests' : Chained(r, f)' /\ Chained(s, f)' => r = s
      /\ \A r \in requests' : Chained(r, f)' => f \in flags' /\ (Filtered(f)' => r.q = query')
      /\ \A l \in DOMAIN L : L[l].flag = f /\ Lasting(page, l)' =>
           /\ \A r \in requests' : r.what = l => r.key = Key(l, query, Top.n, sent[l])'
           /\ Filled(l)' => shown'[l].key = Key(l, query, Top.n, sent[l])'
                            \/ \E r \in requests' : r.what = l
  <2>1. \A l \in DOMAIN L : Key(l, query, Top.n, sent[l])' = Key(l, query', Top'.n, sent'[l])
    BY <1>1 DEF Key
  <2> QED
    BY <1>2, <1>3, <1>4, <1>5, <2>1, SameLine
<1> QED
  BY <1>1, <1>6, <1>7 DEF Line, Filtered, By, Current

LEMMA LineSend ==
  ASSUME TypeOK, page' = page, NEW f, OneByOne(page, f), Line(f),
         NEW ls \in SUBSET DOMAIN L, NEW q, NEW d, NEW kept \in SUBSET requests,
         NEW lowered, NEW owed, f \notin owed.lowers, Send(ls, q, d, kept, lowered, owed),
         \A r \in kept : Chained(r, f) => f \in flags',
         \A k, m \in ls : L[k].flag = f /\ L[m].flag = f => k = m,
         \A k \in ls : L[k].flag = f =>
           (\A r \in kept : ~Chained(r, f)) /\ (Filtered(f) => q = query'),
         query' # query => /\ Filtered(f) => \A r \in kept : ~Chained(r, f)
                           /\ \A l \in By("query") : L[l].flag = f => l \in ls,
         \A l \in DOMAIN L : L[l].flag = f /\ Lasting(page, l) /\ Filled(l)' =>
           \/ shown'[l].key = Key(l, query, Top.n, sent[l])
           \/ \E r \in requests' : r.what = l
  PROVE  Line(f)'
<1>1. /\ requests' = kept \cup {Call(l, q, d, owed) : l \in ls}
      /\ \A l \in DOMAIN L : sent'[l] = IF l \in ls THEN sent[l] + 1 ELSE sent[l]
  BY DEF Send
<1>2. \A l : LET c == Call(l, q, d, owed) IN
             c.what = l /\ c.q = q /\ c.key = Key(l, q, d, sent[l] + 1)
  BY DEF Call
<1>3. Alone(f) /\ Free(f)
  BY OneSays DEF Line, Free
<1>4. Free(f)' /\ \A l \in ls : L[l].flag = f => f \in flags'
  BY <1>3, SendUp DEF Alone
<1>5. /\ \A r \in requests' : Chained(r, f) => r \in kept \/ (r.what \in ls /\ r.q = q)
      /\ \A r \in requests' \ kept : Chained(r, f) =>
           \E x : r.key = Key(r.what, q, x, sent[r.what] + 1)
      /\ \A r, s \in requests' \ kept : Chained(r, f) /\ r.what = s.what => r = s
      /\ \A l \in ls : \E r \in requests' : r.what = l
  BY <1>1, <1>2
<1>6. \A r \in requests' : Chained(r, f) => f \in flags'
  BY <1>4, <1>5 DEF Chained
<1> QED
  BY <1>1, <1>4, <1>5, <1>6, LineMoves

LEMMA LineQuiet ==
  ASSUME TypeOK, page' = page, NEW f, Line(f), Free(f)',
         \A r \in requests' : r.what \in DOMAIN L => r \in requests,
         \A r \in requests' : Chained(r, f) => f \in flags',
         query' = query, \A l \in DOMAIN L : sent'[l] = sent[l],
         \A l \in DOMAIN L : L[l].flag = f /\ Lasting(page, l) /\ Filled(l)' =>
           \/ shown'[l].key = Key(l, query, Top.n, sent[l])
           \/ \E r \in requests' : r.what = l
  PROVE  Line(f)'
<1>1. PICK ls \in SUBSET DOMAIN L, kept \in SUBSET requests : ls = {} /\ kept = requests
  OBVIOUS
<1>2. \A r \in requests' : Chained(r, f) => r \in kept
  BY <1>1 DEF Chained
<1> QED
  BY <1>1, <1>2, LineMoves

(* A panel of the line is filled with what it depends on, or a call that    *)
(* will replace it is still there.                                          *)
LEMMA RowsLine ==
  ASSUME TypeOK, [Next]_vars, ~gone, NEW f, Line(f)
  PROVE  \A l \in DOMAIN L : L[l].flag = f /\ Lasting(page, l) /\ Filled(l)' =>
           \/ shown'[l].key = Key(l, query, Top.n, sent[l])
           \/ \E r \in requests' : r.what = l
<1> SUFFICES ASSUME NEW l \in DOMAIN L, L[l].flag = f, Lasting(page, l), Filled(l)',
                    shown'[l].key # Key(l, query, Top.n, sent[l])
             PROVE  \E r \in requests' : r.what = l
  OBVIOUS
<1>1. \A r \in requests : r.what = l =>
        r.key = Key(l, query, Top.n, sent[l]) /\ ~Dropped(r)
  BY DEF Line, Dropped, Due
<1>2. ~Answered(l)
  BY <1>1, AnswerShows DEF Answered
<1>3. shown'[l].key = shown[l].key /\ Filled(l)
  <2>1. L' = L
    BY PageStays, SamePage
  <2> QED
    BY <1>2, RowsStep DEF Filled
<1>4. PICK r \in requests : r.what = l
  BY <1>3 DEF Line, Current
<1>5. ~LoadDone(r)
  BY <1>1, <1>2, <1>4 DEF Answered
<1>6. ~LoadFailed(r)
  BY <1>1, <1>4, FailureShows DEF Filled
<1> QED
  BY <1>4, <1>5, <1>6, RequestStays

(* What a flag hides or disables is not used while it is up.                *)
LEMMA Down ==
  ASSUME NEW f, NEW c, Enabled(c),
         \A p \in page.parts : c \in DOMAIN p.offers => f \in p.hides \cup p.offers[c]
  PROVE  f \notin flags
BY DEF Enabled, Visible, PartsOn

LEMMA LineUser ==
  ASSUME TypeOK, UserStep, ~gone, NEW f, OneByOne(page, f), Line(f)
  PROVE  Line(f)'
<1>1. page' = page /\ f \notin Nothing.lowers /\ Free(f)' /\ Up(f)
  <2>1. Alone(f) /\ Free(f)
    BY OneSays DEF Line, Free
  <2> QED
    BY <2>1, UserUp, NothingOwed, PageStays DEF Next, Alone
<1>2. \A l \in DOMAIN L : L[l].flag = f /\ Lasting(page, l) /\ Filled(l)' =>
        \/ shown'[l].key = Key(l, query, Top.n, sent[l])
        \/ \E r \in requests' : r.what = l
  BY RowsLine DEF Next
<1>3. \A r \in requests : Chained(r, f) => f \in flags /\ f \in flags'
  BY <1>1 DEF Line, Up
<1>4. ASSUME NEW ls \in SUBSET DOMAIN L, NEW q, NEW d, Send(ls, q, d, requests, {}, Nothing),
             \A k, m \in ls : L[k].flag = f /\ L[m].flag = f => k = m,
             \A k \in ls : L[k].flag = f => f \notin flags /\ (Filtered(f) => q = query'),
             query' # query => /\ Filtered(f) => f \notin flags
                               /\ \A l \in By("query") : L[l].flag = f => l \in ls
      PROVE  Line(f)'
  <2>1. PICK kept, lowered, owed :
          kept = requests /\ lowered = {} /\ owed = Nothing /\ kept \in SUBSET requests
    OBVIOUS
  <2>2. Send(ls, q, d, kept, lowered, owed) /\ f \notin owed.lowers
        /\ \A r \in kept : Chained(r, f) => f \in flags /\ f \in flags'
    BY <1>1, <1>3, <1>4, <2>1
  <2>3. /\ \A k \in ls : L[k].flag = f =>
             (\A r \in kept : ~Chained(r, f)) /\ (Filtered(f) => q = query')
        /\ query' # query => /\ Filtered(f) => \A r \in kept : ~Chained(r, f)
                             /\ \A l \in By("query") : L[l].flag = f => l \in ls
    BY <1>4, <2>2
  <2> QED
    BY <1>1, <1>2, <1>4, <2>1, <2>2, <2>3, LineSend
<1>5. CASE ChangeQuery
  <2>1. \E d : Send(By("query"), 1, d, requests, {}, Nothing)
    BY <1>5 DEF ChangeQuery
  <2>2. query' = 1 /\ Enabled("query")
    BY <1>5 DEF ChangeQuery
  <2>3. Filtered(f) => f \notin flags
    BY <2>2, OneSays, Down
  <2>4. PICK ls, q : ls = By("query") /\ q = 1 /\ ls \in SUBSET DOMAIN L
    BY Found, BroughtAreLoads
  <2>5. \A k \in ls : L[k].flag = f => Filtered(f)
    BY <2>4 DEF Filtered
  <2>6. \A k, m \in ls : L[k].flag = f /\ L[m].flag = f => k = m
    BY <2>4, OneSays
  <2> QED
    BY <1>4, <2>1, <2>2, <2>3, <2>4, <2>5, <2>6
<1>6. ASSUME NEW l \in DOMAIN L, Refresh(l)
      PROVE  Line(f)'
  <2>1. query' = query /\ Enabled(l) /\ \E d : Send({l}, query, d, requests, {}, Nothing)
    BY <1>6 DEF Refresh
  <2>2. L[l].flag = f => f \notin flags
    BY <2>1, OneSays, Down
  <2>3. PICK ls, q : ls = {l} /\ q = query /\ ls \in SUBSET DOMAIN L
    OBVIOUS
  <2>4. \A k, m \in ls : k = m
    BY <2>3
  <2> QED
    BY <1>4, <2>1, <2>2, <2>3, <2>4
<1>7. ASSUME NEW name, Open(name)
      PROVE  Line(f)'
  <2>1. query' = query /\ \E d : Send(Brought(name), query, d, requests, {}, Nothing)
    BY <1>7 DEF Open
  <2>2. PICK ls, q : ls = Brought(name) /\ q = query /\ ls \in SUBSET DOMAIN L
    BY Found, BroughtAreLoads
  <2>3. \A k \in ls : L[k].flag # f
    BY <2>2, OneSays
  <2> QED
    BY <1>4, <2>1, <2>2, <2>3
<1>8. ASSUME \A r \in requests' : r.what \in DOMAIN L => r \in requests, query' = query, sent' = sent
      PROVE  Line(f)'
  <2>1. \A r \in requests' : Chained(r, f) => f \in flags'
    BY <1>3, <1>8 DEF Chained
  <2> QED
    BY <1>1, <1>2, <1>8, <2>1, LineQuiet
<1>9. ASSUME NEW a \in DOMAIN A, SendAct(a)
      PROVE  \A r \in requests' : r.what \in DOMAIN L => r \in requests
  <2>1. DOMAIN L \cap DOMAIN A = {}
    BY Found, Named
  <2> QED
    BY <1>9, <2>1 DEF SendAct
<1>10. ASSUME Close \/ (\E a \in DOMAIN A : Submit(a)) \/ (\E yes \in BOOLEAN : Confirm(yes))
       PROVE  Line(f)'
  <2>1. query' = query /\ sent' = sent
    BY <1>10 DEF Close, Submit, Confirm
  <2>2. asking \in DOMAIN A \cup {Blank}
    BY Found
  <2>3. requests' = requests \/ \E a \in DOMAIN A : SendAct(a)
    BY <1>10, <2>2 DEF Close, Submit, Confirm
  <2> QED
    BY <1>8, <1>9, <2>1, <2>3
<1> QED
  BY <1>5, <1>6, <1>7, <1>10 DEF UserStep

LEMMA LineAct ==
  ASSUME TypeOK, Deferred, NEW r \in requests, ActDone(r) \/ ActRefused(r), ~gone, ~gone',
         NEW f, OneByOne(page, f), Line(f)
  PROVE  Line(f)'
<1> DEFINE a == A[r.what]
           left == Without(a.closes)
           follows == a.opens # Blank /\ (a.closes = Blank \/ left # surfaces)
           waiting == IF a.waits /\ a.then # {} THEN Lowered(r, "done") ELSE {}
<1>0. Next
  BY DEF Next, Answer
<1>1. page' = page /\ query' = query /\ r.what \in DOMAIN A /\ r.what \notin DOMAIN L
  <2>1. r.what \in DOMAIN A /\ query' = query
    BY DEF ActDone, ActRefused, Conclude, user
  <2> QED
    BY <1>0, <2>1, PageStays, Found, Named
<1>2. Free(f)' /\ Up(f) /\ f \notin Lowered(r, "done")
  <2>1. Alone(f) /\ Free(f)
    BY OneSays DEF Line, Free
  <2> QED
    BY <1>1, <2>1, ActUp, LoweredTypes DEF Alone
<1>3. \A l \in DOMAIN L : L[l].flag = f /\ Lasting(page, l) /\ Filled(l)' =>
        \/ shown'[l].key = Key(l, query, Top.n, sent[l])
        \/ \E s \in requests' : s.what = l
  BY <1>0, RowsLine
<1>4. \A s \in requests : Chained(s, f) => f \in flags'
  BY <1>2 DEF Line, Up
<1>5. ASSUME \A s \in requests' : s.what \in DOMAIN L => s \in requests, sent' = sent
      PROVE  Line(f)'
  <2>1. \A s \in requests' : Chained(s, f) => f \in flags'
    BY <1>1, <1>4, <1>5 DEF Chained
  <2> QED
    BY <1>1, <1>2, <1>3, <1>5, <2>1, LineQuiet
<1>6. ASSUME NEW refused, Conclude(r, refused)
      PROVE  \/ requests' = requests \ {r} /\ sent' = sent
             \/ \E ls, q, d, lowered, owed :
                  /\ Send(ls, q, d, requests \ {r}, lowered, owed)
                  /\ ls = a.then \cup (IF follows THEN Brought(a.opens) ELSE {})
                  /\ owed = [lowers |-> waiting, sends |-> a.after]
  BY <1>6, Concluded
<1>7. f \notin waiting
  BY <1>2
<1> HIDE DEF left, follows, waiting
<1>8. ASSUME NEW ls, NEW q, NEW d, NEW lowered, NEW owed,
             Send(ls, q, d, requests \ {r}, lowered, owed),
             ls = a.then \cup (IF follows THEN Brought(a.opens) ELSE {}),
             owed = [lowers |-> waiting, sends |-> a.after]
      PROVE  Line(f)'
  <2>1. ls \in SUBSET DOMAIN L
    BY <1>1, <1>8, Found, Named, BroughtAreLoads
  <2>2. \A k \in ls : L[k].flag # f
    BY <1>1, <1>8, OneSays
  <2>3. PICK kept \in SUBSET requests : kept = requests \ {r}
    OBVIOUS
  <2>4. f \notin owed.lowers /\ \A s \in kept : Chained(s, f) => f \in flags'
    BY <1>4, <1>7, <1>8
  <2> QED
    BY <1>1, <1>3, <1>8, <2>1, <2>2, <2>3, <2>4, LineSend
<1>9. CASE GivesUp(r)
  <2>1. \A s \in requests' : s.what \in DOMAIN L => s \in requests
    BY <1>1, <1>9, GivenUpLoads
  <2> QED
    BY <1>5, <1>9, <2>1 DEF GivesUp
<1>10. CASE \E refused : Conclude(r, refused)
  BY <1>5, <1>6, <1>8, <1>10
<1> QED
  BY <1>9, <1>10, ActStep

LEMMA LineLoad ==
  ASSUME TypeOK, Deferred, NEW r \in requests, LoadDone(r) \/ LoadFailed(r), ~gone,
         NEW f, OneByOne(page, f), Line(f)
  PROVE  Line(f)'
<1>0. Next
  BY DEF Next, Answer
<1>1. page' = page /\ query' = query /\ r.what \in DOMAIN L
  BY DEF LoadDone, LoadFailed
<1>2. Alone(f) /\ Free(f)
  BY OneSays DEF Line, Free
<1>3. Free(f)' /\ ((L[r.what].flag = f => Dropped(r)) => Up(f))
  BY <1>2, LoadUp
<1>4. \A l \in DOMAIN L : L[l].flag = f /\ Lasting(page, l) /\ Filled(l)' =>
        \/ shown'[l].key = Key(l, query, Top.n, sent[l])
        \/ \E s \in requests' : s.what = l
  BY <1>0, RowsLine
<1>5. \A s \in requests \ {r} : Chained(s, f) => f \in flags' /\ L[r.what].flag # f
  <2> SUFFICES ASSUME NEW s \in requests \ {r}, Chained(s, f)
               PROVE  f \in flags' /\ L[r.what].flag # f
    OBVIOUS
  <2>1. ~Chained(r, f) /\ f \in flags
    BY DEF Line
  <2>2. L[r.what].flag # f
    BY <1>1, <2>1 DEF Chained
  <2> QED
    BY <1>3, <2>1, <2>2 DEF Up
<1>6. CASE Dropped(r)
  <2>1. requests' = requests \ {r} /\ sent' = sent
    BY <1>6 DEF LoadDone, LoadFailed
  <2>2. \A s \in requests' : Chained(s, f) => f \in flags'
    BY <1>5, <2>1
  <2> QED
    BY <1>1, <1>3, <1>4, <2>1, <2>2, LineQuiet
<1>7. CASE ~Dropped(r)
  <2>1. PICK ls \in SUBSET DOMAIN L : Continue(r, ls) /\ ls \subseteq L[r.what].next
    <3>1. L[r.what].next \in SUBSET DOMAIN L /\ {} \in SUBSET DOMAIN L
      BY <1>1, Found, Named
    <3>2. \/ Continue(r, L[r.what].next)
          \/ Continue(r, IF L[r.what].always THEN L[r.what].next ELSE {})
      BY <1>7 DEF LoadDone, LoadFailed
    <3>3. (IF L[r.what].always THEN L[r.what].next ELSE {}) \in SUBSET DOMAIN L
          /\ (IF L[r.what].always THEN L[r.what].next ELSE {}) \subseteq L[r.what].next
      BY <3>1
    <3> QED
      BY <3>1, <3>2, <3>3
  <2>2. PICK es \in SUBSET DOMAIN L, owed \in Owes : \E lowered :
          /\ Send(es, r.q, r.d, requests \ {r}, lowered, owed)
          /\ ls \subseteq es
          /\ \/ /\ L[r.what].waits /\ ls # {} /\ es = ls /\ lowered = {}
                /\ owed.lowers = r.owed.lowers \cup Flag(L[r.what].flag)
                /\ owed.sends = r.owed.sends
             \/ /\ r.owed.sends # {} /\ es = ls \cup r.owed.sends
                /\ lowered = {L[r.what].flag}
                /\ owed.lowers = r.owed.lowers /\ owed.sends = {}
             \/ /\ r.owed.sends = {} /\ es = ls
                /\ lowered = {L[r.what].flag} \cup r.owed.lowers
                /\ owed.lowers = {} /\ owed.sends = {}
    BY <1>1, <2>1, Continued
  <2>3. r.owed.sends = {}
    BY <1>1, OneSays DEF Deferred
  <2>4. es \subseteq L[r.what].next
    BY <2>1, <2>2, <2>3
  <2>5. f \notin owed.lowers
    <3>1. f \notin r.owed.lowers
      BY <1>1, <1>2 DEF Free
    <3> QED
      BY <1>1, <1>2, <2>2, <3>1 DEF Alone
  <2>6. PICK q, d, kept : q = r.q /\ d = r.d /\ kept = requests \ {r} /\ kept \in SUBSET requests
    OBVIOUS
  <2>7. PICK lowered : Send(es, q, d, kept, lowered, owed)
    BY <2>2, <2>6
  <2>8. \A k \in es : L[k].flag = f => L[r.what].flag = f
    BY <1>1, <2>4, OneSays
  <2>9. \A k, m \in es : L[k].flag = f /\ L[m].flag = f => k = m
    BY <1>1, <2>4, OneSays
  <2>10. L[r.what].flag = f /\ Filtered(f) => q = query'
    BY <1>1, <2>6 DEF Line, Chained, Filtered
  <2>11. \A s \in kept : Chained(s, f) => f \in flags' /\ L[r.what].flag # f
    BY <1>5, <2>6
  <2>12. \A k \in es : L[k].flag = f =>
           (\A s \in kept : ~Chained(s, f)) /\ (Filtered(f) => q = query')
    BY <2>8, <2>10, <2>11
  <2> QED
    BY <1>1, <1>4, <2>5, <2>6, <2>7, <2>9, <2>11, <2>12, LineSend
<1> QED
  BY <1>6, <1>7

LEMMA LineStep ==
  ASSUME TypeOK, Deferred, [Next]_vars, ~gone', NEW f, OneByOne(page, f), ~gone => Line(f)
  PROVE  Line(f)'
<1>1. page' = page /\ ~gone /\ Line(f)
  BY PageStays, GoneStays
<1>2. ASSUME \A r \in requests' : r.what \in DOMAIN L => r \in requests,
             query' = query, sent' = sent, flags' = flags
      PROVE  Line(f)'
  <2>1. Free(f)'
    BY <1>1, <1>2, FreeFewer DEF Line, Free
  <2>2. \A r \in requests' : Chained(r, f) => f \in flags'
    BY <1>1, <1>2 DEF Line, Chained
  <2> QED
    BY <1>1, <1>2, <2>1, <2>2, RowsLine, LineQuiet
<1>3. CASE UserStep
  BY <1>1, <1>3, LineUser
<1>4. CASE Answer
  <2>1. PICK r \in requests :
          \/ Serve(r) \/ ActDone(r) \/ ActRefused(r) \/ LoadDone(r) \/ LoadFailed(r)
    BY <1>4 DEF Answer
  <2>2. CASE Serve(r)
    <3>1. PICK c : r.what \in DOMAIN A /\ requests' = (requests \ {r}) \cup {c} /\ c.what = r.what
      BY <2>2, ServeMakes
    <3>2. c.what \notin DOMAIN L
      BY <3>1, Found, Named
    <3> QED
      BY <1>2, <2>2, <3>1, <3>2 DEF Serve, user
  <2> QED
    BY <1>1, <2>1, <2>2, LineAct, LineLoad
<1>5. CASE UNCHANGED vars
  BY <1>2, <1>5 DEF vars
<1> QED
  BY <1>3, <1>4, <1>5 DEF Next

LEMMA OrderInitially == Init => KeylessInv /\ LineInv /\ DropInv
<1> SUFFICES ASSUME Init
             PROVE  KeylessInv /\ LineInv /\ DropInv
  OBVIOUS
<1>1. /\ page \in Catalogue /\ query = 0 /\ surfaces = {[on |-> "page", n |-> 0]}
      /\ flags = UNION {Flag(L[l].flag) : l \in By("mount")}
      /\ \A l \in DOMAIN L : shown[l].key = 0 /\ shown[l].ok = FALSE
  BY DEF Init
<1>2. TypeOK
  BY InitTypes DEF IInv
<1>3. /\ \A r \in requests : /\ r.what \in By("mount") /\ r.key = 0 /\ r.q = 0
                             /\ r.owed = Nothing
      /\ \A r, s \in requests : r.what = s.what /\ r.n = s.n => r = s
      /\ \A r \in requests : r.n = 1 \/ "remount" \in L[r.what].by
  BY AtFirst
<1>4. KeylessInv
  BY <1>1, <1>3 DEF KeylessInv
<1>5. ASSUME NEW f \in FlagNames, OneByOne(page, f)
      PROVE  Line(f)
  <2>1. \A r, s \in requests : Chained(r, f) /\ Chained(s, f) => r = s
    <3>1. \A r \in requests : Chained(r, f) => r.n = 1
      BY <1>3, <1>5 DEF Chained, OneByOne, L
    <3> QED
      BY <1>2, <1>3, <1>5, <3>1, OneSays DEF Chained
  <2>2. \A r \in requests : Chained(r, f) => f \in flags /\ r.q = query
    <3>1. \A r \in requests : Chained(r, f) => f \in Flag(L[r.what].flag)
      BY <1>2, <1>5, OneSays DEF Alone, Chained
    <3> QED
      BY <1>1, <1>3, <3>1
  <2>3. \A l \in DOMAIN L : Lasting(page, l) => \A r \in requests : r.what = l =>
          r.key = Key(l, query, Top.n, sent[l])
    <3> SUFFICES ASSUME NEW l \in DOMAIN L, Lasting(page, l), NEW r \in requests, r.what = l
                 PROVE  r.key = Key(l, query, Top.n, sent[l])
      OBVIOUS
    <3>1. "mount" \in L[l].by
      BY <1>3 DEF By
    <3>2. "query" \in L[l].by
      BY <3>1 DEF Lasting, L
    <3> QED
      BY <1>1, <1>3, <3>2, LastingKey
  <2>4. \A r \in requests : f \notin r.owed.lowers
    BY <1>3, NothingOwed
  <2> QED
    BY <1>1, <2>1, <2>2, <2>3, <2>4 DEF Line, Filled
<1>6. DropInv
  <2>1. "page" \notin Dialogs(page)
    BY <1>1, Named DEF Dialogs, PartsOn
  <2>2. Top.on = "page" /\ \A e \in surfaces : e.on = "page"
    BY <1>1, <1>2, TopIsThere
  <2> QED
    BY <2>1, <2>2 DEF DropInv
<1> QED
  BY <1>4, <1>5, <1>6 DEF LineInv

LEMMA OrderInvariance == Spec => [](KeylessInv /\ LineInv /\ DropInv)
<1>1. ASSUME IInv, IInv', Deferred, Stacked, KeylessInv, LineInv, DropInv, [Next]_vars
      PROVE  KeylessInv' /\ LineInv' /\ DropInv'
  <2>1. page' = page /\ FlagNames' = FlagNames /\ \A f : OneByOne(page, f)' = OneByOne(page, f)
    BY <1>1, PageStays, SamePage, SameLine
  <2>2. \A f \in FlagNames : OneByOne(page, f) /\ ~gone' => Line(f)'
    BY <1>1, LineStep DEF LineInv, IInv
  <2> QED
    BY <1>1, <2>1, <2>2, KeylessStep, DropStep DEF LineInv, IInv
<1>2. IInv /\ IInv' /\ Deferred /\ Stacked /\ KeylessInv /\ LineInv /\ DropInv /\ [Next]_vars
      => KeylessInv' /\ LineInv' /\ DropInv'
  BY <1>1
<1> QED
  BY <1>2, OrderInitially, Invariance, FetchInvariance, RowsInvariance, PTL DEF Spec

(* On a page whose panels depend on nothing the user changes, are fetched   *)
(* one call at a time while a flag covers what would send another, or drop  *)
(* answers that come late, but for what Overtaken lists, the rows are those *)
(* of the filters and the dialog on the screen when all is quiet: however   *)
(* many calls were sent, in whatever order they were answered or failed.    *)
THEOREM InOrderShown == Spec => [](InOrder(page) => ShowsItsQuery)
<1>1. ASSUME TypeOK, KeylessInv, LineInv, DropInv, InOrder(page)
      PROVE  ShowsItsQuery
  <2> SUFFICES ASSUME AtRest, NEW l \in Panels, Filled(l), ~Current(l)
               PROVE  <<page.name, l>> \in Overtaken
    BY DEF ShowsItsQuery
  <2>1. PICK p \in page.parts : p.on = Top.on /\ l \in p.shows
    BY DEF Panels, Visible, PartsOn
  <2>2. l \in DOMAIN L /\ requests = {} /\ ~gone
    BY <1>1, <2>1, Found, Named DEF AtRest
  <2>3. Ordered(page, p, l) \/ <<page.name, l>> \in Overtaken
    BY <1>1, <2>1 DEF InOrder
  <2>4. ~Keyless(page, l)
    <3> SUFFICES ASSUME Keyless(page, l)
                 PROVE  FALSE
      OBVIOUS
    <3>1. shown[l].key = 0
      BY <1>1, <2>2 DEF KeylessInv
    <3>2. Key(l, query, Top.n, sent[l]) = 0
      BY DEF Key, Keyless, L
    <3> QED
      BY <3>1, <3>2 DEF Current
  <2>5. ~ (Lasting(page, l) /\ OneByOne(page, L[l].flag))
    <3> SUFFICES ASSUME Lasting(page, l), OneByOne(page, L[l].flag)
                 PROVE  FALSE
      OBVIOUS
    <3>1. L[l].flag \in FlagNames
      BY <2>2 DEF FlagNames
    <3>2. Line(L[l].flag)
      BY <1>1, <2>2, <3>1 DEF LineInv
    <3> QED
      BY <2>2, <3>2 DEF Line
  <2>6. ~ (p.on \in Dialogs(page) /\ Fetches(page, p.on, l) /\ L[l].latest)
    BY <1>1, <2>1, <2>2 DEF DropInv
  <2> QED
    BY <2>3, <2>4, <2>5, <2>6 DEF Ordered, L
<1>2. IInv => TypeOK
  BY DEF IInv
<1> QED
  BY <1>1, <1>2, Invariance, OrderInvariance, PTL
=============================================================================
