---------------------------- MODULE ConsoleKit ----------------------------
(* The vocabulary in which the pages of the web consoles                    *)
(* (basaltpass-frontend) are written down.  A page is a record:             *)
(*   loads  the functions that fetch a panel of the page, by name,          *)
(*   acts   the handlers that ask the server to change something,           *)
(*   parts  what is on the screen: the page itself and its dialogs, with    *)
(*          the panels each shows and the controls each offers.             *)
(* ConsolePage.tla says how a browser and the server run such a record.     *)
EXTENDS Sequences, FiniteSets, Naturals, TLC

(* What a call of shared/api/ does to the server's data.                    *)
Reads(calls, rs)  == [c \in calls |-> [reads |-> rs, writes |-> {}]]
Writes(calls, rs) == [c \in calls |-> [reads |-> {}, writes |-> rs]]

None == [x \in {} |-> {}]

(* No flag, no dialog, no act.                                              *)
Blank == ""

(* A load: the resources it reads and what sends it: "mount" ("remount" if  *)
(* two effects send it, one after the other), "query" when the filters, the *)
(* page or the tab it depends on change, "open" for the row whose           *)
(* dialog opens, "dialog" with a dialog that is not about a row, "ask" for  *)
(* the row the user picked.  The defaults below: it raises no flag; an      *)
(* answer for filters or a dialog of before is not dropped; the old rows    *)
(* stay while it runs (resets) and when it fails (fails); its answer opens  *)
(* no dialog and sends no other load (next), not even when it failed        *)
(* (always), nor does its flag wait for those (waits).                      *)
Load(api, calls, by) ==
  [reads |-> UNION {api[c].reads : c \in calls}, by |-> by, flag |-> Blank,
   latest |-> FALSE, resets |-> FALSE, fails |-> "keep", opens |-> Blank,
   next |-> {}, always |-> FALSE, waits |-> FALSE]

(* An act: the resources written by each of its calls, in order.  The       *)
(* defaults below: it raises no flag, which else is lowered whether the     *)
(* calls are done or refused; uiConfirm does not come first (asks); the     *)
(* dialog it is sent from does not close at once (leaves); on success no    *)
(* load is sent again (then), no panel is changed in place (patch), no      *)
(* dialog is closed or opened and the page is not left (goes).  The loads   *)
(* sent again use the filters of the render the handler was made in         *)
(* (captures), and the flag does not wait for them (waits), nor are others  *)
(* sent when they are over (after).  The handler learns that a call was     *)
(* refused, and stops there (not blind).  Each call is sent when the one    *)
(* before is done, not all of them at once (together, Promise.all).         *)
Act(api, calls) ==
  [steps |-> [i \in 1..Len(calls) |-> api[calls[i]].writes], flag |-> Blank,
   lowers |-> {"done", "refused"}, asks |-> FALSE, leaves |-> Blank,
   then |-> {}, patch |-> {}, closes |-> Blank, opens |-> Blank, goes |-> FALSE,
   captures |-> TRUE, waits |-> FALSE, after |-> {}, blind |-> FALSE,
   together |-> FALSE]

(* A part of the screen: the surface it is on ("page", a tab or a dialog),  *)
(* the loads whose rows it shows, the flags under which a spinner replaces  *)
(* it, and its controls with the flags that disable each.                   *)
Part(on, shows, hides, offers) ==
  [on |-> on, shows |-> shows, hides |-> hides, offers |-> offers,
   brings |-> {}, held |-> {}, own |-> {}, kind |-> "page"]

(* A dialog: also the loads sent when it opens, the flags under which none  *)
(* of its ways out works, and (own) the flags that live in it and are gone  *)
(* when it is closed or covered: by default all of them live in the page.   *)
Dialog(name, brings, held, shows, offers) ==
  [on |-> name, shows |-> shows, hides |-> {}, offers |-> offers,
   brings |-> brings, held |-> held, own |-> {}, kind |-> "dialog"]

(* A tab replaces the page's body and is left by choosing another tab.      *)
Tab(name, brings, hides, shows, offers) ==
  [on |-> name, shows |-> shows, hides |-> hides, offers |-> offers,
   brings |-> brings, held |-> {}, own |-> {}, kind |-> "tab"]

On(controls, busy) == [c \in controls |-> busy]

(* Parts that a spinner of the whole page replaces.                         *)
Covered(busy, parts) == {[p EXCEPT !.hides = @ \cup busy] : p \in parts}

Page(loads, acts, parts) == [loads |-> loads, acts |-> acts, parts |-> parts]
============================================================================
