--------------------------- MODULE WorkspacePages ---------------------------
(***************************************************************************)
(* The two scripts that add pages to the compiled React workspace without  *)
(* React knowing: gpc-inject.js (#/gpc) and cc-inject.js (#/command-center)*)
(* in apps/web/static/workspace/.  Each inserts a link in the sidebar and, *)
(* on its route, hides the children of <main> and appends a page of its    *)
(* own; they share <main>, location.hash and the event loop with React and *)
(* with each other.  A step is one task of the browser's event loop with   *)
(* the microtasks it leaves: React renders a route at once when hashchange *)
(* is dispatched and mutation observers run after any task that changed    *)
(* the tree, while the scripts look at the hash 60 ms later.               *)
(***************************************************************************)
EXTENDS Naturals, Sequences, SequencesExt

CONSTANTS
  Plain,     \* routes the React shell renders itself
  Overview,  \* the one of them React goes to when the URL has no hash
  MaxNav,    \* bound on navigations
  None

Pages  == {"gpc", "cc"}        \* routes only the scripts know
Bare   == {"onboarding", "item"}  \* routes React renders without the shell
Routes == Plain \cup Pages \cup Bare

ASSUME RouteAssumption ==
  /\ Overview \in Plain
  /\ Plain \cap (Pages \cup Bare \cup {"404"}) = {}
  /\ MaxNav \in Nat
  /\ None \notin Routes

VARIABLES
  hash,      \* location.hash
  events,    \* hashchange events the browser has queued
  timers,    \* pending setTimeout callbacks, in the order they were set
  loaded,    \* scripts that have run
  observing, \* scripts whose MutationObserver is connected
  shown,     \* the route React has rendered, None before its first render
  main,      \* the <main> element, see Empty below
  link,      \* link[p]: links to p in the sidebar
  route,     \* route[p]: currentRoute of script p, None at first
  front,     \* terminal in front on the Command Center page
  navs       \* navigations so far

vars == <<hash, events, timers, loaded, observing, shown, main, link, route, front, navs>>
react == <<shown, navs, hash>>

\* kids: children of main, React's ("body") and the scripts' pages; hidden: the
\* ones with display none; marks[p]: the ones with p's data-..-hidden attribute.
Element == Pages \cup {"body"}
Main == [exists : BOOLEAN, kids : SUBSET Element, hidden : SUBSET Element,
         marks : [Pages -> SUBSET Element], stretched : BOOLEAN]
Empty == [exists |-> TRUE, kids |-> {"body"}, hidden |-> {},
          marks |-> [p \in Pages |-> {}], stretched |-> FALSE]
NoMain == [Empty EXCEPT !.exists = FALSE, !.kids = {}]

Timer == [script : Pages, delay : {60, 200, 1500}]

TypeOK ==
  /\ hash \in Routes
  /\ events \in Nat /\ navs \in 0..MaxNav
  /\ timers \in Seq(Timer)
  /\ loaded \subseteq Pages /\ observing \subseteq loaded
  /\ shown \in Routes \cup {None}
  /\ main \in Main /\ main.hidden \subseteq main.kids /\ (main.kids # {} => main.exists)
  /\ link \in [Pages -> Nat]
  /\ route \in [Pages -> Routes \cup {None}]
  /\ front \in {"quantum", "veklom"}

\* The bundle sets an empty hash to "#/", which queues a hashchange event.
Init ==
  /\ hash \in Routes
  /\ events \in {0} \cup {n \in {1} : hash = Overview}
  /\ timers = <<>>
  /\ loaded = {} /\ observing = {}
  /\ shown = None
  /\ main = NoMain
  /\ link = [p \in Pages |-> 0]
  /\ route = [p \in Pages |-> None]
  /\ front = "quantum"
  /\ navs = 0

-----------------------------------------------------------------------------
\* What the scripts do to main.

\* Fault variant, used by no specification (as all below): nothing is hidden.
CoverUnmarked(m, p) ==
  IF ~m.exists \/ p \in m.kids THEN m
  ELSE [m EXCEPT !.hidden = @ \cup m.kids, !.kids = @ \cup {p}, !.stretched = TRUE]

\* Fault variant: the page is shown where there is no main.
CoverNoMain(m, p) ==
  IF p \in m.kids THEN m
  ELSE [m EXCEPT !.hidden = @ \cup m.kids, !.marks[p] = @ \cup m.kids,
                 !.kids = @ \cup {p}, !.stretched = TRUE]

\* Hides and marks every child, then appends p's page; nothing without a main
\* or when the page is there.
Cover(m, p) ==
  IF ~m.exists \/ p \in m.kids THEN m
  ELSE [m EXCEPT !.hidden = @ \cup m.kids, !.marks[p] = @ \cup m.kids,
                 !.kids = @ \cup {p}, !.stretched = TRUE]

ShowGPC(m) == Cover(m, "gpc")
ShowCC(m)  == Cover(m, "cc")

\* Removes p's page and reveals what carries p's mark, whoever else marked it.
Uncover(m, p) ==
  IF p \notin m.kids THEN m
  ELSE [m EXCEPT !.kids = @ \ {p}, !.hidden = @ \ (m.marks[p] \cup {p}),
                 !.marks = [q \in Pages |-> IF q = p THEN {} ELSE @[q] \ {p}],
                 !.stretched = FALSE]

HideGPC(m) == Uncover(m, "gpc")
HideCC(m)  == Uncover(m, "cc")

Show(m, p) == IF p = "gpc" THEN ShowGPC(m) ELSE ShowCC(m)
Hide(m, p) == IF p = "gpc" THEN HideGPC(m) ELSE HideCC(m)

\* Fault variant: a page is left on the way to an ordinary route only.
HandledPlainOnly(p) ==
  IF hash = route[p] THEN main
  ELSE IF hash = p THEN Show(main, p)
  ELSE IF route[p] = p /\ hash \in Plain THEN Hide(main, p) ELSE main

\* main after p's handleRoute: only a hash that p has not handled yet counts.
Handled(p) ==
  IF hash = route[p] THEN main
  ELSE IF hash = p THEN Show(main, p)
  ELSE IF route[p] = p THEN Hide(main, p) ELSE main

-----------------------------------------------------------------------------
\* The event loop.

\* Timers of the scripts in S, gpc-inject.js first: it is loaded first.
After(S, delay) ==
  (IF "gpc" \in S THEN <<[script |-> "gpc", delay |-> delay]>> ELSE <<>>)
    \o (IF "cc" \in S THEN <<[script |-> "cc", delay |-> delay]>> ELSE <<>>)

\* A timer is due when none that was set before it has as short a delay.
Due(i) == \A j \in 1..(i - 1) : timers[j].delay > timers[i].delay

\* Fault variant: the link is inserted without looking for it first.
InjectAlways(l, p) == [l EXCEPT ![p] = @ + 1]

\* A link is inserted unless the sidebar has it: GPC's after Playground's,
\* Command Center's before Overview's, which React renders together.
Inject(l, p) == IF l[p] = 0 THEN [l EXCEPT ![p] = 1] ELSE l

InjectGPC(l) == Inject(l, "gpc")
InjectCC(l)  == Inject(l, "cc")

InjectLink(l, p) == IF p = "gpc" THEN InjectGPC(l) ELSE InjectCC(l)

\* The observers: if the tree changed and the sidebar is there, each one still
\* connected inserts its link, disconnects and looks at the route in 200 ms.
Observe(nav, changed, l, pending) ==
  LET woken == IF nav /\ changed THEN observing ELSE {}
  IN /\ observing' = observing \ woken
     /\ link' = [p \in Pages |-> IF p \in woken THEN InjectLink(l, p)[p] ELSE l[p]]
     /\ timers' = pending \o After(woken, 200)

-----------------------------------------------------------------------------
\* The React application.

Layout(r)    == IF r \in Bare THEN r ELSE "shell"
Component(r) == IF r \in Pages THEN "404" ELSE r   \* it has no route for them
Sidebar      == shown # None /\ Layout(shown) = "shell"

\* main once React has rendered r: another layout brings other elements;
\* another component in the shell replaces React's own child, and only it.
Rendered(r) ==
  IF shown = None \/ Layout(r) # Layout(shown)
    THEN IF r = "item" THEN NoMain ELSE Empty
  ELSE IF Component(r) = Component(shown) THEN main
  ELSE [main EXCEPT !.hidden = @ \ {"body"},
                    !.marks = [p \in Pages |-> main.marks[p] \ {"body"}]]

Render(r, pending) ==
  /\ shown' = r
  /\ main' = Rendered(r)
  /\ Observe(Layout(r) = "shell", shown = None \/ Component(r) # Component(shown),
             IF shown # None /\ Layout(r) = Layout(shown) THEN link ELSE [p \in Pages |-> 0],
             pending)

Mount ==
  /\ shown = None
  /\ Render(hash, timers)
  /\ UNCHANGED <<hash, events, loaded, route, front, navs>>

\* A link or button of the application: wouter pushes the URL and dispatches
\* hashchange itself, so the scripts' listeners run and React renders at once.
Push(r) ==
  /\ shown # None /\ navs < MaxNav
  /\ hash' = r /\ navs' = navs + 1
  /\ Render(r, timers \o After(loaded, 60))
  /\ UNCHANGED <<events, loaded, route, front>>

\* The address bar, the history, or a click on an injected link: the hash
\* changes now, the event is dispatched by a later task.
SetHash(r) ==
  /\ r # hash /\ navs < MaxNav
  /\ hash' = r /\ navs' = navs + 1
  /\ events' = events + 1
  /\ UNCHANGED <<timers, loaded, observing, shown, main, link, route, front>>

\* Fault variant: the scripts do not listen to hashchange.
HashchangeUnheard ==
  /\ events > 0
  /\ events' = events - 1
  /\ IF shown # None THEN Render(hash, timers)
     ELSE UNCHANGED <<timers, observing, shown, main, link>>
  /\ UNCHANGED <<hash, loaded, route, front, navs>>

\* The listeners of both scripts and of React take the event.
Hashchange ==
  /\ events > 0
  /\ events' = events - 1
  /\ LET pending == timers \o After(loaded, 60)
     IN IF shown # None THEN Render(hash, pending)
        ELSE timers' = pending /\ UNCHANGED <<observing, shown, main, link>>
  /\ UNCHANGED <<hash, loaded, route, front, navs>>

\* Any other change React makes below <body>.
OtherMutation ==
  /\ Sidebar /\ observing # {}
  /\ Observe(TRUE, TRUE, link, timers)
  /\ UNCHANGED <<events, loaded, main, route, front, react>>

-----------------------------------------------------------------------------
\* The scripts.

\* Fault variant: no fallback timer.
LoadNoFallback(p) ==
  /\ loaded' = loaded \cup {p}
  /\ observing' = observing \cup {p}
  /\ UNCHANGED <<events, timers, main, link, route, front, react>>

\* Runs script p: its listener, its observer and its fallback timer.
Load(p) ==
  /\ loaded' = loaded \cup {p}
  /\ observing' = observing \cup {p}
  /\ timers' = timers \o After({p}, 1500)
  /\ UNCHANGED <<events, main, link, route, front, react>>

LoadGPC == "gpc" \notin loaded /\ Load("gpc")
LoadCC  == "gpc" \in loaded /\ "cc" \notin loaded /\ Load("cc")

\* Fault variant: the fallback timer looks at the route only.
RouteTimerNoLink(p) ==
  \E i \in DOMAIN timers :
    /\ timers[i].script = p /\ Due(i)
    /\ main' = Handled(p)
    /\ route' = [route EXCEPT ![p] = hash]
    /\ front' = IF p = "cc" /\ "cc" \in main'.kids \ main.kids THEN "quantum" ELSE front
    /\ Observe(Sidebar, main' # main, link, RemoveAt(timers, i))
    /\ UNCHANGED <<events, loaded, react>>

\* A timer of p: handleRoute(); the fallback also inserts the link.
RouteTimer(p) ==
  \E i \in DOMAIN timers :
    LET l == IF timers[i].delay = 1500 /\ Sidebar THEN InjectLink(link, p) ELSE link
    IN /\ timers[i].script = p /\ Due(i)
       /\ main' = Handled(p)
       /\ route' = [route EXCEPT ![p] = hash]
       /\ front' = IF p = "cc" /\ "cc" \in main'.kids \ main.kids THEN "quantum" ELSE front
       /\ Observe(Sidebar, main' # main \/ l # link, l, RemoveAt(timers, i))
       /\ UNCHANGED <<events, loaded, react>>

TimerGPC == RouteTimer("gpc")
TimerCC  == RouteTimer("cc")

\* The tabs of the Command Center page.
SwitchTab(f) ==
  /\ "cc" \in main.kids \ main.hidden /\ front # f
  /\ front' = f
  /\ UNCHANGED <<events, timers, loaded, observing, main, link, route, react>>

Next ==
  \/ Mount \/ Hashchange \/ OtherMutation
  \/ \E r \in Plain \cup Bare : Push(r)
  \/ \E r \in Routes : SetHash(r)
  \/ LoadGPC \/ LoadCC \/ TimerGPC \/ TimerCC
  \/ \E f \in {"quantum", "veklom"} : SwitchTab(f)

Spec == Init /\ [][Next]_vars

\* Scripts load, React renders, queued events and timers come; the user and
\* React's other changes need not.
Fairness ==
  /\ WF_vars(Mount) /\ WF_vars(Hashchange)
  /\ WF_vars(LoadGPC) /\ WF_vars(LoadCC)
  /\ WF_vars(TimerGPC) /\ WF_vars(TimerCC)

FairSpec == Spec /\ Fairness

\* A user who moves on only when the browser has nothing left to do.
Unhurried == navs' # navs => events = 0 /\ timers = <<>> /\ loaded = Pages /\ shown # None

UnhurriedSpec == Init /\ [][Next /\ Unhurried]_vars

-----------------------------------------------------------------------------
\* No queued event and no route timer of 60 ms is left.
Idle == events = 0 /\ \A i \in DOMAIN timers : timers[i].delay # 60

\* Nothing stays hidden behind a page that is gone: whatever has display none
\* carries the mark of a script whose page is in main, and so is revealed when
\* that page goes, even when both scripts hid it (showGPC, hideGPC, showCC, hideCC).
HiddenIsMarked ==
  \A e \in main.hidden : \E p \in Pages \cap main.kids : e \in main.marks[p]

\* Whatever the user did in less than 60 ms: once the timers have run, a page of
\* the scripts is in main only on its own route, is not itself hidden, and
\* without one main is as React left it (handleRoute).
SettledView ==
  Idle => /\ \A p \in Pages \cap main.kids : hash = p /\ p \notin main.hidden
          /\ main.kids \cap Pages = {} => main.hidden = {} /\ ~main.stretched

\* The observer and the fallback timer both insert links, in either order and
\* around renders of the sidebar, and never two of the same (injectSidebarLink).
OneLinkEach == \A p \in Pages : link[p] <= 1

\* A route of React's is given back to React: the pages go and its child is
\* seen, unless the user returns to a page (handleRoute, hideGPC, hideCC).
PlainComesBack ==
  hash \notin Pages ~> \/ hash \in Pages
                       \/ main.kids \cap Pages = {} /\ main.hidden = {}

\* A page whose route has not been handled yet comes up, whether the script
\* learns of the route by event, by observer or by fallback.
PageAppears ==
  \A p \in Pages :
    (Sidebar /\ p \in loaded /\ hash = p /\ route[p] # p) ~> (hash # p \/ p \in main.kids)

\* The sidebar gets a script's link whichever of the sidebar and the script
\* comes first, as long as the observer was not spent on an earlier sidebar.
SidebarGetsItsLinks ==
  \A p \in Pages : (Sidebar /\ p \in observing) ~> (link[p] > 0 \/ ~Sidebar)

\* The header of both scripts: the page "HIDES the <main> children".
PageStandsAlone ==
  \A p \in Pages : Idle /\ p \in main.kids => main.kids \ {p} \subseteq main.hidden
=============================================================================
