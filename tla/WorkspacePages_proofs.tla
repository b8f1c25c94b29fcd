------------------------ MODULE WorkspacePages_proofs ------------------------
(***************************************************************************)
(* What holds of WorkspacePages for every set of routes and any number of  *)
(* navigations, however fast: the safety properties that TLC checks for a  *)
(* few navigations.  PageInv is inductive.  Its heart is RoutePending: a   *)
(* script whose currentRoute is not the hash has an event or a 60 ms timer *)
(* to come, so once both are over every script has handled the hash.       *)
(***************************************************************************)
EXTENDS WorkspacePages, SequenceTheorems, TLAPS

\* What PageInv says of main m while the scripts' currentRoutes are r: hidden
\* elements carry a mark; a page is in main while its script's currentRoute is
\* its route; marks are those of pages in main, none of itself.
MainGood(m, r) ==
  /\ m \in Main /\ m.hidden \subseteq m.kids /\ (m.kids # {} => m.exists)
  /\ \A e \in m.hidden : \E p \in Pages \cap m.kids : e \in m.marks[p]
  /\ \A p \in Pages \cap m.kids : r[p] = p
  /\ \A p \in Pages : p \notin m.marks[p] /\ (m.marks[p] # {} => p \in m.kids)
  /\ m.kids \cap Pages = {} => ~m.stretched

\* Every timer in s is one of a script in S.
Owned(s, S) == \A i \in DOMAIN s : s[i].script \in S

\* Script p looks at the route within 60 ms.
Awaited(s, p) == \E i \in DOMAIN s : s[i] = [script |-> p, delay |-> 60]

RoutePending == \A p \in Pages :
  route[p] # None => p \in loaded /\ (route[p] # hash => events > 0 \/ Awaited(timers, p))

PageInv ==
  TypeOK /\ MainGood(main, route) /\ Owned(timers, loaded) /\ RoutePending /\ OneLinkEach

-----------------------------------------------------------------------------
\* u holds what s and t hold, and nothing else.
Joined(s, t, u) ==
  /\ \A i \in DOMAIN s : \E k \in DOMAIN u : u[k] = s[i]
  /\ \A i \in DOMAIN t : \E k \in DOMAIN u : u[k] = t[i]
  /\ \A k \in DOMAIN u : (\E i \in DOMAIN s : u[k] = s[i]) \/ (\E i \in DOMAIN t : u[k] = t[i])

\* A concatenation joins its parts.
LEMMA ConcatJoins ==
  ASSUME NEW T, NEW s \in Seq(T), NEW t \in Seq(T)
  PROVE  s \o t \in Seq(T) /\ Joined(s, t, s \o t)
  <1>1. /\ s \o t \in Seq(T) /\ Len(s \o t) = Len(s) + Len(t)
        /\ \A i \in 1..Len(s) + Len(t) :
             (s \o t)[i] = IF i <= Len(s) THEN s[i] ELSE t[i - Len(s)]
    BY ConcatProperties
  <1>2. /\ DOMAIN s = 1..Len(s) /\ DOMAIN t = 1..Len(t) /\ DOMAIN (s \o t) = 1..Len(s \o t)
        /\ Len(s) \in Nat /\ Len(t) \in Nat
    BY <1>1, LenProperties
  <1>3. ASSUME NEW i \in DOMAIN t PROVE \E k \in DOMAIN (s \o t) : (s \o t)[k] = t[i]
    <2>1. i + Len(s) \in DOMAIN (s \o t) /\ (s \o t)[i + Len(s)] = t[i]
      BY <1>1, <1>2
    <2>2. QED
      BY <2>1
  <1>4. ASSUME NEW k \in DOMAIN (s \o t), k > Len(s)
        PROVE  \E i \in DOMAIN t : (s \o t)[k] = t[i]
    <2>1. k - Len(s) \in DOMAIN t /\ (s \o t)[k] = t[k - Len(s)]
      BY <1>1, <1>2, <1>4
    <2>2. QED
      BY <2>1
  <1>5. QED
    BY <1>1, <1>2, <1>3, <1>4 DEF Joined

\* The timers of a set of scripts are timers of that set, one for each.
LEMMA AfterType ==
  ASSUME NEW S \in SUBSET Pages, NEW d \in {60, 200, 1500}
  PROVE  /\ After(S, d) \in Seq(Timer)
         /\ \A i \in DOMAIN After(S, d) : After(S, d)[i].script \in S
         /\ \A p \in S : \E i \in DOMAIN After(S, d) : After(S, d)[i] = [script |-> p, delay |-> d]
  <1> DEFINE G == [script |-> "gpc", delay |-> d]
             C == [script |-> "cc", delay |-> d]
             g == IF "gpc" \in S THEN <<G>> ELSE <<>>
             c == IF "cc" \in S THEN <<C>> ELSE <<>>
  <1>1. G \in Timer /\ C \in Timer
    BY DEF Timer, Pages
  <1>2. /\ g \in Seq(Timer)
        /\ \A i \in DOMAIN g : "gpc" \in S /\ g[i] = G
        /\ "gpc" \in S => 1 \in DOMAIN g /\ g[1] = G
    BY <1>1
  <1>3. /\ c \in Seq(Timer)
        /\ \A i \in DOMAIN c : "cc" \in S /\ c[i] = C
        /\ "cc" \in S => 1 \in DOMAIN c /\ c[1] = C
    BY <1>1
  <1>4. After(S, d) = g \o c
    BY DEF After
  <1>5. G.script = "gpc" /\ C.script = "cc"
    OBVIOUS
  <1> HIDE DEF g, c
  <1>6. g \o c \in Seq(Timer) /\ Joined(g, c, g \o c)
    BY <1>2, <1>3, ConcatJoins
  <1> DEFINE q == g \o c
  <1>7. After(S, d) = q /\ q \in Seq(Timer) /\ Joined(g, c, q)
    BY <1>4, <1>6
  <1> HIDE DEF q
  <1>8. \A k \in DOMAIN q : q[k].script \in S
    BY <1>2, <1>3, <1>5, <1>7 DEF Joined
  <1>9. ASSUME NEW p \in S
        PROVE  \E k \in DOMAIN q : q[k] = [script |-> p, delay |-> d]
    <2>1. CASE p = "gpc"
      BY <2>1, <1>2, <1>7 DEF Joined
    <2>2. CASE p = "cc"
      BY <2>2, <1>3, <1>7 DEF Joined
    <2>3. p = "gpc" \/ p = "cc"
      BY DEF Pages
    <2>4. QED
      BY <2>1, <2>2, <2>3
  <1>10. QED
    BY <1>7, <1>8, <1>9

\* Taking a timer out leaves the others and adds none.
LEMMA RemoveAtContains ==
  ASSUME NEW T, NEW s \in Seq(T), NEW i \in DOMAIN s
  PROVE  /\ RemoveAt(s, i) \in Seq(T)
         /\ \A j \in DOMAIN s : j # i => \E k \in DOMAIN RemoveAt(s, i) : RemoveAt(s, i)[k] = s[j]
         /\ \A k \in DOMAIN RemoveAt(s, i) : \E j \in DOMAIN s : RemoveAt(s, i)[k] = s[j]
  <1> DEFINE a == SubSeq(s, 1, i - 1)
             b == SubSeq(s, i + 1, Len(s))
  <1>1. DOMAIN s = 1..Len(s) /\ Len(s) \in Nat /\ i \in 1..Len(s)
    BY LenProperties
  <1>2. /\ a \in Seq(T) /\ Len(a) = i - 1
        /\ \A j \in 1..(i - 1) : a[j] = s[j]
    BY <1>1, SubSeqProperties
  <1>3. /\ b \in Seq(T) /\ Len(b) = Len(s) - i
        /\ \A j \in 1..(Len(s) - i) : b[j] = s[i + j]
    BY <1>1, SubSeqProperties
  <1>4. RemoveAt(s, i) = a \o b
    BY DEF RemoveAt
  <1>5. DOMAIN a = 1..(i - 1) /\ DOMAIN b = 1..(Len(s) - i)
    BY <1>2, <1>3, LenProperties
  <1> HIDE DEF a, b
  <1> DEFINE r == a \o b
  <1>6. RemoveAt(s, i) = r /\ r \in Seq(T) /\ Joined(a, b, r)
    BY <1>2, <1>3, <1>4, ConcatJoins
  <1> HIDE DEF r
  <1>7. ASSUME NEW j \in DOMAIN s, j # i
        PROVE  \E k \in DOMAIN r : r[k] = s[j]
    <2>1. CASE j < i
      BY <2>1, <1>1, <1>2, <1>5, <1>6 DEF Joined
    <2>2. CASE j > i
      <3>1. j - i \in DOMAIN b /\ b[j - i] = s[j]
        BY <2>2, <1>1, <1>3, <1>5
      <3>2. QED
        BY <3>1, <1>6 DEF Joined
    <2>3. QED
      BY <2>1, <2>2, <1>1, <1>7
  <1>8. ASSUME NEW k \in DOMAIN r
        PROVE  \E j \in DOMAIN s : r[k] = s[j]
    <2>1. CASE \E j \in DOMAIN a : r[k] = a[j]
      BY <2>1, <1>1, <1>2, <1>5
    <2>2. CASE \E j \in DOMAIN b : r[k] = b[j]
      <3>1. PICK j \in DOMAIN b : r[k] = b[j]
        BY <2>2
      <3>2. i + j \in DOMAIN s /\ b[j] = s[i + j]
        BY <1>1, <1>3, <1>5
      <3>3. QED
        BY <3>1, <3>2
    <2>3. QED
      BY <2>1, <2>2, <1>6 DEF Joined
  <1>9. QED
    BY <1>6, <1>7, <1>8

\* The same in the terms of the invariant: the timers of S are appended.
LEMMA AppendTimers ==
  ASSUME NEW S \in SUBSET Pages, NEW s \in Seq(Timer), NEW d \in {60, 200, 1500}
  PROVE  /\ s \o After(S, d) \in Seq(Timer)
         /\ \A L : Owned(s, L) /\ S \subseteq L => Owned(s \o After(S, d), L)
         /\ \A p \in Pages : Awaited(s, p) => Awaited(s \o After(S, d), p)
         /\ (d = 60 => \A p \in S : Awaited(s \o After(S, d), p))
  <1> DEFINE t == After(S, d)
             u == s \o t
  <1>1. /\ t \in Seq(Timer) /\ Owned(t, S)
        /\ d = 60 => \A p \in S : Awaited(t, p)
    BY AfterType DEF Owned, Awaited
  <1> HIDE DEF t
  <1>2. u \in Seq(Timer) /\ Joined(s, t, u)
    BY <1>1, ConcatJoins
  <1> HIDE DEF u
  <1>3. \A L : Owned(s, L) /\ S \subseteq L => Owned(u, L)
    BY <1>1, <1>2 DEF Owned, Joined
  <1>4. \A p : Awaited(s, p) \/ Awaited(t, p) => Awaited(u, p)
    BY <1>2 DEF Awaited, Joined
  <1>5. QED
    BY <1>1, <1>2, <1>3, <1>4 DEF t, u

-----------------------------------------------------------------------------
\* showGPC and showCC, run when their page's route is the hash.
LEMMA CoverGood ==
  ASSUME NEW m, NEW r \in [Pages -> Routes \cup {None}], MainGood(m, r), NEW p \in Pages
  PROVE  MainGood(Cover(m, p), [r EXCEPT ![p] = p])
  <1> DEFINE c == Cover(m, p)
             s == [r EXCEPT ![p] = p]
  <1> SUFFICES MainGood(c, s)
    OBVIOUS
  <1>1. \A q \in Pages : s[q] = IF q = p THEN p ELSE r[q]
    OBVIOUS
  <1>2. CASE ~m.exists \/ p \in m.kids
    BY <1>1, <1>2 DEF Cover, MainGood
  <1>3. CASE m.exists /\ p \notin m.kids
    <2> DEFINE k == [m.marks EXCEPT ![p] = @ \cup m.kids]
    <2>0. m \in Main /\ m.marks \in [Pages -> SUBSET Element] /\ m.kids \subseteq Element
          /\ p \in Element
      BY DEF MainGood, Main, Element
    <2>4. /\ k \in [Pages -> SUBSET Element]
          /\ \A q \in Pages : k[q] = IF q = p THEN m.marks[p] \cup m.kids ELSE m.marks[q]
      BY <2>0
    <2> HIDE DEF k
    <2>5. /\ c.exists = m.exists /\ c.stretched = TRUE
          /\ c.kids = m.kids \cup {p} /\ c.hidden = m.hidden \cup m.kids
      BY <1>3, <2>0 DEF Cover, Main
    <2>6. c.marks = k
      BY <1>3, <2>0 DEF Cover, Main, k
    <2>7. c \in Main
      BY <1>3, <2>0, <2>4 DEF Cover, Main, k
    <2>1. /\ c \in Main /\ c.exists = m.exists /\ c.stretched = TRUE
          /\ c.kids = m.kids \cup {p} /\ c.hidden = m.hidden \cup m.kids
          /\ \A q \in Pages : c.marks[q] = IF q = p THEN m.marks[p] \cup m.kids ELSE m.marks[q]
      BY <2>4, <2>5, <2>6, <2>7
    <2>2. \A e \in c.hidden : \E q \in Pages \cap c.kids : e \in c.marks[q]
      BY <2>1 DEF MainGood
    <2> HIDE DEF c
    <2>3. QED
      BY <1>1, <1>3, <2>1, <2>2 DEF MainGood
  <1>4. QED
    BY <1>2, <1>3

\* hideGPC and hideCC, run when the hash has left their page's route.
LEMMA UncoverGood ==
  ASSUME NEW m, NEW r \in [Pages -> Routes \cup {None}], MainGood(m, r),
         NEW p \in Pages, NEW h \in Routes
  PROVE  MainGood(Uncover(m, p), [r EXCEPT ![p] = h])
  <1> DEFINE c == Uncover(m, p)
             s == [r EXCEPT ![p] = h]
  <1> SUFFICES MainGood(c, s)
    OBVIOUS
  <1>1. \A q \in Pages : s[q] = IF q = p THEN h ELSE r[q]
    OBVIOUS
  <1>2. CASE p \notin m.kids
    BY <1>1, <1>2 DEF Uncover, MainGood
  <1>3. CASE p \in m.kids
    <2>1. /\ c \in Main /\ c.exists = m.exists /\ c.stretched = FALSE
          /\ c.kids = m.kids \ {p} /\ c.hidden = m.hidden \ (m.marks[p] \cup {p})
          /\ \A q \in Pages : c.marks[q] = IF q = p THEN {} ELSE m.marks[q] \ {p}
      BY <1>3 DEF Uncover, MainGood, Main, Element
    <2>2. ASSUME NEW e \in c.hidden PROVE \E q \in Pages \cap c.kids : e \in c.marks[q]
      <3>1. PICK q \in Pages \cap m.kids : e \in m.marks[q]
        BY <2>1 DEF MainGood
      <3>2. q # p /\ e # p
        BY <2>1, <3>1
      <3>3. QED
        BY <2>1, <3>1, <3>2
    <2> HIDE DEF c
    <2>3. c.hidden \subseteq c.kids /\ (c.kids # {} => c.exists)
      BY <2>1 DEF MainGood
    <2>4. \A q \in Pages \cap c.kids : s[q] = q
      BY <1>1, <2>1 DEF MainGood
    <2>5. ASSUME NEW q \in Pages
          PROVE  q \notin c.marks[q] /\ (c.marks[q] # {} => q \in c.kids)
      <3>1. CASE q = p
        BY <2>1, <3>1
      <3>2. CASE q # p
        <4>1. c.marks[q] = m.marks[q] \ {p}
          BY <2>1, <3>2
        <4>2. QED
          BY <2>1, <3>2, <4>1 DEF MainGood
      <3>3. QED
        BY <3>1, <3>2
    <2>6. QED
      BY <2>1, <2>2, <2>3, <2>4, <2>5 DEF MainGood
  <1>4. QED
    BY <1>2, <1>3

\* handleRoute, whatever the hash and the currentRoute.
LEMMA HandledGood ==
  ASSUME TypeOK, MainGood(main, route), NEW p \in Pages
  PROVE  MainGood(Handled(p), [route EXCEPT ![p] = hash])
  <1>1. route \in [Pages -> Routes \cup {None}] /\ hash \in Routes
    BY DEF TypeOK
  <1>2. CASE hash = route[p]
    <2>1. [route EXCEPT ![p] = hash] = route
      BY <1>1, <1>2
    <2>2. QED
      BY <1>2, <2>1 DEF Handled
  <1>3. CASE hash # route[p] /\ hash = p
    <2>1. Handled(p) = Cover(main, p)
      BY <1>3 DEF Handled, Show, ShowGPC, ShowCC, Pages
    <2>2. MainGood(Cover(main, p), [route EXCEPT ![p] = p])
      BY <1>1, CoverGood
    <2>3. QED
      BY <1>3, <2>1, <2>2
  <1>4. CASE hash # route[p] /\ hash # p /\ route[p] = p
    <2>1. Handled(p) = Uncover(main, p)
      BY <1>4 DEF Handled, Hide, HideGPC, HideCC, Pages
    <2>2. MainGood(Uncover(main, p), [route EXCEPT ![p] = hash])
      BY <1>1, UncoverGood
    <2>3. QED
      BY <2>1, <2>2
  <1>5. CASE hash # route[p] /\ hash # p /\ route[p] # p
    <2>1. Handled(p) = main /\ p \notin main.kids
      BY <1>5 DEF Handled, MainGood
    <2>2. \A q \in Pages : [route EXCEPT ![p] = hash][q] = IF q = p THEN hash ELSE route[q]
      BY <1>1
    <2>3. QED
      BY <2>1, <2>2 DEF MainGood
  <1>6. QED
    BY <1>2, <1>3, <1>4, <1>5

\* What React makes of main when it renders route r.
LEMMA RenderedGood ==
  ASSUME MainGood(main, route), NEW r
  PROVE  MainGood(Rendered(r), route)
  <1> DEFINE c == [main EXCEPT !.hidden = @ \ {"body"},
                               !.marks = [p \in Pages |-> main.marks[p] \ {"body"}]]
  <1>1. MainGood(Empty, route)
    BY DEF MainGood, Empty, Main, Element, Pages
  <1>2. MainGood(NoMain, route)
    BY DEF MainGood, NoMain, Empty, Main, Element, Pages
  <1>3. MainGood(c, route)
    <2>1. /\ c \in Main /\ c.exists = main.exists /\ c.stretched = main.stretched
          /\ c.kids = main.kids /\ c.hidden = main.hidden \ {"body"}
          /\ \A p \in Pages : c.marks[p] = main.marks[p] \ {"body"}
      BY DEF MainGood, Main, Element
    <2> HIDE DEF c
    <2>2. QED
      BY <2>1 DEF MainGood
  <1>4. QED
    BY <1>1, <1>2, <1>3 DEF Rendered

-----------------------------------------------------------------------------
\* What a step that ends with the observers leaves: pending timers stay, new
\* ones belong to scripts that run, and no link is doubled.
LEMMA ObserveGood ==
  ASSUME TypeOK, NEW nav \in BOOLEAN, NEW changed \in BOOLEAN,
         NEW l \in [Pages -> Nat], \A p \in Pages : l[p] <= 1,
         NEW pending \in Seq(Timer), Owned(pending, loaded),
         Observe(nav, changed, l, pending)
  PROVE  /\ observing' \subseteq observing
         /\ link' \in [Pages -> Nat] /\ \A p \in Pages : link'[p] <= 1
         /\ timers' \in Seq(Timer) /\ Owned(timers', loaded)
         /\ \A p \in Pages : Awaited(pending, p) => Awaited(timers', p)
  <1> DEFINE woken == IF nav /\ changed THEN observing ELSE {}
  <1>1. woken \in SUBSET loaded /\ loaded \in SUBSET Pages
    BY DEF TypeOK
  <1>2. /\ observing' = observing \ woken
        /\ link' = [p \in Pages |-> IF p \in woken THEN InjectLink(l, p)[p] ELSE l[p]]
        /\ timers' = pending \o After(woken, 200)
    BY DEF Observe
  <1> HIDE DEF woken
  <1>3. \A p \in Pages : InjectLink(l, p)[p] \in Nat /\ InjectLink(l, p)[p] <= 1
    BY DEF InjectLink, InjectGPC, InjectCC, Inject, Pages
  <1>4. /\ timers' \in Seq(Timer) /\ Owned(timers', loaded)
        /\ \A p \in Pages : Awaited(pending, p) => Awaited(timers', p)
    <2>1. 200 \in {60, 200, 1500} /\ woken \in SUBSET Pages /\ woken \subseteq loaded
      BY <1>1
    <2>2. /\ pending \o After(woken, 200) \in Seq(Timer)
          /\ Owned(pending \o After(woken, 200), loaded)
          /\ \A p \in Pages : Awaited(pending, p) => Awaited(pending \o After(woken, 200), p)
      BY <1>1, <2>1, AppendTimers
    <2>3. QED
      BY <1>2, <2>2
  <1>5. link' \in [Pages -> Nat] /\ \A p \in Pages : link'[p] <= 1
    BY <1>2, <1>3
  <1>6. QED
    BY <1>2, <1>4, <1>5

\* A step in which React renders r.
LEMMA RenderGood ==
  ASSUME PageInv, NEW r \in Routes, NEW pending \in Seq(Timer), Owned(pending, loaded),
         Render(r, pending), UNCHANGED <<loaded, route>>
  PROVE  /\ MainGood(main', route) /\ shown' \in Routes
         /\ observing' \subseteq observing
         /\ link' \in [Pages -> Nat] /\ \A p \in Pages : link'[p] <= 1
         /\ timers' \in Seq(Timer) /\ Owned(timers', loaded)
         /\ \A p \in Pages : Awaited(pending, p) => Awaited(timers', p)
  <1> DEFINE nav == Layout(r) = "shell"
             changed == shown = None \/ Component(r) # Component(shown)
             l == IF shown # None /\ Layout(r) = Layout(shown) THEN link ELSE [p \in Pages |-> 0]
  <1>1. l \in [Pages -> Nat] /\ \A p \in Pages : l[p] <= 1
    BY DEF PageInv, TypeOK, OneLinkEach
  <1>2. shown' = r /\ main' = Rendered(r) /\ Observe(nav, changed, l, pending)
    BY DEF Render
  <1>3. nav \in BOOLEAN /\ changed \in BOOLEAN /\ TypeOK
    BY DEF PageInv
  <1>4. MainGood(main', route)
    BY <1>2, RenderedGood DEF PageInv
  <1> HIDE DEF nav, changed, l
  <1>5. QED
    BY <1>1, <1>2, <1>3, <1>4, ObserveGood

\* The initial states: nothing has run and there is no main.
LEMMA PageInit == Init => PageInv
  <1> SUFFICES ASSUME Init PROVE PageInv
    OBVIOUS
  <1>1. TypeOK
    <2>1. main \in Main /\ main.hidden \subseteq main.kids /\ (main.kids # {} => main.exists)
      BY DEF Init, NoMain, Empty, Main, Element, Pages
    <2>2. timers \in Seq(Timer) /\ events \in Nat /\ navs \in 0..MaxNav
      BY RouteAssumption DEF Init
    <2>3. QED
      BY <2>1, <2>2 DEF Init, TypeOK
  <1>2. MainGood(main, route)
    BY DEF Init, MainGood, NoMain, Empty, Main, Element, Pages
  <1>3. Owned(timers, loaded) /\ RoutePending /\ OneLinkEach
    BY DEF Init, Owned, RoutePending, OneLinkEach
  <1>4. QED
    BY <1>1, <1>2, <1>3 DEF PageInv

\* Mount: every currentRoute that lags behind the hash is still awaited.
LEMMA MountKeeps == PageInv /\ Mount => PageInv'
  <1> SUFFICES ASSUME PageInv, Mount PROVE PageInv'
    OBVIOUS
  <1>1. /\ hash \in Routes /\ timers \in Seq(Timer) /\ Owned(timers, loaded)
        /\ Render(hash, timers) /\ UNCHANGED <<hash, events, loaded, route, front, navs>>
    BY DEF Mount, PageInv, TypeOK
  <1>2. /\ MainGood(main', route) /\ shown' \in Routes /\ observing' \subseteq observing
        /\ link' \in [Pages -> Nat] /\ \A p \in Pages : link'[p] <= 1
        /\ timers' \in Seq(Timer) /\ Owned(timers', loaded)
        /\ \A p \in Pages : Awaited(timers, p) => Awaited(timers', p)
    BY <1>1, RenderGood
  <1>3. TypeOK'
    BY <1>1, <1>2 DEF PageInv, TypeOK, MainGood
  <1>4. RoutePending'
    BY <1>1, <1>2 DEF PageInv, RoutePending
  <1>5. QED
    BY <1>1, <1>2, <1>3, <1>4 DEF PageInv, OneLinkEach

\* Push and Hashchange: the listeners of every script set a timer of 60 ms.
LEMMA PushKeeps ==
  ASSUME PageInv, NEW r \in Plain \cup Bare, Push(r)
  PROVE  PageInv'
  <1> DEFINE pending == timers \o After(loaded, 60)
  <1>1. /\ r \in Routes /\ hash' = r /\ navs' \in 0..MaxNav
        /\ Render(r, pending) /\ UNCHANGED <<events, loaded, route, front>>
    BY RouteAssumption DEF Push, PageInv, TypeOK, Routes
  <1>2. /\ pending \in Seq(Timer) /\ Owned(pending, loaded)
        /\ \A p \in loaded : Awaited(pending, p)
    <2>1. timers \in Seq(Timer) /\ Owned(timers, loaded) /\ loaded \in SUBSET Pages
      BY DEF PageInv, TypeOK
    <2>2. 60 \in {60, 200, 1500} /\ loaded \subseteq loaded
      OBVIOUS
    <2>3. QED
      BY <2>1, <2>2, AppendTimers
  <1> HIDE DEF pending
  <1>3. /\ MainGood(main', route) /\ shown' \in Routes /\ observing' \subseteq observing
        /\ link' \in [Pages -> Nat] /\ \A p \in Pages : link'[p] <= 1
        /\ timers' \in Seq(Timer) /\ Owned(timers', loaded)
        /\ \A p \in Pages : Awaited(pending, p) => Awaited(timers', p)
    BY <1>1, <1>2, RenderGood
  <1>4. TypeOK'
    BY <1>1, <1>3 DEF PageInv, TypeOK, MainGood
  <1>5. RoutePending'
    BY <1>1, <1>2, <1>3 DEF PageInv, RoutePending
  <1>6. QED
    BY <1>1, <1>3, <1>4, <1>5 DEF PageInv, OneLinkEach

LEMMA HashchangeKeeps == PageInv /\ Hashchange => PageInv'
  <1> SUFFICES ASSUME PageInv, Hashchange PROVE PageInv'
    OBVIOUS
  <1> DEFINE pending == timers \o After(loaded, 60)
  <1>1. /\ hash \in Routes /\ events' \in Nat
        /\ UNCHANGED <<hash, loaded, route, front, navs>>
        /\ IF shown # None THEN Render(hash, pending)
           ELSE timers' = pending /\ UNCHANGED <<observing, shown, main, link>>
    BY DEF Hashchange, PageInv, TypeOK
  <1>2. /\ pending \in Seq(Timer) /\ Owned(pending, loaded)
        /\ \A p \in loaded : Awaited(pending, p)
    <2>1. timers \in Seq(Timer) /\ Owned(timers, loaded) /\ loaded \in SUBSET Pages
      BY DEF PageInv, TypeOK
    <2>2. 60 \in {60, 200, 1500} /\ loaded \subseteq loaded
      OBVIOUS
    <2>3. QED
      BY <2>1, <2>2, AppendTimers
  <1> HIDE DEF pending
  <1>3. /\ MainGood(main', route) /\ shown' \in Routes \cup {None} /\ observing' \subseteq observing
        /\ link' \in [Pages -> Nat] /\ \A p \in Pages : link'[p] <= 1
        /\ timers' \in Seq(Timer) /\ Owned(timers', loaded)
        /\ \A p \in Pages : Awaited(pending, p) => Awaited(timers', p)
    <2>1. CASE shown # None
      BY <2>1, <1>1, <1>2, RenderGood
    <2>2. CASE shown = None
      BY <2>2, <1>1, <1>2 DEF PageInv, TypeOK, OneLinkEach
    <2>3. QED
      BY <2>1, <2>2
  <1>4. TypeOK'
    BY <1>1, <1>3 DEF PageInv, TypeOK, MainGood
  <1>5. RoutePending'
    BY <1>1, <1>2, <1>3 DEF PageInv, RoutePending
  <1>6. QED
    BY <1>1, <1>3, <1>4, <1>5 DEF PageInv, OneLinkEach

\* SetHash: the scripts lag behind from here on, and an event is queued.
LEMMA SetHashKeeps ==
  ASSUME PageInv, NEW r \in Routes, SetHash(r)
  PROVE  PageInv'
  <1>1. TypeOK'
    BY RouteAssumption DEF PageInv, TypeOK, SetHash
  <1>2. RoutePending'
    BY DEF PageInv, TypeOK, RoutePending, SetHash
  <1>3. QED
    BY <1>1, <1>2 DEF PageInv, SetHash, OneLinkEach

LEMMA OtherMutationKeeps == PageInv /\ OtherMutation => PageInv'
  <1> SUFFICES ASSUME PageInv, OtherMutation PROVE PageInv'
    OBVIOUS
  <1>1. /\ Observe(TRUE, TRUE, link, timers)
        /\ UNCHANGED <<events, loaded, main, route, front, shown, navs, hash>>
    BY DEF OtherMutation, react
  <1>2. /\ observing' \subseteq observing
        /\ link' \in [Pages -> Nat] /\ \A p \in Pages : link'[p] <= 1
        /\ timers' \in Seq(Timer) /\ Owned(timers', loaded)
        /\ \A p \in Pages : Awaited(timers, p) => Awaited(timers', p)
    BY <1>1, ObserveGood DEF PageInv, TypeOK, OneLinkEach
  <1>3. TypeOK'
    BY <1>1, <1>2 DEF PageInv, TypeOK
  <1>4. RoutePending'
    BY <1>1, <1>2 DEF PageInv, RoutePending
  <1>5. QED
    BY <1>1, <1>2, <1>3, <1>4 DEF PageInv, OneLinkEach

\* LoadGPC and LoadCC: only timers are added.
LEMMA LoadKeeps ==
  ASSUME PageInv, NEW p \in Pages, Load(p)
  PROVE  PageInv'
  <1> DEFINE S == {p}
             L == loaded \cup {p}
  <1>1. /\ loaded' = L /\ observing' = observing \cup {p} /\ timers' = timers \o After(S, 1500)
        /\ UNCHANGED <<events, main, link, route, front, shown, navs, hash>>
    BY DEF Load, react
  <1>2. timers \in Seq(Timer) /\ Owned(timers, L) /\ L \subseteq Pages
        /\ S \in SUBSET Pages /\ S \subseteq L
    BY DEF PageInv, TypeOK, Owned
  <1> HIDE DEF S
  <1>3. /\ timers' \in Seq(Timer) /\ Owned(timers', L)
        /\ \A q \in Pages : Awaited(timers, q) => Awaited(timers', q)
    <2>1. 1500 \in {60, 200, 1500}
      OBVIOUS
    <2>2. /\ timers \o After(S, 1500) \in Seq(Timer) /\ Owned(timers \o After(S, 1500), L)
          /\ \A q \in Pages : Awaited(timers, q) => Awaited(timers \o After(S, 1500), q)
      BY <1>2, <2>1, AppendTimers
    <2>3. QED
      BY <1>1, <2>2
  <1>4. TypeOK'
    BY <1>1, <1>2, <1>3 DEF PageInv, TypeOK
  <1>5. RoutePending'
    BY <1>1, <1>3 DEF PageInv, RoutePending
  <1>6. QED
    BY <1>1, <1>3, <1>4, <1>5 DEF PageInv, OneLinkEach

\* TimerGPC and TimerCC: p has seen the hash, and the other script's timers stay.
LEMMA RouteTimerKeeps ==
  ASSUME PageInv, NEW p \in Pages, RouteTimer(p)
  PROVE  PageInv'
  <1>1. PICK i \in DOMAIN timers :
          LET l == IF timers[i].delay = 1500 /\ Sidebar THEN InjectLink(link, p) ELSE link
          IN /\ timers[i].script = p /\ Due(i)
             /\ main' = Handled(p)
             /\ route' = [route EXCEPT ![p] = hash]
             /\ front' = IF p = "cc" /\ "cc" \in main'.kids \ main.kids THEN "quantum" ELSE front
             /\ Observe(Sidebar, main' # main \/ l # link, l, RemoveAt(timers, i))
             /\ UNCHANGED <<events, loaded, react>>
    BY DEF RouteTimer
  <1> DEFINE l == IF timers[i].delay = 1500 /\ Sidebar THEN InjectLink(link, p) ELSE link
             changed == main' # main \/ l # link
             nav == Sidebar
             rest == RemoveAt(timers, i)
  <1>2. /\ timers[i].script = p /\ p \in loaded
        /\ main' = Handled(p) /\ route' = [route EXCEPT ![p] = hash]
        /\ front' \in {"quantum", "veklom"}
        /\ UNCHANGED <<events, loaded, shown, navs, hash>>
        /\ Observe(nav, changed, l, rest)
    BY <1>1 DEF react, PageInv, TypeOK, Owned
  <1>3. nav \in BOOLEAN /\ changed \in BOOLEAN
    BY DEF Sidebar
  <1>4. l \in [Pages -> Nat] /\ \A q \in Pages : l[q] <= 1
    BY DEF PageInv, TypeOK, OneLinkEach, InjectLink, InjectGPC, InjectCC, Inject, Pages
  <1>5. /\ timers \in Seq(Timer) /\ Owned(timers, loaded) /\ TypeOK
        /\ hash \in Routes /\ route \in [Pages -> Routes \cup {None}]
    BY DEF PageInv, TypeOK
  <1>6. /\ rest \in Seq(Timer)
        /\ \A j \in DOMAIN timers : j # i => \E k \in DOMAIN rest : rest[k] = timers[j]
        /\ \A k \in DOMAIN rest : \E j \in DOMAIN timers : rest[k] = timers[j]
    BY <1>5, RemoveAtContains
  <1> HIDE DEF l, changed, nav, rest
  <1>7. Owned(rest, loaded)
    BY <1>5, <1>6 DEF Owned
  <1>8. /\ observing' \subseteq observing
        /\ link' \in [Pages -> Nat] /\ \A q \in Pages : link'[q] <= 1
        /\ timers' \in Seq(Timer) /\ Owned(timers', loaded)
        /\ \A q \in Pages : Awaited(rest, q) => Awaited(timers', q)
    BY <1>2, <1>3, <1>4, <1>5, <1>6, <1>7, ObserveGood
  <1>9. MainGood(main', route')
    BY <1>2, <1>5, HandledGood DEF PageInv
  <1>10. route' \in [Pages -> Routes \cup {None}]
         /\ \A q \in Pages : route'[q] = IF q = p THEN hash ELSE route[q]
    BY <1>2, <1>5
  <1>11. ASSUME NEW q \in Pages, q # p, Awaited(timers, q)
         PROVE  Awaited(rest, q)
    <2>1. PICK j \in DOMAIN timers : timers[j] = [script |-> q, delay |-> 60]
      BY <1>11 DEF Awaited
    <2>2. timers[j].script = q
      BY <2>1
    <2>3. j # i
      BY <1>2, <1>11, <2>2
    <2>4. QED
      BY <1>6, <2>1, <2>3 DEF Awaited
  <1>12. RoutePending'
    BY <1>2, <1>8, <1>10, <1>11 DEF PageInv, RoutePending
  <1>13. TypeOK'
    BY <1>2, <1>5, <1>8, <1>9, <1>10 DEF TypeOK, MainGood
  <1>14. QED
    BY <1>2, <1>8, <1>9, <1>12, <1>13 DEF PageInv, OneLinkEach

\* SwitchTab touches nothing the invariant speaks of.
LEMMA SwitchTabKeeps ==
  ASSUME PageInv, NEW f \in {"quantum", "veklom"}, SwitchTab(f)
  PROVE  PageInv'
  <1>1. TypeOK'
    BY DEF PageInv, TypeOK, SwitchTab, react
  <1>2. QED
    BY <1>1 DEF PageInv, RoutePending, OneLinkEach, SwitchTab, react

\* Every step of the specification preserves the invariant.
LEMMA PageNext == PageInv /\ [Next]_vars => PageInv'
  <1> SUFFICES ASSUME PageInv, [Next]_vars PROVE PageInv'
    OBVIOUS
  <1>1. CASE Mount
    BY <1>1, MountKeeps
  <1>2. CASE Hashchange
    BY <1>2, HashchangeKeeps
  <1>3. CASE OtherMutation
    BY <1>3, OtherMutationKeeps
  <1>4. CASE \E r \in Plain \cup Bare : Push(r)
    BY <1>4, PushKeeps
  <1>5. CASE \E r \in Routes : SetHash(r)
    BY <1>5, SetHashKeeps
  <1>6. CASE LoadGPC \/ LoadCC
    BY <1>6, LoadKeeps DEF LoadGPC, LoadCC, Pages
  <1>7. CASE TimerGPC \/ TimerCC
    BY <1>7, RouteTimerKeeps DEF TimerGPC, TimerCC, Pages
  <1>8. CASE \E f \in {"quantum", "veklom"} : SwitchTab(f)
    BY <1>8, SwitchTabKeeps
  <1>9. CASE UNCHANGED vars
    <2>1. TypeOK'
      BY <1>9 DEF PageInv, TypeOK, vars
    <2>2. QED
      BY <1>9, <2>1 DEF PageInv, RoutePending, OneLinkEach, vars
  <1>10. QED
    BY <1>1, <1>2, <1>3, <1>4, <1>5, <1>6, <1>7, <1>8, <1>9 DEF Next

\* A page whose route is left stands only as long as its script is awaited.
LEMMA PageSettled == PageInv => SettledView
  <1> SUFFICES ASSUME PageInv, Idle PROVE SettledView
    BY DEF SettledView
  <1>1. \A p \in Pages : route[p] # None => route[p] = hash
    <2>1. events = 0 /\ \A p : ~Awaited(timers, p)
      BY DEF Idle, Awaited
    <2>2. QED
      BY <2>1 DEF PageInv, RoutePending
  <1>2. \A p \in Pages \cap main.kids : hash = p
    BY <1>1, RouteAssumption DEF PageInv, MainGood, Routes
  <1>3. ASSUME NEW p \in Pages \cap main.kids PROVE p \notin main.hidden
    <2>1. SUFFICES ASSUME p \in main.hidden PROVE FALSE
      OBVIOUS
    <2>2. PICK q \in Pages \cap main.kids : p \in main.marks[q]
      BY <2>1 DEF PageInv, MainGood
    <2>3. q = p
      BY <1>2, <2>2
    <2>4. QED
      BY <2>2, <2>3 DEF PageInv, MainGood
  <1>4. main.kids \cap Pages = {} => main.hidden = {} /\ ~main.stretched
    BY DEF PageInv, MainGood
  <1>5. QED
    BY <1>2, <1>3, <1>4 DEF SettledView

-----------------------------------------------------------------------------
\* PageInv is invariant.
LEMMA PageInvariant == Spec => []PageInv
  <1>1. QED
    BY PageInit, PageNext, PTL DEF Spec

\* The state is always what the scripts' variables and the DOM can hold.
THEOREM WorkspaceTypes == Spec => []TypeOK
  <1>1. PageInv => TypeOK
    BY DEF PageInv
  <1>2. QED
    BY <1>1, PageInvariant, PTL

\* Nothing in main is ever hidden without a page there whose going reveals it.
THEOREM WorkspaceHiddenIsMarked == Spec => []HiddenIsMarked
  <1>1. PageInv => HiddenIsMarked
    BY DEF PageInv, MainGood, HiddenIsMarked
  <1>2. QED
    BY <1>1, PageInvariant, PTL

\* However fast the user moves, main is right once events and timers are over.
THEOREM WorkspaceSettles == Spec => []SettledView
  <1>1. QED
    BY PageSettled, PageInvariant, PTL

\* The sidebar never holds two links to the same page.
THEOREM WorkspaceOneLinkEach == Spec => []OneLinkEach
  <1>1. PageInv => OneLinkEach
    BY DEF PageInv
  <1>2. QED
    BY <1>1, PageInvariant, PTL
=============================================================================
