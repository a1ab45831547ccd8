------------------------- MODULE KeyDispatch_proofs -------------------------
(***************************************************************************)
(* Two things about the dispatch of keys, for any sets of clients,         *)
(* displays, keys and modifiers.                                           *)
(* No stuck keys: the invariant says more than OwedRelease, namely that    *)
(* while a key is down its intercept entries are bound to the displays     *)
(* listed for their clients, so that a display that loses the intercept    *)
(* with the focus is the one setFocus queues, and that a power key, whose  *)
(* press is skipped, is not what a release is owed for.                    *)
(* bubbleKey as a loop: what it has done at any point is determined by the *)
(* state it began in and the places it has met, so that at its end it has  *)
(* done what CompositorController does in one step.                        *)
(***************************************************************************)
EXTENDS KeyUp, BubbleKey, CompositorController_proofs

BoundAt(r, k) == \A e \in r.intercepts[k] : e.compositor = compositor[e.client]

\* The release of key k goes to o while nothing changes.
Takes(r, k, f, o) ==
    IF Matching(r, k, f) # {} THEN o \in Interceptors(r, k, f)
                              ELSE o = r.focused.compositor

Keyboard == [keycode : Keys, flags : Flags]

\* Of the keys that are down, those whose press was routed.
Routed(H) == {h \in H : h.keycode \notin PowerKeys}

Settled(G, r) ==
    /\ \A g \in G : BoundAt(r, g.keycode)
    /\ \A o \in r.pressed \cap Managed :
          o \in r.pending \/ \E g \in G : Takes(r, g.keycode, g.flags, o)

NobodyPressed(r) == r.pressed \cap Managed = {}

HeldInv(H, r) ==
    /\ H \subseteq Keyboard
    /\ \A h, g \in H : h.keycode = g.keycode => h = g
    /\ Settled(Routed(H), r)
    /\ H = {} => NobodyPressed(r)

KInv == IInv /\ lost = {} /\ HeldInv(held, CurrentRouting)

-----------------------------------------------------------------------------
(* Key presses and releases.                                               *)

\* Binding leaves bound entries alone, and binds all there are.
LEMMA RebindBinds ==
    ASSUME IInv, lost = {}, NEW r, RoutingInv(r), NEW k \in Keys
    PROVE  /\ BoundAt(Rebind(r, k), k)
           /\ BoundAt(r, k) => Rebind(r, k) = r
           /\ Rebind(r, k).focused = r.focused
           /\ Rebind(r, k).pending = r.pending
           /\ Rebind(r, k).pressed = r.pressed
           /\ \A j \in Keys \ {k} : Rebind(r, k).intercepts[j] = r.intercepts[j]
<1> DEFINE bind(e) == IF e.compositor = NoCompositor
                        THEN [e EXCEPT !.compositor = compositor[e.client]] ELSE e
           S == {bind(e) : e \in r.intercepts[k]}
<1>1. r \in Routing /\ r.intercepts \in [Keys -> SUBSET KeyInterceptInfo]
  BY DEF RoutingInv, Routing
<1>2. Rebind(r, k) = [r EXCEPT !.intercepts = [r.intercepts EXCEPT ![k] = S]]
  BY <1>1 DEF Rebind, Routing
<1>3. ASSUME NEW e \in r.intercepts[k]
      PROVE  /\ bind(e).compositor = compositor[bind(e).client]
             /\ e.compositor = compositor[e.client] => bind(e) = e
  <2>1. e \in KeyInterceptInfo
    BY <1>1
  <2>2. e.compositor \in {NoCompositor, compositor[e.client]}
    BY DEF RoutingInv, GoodIntercepts
  <2>3. CASE e.compositor = NoCompositor
    BY <2>1, <2>3 DEF KeyInterceptInfo
  <2>4. CASE e.compositor # NoCompositor
    BY <2>2, <2>4
  <2>5. QED BY <2>3, <2>4
<1>4. \A e \in S : e.compositor = compositor[e.client]
  BY <1>3
<1>5. BoundAt(r, k) => S = r.intercepts[k]
  BY <1>3 DEF BoundAt
<1> HIDE DEF S
<1>6. /\ Rebind(r, k).intercepts[k] = S
      /\ Rebind(r, k).focused = r.focused
      /\ Rebind(r, k).pending = r.pending
      /\ Rebind(r, k).pressed = r.pressed
      /\ \A j \in Keys \ {k} : Rebind(r, k).intercepts[j] = r.intercepts[j]
  BY <1>1, <1>2 DEF Routing
<1>7. S = r.intercepts[k] => Rebind(r, k) = r
  BY <1>1, <1>2 DEF Routing
<1>8. QED BY <1>4, <1>5, <1>6, <1>7 DEF BoundAt

LEMMA SameRoute ==
    ASSUME NEW r, NEW s, NEW k, s.intercepts[k] = r.intercepts[k], s.focused = r.focused
    PROVE  /\ BoundAt(s, k) <=> BoundAt(r, k)
           /\ \A f, o : Takes(s, k, f, o) <=> Takes(r, k, f, o)
<1>1. ASSUME NEW f
      PROVE  /\ Matching(s, k, f) = Matching(r, k, f)
             /\ Interceptors(s, k, f) = Interceptors(r, k, f)
  <2>1. Matching(s, k, f) = Matching(r, k, f)
    BY DEF Matching
  <2>2. QED BY <2>1 DEF Interceptors
<1>2. QED BY <1>1 DEF BoundAt, Takes

\* The display of an intercept that depends on the focus is the focused one, so
\* any other keeps what it takes when the focus moves.
LEMMA TakesUnfocused ==
    ASSUME IInv, lost = {}, NEW r, RoutingInv(r), NEW k \in Keys, NEW f, NEW o,
           BoundAt(r, k), Takes(r, k, f, o), o # r.focused.compositor, o # NoCompositor,
           NEW s, s.intercepts[k] = r.intercepts[k]
    PROVE  Takes(s, k, f, o)
<1>1. Matching(r, k, f) # {} /\ o \in Interceptors(r, k, f)
  BY DEF Takes
<1>2. PICK e \in Matching(r, k, f) :
         o = e.compositor /\ (e.always \/ e.client = r.focused.name)
  BY <1>1 DEF Interceptors
<1>3. e.client \in Clients /\ e.compositor = compositor[e.client]
  BY <1>2 DEF BoundAt, Matching, RoutingInv, Routing, KeyInterceptInfo
<1>4. e.client # r.focused.name
  BY <1>2, <1>3, ConstantsAssumption DEF RoutingInv, GoodFocus, NoFocus
<1>5. Matching(s, k, f) = Matching(r, k, f)
  BY DEF Matching
<1>6. o \in Interceptors(s, k, f)
  BY <1>2, <1>4, <1>5 DEF Interceptors
<1>7. QED BY <1>1, <1>5, <1>6 DEF Takes

LEMMA RebindSettles ==
    ASSUME IInv, lost = {}, NEW r, RoutingInv(r), NEW k \in Keys, NEW G \in SUBSET Keyboard,
           Settled(G, r), BoundAt(r, k) \/ \A g \in G : g.keycode # k
    PROVE  Settled(G, Rebind(r, k))
<1> DEFINE b == Rebind(r, k)
<1>1. /\ BoundAt(r, k) => b = r
      /\ b.focused = r.focused /\ b.pressed = r.pressed /\ b.pending = r.pending
      /\ \A j \in Keys \ {k} : b.intercepts[j] = r.intercepts[j]
  BY RebindBinds
<1> HIDE DEF b
<1>2. CASE BoundAt(r, k)
  BY <1>1, <1>2 DEF b
<1>3. CASE \A g \in G : g.keycode # k
  <2>1. ASSUME NEW g \in G
        PROVE  BoundAt(b, g.keycode) /\ \A o : Takes(r, g.keycode, g.flags, o)
                                                 => Takes(b, g.keycode, g.flags, o)
    <3>1. g.keycode \in Keys \ {k}
      BY <1>3 DEF Keyboard
    <3>2. b.intercepts[g.keycode] = r.intercepts[g.keycode] /\ BoundAt(r, g.keycode)
      BY <1>1, <3>1 DEF Settled
    <3>3. QED BY <1>1, <3>2, SameRoute
  <2>2. QED BY <1>1, <2>1 DEF Settled, b
<1>4. QED BY <1>2, <1>3

\* After a press everybody who saw it, or an earlier press of a key that is
\* still down, is owed a release.
LEMMA PressOwes ==
    ASSUME IInv, lost = {}, NEW r, RoutingInv(r), NEW k \in Keys, NEW f \in Flags,
           NEW G \in SUBSET Keyboard, Settled(G, r), BoundAt(r, k) \/ \A g \in G : g.keycode # k
    PROVE  Settled(G \cup {[keycode |-> k, flags |-> f]}, Press(r, k, f))
<1> DEFINE b == Rebind(r, k)
           h == [keycode |-> k, flags |-> f]
           H == G \cup {h}
<1>1. /\ RoutingInv(b) /\ BoundAt(b, k)
      /\ b.focused = r.focused
      /\ Settled(G, b)
  BY RebindInv, RebindBinds, RebindSettles
<1>2. Press(r, k, f) =
        IF Matching(b, k, f) # {} THEN PressOn(b, Interceptors(b, k, f))
        ELSE IF r.focused.compositor = NoCompositor THEN b
        ELSE BubblePress(PressOn(b, {r.focused.compositor}), k, f)
  BY DEF Press
<1> HIDE DEF b
<1>3. /\ h.keycode = k /\ h.flags = f /\ H \in SUBSET Keyboard
      /\ b \in Routing
  BY <1>1 DEF Keyboard, RoutingInv
<1>4. Settled(H, b)
  BY <1>1, <1>3, Zenon DEF Settled
<1>5. SUFFICES Settled(H, Press(r, k, f))
  OBVIOUS
<1>6. h \in H
  OBVIOUS
<1> HIDE DEF h, H
\* What is left to show of a routing with the intercepts of b.
<1>7. ASSUME NEW a, a.intercepts = b.intercepts,
             \A o \in a.pressed \cap Managed :
                o \in a.pending \/ \E g \in H : Takes(a, g.keycode, g.flags, o)
      PROVE  Settled(H, a)
  BY <1>4, <1>7 DEF Settled, BoundAt
<1>8. CASE Matching(b, k, f) # {}
  <2> DEFINE S == Interceptors(b, k, f)
             p == PressOn(b, S)
  <2>1. p.pressed = b.pressed \cup S /\ p.pending = b.pending
        /\ p.intercepts = b.intercepts /\ p.focused = b.focused
    BY <1>3 DEF PressOn, Routing
  <2> HIDE DEF p
  <2>2. \A g \in H : \A o : Takes(p, g.keycode, g.flags, o) <=> Takes(b, g.keycode, g.flags, o)
    BY <2>1, SameRoute
  <2>3. \A o \in S : Takes(b, h.keycode, h.flags, o)
    BY <1>3, <1>8 DEF Takes
  <2> HIDE DEF S
  <2>4. \A o \in p.pressed \cap Managed :
          o \in p.pending \/ \E g \in H : Takes(p, g.keycode, g.flags, o)
    BY <1>4, <1>6, <2>1, <2>2, <2>3 DEF Settled
  <2>5. Settled(H, p)
    BY <1>7, <2>1, <2>4
  <2>6. QED BY <1>2, <1>8, <2>5 DEF p, S
<1>9. CASE Matching(b, k, f) = {} /\ r.focused.compositor = NoCompositor
  BY <1>2, <1>4, <1>9
<1>10. CASE Matching(b, k, f) = {} /\ r.focused.compositor # NoCompositor
  <2> DEFINE p == PressOn(b, {r.focused.compositor})
             S == Receivers(p, k, f)
             d == PressOn(p, S)
             q == [d EXCEPT !.pending = @ \cup S]
             a == Activate(q, k, f)
  <2>1. {r.focused.compositor} \subseteq Compositors /\ {r.focused.compositor} \subseteq Managed \cup lost
    BY <1>10, FocusManaged DEF RoutingInv
  <2>2. RoutingInv(p)
    BY <1>1, <2>1, PressOnInv
  <2>3. /\ p.pressed = b.pressed \cup {r.focused.compositor}
        /\ p.pending = b.pending /\ p.intercepts = b.intercepts /\ p.focused = b.focused
    BY <1>3 DEF PressOn, Routing
  <2>4. Press(r, k, f) = a
    BY <1>2, <1>10 DEF BubblePress
  <2> HIDE DEF p
  <2>5. S \subseteq Compositors /\ S \subseteq Managed \cup lost
    BY ReceiversManaged
  <2> HIDE DEF S
  <2>6. /\ d \in Routing
        /\ d.pressed = p.pressed \cup S
        /\ d.pending = p.pending /\ d.intercepts = p.intercepts /\ d.focused = p.focused
    BY <2>2, <2>5, PressOnInv DEF PressOn, RoutingInv, Routing
  <2> HIDE DEF d
  <2>7. /\ q \in Routing
        /\ q.pressed = b.pressed \cup {r.focused.compositor} \cup S
        /\ q.pending = b.pending \cup S
        /\ q.intercepts = b.intercepts /\ q.focused = b.focused
    BY <2>3, <2>5, <2>6 DEF Routing
  <2> HIDE DEF q
  <2>8. /\ a.pressed = q.pressed /\ a.intercepts = b.intercepts
        /\ q.pending \subseteq a.pending
        /\ \A o \in Compositors \cap q.pressed :
              o = b.focused.compositor => o \in a.pending \/ a.focused = b.focused
    BY <2>7, ActivateQueues
  <2> HIDE DEF a
  <2>9. Matching(a, k, f) = {}
    BY <1>10, <2>8 DEF Matching
  <2>10. ASSUME NEW o \in a.pressed \cap Managed, o \notin a.pending
         PROVE  \E g \in H : Takes(a, g.keycode, g.flags, o)
    <3>1. o \in Compositors /\ o # NoCompositor
      BY DEF Managed, Objects, IInv, TypeOK, OrNone
    <3>2. CASE o = b.focused.compositor
      <4>1. a.focused = b.focused
        BY <2>7, <2>8, <2>10, <3>1, <3>2
      <4>2. Takes(a, h.keycode, h.flags, o)
        BY <1>3, <2>9, <3>2, <4>1 DEF Takes
      <4>3. QED BY <1>6, <4>2
    <3>3. CASE o # b.focused.compositor
      <4>1. o \in b.pressed /\ o \notin b.pending
        BY <1>1, <2>7, <2>8, <2>10, <3>3
      <4>2. PICK g \in H : Takes(b, g.keycode, g.flags, o)
        BY <1>4, <4>1 DEF Settled
      <4>3. g.keycode \in Keys /\ BoundAt(b, g.keycode)
        BY <1>3, <1>4 DEF Keyboard, Settled
      <4>4. Takes(a, g.keycode, g.flags, o)
        BY <1>1, <2>8, <3>1, <3>3, <4>2, <4>3, TakesUnfocused
      <4>5. QED BY <4>4
    <3>4. QED BY <3>2, <3>3
  <2>11. Settled(H, a)
    BY <1>7, <2>8, <2>10
  <2>12. QED BY <2>4, <2>11
<1>11. QED BY <1>8, <1>9, <1>10

\* The release of a key goes to everybody who was owed it, and to all that were
\* queued; who is left believes another key is down and is owed that release.
LEMMA ReleasePays ==
    ASSUME IInv, lost = {}, NEW r, RoutingInv(r), NEW k \in Keys, NEW f \in Flags,
           NEW G \in SUBSET Keyboard, Settled(G, r), BoundAt(r, k) \/ \A g \in G : g.keycode # k,
           \A g \in G : g.keycode = k => g.flags = f
    PROVE  /\ Settled({g \in G : g.keycode # k}, Release(r, k, f))
           /\ Release(r, k, f).pending = {}
<1> DEFINE b == Rebind(r, k)
           p == ReleaseOn(b, {r.focused.compositor})
           q == ReleaseOn(p, Receivers(p, k, f))
           d == IF Matching(b, k, f) # {} THEN ReleaseOn(b, Interceptors(b, k, f))
                ELSE IF r.focused.compositor = NoCompositor THEN b
                ELSE BubbleRelease(p, k, f)
           F == {g \in G : g.keycode # k}
<1>1. /\ RoutingInv(b)
      /\ b.focused = r.focused
      /\ Settled(G, b)
  BY RebindInv, RebindBinds, RebindSettles
<1>2. Release(r, k, f) = FlushPending(d)
  BY DEF Release
<1>3. BubbleRelease(p, k, f) = Activate(q, k, f)
  BY DEF BubbleRelease
<1> HIDE DEF b
<1>4. b \in Routing
  BY <1>1 DEF RoutingInv
<1>5. ASSUME NEW S PROVE /\ ReleaseOn(b, S) \in Routing
                         /\ ReleaseOn(b, S).pressed = b.pressed \ S
                         /\ ReleaseOn(b, S).pending = b.pending
                         /\ ReleaseOn(b, S).focused = b.focused
                         /\ ReleaseOn(b, S).intercepts = b.intercepts
  BY <1>1, <1>4, ReleaseOnInv DEF RoutingInv, ReleaseOn, Routing
<1>6. ASSUME NEW o \in b.pressed \cap Managed, o \notin b.pending, ~Takes(b, k, f, o)
      PROVE  \E g \in F : Takes(b, g.keycode, g.flags, o)
  BY <1>1, <1>6 DEF Settled
<1>7. /\ d \in Routing /\ d.intercepts = b.intercepts
      /\ \A o \in d.pressed \cap Managed :
            o \in d.pending \/ \E g \in F : Takes(d, g.keycode, g.flags, o)
  <2>1. CASE Matching(b, k, f) # {}
    <3> DEFINE S == Interceptors(b, k, f)
    <3>1. d = ReleaseOn(b, S)
      BY <2>1
    <3> HIDE DEF d
    <3>2. /\ d \in Routing /\ d.pressed = b.pressed \ S /\ d.pending = b.pending
          /\ d.focused = b.focused /\ d.intercepts = b.intercepts
      BY <1>5, <3>1
    <3>3. \A o : Takes(b, k, f, o) <=> o \in S
      BY <2>1 DEF Takes
    <3> HIDE DEF S
    <3>4. \A g \in F : \A o : Takes(d, g.keycode, g.flags, o) <=> Takes(b, g.keycode, g.flags, o)
      BY <3>2, SameRoute
    <3>5. QED BY <1>6, <3>2, <3>3, <3>4
  <2>2. CASE Matching(b, k, f) = {} /\ r.focused.compositor = NoCompositor
    <3>1. d = b
      BY <2>2
    <3>2. NoCompositor \notin Managed
      BY DEF Managed, Objects
    <3>3. \A o \in Managed : ~Takes(b, k, f, o)
      BY <1>1, <2>2, <3>2 DEF Takes
    <3>4. QED BY <1>4, <1>6, <3>1, <3>3
  <2>3. CASE Matching(b, k, f) = {} /\ r.focused.compositor # NoCompositor
    <3>1. d = Activate(q, k, f)
      BY <1>3, <2>3
    <3>2. /\ p \in Routing /\ RoutingInv(p)
          /\ p.pressed = b.pressed \ {r.focused.compositor}
          /\ p.pending = b.pending /\ p.intercepts = b.intercepts
      BY <1>1, <1>5, ReleaseOnInv
    <3> HIDE DEF p
    <3>3. /\ q \in Routing /\ RoutingInv(q)
          /\ q.pressed \subseteq p.pressed /\ q.pending = p.pending
          /\ q.intercepts = p.intercepts
      BY <3>2, ReleaseOnInv DEF RoutingInv, ReleaseOn, Routing
    <3> HIDE DEF q
    <3>4. /\ d \in Routing /\ d.pressed = q.pressed /\ q.pending \subseteq d.pending
          /\ d.intercepts = q.intercepts
      BY <3>1, <3>3, ActivateInv, ActivateQueues DEF RoutingInv
    <3> HIDE DEF d
    <3>5. ASSUME NEW o \in d.pressed \cap Managed, o \notin d.pending
          PROVE  \E g \in F : Takes(d, g.keycode, g.flags, o)
      <4>1. o \in b.pressed /\ o \notin b.pending /\ o # b.focused.compositor
        BY <1>1, <3>2, <3>3, <3>4, <3>5
      <4>2. o # NoCompositor
        BY DEF Managed, Objects
      <4>3. PICK g \in F : Takes(b, g.keycode, g.flags, o)
        BY <1>6, <2>3, <4>1 DEF Takes
      <4>4. g.keycode \in Keys /\ BoundAt(b, g.keycode)
        BY <1>1 DEF Keyboard, Settled
      <4>5. d.intercepts[g.keycode] = b.intercepts[g.keycode]
        BY <3>2, <3>3, <3>4
      <4>6. Takes(d, g.keycode, g.flags, o)
        BY <1>1, <4>1, <4>2, <4>3, <4>4, <4>5, TakesUnfocused
      <4>7. QED BY <4>6
    <3>6. QED BY <3>2, <3>3, <3>4, <3>5
  <2>4. QED BY <2>1, <2>2, <2>3
<1> HIDE DEF d
<1> DEFINE e == FlushPending(d)
<1>8. /\ e.pressed = d.pressed \ d.pending /\ e.pending = {}
      /\ e.focused = d.focused /\ e.intercepts = d.intercepts
  BY <1>7 DEF FlushPending, ReleaseOn, Routing
<1> HIDE DEF e, F
<1>9. \A g \in F : \A o : Takes(e, g.keycode, g.flags, o) <=> Takes(d, g.keycode, g.flags, o)
  BY <1>8, SameRoute
<1>10. \A g \in F : BoundAt(b, g.keycode)
  BY <1>1 DEF Settled, F
<1>11. \A g \in F : BoundAt(e, g.keycode)
  BY <1>7, <1>8, <1>10 DEF BoundAt
<1>12. Settled(F, e)
  BY <1>7, <1>8, <1>9, <1>11 DEF Settled
<1>13. QED BY <1>2, <1>8, <1>12 DEF e, F

(* Calls.  None of them makes a display believe that a key is down ...      *)

LEMMA CreatedSawNoPress ==
    ASSUME IInv, NEW c \in Clients, ~Listed(c), NEW o, NEW topmost, NEW focus,
           AddDisplay(c, o, topmost, focus)
    PROVE  /\ mReceivedKeyPress' \cap Managed' \subseteq mReceivedKeyPress \cap Managed
           /\ lost' \subseteq lost
<1>1. /\ compositor' = [compositor EXCEPT ![c] = o]
      /\ mReceivedKeyPress' = mReceivedKeyPress \ {o}
      /\ lost' = lost \ {o}
  BY DEF AddDisplay
<1>2. compositor \in [Clients -> OrNone]
  BY DEF IInv, TypeOK
<1>3. Managed' \subseteq Managed \cup {o}
  BY <1>1, <1>2 DEF Managed, Objects
<1>4. QED BY <1>1, <1>3

LEMMA CallsPressNobody ==
    ASSUME IInv, lost = {}, AnyTimeCall \/ IdleCall
    PROVE  /\ mReceivedKeyPress' \cap Managed' \subseteq mReceivedKeyPress \cap Managed
           /\ lost' = {}
<1> SUFFICES /\ mReceivedKeyPress' \cap Managed' \subseteq mReceivedKeyPress \cap Managed
             /\ lost' \subseteq lost
  OBVIOUS
<1>1. ASSUME UNCHANGED <<compositor, mReceivedKeyPress, lost>>
      PROVE  /\ mReceivedKeyPress' \cap Managed' \subseteq mReceivedKeyPress \cap Managed
             /\ lost' \subseteq lost
  BY <1>1 DEF Managed, Objects
<1>2. CASE \E c \in Clients, topmost, focus \in BOOLEAN :
             CreateDisplay(c, topmost, focus) \/ LaunchApplication(c, topmost, focus)
  BY <1>2, CreatedSawNoPress DEF CreateDisplay, LaunchApplication
<1>3. CASE \E c \in Clients : Kill(c)
  <2>1. PICK c \in Clients : Kill(c)
    BY <1>3
  <2>2. Managed' = Managed \ {compositor[c]}
    BY <2>1, DropFromListProperties DEF Kill
  <2>3. QED BY <2>1, <2>2 DEF Kill
<1>4. CASE Intercept
  <2>1. UNCHANGED <<compositor, mReceivedKeyPress, lost>>
    BY <1>4 DEF Intercept, SetKeyIntercept, RemoveKeyIntercept, RemoveAllKeyIntercepts, lists
  <2> QED BY <1>1, <2>1
<1>5. CASE Listen
  <2>1. UNCHANGED <<compositor, mReceivedKeyPress, lost>>
    BY ZenonT(40), <1>5 DEF Listen, AddKeyListener, RemoveKeyListener, RemoveAllKeyListeners, routing
  <2> QED BY <1>1, <2>1
<1>6. CASE \E c \in Clients \cup {AllClients}, k \in Keys \ {WildcardKey}, f \in Flags :
             RemoveKeyIntercept(c, k, f)
  <2>1. UNCHANGED <<compositor, mReceivedKeyPress, lost>>
    BY <1>6 DEF RemoveKeyIntercept, lists
  <2> QED BY <1>1, <2>1
<1>7. CASE \E c \in Clients, k \in Keys \ Down, f \in Flags, always \in BOOLEAN :
             SetKeyIntercept(c, k, f, always)
  <2>1. UNCHANGED <<compositor, mReceivedKeyPress, lost>>
    BY <1>7 DEF SetKeyIntercept, lists
  <2> QED BY <1>1, <2>1
<1>8. CASE Draw
  <2>1. UNCHANGED <<compositor, mReceivedKeyPress, lost>>
    BY <1>8 DEF Draw, lists, routing
  <2> QED BY <1>1, <2>1
<1>9. CASE \E c \in Clients, enable \in BOOLEAN : EnableInputEvents(c, enable)
  <2>1. UNCHANGED <<compositor, mReceivedKeyPress, lost>>
    BY <1>9 DEF EnableInputEvents, lists, routing
  <2> QED BY <1>1, <2>1
<1>10. CASE \E c \in Clients :
             \/ SetFocus(c)
             \/ MoveToFront(c)
             \/ MoveToBack(c)
             \/ \E target \in Clients \ {c} : MoveBehind(c, target)
             \/ \E topmost, focus \in BOOLEAN : SetTopmost(c, topmost, focus)
  <2>1. UNCHANGED <<compositor, mReceivedKeyPress, lost>>
    BY <1>10 DEF SetFocus, MoveToFront, MoveToBack, MoveBehind, Restack, SetTopmost,
                    lists, routing
  <2> QED BY <1>1, <2>1
<1>11. QED BY <1>2, <1>3, <1>4, <1>5, <1>6, <1>7, <1>8, <1>9, <1>10 DEF AnyTimeCall, IdleCall

LEMMA CallsKeepQueued ==
    ASSUME AnyTimeCall
    PROVE  gPendingKeyUpListeners \subseteq gPendingKeyUpListeners'
<1>1. CASE Listen
  BY ZenonT(40), <1>1 DEF Listen, AddKeyListener, RemoveKeyListener, RemoveAllKeyListeners,
                         Queue, routing
<1>2. CASE \E c \in Clients, topmost, focus \in BOOLEAN :
             CreateDisplay(c, topmost, focus) \/ LaunchApplication(c, topmost, focus)
  BY <1>2 DEF CreateDisplay, LaunchApplication, AddDisplay
<1>3. CASE \E c \in Clients :
             \/ SetFocus(c)
             \/ Kill(c)
             \/ \E topmost, focus \in BOOLEAN : SetTopmost(c, topmost, focus)
  BY <1>3 DEF SetFocus, Kill, SetTopmost, Focus, Queue
<1>4. CASE \E c \in Clients : \/ MoveToFront(c)
                              \/ MoveToBack(c)
                              \/ \E target \in Clients \ {c} : MoveBehind(c, target)
  BY <1>4 DEF MoveToFront, MoveToBack, MoveBehind, Restack, routing
<1>5. CASE \/ \E c \in Clients \cup {AllClients}, k \in Keys \ {WildcardKey}, f \in Flags :
                RemoveKeyIntercept(c, k, f)
           \/ \E c \in Clients, k \in Keys \ Down, f \in Flags, always \in BOOLEAN :
                SetKeyIntercept(c, k, f, always)
  BY <1>5 DEF RemoveKeyIntercept, SetKeyIntercept, Queue
<1>6. CASE Draw
  BY <1>6 DEF Draw, routing
<1>7. QED BY <1>1, <1>2, <1>3, <1>4, <1>5, <1>6 DEF AnyTimeCall

-----------------------------------------------------------------------------
(* ... and those that may come while one is down leave the release owed.    *)

\* One display's share of Settled, as far as one key goes.
KeyOwed(k, f, o) ==
    /\ BoundAt(CurrentRouting, k)
    /\ o \in mReceivedKeyPress \cap Managed =>
          o \in gPendingKeyUpListeners \/ Takes(CurrentRouting, k, f, o)

LEMMA SameRouteOwes ==
    ASSUME NEW k \in Keys, NEW f \in Flags, NEW o, KeyOwed(k, f, o),
           UNCHANGED <<compositor, mInputEventsEnabled, mReceivedKeyPress, gFocusedCompositor>>,
           gPendingKeyUpListeners \subseteq gPendingKeyUpListeners',
           gKeyInterceptInfoMap'[k] = gKeyInterceptInfoMap[k]
    PROVE  KeyOwed(k, f, o)'
<1>1. BoundAt(CurrentRouting, k)'
  BY DEF KeyOwed, BoundAt, CurrentRouting
<1>2. Managed' = Managed
  BY DEF Managed, Objects
<1>3. Matching(CurrentRouting, k, f)' = Matching(CurrentRouting, k, f)
  BY DEF Matching, CurrentRouting
<1>4. Interceptors(CurrentRouting, k, f)' = Interceptors(CurrentRouting, k, f)
  BY <1>3 DEF Interceptors, CurrentRouting
<1>5. Takes(CurrentRouting, k, f, o)' <=> Takes(CurrentRouting, k, f, o)
  BY <1>3, <1>4 DEF Takes, CurrentRouting
<1>6. QED BY <1>1, <1>2, <1>5 DEF KeyOwed

\* What losing the focus takes from a display, setFocus queues.
LEMMA FocusOwes ==
    ASSUME IInv, lost = {}, NEW k \in Keys, NEW f \in Flags, NEW o, KeyOwed(k, f, o),
           NEW c \in Clients,
           Focus(c),
           UNCHANGED <<compositor, mInputEventsEnabled, mReceivedKeyPress, gKeyInterceptInfoMap>>
    PROVE  KeyOwed(k, f, o)'
<1>1. BoundAt(CurrentRouting, k)'
  BY DEF KeyOwed, BoundAt, CurrentRouting
<1>2. Managed' = Managed
  BY DEF Managed, Objects
<1>3. Matching(CurrentRouting, k, f)' = Matching(CurrentRouting, k, f)
  BY DEF Matching, CurrentRouting
<1>4. SUFFICES ASSUME o \in mReceivedKeyPress \cap Managed,
                      o \notin gPendingKeyUpListeners, o # gFocusedCompositor.compositor
               PROVE  Takes(CurrentRouting, k, f, o)'
  <2>1. o \in gPendingKeyUpListeners \/ (o \in mReceivedKeyPress \cap Managed
                                            /\ o = gFocusedCompositor.compositor)
          => o \in gPendingKeyUpListeners'
    BY DEF Focus, Queue, Managed, Objects
  <2>2. QED BY <1>1, <1>2, <2>1 DEF KeyOwed
<1>5. /\ Matching(CurrentRouting, k, f) # {}
      /\ o \in Interceptors(CurrentRouting, k, f)
  BY <1>4 DEF KeyOwed, Takes, CurrentRouting
<1>6. PICK e \in Matching(CurrentRouting, k, f) :
         o = e.compositor /\ (e.always \/ e.client = gFocusedCompositor.name)
  BY <1>5 DEF Interceptors, CurrentRouting
<1>7. e.client \in Clients /\ e.compositor = compositor[e.client]
  BY <1>6 DEF KeyOwed, BoundAt, Matching, CurrentRouting, IInv, TypeOK, KeyInterceptInfo
<1>8. e.client # gFocusedCompositor.name
  BY <1>4, <1>6, <1>7, ConstantsAssumption DEF IInv, GoodFocus, NoFocus
<1>9. o \in Interceptors(CurrentRouting, k, f)'
  BY <1>3, <1>6, <1>8 DEF Interceptors, CurrentRouting
<1>10. QED BY <1>3, <1>5, <1>9 DEF Takes

\* A killed display is owed nothing, and takes no other one's release away.
LEMMA KillOwes ==
    ASSUME IInv, lost = {}, NEW k \in Keys, NEW f \in Flags, NEW o, KeyOwed(k, f, o),
           NEW c \in Clients,
           Kill(c)
    PROVE  KeyOwed(k, f, o)'
<1>1. /\ compositor[c] \in Compositors
      /\ Managed' = Managed \ {compositor[c]}
      /\ compositor'[c] = NoCompositor
      /\ \A d \in Clients \ {c} : compositor'[d] = compositor[d]
  BY DropFromListProperties DEF Kill
<1>2. /\ gKeyInterceptInfoMap'[k] = Unbind(gKeyInterceptInfoMap[k], c)
      /\ gFocusedCompositor' = FocusAfterKill(c)
      /\ UNCHANGED <<gPendingKeyUpListeners, mReceivedKeyPress, mInputEventsEnabled>>
  BY DEF Kill
<1>3. gKeyInterceptInfoMap[k] \subseteq KeyInterceptInfo
  BY DEF IInv, TypeOK
<1>4. ASSUME NEW e \in gKeyInterceptInfoMap'[k]
      PROVE  /\ e.compositor = compositor'[e.client]
             /\ e.client # c => e \in gKeyInterceptInfoMap[k]
  <2>1. PICK e0 \in gKeyInterceptInfoMap[k] :
           e = IF e0.client = c THEN [e0 EXCEPT !.compositor = NoCompositor] ELSE e0
    BY <1>2 DEF Unbind
  <2>2. e0 \in KeyInterceptInfo /\ e0.compositor = compositor[e0.client]
    BY <1>3 DEF KeyOwed, BoundAt, CurrentRouting
  <2>3. CASE e0.client = c
    BY <1>1, <2>1, <2>2, <2>3 DEF KeyInterceptInfo
  <2>4. CASE e0.client # c
    BY <1>1, <2>1, <2>2, <2>4 DEF KeyInterceptInfo
  <2>5. QED BY <2>3, <2>4
<1>5. ASSUME NEW e \in gKeyInterceptInfoMap[k], e.client # c
      PROVE  e \in gKeyInterceptInfoMap'[k]
  BY <1>2, <1>5 DEF Unbind
<1>6. BoundAt(CurrentRouting, k)'
  BY <1>4 DEF BoundAt, CurrentRouting
<1>7. SUFFICES ASSUME o \in mReceivedKeyPress \cap Managed, o # compositor[c],
                      o \notin gPendingKeyUpListeners
               PROVE  Takes(CurrentRouting, k, f, o)'
  BY <1>1, <1>2, <1>6 DEF KeyOwed, CurrentRouting
<1>8. Takes(CurrentRouting, k, f, o)
  BY <1>7 DEF KeyOwed, CurrentRouting
<1>9. CASE Matching(CurrentRouting, k, f) # {}
  <2>1. PICK e \in Matching(CurrentRouting, k, f) :
           o = e.compositor /\ (e.always \/ e.client = gFocusedCompositor.name)
    BY <1>8, <1>9 DEF Takes, Interceptors, CurrentRouting
  <2>2. /\ e \in gKeyInterceptInfoMap[k] /\ e.compositor = compositor[e.client]
        /\ e.compositor \in mInputEventsEnabled /\ e.flags = f
    BY <2>1 DEF KeyOwed, BoundAt, Matching, CurrentRouting
  <2>3. e.client # c
    BY <1>7, <2>1, <2>2
  <2>4. e \in Matching(CurrentRouting, k, f)'
    BY <1>2, <1>5, <2>2, <2>3 DEF Matching, CurrentRouting
  <2>5. e.client = gFocusedCompositor.name => gFocusedCompositor' = gFocusedCompositor
    BY <1>2, <2>3 DEF FocusAfterKill
  <2>6. o \in Interceptors(CurrentRouting, k, f)'
    BY <2>1, <2>4, <2>5 DEF Interceptors, CurrentRouting
  <2>7. QED BY <2>4, <2>6 DEF Takes
<1>10. CASE Matching(CurrentRouting, k, f) = {}
  <2>1. ASSUME NEW e \in Matching(CurrentRouting, k, f)'
        PROVE  FALSE
    <3>1. /\ e \in gKeyInterceptInfoMap'[k] /\ e.flags = f
          /\ e.compositor \in mInputEventsEnabled
      BY <1>2, <2>1 DEF Matching, CurrentRouting
    <3>2. e.client # c
      BY <1>1, <1>4, <3>1, ConstantsAssumption DEF IInv, TypeOK
    <3>3. e \in Matching(CurrentRouting, k, f)
      BY <1>4, <3>1, <3>2 DEF Matching, CurrentRouting
    <3>4. QED BY <1>10, <3>3
  <2>2. o = gFocusedCompositor.compositor
    BY <1>8, <1>10 DEF Takes, CurrentRouting
  <2>3. gFocusedCompositor' = gFocusedCompositor
    <3>1. o # NoCompositor
      BY <1>7 DEF Managed, Objects
    <3>2. gFocusedCompositor.name # c
      BY <1>7, <2>2, <3>1 DEF IInv, GoodFocus, NoFocus
    <3>3. QED BY <1>2, <3>2 DEF FocusAfterKill
  <2>4. QED BY <2>1, <2>2, <2>3 DEF Takes, CurrentRouting
<1>11. QED BY <1>9, <1>10

\* What losing its intercept takes from a display, removeKeyIntercept queues.
LEMMA RemoveOwes ==
    ASSUME IInv, NEW k \in Keys, NEW f \in Flags, NEW o, KeyOwed(k, f, o),
           NEW c, NEW j \in Keys \ {WildcardKey}, NEW g, RemoveKeyIntercept(c, j, g)
    PROVE  KeyOwed(k, f, o)'
<1> DEFINE gone == {e \in gKeyInterceptInfoMap[j] :
                      e.flags = g /\ (c = AllClients \/ (c = e.client /\ Listed(c)))}
<1>1. /\ gKeyInterceptInfoMap'[k] =
             IF k = j THEN gKeyInterceptInfoMap[k] \ gone ELSE gKeyInterceptInfoMap[k]
      /\ gPendingKeyUpListeners' = Queue({e.compositor : e \in gone})
      /\ UNCHANGED <<lists, gFocusedCompositor, mReceivedKeyPress, mInputEventsEnabled>>
  BY DEF RemoveKeyIntercept
<1> HIDE DEF gone
<1>2. UNCHANGED compositor
  BY <1>1 DEF lists
<1>3. Managed' = Managed
  BY <1>2 DEF Managed, Objects
<1>4. gKeyInterceptInfoMap'[k] \subseteq gKeyInterceptInfoMap[k]
  BY <1>1
<1>5. BoundAt(CurrentRouting, k)'
  BY <1>2, <1>4 DEF KeyOwed, BoundAt, CurrentRouting
<1>6. SUFFICES ASSUME o \in mReceivedKeyPress \cap Managed, o \notin gPendingKeyUpListeners'
               PROVE  Takes(CurrentRouting, k, f, o)'
  BY <1>1, <1>3, <1>5 DEF KeyOwed, CurrentRouting
<1>7. Takes(CurrentRouting, k, f, o)
  BY <1>1, <1>6 DEF KeyOwed, CurrentRouting, Queue
<1>8. CASE Matching(CurrentRouting, k, f) # {}
  <2>1. PICK e \in Matching(CurrentRouting, k, f) :
           o = e.compositor /\ (e.always \/ e.client = gFocusedCompositor.name)
    BY <1>7, <1>8 DEF Takes, Interceptors, CurrentRouting
  <2>2. e \notin gone
    BY <1>1, <1>6, <2>1 DEF Queue, Managed, Objects
  <2>3. e \in Matching(CurrentRouting, k, f)'
    BY <1>1, <2>1, <2>2 DEF Matching, CurrentRouting
  <2>4. o \in Interceptors(CurrentRouting, k, f)'
    BY <1>1, <2>1, <2>3 DEF Interceptors, CurrentRouting
  <2>5. QED BY <2>3, <2>4 DEF Takes
<1>9. CASE Matching(CurrentRouting, k, f) = {}
  <2>1. Matching(CurrentRouting, k, f)' = {}
    BY <1>1, <1>4, <1>9 DEF Matching, CurrentRouting
  <2>2. QED BY <1>1, <1>7, <1>9, <2>1 DEF Takes, CurrentRouting
<1>10. QED BY <1>8, <1>9

\* A new display for which no entry of any key waits changes no route.
LEMMA CreateOwes ==
    ASSUME IInv, NEW k \in Keys, NEW f \in Flags, NEW o, KeyOwed(k, f, o),
           NEW c \in Clients, ~Listed(c),
           \A e \in gKeyInterceptInfoMap[k] : e.client # c,
           NEW x, NEW topmost, NEW focus, AddDisplay(c, x, topmost, focus),
           UNCHANGED gFocusedCompositor
    PROVE  KeyOwed(k, f, o)'
<1>1. /\ x \in Compositors \ Referenced
      /\ compositor' = [compositor EXCEPT ![c] = x]
      /\ mReceivedKeyPress' = mReceivedKeyPress \ {x}
      /\ mInputEventsEnabled' = mInputEventsEnabled \cup {x}
      /\ UNCHANGED <<gPendingKeyUpListeners, gKeyInterceptInfoMap>>
  BY DEF AddDisplay
<1>2. mReceivedKeyPress' \cap Managed' \subseteq mReceivedKeyPress \cap Managed
  BY CreatedSawNoPress
<1>3. ASSUME NEW e \in gKeyInterceptInfoMap[k]
      PROVE  /\ e.client \in Clients /\ compositor'[e.client] = compositor[e.client]
             /\ e.compositor # x
  <2>1. e.client \in Clients /\ e.compositor \in OrNone
    BY DEF IInv, TypeOK, KeyInterceptInfo
  <2>2. compositor'[e.client] = compositor[e.client]
    BY <1>1, <2>1 DEF IInv, TypeOK
  <2>3. e.compositor # NoCompositor => e.compositor \in Referenced
    BY DEF Bound, Objects, Referenced
  <2>4. QED BY <1>1, <2>1, <2>2, <2>3, ConstantsAssumption
<1>4. BoundAt(CurrentRouting, k)'
  BY <1>1, <1>3 DEF KeyOwed, BoundAt, CurrentRouting
<1>5. Matching(CurrentRouting, k, f)' = Matching(CurrentRouting, k, f)
  BY <1>1, <1>3 DEF Matching, CurrentRouting
<1>6. Interceptors(CurrentRouting, k, f)' = Interceptors(CurrentRouting, k, f)
  BY <1>5 DEF Interceptors, CurrentRouting
<1>7. Takes(CurrentRouting, k, f, o)' <=> Takes(CurrentRouting, k, f, o)
  BY <1>1, <1>5, <1>6 DEF Takes, CurrentRouting
<1>8. QED BY <1>1, <1>2, <1>4, <1>7 DEF KeyOwed

LEMMA SetKeepsOthers ==
    ASSUME NEW k \in Keys, NEW c, NEW j, j # k, NEW g, NEW always, SetKeyIntercept(c, j, g, always)
    PROVE  /\ gKeyInterceptInfoMap'[k] = gKeyInterceptInfoMap[k]
           /\ UNCHANGED <<compositor, mInputEventsEnabled, mReceivedKeyPress, gFocusedCompositor,
                          gPendingKeyUpListeners>>
  BY DEF SetKeyIntercept, lists

LEMMA AnyTimeCallOwes ==
    ASSUME IInv, lost = {}, NEW k \in Down, k \in Keys, NEW f \in Flags,
           NEW o, KeyOwed(k, f, o), AnyTimeCall
    PROVE  KeyOwed(k, f, o)'
<1>1. CASE \E c \in Clients : SetFocus(c)
  BY <1>1, FocusOwes DEF SetFocus, lists
<1>2. CASE \E c \in Clients : Kill(c)
  BY <1>2, KillOwes
<1>3. CASE \E c \in Clients : \/ MoveToFront(c) \/ MoveToBack(c)
                              \/ \E target \in Clients \ {c} : MoveBehind(c, target)
  BY <1>3, SameRouteOwes DEF MoveToFront, MoveToBack, MoveBehind, Restack, routing
<1>4. CASE \E c \in Clients, topmost, focus \in BOOLEAN : SetTopmost(c, topmost, focus)
  <2>1. PICK c \in Clients, topmost \in BOOLEAN, focus \in BOOLEAN : SetTopmost(c, topmost, focus)
    BY <1>4
  <2>2. CASE topmost /\ focus
    BY <2>1, <2>2, FocusOwes DEF SetTopmost
  <2>3. CASE ~(topmost /\ focus)
    BY <2>1, <2>3, SameRouteOwes DEF SetTopmost
  <2>4. QED BY <2>2, <2>3
<1>5. CASE \E c \in Clients :
             /\ \A j \in Keys : \A e \in gKeyInterceptInfoMap[j] : e.client # c
             /\ \E topmost, focus \in BOOLEAN :
                   \/ CreateDisplay(c, topmost, focus)
                   \/ LaunchApplication(c, topmost, focus)
             /\ UNCHANGED gFocusedCompositor
  BY <1>5, CreateOwes DEF CreateDisplay, LaunchApplication
<1>6. CASE \E c \in Clients \cup {AllClients}, j \in Keys \ {WildcardKey}, g \in Flags :
             RemoveKeyIntercept(c, j, g)
  BY <1>6, RemoveOwes
<1>7. CASE Listen
  BY ZenonT(40), <1>7, SameRouteOwes DEF Listen, AddKeyListener, RemoveKeyListener, RemoveAllKeyListeners,
                             Queue, routing
<1>8. CASE Draw
  BY <1>8, SameRouteOwes DEF Draw, lists, routing
<1>9. CASE \E c \in Clients, j \in Keys \ Down, g \in Flags, always \in BOOLEAN :
             SetKeyIntercept(c, j, g, always)
  BY <1>9, SameRouteOwes, SetKeepsOthers
<1>10. QED BY <1>1, <1>2, <1>3, <1>4, <1>5, <1>6, <1>7, <1>8, <1>9 DEF AnyTimeCall

-----------------------------------------------------------------------------
(* The invariant and the two theorems.                                     *)

LEMMA KeyUpStepIsNext ==
    ASSUME KeyUpNext, held \subseteq Keyboard
    PROVE  Next
<1>1. PressKey \/ (held \subseteq Keyboard /\ ReleaseKey) => KeyEvent
  BY DEF PressKey, ReleaseKey, KeyEvent, Keyboard
<1>2. AnyTimeCall => (\E c \in Clients : Display(c)) \/ Intercept \/ Listen \/ Draw
  BY DEF AnyTimeCall, Display, Intercept
<1>3. IdleCall => (\E c \in Clients : Display(c)) \/ Intercept
  BY DEF IdleCall, Display
<1>4. QED BY <1>1, <1>2, <1>3 DEF KeyUpNext, Next

\* After SetRouting(r) the routing is r, but for what was sent.
LEMMA SetRoutingIsHeld ==
    ASSUME NEW r, SetRouting(r), NEW G
    PROVE  /\ lost' = lost
           /\ Settled(G, r) => Settled(G, CurrentRouting)'
           /\ NobodyPressed(r) => NobodyPressed(CurrentRouting)'
<1>1. /\ gFocusedCompositor' = r.focused /\ gPendingKeyUpListeners' = r.pending
      /\ gKeyInterceptInfoMap' = r.intercepts /\ mReceivedKeyPress' = r.pressed
      /\ UNCHANGED <<compositor, lost, mInputEventsEnabled>>
  BY DEF SetRouting, lists
<1>2. Managed' = Managed
  BY <1>1 DEF Managed, Objects
<1>3. /\ CurrentRouting'.focused = r.focused /\ CurrentRouting'.pending = r.pending
      /\ CurrentRouting'.intercepts = r.intercepts /\ CurrentRouting'.pressed = r.pressed
  BY <1>1 DEF CurrentRouting
<1>4. ASSUME NEW k, NEW f
      PROVE  /\ BoundAt(CurrentRouting, k)' <=> BoundAt(r, k)
             /\ \A o : Takes(CurrentRouting, k, f, o)' <=> Takes(r, k, f, o)
  <2>1. Matching(CurrentRouting, k, f)' = Matching(r, k, f)
    BY <1>1, <1>3 DEF Matching
  <2>2. Interceptors(CurrentRouting, k, f)' = Interceptors(r, k, f)
    BY <1>3, <2>1 DEF Interceptors
  <2>3. QED BY <1>1, <1>3, <2>1, <2>2 DEF BoundAt, Takes
<1>5. Settled(G, r) => Settled(G, CurrentRouting)'
  BY <1>2, <1>3, <1>4 DEF Settled
<1>6. QED BY <1>1, <1>2, <1>3, <1>5 DEF NobodyPressed

\* Modifiers that no intercept of the key tells apart do not move its release.
LEMMA AlikeSettled ==
    ASSUME IInv, NEW k \in Keys, NEW f \in Flags, NEW g \in Flags, InterceptedAlike(k, g, f)
    PROVE  \A o : Takes(CurrentRouting, k, g, o) <=> Takes(CurrentRouting, k, f, o)
<1>1. Matching(CurrentRouting, k, g) = Matching(CurrentRouting, k, f)
  BY DEF InterceptedAlike, Matching, CurrentRouting
<1>2. QED BY <1>1 DEF Takes, Interceptors

\* What is settled before the next press or the release of key k, which comes
\* with modifiers f.
LEMMA HeldSettled ==
    ASSUME KInv, NEW k \in Keys, NEW f \in Flags,
           \A h \in held : h.keycode = k => InterceptedAlike(k, h.flags, f)
    PROVE  \E G \in SUBSET Keyboard :
              /\ Settled(G, CurrentRouting)
              /\ BoundAt(CurrentRouting, k) \/ \A g \in G : g.keycode # k
              /\ \A g \in G : g.keycode = k => g.flags = f
              /\ {g \in G : g.keycode # k} = Routed(OtherKeys(k))
              /\ k \in PowerKeys => G = Routed(OtherKeys(k))
<1>1. /\ IInv /\ held \subseteq Keyboard
      /\ \A h, g \in held : h.keycode = g.keycode => h = g
      /\ Settled(Routed(held), CurrentRouting)
  BY DEF KInv, HeldInv
<1>2. Routed(held) \subseteq held /\ Routed(OtherKeys(k)) = {g \in Routed(held) : g.keycode # k}
  BY DEF Routed, OtherKeys
<1>3. CASE \A g \in Routed(held) : g.keycode # k
  <2>1. Routed(held) = Routed(OtherKeys(k))
    BY <1>2, <1>3
  <2>2. Routed(held) \in SUBSET Keyboard
    BY <1>1, <1>2
  <2>3. QED BY <1>1, <1>2, <1>3, <2>1, <2>2
<1>4. ASSUME NEW h \in Routed(held), h.keycode = k
      PROVE  \E G \in SUBSET Keyboard :
                /\ Settled(G, CurrentRouting)
                /\ BoundAt(CurrentRouting, k) \/ \A g \in G : g.keycode # k
                /\ \A g \in G : g.keycode = k => g.flags = f
                /\ {g \in G : g.keycode # k} = Routed(OtherKeys(k))
                /\ k \in PowerKeys => G = Routed(OtherKeys(k))
  <2> DEFINE n == [keycode |-> k, flags |-> f]
             F == Routed(OtherKeys(k))
             G == F \cup {n}
  <2>1. h \in Keyboard /\ h.flags \in Flags /\ k \notin PowerKeys
    BY <1>1, <1>2, <1>4 DEF Keyboard, Routed
  <2>2. \A o : Takes(CurrentRouting, k, h.flags, o) <=> Takes(CurrentRouting, k, f, o)
    BY <1>1, <1>2, <1>4, <2>1, AlikeSettled
  <2>3. Routed(held) = F \cup {h}
    BY <1>1, <1>2, <1>4
  <2>4. n.keycode = k /\ n.flags = f /\ n \in Keyboard
    BY DEF Keyboard
  <2>5. n \in G /\ F \subseteq G /\ \A g \in G : g \in F \/ g = n
    OBVIOUS
  <2>6. \A g \in F : g.keycode # k /\ g \in Keyboard
    BY <1>1, <1>2
  <2> HIDE DEF n, F, G
  <2>7. \A g \in G : BoundAt(CurrentRouting, g.keycode)
    BY <1>1, <1>4, <2>3, <2>4, <2>5 DEF Settled
  <2>8. ASSUME NEW o \in CurrentRouting.pressed \cap Managed, o \notin CurrentRouting.pending
        PROVE  \E g \in G : Takes(CurrentRouting, g.keycode, g.flags, o)
    <3>1. PICK g \in Routed(held) : Takes(CurrentRouting, g.keycode, g.flags, o)
      BY <1>1, <2>8 DEF Settled
    <3>2. CASE g = h
      BY <1>4, <2>2, <2>4, <2>5, <3>1, <3>2
    <3>3. CASE g \in F
      BY <2>5, <3>1, <3>3
    <3>4. QED BY <2>3, <3>2, <3>3
  <2>9. Settled(G, CurrentRouting)
    BY <2>7, <2>8 DEF Settled
  <2>10. {g \in G : g.keycode # k} = F
    BY <2>4, <2>5, <2>6
  <2>11. /\ G \in SUBSET Keyboard
         /\ \A g \in G : g.keycode = k => g.flags = f
         /\ BoundAt(CurrentRouting, k)
    BY <2>4, <2>5, <2>6, <2>7
  <2>12. QED BY <2>1, <2>9, <2>10, <2>11 DEF F
<1>5. QED BY <1>3, <1>4

LEMMA PressKeyKInv ==
    ASSUME KInv, PressKey
    PROVE  HeldInv(held, CurrentRouting)' /\ lost' = {}
<1>1. PICK k \in Keys, f \in Flags :
         /\ \A h \in held : h.keycode = k => InterceptedAlike(k, h.flags, f)
         /\ OnKeyPress(k, f)
         /\ held' = OtherKeys(k) \cup {[keycode |-> k, flags |-> f]}
  BY DEF PressKey
<1>2. IInv /\ lost = {} /\ RoutingInv(CurrentRouting)
  BY CurrentRoutingInv DEF KInv
<1>3. PICK G \in SUBSET Keyboard :
         /\ Settled(G, CurrentRouting)
         /\ BoundAt(CurrentRouting, k) \/ \A g \in G : g.keycode # k
         /\ \A g \in G : g.keycode = k => g.flags = f
         /\ {g \in G : g.keycode # k} = Routed(OtherKeys(k))
         /\ k \in PowerKeys => G = Routed(OtherKeys(k))
  BY <1>1, HeldSettled
<1> DEFINE n == [keycode |-> k, flags |-> f]
<1>4. n \in Keyboard /\ n.keycode = k /\ n.flags = f /\ held' = OtherKeys(k) \cup {n}
  BY <1>1 DEF Keyboard
<1>5. G \cup {n} = Routed(OtherKeys(k)) \cup {n}
  <2>1. \A g \in G : g.keycode = k => g = n
    BY <1>3, <1>4 DEF Keyboard
  <2> HIDE DEF n
  <2>2. QED BY <1>3, <2>1
<1> HIDE DEF n
<1>6. held' \subseteq Keyboard /\ held' # {}
      /\ \A h, g \in held' : h.keycode = g.keycode => h = g
  BY <1>4 DEF KInv, HeldInv, OtherKeys
<1>7. Settled(Routed(held), CurrentRouting)' /\ lost' = {}
  <2>1. CASE k \in PowerKeys
    <3>1. SetRouting(CurrentRouting)
      BY <1>1, <2>1 DEF OnKeyPress
    <3>2. Routed(held)' = G
      BY <1>3, <1>4, <2>1 DEF Routed
    <3>3. Settled(G, CurrentRouting)' /\ lost' = {}
      BY <1>2, <1>3, <3>1, SetRoutingIsHeld
    <3>4. QED BY <3>2, <3>3 DEF Settled
  <2>2. CASE k \notin PowerKeys
    <3> DEFINE r == Press(CurrentRouting, k, f)
               H == G \cup {n}
    <3>1. SetRouting(r)
      BY <1>1, <2>2 DEF OnKeyPress
    <3>2. Settled(H, r)
      BY <1>2, <1>3, PressOwes DEF n
    <3>3. Routed(held)' = H
      BY <1>4, <1>5, <2>2 DEF Routed
    <3> HIDE DEF r, H
    <3>4. Settled(H, CurrentRouting)' /\ lost' = {}
      BY <1>2, <3>1, <3>2, SetRoutingIsHeld
    <3>5. QED BY <3>3, <3>4 DEF Settled
  <2>3. QED BY <2>1, <2>2
<1>8. QED BY <1>6, <1>7 DEF HeldInv

LEMMA ReleaseKeyKInv ==
    ASSUME KInv, ReleaseKey
    PROVE  HeldInv(held, CurrentRouting)' /\ lost' = {}
<1>1. PICK h \in held, f \in Flags :
         /\ InterceptedAlike(h.keycode, h.flags, f)
         /\ OnKeyRelease(h.keycode, f)
         /\ held' = OtherKeys(h.keycode)
  BY DEF ReleaseKey
<1> DEFINE k == h.keycode
<1>2. IInv /\ lost = {} /\ RoutingInv(CurrentRouting)
  BY CurrentRoutingInv DEF KInv
<1>3. /\ k \in Keys
      /\ \A g \in held : g.keycode = k => InterceptedAlike(k, g.flags, f)
  BY <1>1 DEF KInv, HeldInv, Keyboard
<1>4. /\ OnKeyRelease(k, f) /\ held' = OtherKeys(k)
  BY <1>1
<1> HIDE DEF k
<1>5. PICK G \in SUBSET Keyboard :
         /\ Settled(G, CurrentRouting)
         /\ BoundAt(CurrentRouting, k) \/ \A g \in G : g.keycode # k
         /\ \A g \in G : g.keycode = k => g.flags = f
         /\ {g \in G : g.keycode # k} = Routed(OtherKeys(k))
         /\ k \in PowerKeys => G = Routed(OtherKeys(k))
  BY <1>3, HeldSettled
<1> DEFINE n == [keycode |-> k, flags |-> f]
           p == Press(CurrentRouting, k, f)
           r == IF k \in PowerKeys /\ ~PowerReleaseOnly THEN p ELSE CurrentRouting
           F == Routed(OtherKeys(k))
           H == IF k \in PowerKeys /\ ~PowerReleaseOnly THEN G \cup {n} ELSE G
           z == Release(r, k, f)
<1>6. SetRouting(z)
  BY <1>4 DEF OnKeyRelease
<1>7. n.keycode = k /\ n.flags = f /\ n \in Keyboard
  BY <1>3 DEF Keyboard
<1>8. RoutingInv(p) /\ Settled(G \cup {n}, p)
  BY <1>2, <1>3, <1>5, PressInv, PressOwes
<1> HIDE DEF n, p
<1>9. BoundAt(p, k)
  BY <1>7, <1>8 DEF Settled
<1>10. /\ H \in SUBSET Keyboard /\ RoutingInv(r) /\ Settled(H, r)
       /\ BoundAt(r, k) \/ \A g \in H : g.keycode # k
       /\ \A g \in H : g.keycode = k => g.flags = f
  BY <1>2, <1>5, <1>7, <1>8, <1>9
<1>11. {g \in H : g.keycode # k} = F
  BY <1>5, <1>7
<1> HIDE DEF r, H
<1>12. Settled({g \in H : g.keycode # k}, z) /\ z.pending = {}
  BY <1>2, <1>3, <1>10, ReleasePays
<1> HIDE DEF z, F
<1>13. PICK E : E = F
  OBVIOUS
<1>14. Settled(E, z) /\ (E = {} => NobodyPressed(z))
  BY <1>11, <1>12, <1>13 DEF Settled, NobodyPressed
<1>15. /\ Settled(E, CurrentRouting)' /\ lost' = {}
       /\ E = {} => NobodyPressed(CurrentRouting)'
  BY <1>2, <1>6, <1>14, SetRoutingIsHeld
<1>16. Routed(held)' = E /\ (held' = {} => E = {})
  BY <1>4, <1>13 DEF F, Routed
<1>17. held' \subseteq Keyboard /\ \A g, m \in held' : g.keycode = m.keycode => g = m
  BY <1>4 DEF KInv, HeldInv, OtherKeys
<1>18. Settled(Routed(held), CurrentRouting)'
  BY <1>15, <1>16 DEF Settled
<1>19. QED BY <1>15, <1>16, <1>17, <1>18 DEF HeldInv

LEMMA CallKInv ==
    ASSUME KInv, AnyTimeCall \/ (held = {} /\ IdleCall), UNCHANGED held
    PROVE  HeldInv(held, CurrentRouting)' /\ lost' = {}
<1>1. /\ mReceivedKeyPress' \cap Managed' \subseteq mReceivedKeyPress \cap Managed
      /\ lost' = {}
  BY CallsPressNobody DEF KInv
<1>2. NobodyPressed(CurrentRouting) => NobodyPressed(CurrentRouting)'
  BY <1>1 DEF NobodyPressed, CurrentRouting
<1> DEFINE G == Routed(held)
<1>3. CASE held = {}
  <2>1. NobodyPressed(CurrentRouting)'
    BY <1>2, <1>3 DEF KInv, HeldInv
  <2>2. Routed(held)' = {} /\ held' = {}
    BY <1>3 DEF Routed
  <2>3. Settled(Routed(held), CurrentRouting)'
    BY <2>1, <2>2 DEF Settled, NobodyPressed
  <2>4. QED BY <1>1, <2>1, <2>2, <2>3 DEF HeldInv
<1>4. CASE held # {}
  <2>1. AnyTimeCall
    BY <1>4
  <2>2. /\ IInv /\ lost = {} /\ Settled(G, CurrentRouting)
        /\ held \subseteq Keyboard /\ G \subseteq held
    BY DEF KInv, HeldInv, Routed
  <2>3. ASSUME NEW g \in G
        PROVE  /\ g.keycode \in Down /\ g.keycode \in Keys /\ g.flags \in Flags
               /\ BoundAt(CurrentRouting, g.keycode)
    BY <2>2 DEF Down, Keyboard, Settled
  <2> HIDE DEF G
  <2>4. ASSUME NEW g \in G
        PROVE  BoundAt(CurrentRouting, g.keycode)'
    <3>1. KeyOwed(g.keycode, g.flags, NoCompositor)
      BY <2>3 DEF KeyOwed, Managed, Objects
    <3>2. KeyOwed(g.keycode, g.flags, NoCompositor)'
      BY <2>1, <2>2, <2>3, <3>1, AnyTimeCallOwes
    <3>3. QED BY <3>2 DEF KeyOwed
  <2>5. ASSUME NEW o \in mReceivedKeyPress' \cap Managed', o \notin gPendingKeyUpListeners'
        PROVE  \E g \in G : Takes(CurrentRouting, g.keycode, g.flags, o)'
    <3>1. o \in mReceivedKeyPress \cap Managed /\ o \notin gPendingKeyUpListeners
      BY <1>1, <2>1, <2>5, CallsKeepQueued
    <3>2. PICK g \in G : Takes(CurrentRouting, g.keycode, g.flags, o)
      BY <2>2, <3>1 DEF Settled, CurrentRouting
    <3>3. KeyOwed(g.keycode, g.flags, o)
      BY <2>3, <3>2 DEF KeyOwed
    <3>4. KeyOwed(g.keycode, g.flags, o)'
      BY <2>1, <2>2, <2>3, <3>3, AnyTimeCallOwes
    <3>5. QED BY <2>5, <3>4 DEF KeyOwed
  <2>6. \A o \in CurrentRouting'.pressed \cap Managed' :
           o \in CurrentRouting'.pending \/ \E g \in G : Takes(CurrentRouting, g.keycode, g.flags, o)'
    BY <2>5 DEF CurrentRouting
  <2>7. Routed(held)' = G /\ held' = held
    BY DEF G
  <2>8. Settled(Routed(held), CurrentRouting)'
    BY <2>4, <2>6, <2>7 DEF Settled
  <2>9. QED BY <1>1, <1>4, <2>7, <2>8 DEF HeldInv, KInv
<1>5. QED BY <1>3, <1>4

\* The invariant holds whatever keys are down together.
THEOREM KeyUpInvariance == KeyUpSpec => []KInv
<1>1. KeyUpInit => KInv
  <2> SUFFICES ASSUME KeyUpInit PROVE KInv
    OBVIOUS
  <2>1. mReceivedKeyPress = {} /\ lost = {} /\ held = {} /\ IInv
    BY InitIInv DEF KeyUpInit, Init
  <2>2. QED BY <2>1 DEF KInv, HeldInv, Settled, Routed, NobodyPressed, CurrentRouting
<1>2. KInv /\ [KeyUpNext]_keyUpVars => KInv'
  <2> SUFFICES ASSUME KInv, [KeyUpNext]_keyUpVars PROVE KInv'
    OBVIOUS
  <2>1. CASE KeyUpNext
    <3>1. IInv'
      BY <2>1, KeyUpStepIsNext, NextIInv DEF KInv, HeldInv
    <3>2. HeldInv(held, CurrentRouting)' /\ lost' = {}
      BY <2>1, PressKeyKInv, ReleaseKeyKInv, CallKInv DEF KeyUpNext
    <3>3. QED BY <3>1, <3>2 DEF KInv
  <2>2. CASE UNCHANGED keyUpVars
    <3>1. UNCHANGED vars /\ held' = held
      BY <2>2 DEF keyUpVars
    <3>2. IInv'
      BY <3>1, StutterIInv DEF KInv
    <3>3. CurrentRouting' = CurrentRouting /\ UNCHANGED <<compositor, lost, mInputEventsEnabled>>
      BY <3>1 DEF vars, lists, routing, CurrentRouting
    <3>4. HeldInv(held, CurrentRouting)'
      BY <3>1, <3>3 DEF KInv, HeldInv, Settled, Routed, NobodyPressed, BoundAt, Takes, Matching,
                        Interceptors, Managed, Objects
    <3>5. QED BY <3>2, <3>3, <3>4 DEF KInv
  <2>3. QED BY <2>1, <2>2
<1>3. QED BY <1>1, <1>2, PTL DEF KeyUpSpec

\* With the keyboard idle no display in the z-order believes a key is down,
\* for any number of clients, displays, keys, intercepts and listeners, and
\* however many keys were down together.
THEOREM NoKeyIsStuck == KeyUpSpec => []NoStuckKey
<1>1. KInv => NoStuckKey
  BY DEF NoStuckKey, KInv, HeldInv, NobodyPressed, CurrentRouting
<1>2. QED BY KeyUpInvariance, <1>1, PTL

\* Every display that believes a key is down is owed a release: it is queued,
\* or the release of a key that is down will go to it.
THEOREM ReleaseIsOwed == KeyUpSpec => []OwedRelease
<1>1. KInv => OwedRelease
  <2> SUFFICES ASSUME KInv, NEW o \in mReceivedKeyPress \cap Managed, o \notin gPendingKeyUpListeners
               PROVE  \E h \in held : o \in ReleasedTo(h)
    BY DEF OwedRelease
  <2>1. PICK h \in Routed(held) : Takes(CurrentRouting, h.keycode, h.flags, o)
    BY DEF KInv, HeldInv, Settled, CurrentRouting
  <2>2. h \in held /\ h.keycode \in Keys /\ BoundAt(CurrentRouting, h.keycode)
    BY DEF KInv, HeldInv, Settled, Routed, Keyboard
  <2>3. Rebind(CurrentRouting, h.keycode) = CurrentRouting
    BY <2>2, CurrentRoutingInv, RebindBinds DEF KInv
  <2>4. o \in ReleasedTo(h)
    BY <2>1, <2>3 DEF ReleasedTo, Takes, CurrentRouting
  <2>5. QED BY <2>2, <2>4
<1>2. QED BY KeyUpInvariance, <1>1, PTL

-----------------------------------------------------------------------------
(* bubbleKey, display by display.  Its outcome after some of the places of  *)
(* the walk, and what the last activating listener of them did.             *)

Walkers == Eligible(CurrentRouting)

Before(n) == {i \in Visited(CurrentRouting, call.keycode, call.flags) : i < n}

Getters(D) ==
    {compositor[list[i]] : i \in {j \in D :
        /\ Listener(list[j], call.keycode, call.flags) # {}
        /\ TopMode \/ \E h \in Walkers : h < j}}

Takers(D) ==
    {i \in D : Activates(list[i], call.keycode, call.flags) /\ list[i] # gFocusedCompositor.name}

Latest(S) == {i \in S : \A j \in S : j <= i}

ClientAt(i) == [name |-> list[i], compositor |-> compositor[list[i]]]

FocusAfter(D) ==
    IF Latest(Takers(D)) = {} THEN gFocusedCompositor
                              ELSE ClientAt(CHOOSE i \in Latest(Takers(D)) : TRUE)

Losers(D) ==
    IF Latest(Takers(D)) = {} THEN {}
    ELSE {gFocusedCompositor.compositor}
         \cup {compositor[list[i]] : i \in Takers(D) \ Latest(Takers(D))}

\* The routing when the displays at the places D have been met.
Outcome(r, D) ==
    /\ r \in Routing
    /\ r.focused = FocusAfter(D)
    /\ r.intercepts = gKeyInterceptInfoMap
    /\ IF call.isPressed
         THEN /\ r.pressed = mReceivedKeyPress \cup Getters(D)
              /\ r.presses = Getters(D) \cap mInputEventsEnabled
              /\ r.releases = {}
              /\ r.pending = gPendingKeyUpListeners \cup Getters(D)
                             \cup (Objects(Losers(D)) \cap mReceivedKeyPress)
         ELSE /\ r.pressed = mReceivedKeyPress \ Getters(D)
              /\ r.presses = {}
              /\ r.releases = Getters(D) \cap mReceivedKeyPress \cap mInputEventsEnabled
              /\ r.pending = gPendingKeyUpListeners
                             \cup (Objects(Losers(D)) \cap (mReceivedKeyPress \ Getters(D)))

\* While the walk goes on: every display met so far let the key pass, and in
\* the build that starts at the focused name the walk is past it.
WalkGoesOn ==
    /\ \A i \in Walkers : i < walk.at => Propagates(list[i], call.keycode, call.flags)
    /\ walk.isFocusedCompositor <=> ~TopMode /\ \A i \in Walkers : ~(i < walk.at)
    /\ ~TopMode => \E j \in 1..walk.at : list[j] = gFocusedCompositor.name

WalkInv ==
    \/ walk = Idle
    \/ /\ call.keycode \in Keys /\ call.flags \in Flags /\ call.isPressed \in BOOLEAN
       /\ walk = [at |-> walk.at, isFocusedCompositor |-> walk.isFocusedCompositor, r |-> walk.r]
       /\ walk.at \in 1..(Len(list) + 1)
       /\ Latest(Takers(Before(walk.at))) = {} => Takers(Before(walk.at)) = {}
       /\ Outcome(walk.r, Before(walk.at))
       /\ walk.at \in DOMAIN list => WalkGoesOn

\* Who is met depends on the focused name only.
LEMMA SameFocusSameWalk ==
    ASSUME NEW r, NEW q, r.focused = q.focused, NEW k, NEW f
    PROVE  /\ Eligible(r) = Eligible(q)
           /\ Visited(r, k, f) = Visited(q, k, f)
           /\ Receivers(r, k, f) = Receivers(q, k, f)
<1>1. Eligible(r) = Eligible(q)
  BY DEF Eligible
<1>2. Visited(r, k, f) = Visited(q, k, f)
  BY <1>1 DEF Visited
<1>3. QED BY <1>1, <1>2 DEF Receivers

\* A walk that is over has the outcome of the one step.
LEMMA WalkEnds ==
    ASSUME IInv, NEW r,
           LET V == Visited(CurrentRouting, call.keycode, call.flags) IN Outcome(r, V)
    PROVE  LET q == IF call.isPressed
                      THEN BubblePress(CurrentRouting, call.keycode, call.flags)
                      ELSE BubbleRelease(CurrentRouting, call.keycode, call.flags)
           IN  /\ r.focused = q.focused /\ r.pending = q.pending /\ r.intercepts = q.intercepts
               /\ r.pressed = q.pressed /\ r.presses = q.presses /\ r.releases = q.releases
<1> DEFINE k == call.keycode
           f == call.flags
           r0 == CurrentRouting
           V == Visited(r0, k, f)
           S == Receivers(r0, k, f)
           A == Takers(V)
           last == Latest(A)
           losers == {gFocusedCompositor.compositor} \cup {compositor[list[i]] : i \in A \ last}
           i0 == CHOOSE i \in last : TRUE
<1>1. S = Getters(V)
  BY DEF Receivers, Getters, Walkers, list
<1>2. /\ r0 \in Routing
      /\ r0.focused = gFocusedCompositor /\ r0.pending = gPendingKeyUpListeners
      /\ r0.intercepts = gKeyInterceptInfoMap /\ r0.pressed = mReceivedKeyPress
      /\ r0.presses = {} /\ r0.releases = {}
  BY CurrentRoutingInv DEF RoutingInv, CurrentRouting
<1>3. ASSUME NEW q, q \in Routing, q.focused = r0.focused
      PROVE  Activate(q, k, f) =
               IF last = {} THEN q
               ELSE [q EXCEPT !.focused = ClientAt(i0), !.pending = HandOver(q, losers)]
  <2>1. Visited(q, k, f) = V /\ q.focused = gFocusedCompositor
    BY <1>2, <1>3, SameFocusSameWalk
  <2>2. QED BY <2>1 DEF Activate, Takers, Latest, ClientAt, list
<1>4. Outcome(r, V)
  OBVIOUS
<1>5. S \subseteq Compositors
  BY ReceiversManaged
<1>6. /\ FocusAfter(V) = IF last = {} THEN gFocusedCompositor ELSE ClientAt(i0)
      /\ Losers(V) = IF last = {} THEN {} ELSE losers
  BY DEF FocusAfter, Losers
<1> HIDE DEF r0, S, V, A, last, losers, i0
<1>7. CASE call.isPressed
  <2> DEFINE d == PressOn(r0, S)
             q == [d EXCEPT !.pending = @ \cup S]
             a == Activate(q, k, f)
  <2>1. /\ d \in Routing
        /\ d.pressed = mReceivedKeyPress \cup S
        /\ d.presses = S \cap mInputEventsEnabled /\ d.releases = {}
        /\ d.pending = gPendingKeyUpListeners
        /\ d.intercepts = gKeyInterceptInfoMap /\ d.focused = gFocusedCompositor
    BY <1>2, <1>5 DEF PressOn, Routing, IInv, TypeOK
  <2> HIDE DEF d
  <2>2. /\ q \in Routing
        /\ q.pressed = mReceivedKeyPress \cup S
        /\ q.presses = S \cap mInputEventsEnabled /\ q.releases = {}
        /\ q.pending = gPendingKeyUpListeners \cup S
        /\ q.intercepts = gKeyInterceptInfoMap /\ q.focused = gFocusedCompositor
    BY <2>1, <1>5 DEF Routing
  <2>3. a = BubblePress(r0, k, f)
    BY DEF BubblePress, d, S
  <2> HIDE DEF q
  <2>4. a = IF last = {} THEN q
            ELSE [q EXCEPT !.focused = ClientAt(i0), !.pending = HandOver(q, losers)]
    BY <1>2, <1>3, <2>2
  <2>5. /\ a.pressed = q.pressed /\ a.presses = q.presses /\ a.releases = q.releases
        /\ a.intercepts = q.intercepts
        /\ a.focused = FocusAfter(V)
        /\ a.pending = gPendingKeyUpListeners \cup S \cup (Objects(Losers(V)) \cap mReceivedKeyPress)
    <3>1. CASE last = {}
      BY <1>6, <2>2, <2>4, <3>1 DEF Objects
    <3>2. CASE last # {}
      <4>1. /\ a.pressed = q.pressed /\ a.presses = q.presses /\ a.releases = q.releases
            /\ a.intercepts = q.intercepts
            /\ a.focused = ClientAt(i0) /\ a.pending = HandOver(q, losers)
        BY <2>2, <2>4, <3>2 DEF Routing
      <4>2. HandOver(q, losers) = gPendingKeyUpListeners \cup S \cup (Objects(losers) \cap mReceivedKeyPress)
        BY <2>2 DEF HandOver
      <4>3. QED BY <1>6, <3>2, <4>1, <4>2
    <3>3. QED BY <3>1, <3>2
  <2> HIDE DEF a
  <2>6. /\ r.focused = a.focused /\ r.pending = a.pending /\ r.intercepts = a.intercepts
        /\ r.pressed = a.pressed /\ r.presses = a.presses /\ r.releases = a.releases
    BY <1>1, <1>4, <1>7, <2>2, <2>5 DEF Outcome
  <2>7. QED BY <1>7, <2>3, <2>6 DEF r0
<1>8. CASE ~call.isPressed
  <2> DEFINE q == ReleaseOn(r0, S)
             a == Activate(q, k, f)
  <2>1. /\ q \in Routing
        /\ q.pressed = mReceivedKeyPress \ S
        /\ q.presses = {} /\ q.releases = S \cap mReceivedKeyPress \cap mInputEventsEnabled
        /\ q.pending = gPendingKeyUpListeners
        /\ q.intercepts = gKeyInterceptInfoMap /\ q.focused = gFocusedCompositor
    BY <1>2, <1>5 DEF ReleaseOn, Routing, IInv, TypeOK
  <2>2. a = BubbleRelease(r0, k, f)
    BY DEF BubbleRelease, S
  <2> HIDE DEF q
  <2>3. a = IF last = {} THEN q
            ELSE [q EXCEPT !.focused = ClientAt(i0), !.pending = HandOver(q, losers)]
    BY <1>2, <1>3, <2>1
  <2>4. /\ a.pressed = q.pressed /\ a.presses = q.presses /\ a.releases = q.releases
        /\ a.intercepts = q.intercepts
        /\ a.focused = FocusAfter(V)
        /\ a.pending = gPendingKeyUpListeners \cup (Objects(Losers(V)) \cap (mReceivedKeyPress \ S))
    <3>1. CASE last = {}
      BY <1>6, <2>1, <2>3, <3>1 DEF Objects
    <3>2. CASE last # {}
      <4>1. /\ a.pressed = q.pressed /\ a.presses = q.presses /\ a.releases = q.releases
            /\ a.intercepts = q.intercepts
            /\ a.focused = ClientAt(i0) /\ a.pending = HandOver(q, losers)
        BY <2>1, <2>3, <3>2 DEF Routing
      <4>2. HandOver(q, losers) = gPendingKeyUpListeners \cup (Objects(losers) \cap (mReceivedKeyPress \ S))
        BY <2>1 DEF HandOver
      <4>3. QED BY <1>6, <3>2, <4>1, <4>2
    <3>3. QED BY <3>1, <3>2
  <2> HIDE DEF a
  <2>5. /\ r.focused = a.focused /\ r.pending = a.pending /\ r.intercepts = a.intercepts
        /\ r.pressed = a.pressed /\ r.presses = a.presses /\ r.releases = a.releases
    BY <1>1, <1>4, <1>8, <2>1, <2>4 DEF Outcome
  <2>6. QED BY <1>8, <2>2, <2>5 DEF r0
<1>9. QED BY <1>7, <1>8

\* What the loop's test says of a place.
LEMMA WalkersAre ==
    ASSUME IInv
    PROVE  /\ list \in Seq(Clients) /\ NoRepeat(list)
           /\ \A i : i \in Walkers <=>
                /\ i \in DOMAIN list
                /\ compositor[list[i]] \in mInputEventsEnabled
                /\ IF TopMode THEN list[i] # gFocusedCompositor.name
                              ELSE \E j \in 1..i : list[j] = gFocusedCompositor.name
           /\ \A i \in Walkers : compositor[list[i]] \in Compositors
<1>1. list \in Seq(Clients) /\ NoRepeat(list)
  BY DEF IInv, TypeOK, ListsInv, ListNames, list
<1>2. \A i : i \in Walkers <=>
         /\ i \in DOMAIN list
         /\ compositor[list[i]] \in mInputEventsEnabled
         /\ IF TopMode THEN list[i] # gFocusedCompositor.name
                       ELSE \E j \in 1..i : list[j] = gFocusedCompositor.name
  BY DEF Walkers, Eligible, CurrentRouting, list
<1>3. QED BY <1>1, <1>2 DEF IInv, TypeOK

\* The display at the next place, if it is not skipped, is met.
LEMMA NextIsMet ==
    ASSUME IInv, walk.at \in DOMAIN list, WalkGoesOn
    PROVE  /\ Skipped <=> walk.at \notin Walkers
           /\ Skipped => Before(walk.at + 1) = Before(walk.at)
           /\ ~Skipped => /\ Before(walk.at + 1) = Before(walk.at) \cup {walk.at}
                          /\ ~Propagates(Here, call.keycode, call.flags) =>
                                Before(Len(list) + 1) = Before(walk.at) \cup {walk.at}
<1> DEFINE n == walk.at
           V == Visited(CurrentRouting, call.keycode, call.flags)
<1>1. n \in 1..Len(list)
  BY WalkersAre
<1>2. \A i \in V : i \in Walkers /\ i \in 1..Len(list)
  BY WalkersAre DEF Visited, Walkers
<1>3. Skipped <=> n \notin Walkers
  BY WalkersAre DEF Skipped, Here, WalkGoesOn
<1>4. n \in Walkers => n \in V
  BY DEF WalkGoesOn, Visited, Walkers, list
<1>5. ~Propagates(list[n], call.keycode, call.flags) /\ n \in Walkers => \A i \in V : ~(n < i)
  BY DEF Visited, Walkers, list
<1> HIDE DEF n, V
<1>6. Before(n) = {i \in V : i < n} /\ Before(n + 1) = {i \in V : i < n + 1}
      /\ Before(Len(list) + 1) = {i \in V : i < Len(list) + 1}
  BY DEF Before, V
<1>7. \A i \in V : i < n + 1 <=> i < n \/ i = n
  BY <1>1, <1>2
<1>8. \A i \in V : i < Len(list) + 1
  BY <1>2, WalkersAre
<1>9. \A i \in V : ~(n < i) => i < n \/ i = n
  BY <1>1, <1>2
<1>10. n \notin Walkers => n \notin V
  BY <1>2
<1>11. Skipped => Before(n + 1) = Before(n)
  BY <1>3, <1>6, <1>7, <1>10
<1>12. ~Skipped => Before(n + 1) = Before(n) \cup {n}
  <2> SUFFICES ASSUME ~Skipped PROVE Before(n + 1) = Before(n) \cup {n}
    OBVIOUS
  <2>1. n \in V
    BY <1>3, <1>4
  <2>2. QED BY <2>1, <1>6, <1>7
<1>13. ~Skipped /\ ~Propagates(list[n], call.keycode, call.flags) =>
          Before(Len(list) + 1) = Before(n) \cup {n}
  <2> SUFFICES ASSUME ~Skipped, ~Propagates(list[n], call.keycode, call.flags)
               PROVE  Before(Len(list) + 1) = Before(n) \cup {n}
    OBVIOUS
  <2>1. n \in V
    BY <1>3, <1>4
  <2>2. \A i \in V : i < n \/ i = n
    BY <1>3, <1>5, <1>9
  <2>3. QED BY <2>1, <2>2, <1>6, <1>8
<1>14. QED BY <1>3, <1>11, <1>12, <1>13 DEF n, Here

\* Who gets the key there, who takes the focus there and from whom.
LEMMA NextGets ==
    ASSUME IInv, walk.at \in DOMAIN list, WalkGoesOn, ~Skipped
    PROVE  LET D == Before(walk.at) IN
           Getters(D \cup {walk.at}) =
             IF walk.isFocusedCompositor \/ Listener(Here, call.keycode, call.flags) = {}
               THEN Getters(D) ELSE Getters(D) \cup {compositor[Here]}
<1> DEFINE n == walk.at
<1>1. n \in Walkers
  BY NextIsMet
<1>2. (TopMode \/ \E h \in Walkers : h < n) <=> ~walk.isFocusedCompositor
  BY DEF WalkGoesOn
<1>3. QED BY <1>2 DEF Getters, Here

LEMMA NextTakes ==
    ASSUME IInv, walk.at \in DOMAIN list, WalkGoesOn, ~Skipped,
           Latest(Takers(Before(walk.at))) = {} => Takers(Before(walk.at)) = {}
    PROVE  LET D == Before(walk.at)
               E == D \cup {walk.at}
               taken == Activates(Here, call.keycode, call.flags) /\ FocusAfter(D).name # Here
           IN  /\ Latest(Takers(E)) = {} => Takers(E) = {}
               /\ FocusAfter(E) = IF taken THEN ClientAt(walk.at) ELSE FocusAfter(D)
               /\ Losers(E) = IF taken THEN Losers(D) \cup {FocusAfter(D).compositor}
                                       ELSE Losers(D)
<1> DEFINE n == walk.at
           D == Before(n)
           E == D \cup {n}
           T == Takers(D)
           i0 == CHOOSE i \in Latest(T) : TRUE
<1>1. n \in 1..Len(list)
  BY WalkersAre
<1>2. \A i \in D : i \in 1..Len(list) /\ i < n
  BY WalkersAre DEF Before, Visited, Walkers
<1>3. T \subseteq D
  BY DEF Takers
<1>4. Latest(T) # {} => /\ i0 \in T /\ \A j \in T : j <= i0
                        /\ FocusAfter(D) = ClientAt(i0)
                        /\ Latest(T) = {i0}
  <2> SUFFICES ASSUME Latest(T) # {}
               PROVE  /\ i0 \in T /\ \A j \in T : j <= i0
                      /\ FocusAfter(D) = ClientAt(i0)
                      /\ Latest(T) = {i0}
    OBVIOUS
  <2>1. i0 \in Latest(T)
    OBVIOUS
  <2>2. i0 \in T /\ \A j \in T : j <= i0
    BY <2>1 DEF Latest
  <2>3. FocusAfter(D) = ClientAt(i0)
    BY DEF FocusAfter
  <2>4. T \subseteq Int
    BY <1>2, <1>3
  <2> HIDE DEF i0, T
  <2>5. \A i \in Latest(T) : i = i0
    BY <2>2, <2>4 DEF Latest
  <2>6. QED BY <2>1, <2>2, <2>3, <2>5
<1>5. Latest(T) = {} => FocusAfter(D) = gFocusedCompositor
  BY DEF FocusAfter
<1>6. \A i \in D : list[i] # list[n]
  BY <1>1, <1>2, WalkersAre DEF NoRepeat
<1>7. FocusAfter(D).name # Here <=> Here # gFocusedCompositor.name
  <2>1. CASE Latest(T) = {}
    BY <1>5, <2>1
  <2>2. CASE Latest(T) # {}
    <3>1. FocusAfter(D).name = list[i0] /\ i0 \in D
      BY <1>3, <1>4, <2>2 DEF ClientAt
    <3>2. list[i0] # gFocusedCompositor.name
      BY <1>4, <2>2 DEF Takers
    <3>3. \E h \in Walkers : h < n
      BY <1>2, <3>1 DEF Before, Visited, Walkers
    <3>4. Here # gFocusedCompositor.name
      <4>1. CASE TopMode
        BY <4>1, NextIsMet, WalkersAre DEF Here
      <4>2. CASE ~TopMode
        <5>1. PICK h \in Walkers : h < n
          BY <3>3
        <5>2. PICK j \in 1..h : list[j] = gFocusedCompositor.name
          BY <4>2, WalkersAre
        <5>3. h \in 1..Len(list)
          BY WalkersAre
        <5>4. j \in 1..Len(list) /\ j # n
          BY <1>1, <5>1, <5>3
        <5>5. QED BY <1>1, <5>2, <5>4, WalkersAre DEF NoRepeat, Here
      <4>3. QED BY <4>1, <4>2
    <3>5. QED BY <1>6, <3>1, <3>4 DEF Here
  <2>3. QED BY <2>1, <2>2
<1>8. Takers(E) = IF Activates(Here, call.keycode, call.flags) /\ Here # gFocusedCompositor.name
                    THEN T \cup {n} ELSE T
  BY DEF Takers, Here
<1> HIDE DEF n, D, E, T, i0
<1>9. CASE Activates(Here, call.keycode, call.flags) /\ Here # gFocusedCompositor.name
  <2>1. Takers(E) = T \cup {n}
    BY <1>8, <1>9
  <2>2. Latest(Takers(E)) = {n}
    <3>1. \A i \in T : i \in Int /\ i < n
      BY <1>2, <1>3
    <3>2. n \in Latest(T \cup {n})
      BY <1>1, <3>1 DEF Latest
    <3>3. \A i \in Latest(T \cup {n}) : i = n
      BY <1>1, <3>1 DEF Latest
    <3>4. QED BY <2>1, <3>2, <3>3
  <2>3. FocusAfter(E) = ClientAt(n)
    BY <2>2 DEF FocusAfter
  <2>4. n \notin T
    BY <1>1, <1>2, <1>3
  <2>5. Losers(E) = {gFocusedCompositor.compositor} \cup {compositor[list[i]] : i \in T}
    BY <2>1, <2>2, <2>4 DEF Losers
  <2>6. Losers(E) = Losers(D) \cup {FocusAfter(D).compositor}
    <3>1. CASE Latest(T) = {}
      <4>1. T = {} /\ Losers(D) = {}
        BY <3>1 DEF Losers, T, D, n
      <4>2. QED BY <1>5, <2>5, <3>1, <4>1
    <3>2. CASE Latest(T) # {}
      <4>1. Losers(D) = {gFocusedCompositor.compositor} \cup {compositor[list[i]] : i \in T \ {i0}}
        BY <1>4, <3>2 DEF Losers, T
      <4>2. FocusAfter(D).compositor = compositor[list[i0]] /\ i0 \in T
        BY <1>4, <3>2 DEF ClientAt
      <4>3. QED BY <2>5, <4>1, <4>2
    <3>3. QED BY <3>1, <3>2
  <2>7. QED BY <1>7, <1>9, <2>2, <2>3, <2>6 DEF n, D, E
<1>10. CASE ~(Activates(Here, call.keycode, call.flags) /\ Here # gFocusedCompositor.name)
  <2>1. Takers(E) = Takers(D)
    BY <1>8, <1>10 DEF T
  <2>2. FocusAfter(E) = FocusAfter(D) /\ Losers(E) = Losers(D)
    BY <2>1 DEF FocusAfter, Losers
  <2>3. QED BY <1>7, <1>10, <2>1, <2>2 DEF n, D, E
<1>11. QED BY <1>9, <1>10

\* A display that has lost the focus since the walk began is not met again.
LEMMA LosersAreBehind ==
    ASSUME IInv, walk.at \in DOMAIN list, WalkGoesOn, ~Skipped, ~walk.isFocusedCompositor
    PROVE  compositor[Here] \notin Losers(Before(walk.at))
<1> DEFINE n == walk.at
<1>1. n \in 1..Len(list) /\ n \in Walkers /\ Here \in Clients /\ compositor[Here] \in Compositors
  BY NextIsMet, WalkersAre DEF Here
<1>2. Here # gFocusedCompositor.name
  <2>1. CASE TopMode
    BY <1>1, <2>1, WalkersAre DEF Here
  <2>2. CASE ~TopMode
    <3>1. PICK h \in Walkers : h < n
      BY <2>2 DEF WalkGoesOn
    <3>2. PICK j \in 1..h : list[j] = gFocusedCompositor.name
      BY <2>2, WalkersAre
    <3>3. h \in 1..Len(list)
      BY WalkersAre
    <3>4. j \in 1..Len(list) /\ j # n
      BY <1>1, <3>1, <3>3
    <3>5. QED BY <1>1, <3>2, <3>4, WalkersAre DEF NoRepeat, Here
  <2>3. QED BY <2>1, <2>2
<1>3. compositor[Here] # gFocusedCompositor.compositor
  <2>1. compositor[Here] \notin lost
    BY <1>1, ConstantsAssumption DEF IInv, ObjectsInv, Managed, Objects
  <2>2. QED BY <1>1, <1>2, <2>1, ConstantsAssumption DEF IInv, GoodFocus, ObjectsInv, NoFocus
<1>4. ASSUME NEW i \in Before(n)
      PROVE  compositor[list[i]] # compositor[Here]
  <2>1. i \in 1..Len(list) /\ i < n
    BY WalkersAre DEF Before, Visited, Walkers
  <2>2. list[i] \in Clients /\ list[i] # Here
    BY <1>1, <2>1, WalkersAre DEF NoRepeat, Here
  <2>3. QED BY <1>1, <2>2 DEF IInv, ObjectsInv
<1>5. \A i \in Takers(Before(n)) : compositor[list[i]] # compositor[Here]
  BY <1>4 DEF Takers
<1>6. QED BY <1>3, <1>5 DEF Losers

\* One display of the walk: what Deliver and TakeFocus do is what the outcome
\* says of it.
LEMMA VisitOutcome ==
    ASSUME IInv, WalkInv, walk # Idle, walk.at \in DOMAIN list, ~Skipped
    PROVE  Outcome(TakeFocus(Deliver(walk.r)), Before(walk.at) \cup {walk.at})
<1> DEFINE D == Before(walk.at)
           E == D \cup {walk.at}
           r == walk.r
           o == compositor[Here]
           gets == ~walk.isFocusedCompositor /\ Listener(Here, call.keycode, call.flags) # {}
           taken == Activates(Here, call.keycode, call.flags) /\ FocusAfter(D).name # Here
           d == Deliver(r)
           t == TakeFocus(d)
<1>1. /\ WalkGoesOn /\ call.isPressed \in BOOLEAN
      /\ Latest(Takers(D)) = {} => Takers(D) = {}
      /\ Outcome(r, D)
  BY DEF WalkInv
<1>2. Getters(E) = IF gets THEN Getters(D) \cup {o} ELSE Getters(D)
  BY <1>1, NextGets
<1>3. /\ FocusAfter(E) = IF taken THEN ClientAt(walk.at) ELSE FocusAfter(D)
      /\ Losers(E) = IF taken THEN Losers(D) \cup {FocusAfter(D).compositor} ELSE Losers(D)
  BY <1>1, NextTakes
<1>4. gets => o \notin Losers(D)
  BY <1>1, LosersAreBehind
<1>5. Here \in Clients /\ o \in Compositors
  BY <1>1, NextIsMet, WalkersAre DEF Here
<1>6. d = IF ~gets THEN r
          ELSE IF call.isPressed THEN [PressOn(r, {o}) EXCEPT !.pending = @ \cup {o}]
          ELSE ReleaseOn(r, {o})
  BY DEF Deliver
<1>7. t = IF Activates(Here, call.keycode, call.flags) /\ d.focused.name # Here
            THEN [d EXCEPT !.focused = ClientAt(walk.at),
                           !.pending = HandOver(d, {d.focused.compositor})]
            ELSE d
  BY DEF TakeFocus, ClientAt, Here
<1>8. mInputEventsEnabled \subseteq Compositors
  BY DEF IInv, TypeOK
<1>9. ClientAt(walk.at) \in [name : Clients \cup {NoClient}, compositor : OrNone]
  BY <1>5 DEF ClientAt, Here, OrNone
<1> HIDE DEF D, E, r, o, gets, d, t
<1>10. r \in Routing /\ r.focused = FocusAfter(D) /\ r.intercepts = gKeyInterceptInfoMap
  BY <1>1 DEF Outcome
<1>11. /\ d \in Routing /\ d.focused = FocusAfter(D) /\ d.intercepts = gKeyInterceptInfoMap
       /\ IF call.isPressed
            THEN /\ d.pressed = mReceivedKeyPress \cup Getters(E)
                 /\ d.presses = Getters(E) \cap mInputEventsEnabled
                 /\ d.releases = {}
                 /\ d.pending = gPendingKeyUpListeners \cup Getters(E)
                                \cup (Objects(Losers(D)) \cap mReceivedKeyPress)
            ELSE /\ d.pressed = mReceivedKeyPress \ Getters(E)
                 /\ d.presses = {}
                 /\ d.releases = Getters(E) \cap mReceivedKeyPress \cap mInputEventsEnabled
                 /\ d.pending = gPendingKeyUpListeners
                                \cup (Objects(Losers(D)) \cap (mReceivedKeyPress \ Getters(E)))
  <2>1. CASE ~gets
    BY <1>1, <1>2, <1>6, <1>10, <2>1 DEF Outcome
  <2>2. CASE gets /\ call.isPressed
    <3>1. /\ d \in Routing /\ d.focused = r.focused /\ d.intercepts = r.intercepts
          /\ d.pressed = r.pressed \cup {o}
          /\ d.presses = r.presses \cup ({o} \cap mInputEventsEnabled)
          /\ d.releases = r.releases /\ d.pending = r.pending \cup {o}
      BY <1>5, <1>6, <1>8, <1>10, <2>2 DEF PressOn, Routing
    <3>2. QED BY <1>1, <1>2, <1>10, <2>2, <3>1 DEF Outcome
  <2>3. CASE gets /\ ~call.isPressed
    <3>1. /\ d \in Routing /\ d.focused = r.focused /\ d.intercepts = r.intercepts
          /\ d.pressed = r.pressed \ {o}
          /\ d.presses = r.presses
          /\ d.releases = r.releases \cup ({o} \cap r.pressed \cap mInputEventsEnabled)
          /\ d.pending = r.pending
      BY <1>5, <1>6, <1>8, <1>10, <2>3 DEF ReleaseOn, Routing
    <3>2. Objects(Losers(D)) \cap (mReceivedKeyPress \ Getters(E))
            = Objects(Losers(D)) \cap (mReceivedKeyPress \ Getters(D))
      BY <1>2, <1>4, <2>3 DEF Objects
    <3>3. QED BY <1>1, <1>2, <1>10, <2>3, <3>1, <3>2 DEF Outcome
  <2>4. QED BY <1>1, <2>1, <2>2, <2>3
<1>12. /\ t \in Routing /\ t.intercepts = gKeyInterceptInfoMap
       /\ t.pressed = d.pressed /\ t.presses = d.presses /\ t.releases = d.releases
       /\ t.focused = FocusAfter(E)
       /\ t.pending = IF taken THEN HandOver(d, {FocusAfter(D).compositor}) ELSE d.pending
  <2>1. CASE taken
    <3>1. HandOver(d, {FocusAfter(D).compositor}) \subseteq Compositors
      BY <1>11 DEF HandOver, Routing
    <3>2. t = [d EXCEPT !.focused = ClientAt(walk.at),
                        !.pending = HandOver(d, {FocusAfter(D).compositor})]
      BY <1>7, <1>11, <2>1
    <3>3. QED BY <1>3, <1>9, <1>11, <2>1, <3>1, <3>2 DEF Routing
  <2>2. CASE ~taken
    BY <1>3, <1>7, <1>11, <2>2
  <2>3. QED BY <2>1, <2>2
<1>13. t.pending =
         IF call.isPressed
           THEN gPendingKeyUpListeners \cup Getters(E) \cup (Objects(Losers(E)) \cap mReceivedKeyPress)
           ELSE gPendingKeyUpListeners \cup (Objects(Losers(E)) \cap (mReceivedKeyPress \ Getters(E)))
  <2>1. CASE taken
    <3>1. Losers(E) = Losers(D) \cup {FocusAfter(D).compositor}
      BY <1>3, <2>1
    <3>2. t.pending = d.pending \cup (Objects({FocusAfter(D).compositor}) \cap d.pressed)
      BY <1>12, <2>1 DEF HandOver
    <3>3. Objects(Losers(E)) = Objects(Losers(D)) \cup Objects({FocusAfter(D).compositor})
      BY <3>1 DEF Objects
    <3> HIDE DEF taken
    <3>4. CASE call.isPressed
      BY <1>11, <3>2, <3>3, <3>4
    <3>5. CASE ~call.isPressed
      BY <1>11, <3>2, <3>3, <3>5
    <3>6. QED BY <3>4, <3>5
  <2>2. CASE ~taken
    BY <1>3, <1>11, <1>12, <2>2
  <2>3. QED BY <2>1, <2>2
<1>14. Outcome(t, E)
  BY <1>11, <1>12, <1>13 DEF Outcome
<1>15. QED BY <1>14 DEF t, d, r, D, E

\* The outcome depends on the state the walk began in and on nothing else.
LEMMA SameOutcome ==
    ASSUME UNCHANGED <<vars, call>>
    PROVE  /\ list' = list /\ Walkers' = Walkers
           /\ gFocusedCompositor' = gFocusedCompositor
           /\ \A n : Before(n)' = Before(n)
           /\ \A i : Propagates(list[i], call.keycode, call.flags)'
                      = Propagates(list[i], call.keycode, call.flags)
           /\ \A D : Takers(D)' = Takers(D)
           /\ \A r, D : Outcome(r, D)' = Outcome(r, D)
<1>1. /\ UNCHANGED <<compositorLists, compositor, keyListeners, gFocusedCompositor>>
      /\ UNCHANGED <<gPendingKeyUpListeners, gKeyInterceptInfoMap, mReceivedKeyPress>>
      /\ UNCHANGED <<mInputEventsEnabled, call>>
  BY DEF vars, lists, routing
<1>2. list' = list /\ Walkers' = Walkers
  BY <1>1 DEF list, Walkers, Eligible, CurrentRouting
<1>3. /\ \A c, k, f : Listener(c, k, f)' = Listener(c, k, f)
      /\ \A c, k, f : Propagates(c, k, f)' = Propagates(c, k, f)
      /\ \A c, k, f : Activates(c, k, f)' = Activates(c, k, f)
  BY <1>1 DEF Listener, ListenersAt, Propagates, Activates
<1>4. \A i : Propagates(list[i], call.keycode, call.flags)'
             = Propagates(list[i], call.keycode, call.flags)
  BY <1>1, <1>2, <1>3
<1>5. Visited(CurrentRouting, call.keycode, call.flags)'
        = Visited(CurrentRouting, call.keycode, call.flags)
  BY <1>1, <1>2, <1>4 DEF Visited, Walkers, list
<1>6. \A n : Before(n)' = Before(n)
  BY <1>5 DEF Before
<1>7. \A D : Takers(D)' = Takers(D)
  BY <1>1, <1>2, <1>3 DEF Takers
<1>8. \A D : Getters(D)' = Getters(D)
  BY <1>1, <1>2, <1>3 DEF Getters
<1>9. \A D : FocusAfter(D)' = FocusAfter(D) /\ Losers(D)' = Losers(D)
  BY <1>1, <1>2, <1>7 DEF FocusAfter, Losers, ClientAt, Latest
<1>10. \A r, D : Outcome(r, D)' = Outcome(r, D)
  BY <1>1, <1>8, <1>9 DEF Outcome
<1>11. QED BY <1>1, <1>2, <1>4, <1>6, <1>7, <1>10

WalkStarts ==
    /\ call.keycode \in Keys /\ call.flags \in Flags /\ call.isPressed \in BOOLEAN
    /\ walk = [at |-> Begin, isFocusedCompositor |-> ~TopMode, r |-> CurrentRouting]

\* Nobody is met before the place the walk begins at.
LEMMA NobodyBefore ==
    ASSUME IInv, NEW i \in Walkers
    PROVE  Begin \in 1..i
<1>1. i \in 1..Len(list)
  BY WalkersAre
<1>2. CASE TopMode
  BY <1>1, <1>2 DEF Begin
<1>3. CASE ~TopMode
  <2>1. PICK j \in 1..i : list[j] = gFocusedCompositor.name
    BY <1>3, WalkersAre
  <2>2. j \in 1..Len(list) /\ j \in DOMAIN list
    BY <1>1, WalkersAre
  <2>3. Contains(list, gFocusedCompositor.name)
    BY <2>1, <2>2 DEF Contains
  <2>4. /\ IndexOf(list, gFocusedCompositor.name) \in DOMAIN list
        /\ list[IndexOf(list, gFocusedCompositor.name)] = gFocusedCompositor.name
    BY <2>1, <2>2 DEF IndexOf
  <2>5. IndexOf(list, gFocusedCompositor.name) = j
    BY <2>1, <2>2, <2>4, WalkersAre DEF NoRepeat
  <2>6. QED BY <1>3, <2>3, <2>5 DEF Begin
<1>4. QED BY <1>2, <1>3

LEMMA WalkBegins == IInv /\ WalkStarts => WalkInv
<1> SUFFICES ASSUME IInv, WalkStarts PROVE WalkInv
  OBVIOUS
<1>1. /\ walk.at = Begin /\ walk.isFocusedCompositor = ~TopMode /\ walk.r = CurrentRouting
      /\ walk = [at |-> walk.at, isFocusedCompositor |-> walk.isFocusedCompositor, r |-> walk.r]
  BY DEF WalkStarts
<1>2. Begin \in 1..(Len(list) + 1)
  <2>1. CASE TopMode
    BY <2>1, WalkersAre DEF Begin
  <2>2. CASE ~TopMode /\ Contains(list, gFocusedCompositor.name)
    <3>1. IndexOf(list, gFocusedCompositor.name) \in DOMAIN list
      BY <2>2 DEF Contains, IndexOf
    <3>2. QED BY <2>2, <3>1, WalkersAre DEF Begin
  <2>3. CASE ~TopMode /\ ~Contains(list, gFocusedCompositor.name)
    BY <2>3, WalkersAre DEF Begin
  <2>4. QED BY <2>1, <2>2, <2>3
<1>3. \A i \in Walkers : ~(i < Begin)
  BY <1>2, NobodyBefore, WalkersAre
<1>4. Before(Begin) = {}
  BY <1>3 DEF Before, Visited, Walkers
<1>5. Takers({}) = {} /\ Getters({}) = {}
  BY DEF Takers, Getters
<1>6. FocusAfter({}) = gFocusedCompositor /\ Losers({}) = {}
  BY <1>5 DEF FocusAfter, Losers, Latest
<1>7. Outcome(CurrentRouting, {})
  <2>1. CurrentRouting \in Routing
    BY CurrentRoutingInv DEF RoutingInv
  <2>2. QED BY <1>5, <1>6, <2>1 DEF Outcome, CurrentRouting, Objects
<1>8. ASSUME Begin \in DOMAIN list
      PROVE  WalkGoesOn
  <2>1. ~TopMode => \E j \in 1..Begin : list[j] = gFocusedCompositor.name
    <3> SUFFICES ASSUME ~TopMode PROVE \E j \in 1..Begin : list[j] = gFocusedCompositor.name
      OBVIOUS
    <3>1. Begin \in 1..Len(list)
      BY <1>8, WalkersAre
    <3>2. Contains(list, gFocusedCompositor.name)
      BY <3>1, WalkersAre DEF Begin
    <3>3. list[Begin] = gFocusedCompositor.name
      BY <3>2 DEF Begin, Contains, IndexOf
    <3>4. QED BY <3>1, <3>3
  <2>2. QED BY <1>1, <1>3, <2>1 DEF WalkGoesOn
<1>9. QED BY <1>1, <1>2, <1>4, <1>5, <1>7, <1>8 DEF WalkInv, WalkStarts

LEMMA BeginWalkInv ==
    ASSUME IInv, NEW k \in Keys, NEW f \in Flags, NEW isPressed \in BOOLEAN,
           BubbleKey(k, f, isPressed)
    PROVE  WalkInv'
<1>1. UNCHANGED vars
  BY DEF BubbleKey
<1>2. IInv'
  BY <1>1, StutterIInv
<1>3. CurrentRouting' = CurrentRouting /\ Begin' = Begin
  BY <1>1 DEF vars, lists, routing, CurrentRouting, Begin, list
<1>4. WalkStarts'
  BY <1>3 DEF WalkStarts, BubbleKey
<1>5. IInv' /\ WalkStarts' => WalkInv'
  BY WalkBegins, PTL
<1>6. QED BY <1>2, <1>4, <1>5

\* One turn of the loop.
LEMMA TurnWalkInv ==
    ASSUME IInv, WalkInv, walk # Idle, Skip \/ Visit
    PROVE  WalkInv'
<1> DEFINE n == walk.at
<1>1. /\ call.keycode \in Keys /\ call.flags \in Flags /\ call.isPressed \in BOOLEAN
      /\ walk = [at |-> n, isFocusedCompositor |-> walk.isFocusedCompositor, r |-> walk.r]
      /\ n \in DOMAIN list /\ n \in 1..Len(list)
      /\ Latest(Takers(Before(n))) = {} => Takers(Before(n)) = {}
      /\ Outcome(walk.r, Before(n))
      /\ WalkGoesOn
  BY WalkersAre DEF WalkInv, Skip, Visit
<1>2. UNCHANGED <<vars, call>>
  BY DEF Skip, Visit
<1>3. SUFFICES
         /\ walk' = [at |-> walk'.at, isFocusedCompositor |-> walk'.isFocusedCompositor, r |-> walk'.r]
         /\ walk'.at \in 1..(Len(list) + 1)
         /\ Latest(Takers(Before(walk'.at))) = {} => Takers(Before(walk'.at)) = {}
         /\ Outcome(walk'.r, Before(walk'.at))
         /\ walk'.at \in DOMAIN list =>
              /\ \A i \in Walkers : i < walk'.at => Propagates(list[i], call.keycode, call.flags)
              /\ walk'.isFocusedCompositor <=> ~TopMode /\ \A i \in Walkers : ~(i < walk'.at)
              /\ ~TopMode => \E j \in 1..walk'.at : list[j] = gFocusedCompositor.name
  <2>1. call' = call
    BY <1>2
  <2>2. Before(walk.at)' = Before(walk'.at)
    BY <1>2, SameOutcome
  <2>3. Takers(Before(walk.at))' = Takers(Before(walk'.at))
    BY <1>2, <2>2, SameOutcome
  <2>4. Outcome(walk.r, Before(walk.at))' = Outcome(walk'.r, Before(walk'.at))
    BY <1>2, <2>2, SameOutcome
  <2>5. QED BY <1>1, <1>2, <2>1, <2>2, <2>3, <2>4, SameOutcome DEF WalkInv, WalkGoesOn, Latest
<1>4. ASSUME NEW i \in Walkers
      PROVE  i \in 1..Len(list) /\ (i < n + 1 <=> i < n \/ i = n) /\ ~(i < n /\ i = n)
  BY <1>1, WalkersAre
<1>5. n + 1 \in 1..(Len(list) + 1) /\ Len(list) + 1 \in 1..(Len(list) + 1)
      /\ Len(list) + 1 \notin DOMAIN list /\ n \in 1..(n + 1)
  BY <1>1, WalkersAre
<1>6. ~TopMode => \E j \in 1..(n + 1) : list[j] = gFocusedCompositor.name
  BY <1>1 DEF WalkGoesOn
<1>7. CASE Skip
  <2>1. /\ Skipped /\ walk' = [at |-> n + 1, isFocusedCompositor |-> walk.isFocusedCompositor,
                               r |-> walk.r]
    BY <1>1, <1>7 DEF Skip
  <2>2. Before(n + 1) = Before(n) /\ n \notin Walkers
    BY <1>1, <2>1, NextIsMet
  <2>3. \A i \in Walkers : i < n + 1 <=> i < n
    BY <1>4, <2>2
  <2> HIDE DEF n
  <2>4. QED BY <1>1, <1>5, <1>6, <2>1, <2>2, <2>3 DEF WalkGoesOn, n
<1>8. CASE Visit
  <2> DEFINE m == IF Propagates(Here, call.keycode, call.flags) THEN n + 1 ELSE Len(list) + 1
             t == TakeFocus(Deliver(walk.r))
             E == Before(n) \cup {n}
  <2>1. ~Skipped /\ walk' = [at |-> m, isFocusedCompositor |-> FALSE, r |-> t]
    BY <1>8 DEF Visit
  <2>2. Outcome(t, E)
    BY <1>1, <2>1, VisitOutcome
  <2>3. Before(m) = E
    BY <1>1, <2>1, NextIsMet
  <2>4. Latest(Takers(E)) = {} => Takers(E) = {}
    BY <1>1, <2>1, NextTakes
  <2>5. n \in Walkers
    BY <1>1, <2>1, NextIsMet
  <2>6. m \in DOMAIN list => m = n + 1 /\ Propagates(list[n], call.keycode, call.flags)
    BY <1>5 DEF Here
  <2>7. m \in 1..(Len(list) + 1)
    BY <1>5
  <2> HIDE DEF m, t, E
  <2>8. ASSUME m \in DOMAIN list
        PROVE  /\ \A i \in Walkers : i < m => Propagates(list[i], call.keycode, call.flags)
               /\ FALSE <=> ~TopMode /\ \A i \in Walkers : ~(i < m)
               /\ ~TopMode => \E j \in 1..m : list[j] = gFocusedCompositor.name
    BY <1>1, <1>4, <1>6, <2>5, <2>6, <2>8 DEF WalkGoesOn
  <2>9. QED BY <2>1, <2>2, <2>3, <2>4, <2>7, <2>8
<1>9. QED BY <1>7, <1>8

\* The end of the loop: the outcome of the one step.
LEMMA ReturnIsOneStep ==
    ASSUME IInv, WalkInv, Return
    PROVE  IInv' /\ WalkInv' /\ OneStep
<1> DEFINE V == Visited(CurrentRouting, call.keycode, call.flags)
           q == IF call.isPressed
                  THEN BubblePress(CurrentRouting, call.keycode, call.flags)
                  ELSE BubbleRelease(CurrentRouting, call.keycode, call.flags)
<1>1. /\ call.keycode \in Keys /\ walk.at \in 1..(Len(list) + 1) /\ walk.at \notin DOMAIN list
      /\ Outcome(walk.r, Before(walk.at)) /\ SetRouting(walk.r) /\ walk' = Idle
  BY DEF WalkInv, Return
<1>2. walk.at = Len(list) + 1
  BY <1>1, WalkersAre
<1>3. \A i \in V : i < walk.at
  BY <1>2, WalkersAre DEF Visited, Walkers
<1>4. Before(walk.at) = V
  BY <1>3 DEF Before
<1>5. Outcome(walk.r, V)
  BY <1>1, <1>4
<1>6. /\ walk.r.focused = q.focused /\ walk.r.pending = q.pending
      /\ walk.r.intercepts = q.intercepts /\ walk.r.pressed = q.pressed
      /\ walk.r.presses = q.presses /\ walk.r.releases = q.releases
  BY <1>5, WalkEnds
<1>7. RoutingInv(q)
  BY <1>1, CurrentRoutingInv, BubblePressInv, BubbleReleaseInv
<1> HIDE DEF q
<1>8. SetRouting(q)
  BY <1>1, <1>6 DEF SetRouting
<1>9. IInv'
  BY <1>7, <1>8, SetRoutingIInv
<1>10. QED BY <1>1, <1>8, <1>9 DEF WalkInv, OneStep, q

\* Begun in any state the compositor controller can be in, with any number of
\* displays and listeners and in both builds, the loop has the outcome that
\* CompositorController's BubblePress and BubbleRelease give in one step.
THEOREM BubbleKeyIsOneStep ==
    IInv /\ walk = Idle /\ [][BubbleNext]_bubbleVars => WalkIsOneStep
<1> DEFINE Inv == IInv /\ WalkInv
<1>1. IInv /\ walk = Idle => Inv
  BY DEF WalkInv
<1>2. Inv /\ [BubbleNext]_bubbleVars => Inv' /\ [OneStep]_vars
  <2> SUFFICES ASSUME Inv, [BubbleNext]_bubbleVars PROVE Inv' /\ [OneStep]_vars
    OBVIOUS
  <2>1. ASSUME NEW k \in Keys, NEW f \in Flags, NEW isPressed \in BOOLEAN,
               BubbleKey(k, f, isPressed)
        PROVE  Inv' /\ UNCHANGED vars
    BY <2>1, BeginWalkInv, StutterIInv DEF BubbleKey
  <2>2. CASE Skip \/ Visit
    <3>1. UNCHANGED vars
      BY <2>2 DEF Skip, Visit
    <3>2. walk # Idle
      BY <2>2, WalkersAre DEF Skip, Visit, Idle
    <3>3. QED BY <2>2, <3>1, <3>2, TurnWalkInv, StutterIInv
  <2>3. CASE Return
    BY <2>3, ReturnIsOneStep
  <2>4. CASE UNCHANGED bubbleVars
    <3>1. UNCHANGED <<vars, call, walk>>
      BY <2>4 DEF bubbleVars
    <3>2. IInv'
      BY <3>1, StutterIInv
    <3>3. WalkInv'
      <4>1. walk = Idle => walk' = Idle
        BY <3>1
      <4>2. UNCHANGED <<vars, call>> /\ walk' = walk
        BY <3>1
      <4>3. Before(walk.at)' = Before(walk.at)
        BY <4>2, SameOutcome
      <4>4. /\ Takers(Before(walk.at))' = Takers(Before(walk.at))
            /\ Outcome(walk.r, Before(walk.at))' = Outcome(walk.r, Before(walk.at))
        BY <4>2, <4>3, SameOutcome
      <4>5. QED BY <4>2, <4>3, <4>4, SameOutcome DEF WalkInv, WalkGoesOn, Latest, Idle
    <3>4. QED BY <3>1, <3>2, <3>3
  <2>5. QED BY <2>1, <2>2, <2>3, <2>4 DEF BubbleNext
<1>3. QED BY <1>1, <1>2, PTL DEF WalkIsOneStep

=============================================================================
