------------------------ MODULE CompositorController ------------------------
(***************************************************************************)
(* CompositorController (compositorcontroller.cpp): the z-ordered lists of *)
(* client displays, the focused display, key intercepts, key listeners and *)
(* the routing of every key press and release.  The class is a set of      *)
(* static functions over globals, called only on RDKShell's main loop, so  *)
(* one call is one step.                                                   *)
(*                                                                         *)
(* A name stands for a client name after standardizeName(); a member of    *)
(* Compositors stands for one RdkCompositor object, held by shared_ptr.    *)
(* Operators named Bug... are deliberate mistakes used to test that the    *)
(* properties can fail; no action uses them.                               *)
(***************************************************************************)
EXTENDS Integers, Sequences, FiniteSets, SequencesExt

CONSTANTS
    Clients,          \* standardised client names
    Compositors,      \* RdkCompositor objects; bounds how many exist at once
    Keys,             \* key codes that can be pressed or intercepted
    Flags,            \* modifier words
    PowerKeys,        \* gPowerKeyCode and gFrontPanelButtonCode
    AnyKey,           \* RDKSHELL_ANY_KEY, the wildcard of key listeners
    ListenKeys,       \* key codes, AnyKey included, that listeners register for
    WildcardKey,      \* RDKSHELL_WILDCARD_KEY_CODE, the wildcard of removal
    AllClients,       \* the client "*" of removeKeyIntercept
    NoClient,         \* the empty client name
    NoCompositor,     \* a null shared_ptr
    TopMode,          \* RDKSHELL_ENABLE_KEYBUBBING_TOP_MODE
    PowerReleaseOnly  \* gRdkShellPowerKeyReleaseOnlyEnabled

ASSUME ConstantsAssumption ==
    /\ NoClient \notin Clients
    /\ AllClients \notin Clients
    /\ NoCompositor \notin Compositors
    /\ AnyKey \notin Keys
    /\ ListenKeys \subseteq Keys \cup {AnyKey}
    /\ PowerKeys \subseteq Keys
    /\ TopMode \in BOOLEAN
    /\ PowerReleaseOnly \in BOOLEAN

VARIABLES
    compositorLists,         \* gCompositorList and gTopmostCompositorList: names, front first
    compositor,              \* CompositorInfo.compositor of every listed name
    keyListeners,            \* CompositorInfo.keyListenerInfo of every listed name
    gFocusedCompositor,      \* a copy of the focused client's CompositorInfo
    gPendingKeyUpListeners,  \* objects owed a key release
    gDeletedCompositors,     \* objects kill() handed to the next draw()
    gKeyInterceptInfoMap,    \* for every key, its intercept entries
    mReceivedKeyPress,       \* objects that saw a press and no release since
    mInputEventsEnabled,     \* objects whose input events are enabled
    lost,                    \* history: objects moveBehind(c, c) dropped from their list
    sent                     \* the key events the last call sent to Westeros

lists    == <<compositorLists, compositor, keyListeners, lost>>
routing  == <<gFocusedCompositor, gPendingKeyUpListeners, gKeyInterceptInfoMap,
              mReceivedKeyPress>>
vars     == <<lists, routing, gDeletedCompositors, mInputEventsEnabled, sent>>

-----------------------------------------------------------------------------
(* Types.                                                                  *)

ListNames == {"gCompositorList", "gTopmostCompositorList"}

OrNone == Compositors \cup {NoCompositor}

KeyListenerInfo == [flags : Flags, activate : BOOLEAN, propagate : BOOLEAN]

KeyInterceptInfo ==
    [client : Clients, flags : Flags, always : BOOLEAN, compositor : OrNone]

NoFocus == [name |-> NoClient, compositor |-> NoCompositor]

NoListeners == [k \in Keys \cup {AnyKey} |-> <<>>]

NothingSent == [presses |-> {}, releases |-> {}]

TypeOK ==
    /\ compositorLists \in [ListNames -> Seq(Clients)]
    /\ compositor \in [Clients -> OrNone]
    /\ keyListeners \in [Clients -> [Keys \cup {AnyKey} -> Seq(KeyListenerInfo)]]
    /\ gFocusedCompositor \in [name : Clients \cup {NoClient}, compositor : OrNone]
    /\ gPendingKeyUpListeners \subseteq Compositors
    /\ gDeletedCompositors \subseteq Compositors
    /\ gKeyInterceptInfoMap \in [Keys -> SUBSET KeyInterceptInfo]
    /\ mReceivedKeyPress \subseteq Compositors
    /\ mInputEventsEnabled \subseteq Compositors
    /\ lost \subseteq Compositors
    /\ sent \in [presses : SUBSET Compositors, releases : SUBSET Compositors]

-----------------------------------------------------------------------------
(* Looking clients and objects up.                                         *)

\* A set of shared_ptrs without the null ones.
Objects(S) == S \ {NoCompositor}

\* getCompositorInfo by name: gCompositorList is searched first.
Listed(c) == \E l \in ListNames : Contains(compositorLists[l], c)

ListOf(c) == IF Contains(compositorLists["gCompositorList"], c)
             THEN "gCompositorList"
             ELSE "gTopmostCompositorList"

NothingListed == \A l \in ListNames : compositorLists[l] = <<>>

Managed == Objects({compositor[c] : c \in Clients})

Bound == UNION {Objects({e.compositor : e \in gKeyInterceptInfoMap[k]}) : k \in Keys}

\* The objects some shared_ptr keeps alive.
Referenced == Managed \cup Bound \cup Objects({gFocusedCompositor.compositor})
              \cup gPendingKeyUpListeners \cup gDeletedCompositors

IndexOf(s, c) == CHOOSE i \in DOMAIN s : s[i] = c

Without(s, c) == RemoveAt(s, IndexOf(s, c))

PutInFront(s, c) == <<c>> \o s

BugQueueNothing(S) == gPendingKeyUpListeners

\* The compositors in S that a call queues because they still hold a key down.
Queue(S) == gPendingKeyUpListeners \cup (Objects(S) \cap mReceivedKeyPress)

-----------------------------------------------------------------------------
Init ==
    /\ compositorLists = [l \in ListNames |-> <<>>]
    /\ compositor = [c \in Clients |-> NoCompositor]
    /\ keyListeners = [c \in Clients |-> NoListeners]
    /\ gFocusedCompositor = NoFocus
    /\ gPendingKeyUpListeners = {}
    /\ gDeletedCompositors = {}
    /\ gKeyInterceptInfoMap = [k \in Keys |-> {}]
    /\ mReceivedKeyPress = {}
    /\ mInputEventsEnabled = Compositors
    /\ lost = {}
    /\ sent = NothingSent

-----------------------------------------------------------------------------
(* Displays: creation, stacking, focus and removal.                        *)

\* The tail createDisplay and launchApplication share, for a display that
\* Westeros created: a new object (no shared_ptr holds it) goes in front.
\* setFocused() is not called on it, nor is the old focus queued for key-up.
AddDisplay(c, o, topmost, takesFocus) ==
    /\ o \in Compositors \ Referenced
    /\ compositorLists' =
         [compositorLists EXCEPT
            ![IF topmost THEN "gTopmostCompositorList" ELSE "gCompositorList"]
               = PutInFront(@, c)]
    /\ compositor' = [compositor EXCEPT ![c] = o]
    /\ gFocusedCompositor' = IF takesFocus THEN [name |-> c, compositor |-> o]
                                           ELSE gFocusedCompositor
    /\ mReceivedKeyPress' = mReceivedKeyPress \ {o}
    /\ mInputEventsEnabled' = mInputEventsEnabled \cup {o}
    /\ lost' = lost \ {o}
    /\ sent' = NothingSent
    /\ UNCHANGED <<keyListeners, gPendingKeyUpListeners, gDeletedCompositors,
                   gKeyInterceptInfoMap>>

CreateDisplay(c, topmost, focus) ==
    /\ ~Listed(c)
    /\ \E o \in Compositors :
          AddDisplay(c, o, topmost, focus \/ (~topmost /\ NothingListed))

\* launchApplication honours focus only for a topmost application.
LaunchApplication(c, topmost, focus) ==
    /\ ~Listed(c)
    /\ \E o \in Compositors :
          AddDisplay(c, o, topmost, (topmost /\ focus) \/ (~topmost /\ NothingListed))

Restack(l, s) ==
    /\ compositorLists' = [compositorLists EXCEPT ![l] = s]
    /\ sent' = NothingSent
    /\ UNCHANGED <<compositor, keyListeners, lost, routing, gDeletedCompositors,
                   mInputEventsEnabled>>

MoveToFront(c) ==
    LET l == ListOf(c) IN
    /\ Listed(c)
    /\ Head(compositorLists[l]) # c
    /\ Restack(l, PutInFront(Without(compositorLists[l], c), c))

BugMoveToBack(c) ==
    LET l == ListOf(c)
        s == compositorLists[l]
    IN  /\ Listed(c)
        /\ Restack(l, [s EXCEPT ![IndexOf(s, c)] = s[Len(s)], ![Len(s)] = c])

MoveToBack(c) ==
    LET l == ListOf(c) IN
    /\ Listed(c)
    /\ Restack(l, Append(Without(compositorLists[l], c), c))

\* The client is erased before the target is looked up again, so a client
\* moved behind itself is not found and stays erased.
DropFromList(c) ==
    /\ compositorLists' = [compositorLists EXCEPT ![ListOf(c)] = Without(@, c)]
    /\ compositor' = [compositor EXCEPT ![c] = NoCompositor]
    /\ keyListeners' = [keyListeners EXCEPT ![c] = NoListeners]

MoveBehind(c, target) ==
    LET l    == ListOf(c)
        rest == Without(compositorLists[l], c)
    IN  /\ Listed(c) /\ Listed(target)
        /\ ListOf(target) = l
        /\ \/ /\ c # target
              /\ Restack(l, InsertAt(rest, IndexOf(rest, target) + 1, c))
           \/ /\ c = target
              /\ DropFromList(c)
              /\ lost' = lost \cup {compositor[c]}
              /\ sent' = NothingSent
              /\ UNCHANGED <<routing, gDeletedCompositors, mInputEventsEnabled>>

\* setFocus on a listed client: the old focus is queued if a key is down on it.
Focus(c) ==
    /\ gPendingKeyUpListeners' = Queue({gFocusedCompositor.compositor})
    /\ gFocusedCompositor' = [name |-> c, compositor |-> compositor[c]]

SetFocus(c) ==
    /\ Listed(c)
    /\ Focus(c)
    /\ sent' = NothingSent
    /\ UNCHANGED <<lists, gKeyInterceptInfoMap, mReceivedKeyPress,
                   gDeletedCompositors, mInputEventsEnabled>>

SetTopmost(c, topmost, focus) ==
    LET from == ListOf(c)
        to   == IF topmost THEN "gTopmostCompositorList" ELSE "gCompositorList"
    IN  /\ Listed(c)
        /\ from # to
        /\ compositorLists' = [compositorLists EXCEPT
                                 ![from] = Without(@, c), ![to] = PutInFront(@, c)]
        /\ IF topmost /\ focus
             THEN Focus(c)
             ELSE UNCHANGED <<gPendingKeyUpListeners, gFocusedCompositor>>
        /\ sent' = NothingSent
        /\ UNCHANGED <<compositor, keyListeners, lost, gKeyInterceptInfoMap,
                       mReceivedKeyPress, gDeletedCompositors, mInputEventsEnabled>>

BugUnbind(S, c) == S

\* kill() keeps the client's intercept entries and clears their compositor.
Unbind(S, c) == {IF e.client = c THEN [e EXCEPT !.compositor = NoCompositor]
                                 ELSE e : e \in S}

BugFocusAfterKill(c) == gFocusedCompositor

FocusAfterKill(c) ==
    IF gFocusedCompositor.name = c THEN NoFocus ELSE gFocusedCompositor

Kill(c) ==
    /\ Listed(c)
    /\ DropFromList(c)
    /\ gDeletedCompositors' = gDeletedCompositors \cup {compositor[c]}
    /\ gKeyInterceptInfoMap' = [k \in Keys |-> Unbind(gKeyInterceptInfoMap[k], c)]
    /\ gFocusedCompositor' = FocusAfterKill(c)
    /\ sent' = NothingSent
    /\ UNCHANGED <<lost, gPendingKeyUpListeners, mReceivedKeyPress,
                   mInputEventsEnabled>>

\* The start of draw(): killed compositors are rendered once more and released.
Draw ==
    /\ gDeletedCompositors # {}
    /\ gDeletedCompositors' = {}
    /\ sent' = NothingSent
    /\ UNCHANGED <<lists, routing, mInputEventsEnabled>>

EnableInputEvents(c, enable) ==
    /\ Listed(c)
    /\ mInputEventsEnabled' = IF enable THEN mInputEventsEnabled \cup {compositor[c]}
                                        ELSE mInputEventsEnabled \ {compositor[c]}
    /\ sent' = NothingSent
    /\ UNCHANGED <<lists, routing, gDeletedCompositors>>

-----------------------------------------------------------------------------
(* Key intercepts and key listeners.                                       *)

\* addKeyIntercept is the case always = TRUE.  The client need not exist:
\* compositor[c] is then null and the entry is bound when a key arrives.
SetKeyIntercept(c, k, f, always) ==
    LET new == [client |-> c, flags |-> f, always |-> always,
                compositor |-> compositor[c]]
        old == {e \in gKeyInterceptInfoMap[k] : e.client = c /\ e.flags = f}
    IN  /\ \A e \in old : e.always # always
        /\ gKeyInterceptInfoMap' = [gKeyInterceptInfoMap EXCEPT ![k] = (@ \ old) \cup {new}]
        /\ sent' = NothingSent
        /\ UNCHANGED <<lists, gFocusedCompositor, gPendingKeyUpListeners,
                       mReceivedKeyPress, gDeletedCompositors, mInputEventsEnabled>>

\* The wildcard key first drops every entry of the client, with no key-up;
\* then the entries of key k go, those of one listed client or of everyone.
RemoveKeyIntercept(c, k, f) ==
    LET kept(j) == IF k = WildcardKey
                     THEN {e \in gKeyInterceptInfoMap[j] : e.client # c}
                     ELSE gKeyInterceptInfoMap[j]
        gone == {e \in kept(k) : /\ e.flags = f
                                 /\ c = AllClients \/ (c = e.client /\ Listed(c))}
    IN  /\ gKeyInterceptInfoMap' =
             [j \in Keys |-> IF j = k THEN kept(j) \ gone ELSE kept(j)]
        /\ gPendingKeyUpListeners' = Queue({e.compositor : e \in gone})
        /\ sent' = NothingSent
        /\ UNCHANGED <<lists, gFocusedCompositor, mReceivedKeyPress,
                       gDeletedCompositors, mInputEventsEnabled>>

RemoveAllKeyIntercepts ==
    /\ gKeyInterceptInfoMap' = [k \in Keys |-> {}]
    /\ sent' = NothingSent
    /\ UNCHANGED <<lists, gFocusedCompositor, gPendingKeyUpListeners,
                   mReceivedKeyPress, gDeletedCompositors, mInputEventsEnabled>>

ListenersAt(c, k, f) == {i \in DOMAIN keyListeners[c][k] : keyListeners[c][k][i].flags = f}

AddKeyListener(c, k, f, activate, propagate) ==
    LET info == [flags |-> f, activate |-> activate, propagate |-> propagate]
    IN  /\ Listed(c)
        /\ keyListeners' = [keyListeners EXCEPT ![c][k] =
             IF ListenersAt(c, k, f) = {}
               THEN Append(@, info)
               ELSE [i \in DOMAIN @ |-> IF i \in ListenersAt(c, k, f) THEN info ELSE @[i]]]
        /\ sent' = NothingSent
        /\ UNCHANGED <<compositorLists, compositor, lost, routing,
                       gDeletedCompositors, mInputEventsEnabled>>

RemoveKeyListener(c, k, f) ==
    /\ Listed(c)
    /\ \E i \in ListenersAt(c, k, f) :
          keyListeners' = [keyListeners EXCEPT ![c][k] = RemoveAt(@, i)]
    /\ gPendingKeyUpListeners' = Queue({compositor[c]})
    /\ sent' = NothingSent
    /\ UNCHANGED <<compositorLists, compositor, lost, gFocusedCompositor,
                   gKeyInterceptInfoMap, mReceivedKeyPress, gDeletedCompositors,
                   mInputEventsEnabled>>

\* Topmost clients keep their listeners.
RemoveAllKeyListeners ==
    /\ keyListeners' = [c \in Clients |->
         IF Contains(compositorLists["gCompositorList"], c) THEN NoListeners
                                                            ELSE keyListeners[c]]
    /\ sent' = NothingSent
    /\ UNCHANGED <<compositorLists, compositor, lost, routing,
                   gDeletedCompositors, mInputEventsEnabled>>

-----------------------------------------------------------------------------
(* Key dispatch.  One call may dispatch a press and then a release, so     *)
(* dispatch is written on a record of the state it changes.                *)

Routing == [focused   : [name : Clients \cup {NoClient}, compositor : OrNone],
            pending   : SUBSET Compositors,
            intercepts : [Keys -> SUBSET KeyInterceptInfo],
            pressed   : SUBSET Compositors,
            presses   : SUBSET Compositors,
            releases  : SUBSET Compositors]

CurrentRouting == [focused    |-> gFocusedCompositor,
                   pending    |-> gPendingKeyUpListeners,
                   intercepts |-> gKeyInterceptInfoMap,
                   pressed    |-> mReceivedKeyPress,
                   presses    |-> {},
                   releases   |-> {}]

\* RdkCompositor::onKeyPress on every object of S: the press is remembered
\* even if disabled input keeps it from Westeros.
PressOn(r, S) ==
    [r EXCEPT !.pressed = @ \cup S,
              !.presses = @ \cup (S \cap mInputEventsEnabled)]

\* RdkCompositor::onKeyRelease on every object of S: only after a press.
ReleaseOn(r, S) ==
    [r EXCEPT !.pressed = @ \ S,
              !.releases = @ \cup (S \cap r.pressed \cap mInputEventsEnabled)]

\* interceptKey binds the entries of key k whose client exists by now ...
Rebind(r, k) ==
    [r EXCEPT !.intercepts[k] =
       {IF e.compositor = NoCompositor THEN [e EXCEPT !.compositor = compositor[e.client]]
                                       ELSE e : e \in @}]

\* ... and the key is intercepted by every bound entry that matches, ...
Matching(r, k, f) ==
    {e \in r.intercepts[k] : /\ e.compositor \in mInputEventsEnabled
                             /\ e.flags = f}

\* ... but an entry that is not `always' gets it only while focused.
Interceptors(r, k, f) ==
    {e.compositor : e \in {e1 \in Matching(r, k, f) :
                             e1.always \/ e1.client = r.focused.name}}

\* evaluateKeyListeners, as a set of at most one listener: the one for these
\* flags, else the first wildcard one, else none, and the key propagates.
Listener(c, k, f) ==
    IF ListenersAt(c, k, f) # {} THEN {keyListeners[c][k][i] : i \in ListenersAt(c, k, f)}
    ELSE IF keyListeners[c][AnyKey] # <<>> THEN {Head(keyListeners[c][AnyKey])}
    ELSE {}

Activates(c, k, f) == \E info \in Listener(c, k, f) : info.activate

Propagates(c, k, f) == \A info \in Listener(c, k, f) : info.propagate

\* bubbleKey walks gCompositorList and skips disabled displays.  In the top
\* mode it starts in front and skips the focused name; otherwise it starts
\* at the focused name and the first enabled display gets no second event.
Eligible(r) ==
    LET s == compositorLists["gCompositorList"] IN
    {i \in DOMAIN s :
        /\ compositor[s[i]] \in mInputEventsEnabled
        /\ IF TopMode THEN s[i] # r.focused.name
                      ELSE \E j \in 1..i : s[j] = r.focused.name}

\* The walk ends at the first display that does not propagate the key.
Visited(r, k, f) ==
    {i \in Eligible(r) : \A j \in Eligible(r) :
        j < i => Propagates(compositorLists["gCompositorList"][j], k, f)}

Receivers(r, k, f) ==
    LET s == compositorLists["gCompositorList"] IN
    {compositor[s[i]] : i \in {j \in Visited(r, k, f) :
        /\ Listener(s[j], k, f) # {}
        /\ TopMode \/ \E h \in Eligible(r) : h < j}}

BugHandOver(r, old) == r.pending

\* Displays that lose the focus while a key is down on them are queued.
HandOver(r, old) == r.pending \cup (Objects(old) \cap r.pressed)

\* Each activating listener other than the focused client takes the focus
\* in turn, so the last one of the walk keeps it.
Activate(r, k, f) ==
    LET s == compositorLists["gCompositorList"]
        activators == {i \in Visited(r, k, f) :
                          Activates(s[i], k, f) /\ s[i] # r.focused.name}
        last == {i \in activators : \A j \in activators : j <= i}
        Info(i) == [name |-> s[i], compositor |-> compositor[s[i]]]
        losers == {r.focused.compositor} \cup {compositor[s[i]] : i \in activators \ last}
    IN  IF last = {} THEN r
        ELSE [r EXCEPT !.focused = Info(CHOOSE i \in last : TRUE),
                       !.pending = HandOver(r, losers)]

BubblePress(r, k, f) ==
    LET S == Receivers(r, k, f)
        d == PressOn(r, S)
    IN  Activate([d EXCEPT !.pending = @ \cup S], k, f)

BubbleRelease(r, k, f) == Activate(ReleaseOn(r, Receivers(r, k, f)), k, f)

\* onKeyPress past the power-key test.
Press(r, k, f) ==
    LET b == Rebind(r, k) IN
    IF Matching(b, k, f) # {} THEN PressOn(b, Interceptors(b, k, f))
    ELSE IF r.focused.compositor = NoCompositor THEN b
    ELSE BubblePress(PressOn(b, {r.focused.compositor}), k, f)

\* Every queued display gets the release, whatever key it is for.
FlushPending(r) == [ReleaseOn(r, r.pending) EXCEPT !.pending = {}]

\* onKeyRelease past the power-key test.
Release(r, k, f) ==
    LET b == Rebind(r, k) IN
    FlushPending(
      IF Matching(b, k, f) # {} THEN ReleaseOn(b, Interceptors(b, k, f))
      ELSE IF r.focused.compositor = NoCompositor THEN b
      ELSE BubbleRelease(ReleaseOn(b, {r.focused.compositor}), k, f))

SetRouting(r) ==
    /\ gFocusedCompositor' = r.focused
    /\ gPendingKeyUpListeners' = r.pending
    /\ gKeyInterceptInfoMap' = r.intercepts
    /\ mReceivedKeyPress' = r.pressed
    /\ sent' = [presses |-> r.presses, releases |-> r.releases]
    /\ UNCHANGED <<lists, gDeletedCompositors, mInputEventsEnabled>>

\* The press of a power key is skipped ...
OnKeyPress(k, f) == SetRouting(IF k \in PowerKeys THEN CurrentRouting
                                                  ELSE Press(CurrentRouting, k, f))

\* ... and made up for when it is released, unless configured release-only.
OnKeyRelease(k, f) ==
    SetRouting(Release(IF k \in PowerKeys /\ ~PowerReleaseOnly
                         THEN Press(CurrentRouting, k, f)
                         ELSE CurrentRouting, k, f))

-----------------------------------------------------------------------------
\* setVisible, setBounds and the like do not touch this state.
Display(c) ==
    \/ \E topmost, focus \in BOOLEAN :
          \/ CreateDisplay(c, topmost, focus)
          \/ LaunchApplication(c, topmost, focus)
          \/ SetTopmost(c, topmost, focus)
    \/ MoveToFront(c)
    \/ MoveToBack(c)
    \/ \E target \in Clients : MoveBehind(c, target)
    \/ SetFocus(c)
    \/ Kill(c)
    \/ \E enable \in BOOLEAN : EnableInputEvents(c, enable)

Intercept ==
    \/ \E c \in Clients, k \in Keys, f \in Flags, always \in BOOLEAN :
          SetKeyIntercept(c, k, f, always)
    \/ \E c \in Clients \cup {AllClients}, k \in Keys, f \in Flags :
          RemoveKeyIntercept(c, k, f)
    \/ RemoveAllKeyIntercepts

Listen ==
    \/ \E c \in Clients, k \in ListenKeys, f \in Flags :
          \/ \E activate, propagate \in BOOLEAN :
                AddKeyListener(c, k, f, activate, propagate)
          \/ RemoveKeyListener(c, k, f)
    \/ RemoveAllKeyListeners

KeyEvent == \E k \in Keys, f \in Flags : OnKeyPress(k, f) \/ OnKeyRelease(k, f)

Next == (\E c \in Clients : Display(c)) \/ Intercept \/ Listen \/ KeyEvent \/ Draw

Spec == Init /\ [][Next]_vars

\* run() calls draw() in every iteration of the main loop.
FairSpec == Spec /\ WF_vars(Draw)

-----------------------------------------------------------------------------
(* Properties.                                                             *)

\* A client is in one place of one list: no sequence of creations, moves and
\* changes of topmost puts a name twice into the z-order, so every lookup by
\* name finds the one display createDisplay made for it.
UniqueNames ==
    \A l1, l2 \in ListNames :
        \A i \in DOMAIN compositorLists[l1], j \in DOMAIN compositorLists[l2] :
            compositorLists[l1][i] = compositorLists[l2][j] => l1 = l2 /\ i = j

\* The z-order callers see: the topmost list, then the other one.
getZOrder == compositorLists["gTopmostCompositorList"] \o compositorLists["gCompositorList"]

Abstract == INSTANCE ZOrder
              WITH order <- getZOrder,
                   topmost <- ToSet(compositorLists["gTopmostCompositorList"])

\* Seven calls edit two lists by name, and together they keep one z-order of
\* all clients: the topmost in front, one client moved at a time to where the
\* call puts it, all others as they were.
ZOrderIsKept == Abstract!Spec

\* gFocusedCompositor is a copy, yet it is never stale: it is nobody or the
\* object listed under that name, unless moveBehind lost that object.
FocusIsManaged ==
    \/ gFocusedCompositor = NoFocus
    \/ compositor[gFocusedCompositor.name] = gFocusedCompositor.compositor
    \/ gFocusedCompositor.compositor \in lost

\* An intercept entry holds a copy too: once bound, it is bound to the
\* display listed for its client, or to a lost one, never to a killed one.
InterceptsAreManaged ==
    \A k \in Keys : \A e \in gKeyInterceptInfoMap[k] :
        e.compositor \in {NoCompositor, compositor[e.client]} \cup lost

\* A client has one intercept entry for a key and its modifiers, so a key is
\* never delivered twice to one interceptor.
OneInterceptPerClient ==
    \A k \in Keys : \A e1, e2 \in gKeyInterceptInfoMap[k] :
        e1.client = e2.client /\ e1.flags = e2.flags => e1 = e2

\* A display that kill() took out of the lists gets no press any more; only
\* the release it may still be owed.
PressOnlyToManaged == [][sent'.presses \subseteq Managed \cup lost]_vars

\* After the last frame of a killed display only the key-up queue can still
\* hold it, so it is not kept alive behind the z-order.
DeletedUnreferenced ==
    gDeletedCompositors \cap
        (Managed \cup Bound \cup {gFocusedCompositor.compositor}) = {}

\* README.md:14: an intercepted key does not go to the focused client unless
\* that one intercepts it as well.
FocusedIntercepts(r, k, f) ==
    r.focused.compositor \in Interceptors(Rebind(r, k), k, f)

InterceptedFrom(r, k, f) ==
    Matching(Rebind(r, k), k, f) # {} /\ ~FocusedIntercepts(r, k, f)

\* README.md:14: a key goes to the focused client by default and otherwise to
\* those that intercept it, so a press reaches somebody if any client is
\* focused.  The code does not keep this: an entry set with always = FALSE
\* takes the key away from the focused client without getting it either.
PressReachesSomeone ==
    [][\A k \in Keys \ PowerKeys, f \in Flags :
         (OnKeyPress(k, f) /\ gFocusedCompositor.compositor \in mInputEventsEnabled)
           => sent'.presses # {}]_vars

\* The press of a power key is made up for in the call that releases it, and
\* every display the press goes to, wherever the focus moves in between, gets
\* the release in the same call.
PowerKeyPaired ==
    [][\A k \in PowerKeys, f \in Flags :
         OnKeyRelease(k, f) => sent'.presses \subseteq sent'.releases]_vars

\* The main loop lets go of every killed display: it dies, or only the
\* key-up queue keeps it until the next release.
KilledCompositorReleased ==
    \A o \in Compositors :
        o \in gDeletedCompositors ~> (o \in gPendingKeyUpListeners \/ o \notin Referenced)

=============================================================================
