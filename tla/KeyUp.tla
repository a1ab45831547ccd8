------------------------------- MODULE KeyUp -------------------------------
(***************************************************************************)
(* Who is owed a key release.  CompositorController routes a press and its *)
(* release separately, by the focus, intercepts and listeners of the       *)
(* moment; gPendingKeyUpListeners is there so that a display that saw the  *)
(* press also sees the release.  This module adds the keyboard: any keys   *)
(* are down together, they repeat, and the modifiers change while a key is *)
(* down only if no intercept of that key tells the difference.  While keys *)
(* are down, only calls happen that the code queues key-ups for or that    *)
(* cannot change who gets their releases.  A client moved behind itself is *)
(* left out: its display is lost with the focus and the name may be used   *)
(* again, and then a key can stick.                                        *)
(* A display remembers one press for all keys, mReceivedKeyPress: that is  *)
(* what `believes that a key is down' means below.                         *)
(***************************************************************************)
EXTENDS CompositorController

VARIABLE held     \* the keys that are down, with the modifiers of their last press

keyUpVars == <<vars, held>>

Down == {h.keycode : h \in held}

OtherKeys(k) == {h \in held : h.keycode # k}

\* The route of the key is the same with these modifiers as with those.
InterceptedAlike(k, f, g) == \A e \in gKeyInterceptInfoMap[k] : e.flags = f <=> e.flags = g

KeyUpInit == Init /\ held = {}

PressKey ==
    \E k \in Keys, f \in Flags :
        /\ \A h \in held : h.keycode = k => InterceptedAlike(k, h.flags, f)
        /\ OnKeyPress(k, f)
        /\ held' = OtherKeys(k) \cup {[keycode |-> k, flags |-> f]}

ReleaseKey ==
    \E h \in held, f \in Flags :
        /\ InterceptedAlike(h.keycode, h.flags, f)
        /\ OnKeyRelease(h.keycode, f)
        /\ held' = OtherKeys(h.keycode)

\* Calls that may come at any time.  A display created without taking the
\* focus, and with no intercept entry waiting for it, changes no routing.
AnyTimeCall ==
    \/ \E c \in Clients :
          \/ SetFocus(c)
          \/ Kill(c)
          \/ MoveToFront(c)
          \/ MoveToBack(c)
          \/ \E target \in Clients \ {c} : MoveBehind(c, target)
          \/ \E topmost, focus \in BOOLEAN : SetTopmost(c, topmost, focus)
          \/ /\ \A k \in Keys : \A e \in gKeyInterceptInfoMap[k] : e.client # c
             /\ \E topmost, focus \in BOOLEAN :
                   \/ CreateDisplay(c, topmost, focus)
                   \/ LaunchApplication(c, topmost, focus)
             /\ UNCHANGED gFocusedCompositor
    \/ \E c \in Clients \cup {AllClients}, k \in Keys \ {WildcardKey}, f \in Flags :
          RemoveKeyIntercept(c, k, f)
    \/ \E c \in Clients, k \in Keys \ Down, f \in Flags, always \in BOOLEAN :
          SetKeyIntercept(c, k, f, always)
    \/ Listen
    \/ Draw

\* Calls that take the route of a held key away without queueing a key-up: a
\* display created with the focus, an intercept set or dropped wholesale,
\* input events switched off.
IdleCall ==
    \/ \E c \in Clients, topmost, focus \in BOOLEAN :
          CreateDisplay(c, topmost, focus) \/ LaunchApplication(c, topmost, focus)
    \/ \E c \in Clients, enable \in BOOLEAN : EnableInputEvents(c, enable)
    \/ Intercept

KeyUpNext ==
    \/ PressKey
    \/ ReleaseKey
    \/ AnyTimeCall /\ UNCHANGED held
    \/ held = {} /\ IdleCall /\ UNCHANGED held

KeyUpSpec == KeyUpInit /\ [][KeyUpNext]_keyUpVars

\* No stuck keys: when the keyboard is idle, no display in the z-order still
\* believes a key is down, whatever focus changes, activations, kills and
\* removals happened between the presses and the releases of any keys.
NoStuckKey == held = {} => mReceivedKeyPress \cap Managed = {}

\* Where the release of a key that is down goes as things are.
ReleasedTo(h) ==
    LET r == Rebind(CurrentRouting, h.keycode)
    IN  IF Matching(r, h.keycode, h.flags) # {}
        THEN Interceptors(r, h.keycode, h.flags)
        ELSE {gFocusedCompositor.compositor}

\* Every display that believes a key is down is owed a release: it is queued,
\* or it is where the release of one of the keys that are down will go.
OwedRelease ==
    mReceivedKeyPress \cap Managed \subseteq
        gPendingKeyUpListeners \cup UNION {ReleasedTo(h) : h \in held}

=============================================================================
