------------------------------ MODULE BubbleKey ------------------------------
(***************************************************************************)
(* bubbleKey (compositorcontroller.cpp) as the loop it is, one display per  *)
(* step.  CompositorController gives the outcome of the walk in one step    *)
(* (BubblePress, BubbleRelease); here the walk delivers the key, queues     *)
(* key-ups and hands the focus over while it is under way, and every walk   *)
(* must end with that outcome.                                              *)
(***************************************************************************)
EXTENDS CompositorController

VARIABLES
    call,   \* the arguments of the call
    walk    \* its locals: position, isFocusedCompositor and the routing so far

bubbleVars == <<vars, call, walk>>

list == compositorLists["gCompositorList"]

Idle == [at |-> 0]

\* The states the walk starts from: the clients of a stack in gCompositorList
\* and one in the topmost list; any listener, at most one display disabled, any
\* focus, and the focused display has the key's press or has not.
Stacked(stack, topmost, object) ==
    /\ compositorLists = [l \in ListNames |-> IF l = "gCompositorList" THEN stack
                                                                        ELSE <<topmost>>]
    /\ compositor = object
    /\ \E listener \in [Clients -> {<<>>} \cup {<<i>> : i \in KeyListenerInfo}] :
          /\ listener[topmost] = <<>>
          /\ keyListeners = [c \in Clients |-> [k \in Keys \cup {AnyKey} |->
                                                  IF k = AnyKey THEN <<>> ELSE listener[c]]]
    /\ \E c \in Clients : gFocusedCompositor = [name |-> c, compositor |-> object[c]]
    /\ \E disabled \in SUBSET Compositors :
          /\ Cardinality(disabled) <= 1
          /\ mInputEventsEnabled = Compositors \ disabled
    /\ gPendingKeyUpListeners = {}
    /\ gDeletedCompositors = {}
    /\ gKeyInterceptInfoMap = [k \in Keys |-> {}]
    /\ mReceivedKeyPress \in {{}, {gFocusedCompositor.compositor}}
    /\ lost = {}
    /\ sent = NothingSent
    /\ call \in [keycode : Keys, flags : Flags, isPressed : {FALSE}]
    /\ walk = Idle

\* Where the loop starts: in front, or at the focused name (past the end if
\* that is not listed).
Begin == IF TopMode THEN 1
         ELSE IF Contains(list, gFocusedCompositor.name)
                THEN IndexOf(list, gFocusedCompositor.name)
                ELSE Len(list) + 1

BubbleKey(k, f, isPressed) ==
    /\ walk = Idle
    /\ call' = [keycode |-> k, flags |-> f, isPressed |-> isPressed]
    /\ walk' = [at |-> Begin, isFocusedCompositor |-> ~TopMode, r |-> CurrentRouting]
    /\ UNCHANGED vars

Here == list[walk.at]

Skipped == \/ compositor[Here] \notin mInputEventsEnabled
           \/ TopMode /\ Here = gFocusedCompositor.name

Skip ==
    /\ walk.at \in DOMAIN list
    /\ Skipped
    /\ walk' = [walk EXCEPT !.at = @ + 1]
    /\ UNCHANGED <<vars, call>>

\* A found listener gets the key, except on the display the walk began at.
Deliver(r) ==
    LET o == compositor[Here] IN
    IF walk.isFocusedCompositor \/ Listener(Here, call.keycode, call.flags) = {} THEN r
    ELSE IF call.isPressed THEN [PressOn(r, {o}) EXCEPT !.pending = @ \cup {o}]
    ELSE ReleaseOn(r, {o})

BugTakeFocus(r) ==
    IF Activates(Here, call.keycode, call.flags)
      THEN [r EXCEPT !.focused = [name |-> Here, compositor |-> compositor[Here]]]
      ELSE r

\* An activating listener takes the focus; the display it takes it from is
\* queued if a key is down on it.
TakeFocus(r) ==
    IF Activates(Here, call.keycode, call.flags) /\ r.focused.name # Here
      THEN [r EXCEPT !.focused = [name |-> Here, compositor |-> compositor[Here]],
                     !.pending = HandOver(r, {r.focused.compositor})]
      ELSE r

Visit ==
    /\ walk.at \in DOMAIN list
    /\ ~Skipped
    /\ walk' = [at |-> IF Propagates(Here, call.keycode, call.flags) THEN walk.at + 1
                                                                   ELSE Len(list) + 1,
                isFocusedCompositor |-> FALSE,
                r |-> TakeFocus(Deliver(walk.r))]
    /\ UNCHANGED <<vars, call>>

Return ==
    /\ walk # Idle
    /\ walk.at \notin DOMAIN list
    /\ SetRouting(walk.r)
    /\ walk' = Idle
    /\ UNCHANGED call

BubbleNext ==
    \/ \E k \in Keys, f \in Flags, isPressed \in BOOLEAN : BubbleKey(k, f, isPressed)
    \/ Skip
    \/ Visit
    \/ Return

\* Every walk, over any stack, listeners and focus, ends with the outcome that
\* CompositorController gives it in one step: the same displays get the key,
\* the same key-ups are queued and the last activating listener has the focus,
\* although the focus moves while the walk goes on.
OneStep ==
    SetRouting(IF call.isPressed
                 THEN BubblePress(CurrentRouting, call.keycode, call.flags)
                 ELSE BubbleRelease(CurrentRouting, call.keycode, call.flags))

WalkIsOneStep == [][OneStep]_vars

=============================================================================
