----------------------------- MODULE KeyHistory -----------------------------
(***************************************************************************)
(* CompositorController with a record of which displays were sent the last *)
(* press of every key, to tell a release a display is owed from the        *)
(* release of a key it never saw.                                          *)
(***************************************************************************)
EXTENDS CompositorController

VARIABLE pressedTo   \* for every key, the displays its last press was sent to

historyVars == <<vars, pressedTo>>

HistoryInit == Init /\ pressedTo = [k \in Keys |-> {}]

PressKey(k, f) ==
    /\ OnKeyPress(k, f)
    /\ pressedTo' = [pressedTo EXCEPT ![k] = sent'.presses]

OtherCall ==
    /\ \/ \E c \in Clients : Display(c)
       \/ Intercept
       \/ Draw
       \/ \E k \in Keys, f \in Flags : OnKeyRelease(k, f)
    /\ UNCHANGED pressedTo

HistoryNext == OtherCall \/ \E k \in Keys, f \in Flags : PressKey(k, f)

HistorySpec == HistoryInit /\ [][HistoryNext]_historyVars

\* README.md:14: an intercepted key does not go to the focused client unless
\* that one intercepts it as well.  Read for the release of a key whose press
\* was kept from the focused client too.  The code does not keep it: a client
\* that lost and regained the focus while one key was down is in the key-up
\* queue, and the release of any other key is flushed to it, intercepted or not.
InterceptedKeyNotReleasedToFocused ==
    [][\A k \in Keys, f \in Flags :
         (/\ OnKeyRelease(k, f)
          /\ InterceptedFrom(CurrentRouting, k, f)
          /\ gFocusedCompositor.compositor \notin pressedTo[k])
           => gFocusedCompositor.compositor \notin sent'.releases]_historyVars

Symmetry == Permutations(Clients) \cup Permutations(Compositors)

=============================================================================
