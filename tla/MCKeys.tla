------------------------------- MODULE MCKeys -------------------------------
(* CompositorController with keys.  The full next-state relation has too     *)
(* many registrations to enumerate, so a behaviour has either only           *)
(* intercepts, for keys other than the removal wildcard, or only listeners   *)
(* beside a power key; displays come, go, move and take the focus in both.   *)
(* Input is enabled and disabled beside the intercepts only.                 *)
EXTENDS CompositorController

VARIABLE part   \* "intercepts" or "listeners", for good

Displays == (\E c \in Clients : Display(c)) \/ Draw

Intercepts ==
    \/ \E c \in Clients, k \in Keys \ (PowerKeys \cup {WildcardKey}), f \in Flags,
          always \in BOOLEAN : SetKeyIntercept(c, k, f, always)
    \/ \E c \in Clients \cup {AllClients}, k \in Keys \ PowerKeys, f \in Flags :
          RemoveKeyIntercept(c, k, f)
    \/ RemoveAllKeyIntercepts

KeyEventOf(S) == \E k \in S, f \in Flags : OnKeyPress(k, f) \/ OnKeyRelease(k, f)

MCInit == Init /\ part \in {"intercepts", "listeners"}

MCNext ==
    \/ /\ part = "intercepts"
       /\ Displays \/ Intercepts \/ KeyEventOf(Keys \ PowerKeys)
    \/ /\ part = "listeners"
       /\ \/ Displays /\ UNCHANGED mInputEventsEnabled
          \/ Listen
          \/ KeyEventOf(Keys \ {WildcardKey})

MCSpec == MCInit /\ [][MCNext /\ UNCHANGED part]_<<vars, part>>

Symmetry == Permutations(Clients) \cup Permutations(Compositors)

=============================================================================
