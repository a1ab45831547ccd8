----------------------------- MODULE MCBubbleKey -----------------------------
(* BubbleKey over stacks of three clients with one client topmost, in both   *)
(* builds: RDKSHELL_ENABLE_KEYBUBBING_TOP_MODE on and off.                   *)
EXTENDS CompositorController

VARIABLES call, walk, topMode

TopModeBuild   == INSTANCE BubbleKey WITH TopMode <- TRUE
FocusModeBuild == INSTANCE BubbleKey WITH TopMode <- FALSE

\* The stack and its objects are fixed by a choice: all names are alike.
Stack == CHOOSE s \in [1..3 -> Clients] : \A i, j \in 1..3 : s[i] = s[j] => i = j

Object == CHOOSE o \in [Clients -> Compositors] :
              \A c, d \in Clients : o[c] = o[d] => c = d

MCInit ==
    /\ topMode \in BOOLEAN
    /\ TopModeBuild!Stacked(Stack, CHOOSE c \in Clients : \A i \in 1..3 : Stack[i] # c, Object)

MCNext ==
    /\ \/ topMode /\ TopModeBuild!BubbleNext
       \/ ~topMode /\ FocusModeBuild!BubbleNext
    /\ UNCHANGED topMode

MCSpec == MCInit /\ [][MCNext]_<<vars, call, walk, topMode>>

\* In both builds every walk of bubbleKey ends as CompositorController says.
WalkIsOneStep ==
    [][IF topMode THEN TopModeBuild!OneStep ELSE FocusModeBuild!OneStep]_vars

=============================================================================
