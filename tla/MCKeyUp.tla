------------------------------ MODULE MCKeyUp ------------------------------
(* KeyUp in both builds: RDKSHELL_ENABLE_KEYBUBBING_TOP_MODE on (TopMode,  *)
(* in the .cfg) and off.  Its properties do not depend on the build.       *)
EXTENDS KeyUp

CONSTANT MaxSettings

VARIABLE topMode

FocusModeBuild == INSTANCE KeyUp WITH TopMode <- FALSE

Entries == UNION {{<<k, e.flags, e>> : e \in gKeyInterceptInfoMap[k]} : k \in Keys}

Listeners ==
    UNION {{<<c, keyListeners[c][AnyKey][i].flags, i>> : i \in DOMAIN keyListeners[c][AnyKey]} :
              c \in Clients}

Settings == Cardinality(Entries \cup Listeners) + Cardinality(Compositors \ mInputEventsEnabled)

ModifiersMet == {h.flags : h \in held} \cup {x[2] : x \in Entries \cup Listeners}

\* The bound on intercept entries, key listeners and displays without input
\* events in all: MaxSettings, one less if not all have the same modifiers.
WithinBound ==
    \/ Settings < MaxSettings
    \/ Settings = MaxSettings /\ Cardinality(ModifiersMet) <= 1

MCInit == topMode \in BOOLEAN /\ KeyUpInit

MCNext ==
    /\ \/ topMode /\ KeyUpNext
       \/ ~topMode /\ FocusModeBuild!KeyUpNext
    /\ UNCHANGED topMode
    /\ \/ UNCHANGED <<held, gKeyInterceptInfoMap, keyListeners, mInputEventsEnabled>>
       \/ WithinBound'

MCSpec == MCInit /\ [][MCNext]_<<vars, held, topMode>>

Symmetry ==
    UNION {Permutations(S) : S \in {Clients, Compositors, Keys, Flags}}

=============================================================================
