----------------------------- MODULE EasterEggs -----------------------------
(* Easter eggs of RDKShell: sequences of keys, each with its modifiers and    *)
(* how long it is held, that send an event once they have been typed.  Every  *)
(* key release advances or resets every egg (checkEasterEggs); a while after  *)
(* the last key the first egg that is complete sends its event and all start  *)
(* anew (resolveWaitingEasterEggs).                                           *)
(*                                                                            *)
(* Times are ages, how long ago something was, and stop counting at Cap,      *)
(* which is more than every time they are compared with.                      *)
(*                                                                            *)
(* Operators named Bug... are deliberate mistakes used to test that the       *)
(* properties can fail; no specification uses them.                           *)
EXTENDS Integers, SequencesExt

CONSTANTS
    Cap,            \* ages stop here
    ResolveDelay,   \* one second
    ModifierCodes,  \* the codes of ctrl, alt and shift
    EggSpecs,       \* what can be added: [name, details, timeout]
    Files           \* what the configuration file may list, <<>> if there is none

ASSUME EggAssumption ==
    /\ Cap \in Nat /\ ResolveDelay \in 0..(Cap - 1)
    /\ Files \subseteq Seq(EggSpecs)
    /\ \A spec \in EggSpecs :
          /\ Len(spec.details) \in Nat \ {0}
          /\ spec.timeout \in 0..(Cap - 1)

VARIABLES
    sEasterEggs,            \* sequence of eggs, the longest first
    sMatchedAnyEasterEgg,
    sEasterEggResolveTime,  \* age of the key that set it, while the flag is set
    egg                     \* the event sent by the last step, or NoEgg

eggVars == <<sEasterEggs, sMatchedAnyEasterEgg, sEasterEggResolveTime, egg>>

NoEgg == "none"

Ages == 0..Cap

\* The sum of two ages
Together(age, other) == IF age + other < Cap THEN age + other ELSE Cap

Older(age) == Together(age, 1)

-----------------------------------------------------------------------------
NewEgg(spec) ==
    [name |-> spec.name, details |-> spec.details, timeout |-> spec.timeout,
     mCurrentKeyIndex |-> 1, mTotalUsedTime |-> 0, mSatisfied |-> FALSE]

Reset(e) == [e EXCEPT !.mCurrentKeyIndex = 1, !.mTotalUsedTime = 0, !.mSatisfied = FALSE]

KeyMatches(detail, key, flags, time) ==
    /\ detail.keyCode = key
    /\ (detail.keyModifiers = {} /\ flags = {}) \/ detail.keyModifiers \cap flags # {}
    /\ detail.keyHoldTime <= time

\* A key that does not match leaves the egg where it got.
BugCheckKey(e, key, flags, time) ==
    LET used == Together(e.mTotalUsedTime, time)
        last == e.mCurrentKeyIndex = Len(e.details)
    IN  IF KeyMatches(e.details[e.mCurrentKeyIndex], key, flags, time) /\ used <= e.timeout
        THEN [e EXCEPT !.mCurrentKeyIndex = IF last THEN 1 ELSE @ + 1,
                       !.mTotalUsedTime = IF last THEN 0 ELSE used,
                       !.mSatisfied = @ \/ last]
        ELSE [e EXCEPT !.mSatisfied = FALSE]

\* A complete sequence is not started anew.
BugComplete(e, key, flags, time) ==
    LET used == Together(e.mTotalUsedTime, time)
        last == e.mCurrentKeyIndex = Len(e.details)
    IN  IF KeyMatches(e.details[e.mCurrentKeyIndex], key, flags, time) /\ used <= e.timeout
        THEN [e EXCEPT !.mCurrentKeyIndex = IF last THEN 1 ELSE @ + 1,
                       !.mTotalUsedTime = used,
                       !.mSatisfied = @ \/ (last /\ used < e.timeout)]
        ELSE Reset(e)

\* EasterEgg::checkKey()
CheckKey(e, key, flags, time) ==
    LET used == Together(e.mTotalUsedTime, time)
        last == e.mCurrentKeyIndex = Len(e.details)
    IN  IF KeyMatches(e.details[e.mCurrentKeyIndex], key, flags, time) /\ used <= e.timeout
        THEN [e EXCEPT !.mCurrentKeyIndex = IF last THEN 1 ELSE @ + 1,
                       !.mTotalUsedTime = IF last THEN 0 ELSE used,
                       !.mSatisfied = @ \/ last]
        ELSE Reset(e)

\* checkKey() completed the egg with this key.
Completed(e, key, flags, time) ==
    /\ e.mCurrentKeyIndex = Len(e.details)
    /\ KeyMatches(e.details[e.mCurrentKeyIndex], key, flags, time)
    /\ Together(e.mTotalUsedTime, time) <= e.timeout

\* Modifier keys are not part of a sequence.
CheckEasterEggs(key, flags, time) ==
    IF key \in ModifierCodes
    THEN UNCHANGED <<sEasterEggs, sMatchedAnyEasterEgg, sEasterEggResolveTime>>
    ELSE /\ sEasterEggs' = [i \in DOMAIN sEasterEggs |-> CheckKey(sEasterEggs[i], key, flags, time)]
         /\ sMatchedAnyEasterEgg' =
               (\/ sMatchedAnyEasterEgg
                \/ \E i \in DOMAIN sEasterEggs : Completed(sEasterEggs[i], key, flags, time))
         /\ sEasterEggResolveTime' = 0

Satisfied(eggs) == {i \in DOMAIN eggs : eggs[i].mSatisfied}

ToResolve == sMatchedAnyEasterEgg /\ sEasterEggResolveTime > ResolveDelay

\* resolveWaitingEasterEggs()
ResolveWaitingEasterEggs ==
    IF ToResolve
    THEN /\ egg' = IF Satisfied(sEasterEggs) = {} THEN NoEgg
                   ELSE sEasterEggs[Min(Satisfied(sEasterEggs))].name
         /\ sEasterEggs' = [i \in DOMAIN sEasterEggs |-> Reset(sEasterEggs[i])]
         /\ sMatchedAnyEasterEgg' = FALSE
         /\ sEasterEggResolveTime' = 0
    ELSE egg' = NoEgg /\ UNCHANGED <<sEasterEggs, sMatchedAnyEasterEgg, sEasterEggResolveTime>>

-----------------------------------------------------------------------------
\* One more egg, in front of those that are not longer.
Placed(sorted, e) ==
    LET longer(i) == Len(sorted[i].details) > Len(e.details)
    IN  InsertAt(sorted, CHOOSE p \in 1..(Len(sorted) + 1) : /\ \A i \in 1..(p - 1) : longer(i)
                                                             /\ \A i \in p..Len(sorted) : ~longer(i), e)

\* std::sort() with compareKeySize(), which puts an egg in front of those that
\* are not longer, so that every sort turns eggs of one length round.
SortEggs(eggs) ==
    LET sorted[n \in 0..Len(eggs)] == IF n = 0 THEN <<>> ELSE Placed(sorted[n - 1], eggs[n])
    IN  sorted[Len(eggs)]

\* The new egg stays where it was put.
BugAddEasterEgg(spec) ==
    /\ sEasterEggs' = Append(sEasterEggs, NewEgg(spec))
    /\ UNCHANGED <<sMatchedAnyEasterEgg, sEasterEggResolveTime>>

AddEasterEgg(spec) ==
    /\ sEasterEggs' = SortEggs(Append(sEasterEggs, NewEgg(spec)))
    /\ UNCHANGED <<sMatchedAnyEasterEgg, sEasterEggResolveTime>>

\* The first egg of that name
RemoveEasterEgg(name) ==
    LET named == {i \in DOMAIN sEasterEggs : sEasterEggs[i].name = name}
    IN  /\ sEasterEggs' = SortEggs(IF named = {} THEN sEasterEggs
                                   ELSE RemoveAt(sEasterEggs, Min(named)))
        /\ UNCHANGED <<sMatchedAnyEasterEgg, sEasterEggResolveTime>>

\* populateEasterEggDetails()
InitEggs ==
    /\ \E file \in Files : sEasterEggs = SortEggs([i \in DOMAIN file |-> NewEgg(file[i])])
    /\ sMatchedAnyEasterEgg = FALSE
    /\ sEasterEggResolveTime = 0
    /\ egg = NoEgg

EggsAge == sEasterEggResolveTime' = IF sMatchedAnyEasterEgg THEN Older(sEasterEggResolveTime) ELSE 0

=============================================================================
