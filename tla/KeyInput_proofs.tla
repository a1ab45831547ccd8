-------------------------- MODULE KeyInput_proofs --------------------------
(* Theorems about KeyInput, for any keys, codes, mapping, settings, easter    *)
(* eggs and times: what is repeated is held, and who is reported inactive is  *)
(* idle; and an easter egg sends its event when it has been typed.            *)
EXTENDS KeyInput, SequenceLemmas

\* The deadline is never earlier than the last key and the interval say.
IdleInv ==
    /\ gLastKeyEventTime \in Ages
    /\ waited \in Ages
    /\ gInactivityIntervalInSeconds \in Intervals
    /\ waited <= gLastKeyEventTime

\* While a key is timed and nothing has disturbed it, the last key is held, and
\* inputs are not ignored.
HeldInv ==
    (gLastKeyPressStartTime # Never /\ ~disturbed)
       => /\ ~mKeyInputsIgnored
          /\ \E key \in held : KeyCodeFromWayland(key, {}).code = gLastKeyCode

-----------------------------------------------------------------------------
(* Ages.                                                                      *)

\* An age stays one, and older than a lower one.
LEMMA OlderAges ==
    ASSUME NEW age \in Ages, NEW other \in Ages, age <= other
    PROVE  /\ Older(age) \in Ages /\ Older(other) \in Ages
           /\ Older(age) <= Older(other)
BY EggAssumption DEF Ages, Older, Together

\* The code of a key does not depend on the modifiers.
LEMMA CodeOfKey ==
    ASSUME NEW key, NEW flags, NEW other
    PROVE  KeyCodeFromWayland(key, flags).code = KeyCodeFromWayland(key, other).code
BY DEF KeyCodeFromWayland

-----------------------------------------------------------------------------
(* Who is reported is idle.                                                   *)

\* No time has passed.
LEMMA InitIdle == Init => IdleInv /\ InactiveMeansIdle
BY EggAssumption DEF Init, Ages, IdleInv, InactiveMeansIdle

\* Only the clock, a key, a report and a call that sets the deadline matter.
LEMMA NextIdle == IdleInv /\ InactiveMeansIdle /\ [Next]_vars => IdleInv' /\ InactiveMeansIdle'
<1> SUFFICES ASSUME IdleInv, InactiveMeansIdle, [Next]_vars
             PROVE  IdleInv' /\ InactiveMeansIdle'
    OBVIOUS
<1>0. 0 \in Ages
    BY EggAssumption DEF Ages
<1> USE DEF IdleInv, InactiveMeansIdle, settings, inactivity, NoEvent, KeyEvent, NoKeyEvent
<1>1. ASSUME NEW key \in Keys, Press(key) PROVE IdleInv' /\ InactiveMeansIdle'
    BY <1>0, <1>1 DEF Press
<1>2. ASSUME NEW key \in Keys, Release(key) PROVE IdleInv' /\ InactiveMeansIdle'
    BY <1>0, <1>2 DEF Release
<1>3. ASSUME NEW ignore \in BOOLEAN, IgnoreKeyInputs(ignore) PROVE IdleInv' /\ InactiveMeansIdle'
    BY <1>3 DEF IgnoreKeyInputs
<1>4. ASSUME NEW code \in GeneratedCodes, NEW duration \in Durations, GenerateKey(code, duration)
      PROVE  IdleInv' /\ InactiveMeansIdle'
    BY <1>0, <1>4 DEF GenerateKey
<1>5. ASSUME NEW enable \in BOOLEAN, SetKeyRepeats(enable) \/ EnableInactivityReporting(enable)
      PROVE  IdleInv' /\ InactiveMeansIdle'
    BY <1>5 DEF SetKeyRepeats, EnableInactivityReporting, Setting
<1>6. ASSUME NEW config \in RepeatConfigs, SetKeyRepeatConfig(config)
      PROVE  IdleInv' /\ InactiveMeansIdle'
    BY <1>6 DEF SetKeyRepeatConfig, Setting
<1>7. ASSUME NEW interval \in Intervals, SetInactivityInterval(interval)
      PROVE  IdleInv' /\ InactiveMeansIdle'
    BY <1>7 DEF SetInactivityInterval, Ages
<1>8. CASE ResetInactivityTime
    BY <1>0, <1>8 DEF ResetInactivityTime
<1>9. CASE ChangeEasterEggs
    BY <1>9 DEF ChangeEasterEggs
<1>10. CASE Update
    <2>1. Report /\ UNCHANGED gInactivityIntervalInSeconds
        BY <1>10 DEF Update
    <2>2. gInactivityIntervalInSeconds \in Int /\ gLastKeyEventTime \in Int /\ waited \in Int
        BY EggAssumption, KeyAssumption DEF Ages, Times
    <2>3. IdleInv'
        BY <1>0, <2>1, <2>2 DEF Report, Ages
    <2>4. ASSUME reported' PROVE gLastKeyEventTime' > gInactivityIntervalInSeconds'
        <3>1. waited > gInactivityIntervalInSeconds /\ ~(Repeats \/ Due # <<>>)
            BY <2>1, <2>4, Zenon DEF Report
        <3>2. gLastKeyEventTime' = gLastKeyEventTime
            BY <2>1, <3>1 DEF Report
        <3> QED BY <2>1, <2>2, <3>1, <3>2
    <2> QED BY <2>3, <2>4
<1>11. CASE Tick
    BY <1>11, OlderAges DEF Tick
<1>12. CASE UNCHANGED vars
    BY <1>12 DEF vars
<1> QED BY <1>1, <1>2, <1>3, <1>4, <1>5, <1>6, <1>7, <1>8, <1>9, <1>10, <1>11, <1>12 DEF Next

\* A user is reported inactive only when no key has come for longer than the
\* interval: the deadline of compositorcontroller.cpp's update(), an absolute
\* time set by five calls, is never early.
THEOREM ReportedIsIdle == Spec => []InactiveMeansIdle
<1>1. Init => IdleInv /\ InactiveMeansIdle
    BY InitIdle
<1>2. IdleInv /\ InactiveMeansIdle /\ [Next]_vars => (IdleInv /\ InactiveMeansIdle)'
    BY NextIdle
<1> QED BY <1>1, <1>2, PTL DEF Spec

-----------------------------------------------------------------------------
(* What is repeated is held.                                                  *)

\* No key is timed.
LEMMA InitHeld == Init => HeldInv
BY DEF Init, HeldInv

\* A press makes the last key one that is held; a release ends the timing; a
\* generated key, in a call or a frame, and ignoring inputs disturb it.
LEMMA NextHeld == HeldInv /\ [Next]_vars => HeldInv'
<1> SUFFICES ASSUME HeldInv, [Next]_vars PROVE HeldInv'
    OBVIOUS
<1> USE DEF HeldInv, settings, timers, NoKeyEvent
<1>1. ASSUME NEW key \in Keys, Press(key) PROVE HeldInv'
    <2>1. CASE mKeyInputsIgnored
        BY <1>1, <2>1 DEF Press
    <2>2. CASE ~mKeyInputsIgnored
        <3>1. /\ gLastKeyCode' = KeyCodeFromWayland(key, Flags(held')).code
              /\ key \in held'
              /\ ~mKeyInputsIgnored'
            BY <1>1, <2>2 DEF Press, KeyEvent
        <3>2. KeyCodeFromWayland(key, {}).code = gLastKeyCode'
            BY <3>1, CodeOfKey
        <3> QED BY <3>1, <3>2 DEF KeyCodeFromWayland
    <2> QED BY <2>1, <2>2
<1>2. ASSUME NEW key \in Keys, Release(key) PROVE HeldInv'
    BY <1>2 DEF Release
<1>3. ASSUME NEW ignore \in BOOLEAN, IgnoreKeyInputs(ignore) PROVE HeldInv'
    BY <1>3 DEF IgnoreKeyInputs, KeyCodeFromWayland
<1>4. ASSUME NEW code \in GeneratedCodes, NEW duration \in Durations, GenerateKey(code, duration)
      PROVE  HeldInv'
    BY <1>4 DEF GenerateKey
<1>5. ASSUME NEW enable \in BOOLEAN, SetKeyRepeats(enable) \/ EnableInactivityReporting(enable)
      PROVE  HeldInv'
    BY <1>5 DEF SetKeyRepeats, EnableInactivityReporting, Setting, KeyCodeFromWayland
<1>6. ASSUME NEW config \in RepeatConfigs, SetKeyRepeatConfig(config) PROVE HeldInv'
    BY <1>6 DEF SetKeyRepeatConfig, Setting, KeyCodeFromWayland
<1>7. ASSUME NEW interval \in Intervals, SetInactivityInterval(interval) PROVE HeldInv'
    BY <1>7 DEF SetInactivityInterval, KeyCodeFromWayland
<1>8. CASE ResetInactivityTime
    BY <1>8 DEF ResetInactivityTime, KeyCodeFromWayland
<1>9. CASE ChangeEasterEggs
    BY <1>9 DEF ChangeEasterEggs, KeyCodeFromWayland
<1>10. CASE Update
    <2>1. CASE Due = <<>>
        BY <1>10, <2>1 DEF Update, KeyCodeFromWayland
    <2>2. CASE Due # <<>>
        BY <1>10, <2>2 DEF Update
    <2> QED BY <2>1, <2>2
<1>11. CASE Tick
    <2>1. gLastKeyPressStartTime' # Never => gLastKeyPressStartTime # Never
        BY <1>11 DEF Tick, AgeOf
    <2>2. UNCHANGED <<held, mKeyInputsIgnored, gLastKeyCode, disturbed>>
        BY <1>11 DEF Tick
    <2> QED BY <2>1, <2>2 DEF KeyCodeFromWayland
<1>12. CASE UNCHANGED vars
    BY <1>12 DEF vars, KeyCodeFromWayland
<1> QED BY <1>1, <1>2, <1>3, <1>4, <1>5, <1>6, <1>7, <1>8, <1>9, <1>10, <1>11, <1>12 DEF Next

\* The key that updateKeyRepeat() sends again is held, whatever keys have been
\* pressed and released since, unless it was overtaken by a generated key or
\* inputs were ignored meanwhile.
THEOREM RepeatedIsHeld == Spec => []RepeatedKeyIsHeld
<1>1. HeldInv => RepeatedKeyIsHeld
    BY DEF HeldInv, RepeatedKeyIsHeld, Repeats
<1> QED BY <1>1, InitHeld, NextHeld, PTL DEF Spec

-----------------------------------------------------------------------------
(* Eggs.                                                                      *)

\* The states of the eggs that can be added
EggsOf(spec) ==
    [name : {spec.name}, details : {spec.details}, timeout : {spec.timeout},
     mCurrentKeyIndex : 1..Len(spec.details), mTotalUsedTime : Ages, mSatisfied : BOOLEAN]

Eggs == UNION {EggsOf(spec) : spec \in EggSpecs}

\* An egg is what its name says, at one of its keys.
LEMMA EggFields ==
    ASSUME NEW e \in Eggs
    PROVE  /\ SpecNamed(e.name) \in EggSpecs
           /\ SpecNamed(e.name).details = e.details
           /\ SpecNamed(e.name).timeout = e.timeout
           /\ Len(e.details) \in Nat \ {0}
           /\ e.timeout \in 0..(Cap - 1)
           /\ e.mCurrentKeyIndex \in 1..Len(e.details)
           /\ e.mTotalUsedTime \in Ages
           /\ e.mSatisfied \in BOOLEAN
<1>1. PICK spec \in EggSpecs : e \in EggsOf(spec)
    BY DEF Eggs
<1>2. SpecNamed(e.name) = spec
    <2>1. spec.name = e.name
        BY <1>1 DEF EggsOf
    <2>2. \A other \in EggSpecs : other.name = e.name => other = spec
        BY <2>1, HistoryAssumption
    <2> QED BY <2>1, <2>2 DEF SpecNamed
<1>3. /\ e.details = spec.details /\ e.timeout = spec.timeout
      /\ e.mCurrentKeyIndex \in 1..Len(spec.details)
      /\ e.mTotalUsedTime \in Ages /\ e.mSatisfied \in BOOLEAN
    BY <1>1 DEF EggsOf
<1> QED BY <1>2, <1>3, EggAssumption

\* One that is added is where it starts.
LEMMA NewEggStarts ==
    ASSUME NEW spec \in EggSpecs
    PROVE  NewEgg(spec) \in Eggs /\ NewEgg(spec) = Reset(NewEgg(spec))
<1>1. 1 \in 1..Len(spec.details) /\ 0 \in Ages
    BY EggAssumption DEF Ages
<1>2. NewEgg(spec) \in EggsOf(spec)
    BY <1>1 DEF NewEgg, EggsOf
<1> DEFINE e == NewEgg(spec)
<1>3. e.mCurrentKeyIndex = 1 /\ e.mTotalUsedTime = 0 /\ e.mSatisfied = FALSE
    BY DEF NewEgg
<1> HIDE DEF e
<1>4. e = Reset(e)
    BY <1>2, <1>3 DEF Reset, EggsOf, e
<1> QED BY <1>2, <1>4 DEF Eggs, e

\* This key brings the egg on.
Advances(e, key, flags, time) ==
    /\ KeyMatches(e.details[e.mCurrentKeyIndex], key, flags, time)
    /\ Together(e.mTotalUsedTime, time) <= e.timeout

LEMMA AgesAddUp ==
    ASSUME NEW age \in Ages, NEW other \in Ages
    PROVE  Together(age, other) \in Ages /\ age <= Together(age, other)
BY EggAssumption DEF Ages, Together

\* What checkKey() makes of an egg
LEMMA CheckKeyEffect ==
    ASSUME NEW e \in Eggs, NEW key, NEW flags, NEW time \in Ages
    PROVE  LET c == CheckKey(e, key, flags, time)
           IN  /\ c \in Eggs
               /\ c.name = e.name /\ c.details = e.details /\ c.timeout = e.timeout
               /\ Advances(e, key, flags, time) =>
                     IF e.mCurrentKeyIndex = Len(e.details)
                     THEN c.mCurrentKeyIndex = 1 /\ c.mTotalUsedTime = 0 /\ c.mSatisfied
                     ELSE /\ c.mCurrentKeyIndex = e.mCurrentKeyIndex + 1
                          /\ c.mTotalUsedTime = Together(e.mTotalUsedTime, time)
                          /\ c.mSatisfied = e.mSatisfied
               /\ ~Advances(e, key, flags, time) => c = Reset(e)
<1> DEFINE last == e.mCurrentKeyIndex = Len(e.details)
           used == Together(e.mTotalUsedTime, time)
           c == CheckKey(e, key, flags, time)
<1>1. PICK spec \in EggSpecs : e \in EggsOf(spec)
    BY DEF Eggs
<1>2. /\ e.details = spec.details /\ Len(spec.details) \in Nat \ {0}
      /\ e.mCurrentKeyIndex \in 1..Len(spec.details)
      /\ e.mTotalUsedTime \in Ages /\ e.mSatisfied \in BOOLEAN
    BY <1>1, EggAssumption DEF EggsOf
<1>3. /\ 1 \in 1..Len(spec.details) /\ 0 \in Ages /\ used \in Ages
      /\ ~last => e.mCurrentKeyIndex + 1 \in 1..Len(spec.details)
    <2>1. used \in Ages
        BY <1>2, AgesAddUp
    <2>2. 0 \in Ages
        BY EggAssumption DEF Ages
    <2> QED BY <1>2, <2>1, <2>2
<1>4. CASE ~Advances(e, key, flags, time)
    <2>1. c = Reset(e)
        BY <1>4 DEF CheckKey, Advances
    <2>2. Reset(e) \in EggsOf(spec)
        BY <1>1, <1>3 DEF Reset, EggsOf
    <2>3. Reset(e).name = e.name /\ Reset(e).details = e.details /\ Reset(e).timeout = e.timeout
        BY <1>1 DEF Reset, EggsOf
    <2> QED BY <1>4, <2>1, <2>2, <2>3 DEF Eggs
<1>5. CASE Advances(e, key, flags, time)
    <2>1. c = [e EXCEPT !.mCurrentKeyIndex = IF last THEN 1 ELSE @ + 1,
                        !.mTotalUsedTime = IF last THEN 0 ELSE used,
                        !.mSatisfied = @ \/ last]
        BY <1>5 DEF CheckKey, Advances
    <2>2. CASE last
        <3>1. c = [e EXCEPT !.mCurrentKeyIndex = 1, !.mTotalUsedTime = 0, !.mSatisfied = TRUE]
            BY <2>1, <2>2
        <3>2. c \in EggsOf(spec)
            BY <1>1, <1>3, <3>1 DEF EggsOf
        <3>3. c.name = e.name /\ c.details = e.details /\ c.timeout = e.timeout
            BY <1>1, <3>1 DEF EggsOf
        <3>4. c.mCurrentKeyIndex = 1 /\ c.mTotalUsedTime = 0 /\ c.mSatisfied
            BY <1>1, <3>1 DEF EggsOf
        <3> QED BY <1>5, <2>2, <3>2, <3>3, <3>4 DEF Eggs
    <2>3. CASE ~last
        <3> HIDE DEF used
        <3>0. (e.mSatisfied \/ last) = e.mSatisfied
            BY <1>2, <2>3, Zenon
        <3>1. c = [e EXCEPT !.mCurrentKeyIndex = @ + 1, !.mTotalUsedTime = used]
            BY <1>1, <2>1, <2>3, <3>0 DEF EggsOf
        <3>2. c \in EggsOf(spec)
            BY <1>1, <1>3, <2>3, <3>1 DEF EggsOf
        <3>3. c.name = e.name /\ c.details = e.details /\ c.timeout = e.timeout
            BY <1>1, <3>1 DEF EggsOf
        <3>4. /\ c.mCurrentKeyIndex = e.mCurrentKeyIndex + 1 /\ c.mTotalUsedTime = used
              /\ c.mSatisfied = e.mSatisfied
            BY <1>1, <3>1 DEF EggsOf
        <3> QED BY <1>5, <2>3, <3>2, <3>3, <3>4 DEF Eggs, used
    <2> QED BY <2>2, <2>3
<1> QED BY <1>4, <1>5

\* An egg that starts anew
LEMMA ResetEffect ==
    ASSUME NEW e \in Eggs
    PROVE  /\ Reset(e) \in Eggs /\ Reset(Reset(e)) = Reset(e)
           /\ Reset(e).mCurrentKeyIndex = 1 /\ Reset(e).mTotalUsedTime = 0
           /\ Reset(e).mSatisfied = FALSE
           /\ Reset(e).name = e.name /\ Reset(e).details = e.details
           /\ Reset(e).timeout = e.timeout
<1>1. PICK spec \in EggSpecs : e \in EggsOf(spec)
    BY DEF Eggs
<1>2. 1 \in 1..Len(spec.details) /\ 0 \in Ages
    BY EggAssumption DEF Ages
<1>3. Reset(e) \in EggsOf(spec)
    BY <1>1, <1>2 DEF Reset, EggsOf
<1>4. /\ Reset(e).mCurrentKeyIndex = 1 /\ Reset(e).mTotalUsedTime = 0
      /\ Reset(e).mSatisfied = FALSE
    BY <1>1 DEF Reset, EggsOf
<1>5. Reset(e).name = e.name /\ Reset(e).details = e.details /\ Reset(e).timeout = e.timeout
    BY <1>1 DEF Reset, EggsOf
<1>6. Reset(Reset(e)) = Reset(e)
    BY <1>1 DEF Reset, EggsOf
<1> QED BY <1>3, <1>4, <1>5, <1>6 DEF Eggs

-----------------------------------------------------------------------------
(* The order of the eggs.                                                     *)

Descending(eggs) ==
    \A i, j \in DOMAIN eggs : i < j => Len(eggs[i].details) >= Len(eggs[j].details)

\* An egg that is placed keeps the order.
LEMMA PlacedKeepsOrder ==
    ASSUME NEW T \in SUBSET Eggs, NEW s \in Seq(T), Descending(s), NEW e \in T
    PROVE  Placed(s, e) \in Seq(T) /\ Descending(Placed(s, e))
<1> DEFINE size(x) == Len(x.details)
           N == Len(s)
           Right(p) == /\ \A i \in 1..(p - 1) : size(s[i]) > size(e)
                       /\ \A i \in p..N : ~(size(s[i]) > size(e))
           p == CHOOSE q \in 1..(N + 1) : Right(q)
           w == InsertAt(s, p, e)
           Smaller == {i \in 1..(N + 1) : i = N + 1 \/ ~(size(s[i]) > size(e))}
<1>1. /\ N \in Nat /\ DOMAIN s = 1..N /\ size(e) \in Nat
      /\ \A i \in 1..N : s[i] \in T /\ size(s[i]) \in Nat
    <2>1. \A x \in T : size(x) \in Nat
        BY EggFields
    <2> QED BY <2>1, LenProperties, ElementOfSeq
<1>2. \A i, j \in 1..N : i < j => size(s[i]) >= size(s[j])
    BY <1>1 DEF Descending
<1>3. \E q \in 1..(N + 1) : Right(q)
    <2>1. PICK q \in Smaller : \A i \in Smaller : q <= i
        <3>1. Smaller \in SUBSET Nat /\ N + 1 \in Smaller
            BY <1>1
        <3> HIDE DEF Smaller
        <3> QED BY <3>1, Smallest
    <2>2. q \in 1..(N + 1) /\ (q = N + 1 \/ ~(size(s[q]) > size(e)))
        OBVIOUS
    <2> HIDE DEF size
    <2>3. \A i \in 1..(q - 1) : size(s[i]) > size(e)
        <3> SUFFICES ASSUME NEW i \in 1..(q - 1) PROVE size(s[i]) > size(e)
            OBVIOUS
        <3>1. i \in 1..(N + 1) /\ i # N + 1 /\ ~(q <= i)
            BY <1>1, <2>2
        <3>2. i \notin Smaller
            BY <2>1, <3>1
        <3> QED BY <3>1, <3>2
    <2>4. \A i \in q..N : ~(size(s[i]) > size(e))
        <3> SUFFICES ASSUME NEW i \in q..N PROVE ~(size(s[i]) > size(e))
            OBVIOUS
        <3>1. i \in 1..N /\ q # N + 1 /\ q \in 1..N
            BY <1>1, <2>2
        <3>2. size(s[q]) >= size(s[i])
            BY <1>1, <1>2, <3>1
        <3> QED BY <1>1, <2>2, <3>1, <3>2
    <2> QED BY <2>2, <2>3, <2>4
<1>4. p \in 1..(N + 1) /\ Right(p)
    <2> HIDE DEF Right
    <2> QED BY <1>3
<1>5. Placed(s, e) = w
    BY DEF Placed
<1> HIDE DEF p
<1>6. /\ w \in Seq(T) /\ Len(w) = N + 1
      /\ \A i \in 1..(N + 1) : w[i] = IF i < p THEN s[i] ELSE IF i = p THEN e ELSE s[i - 1]
    BY <1>4, InsertAtElements
<1>7. DOMAIN w = 1..(N + 1)
    <2> HIDE DEF w
    <2> QED BY <1>6, LenProperties
<1> HIDE DEF w, size, N
<1>8. ASSUME NEW i \in 1..(N + 1), NEW j \in 1..(N + 1), i < j
      PROVE  size(w[i]) >= size(w[j])
    <2>1. CASE j < p
        BY <1>1, <1>2, <1>4, <1>6, <1>8, <2>1
    <2>2. CASE j = p
        <3>1. i \in 1..(p - 1) /\ i \in 1..N /\ w[i] = s[i] /\ w[j] = e
            BY <1>1, <1>4, <1>6, <1>8, <2>2
        <3> QED BY <1>1, <1>4, <3>1
    <2>3. CASE j > p
        <3>1. j - 1 \in 1..N /\ j - 1 \in p..N /\ w[j] = s[j - 1]
            BY <1>1, <1>4, <1>6, <2>3
        <3>2. size(s[j - 1]) <= size(e)
            BY <1>1, <1>4, <3>1
        <3>3. CASE i < p
            <4>1. i \in 1..N /\ w[i] = s[i] /\ i < j - 1
                BY <1>1, <1>4, <1>6, <2>3, <3>3
            <4> QED BY <1>1, <1>2, <3>1, <4>1
        <3>4. CASE i = p
            BY <1>1, <1>6, <3>1, <3>2, <3>4
        <3>5. CASE i > p
            <4>1. i - 1 \in 1..N /\ w[i] = s[i - 1] /\ i - 1 < j - 1
                BY <1>1, <1>4, <1>6, <1>8, <3>5
            <4> QED BY <1>1, <1>2, <3>1, <4>1
        <3> QED BY <1>1, <1>4, <3>3, <3>4, <3>5
    <2> QED BY <1>1, <1>4, <2>1, <2>2, <2>3
<1> QED BY <1>5, <1>6, <1>7, <1>8 DEF Descending, size

\* A sort gives the same eggs, the longest first.
LEMMA SortedEggs ==
    ASSUME NEW T \in SUBSET Eggs, NEW eggs \in Seq(T)
    PROVE  SortEggs(eggs) \in Seq(T) /\ Descending(SortEggs(eggs))
<1> DEFINE N == Len(eggs)
           S == {s \in Seq(T) : Descending(s)}
           G == [n \in 1..N |-> [s \in S |-> Placed(s, eggs[n])]]
           Step(f) == [n \in 0..N |-> IF n = 0 THEN <<>> ELSE Placed(f[n - 1], eggs[n])]
           sorted == CHOOSE f : f = Step(f)
<1>1. SortEggs(eggs) = sorted[N]
    BY DEF SortEggs
<1>2. N \in Nat /\ \A n \in 1..N : eggs[n] \in T
    BY LenProperties, ElementOfSeq
<1>3. <<>> \in S
    BY DEF Descending
<1>4. ASSUME NEW s \in S, NEW n \in 1..N PROVE Placed(s, eggs[n]) \in S
    <2>1. s \in Seq(T) /\ Descending(s)
        OBVIOUS
    <2>2. eggs[n] \in T
        BY <1>2
    <2> QED BY <2>1, <2>2, PlacedKeepsOrder
<1> HIDE DEF S
<1>5. G \in Steps(S, N)
    BY <1>4 DEF Steps
<1>6. PICK f : Computes(f, S, N, <<>>, G)
    <2> HIDE DEF G, N
    <2> QED BY <1>2, <1>3, <1>5, RecursionExists
<1>7. /\ f \in [0..N -> S] /\ f[0] = <<>>
      /\ \A n \in 1..N : f[n] = G[n][f[n - 1]]
    BY <1>6 DEF Computes
<1>8. \A n \in 1..N : n \in 0..N /\ n # 0 /\ n - 1 \in 0..N /\ f[n - 1] \in S
    BY <1>2, <1>7
<1>9. \A n \in 1..N : f[n] = Placed(f[n - 1], eggs[n])
    BY <1>7, <1>8
<1> HIDE DEF G
<1>10. f = Step(f)
    <2>1. \A n \in 0..N : n = 0 \/ n \in 1..N
        BY <1>2
    <2>2. \A n \in 0..N : f[n] = IF n = 0 THEN <<>> ELSE Placed(f[n - 1], eggs[n])
        BY <1>7, <1>8, <1>9, <2>1
    <2> QED BY <1>7, <2>2
<1>11. sorted = Step(sorted)
    <2> HIDE DEF Step
    <2> QED BY <1>10
<1> HIDE DEF sorted
<1>12. sorted[N] = f[N]
    <2>1. sorted = [n \in 0..N |-> sorted[n]] /\ f = [n \in 0..N |-> f[n]]
        BY <1>10, <1>11
    <2>2. 0 \in 0..N /\ \A n \in 0..N : sorted[n] = IF n = 0 THEN <<>>
                                                     ELSE Placed(sorted[n - 1], eggs[n])
        BY <1>2, <1>11
    <2>3. sorted[0] = f[0]
        BY <1>7, <2>2
    <2>4. \A n \in 1..N : sorted[n - 1] = f[n - 1] => sorted[n] = f[n]
        BY <1>8, <1>9, <2>2
    <2> QED BY <1>2, <2>1, <2>3, <2>4, SameOneByOne
<1>13. f[N] \in S
    BY <1>2, <1>7
<1> QED BY <1>1, <1>12, <1>13 DEF S

-----------------------------------------------------------------------------
(* What was typed.                                                            *)

\* The l keys before the last m
Window(keys, m, l) == SubSeq(keys, Len(keys) - m - l + 1, Len(keys) - m)

LEMMA WindowElements ==
    ASSUME NEW S, NEW keys \in Seq(S), NEW m \in Nat, NEW l \in Nat, m + l <= Len(keys)
    PROVE  /\ Window(keys, m, l) \in Seq(S)
           /\ Len(Window(keys, m, l)) = l
           /\ \A i \in 1..l : Window(keys, m, l)[i] = keys[Len(keys) - m - l + i]
<1> DEFINE first == Len(keys) - m - l + 1
           final == Len(keys) - m
           w == SubSeq(keys, first, final)
<1>1. Len(keys) \in Nat /\ \A i \in 1..Len(keys) : keys[i] \in S
    BY LenProperties, ElementOfSeq
<1>2. first \in Int /\ final \in Int /\ \A i \in first..final : keys[i] \in S
    BY <1>1
<1>3. /\ w \in Seq(S)
      /\ Len(w) = IF first <= final THEN final - first + 1 ELSE 0
      /\ \A i \in 1..(final - first + 1) : w[i] = keys[first + i - 1]
    <2> HIDE DEF first, final
    <2> QED BY SMTT(20), <1>2, SubSeqProperties
<1> HIDE DEF w
<1>4. Len(w) = l
    BY <1>1, <1>3
<1>5. ASSUME NEW i \in 1..l PROVE w[i] = keys[Len(keys) - m - l + i]
    <2>1. i \in 1..(final - first + 1) /\ first + i - 1 = Len(keys) - m - l + i
        BY <1>1
    <2> HIDE DEF first, final
    <2> QED BY <1>3, <2>1
<1> QED BY <1>3, <1>4, <1>5 DEF w, Window

\* One more key is typed, and one that was typed long ago is forgotten.
LEMMA OneMoreTyped ==
    ASSUME NEW S, NEW keys \in Seq(S), NEW x \in S, MaxTyped > 0, Len(keys) <= MaxTyped
    PROVE  LET more == LastTyped(Append(keys, x))
           IN  /\ more \in Seq(S)
               /\ Len(more) = IF Len(keys) < MaxTyped THEN Len(keys) + 1 ELSE MaxTyped
               /\ Len(keys) < MaxTyped => more = Append(keys, x)
               /\ \A i \in 1..Len(more) :
                     more[i] = Append(keys, x)[Len(keys) + 1 - Len(more) + i]
<1> DEFINE a == Append(keys, x)
           more == LastTyped(a)
<1>1. Len(keys) \in Nat /\ MaxTyped \in Nat /\ \A i \in 1..Len(keys) : keys[i] \in S
    BY LenProperties, ElementOfSeq, HistoryAssumption
<1>2. a \in Seq(S) /\ Len(a) = Len(keys) + 1 /\ \A i \in 1..(Len(keys) + 1) : a[i] \in S
    <2>1. a \in Seq(S) /\ Len(a) = Len(keys) + 1
        BY AppendProperties
    <2> HIDE DEF a
    <2> QED BY <2>1, ElementOfSeq
<1> HIDE DEF a
<1>3. CASE Len(keys) < MaxTyped
    <2>1. more = SubSeq(a, 1, Len(a))
        BY <1>1, <1>2, <1>3 DEF LastTyped
    <2>2. /\ SubSeq(a, 1, Len(a)) \in Seq(S)
          /\ Len(SubSeq(a, 1, Len(a))) = Len(a)
          /\ \A i \in 1..Len(a) : SubSeq(a, 1, Len(a))[i] = a[i]
        BY <1>1, <1>2, SubSeqProperties
    <2>3. more = a
        BY <1>2, <2>1, <2>2, SeqEqual
    <2> QED BY <1>1, <1>2, <1>3, <2>3 DEF a
<1>4. CASE ~(Len(keys) < MaxTyped)
    <2>1. more = SubSeq(a, 2, Len(a)) /\ Len(a) = MaxTyped + 1
        BY <1>1, <1>2, <1>4 DEF LastTyped
    <2>2. /\ SubSeq(a, 2, Len(a)) \in Seq(S)
          /\ Len(SubSeq(a, 2, Len(a))) = Len(a) - 1
          /\ \A i \in 1..(Len(a) - 1) : SubSeq(a, 2, Len(a))[i] = a[i + 1]
        <3>1. \A i \in 2..Len(a) : a[i] \in S
            BY <1>1, <1>2
        <3>2. 2 \in Int /\ Len(a) \in Int /\ 2 <= Len(a)
            BY <1>1, <2>1
        <3>3. /\ SubSeq(a, 2, Len(a)) \in Seq(S)
              /\ Len(SubSeq(a, 2, Len(a))) = Len(a) - 2 + 1
              /\ \A i \in 1..(Len(a) - 2 + 1) : SubSeq(a, 2, Len(a))[i] = a[2 + i - 1]
            BY <3>1, <3>2, SubSeqProperties
        <3>4. Len(a) - 2 + 1 = Len(a) - 1 /\ \A i \in 1..(Len(a) - 1) : 2 + i - 1 = i + 1
            BY <3>2
        <3> QED BY <3>3, <3>4
    <2>3. more \in Seq(S) /\ Len(more) = MaxTyped /\ \A i \in 1..MaxTyped : more[i] = a[i + 1]
        BY <1>1, <2>1, <2>2
    <2>4. Len(keys) + 1 - MaxTyped = 1 /\ \A i \in 1..MaxTyped : 1 + i = i + 1
        BY <1>1, <1>4
    <2> HIDE DEF more
    <2> QED BY <1>1, <1>4, <2>3, <2>4 DEF a, more
<1> QED BY <1>3, <1>4

\* Those keys, one by one, are the window.
LEMMA WindowIs ==
    ASSUME NEW S, NEW keys \in Seq(S), NEW m \in Nat, NEW l \in Nat, m + l <= Len(keys),
           NEW w \in Seq(S), Len(w) = l, \A i \in 1..l : w[i] = keys[Len(keys) - m - l + i]
    PROVE  Window(keys, m, l) = w
<1>1. /\ Window(keys, m, l) \in Seq(S) /\ Len(Window(keys, m, l)) = l
      /\ \A i \in 1..l : Window(keys, m, l)[i] = keys[Len(keys) - m - l + i]
    BY WindowElements
<1>2. \A i \in 1..l : Window(keys, m, l)[i] = w[i]
    BY <1>1
<1> QED BY <1>1, <1>2, SeqEqual

\* The keys that were the last are now those before it.
LEMMA WindowStays ==
    ASSUME NEW S, NEW keys \in Seq(S), NEW x \in S, MaxTyped > 0, Len(keys) <= MaxTyped,
           NEW m \in Nat, NEW l \in Nat, m + l <= Len(keys), m + 1 + l <= MaxTyped
    PROVE  Window(LastTyped(Append(keys, x)), m + 1, l) = Window(keys, m, l)
<1> DEFINE a == Append(keys, x)
           more == LastTyped(a)
           w == Window(keys, m, l)
           k == m + 1
<1>0. Len(keys) \in Nat /\ MaxTyped \in Nat
    BY HistoryAssumption
<1>1. /\ more \in Seq(S)
      /\ Len(more) = IF Len(keys) < MaxTyped THEN Len(keys) + 1 ELSE MaxTyped
      /\ \A i \in 1..Len(more) : more[i] = a[Len(keys) + 1 - Len(more) + i]
    BY OneMoreTyped
<1>2. \A i \in 1..Len(keys) : a[i] = keys[i]
    BY AppendProperties
<1> HIDE DEF a, more
<1>3. /\ m + 1 + l <= Len(more) /\ Len(more) \in Nat
      /\ k \in Nat /\ k + l <= Len(more)
    BY <1>0, <1>1
<1>4. /\ w \in Seq(S) /\ Len(w) = l
      /\ \A i \in 1..l : w[i] = keys[Len(keys) - m - l + i]
    BY WindowElements
<1> HIDE DEF w
<1>5. ASSUME NEW i \in 1..l PROVE w[i] = more[Len(more) - k - l + i]
    <2>0. i \in Nat /\ 1 <= i /\ i <= l
        OBVIOUS
    <2>1. /\ Len(more) - k - l + i \in 1..Len(more)
          /\ Len(keys) + 1 - Len(more) + (Len(more) - k - l + i) = Len(keys) - m - l + i
          /\ Len(keys) - m - l + i \in 1..Len(keys)
        BY <1>0, <1>3, <2>0
    <2>2. more[Len(more) - k - l + i] = a[Len(keys) - m - l + i]
        BY <1>1, <2>1
    <2> QED BY <1>2, <1>4, <2>1, <2>2
<1> HIDE DEF k
<1>6. more \in Seq(S)
    BY <1>1
<1>7. k \in Nat /\ k + l <= Len(more)
    BY <1>3
<1>8. Window(more, k, l) = w
    <2>1. w \in Seq(S) /\ Len(w) = l
        BY <1>4
    <2> QED BY ZenonT(40), <1>5, <1>6, <1>7, <2>1, WindowIs
<1> QED BY <1>8 DEF more, a, w, k

\* The last keys are one more.
LEMMA WindowGrows ==
    ASSUME NEW S, NEW keys \in Seq(S), NEW x \in S, MaxTyped > 0, Len(keys) <= MaxTyped,
           NEW l \in Nat, l <= Len(keys), l + 1 <= MaxTyped
    PROVE  Window(LastTyped(Append(keys, x)), 0, l + 1) = Append(Window(keys, 0, l), x)
<1> DEFINE a == Append(keys, x)
           more == LastTyped(a)
           w == Window(keys, 0, l)
           b == Append(w, x)
           k == l + 1
<1>0. Len(keys) \in Nat /\ MaxTyped \in Nat
    BY HistoryAssumption
<1>1. /\ more \in Seq(S)
      /\ Len(more) = IF Len(keys) < MaxTyped THEN Len(keys) + 1 ELSE MaxTyped
      /\ \A i \in 1..Len(more) : more[i] = a[Len(keys) + 1 - Len(more) + i]
    BY OneMoreTyped
<1>2. a[Len(keys) + 1] = x /\ \A i \in 1..Len(keys) : a[i] = keys[i]
    BY AppendProperties
<1> HIDE DEF a, more
<1>3. k \in Nat /\ 0 \in Nat /\ 0 + k <= Len(more) /\ Len(more) \in Nat
    BY <1>0, <1>1
<1>4. /\ w \in Seq(S) /\ Len(w) = l
      /\ \A i \in 1..l : w[i] = keys[Len(keys) - 0 - l + i]
    <2> DEFINE z == 0
    <2>1. z \in Nat /\ z + l <= Len(keys)
        BY <1>0
    <2> HIDE DEF z
    <2>2. /\ Window(keys, z, l) \in Seq(S) /\ Len(Window(keys, z, l)) = l
          /\ \A i \in 1..l : Window(keys, z, l)[i] = keys[Len(keys) - z - l + i]
        BY <2>1, WindowElements
    <2> QED BY <2>2 DEF z
<1> HIDE DEF w
<1>5. b \in Seq(S) /\ Len(b) = k /\ b[l + 1] = x /\ \A i \in 1..l : b[i] = w[i]
    BY <1>4, AppendProperties
<1> HIDE DEF b
<1>6. ASSUME NEW i \in 1..k PROVE b[i] = more[Len(more) - 0 - k + i]
    <2>0. i \in Nat /\ 1 <= i /\ i <= l + 1
        OBVIOUS
    <2>1. /\ Len(more) - 0 - k + i \in 1..Len(more)
          /\ Len(keys) + 1 - Len(more) + (Len(more) - 0 - k + i) = Len(keys) - l + i
        BY <1>0, <1>3, <2>0
    <2>2. more[Len(more) - 0 - k + i] = a[Len(keys) - l + i]
        BY <1>1, <2>1
    <2>3. CASE i = l + 1
        <3>1. Len(keys) - l + i = Len(keys) + 1
            BY <1>0, <2>3
        <3> QED BY <1>2, <1>5, <2>2, <2>3, <3>1
    <2>4. CASE i # l + 1
        <3>1. /\ i \in 1..l /\ Len(keys) - l + i \in 1..Len(keys)
              /\ Len(keys) - 0 - l + i = Len(keys) - l + i
            BY <1>0, <2>0, <2>4
        <3> QED BY <1>2, <1>4, <1>5, <2>2, <3>1
    <2> QED BY <2>3, <2>4
<1> HIDE DEF k
<1>7. more \in Seq(S) /\ b \in Seq(S) /\ Len(b) = k
    BY <1>1, <1>5
<1>8. Window(more, 0, k) = b
    BY ZenonT(40), <1>3, <1>6, <1>7, WindowIs
<1> QED BY <1>8 DEF more, a, b, w, k

-----------------------------------------------------------------------------
(* How long keys were held.                                                   *)

Timed(keys) == Len(keys) \in Nat /\ \A i \in 1..Len(keys) : keys[i].time \in Ages

LEMMA HeldOneByOne ==
    ASSUME NEW keys, Timed(keys)
    PROVE  \E total \in [0..Len(keys) -> Ages] :
              /\ total[0] = 0
              /\ \A n \in 1..Len(keys) : total[n] = Together(total[n - 1], keys[n].time)
              /\ HeldTime(keys) = total[Len(keys)]
<1> DEFINE N == Len(keys)
           G == [n \in 1..N |-> [age \in Ages |-> Together(age, keys[n].time)]]
           Step(f) == [n \in 0..N |-> IF n = 0 THEN 0 ELSE Together(f[n - 1], keys[n].time)]
           total == CHOOSE f : f = Step(f)
<1>1. HeldTime(keys) = total[N]
    BY DEF HeldTime
<1>2. N \in Nat /\ 0 \in Ages
    BY EggAssumption DEF Timed, Ages
<1>3. G \in Steps(Ages, N)
    <2>1. \A n \in 1..N : \A age \in Ages : Together(age, keys[n].time) \in Ages
        BY AgesAddUp DEF Timed
    <2> QED BY <2>1 DEF Steps
<1>4. PICK f : Computes(f, Ages, N, 0, G)
    <2> HIDE DEF G, N
    <2> QED BY <1>2, <1>3, RecursionExists
<1>5. /\ f \in [0..N -> Ages] /\ f[0] = 0
      /\ \A n \in 1..N : f[n] = G[n][f[n - 1]]
    BY <1>4 DEF Computes
<1>6. \A n \in 1..N : n \in 0..N /\ n # 0 /\ n - 1 \in 0..N /\ f[n - 1] \in Ages
    BY <1>2, <1>5
<1>7. \A n \in 1..N : f[n] = Together(f[n - 1], keys[n].time)
    BY <1>5, <1>6
<1> HIDE DEF G
<1>8. f = Step(f)
    <2>1. \A n \in 0..N : n = 0 \/ n \in 1..N
        BY <1>2
    <2>2. \A n \in 0..N : f[n] = IF n = 0 THEN 0 ELSE Together(f[n - 1], keys[n].time)
        BY <1>5, <1>6, <1>7, <2>1
    <2> QED BY <1>5, <2>2
<1>9. total = Step(total)
    <2> HIDE DEF Step
    <2> QED BY <1>8
<1> HIDE DEF total
<1>10. total[N] = f[N]
    <2>1. total = [n \in 0..N |-> total[n]] /\ f = [n \in 0..N |-> f[n]]
        BY <1>8, <1>9
    <2>2. \A n \in 0..N : total[n] = IF n = 0 THEN 0 ELSE Together(total[n - 1], keys[n].time)
        BY <1>9
    <2>5. 0 \in 0..N
        BY <1>2
    <2>3. total[0] = f[0]
        BY <1>5, <2>2, <2>5
    <2>4. \A n \in 1..N : total[n - 1] = f[n - 1] => total[n] = f[n]
        BY <1>6, <1>7, <2>2
    <2> QED BY <1>2, <2>1, <2>3, <2>4, SameOneByOne
<1> QED BY <1>1, <1>5, <1>7, <1>10

\* No keys are held for no time.
LEMMA HeldOfNone == HeldTime(<<>>) = 0
<1>1. Timed(<<>>) /\ Len(<<>>) = 0
    BY DEF Timed
<1> QED BY <1>1, HeldOneByOne

\* One more key adds its time.
LEMMA HeldOfAppend ==
    ASSUME NEW S, NEW keys \in Seq(S), NEW x \in S, \A y \in S : y.time \in Ages
    PROVE  /\ HeldTime(keys) \in Ages
           /\ HeldTime(Append(keys, x)) = Together(HeldTime(keys), x.time)
<1> DEFINE N == Len(keys)
           more == Append(keys, x)
<1>1. N \in Nat /\ \A i \in 1..N : keys[i] \in S
    BY LenProperties, ElementOfSeq
<1>2. /\ more \in Seq(S) /\ Len(more) = N + 1
      /\ \A i \in 1..N : more[i] = keys[i]
      /\ more[N + 1] = x
    BY AppendProperties
<1>3. Timed(keys)
    BY <1>1 DEF Timed
<1> HIDE DEF more
<1>4. Timed(more)
    <2>1. \A i \in 1..(N + 1) : i \in 1..N \/ i = N + 1
        BY <1>1
    <2> QED BY <1>1, <1>2, <2>1 DEF Timed
<1>5. PICK f \in [0..N -> Ages] :
         /\ f[0] = 0
         /\ \A n \in 1..N : f[n] = Together(f[n - 1], keys[n].time)
         /\ HeldTime(keys) = f[N]
    BY <1>3, HeldOneByOne
<1>6. PICK g \in [0..(N + 1) -> Ages] :
         /\ g[0] = 0
         /\ \A n \in 1..(N + 1) : g[n] = Together(g[n - 1], more[n].time)
         /\ HeldTime(more) = g[N + 1]
    BY <1>2, <1>4, HeldOneByOne
<1> HIDE DEF N
<1>7. f[N] = g[N]
    <2> DEFINE h == [n \in 0..N |-> g[n]]
    <2>1. \A n \in 1..N : n \in 0..N /\ n - 1 \in 0..N /\ n \in 1..(N + 1)
        BY <1>1
    <2>2. \A n \in 1..N : h[n] = Together(h[n - 1], keys[n].time)
        BY <1>2, <1>6, <2>1
    <2>3. 0 \in 0..N /\ N \in 0..N
        BY <1>1
    <2>4. h[0] = 0 /\ h[N] = g[N] /\ h = [n \in 0..N |-> h[n]]
        BY <1>6, <2>3
    <2>5. f = [n \in 0..N |-> f[n]]
        BY <1>5
    <2> HIDE DEF h
    <2>6. \A n \in 1..N : f[n - 1] = h[n - 1] => f[n] = h[n]
        BY <1>5, <2>2
    <2>8. f[0] = h[0]
        BY <1>5, <2>4
    <2>7. f[N] = h[N]
        BY ZenonT(40), <1>1, <2>4, <2>5, <2>6, <2>8, SameOneByOne
    <2> QED BY <2>4, <2>7
<1>8. g[N + 1] = Together(g[N], x.time)
    <2>1. N + 1 \in 1..(N + 1) /\ (N + 1) - 1 = N
        BY <1>1
    <2> QED BY <1>2, <1>6, <2>1
<1>9. N \in 0..N
    BY <1>1
<1> QED BY <1>5, <1>6, <1>7, <1>8, <1>9 DEF more

-----------------------------------------------------------------------------
(* What eggs make of what was typed.                                          *)

Matches(detail, k) == KeyMatches(detail, k.code, k.flags, k.time)

\* keys are the first of the egg.
Begins(keys, e) ==
    /\ Len(keys) <= Len(e.details)
    /\ \A i \in 1..Len(keys) : Matches(e.details[i], keys[i])

\* The keys the egg has counted are the last that were typed.
Begun(e, keys) ==
    LET n == e.mCurrentKeyIndex - 1
    IN  /\ n <= Len(keys)
        /\ Begins(Window(keys, 0, n), e)
        /\ HeldTime(Window(keys, 0, n)) = e.mTotalUsedTime

\* The keys before those completed it.
Done(e, keys) ==
    LET n == e.mCurrentKeyIndex - 1
    IN  e.mSatisfied => /\ n + Len(e.details) <= Len(keys)
                        /\ Types(Window(keys, n, Len(e.details)), SpecNamed(e.name))

\* Keys that are the egg's from its first are counted, or have completed it.
Exact(e, keys) ==
    Begins(keys, e) /\ HeldTime(keys) <= e.timeout
       => IF Len(keys) < Len(e.details)
          THEN e.mCurrentKeyIndex = Len(keys) + 1 /\ e.mTotalUsedTime = HeldTime(keys)
          ELSE e.mSatisfied

\* What was typed is long enough for the egg.
LEMMA EggFits ==
    ASSUME NEW e \in Eggs
    PROVE  /\ MaxTyped \in Nat /\ MaxTyped > Len(e.details)
           /\ MaxTyped >= 2 * Len(e.details) - 1
<1>1. SpecNamed(e.name) \in EggSpecs /\ SpecNamed(e.name).details = e.details
    BY EggFields
<1> QED BY <1>1, HistoryAssumption

\* To type an egg is to begin it and to be as long.
LEMMA TypesEgg ==
    ASSUME NEW e \in Eggs, NEW S, NEW keys \in Seq(S)
    PROVE  Types(keys, SpecNamed(e.name)) <=>
              /\ Len(keys) = Len(e.details)
              /\ Begins(keys, e)
              /\ HeldTime(keys) <= e.timeout
<1>1. SpecNamed(e.name).details = e.details /\ SpecNamed(e.name).timeout = e.timeout
    BY EggFields
<1>2. DOMAIN keys = 1..Len(keys) /\ Len(keys) \in Nat /\ Len(e.details) \in Nat
    BY LenProperties, EggFields
<1>3. Begins(keys, e) <=> /\ Len(keys) <= Len(e.details)
                          /\ \A i \in DOMAIN keys : Matches(e.details[i], keys[i])
    BY <1>2 DEF Begins
<1>4. Types(keys, SpecNamed(e.name)) <=>
         /\ Len(keys) = Len(e.details)
         /\ \A i \in DOMAIN keys : Matches(e.details[i], keys[i])
         /\ HeldTime(keys) <= e.timeout
    BY <1>1 DEF Types, Matches
<1>5. Len(keys) = Len(e.details) => Len(keys) <= Len(e.details)
    BY <1>2
<1> QED BY <1>3, <1>4, <1>5

\* One more key goes on where the others are the first.
LEMMA BeginsAppend ==
    ASSUME NEW e \in Eggs, NEW S, NEW keys \in Seq(S), NEW x \in S
    PROVE  Begins(Append(keys, x), e) <=>
              /\ Begins(keys, e)
              /\ Len(keys) < Len(e.details)
              /\ Matches(e.details[Len(keys) + 1], x)
<1> DEFINE a == Append(keys, x)
           l == Len(keys)
           d == Len(e.details)
<1>1. l \in Nat /\ d \in Nat
    BY EggFields
<1>2. Len(a) = l + 1 /\ a[l + 1] = x /\ \A i \in 1..l : a[i] = keys[i]
    BY AppendProperties
<1> HIDE DEF a, l, d
<1>3. l + 1 <= d <=> l <= d /\ l < d
    BY <1>1
<1>4. (\A i \in 1..(l + 1) : Matches(e.details[i], a[i])) <=>
         /\ \A i \in 1..l : Matches(e.details[i], keys[i])
         /\ Matches(e.details[l + 1], x)
    <2>1. \A i : i \in 1..(l + 1) <=> i \in 1..l \/ i = l + 1
        BY <1>1
    <2> QED BY <1>2, <2>1
<1>5. Begins(a, e) <=> l + 1 <= d /\ \A i \in 1..(l + 1) : Matches(e.details[i], a[i])
    BY <1>2 DEF Begins, d
<1>6. Begins(keys, e) <=> l <= d /\ \A i \in 1..l : Matches(e.details[i], keys[i])
    BY DEF Begins, d, l
<1> QED BY <1>3, <1>4, <1>5, <1>6 DEF a, l, d

\* No key has been counted.
LEMMA StartIsBegun ==
    ASSUME NEW e \in Eggs, NEW S, NEW keys \in Seq(S),
           e.mCurrentKeyIndex = 1, e.mTotalUsedTime = 0
    PROVE  Begun(e, keys)
<1>1. Len(keys) \in Nat /\ Len(e.details) \in Nat
    BY EggFields
<1>2. Window(keys, 0, 0) = <<>>
    <2> DEFINE z == 0
    <2>1. z \in Nat /\ z + z <= Len(keys)
        BY <1>1
    <2> HIDE DEF z
    <2>2. Window(keys, z, z) \in Seq(S) /\ Len(Window(keys, z, z)) = z
        BY <2>1, WindowElements
    <2> QED BY <2>2, EmptySeq DEF z
<1>3. Begins(<<>>, e)
    BY <1>1 DEF Begins
<1>4. e.mCurrentKeyIndex - 1 = 0
    OBVIOUS
<1> QED BY <1>1, <1>2, <1>3, <1>4, HeldOfNone DEF Begun

\* checkKey() counts one more key, completes the egg, or starts anew.
LEMMA CheckKeyKeeps ==
    ASSUME NEW e \in Eggs, NEW S, \A y \in S : y.time \in Ages,
           NEW keys \in Seq(S), Len(keys) <= MaxTyped, NEW x \in S,
           Begun(e, keys), Done(e, keys)
    PROVE  LET c == CheckKey(e, x.code, x.flags, x.time)
               more == LastTyped(Append(keys, x))
           IN  Begun(c, more) /\ Done(c, more)
<1> DEFINE c == CheckKey(e, x.code, x.flags, x.time)
           more == LastTyped(Append(keys, x))
           n == e.mCurrentKeyIndex - 1
           d == Len(e.details)
           w == Window(keys, 0, n)
           used == Together(e.mTotalUsedTime, x.time)
<1>1. /\ d \in Nat \ {0} /\ e.mCurrentKeyIndex \in 1..d /\ n \in Nat /\ n < d
      /\ e.mTotalUsedTime \in Ages
    BY EggFields
<1>2. MaxTyped \in Nat /\ MaxTyped > d /\ MaxTyped >= 2 * d - 1
    BY EggFits
<1>3. n <= Len(keys) /\ Begins(w, e) /\ HeldTime(w) = e.mTotalUsedTime
    BY DEF Begun
<1>4. e.mSatisfied => n + d <= Len(keys) /\ Types(Window(keys, n, d), SpecNamed(e.name))
    BY DEF Done
<1>5. /\ c \in Eggs
      /\ c.name = e.name /\ c.details = e.details /\ c.timeout = e.timeout
      /\ Advances(e, x.code, x.flags, x.time) =>
            IF e.mCurrentKeyIndex = d
            THEN c.mCurrentKeyIndex = 1 /\ c.mTotalUsedTime = 0 /\ c.mSatisfied
            ELSE /\ c.mCurrentKeyIndex = e.mCurrentKeyIndex + 1
                 /\ c.mTotalUsedTime = used
                 /\ c.mSatisfied = e.mSatisfied
      /\ ~Advances(e, x.code, x.flags, x.time) => c = Reset(e)
    <2>1. x.time \in Ages
        OBVIOUS
    <2> QED BY <2>1, CheckKeyEffect
<1>6. MaxTyped > 0 /\ Len(keys) \in Nat
    BY <1>1, <1>2
<1>7. /\ more \in Seq(S)
      /\ Len(more) = IF Len(keys) < MaxTyped THEN Len(keys) + 1 ELSE MaxTyped
    BY <1>6, OneMoreTyped
<1>8. w \in Seq(S) /\ Len(w) = n
    <2> DEFINE z == 0
    <2>1. z \in Nat /\ n \in Nat /\ z + n <= Len(keys)
        BY <1>1, <1>3, <1>6
    <2> HIDE DEF z, n
    <2>2. Window(keys, z, n) \in Seq(S) /\ Len(Window(keys, z, n)) = n
        BY <2>1, WindowElements
    <2> QED BY <2>2 DEF z
<1>9. CASE ~Advances(e, x.code, x.flags, x.time)
    <2>1. /\ c.mCurrentKeyIndex = 1 /\ c.mTotalUsedTime = 0 /\ c.mSatisfied = FALSE
        BY ZenonT(40), <1>5, <1>9, ResetEffect
    <2> HIDE DEF c, more
    <2>2. Begun(c, more)
        BY <1>5, <1>7, <2>1, StartIsBegun
    <2>3. Done(c, more)
        BY <2>1 DEF Done
    <2> QED BY <2>2, <2>3 DEF c, more
<1>10. CASE Advances(e, x.code, x.flags, x.time)
    <2>1. Matches(e.details[n + 1], x) /\ used <= e.timeout
        <3>1. n + 1 = e.mCurrentKeyIndex
            BY <1>1
        <3> HIDE DEF n
        <3> QED BY <1>10, <3>1 DEF Advances, Matches
    <2>2. Window(more, 0, n + 1) = Append(w, x)
        <3>1. n \in Nat /\ n <= Len(keys) /\ n + 1 <= MaxTyped
            BY <1>1, <1>2, <1>3
        <3> HIDE DEF n
        <3> QED BY <1>6, <3>1, WindowGrows
    <2>3. /\ Append(w, x) \in Seq(S) /\ Len(Append(w, x)) = n + 1
        BY <1>8, AppendProperties
    <2>4. Begins(Append(w, x), e)
        <3>1. Len(w) < Len(e.details) /\ Matches(e.details[Len(w) + 1], x)
            BY <1>1, <1>8, <2>1
        <3> HIDE DEF w
        <3> QED BY <1>3, <1>8, <3>1, BeginsAppend
    <2>5. HeldTime(Append(w, x)) = used
        <3> HIDE DEF w
        <3> QED BY <1>3, <1>8, HeldOfAppend
    <2>6. n + 1 <= Len(more)
        BY <1>1, <1>2, <1>3, <1>6, <1>7
    <2> HIDE DEF c, more, w, used
    <2>7. CASE e.mCurrentKeyIndex = d
        <3>1. c.mCurrentKeyIndex = 1 /\ c.mTotalUsedTime = 0 /\ c.mSatisfied
            BY <1>5, <1>10, <2>7
        <3>2. Begun(c, more)
            BY <1>5, <1>7, <3>1, StartIsBegun
        <3>3. n + 1 = d /\ 0 + d <= Len(more) /\ c.mCurrentKeyIndex - 1 = 0
            BY <1>1, <1>7, <2>6, <2>7, <3>1
        <3>4. Types(Append(w, x), SpecNamed(e.name))
            BY <2>1, <2>3, <2>4, <2>5, <3>3, TypesEgg
        <3>5. Types(Window(more, 0, d), SpecNamed(e.name))
            BY <2>2, <3>3, <3>4
        <3>6. Done(c, more)
            BY <1>5, <3>3, <3>5 DEF Done
        <3> QED BY <3>2, <3>6 DEF c, more
    <2>8. CASE e.mCurrentKeyIndex # d
        <3>1. /\ c.mCurrentKeyIndex = e.mCurrentKeyIndex + 1
              /\ c.mTotalUsedTime = used
              /\ c.mSatisfied = e.mSatisfied
            BY <1>5, <1>10, <2>8
        <3>2. c.mCurrentKeyIndex - 1 = n + 1
            BY <1>1, <3>1
        <3>3. Begins(Append(w, x), c)
            BY <1>5, <2>4 DEF Begins
        <3>4. Begun(c, more)
            BY <2>2, <2>5, <2>6, <3>1, <3>2, <3>3 DEF Begun
        <3>5. ASSUME e.mSatisfied
              PROVE  /\ (n + 1) + d <= Len(more)
                     /\ Types(Window(more, n + 1, d), SpecNamed(e.name))
            <4>1. n \in Nat /\ d \in Nat /\ n + d <= Len(keys) /\ n + 1 + d <= MaxTyped
                BY SMTT(20), <1>1, <1>2, <1>4, <2>8, <3>5
            <4>2. (n + 1) + d <= Len(more)
                BY SMTT(20), <1>1, <1>2, <1>6, <1>7, <4>1
            <4>3. Window(more, n + 1, d) = Window(keys, n, d)
                <5> HIDE DEF n, d
                <5> QED BY <1>6, <4>1, WindowStays DEF more
            <4> QED BY <1>4, <3>5, <4>2, <4>3
        <3>6. Done(c, more)
            BY <1>5, <3>1, <3>2, <3>5 DEF Done
        <3> QED BY <3>4, <3>6 DEF c, more
    <2> QED BY <2>7, <2>8
<1> QED BY <1>9, <1>10

\* checkKey() misses no key of one that has been typed from its first.
LEMMA CheckKeyIsExact ==
    ASSUME NEW e \in Eggs, NEW S, \A y \in S : y.time \in Ages,
           NEW keys \in Seq(S), NEW x \in S, Exact(e, keys)
    PROVE  Exact(CheckKey(e, x.code, x.flags, x.time), Append(keys, x))
<1> DEFINE c == CheckKey(e, x.code, x.flags, x.time)
           a == Append(keys, x)
           used == Together(e.mTotalUsedTime, x.time)
           d == Len(e.details)
           l == Len(keys)
<1>1. d \in Nat \ {0} /\ e.timeout \in Nat /\ l \in Nat
    BY EggFields, EggAssumption
<1>2. /\ c.details = e.details /\ c.timeout = e.timeout
      /\ Advances(e, x.code, x.flags, x.time) =>
            IF e.mCurrentKeyIndex = d
            THEN c.mCurrentKeyIndex = 1 /\ c.mTotalUsedTime = 0 /\ c.mSatisfied
            ELSE /\ c.mCurrentKeyIndex = e.mCurrentKeyIndex + 1
                 /\ c.mTotalUsedTime = used
                 /\ c.mSatisfied = e.mSatisfied
    <2>1. x.time \in Ages
        OBVIOUS
    <2> QED BY <2>1, CheckKeyEffect
<1>3. Len(a) = l + 1
    BY AppendProperties
<1>4. /\ HeldTime(keys) \in Ages /\ HeldTime(a) = Together(HeldTime(keys), x.time)
      /\ HeldTime(a) \in Ages /\ HeldTime(keys) <= HeldTime(a)
    <2>1. HeldTime(keys) \in Ages /\ HeldTime(a) = Together(HeldTime(keys), x.time)
        BY HeldOfAppend
    <2>2. x.time \in Ages
        OBVIOUS
    <2> HIDE DEF a
    <2> QED BY <2>1, <2>2, AgesAddUp
<1>5. Begins(a, e) <=> Begins(keys, e) /\ l < d /\ Matches(e.details[l + 1], x)
    BY BeginsAppend
<1> HIDE DEF a, c, used
<1>6. SUFFICES ASSUME Begins(a, c), HeldTime(a) <= c.timeout
               PROVE  IF Len(a) < d
                      THEN c.mCurrentKeyIndex = Len(a) + 1 /\ c.mTotalUsedTime = HeldTime(a)
                      ELSE c.mSatisfied
    BY <1>2 DEF Exact, a, c
<1>7. Begins(keys, e) /\ l < d /\ Matches(e.details[l + 1], x) /\ HeldTime(a) <= e.timeout
    <2>1. Begins(a, e)
        BY <1>2, <1>6 DEF Begins
    <2> QED BY <1>2, <1>5, <1>6, <2>1
<1>8. HeldTime(keys) <= e.timeout
    <2>1. HeldTime(keys) \in Int /\ HeldTime(a) \in Int
        BY <1>4, EggAssumption DEF Ages
    <2> QED BY <1>1, <1>4, <1>7, <2>1
<1>9. e.mCurrentKeyIndex = l + 1 /\ e.mTotalUsedTime = HeldTime(keys)
    BY <1>7, <1>8 DEF Exact
<1>10. Advances(e, x.code, x.flags, x.time) /\ used = HeldTime(a)
    BY <1>4, <1>7, <1>9 DEF Advances, Matches, used
<1>11. CASE l + 1 = d
    BY <1>1, <1>2, <1>3, <1>9, <1>10, <1>11
<1>12. CASE l + 1 # d
    BY <1>1, <1>2, <1>3, <1>7, <1>9, <1>10, <1>12
<1> QED BY <1>11, <1>12

-----------------------------------------------------------------------------
(* The invariant of the eggs.                                                 *)

\* How keys of the user are typed: codes and modifiers of the mapping, and a time
Strokes ==
    {[code |-> KeyCodeFromWayland(key, Flags(keys)).code,
      flags |-> KeyCodeFromWayland(key, Flags(keys)).flags, time |-> time]
         : key \in Keys, keys \in SUBSET Keys, time \in Ages}

\* What an egg has to do with what was typed
Fits(e, keys, same) ==
    /\ Begun(e, keys) /\ Done(e, keys)
    /\ same /\ Len(keys) < MaxTyped => Exact(e, keys)
    /\ keys = <<>> => e = Reset(e)

Fitting(keys, same) == {e \in Eggs : Fits(e, keys, same)}

KeysInv ==
    /\ held \subseteq Keys
    /\ gLastKeyPressStartTime \in Ages \cup {Never}

EggsInv ==
    /\ typed \in Seq(Strokes) /\ Len(typed) <= MaxTyped
    /\ sEasterEggs \in Seq(Fitting(typed, sameEggs))
    /\ Descending(sEasterEggs)

\* A stroke has a time.
LEMMA StrokesAreTimed == \A x \in Strokes : x.time \in Ages
BY DEF Strokes

\* Nothing typed, and no key counted
LEMMA ResetFits ==
    ASSUME NEW e \in Eggs, e = Reset(e), NEW same
    PROVE  e \in Fitting(<<>>, same)
<1>1. e.mCurrentKeyIndex = 1 /\ e.mTotalUsedTime = 0 /\ e.mSatisfied = FALSE
    BY ResetEffect
<1>2. Begun(e, <<>>)
    <2>1. <<>> \in Seq({0})
        OBVIOUS
    <2> QED BY <1>1, <2>1, StartIsBegun
<1>3. Done(e, <<>>)
    BY <1>1 DEF Done
<1>4. Exact(e, <<>>)
    <2>1. Len(<<>>) = 0 /\ 0 < Len(e.details)
        BY EggFields
    <2> QED BY <1>1, <2>1, HeldOfNone DEF Exact
<1> QED BY <1>2, <1>3, <1>4 DEF Fitting, Fits

\* The eggs as they are listed
LEMMA ListedEggs ==
    ASSUME EggsInv
    PROVE  /\ DOMAIN sEasterEggs = 1..Len(sEasterEggs) /\ Len(sEasterEggs) \in Nat
           /\ \A i \in DOMAIN sEasterEggs : /\ sEasterEggs[i] \in Eggs
                                            /\ Fits(sEasterEggs[i], typed, sameEggs)
<1>1. sEasterEggs \in Seq(Fitting(typed, sameEggs))
    BY DEF EggsInv
<1>2. /\ DOMAIN sEasterEggs = 1..Len(sEasterEggs) /\ Len(sEasterEggs) \in Nat
      /\ \A i \in DOMAIN sEasterEggs : sEasterEggs[i] \in Fitting(typed, sameEggs)
    BY <1>1, LenProperties, ElementOfSeq
<1> QED BY <1>2 DEF Fitting

\* They are a list of whatever each of them is in.
LEMMA ListOfEach ==
    ASSUME EggsInv, NEW T, \A i \in DOMAIN sEasterEggs : sEasterEggs[i] \in T
    PROVE  sEasterEggs \in Seq(T)
<1>1. sEasterEggs \in Seq(Fitting(typed, sameEggs))
    BY DEF EggsInv
<1>2. DOMAIN sEasterEggs = 1..Len(sEasterEggs) /\ Len(sEasterEggs) \in Nat
    BY ListedEggs
<1>3. sEasterEggs \in [1..Len(sEasterEggs) -> Fitting(typed, sameEggs)]
    BY <1>1, LenProperties
<1>4. sEasterEggs \in [1..Len(sEasterEggs) -> T]
    BY <1>2, <1>3
<1> QED BY <1>2, <1>4

\* Eggs made one by one of those that are listed, of the same size
LEMMA EggsOneByOne ==
    ASSUME EggsInv, NEW T, NEW eggs, eggs = [i \in DOMAIN sEasterEggs |-> eggs[i]],
           \A i \in DOMAIN sEasterEggs : /\ eggs[i] \in T
                                         /\ eggs[i].details = sEasterEggs[i].details
    PROVE  eggs \in Seq(T) /\ Descending(eggs)
<1>1. DOMAIN sEasterEggs = 1..Len(sEasterEggs) /\ Len(sEasterEggs) \in Nat
    BY ListedEggs
<1>2. eggs \in Seq(T)
    <2>1. eggs \in [1..Len(sEasterEggs) -> T]
        BY <1>1
    <2> QED BY <1>1, <2>1
<1>3. DOMAIN eggs = DOMAIN sEasterEggs
    OBVIOUS
<1>4. Descending(sEasterEggs)
    BY DEF EggsInv
<1>5. Descending(eggs)
    BY <1>3, <1>4 DEF Descending
<1> QED BY <1>2, <1>5

\* The file is read, and nothing is typed.
LEMMA InitEggsInv == Init => KeysInv /\ EggsInv
<1> SUFFICES ASSUME Init PROVE KeysInv /\ EggsInv
    OBVIOUS
<1>1. /\ held = {} /\ gLastKeyPressStartTime = Never /\ typed = <<>> /\ InitEggs
    BY DEF Init
<1>2. PICK file \in Files : sEasterEggs = SortEggs([i \in DOMAIN file |-> NewEgg(file[i])])
    BY <1>1 DEF InitEggs
<1> DEFINE T == Fitting(<<>>, sameEggs)
           eggs == [i \in DOMAIN file |-> NewEgg(file[i])]
<1>3. \A spec \in EggSpecs : NewEgg(spec) \in T
    BY NewEggStarts, ResetFits
<1>4. file \in Seq(EggSpecs)
    BY EggAssumption
<1>5. eggs \in Seq(T)
    <2>1. /\ DOMAIN file = 1..Len(file) /\ Len(file) \in Nat
          /\ \A i \in 1..Len(file) : file[i] \in EggSpecs
        BY <1>4, LenProperties, ElementOfSeq
    <2> HIDE DEF T
    <2>2. eggs \in [1..Len(file) -> T]
        BY <1>3, <2>1
    <2> QED BY <2>1, <2>2
<1>6. T \in SUBSET Eggs
    BY DEF Fitting
<1>7. SortEggs(eggs) \in Seq(T) /\ Descending(SortEggs(eggs))
    <2> HIDE DEF T, eggs
    <2> QED BY <1>5, <1>6, SortedEggs
<1>8. typed \in Seq(Strokes) /\ Len(typed) = 0 /\ MaxTyped \in Nat
    BY <1>1, HistoryAssumption
<1>9. EggsInv
    BY <1>1, <1>2, <1>7, <1>8 DEF EggsInv
<1> QED BY <1>1, <1>9 DEF KeysInv

\* Nothing happens to the eggs and what was typed.
LEMMA EggsStay ==
    ASSUME EggsInv, UNCHANGED <<sEasterEggs, typed, sameEggs>>
    PROVE  EggsInv'
BY DEF EggsInv

\* A key that eggs have seen
LEMMA CheckEasterEggsKeeps ==
    ASSUME EggsInv, NEW x \in Strokes, x.code \notin ModifierCodes,
           CheckEasterEggs(x.code, x.flags, x.time), Remember(x.code, x.flags, x.time),
           x = [code |-> x.code, flags |-> x.flags, time |-> x.time]
    PROVE  EggsInv'
<1> DEFINE eggs == [i \in DOMAIN sEasterEggs |-> CheckKey(sEasterEggs[i], x.code, x.flags, x.time)]
           more == LastTyped(Append(typed, x))
<1>1. /\ sEasterEggs' = eggs
      /\ typed' = IF AllReset(sEasterEggs') THEN <<>> ELSE more
      /\ sameEggs' = (sameEggs \/ AllReset(sEasterEggs'))
    BY DEF CheckEasterEggs, Remember
<1>2. /\ typed \in Seq(Strokes) /\ Len(typed) <= MaxTyped /\ Len(typed) \in Nat
      /\ MaxTyped \in Nat
    BY HistoryAssumption DEF EggsInv
<1>3. x.time \in Ages
    BY StrokesAreTimed
<1>4. \A i \in DOMAIN sEasterEggs : /\ sEasterEggs[i] \in Eggs
                                    /\ Fits(sEasterEggs[i], typed, sameEggs)
    BY ListedEggs
<1>5. ASSUME NEW i \in DOMAIN sEasterEggs
      PROVE  eggs[i] \in Eggs /\ eggs[i].details = sEasterEggs[i].details
    BY <1>3, <1>4, CheckKeyEffect
<1>6. DOMAIN eggs = DOMAIN sEasterEggs /\ eggs = [i \in DOMAIN sEasterEggs |-> eggs[i]]
    OBVIOUS
<1>7. CASE AllReset(sEasterEggs')
    <2>1. typed' = <<>>
        BY <1>1, <1>7
    <2>2. \A i \in DOMAIN sEasterEggs : eggs[i] = Reset(eggs[i])
        BY <1>1, <1>6, <1>7 DEF AllReset
    <2> HIDE DEF eggs
    <2>3. \A i \in DOMAIN sEasterEggs : eggs[i] \in Fitting(<<>>, sameEggs')
        BY <1>5, <2>2, ResetFits
    <2>4. eggs \in Seq(Fitting(<<>>, sameEggs')) /\ Descending(eggs)
        BY <1>5, <1>6, <2>3, EggsOneByOne
    <2>5. sEasterEggs' \in Seq(Fitting(typed', sameEggs')) /\ Descending(sEasterEggs')
        BY <1>1, <2>1, <2>4
    <2>6. typed' \in Seq(Strokes) /\ Len(typed') <= MaxTyped
        BY <1>2, <2>1
    <2> QED BY <2>5, <2>6 DEF EggsInv
<1>8. CASE ~AllReset(sEasterEggs')
    <2>1. typed' = more /\ (sameEggs' => sameEggs)
        BY <1>1, <1>8, Zenon
    <2>2. PICK i \in DOMAIN sEasterEggs : eggs[i] # Reset(eggs[i])
        BY <1>1, <1>6, <1>8 DEF AllReset
    <2>3. MaxTyped > 0
        <3>1. MaxTyped > Len(sEasterEggs[i].details) /\ Len(sEasterEggs[i].details) \in Nat
            BY <1>4, EggFits, EggFields
        <3> QED BY <1>2, <3>1
    <2>4. /\ more \in Seq(Strokes)
          /\ Len(more) = IF Len(typed) < MaxTyped THEN Len(typed) + 1 ELSE MaxTyped
          /\ Len(typed) < MaxTyped => more = Append(typed, x)
        BY <1>2, <2>3, OneMoreTyped
    <2>5. ASSUME NEW j \in DOMAIN sEasterEggs PROVE eggs[j] \in Fitting(more, sameEggs')
        <3> DEFINE e == sEasterEggs[j]
                   c == CheckKey(e, x.code, x.flags, x.time)
        <3>1. /\ e \in Eggs /\ Begun(e, typed) /\ Done(e, typed)
              /\ sameEggs /\ Len(typed) < MaxTyped => Exact(e, typed)
            BY <1>4 DEF Fits
        <3>2. eggs[j] = c /\ c \in Eggs
            BY <1>5
        <3> HIDE DEF e
        <3>3. Begun(c, more) /\ Done(c, more)
            BY <1>2, <3>1, StrokesAreTimed, CheckKeyKeeps
        <3>4. Exact(e, typed) => Exact(c, Append(typed, x))
            BY <1>2, <3>1, StrokesAreTimed, CheckKeyIsExact
        <3> HIDE DEF c, more
        <3>5. Len(more) < MaxTyped => Len(typed) < MaxTyped
            BY <1>2, <2>4
        <3>6. sameEggs' /\ Len(more) < MaxTyped => Exact(c, more)
            BY <2>1, <2>4, <3>1, <3>4, <3>5
        <3>7. more # <<>>
            BY <1>2, <2>3, <2>4
        <3> QED BY <3>2, <3>3, <3>6, <3>7 DEF Fitting, Fits
    <2> HIDE DEF eggs, more
    <2>6. eggs \in Seq(Fitting(more, sameEggs')) /\ Descending(eggs)
        BY <1>5, <1>6, <2>5, EggsOneByOne
    <2>7. sEasterEggs' \in Seq(Fitting(typed', sameEggs')) /\ Descending(sEasterEggs')
        BY <1>1, <2>1, <2>6
    <2>8. typed' \in Seq(Strokes) /\ Len(typed') <= MaxTyped
        BY <1>2, <2>1, <2>3, <2>4
    <2> QED BY <2>7, <2>8 DEF EggsInv
<1> QED BY <1>7, <1>8

\* A key of the user comes up.
LEMMA ReleaseKeeps ==
    ASSUME KeysInv, EggsInv, NEW key \in Keys, Release(key)
    PROVE  EggsInv'
<1>1. CASE mKeyInputsIgnored
    BY <1>1, EggsStay DEF Release, NoKeyEvent, history
<1>2. CASE ~mKeyInputsIgnored
    <2> DEFINE mapped == KeyCodeFromWayland(key, Flags(held'))
               x == [code |-> mapped.code, flags |-> mapped.flags, time |-> HeldFor]
    <2>1. /\ CheckEasterEggs(mapped.code, mapped.flags, HeldFor)
          /\ Remember(mapped.code, mapped.flags, HeldFor)
        BY <1>2 DEF Release
    <2>2. CASE mapped.code \in ModifierCodes
        <3>1. UNCHANGED <<sEasterEggs, typed, sameEggs>>
            BY <2>1, <2>2 DEF CheckEasterEggs, Remember, history
        <3> QED BY <3>1, EggsStay
    <2>3. CASE mapped.code \notin ModifierCodes
        <3>1. HeldFor \in Ages
            BY EggAssumption DEF HeldFor, KeysInv, Ages, Never
        <3>2. held' \in SUBSET Keys
            BY DEF Release, KeysInv
        <3>3. x \in Strokes
            BY <3>1, <3>2 DEF Strokes
        <3>4. x.code = mapped.code /\ x.flags = mapped.flags /\ x.time = HeldFor
            OBVIOUS
        <3>5. x = [code |-> x.code, flags |-> x.flags, time |-> x.time]
            OBVIOUS
        <3> HIDE DEF x
        <3> QED BY <2>1, <2>3, <3>3, <3>4, <3>5, CheckEasterEggsKeeps
    <2> QED BY <2>2, <2>3
<1> QED BY <1>1, <1>2

\* An egg is added or removed.
LEMMA ChangeKeeps ==
    ASSUME EggsInv, ChangeEasterEggs
    PROVE  EggsInv'
<1> DEFINE T == Fitting(typed, sameEggs')
<1>1. typed' = typed /\ sameEggs' = (typed = <<>>)
    BY DEF ChangeEasterEggs
<1>2. T \in SUBSET Eggs
    BY DEF Fitting
<1>3. typed \in Seq(Strokes) /\ Len(typed) \in Nat
    BY DEF EggsInv
<1>4. \A e \in Eggs : e = Reset(e) => e \in T
    <2> SUFFICES ASSUME NEW e \in Eggs, e = Reset(e) PROVE e \in T
        OBVIOUS
    <2>1. CASE typed = <<>>
        BY <2>1, ResetFits
    <2>2. CASE typed # <<>>
        <3>1. e.mCurrentKeyIndex = 1 /\ e.mTotalUsedTime = 0 /\ e.mSatisfied = FALSE
            BY ResetEffect
        <3>2. Begun(e, typed)
            BY <1>3, <3>1, StartIsBegun
        <3>3. Done(e, typed)
            BY <3>1 DEF Done
        <3>4. ~sameEggs'
            BY <1>1, <2>2, Zenon
        <3> QED BY <2>2, <3>2, <3>3, <3>4 DEF Fitting, Fits
    <2> QED BY <2>1, <2>2
<1>5. \A i \in DOMAIN sEasterEggs : sEasterEggs[i] \in T
    <2> SUFFICES ASSUME NEW i \in DOMAIN sEasterEggs PROVE sEasterEggs[i] \in T
        OBVIOUS
    <2> DEFINE e == sEasterEggs[i]
    <2>1. e \in Eggs /\ Fits(e, typed, sameEggs)
        BY ListedEggs
    <2> HIDE DEF e
    <2>2. CASE typed = <<>>
        <3>1. e = Reset(e)
            BY <2>1, <2>2 DEF Fits
        <3> QED BY <1>4, <2>1, <3>1 DEF e
    <2>3. CASE typed # <<>>
        <3>1. ~sameEggs'
            BY <1>1, <2>3, Zenon
        <3> QED BY <2>1, <2>3, <3>1 DEF Fitting, Fits, e
    <2> QED BY <2>2, <2>3
<1> HIDE DEF T
<1>6. sEasterEggs \in Seq(T) /\ DOMAIN sEasterEggs = 1..Len(sEasterEggs)
    BY <1>5, ListedEggs, ListOfEach
<1>7. ASSUME NEW spec \in EggSpecs, AddEasterEgg(spec)
      PROVE  sEasterEggs' \in Seq(T) /\ Descending(sEasterEggs')
    <2>1. NewEgg(spec) \in T
        BY <1>4, NewEggStarts
    <2>2. Append(sEasterEggs, NewEgg(spec)) \in Seq(T)
        BY <1>6, <2>1, AppendProperties
    <2>3. sEasterEggs' = SortEggs(Append(sEasterEggs, NewEgg(spec)))
        BY <1>7 DEF AddEasterEgg
    <2> QED BY <1>2, <2>2, <2>3, SortedEggs
<1>8. ASSUME NEW spec \in EggSpecs, RemoveEasterEgg(spec.name)
      PROVE  sEasterEggs' \in Seq(T) /\ Descending(sEasterEggs')
    <2> DEFINE named == {i \in DOMAIN sEasterEggs : sEasterEggs[i].name = spec.name}
    <2>1. sEasterEggs' = SortEggs(IF named = {} THEN sEasterEggs
                                  ELSE RemoveAt(sEasterEggs, Min(named)))
        BY <1>8 DEF RemoveEasterEgg
    <2>2. CASE named = {}
        BY <1>2, <1>6, <2>1, <2>2, SortedEggs
    <2>3. CASE named # {}
        <3>1. Min(named) \in 1..Len(sEasterEggs)
            <4>1. named \in SUBSET Nat
                BY <1>6
            <4>2. named \subseteq 1..Len(sEasterEggs)
                BY <1>6
            <4> HIDE DEF named
            <4>3. Min(named) \in named
                BY <2>3, <4>1, Smallest DEF Min
            <4> QED BY <4>2, <4>3
        <3>2. RemoveAt(sEasterEggs, Min(named)) \in Seq(T)
            BY <1>6, <3>1, RemoveAtElements
        <3> QED BY <1>2, <2>1, <2>3, <3>2, SortedEggs
    <2> QED BY <2>2, <2>3
<1>9. sEasterEggs' \in Seq(T) /\ Descending(sEasterEggs')
    BY <1>7, <1>8 DEF ChangeEasterEggs
<1> QED BY <1>1, <1>3, <1>9 DEF EggsInv, T

\* An event is sent, if it is time for one.
LEMMA UpdateKeeps ==
    ASSUME EggsInv, Update
    PROVE  EggsInv'
<1>1. /\ ResolveWaitingEasterEggs
      /\ typed' = IF ToResolve THEN <<>> ELSE typed
      /\ sameEggs' = (sameEggs \/ ToResolve)
    BY DEF Update
<1>2. CASE ToResolve
    <2> DEFINE eggs == [i \in DOMAIN sEasterEggs |-> Reset(sEasterEggs[i])]
    <2>1. sEasterEggs' = eggs /\ typed' = <<>>
        BY <1>1, <1>2 DEF ResolveWaitingEasterEggs
    <2>2. ASSUME NEW i \in DOMAIN sEasterEggs
          PROVE  /\ eggs[i] \in Fitting(<<>>, sameEggs')
                 /\ eggs[i].details = sEasterEggs[i].details
        <3>1. sEasterEggs[i] \in Eggs
            BY ListedEggs
        <3>2. /\ eggs[i] \in Eggs /\ eggs[i] = Reset(eggs[i])
              /\ eggs[i].details = sEasterEggs[i].details
            BY <3>1, ResetEffect
        <3> HIDE DEF eggs
        <3> QED BY <3>2, ResetFits
    <2>3. eggs = [i \in DOMAIN sEasterEggs |-> eggs[i]]
        OBVIOUS
    <2> HIDE DEF eggs
    <2>4. eggs \in Seq(Fitting(<<>>, sameEggs')) /\ Descending(eggs)
        BY <2>2, <2>3, EggsOneByOne
    <2>5. typed' \in Seq(Strokes) /\ Len(typed') <= MaxTyped
        BY <2>1, HistoryAssumption
    <2> QED BY <2>1, <2>4, <2>5 DEF EggsInv
<1>3. CASE ~ToResolve
    <2>1. sEasterEggs' = sEasterEggs /\ typed' = typed
        BY <1>1, <1>3 DEF ResolveWaitingEasterEggs
    <2>2. sameEggs' => sameEggs
        BY <1>1, <1>3, Zenon
    <2>3. ASSUME NEW i \in DOMAIN sEasterEggs
          PROVE  sEasterEggs[i] \in Fitting(typed, sameEggs')
        <3>1. sEasterEggs[i] \in Eggs /\ Fits(sEasterEggs[i], typed, sameEggs)
            BY ListedEggs
        <3> QED BY <2>2, <3>1 DEF Fitting, Fits
    <2>4. sEasterEggs \in Seq(Fitting(typed, sameEggs'))
        BY <2>3, ListOfEach
    <2> QED BY <2>1, <2>4 DEF EggsInv
<1> QED BY <1>2, <1>3

\* What else a step does does not concern the eggs.
LEMMA NextEggsInv == KeysInv /\ EggsInv /\ [Next]_vars => (KeysInv /\ EggsInv)'
<1> SUFFICES ASSUME KeysInv, EggsInv, [Next]_vars PROVE KeysInv' /\ EggsInv'
    OBVIOUS
<1> USE DEF settings, timers, history, NoKeyEvent
<1>1. ASSUME NEW key \in Keys, Press(key) PROVE KeysInv' /\ EggsInv'
    <2>1. UNCHANGED <<sEasterEggs, typed, sameEggs>>
        BY <1>1 DEF Press
    <2>2. KeysInv'
        BY <1>1, EggAssumption DEF Press, KeysInv, Ages
    <2> QED BY <2>1, <2>2, EggsStay
<1>2. ASSUME NEW key \in Keys, Release(key) PROVE KeysInv' /\ EggsInv'
    <2>1. KeysInv'
        BY <1>2 DEF Release, KeysInv
    <2> QED BY <1>2, <2>1, ReleaseKeeps
<1>3. ASSUME NEW ignore \in BOOLEAN, IgnoreKeyInputs(ignore) PROVE KeysInv' /\ EggsInv'
    BY <1>3, EggsStay DEF IgnoreKeyInputs, KeysInv
<1>4. ASSUME NEW code \in GeneratedCodes, NEW duration \in Durations, GenerateKey(code, duration)
      PROVE  KeysInv' /\ EggsInv'
    BY <1>4, EggsStay DEF GenerateKey, KeysInv
<1>5. ASSUME NEW enable \in BOOLEAN, SetKeyRepeats(enable) \/ EnableInactivityReporting(enable)
      PROVE  KeysInv' /\ EggsInv'
    BY <1>5, EggsStay DEF SetKeyRepeats, EnableInactivityReporting, Setting, KeysInv
<1>6. ASSUME NEW config \in RepeatConfigs, SetKeyRepeatConfig(config) PROVE KeysInv' /\ EggsInv'
    BY <1>6, EggsStay DEF SetKeyRepeatConfig, Setting, KeysInv
<1>7. ASSUME NEW interval \in Intervals, SetInactivityInterval(interval)
      PROVE  KeysInv' /\ EggsInv'
    BY <1>7, EggsStay DEF SetInactivityInterval, KeysInv
<1>8. CASE ResetInactivityTime
    BY <1>8, EggsStay DEF ResetInactivityTime, KeysInv
<1>9. CASE ChangeEasterEggs
    <2>1. KeysInv'
        BY <1>9 DEF ChangeEasterEggs, KeysInv
    <2> QED BY <1>9, <2>1, ChangeKeeps
<1>10. CASE Update
    <2>1. KeysInv'
        BY <1>10 DEF Update, KeysInv
    <2> QED BY <1>10, <2>1, UpdateKeeps
<1>11. CASE Tick
    <2>1. UNCHANGED <<sEasterEggs, typed, sameEggs>>
        BY <1>11 DEF Tick
    <2>2. KeysInv'
        BY <1>11, OlderAges, EggAssumption DEF Tick, KeysInv, AgeOf, Ages
    <2> QED BY <2>1, <2>2, EggsStay
<1>12. CASE UNCHANGED vars
    BY <1>12, EggsStay DEF vars, KeysInv, eggVars
<1> QED BY <1>1, <1>2, <1>3, <1>4, <1>5, <1>6, <1>7, <1>8, <1>9, <1>10, <1>11, <1>12 DEF Next

-----------------------------------------------------------------------------
(* What the invariant says of the events.                                     *)

\* The event is of the first egg that is complete, in a frame.
LEMMA EventIsOfAnEgg ==
    ASSUME EggsInv, Next, egg' # NoEgg
    PROVE  \E k \in DOMAIN sEasterEggs :
              /\ egg' = sEasterEggs[k].name
              /\ sEasterEggs[k].mSatisfied
              /\ \A i \in DOMAIN sEasterEggs : sEasterEggs[i].mSatisfied => k <= i
<1>1. Update
    BY DEF Next, NoEvent, Press, Release, IgnoreKeyInputs, GenerateKey, SetKeyRepeats,
           EnableInactivityReporting, Setting, SetKeyRepeatConfig, SetInactivityInterval,
           ResetInactivityTime, ChangeEasterEggs, Tick
<1> DEFINE S == Satisfied(sEasterEggs)
<1>2. S # {} /\ egg' = sEasterEggs[Min(S)].name
    BY <1>1 DEF Update, ResolveWaitingEasterEggs
<1>3. S \in SUBSET Nat
    BY ListedEggs DEF Satisfied
<1>4. \A i : i \in S <=> i \in DOMAIN sEasterEggs /\ sEasterEggs[i].mSatisfied
    BY DEF Satisfied
<1> HIDE DEF S
<1>5. Min(S) \in S /\ \A i \in S : Min(S) <= i
    BY <1>2, <1>3, Smallest DEF Min
<1> QED BY <1>2, <1>4, <1>5

\* An egg sends its event only if its keys have been typed one after the other
\* since the last event, with their modifiers, each long enough and all in time:
\* checkKey() and resolveWaitingEasterEggs() of eastereggs.cpp, for any eggs that
\* are added and removed meanwhile.
THEOREM EggsAreTyped == Spec => EggWasTyped
<1>1. ASSUME EggsInv, Next, egg' # NoEgg
      PROVE  \E first, last \in DOMAIN typed : Types(SubSeq(typed, first, last), SpecNamed(egg'))
    <2>1. PICK k \in DOMAIN sEasterEggs : egg' = sEasterEggs[k].name /\ sEasterEggs[k].mSatisfied
        BY <1>1, EventIsOfAnEgg
    <2> DEFINE e == sEasterEggs[k]
               n == e.mCurrentKeyIndex - 1
               d == Len(e.details)
               first == Len(typed) - n - d + 1
               last == Len(typed) - n
    <2>2. e \in Eggs /\ Done(e, typed)
        BY <1>1, ListedEggs DEF Fits
    <2>3. n + d <= Len(typed) /\ Types(Window(typed, n, d), SpecNamed(egg'))
        BY <2>1, <2>2 DEF Done
    <2>4. n \in Nat /\ d \in Nat \ {0}
        BY <2>2, EggFields
    <2>5. DOMAIN typed = 1..Len(typed) /\ Len(typed) \in Nat
        BY <1>1, LenProperties DEF EggsInv
    <2> HIDE DEF n, d
    <2>6. first \in DOMAIN typed /\ last \in DOMAIN typed
        BY <2>3, <2>4, <2>5
    <2>7. Window(typed, n, d) = SubSeq(typed, first, last)
        BY DEF Window
    <2> HIDE DEF first, last
    <2> QED BY <2>3, <2>6, <2>7
<1>2. KeysInv /\ EggsInv /\ [Next]_vars
         => [egg' # NoEgg => \E first, last \in DOMAIN typed :
                Types(SubSeq(typed, first, last), SpecNamed(egg'))]_vars
    BY <1>1
<1> QED BY <1>2, InitEggsInv, NextEggsInv, PTL DEF Spec, EggWasTyped

\* Keys typed from the start of all eggs that are the whole sequence of one
\* complete it, whatever else counts them: checkKey() of eastereggs.cpp.
THEOREM TypedEggsComplete == Spec => []EggCompletes
<1>1. KeysInv /\ EggsInv => EggCompletes
    <2> SUFFICES ASSUME EggsInv, sameEggs, NEW i \in DOMAIN sEasterEggs,
                        Types(typed, SpecNamed(sEasterEggs[i].name))
                 PROVE  sEasterEggs[i].mSatisfied
        BY DEF EggCompletes
    <2>1. sEasterEggs[i] \in Eggs /\ Fits(sEasterEggs[i], typed, sameEggs)
        BY ListedEggs
    <2>2. typed \in Seq(Strokes)
        BY DEF EggsInv
    <2>3. /\ Len(typed) = Len(sEasterEggs[i].details) /\ Begins(typed, sEasterEggs[i])
          /\ HeldTime(typed) <= sEasterEggs[i].timeout
        BY <2>1, <2>2, TypesEgg
    <2>4. Len(typed) < MaxTyped /\ ~(Len(typed) < Len(sEasterEggs[i].details))
        BY <2>1, <2>3, EggFits, EggFields
    <2>5. Exact(sEasterEggs[i], typed)
        BY <2>1, <2>4 DEF Fits
    <2> QED BY <2>3, <2>4, <2>5 DEF Exact
<1> QED BY <1>1, InitEggsInv, NextEggsInv, PTL DEF Spec

\* Of the eggs that are complete at one time one with the longest sequence sends
\* its event: addEasterEgg() and removeEasterEgg() keep the list of eastereggs.cpp
\* sorted, and checkEasterEggs() leaves every egg in its place.
THEOREM LongestEggIsSent == Spec => LongestEggWins
<1>1. ASSUME EggsInv, Next, egg' # NoEgg, NEW i \in DOMAIN sEasterEggs, sEasterEggs[i].mSatisfied
      PROVE  Len(sEasterEggs[i].details) <= Len(SpecNamed(egg').details)
    <2>1. PICK k \in DOMAIN sEasterEggs : egg' = sEasterEggs[k].name /\ k <= i
        BY <1>1, EventIsOfAnEgg
    <2>2. sEasterEggs[k] \in Eggs /\ sEasterEggs[i] \in Eggs /\ k \in Nat /\ i \in Nat
        BY <1>1, ListedEggs
    <2>3. SpecNamed(egg').details = sEasterEggs[k].details
        BY <2>1, <2>2, EggFields
    <2>4. Len(sEasterEggs[i].details) \in Nat /\ Len(sEasterEggs[k].details) \in Nat
        BY <2>2, EggFields
    <2>5. k < i => Len(sEasterEggs[k].details) >= Len(sEasterEggs[i].details)
        BY <1>1 DEF EggsInv, Descending
    <2>6. k = i \/ k < i
        BY <2>1, <2>2
    <2> QED BY <2>3, <2>4, <2>5, <2>6
<1>2. KeysInv /\ EggsInv /\ [Next]_vars
         => [egg' # NoEgg => \A i \in DOMAIN sEasterEggs : sEasterEggs[i].mSatisfied
                => Len(sEasterEggs[i].details) <= Len(SpecNamed(egg').details)]_vars
    BY <1>1
<1> QED BY <1>2, InitEggsInv, NextEggsInv, PTL DEF Spec, LongestEggWins

=============================================================================
