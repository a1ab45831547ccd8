------------------------ MODULE MemoryMonitor_proofs ------------------------
(* Theorems about MemoryMonitor, for any amounts, thresholds and window.      *)
EXTENDS MemoryMonitor, TLAPS

LowCondition == MemoryIsLow \/ SwapIncreased

\* What the thread knows at each place, as long as no threshold changes: the
\* evaluation is under way with the outcome so far, or over with its warnings out.
EvaluationInv ==
    steady =>
       /\ at \in {"read", "measure", "sleep", "done"} =>
             /\ gLowRamMemoryNotificationSent <=> LowCondition
             /\ gCriticallyLowRamMemoryNotificationSent <=> (MemoryIsCritical /\ LowCondition)
       /\ at = "swap" => ~MemoryIsLow
       /\ at \in {"warn", "critical"} => LowCondition
       /\ at = "clear" => ~LowCondition

\* The inductive invariant.  That the critical warning is inside the other
\* needs the place in between where only the other has been sent, and that the
\* warnings match needs the outcome of the reads on the way to "sleep".
IInv ==
    /\ TypeOK
    /\ at = "start" => ~steady
    /\ at = "critical" => gLowRamMemoryNotificationSent
    /\ CriticalInsideLow
    /\ EvaluationInv
    /\ heardAll => listener
    /\ ListenerKnows

USE DEF Places, Setting, Warnings, thresholds, sentFlags, measured, events, settings,
        MutexIsFree, Goto

\* The thresholds and the measurement are comparable.
LEMMA Numbers ==
    ASSUME TypeOK
    PROVE  /\ availableMb \in Int
           /\ gLowRamMemoryThresholdInMb \in Int
           /\ gCriticallyLowRamMemoryThresholdInMb \in Int
BY MemoryAssumption DEF TypeOK

\* Everything starts silent and unmeasured.
LEMMA InitIInv == Init => IInv
<1> SUFFICES ASSUME Init PROVE IInv
    OBVIOUS
<1>1. swaps \in [1..Window -> Swap]
    BY DEF Init
<1>2. TypeOK
    BY <1>1 DEF Init, TypeOK
<1> QED BY <1>2 DEF Init, IInv, CriticalInsideLow, EvaluationInv, ListenerKnows

\* A threshold that changes makes the evaluation unsteady; nothing else in
\* setMemoryMonitor() touches what the invariant is about.
LEMMA SetIInv == IInv /\ Set => IInv'
<1> SUFFICES ASSUME IInv, Set PROVE IInv'
    OBVIOUS
<1> USE DEF IInv, CriticalInsideLow, ListenerKnows
<1>1. CASE BeginSet
    BY <1>1 DEF BeginSet, TypeOK, EvaluationInv, LowCondition, MemoryIsLow, SwapIncreased, MemoryIsCritical
<1>2. CASE SetCritical
    <2>1. TypeOK'
        BY <1>2 DEF SetCritical, TypeOK
    <2>2. EvaluationInv'
        BY <1>2 DEF SetCritical, EvaluationInv, LowCondition, MemoryIsLow, SwapIncreased, MemoryIsCritical
    <2> QED BY <1>2, <2>1, <2>2 DEF SetCritical
<1>3. CASE SetEnable
    <2>1. TypeOK'
        BY <1>3 DEF SetEnable, TypeOK
    <2>2. EvaluationInv'
        BY <1>3 DEF SetEnable, EvaluationInv, LowCondition, MemoryIsLow, SwapIncreased, MemoryIsCritical
    <2> QED BY <1>3, <2>1, <2>2 DEF SetEnable
<1>4. CASE SetLow
    <2>1. TypeOK'
        BY <1>4 DEF SetLow, TypeOK
    <2>2. EvaluationInv'
        BY <1>4 DEF SetLow, EvaluationInv, LowCondition, MemoryIsLow, SwapIncreased, MemoryIsCritical
    <2> QED BY <1>4, <2>1, <2>2 DEF SetLow
<1>5. CASE SetSwapLimit
    <2>1. TypeOK'
        BY <1>5 DEF SetSwapLimit, TypeOK
    <2>2. EvaluationInv'
        BY <1>5 DEF SetSwapLimit, EvaluationInv, LowCondition, MemoryIsLow, SwapIncreased, MemoryIsCritical
    <2> QED BY <1>5, <2>1, <2>2 DEF SetSwapLimit
<1>6. CASE EndSet
    <2>1. TypeOK'
        BY <1>6 DEF EndSet, TypeOK, Clamped
    <2>2. EvaluationInv'
        BY <1>6 DEF EndSet, EvaluationInv, LowCondition, MemoryIsLow, SwapIncreased, MemoryIsCritical
    <2> QED BY <1>6, <2>1, <2>2 DEF EndSet
<1> QED BY <1>1, <1>2, <1>3, <1>4, <1>5, <1>6 DEF Set

\* The calls that change neither a threshold nor a warning.
LEMMA CallsIInv ==
    ASSUME IInv,
           \/ \E enable \in BOOLEAN : SetEnableAndInterval(enable)
           \/ Deinitialize
           \/ \E present \in BOOLEAN : SetEventListener(present)
    PROVE  IInv'
<1>1. ASSUME NEW enable \in BOOLEAN, SetEnableAndInterval(enable)
      PROVE  IInv'
    BY <1>1 DEF IInv, CriticalInsideLow, ListenerKnows, SetEnableAndInterval, TypeOK, EvaluationInv,
                LowCondition, MemoryIsLow, SwapIncreased, MemoryIsCritical
<1>2. CASE Deinitialize
    BY ZenonT(40), <1>2 DEF IInv, CriticalInsideLow, ListenerKnows, Deinitialize, TypeOK, EvaluationInv,
                LowCondition, MemoryIsLow, SwapIncreased, MemoryIsCritical
<1>3. ASSUME NEW present \in BOOLEAN, SetEventListener(present)
      PROVE  IInv'
    <2>1. TypeOK'
        BY <1>3 DEF SetEventListener, IInv, TypeOK
    <2>2. EvaluationInv' /\ CriticalInsideLow'
        BY <1>3 DEF SetEventListener, IInv, CriticalInsideLow, EvaluationInv, LowCondition,
                    MemoryIsLow, SwapIncreased, MemoryIsCritical
    <2>3. (heardAll => listener)' /\ ListenerKnows'
        <3>1. CASE present
            BY <1>3, <3>1, Zenon DEF SetEventListener, ListenerKnows
        <3>2. CASE ~present
            BY <1>3, <3>2, Zenon DEF SetEventListener, ListenerKnows
        <3> QED BY <3>1, <3>2
    <2> QED BY <1>3, <2>1, <2>2, <2>3 DEF SetEventListener, IInv
<1> QED BY <1>1, <1>2, <1>3

\* The steps of the thread that read: each carries what it has read to the
\* place it goes to.
LEMMA ReadsIInv ==
    ASSUME IInv,
           Start \/ ReadEnabled \/ Measure \/ FailToMeasure \/ ReadLow \/ ReadSwapLimit \/ Sleep
    PROVE  IInv'
<1> USE DEF IInv, CriticalInsideLow, ListenerKnows
<1>1. CASE Start
    BY <1>1 DEF Start, TypeOK, EvaluationInv
<1>2. CASE ReadEnabled
    BY <1>2 DEF ReadEnabled, TypeOK, EvaluationInv, LowCondition, MemoryIsLow, SwapIncreased,
                MemoryIsCritical
<1>3. CASE Measure
    <2>1. TypeOK'
        <3>1. PICK used \in Swap :
                 swaps' = [i \in 1..Window |-> IF i < Window THEN swaps[i + 1] ELSE used]
            BY <1>3 DEF Measure
        <3>2. \A i \in 1..Window : i < Window => i + 1 \in 1..Window
            BY MemoryAssumption
        <3>3. swaps' \in [1..Window -> Swap]
            BY <3>1, <3>2 DEF TypeOK
        <3> QED BY <1>3, <3>3 DEF Measure, TypeOK
    <2> QED BY <1>3, <2>1 DEF Measure, EvaluationInv
<1>4. CASE FailToMeasure
    BY <1>4 DEF FailToMeasure, TypeOK, EvaluationInv, LowCondition, MemoryIsLow, SwapIncreased,
                MemoryIsCritical
<1>5. CASE ReadLow
    BY <1>5 DEF ReadLow, TypeOK, EvaluationInv, LowCondition, MemoryIsLow, SwapIncreased,
                MemoryIsCritical
<1>6. CASE ReadSwapLimit
    BY <1>6 DEF ReadSwapLimit, TypeOK, EvaluationInv, LowCondition, MemoryIsLow, SwapIncreased,
                MemoryIsCritical
<1>7. CASE Sleep
    BY <1>7 DEF Sleep, TypeOK, EvaluationInv, LowCondition, MemoryIsLow, SwapIncreased,
                MemoryIsCritical
<1> QED BY <1>1, <1>2, <1>3, <1>4, <1>5, <1>6, <1>7

\* The steps that send: flag and event change together.
LEMMA SendsIInv ==
    ASSUME IInv, WarnLow \/ WarnCritical \/ Clear
    PROVE  IInv'
<1> USE DEF IInv, CriticalInsideLow, ListenerKnows, SendEvents
<1>1. CASE WarnLow
    <2>1. TypeOK'
        BY <1>1 DEF WarnLow, TypeOK
    <2>2. EvaluationInv'
        BY <1>1 DEF WarnLow, EvaluationInv, LowCondition, MemoryIsLow, SwapIncreased, MemoryIsCritical
    <2>3. ListenerKnows'
        BY <1>1 DEF WarnLow, TypeOK
    <2> QED BY <1>1, <2>1, <2>2, <2>3 DEF WarnLow
<1>2. CASE WarnCritical
    <2>1. MemoryIsCritical \in BOOLEAN
        BY DEF MemoryIsCritical
    <2>2. TypeOK'
        BY <1>2, <2>1 DEF WarnCritical, TypeOK
    <2>3. EvaluationInv'
        BY <1>2, <2>1 DEF WarnCritical, EvaluationInv, LowCondition, MemoryIsLow, SwapIncreased,
                          MemoryIsCritical, TypeOK
    <2>4. ListenerKnows'
        BY <1>2, <2>1 DEF WarnCritical, TypeOK
    <2> QED BY <1>2, <2>1, <2>2, <2>3, <2>4 DEF WarnCritical
<1>3. CASE Clear
    <2>1. TypeOK'
        BY <1>3 DEF Clear, TypeOK
    <2>2. EvaluationInv'
        BY <1>3 DEF Clear, EvaluationInv, LowCondition, MemoryIsLow, SwapIncreased, MemoryIsCritical
    <2>3. ListenerKnows'
        BY <1>3 DEF Clear, TypeOK
    <2> QED BY <1>3, <2>1, <2>2, <2>3 DEF Clear
<1> QED BY <1>1, <1>2, <1>3

-----------------------------------------------------------------------------
\* Every step of the monitor thread and of every call keeps the invariant.
LEMMA NextIInv == IInv /\ [Next]_vars => IInv'
<1> SUFFICES ASSUME IInv, [Next]_vars PROVE IInv'
    OBVIOUS
<1>1. CASE Set
    BY <1>1, SetIInv
<1>2. CASE \/ \E enable \in BOOLEAN : SetEnableAndInterval(enable)
           \/ Deinitialize
           \/ \E present \in BOOLEAN : SetEventListener(present)
    BY <1>2, CallsIInv
<1>3. CASE Start \/ ReadEnabled \/ Measure \/ FailToMeasure \/ ReadLow \/ ReadSwapLimit \/ Sleep
    BY <1>3, ReadsIInv
<1>4. CASE WarnLow \/ WarnCritical \/ Clear
    BY <1>4, SendsIInv
<1>5. CASE UNCHANGED vars
    BY <1>5 DEF vars, IInv, TypeOK, CriticalInsideLow, ListenerKnows, EvaluationInv,
                LowCondition, MemoryIsLow, SwapIncreased, MemoryIsCritical
<1> QED BY <1>1, <1>2, <1>3, <1>4, <1>5 DEF Next, Monitor

\* The invariant holds in every behaviour.
THEOREM MonitorInvariance == Spec => []IInv
<1> QED BY InitIInv, NextIInv, PTL DEF Spec

\* The variables keep their types, the events told to a listener among them.
THEOREM MonitorTypeCorrectness == Spec => []TypeOK
<1>1. IInv => TypeOK
    BY DEF IInv
<1> QED BY <1>1, MonitorInvariance, PTL

\* The warnings out match the last measurement whenever the thread is done with
\* it and no threshold has changed (evaluateMemoryUsage, rdkshell.cpp 208-247).
THEOREM WarningsMatchMeasurement == Spec => []WarningsMatch
<1>1. IInv => WarningsMatch
    BY DEF IInv, EvaluationInv, LowCondition, WarningsMatch, Evaluated
<1> QED BY <1>1, MonitorInvariance, PTL

\* The critical warning is never out without the other.
THEOREM CriticalStaysInsideLow == Spec => []CriticalInsideLow
<1>1. IInv => CriticalInsideLow
    BY DEF IInv
<1> QED BY <1>1, MonitorInvariance, PTL

\* A listener that missed nothing knows the warnings that are out.
THEOREM ListenerStaysInformed == Spec => []ListenerKnows
<1>1. IInv => ListenerKnows
    BY DEF IInv
<1> QED BY <1>1, MonitorInvariance, PTL

\* setMemoryMonitor() leaves the critical threshold at most at the other.
THEOREM ThresholdsStayOrdered == Spec => ThresholdsOrdered
<1>1. IInv /\ [Next]_vars
        => [setter # "out" /\ setter' = "out"
              => gCriticallyLowRamMemoryThresholdInMb' <= gLowRamMemoryThresholdInMb']_vars
    <2> SUFFICES ASSUME IInv, Next, setter # "out", setter' = "out"
                 PROVE  gCriticallyLowRamMemoryThresholdInMb' <= gLowRamMemoryThresholdInMb'
        BY DEF vars
    <2>1. EndSet
        BY DEF Next, Set, BeginSet, SetCritical, SetEnable, SetLow, SetSwapLimit,
               SetEnableAndInterval, Deinitialize, SetEventListener, Monitor, Start, ReadEnabled,
               Measure, FailToMeasure, ReadLow, ReadSwapLimit, WarnLow, WarnCritical, Clear, Sleep
    <2> QED BY <2>1, Numbers DEF EndSet, Clamped, IInv
<1> QED BY <1>1, MonitorInvariance, PTL DEF Spec, ThresholdsOrdered

=============================================================================
