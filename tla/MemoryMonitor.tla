---------------------------- MODULE MemoryMonitor ----------------------------
(* The memory monitor of RDKShell: a thread that measures the memory at an    *)
(* interval and sends a warning, or takes it back, when a threshold is        *)
(* crossed; setMemoryMonitor(), which changes the thresholds one by one under *)
(* a mutex; and the listener that the events go to.                           *)
(*                                                                            *)
(* The thread takes the mutex to read the enabled flag and the interval and   *)
(* to read gRunMemoryMonitor, and not to read the thresholds.  A threshold is *)
(* taken to be read and written in one piece.                                 *)
(*                                                                            *)
(* Operators named Bug... are deliberate mistakes used to test that the       *)
(* properties can fail; no specification uses them.                           *)
EXTENDS Integers, Sequences

CONSTANTS
    Memory,       \* amounts of available memory
    Thresholds,   \* values of the two memory thresholds
    Swap,         \* amounts of used swap
    SwapLimits,   \* values of the swap threshold
    Window        \* how many measurements of swap are kept: 5 in the code

ASSUME MemoryAssumption ==
    /\ Window \in Nat /\ Window > 1
    /\ Memory \subseteq Int /\ Thresholds \subseteq Int /\ Swap \subseteq Int /\ SwapLimits \subseteq Int

VARIABLES
    \* rdkshell.cpp
    gEnableRamMonitor,
    gLowRamMemoryThresholdInMb,
    gCriticallyLowRamMemoryThresholdInMb,
    gSwapMemoryIncreaseThresoldInMb,
    gLowRamMemoryNotificationSent,
    gCriticallyLowRamMemoryNotificationSent,
    gRunMemoryMonitor,
    \* the monitor thread
    at,                 \* where it is
    availableMb,        \* what it measured
    swaps,              \* swap1, swap2, ...
    \* setMemoryMonitor(configuration): where it is; it has the mutex unless "out"
    setter,
    \* gRdkShellEventListener
    listener,           \* there is one
    told,               \* told: the warnings it has been sent and not been sent cleared
    \* for the properties
    steady,             \* no threshold has changed since the last measurement
    heardAll            \* the listener has been sent every event since none was due

thresholds == <<gLowRamMemoryThresholdInMb, gCriticallyLowRamMemoryThresholdInMb,
                gSwapMemoryIncreaseThresoldInMb>>
sentFlags  == <<gLowRamMemoryNotificationSent, gCriticallyLowRamMemoryNotificationSent>>
measured   == <<availableMb, swaps>>
events     == <<listener, told, heardAll>>
vars == <<gEnableRamMonitor, thresholds, sentFlags, gRunMemoryMonitor, at, measured, setter,
          events, steady>>

Places  == {"start", "read", "measure", "low", "swap", "warn", "critical", "clear", "sleep", "done"}
Setting == {"out", "criticallyLowRam", "enable", "lowRam", "swapIncreaseLimit", "clamp"}

Warnings == {"low", "critical"}

TypeOK ==
    /\ gEnableRamMonitor \in BOOLEAN
    /\ gLowRamMemoryThresholdInMb \in Thresholds
    /\ gCriticallyLowRamMemoryThresholdInMb \in Thresholds
    /\ gSwapMemoryIncreaseThresoldInMb \in SwapLimits
    /\ gLowRamMemoryNotificationSent \in BOOLEAN
    /\ gCriticallyLowRamMemoryNotificationSent \in BOOLEAN
    /\ gRunMemoryMonitor \in BOOLEAN
    /\ at \in Places
    /\ availableMb \in Memory
    /\ swaps \in [1..Window -> Swap]
    /\ setter \in Setting
    /\ listener \in BOOLEAN
    /\ told \subseteq Warnings
    /\ steady \in BOOLEAN
    /\ heardAll \in BOOLEAN

\* initialize(): the environment gives a critical threshold only together with
\* a check against the other, but may lower the other below the default.
Init ==
    /\ gEnableRamMonitor \in BOOLEAN
    /\ gLowRamMemoryThresholdInMb \in Thresholds
    /\ gCriticallyLowRamMemoryThresholdInMb \in Thresholds
    /\ gSwapMemoryIncreaseThresoldInMb \in SwapLimits
    /\ gLowRamMemoryNotificationSent = FALSE
    /\ gCriticallyLowRamMemoryNotificationSent = FALSE
    /\ gRunMemoryMonitor = TRUE
    /\ at = "start"
    /\ availableMb \in Memory
    /\ swaps \in {[i \in 1..Window |-> s] : s \in Swap}
    /\ setter = "out"
    /\ listener = FALSE
    /\ told = {}
    /\ steady = FALSE
    /\ heardAll = FALSE

-----------------------------------------------------------------------------
(* setMemoryMonitor(): the entries of the configuration in the order of their *)
(* names, each of them there or not, then the check of one against the other. *)

MutexIsFree == setter = "out"

BeginSet ==
    /\ MutexIsFree
    /\ setter' = "criticallyLowRam"
    /\ UNCHANGED <<gEnableRamMonitor, thresholds, sentFlags, gRunMemoryMonitor, at, measured,
                   events, steady>>

SetCritical ==
    /\ setter = "criticallyLowRam"
    /\ gCriticallyLowRamMemoryThresholdInMb' \in Thresholds
    /\ steady' = (steady /\ UNCHANGED gCriticallyLowRamMemoryThresholdInMb)
    /\ setter' = "enable"
    /\ UNCHANGED <<gEnableRamMonitor, gLowRamMemoryThresholdInMb, gSwapMemoryIncreaseThresoldInMb,
                   sentFlags, gRunMemoryMonitor, at, measured, events>>

SetEnable ==
    /\ setter = "enable"
    /\ gEnableRamMonitor' \in BOOLEAN
    /\ setter' = "lowRam"
    /\ UNCHANGED <<thresholds, sentFlags, gRunMemoryMonitor, at, measured, events, steady>>

SetLow ==
    /\ setter = "lowRam"
    /\ gLowRamMemoryThresholdInMb' \in Thresholds
    /\ steady' = (steady /\ UNCHANGED gLowRamMemoryThresholdInMb)
    /\ setter' = "swapIncreaseLimit"
    /\ UNCHANGED <<gEnableRamMonitor, gCriticallyLowRamMemoryThresholdInMb,
                   gSwapMemoryIncreaseThresoldInMb, sentFlags, gRunMemoryMonitor, at, measured, events>>

SetSwapLimit ==
    /\ setter = "swapIncreaseLimit"
    /\ gSwapMemoryIncreaseThresoldInMb' \in SwapLimits
    /\ steady' = (steady /\ UNCHANGED gSwapMemoryIncreaseThresoldInMb)
    /\ setter' = "clamp"
    /\ UNCHANGED <<gEnableRamMonitor, gLowRamMemoryThresholdInMb, gCriticallyLowRamMemoryThresholdInMb,
                   sentFlags, gRunMemoryMonitor, at, measured, events>>

Clamped(critical, low) == IF critical > low THEN low ELSE critical

EndSet ==
    /\ setter = "clamp"
    /\ gCriticallyLowRamMemoryThresholdInMb' =
          Clamped(gCriticallyLowRamMemoryThresholdInMb, gLowRamMemoryThresholdInMb)
    /\ steady' = (steady /\ UNCHANGED gCriticallyLowRamMemoryThresholdInMb)
    /\ setter' = "out"
    /\ UNCHANGED <<gEnableRamMonitor, gLowRamMemoryThresholdInMb, gSwapMemoryIncreaseThresoldInMb,
                   sentFlags, gRunMemoryMonitor, at, measured, events>>

Set == BeginSet \/ SetCritical \/ SetEnable \/ SetLow \/ SetSwapLimit \/ EndSet

\* setMemoryMonitor(enable, interval)
SetEnableAndInterval(enable) ==
    /\ MutexIsFree
    /\ gEnableRamMonitor' = enable
    /\ UNCHANGED <<thresholds, sentFlags, gRunMemoryMonitor, at, measured, setter, events, steady>>

Deinitialize ==
    /\ MutexIsFree
    /\ gRunMemoryMonitor' = FALSE
    /\ UNCHANGED <<gEnableRamMonitor, thresholds, sentFlags, at, measured, setter, events, steady>>

\* CompositorController::setEventListener(): a listener, another one or none
SetEventListener(present) ==
    /\ listener' = present
    /\ told' = {}
    /\ heardAll' = (present /\ ~gLowRamMemoryNotificationSent
                            /\ ~gCriticallyLowRamMemoryNotificationSent)
    /\ UNCHANGED <<gEnableRamMonitor, thresholds, sentFlags, gRunMemoryMonitor, at, measured,
                   setter, steady>>

-----------------------------------------------------------------------------
(* The monitor thread.                                                        *)

\* CompositorController::sendEvent(): without a listener the event is lost.
SendEvents(warnings) ==
    /\ told' = IF listener THEN warnings ELSE told
    /\ UNCHANGED <<listener, heardAll>>

Goto(place) == at' = place

settings == <<gEnableRamMonitor, thresholds, gRunMemoryMonitor, setter>>

\* gRunMemoryMonitor is read without the mutex here.
Start ==
    /\ at = "start"
    /\ Goto(IF gRunMemoryMonitor THEN "read" ELSE "done")
    /\ UNCHANGED <<settings, sentFlags, measured, events, steady>>

ReadEnabled ==
    /\ at = "read"
    /\ MutexIsFree
    /\ Goto(IF gEnableRamMonitor THEN "measure" ELSE "sleep")
    /\ UNCHANGED <<settings, sentFlags, measured, events, steady>>

\* systemRam(), which may fail
Measure ==
    /\ at = "measure"
    /\ availableMb' \in Memory
    /\ \E used \in Swap : swaps' = [i \in 1..Window |-> IF i < Window THEN swaps[i + 1] ELSE used]
    /\ steady' = TRUE
    /\ Goto("low")
    /\ UNCHANGED <<settings, sentFlags, events>>

FailToMeasure ==
    /\ at = "measure"
    /\ Goto("sleep")
    /\ UNCHANGED <<settings, sentFlags, measured, events, steady>>

MemoryIsLow      == availableMb < gLowRamMemoryThresholdInMb
SwapIncreased    == swaps[Window] - swaps[1] > gSwapMemoryIncreaseThresoldInMb
MemoryIsCritical == availableMb < gCriticallyLowRamMemoryThresholdInMb

\* evaluateMemoryUsage() reads one threshold, and the next if it needs it.
ReadLow ==
    /\ at = "low"
    /\ Goto(IF MemoryIsLow THEN "warn" ELSE "swap")
    /\ UNCHANGED <<settings, sentFlags, measured, events, steady>>

ReadSwapLimit ==
    /\ at = "swap"
    /\ Goto(IF SwapIncreased THEN "warn" ELSE "clear")
    /\ UNCHANGED <<settings, sentFlags, measured, events, steady>>

\* The flag is set before it is looked at.
BugWarnLow ==
    /\ at = "warn"
    /\ gLowRamMemoryNotificationSent' = TRUE
    /\ SendEvents(told)
    /\ Goto("critical")
    /\ UNCHANGED <<settings, gCriticallyLowRamMemoryNotificationSent, measured, steady>>

WarnLow ==
    /\ at = "warn"
    /\ gLowRamMemoryNotificationSent' = TRUE
    /\ SendEvents(told \cup IF gLowRamMemoryNotificationSent THEN {} ELSE {"low"})
    /\ Goto("critical")
    /\ UNCHANGED <<settings, gCriticallyLowRamMemoryNotificationSent, measured, steady>>

\* The warning is not taken back while memory is low.
BugWarnCritical ==
    /\ at = "critical"
    /\ gCriticallyLowRamMemoryNotificationSent' =
          (gCriticallyLowRamMemoryNotificationSent \/ MemoryIsCritical)
    /\ SendEvents(told \cup IF MemoryIsCritical THEN {"critical"} ELSE {})
    /\ Goto("sleep")
    /\ UNCHANGED <<settings, gLowRamMemoryNotificationSent, measured, steady>>

WarnCritical ==
    /\ at = "critical"
    /\ gCriticallyLowRamMemoryNotificationSent' = MemoryIsCritical
    /\ SendEvents(
         IF MemoryIsCritical = gCriticallyLowRamMemoryNotificationSent THEN told
         ELSE IF MemoryIsCritical THEN told \cup {"critical"}
         ELSE told \ {"critical"})
    /\ Goto("sleep")
    /\ UNCHANGED <<settings, gLowRamMemoryNotificationSent, measured, steady>>

\* The warning of critically low memory is forgotten.
BugClear ==
    /\ at = "clear"
    /\ gLowRamMemoryNotificationSent' = FALSE
    /\ SendEvents(told \ IF gLowRamMemoryNotificationSent THEN {"low"} ELSE {})
    /\ Goto("sleep")
    /\ UNCHANGED <<settings, gCriticallyLowRamMemoryNotificationSent, measured, steady>>

Clear ==
    /\ at = "clear"
    /\ gCriticallyLowRamMemoryNotificationSent' = FALSE
    /\ gLowRamMemoryNotificationSent' = FALSE
    /\ SendEvents(told \ ((IF gCriticallyLowRamMemoryNotificationSent THEN {"critical"} ELSE {})
                          \cup (IF gLowRamMemoryNotificationSent THEN {"low"} ELSE {})))
    /\ Goto("sleep")
    /\ UNCHANGED <<settings, measured, steady>>

Sleep ==
    /\ at = "sleep"
    /\ MutexIsFree
    /\ Goto(IF gRunMemoryMonitor THEN "read" ELSE "done")
    /\ UNCHANGED <<settings, sentFlags, measured, events, steady>>

-----------------------------------------------------------------------------
Monitor ==
    \/ Start \/ ReadEnabled \/ Measure \/ FailToMeasure \/ ReadLow \/ ReadSwapLimit
    \/ WarnLow \/ WarnCritical \/ Clear \/ Sleep

Next ==
    \/ Monitor
    \/ Set
    \/ \E enable \in BOOLEAN : SetEnableAndInterval(enable)
    \/ Deinitialize
    \/ \E present \in BOOLEAN : SetEventListener(present)

Spec == Init /\ [][Next]_vars

\* The thread runs, finds the mutex free now and then although others take it,
\* and its measurements do not fail for ever; a call of setMemoryMonitor()
\* returns.
FairSpec ==
    /\ Spec
    /\ WF_vars(Monitor) /\ SF_vars(ReadEnabled) /\ SF_vars(Sleep) /\ SF_vars(Measure)
    /\ WF_vars(SetCritical \/ SetEnable \/ SetLow \/ SetSwapLimit \/ EndSet)

-----------------------------------------------------------------------------
(* Properties.                                                                *)

Evaluated == at = "sleep" /\ steady

\* When the thread has evaluated a measurement and no threshold has changed
\* since it was taken, the warnings out are those the measurement calls for,
\* whatever the thresholds and warnings were before, and also when
\* setMemoryMonitor() has got half way through them.
WarningsMatch ==
    Evaluated =>
       /\ gLowRamMemoryNotificationSent <=> (MemoryIsLow \/ SwapIncreased)
       /\ gCriticallyLowRamMemoryNotificationSent
             <=> (MemoryIsCritical /\ (MemoryIsLow \/ SwapIncreased))

\* The warning of critically low memory is only out inside the warning of low
\* memory, although each threshold can change between any two reads.
CriticalInsideLow ==
    gCriticallyLowRamMemoryNotificationSent => gLowRamMemoryNotificationSent

\* Once setMemoryMonitor() has come to its end, low memory is less of an
\* alarm than critically low memory, until the next call is at work.
ThresholdsOrdered ==
    [][setter # "out" /\ setter' = "out"
         => gCriticallyLowRamMemoryThresholdInMb' <= gLowRamMemoryThresholdInMb']_vars

\* A listener that came when no warning was out knows, from the events alone,
\* which warnings are out: none is sent twice, taken back unsent or left out.
ListenerKnows ==
    heardAll =>
       /\ gLowRamMemoryNotificationSent <=> "low" \in told
       /\ gCriticallyLowRamMemoryNotificationSent <=> "critical" \in told

\* The thread keeps up with whatever is set: while it is enabled, memory that
\* stays low in every measurement ends in a warning that stays, and memory
\* that does not ends in none; and deinitialize() ends it.
MonitorKeepsUp ==
    /\ <>[](gEnableRamMonitor /\ gRunMemoryMonitor /\ MemoryIsLow)
         => <>[]gLowRamMemoryNotificationSent
    /\ <>[](gEnableRamMonitor /\ gRunMemoryMonitor /\ ~MemoryIsLow /\ ~SwapIncreased)
         => <>[](~gLowRamMemoryNotificationSent /\ ~gCriticallyLowRamMemoryNotificationSent)
    /\ ~gRunMemoryMonitor ~> at = "done"

=============================================================================
