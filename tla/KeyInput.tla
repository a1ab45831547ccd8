------------------------------ MODULE KeyInput ------------------------------
(* The way of a key from Essos to the routing of CompositorController, and    *)
(* the timers fed by it: key repeat, generated keys, inactivity and easter    *)
(* eggs.  The routing itself is module CompositorController; here it is down, *)
(* the keys that have been passed to it pressed and not yet released.         *)
(*                                                                            *)
(* Times are ages as in EasterEggs.                                           *)
EXTENDS EasterEggs

CONSTANTS
    Keys,           \* the keys of the keyboard
    Codes,          \* key codes of RDKShell
    Mapping,        \* [Keys -> Codes]: the code of a key
    ModifierOf,     \* the modifier of those keys that are one
    Remapped,       \* keys that the configuration maps: to [code, flags]
    RepeatConfigs,  \* values of gKeyRepeatConfig: [enabled, initialDelay, repeatInterval]
    Intervals,      \* values of gInactivityIntervalInSeconds
    Durations,      \* of generated keys
    GeneratedCodes, \* codes of generated keys
    MaxGenerated,   \* bounds gGenerateKeyEvents
    MaxTyped        \* bounds typed

Times == 0..(Cap - 1)

ASSUME KeyAssumption ==
    /\ Mapping \in [Keys -> Codes] /\ ModifierCodes \subseteq Codes /\ GeneratedCodes \subseteq Codes
    /\ \A config \in RepeatConfigs :
          /\ config.enabled \in BOOLEAN
          /\ config.initialDelay \in Times /\ config.repeatInterval \in Times
    /\ Intervals \subseteq Times /\ Durations \subseteq Times
    /\ 0 \in Durations
    /\ MaxGenerated \in Nat

\* An egg is known by its name, and typed is long enough to hold its sequence, also
\* while the next one of it is being typed.
ASSUME HistoryAssumption ==
    /\ \A spec, other \in EggSpecs : spec.name = other.name => spec = other
    /\ MaxTyped \in Nat
    /\ \A spec \in EggSpecs :
          MaxTyped > Len(spec.details) /\ MaxTyped >= 2 * Len(spec.details) - 1

VARIABLES
    held,                   \* the keys that are down: of the user, not of the program
    mKeyInputsIgnored,
    mKeyRepeatsEnabled,     \* Essos repeats a key that is held
    gLastKeyCode,
    gLastKeyPressStartTime, \* age, or Never
    gLastKeyRepeatTime,     \* age, or Never
    gKeyRepeatConfig,
    gGenerateKeyEvents,     \* sequence of [keyCode, wait]
    gLastKeyEventTime,      \* age
    waited,                 \* how long gNextInactiveEventTime was set ago, less the interval
    gEnableInactivityReporting,
    gInactivityIntervalInSeconds,
    down,                   \* see above
    \* for the properties
    disturbed,              \* the last key is not the user's since a key is timed
    reported,               \* the last step reported an inactive user
    typed,                  \* the keys eggs have seen since all of them were reset
    sameEggs                \* no egg has been added or removed since

Never  == -1
NoCode == "none"

timers     == <<gLastKeyPressStartTime, gLastKeyRepeatTime>>
settings   == <<mKeyInputsIgnored, mKeyRepeatsEnabled, gKeyRepeatConfig,
                gEnableInactivityReporting, gInactivityIntervalInSeconds>>
inactivity == <<gLastKeyEventTime, waited>>
history    == <<typed, sameEggs>>
vars == <<held, settings, gLastKeyCode, timers, gGenerateKeyEvents, inactivity, down,
          disturbed, reported, history, eggVars>>

GeneratedEvents == [keyCode : GeneratedCodes, wait : Ages]

TypeOK ==
    /\ held \subseteq Keys
    /\ mKeyInputsIgnored \in BOOLEAN /\ mKeyRepeatsEnabled \in BOOLEAN
    /\ gLastKeyCode \in Codes \cup {NoCode}
    /\ gLastKeyPressStartTime \in Ages \cup {Never}
    /\ gLastKeyRepeatTime \in Ages \cup {Never}
    /\ gKeyRepeatConfig \in RepeatConfigs
    /\ gGenerateKeyEvents \in Seq(GeneratedEvents)
    /\ gLastKeyEventTime \in Ages /\ waited \in Ages
    /\ gEnableInactivityReporting \in BOOLEAN
    /\ gInactivityIntervalInSeconds \in Intervals
    /\ down \subseteq Codes
    /\ disturbed \in BOOLEAN /\ reported \in BOOLEAN

Init ==
    /\ held = {}
    /\ mKeyInputsIgnored = FALSE
    /\ mKeyRepeatsEnabled \in BOOLEAN  \* a build option
    /\ gLastKeyCode = NoCode
    /\ gLastKeyPressStartTime = Never
    /\ gLastKeyRepeatTime = Never
    /\ gKeyRepeatConfig \in RepeatConfigs /\ ~gKeyRepeatConfig.enabled
    /\ gGenerateKeyEvents = <<>>
    /\ gLastKeyEventTime = 0
    /\ waited = 0
    /\ gEnableInactivityReporting = FALSE
    /\ gInactivityIntervalInSeconds \in Intervals
    /\ down = {}
    /\ disturbed = FALSE
    /\ reported = FALSE
    /\ typed = <<>>
    /\ sameEggs = TRUE
    /\ InitEggs

-----------------------------------------------------------------------------
(* Keys of the user: processKeyEvent(), EssosInstance::onKeyPress() and       *)
(* onKeyRelease(), then those of CompositorController.                        *)

Flags(keys) == {ModifierOf[key] : key \in keys \cap DOMAIN ModifierOf}

KeyCodeFromWayland(key, flags) ==
    IF key \in DOMAIN Remapped THEN Remapped[key] ELSE [code |-> Mapping[key], flags |-> flags]

\* What every press and release does
KeyEvent(code) ==
    /\ gLastKeyCode' = code
    /\ gLastKeyEventTime' = 0
    /\ waited' = 0

NoKeyEvent == UNCHANGED <<gLastKeyCode, timers, inactivity, down, disturbed, history,
                          sEasterEggs, sMatchedAnyEasterEgg, sEasterEggResolveTime>>

NoEvent == egg' = NoEgg /\ reported' = FALSE

\* Of the user, or Essos repeats it.
Press(key) ==
    /\ key \notin held \/ mKeyRepeatsEnabled
    /\ held' = held \cup {key}
    /\ \/ /\ mKeyInputsIgnored
          /\ NoKeyEvent
       \/ /\ ~mKeyInputsIgnored
          /\ LET mapped == KeyCodeFromWayland(key, Flags(held'))
             IN  /\ KeyEvent(mapped.code)
                 /\ down' = down \cup {mapped.code}
          /\ gLastKeyPressStartTime' =
                IF gLastKeyPressStartTime = Never THEN 0 ELSE gLastKeyPressStartTime
          /\ gLastKeyRepeatTime' = Never
          /\ UNCHANGED <<disturbed, history, sEasterEggs, sMatchedAnyEasterEgg,
                         sEasterEggResolveTime>>
    /\ NoEvent
    /\ UNCHANGED <<settings, gGenerateKeyEvents>>

AllReset(eggs) == \A i \in DOMAIN eggs : eggs[i] = Reset(eggs[i])

LastTyped(keys) == SubSeq(keys, IF Len(keys) > MaxTyped THEN 2 ELSE 1, Len(keys))

\* How long a key was held that was not timed is all the time since the epoch.
HeldFor == IF gLastKeyPressStartTime = Never THEN Cap ELSE gLastKeyPressStartTime

Remember(code, flags, time) ==
    IF code \in ModifierCodes
    THEN UNCHANGED history
    ELSE /\ typed' = IF AllReset(sEasterEggs') THEN <<>>
                     ELSE LastTyped(Append(typed, [code |-> code, flags |-> flags, time |-> time]))
         /\ sameEggs' = (sameEggs \/ AllReset(sEasterEggs'))

Release(key) ==
    /\ key \in held
    /\ held' = held \ {key}
    /\ \/ /\ mKeyInputsIgnored
          /\ NoKeyEvent
       \/ /\ ~mKeyInputsIgnored
          /\ LET mapped == KeyCodeFromWayland(key, Flags(held'))
             IN  /\ CheckEasterEggs(mapped.code, mapped.flags, HeldFor)
                 /\ Remember(mapped.code, mapped.flags, HeldFor)
                 /\ KeyEvent(mapped.code)
                 /\ down' = down \ {mapped.code}
          /\ gLastKeyPressStartTime' = Never
          /\ disturbed' = FALSE
          /\ UNCHANGED gLastKeyRepeatTime
    /\ NoEvent
    /\ UNCHANGED <<settings, gGenerateKeyEvents>>

-----------------------------------------------------------------------------
(* Calls.                                                                     *)

\* CompositorController::ignoreKeyInputs(), where the feature is enabled
IgnoreKeyInputs(ignore) ==
    /\ mKeyInputsIgnored' = ignore
    /\ disturbed' = (disturbed \/ (ignore /\ gLastKeyPressStartTime # Never))
    /\ NoEvent
    /\ UNCHANGED <<held, mKeyRepeatsEnabled, gLastKeyCode, timers, gKeyRepeatConfig,
                   gGenerateKeyEvents, inactivity, gEnableInactivityReporting,
                   gInactivityIntervalInSeconds, down, history, sEasterEggs,
                   sMatchedAnyEasterEgg, sEasterEggResolveTime>>

\* The release of a key generated for some time is forgotten.
BugGenerateKey(code, duration) ==
    /\ Len(gGenerateKeyEvents) < MaxGenerated
    /\ KeyEvent(code)
    /\ gLastKeyRepeatTime' = Never
    /\ down' = IF duration = 0 THEN down \ {code} ELSE down \cup {code}
    /\ disturbed' = (gLastKeyPressStartTime # Never)
    /\ NoEvent
    /\ UNCHANGED <<held, settings, gLastKeyPressStartTime, gGenerateKeyEvents, history,
                   sEasterEggs, sMatchedAnyEasterEgg, sEasterEggResolveTime>>

\* generateKey() for the focused client: a press now, a release now or later.
GenerateKey(code, duration) ==
    /\ Len(gGenerateKeyEvents) < MaxGenerated
    /\ KeyEvent(code)
    /\ gLastKeyRepeatTime' = Never
    /\ down' = IF duration = 0 THEN down \ {code} ELSE down \cup {code}
    /\ gGenerateKeyEvents' =
          IF duration = 0 THEN gGenerateKeyEvents
          ELSE Append(gGenerateKeyEvents, [keyCode |-> code, wait |-> duration])
    /\ disturbed' = (gLastKeyPressStartTime # Never)
    /\ NoEvent
    /\ UNCHANGED <<held, settings, gLastKeyPressStartTime, history, sEasterEggs,
                   sMatchedAnyEasterEgg, sEasterEggResolveTime>>

\* A call that stores a setting
Setting ==
    /\ NoEvent
    /\ NoKeyEvent
    /\ UNCHANGED <<held, mKeyInputsIgnored, gInactivityIntervalInSeconds, gGenerateKeyEvents>>

SetKeyRepeats(enable) ==
    /\ mKeyRepeatsEnabled' = enable
    /\ Setting
    /\ UNCHANGED <<gKeyRepeatConfig, gEnableInactivityReporting>>

SetKeyRepeatConfig(config) ==
    /\ gKeyRepeatConfig' = config
    /\ Setting
    /\ UNCHANGED <<mKeyRepeatsEnabled, gEnableInactivityReporting>>

EnableInactivityReporting(enable) ==
    /\ gEnableInactivityReporting' = enable
    /\ Setting
    /\ UNCHANGED <<mKeyRepeatsEnabled, gKeyRepeatConfig>>

\* The next report counts from the last key.
SetInactivityInterval(interval) ==
    /\ gInactivityIntervalInSeconds' = interval
    /\ waited' = gLastKeyEventTime
    /\ NoEvent
    /\ UNCHANGED <<held, mKeyInputsIgnored, mKeyRepeatsEnabled, gLastKeyCode, timers,
                   gKeyRepeatConfig, gGenerateKeyEvents, gLastKeyEventTime,
                   gEnableInactivityReporting, down, disturbed, history, sEasterEggs,
                   sMatchedAnyEasterEgg, sEasterEggResolveTime>>

ResetInactivityTime ==
    /\ gLastKeyEventTime' = 0
    /\ waited' = 0
    /\ NoEvent
    /\ UNCHANGED <<held, settings, gLastKeyCode, timers, gGenerateKeyEvents, down, disturbed,
                   history, sEasterEggs, sMatchedAnyEasterEgg, sEasterEggResolveTime>>

\* addEasterEgg() and removeEasterEgg()
ChangeEasterEggs ==
    /\ \/ \E spec \in EggSpecs : /\ \A i \in DOMAIN sEasterEggs : sEasterEggs[i].name # spec.name
                                 /\ AddEasterEgg(spec)
       \/ \E spec \in EggSpecs : RemoveEasterEgg(spec.name)
    /\ sameEggs' = (typed = <<>>)
    /\ NoEvent
    /\ UNCHANGED <<held, settings, gLastKeyCode, timers, gGenerateKeyEvents, inactivity, down,
                   disturbed, typed>>

-----------------------------------------------------------------------------
(* CompositorController::update(), once in a frame.                           *)

\* updateKeyRepeat()
Repeats ==
    /\ gKeyRepeatConfig.enabled
    /\ gLastKeyPressStartTime # Never
    /\ IF gLastKeyRepeatTime = Never
       THEN gLastKeyPressStartTime > gKeyRepeatConfig.initialDelay
       ELSE gLastKeyRepeatTime > gKeyRepeatConfig.repeatInterval

\* updateGenerateKeyEvents()
Due     == SelectSeq(gGenerateKeyEvents, LAMBDA event : event.wait = 0)
NotDue  == SelectSeq(gGenerateKeyEvents, LAMBDA event : event.wait # 0)
DueCodes == {Due[i].keyCode : i \in DOMAIN Due}

\* The inactivity check comes after the keys of the same frame.
Report ==
    LET keyEvent == Repeats \/ Due # <<>>
    IN  /\ reported' = (/\ gEnableInactivityReporting
                        /\ ~keyEvent
                        /\ waited > gInactivityIntervalInSeconds)
        /\ gLastKeyEventTime' = IF keyEvent THEN 0 ELSE gLastKeyEventTime
        /\ waited' = IF keyEvent \/ reported' THEN 0 ELSE waited

Update ==
    /\ ResolveWaitingEasterEggs
    /\ gLastKeyRepeatTime' = IF Repeats THEN 0 ELSE gLastKeyRepeatTime
    /\ down' = (down \cup IF Repeats THEN {gLastKeyCode} ELSE {}) \ DueCodes
    /\ gGenerateKeyEvents' = NotDue
    /\ gLastKeyCode' = IF Due = <<>> THEN gLastKeyCode ELSE Last(Due).keyCode
    /\ Report
    /\ disturbed' = (disturbed \/ (Due # <<>> /\ gLastKeyPressStartTime # Never))
    /\ typed' = IF ToResolve THEN <<>> ELSE typed
    /\ sameEggs' = (sameEggs \/ ToResolve)
    /\ UNCHANGED <<held, settings, gLastKeyPressStartTime>>

AgeOf(time) == IF time = Never THEN Never ELSE Older(time)

\* Time passes.
Tick ==
    /\ gLastKeyPressStartTime' = AgeOf(gLastKeyPressStartTime)
    /\ gLastKeyRepeatTime' = AgeOf(gLastKeyRepeatTime)
    /\ gLastKeyEventTime' = Older(gLastKeyEventTime)
    /\ waited' = Older(waited)
    /\ gGenerateKeyEvents' = [i \in DOMAIN gGenerateKeyEvents |->
          [gGenerateKeyEvents[i] EXCEPT !.wait = IF @ = 0 THEN 0 ELSE @ - 1]]
    /\ EggsAge
    /\ NoEvent
    /\ UNCHANGED <<held, settings, gLastKeyCode, down, disturbed, history, sEasterEggs,
                   sMatchedAnyEasterEgg>>

-----------------------------------------------------------------------------
Next ==
    \/ \E key \in Keys : Press(key) \/ Release(key)
    \/ \E ignore \in BOOLEAN : IgnoreKeyInputs(ignore)
    \/ \E code \in GeneratedCodes, duration \in Durations : GenerateKey(code, duration)
    \/ \E enable \in BOOLEAN : SetKeyRepeats(enable) \/ EnableInactivityReporting(enable)
    \/ \E config \in RepeatConfigs : SetKeyRepeatConfig(config)
    \/ \E interval \in Intervals : SetInactivityInterval(interval)
    \/ ResetInactivityTime
    \/ ChangeEasterEggs
    \/ Update
    \/ Tick

Spec == Init /\ [][Next]_vars

\* The main loop goes round and time passes.
FairSpec == Spec /\ WF_vars(Update) /\ WF_vars(Tick)

-----------------------------------------------------------------------------
(* Properties.                                                                *)

\* A key that is repeated is held: as long as the user's keys are neither
\* ignored nor overtaken by a generated key, the key that updateKeyRepeat()
\* sends again is down on the keyboard, whatever else has been pressed and
\* released since.
RepeatedKeyIsHeld ==
    Repeats /\ ~disturbed
       => \E key \in held : KeyCodeFromWayland(key, {}).code = gLastKeyCode

\* A user is reported inactive only when no key, of the user or generated or
\* repeated, has come for longer than the interval that holds, although the
\* interval changes and reporting is turned on and off.
InactiveMeansIdle == reported => gLastKeyEventTime > gInactivityIntervalInSeconds

\* Where keys are not repeated, a generated key comes up again: no number of
\* calls, frames and other keys in between loses a release.
GeneratedComesUp ==
    [](~gKeyRepeatConfig.enabled)
       => \A code \in GeneratedCodes : []<>(code \notin down)

SpecNamed(name) == CHOOSE spec \in EggSpecs : spec.name = name

\* How long keys were held in all
HeldTime(keys) ==
    LET total[n \in 0..Len(keys)] == IF n = 0 THEN 0 ELSE Together(total[n - 1], keys[n].time)
    IN  total[Len(keys)]

\* keys are the whole sequence of the egg.
Types(keys, spec) ==
    /\ Len(keys) = Len(spec.details)
    /\ \A i \in DOMAIN keys :
          KeyMatches(spec.details[i], keys[i].code, keys[i].flags, keys[i].time)
    /\ HeldTime(keys) <= spec.timeout

\* An egg sends its event only if its keys have been typed one after the other,
\* with their modifiers, each long enough and all in time, since the last event.
EggWasTyped ==
    [][egg' # NoEgg =>
          \E first, last \in DOMAIN typed :
             Types(SubSeq(typed, first, last), SpecNamed(egg'))]_vars

\* Keys typed from the start of all eggs that are an egg's sequence complete it,
\* whatever other eggs made of them.
EggCompletes ==
    sameEggs => \A i \in DOMAIN sEasterEggs :
                   Types(typed, SpecNamed(sEasterEggs[i].name)) => sEasterEggs[i].mSatisfied

\* Of the eggs complete at one time the one with the longest sequence is sent,
\* after any adding and removing of eggs.
LongestEggWins ==
    [][egg' # NoEgg =>
          \A i \in DOMAIN sEasterEggs :
             sEasterEggs[i].mSatisfied
                => Len(sEasterEggs[i].details) <= Len(SpecNamed(egg').details)]_vars

=============================================================================
