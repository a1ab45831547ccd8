----------------------------- MODULE MCKeyInput -----------------------------
(* Three keys: an ordinary one, a modifier, and one that the configuration    *)
(* maps to a code with the modifier set.  Easter eggs and the timers (repeat, *)
(* generated keys, inactivity) are fed by the same keys and do not meet: the  *)
(* initial state chooses one of them, and the calls of the other are not made.*)
(* Or a behaviour is about the codes of all the keys there are.               *)
EXTENDS KeyInput, KeyCodes

Entry(key, code, modifiers) == [keyCode |-> key, mapped |-> code, modifiers |-> modifiers]

\* The red key, as tests configure it, and the Home key entered twice
MCKeyMapFiles == {<<>>, <<Entry(400, 405, {}), Entry(102, 36, {"command"}), Entry(102, 36, {"ctrl"})>>}

MCVirtualFiles == {<<[key |-> "red", keyCode |-> 405, modifiers |-> {"shift"}]>>}

VARIABLE part

MCKeys == {"a", "left_ctrl", "red"}
MCCodes == {"A", "B", "CTRL", "RED", "G"}
MCMapping == ("a" :> "A") @@ ("left_ctrl" :> "CTRL") @@ ("red" :> "RED")
MCModifierOf == "left_ctrl" :> "ctrl"
MCRemapped == "red" :> [code |-> "B", flags |-> {"ctrl"}]

Detail(code, modifiers, hold) ==
    [keyCode |-> code, keyModifiers |-> modifiers, keyHoldTime |-> hold]

Short == [name |-> "short", timeout |-> 1, details |-> <<Detail("B", {"ctrl"}, 0)>>]
Long  == [name |-> "long", timeout |-> 1,
          details |-> <<Detail("A", {}, 0), Detail("B", {"ctrl"}, 1)>>]
MCEggs == {Short, Long}
MCFiles == {<<>>, <<Short, Long>>}

MCRepeatConfigs == {[enabled |-> TRUE, initialDelay |-> 1, repeatInterval |-> 0],
                    [enabled |-> FALSE, initialDelay |-> 1, repeatInterval |-> 0]}

Parts == {"eggs", "timers", "codes"}

MCInit ==
    /\ Init
    /\ part \in Parts
    /\ CodesInit
    /\ part # "codes" => sRdkShellKeyMap = <<>>
    /\ part # "eggs" => sEasterEggs = <<>>
    /\ part # "timers" => /\ ~mKeyRepeatsEnabled
                          /\ gInactivityIntervalInSeconds = 1

TimerCalls ==
    \/ \E ignore \in BOOLEAN : IgnoreKeyInputs(ignore)
    \/ \E code \in GeneratedCodes, duration \in Durations : GenerateKey(code, duration)
    \/ \E enable \in BOOLEAN : SetKeyRepeats(enable) \/ EnableInactivityReporting(enable)
    \/ \E config \in RepeatConfigs : SetKeyRepeatConfig(config)
    \/ \E interval \in Intervals : SetInactivityInterval(interval)
    \/ ResetInactivityTime

KeyInputNext ==
    \/ \E key \in (IF part = "eggs" THEN Keys ELSE {"a", "left_ctrl"}) : Press(key) \/ Release(key)
    \/ part = "eggs" /\ ChangeEasterEggs
    \/ part = "timers" /\ TimerCalls
    \/ Update
    \/ Tick

\* Beside modifiers one key is held.
MCCodesNext ==
    /\ CodesNext
    /\ Cardinality(keyboard' \ DOMAIN ModifierKeys) <= 1

MCNext ==
    \/ part # "codes" /\ KeyInputNext /\ UNCHANGED <<codesVars, part>>
    \/ part = "codes" /\ MCCodesNext /\ UNCHANGED <<vars, part>>

MCSpec ==
    /\ MCInit /\ [][MCNext]_<<vars, codesVars, part>>
    /\ WF_vars(part # "codes" /\ Update) /\ WF_vars(part # "codes" /\ Tick)

=============================================================================
