------------------------------- MODULE KeyCodes -------------------------------
(***************************************************************************)
(* The codes of a key on its way from the keyboard to a client: Wayland's  *)
(* code becomes RDKShell's (keyCodeFromWayland), by the configured map or  *)
(* by a switch, and that Wayland's again when a display passes the key on  *)
(* (keyCodeToWayland).  Between the two a key is routed, here to the one   *)
(* display there is.  The switches are functions between the names of the  *)
(* two headings of linuxkeys.h, RDKShell's names being used for both where *)
(* only the prefix differs.                                                *)
(***************************************************************************)
EXTENDS Integers, FiniteSets, Sequences, SequencesExt, TLC

CONSTANTS
    KeyMapFiles,  \* key maps: sequences of [keyCode, mapped, modifiers]
    VirtualFiles, \* virtual key maps: of [key, keyCode, modifiers]
    MaxHeld       \* bounds keyboard

-----------------------------------------------------------------------------
(* linuxkeys.h                                                             *)

\* names have the codes from first on.
Named(first, names) ==
    [name \in ToSet(names) |-> first - 1 + CHOOSE i \in DOMAIN names : names[i] = name]

DigitKeys  == <<"ONE", "TWO", "THREE", "FOUR", "FIVE", "SIX", "SEVEN", "EIGHT", "NINE", "ZERO">>
Alphabet == <<"A", "B", "C", "D", "E", "F", "G", "H", "I", "J", "K", "L", "M",
              "N", "O", "P", "Q", "R", "S", "T", "U", "V", "W", "X", "Y", "Z">>
FunctionKeys1  == <<"F1", "F2", "F3", "F4", "F5", "F6", "F7", "F8", "F9", "F10">>
FunctionKeys13 == <<"F13", "F14", "F15", "F16", "F17", "F18", "F19", "F20", "F21", "F22",
                    "F23", "F24">>

\* WAYLAND_KEY_...: the rows of a keyboard
WaylandKeyboard ==
    Named(1, <<"ESCAPE">> \o DigitKeys \o <<"DASH", "EQUALS", "BACKSPACE", "TAB",
               "Q", "W", "E", "R", "T", "Y", "U", "I", "O", "P", "OPENBRACKET",
               "CLOSEBRACKET", "ENTER", "LEFTCTRL",
               "A", "S", "D", "F", "G", "H", "J", "K", "L", "SEMICOLON", "SINGLEQUOTE",
               "GRAVEACCENT", "LEFTSHIFT", "BACKSLASH",
               "Z", "X", "C", "V", "B", "N", "M", "COMMA", "PERIOD", "FORWARDSLASH",
               "RIGHTSHIFT", "MULTIPLY", "LEFTALT", "SPACE", "CAPSLOCK">>
             \o FunctionKeys1 \o
             <<"NUMLOCK", "SCROLLLOCK", "NUMPAD7", "NUMPAD8", "NUMPAD9", "SUBTRACT",
               "NUMPAD4", "NUMPAD5", "NUMPAD6", "ADD", "NUMPAD1", "NUMPAD2", "NUMPAD3",
               "NUMPAD0", "DECIMAL">>)

WaylandOthers ==
    Named(86, <<"102ND", "F11", "F12">>) @@ Named(96, <<"KPENTER", "RIGHTCTRL", "DIVIDE">>)
    @@ Named(100, <<"RIGHTALT">>)
    @@ Named(102, <<"HOME", "UP", "PAGEUP", "LEFT", "RIGHT", "END", "DOWN", "PAGEDOWN",
                    "INSERT", "DELETE">>)
    @@ Named(113, <<"MUTE", "VOLUME_DOWN", "VOLUME_UP">>)
    @@ Named(117, <<"KPEQUAL", "KPPLUSMINUS", "PAUSE">>) @@ Named(121, <<"KPCOMMA">>)
    @@ Named(125, <<"LEFTMETA", "RIGHTMETA">>) @@ Named(139, <<"MENU">>)
    @@ Named(158, <<"BACK">>) @@ Named(164, <<"PLAYPAUSE">>) @@ Named(168, <<"REWIND">>)
    @@ Named(172, <<"HOMEPAGE">>) @@ Named(183, FunctionKeys13)
    @@ Named(207, <<"PLAY", "FASTFORWARD">>) @@ Named(210, <<"PRINTSCREEN">>)
    @@ Named(398, <<"YELLOW", "BLUE", "RED", "GREEN">>)

Wayland == WaylandKeyboard @@ WaylandOthers

\* RDKSHELL_KEY_...
RdkShellCharacters ==
    Named(8, <<"BACKSPACE", "TAB">>) @@ Named(13, <<"ENTER">>)
    @@ Named(16, <<"SHIFT", "CTRL", "ALT", "PAUSE", "CAPSLOCK">>) @@ Named(27, <<"ESCAPE">>)
    @@ Named(32, <<"SPACE", "PAGEUP", "PAGEDOWN", "END", "HOME", "LEFT", "UP", "RIGHT",
                   "DOWN">>)
    @@ Named(45, <<"INSERT", "DELETE">>)
    @@ Named(48, <<"ZERO">>) @@ Named(49, SubSeq(DigitKeys, 1, 9)) @@ Named(65, Alphabet)
    @@ Named(91, <<"WINDOWKEY_LEFT", "WINDOWKEY_RIGHT", "SELECT">>)

RdkShellOthers ==
    Named(96, <<"NUMPAD0", "NUMPAD1", "NUMPAD2", "NUMPAD3", "NUMPAD4", "NUMPAD5", "NUMPAD6",
                "NUMPAD7", "NUMPAD8", "NUMPAD9", "MULTIPLY", "ADD">>)
    @@ Named(109, <<"SUBTRACT", "DECIMAL", "DIVIDE">> \o FunctionKeys1 \o <<"F11", "F12">>)
    @@ Named(144, <<"NUMLOCK", "SCROLLLOCK">>)
    @@ Named(186, <<"SEMICOLON", "EQUALS", "COMMA", "DASH", "PERIOD", "FORWARDSLASH",
                    "GRAVEACCENT">>)
    @@ Named(219, <<"OPENBRACKET", "BACKSLASH", "CLOSEBRACKET", "SINGLEQUOTE",
                    "FASTFORWARD", "REWIND">>)
    @@ Named(44, <<"PRINTSCREEN">>) @@ Named(226, <<"PLAY", "PLAYPAUSE">>)

RdkShellRemote ==
    Named(403, <<"YELLOW", "BLUE", "RED", "GREEN", "BACK", "MENU", "HOMEPAGE">>)
    @@ Named(173, <<"MUTE", "VOLUME_DOWN", "VOLUME_UP">>)
    @@ Named(124, SubSeq(FunctionKeys13, 1, 4)) @@ Named(129, SubSeq(FunctionKeys13, 5, 12))

RdkShell == RdkShellCharacters @@ RdkShellOthers @@ RdkShellRemote

-----------------------------------------------------------------------------
(* linuxkeys.cpp: the two switches, by name                                *)

Same(names) == [name \in names |-> name]

\* The right Alt key is forgotten.
BugFromControls ==
    Same({"ENTER", "BACKSPACE", "TAB", "PAUSE", "CAPSLOCK", "ESCAPE", "SPACE", "PAGEUP",
          "PAGEDOWN", "END", "HOME", "LEFT", "UP", "RIGHT", "DOWN"})
    @@ [key \in {"RIGHTSHIFT", "LEFTSHIFT"} |-> "SHIFT"]
    @@ [key \in {"RIGHTCTRL", "LEFTCTRL"} |-> "CTRL"]
    @@ ("LEFTALT" :> "ALT")

FromControls ==
    Same({"ENTER", "BACKSPACE", "TAB", "PAUSE", "CAPSLOCK", "ESCAPE", "SPACE", "PAGEUP",
          "PAGEDOWN", "END", "HOME", "LEFT", "UP", "RIGHT", "DOWN"})
    @@ [key \in {"RIGHTSHIFT", "LEFTSHIFT"} |-> "SHIFT"]
    @@ [key \in {"RIGHTCTRL", "LEFTCTRL"} |-> "CTRL"]
    @@ [key \in {"RIGHTALT", "LEFTALT"} |-> "ALT"]

FromCharacters ==
    Same(ToSet(DigitKeys) \cup ToSet(Alphabet)
         \cup {"COMMA", "PERIOD", "FORWARDSLASH", "SEMICOLON", "EQUALS", "OPENBRACKET",
               "BACKSLASH", "CLOSEBRACKET"})

FromFunctions ==
    Same({"NUMPAD0", "NUMPAD1", "NUMPAD2", "NUMPAD3", "NUMPAD4", "NUMPAD5", "NUMPAD6",
          "NUMPAD7", "NUMPAD8", "NUMPAD9", "MULTIPLY", "ADD", "SUBTRACT", "DECIMAL",
          "DIVIDE", "F11", "F12"} \cup ToSet(FunctionKeys1))

\* F20 is reserved for the power key of the front panel.
FromRemote ==
    Same({"DELETE", "SCROLLLOCK", "PRINTSCREEN", "INSERT", "MUTE", "VOLUME_DOWN",
          "VOLUME_UP", "PLAYPAUSE", "PLAY", "FASTFORWARD", "REWIND", "BACK", "MENU",
          "HOMEPAGE"} \cup (ToSet(FunctionKeys13) \ {"F20"}))
    @@ ("KPENTER" :> "ENTER")

FromWayland == FromControls @@ FromCharacters @@ FromFunctions @@ FromRemote

ToControls ==
    Same({"BACKSPACE", "TAB", "ENTER", "CAPSLOCK", "ESCAPE", "SPACE", "PAGEUP", "PAGEDOWN",
          "END", "HOME", "LEFT", "UP", "RIGHT", "DOWN", "INSERT", "DELETE"})
    @@ ("SHIFT" :> "LEFTSHIFT") @@ ("CTRL" :> "LEFTCTRL") @@ ("ALT" :> "LEFTALT")

ToCharacters == Same(ToSet(DigitKeys) \cup ToSet(Alphabet))

ToFunctions ==
    Same({"NUMPAD0", "NUMPAD1", "NUMPAD2", "NUMPAD3", "NUMPAD4", "NUMPAD5", "NUMPAD6",
          "NUMPAD7", "NUMPAD8", "NUMPAD9", "MULTIPLY", "ADD", "SUBTRACT", "DECIMAL",
          "DIVIDE", "F11", "F12", "NUMLOCK", "SCROLLLOCK"} \cup ToSet(FunctionKeys1))

ToPunctuation ==
    Same({"SEMICOLON", "EQUALS", "COMMA", "PERIOD", "FORWARDSLASH", "GRAVEACCENT",
          "OPENBRACKET", "BACKSLASH", "CLOSEBRACKET", "SINGLEQUOTE", "PRINTSCREEN", "DASH"})

ToRemote ==
    Same({"FASTFORWARD", "REWIND", "PAUSE", "PLAY", "PLAYPAUSE", "YELLOW", "BLUE", "RED",
          "GREEN", "BACK", "MENU", "HOMEPAGE", "MUTE", "VOLUME_DOWN", "VOLUME_UP"}
         \cup (ToSet(FunctionKeys13) \ {"F20"}))

ToWayland == ToControls @@ ToCharacters @@ ToFunctions @@ ToPunctuation @@ ToRemote

\* (uint32_t) -1, read back as an int32_t
Unknown == -1

\* A switch between two headings as a function of codes
ByCode(names, from, to, default(_)) ==
    [code \in 0..1023 |->
        LET cases == {name \in DOMAIN names : from[name] = code}
        IN  IF cases = {} THEN default(code) ELSE to[names[CHOOSE name \in cases : TRUE]]]

StandardKeyCode == ByCode(FromWayland, Wayland, RdkShell, LAMBDA code : code)

keyCodeToWayland == ByCode(ToWayland, RdkShell, Wayland, LAMBDA code : Unknown)

-----------------------------------------------------------------------------
(* The configured maps                                                     *)

VARIABLES
    sRdkShellKeyMap, sRdkShellVirtualKeyMap,
    keyboard,  \* codes of the keys that are down, of the user
    arrived    \* the last key event of the client, and the keys of the user it is of

codesVars == <<sRdkShellKeyMap, sRdkShellVirtualKeyMap, keyboard, arrived>>

\* getKeyFlag() knows these modifiers, others count for nothing.
KnownFlags(modifiers) == modifiers \cap {"ctrl", "shift", "alt"}

\* A later entry for a key replaces an earlier one.
Loaded(file, key(_), code(_)) ==
    FoldLeft(LAMBDA map, entry :
                (key(entry) :> [code |-> code(entry), flags |-> KnownFlags(entry.modifiers)]) @@ map,
             <<>>, file)

mapNativeKeyCodes(file) == Loaded(file, LAMBDA e : e.keyCode, LAMBDA e : e.mapped)

mapVirtualKeyCodes(file) == Loaded(file, LAMBDA e : e.key, LAMBDA e : e.keyCode)

keyCodeFromWayland(code, flags) ==
    IF code \in DOMAIN sRdkShellKeyMap
    THEN sRdkShellKeyMap[code]
    ELSE [code |-> StandardKeyCode[code], flags |-> flags]

-----------------------------------------------------------------------------

ModifierKeys ==
    (Wayland["RIGHTSHIFT"] :> "shift") @@ (Wayland["LEFTSHIFT"] :> "shift")
    @@ (Wayland["RIGHTCTRL"] :> "ctrl") @@ (Wayland["LEFTCTRL"] :> "ctrl")
    @@ (Wayland["RIGHTALT"] :> "alt") @@ (Wayland["LEFTALT"] :> "alt")

\* The six ...Pressed of essosinstance.cpp, as they are after the event
HeldModifiers(keys) == {ModifierKeys[key] : key \in keys \cap DOMAIN ModifierKeys}

\* RdkCompositor::processKeyEvent(): a key of RDKShell comes to the client
Arrive(mapped, keys) ==
    arrived' = [key |-> keyCodeToWayland[mapped.code], modifiers |-> mapped.flags, of |-> keys]

CodesInit ==
    /\ \E file \in KeyMapFiles : sRdkShellKeyMap = mapNativeKeyCodes(file)
    /\ \E file \in VirtualFiles : sRdkShellVirtualKeyMap = mapVirtualKeyCodes(file)
    /\ keyboard = {}
    /\ arrived = [key |-> Unknown, modifiers |-> {}, of |-> {}]

\* processKeyEvent() of essosinstance.cpp
processKeyEvent(key) ==
    /\ Arrive(keyCodeFromWayland(key, HeldModifiers(keyboard')), {key})
    /\ UNCHANGED <<sRdkShellKeyMap, sRdkShellVirtualKeyMap>>

WaylandKeys == {Wayland[name] : name \in DOMAIN Wayland}

KeyDown(key) ==
    /\ Cardinality(keyboard) < MaxHeld
    /\ keyboard' = keyboard \cup {key}
    /\ processKeyEvent(key)

KeyUp(key) ==
    /\ key \in keyboard
    /\ keyboard' = keyboard \ {key}
    /\ processKeyEvent(key)

\* generateKey() of a virtual key for the client: its press and its release
GenerateVirtualKey(key) ==
    /\ key \in DOMAIN sRdkShellVirtualKeyMap
    /\ Arrive(sRdkShellVirtualKeyMap[key], {})
    /\ UNCHANGED <<sRdkShellKeyMap, sRdkShellVirtualKeyMap, keyboard>>

CodesNext ==
    \/ \E key \in WaylandKeys : KeyDown(key) \/ KeyUp(key)
    \/ \E key \in DOMAIN sRdkShellVirtualKeyMap : GenerateVirtualKey(key)

CodesSpec == CodesInit /\ [][CodesNext]_codesVars

-----------------------------------------------------------------------------

\* The keys the switches make one of, being one for a client
Twin ==
    ("RIGHTSHIFT" :> "LEFTSHIFT") @@ ("RIGHTCTRL" :> "LEFTCTRL") @@ ("RIGHTALT" :> "LEFTALT")
    @@ ("KPENTER" :> "ENTER") @@ Same(DOMAIN Wayland)

\* Keys without a case in keyCodeFromWayland() whose code is that of a key of
\* RDKShell: ' arrives as the arrow down, Num Lock as E, F20 as a full stop.
Mistaken == {"SINGLEQUOTE", "NUMLOCK", "102ND", "KPEQUAL", "KPPLUSMINUS", "KPCOMMA",
             "LEFTMETA", "RIGHTMETA", "F20"}

\* A key that is not remapped arrives as the key it is, or as its twin, in two
\* conversions by separate tables, or, lacking a case, not at all; it never
\* arrives as another, but for the mistaken ones.
KeyArrives ==
    \A code \in arrived.of \ DOMAIN sRdkShellKeyMap :
        \A name \in {n \in DOMAIN Wayland \ Mistaken : Wayland[n] = code} :
            \/ arrived.key = Wayland[Twin[name]]
            \/ arrived.key = Unknown /\ name \notin DOMAIN FromWayland

=============================================================================
