------------------------------- MODULE StartUp -------------------------------
(***************************************************************************)
(* The start of RDKShell (main.cpp, initialize() of rdkshell.cpp and what  *)
(* it calls), up to the main loop, with what outlives the process: two     *)
(* files.  One in /tmp, the marker, says that the splash screen was shown  *)
(* since the box was started; the other, which somebody may leave, asks    *)
(* for none.  The process may die at any point and is started again, and   *)
(* the box may restart, which empties /tmp.                                *)
(* A variable of the environment is a number: 0 if it is not set or no     *)
(* number for atoi, NotANumber if std::stod throws.                        *)
(***************************************************************************)
EXTENDS Integers, FiniteSets

CONSTANTS
    Environments,   \* what the process may find in its environment
    Force1080,      \* RDKSHELL_ENABLE_FORCE_1080
    BoxResolution,  \* what Essos says of the screen
    MaxStarts       \* bounds starts

NotANumber == -1

Switches == {"RDKSHELL_ENABLE_IPC", "RDKSHELL_ENABLE_WS_IPC", "RDKSHELL_SET_GRAPHICS_720",
             "RDKSHELL_SHOW_SPLASH_SCREEN", "RDKSHELL_DISABLE_SPLASH_SCREEN_FILE",
             "RDKSHELL_ENABLE_POWER_KEY", "RDKSHELL_POWER_RELEASE_ONLY",
             "RDKSHELL_ENABLE_KEY_IGNORE", "surface", "RDKSHELL_CURSOR_IMAGE"}

Numbers == {"RDKSHELL_FRAMERATE", "RDKSHELL_LOW_MEMORY_THRESHOLD",
            "RDKSHELL_CRITICALLY_LOW_MEMORY_THRESHOLD",
            "RDKSHELL_SWAP_MEMORY_INCREASE_THRESHOLD", "RDKSHELL_KEY_INITIAL_DELAY",
            "RDKSHELL_KEY_REPEAT_INTERVAL", "RDKSHELL_SHOW_SPLASH_TIME_IN_SECONDS",
            "RDKSHELL_POWER_KEY_CODE", "RDKSHELL_FRONT_PANEL_BUTTON_CODE"}

\* an environment: the switches that are on, and the numbers
ASSUME StartUpAssumption ==
    /\ Environments \subseteq [on : SUBSET Switches, number : [Numbers -> Int]]
    /\ Force1080 \in BOOLEAN

VARIABLES
    environment,
    files,        \* of "marker", "disable" and "rdkshell720", which there are
    place,        \* how far the start has come; "off" if there is no process
    settings,     \* the process's, by name
    servers,      \* message handlers that run
    resolution,   \* mWidth and mHeight
    splashTime,
    shown,        \* history: splash screens since the box started (the image may not load)
    unmarked,     \* history: how often the process died between the screen and its marker
    refused,      \* history: the other file was found since the box started
    starts

startVars == <<environment, files, place, settings, servers, resolution, splashTime, shown,
               unmarked, refused, starts>>

On(name) == name \in environment.on

Positive(name, default) ==
    IF environment.number[name] > 0 THEN environment.number[name] ELSE default

NoSettings == [name \in {} |-> 0]

NoResolution == [width |-> 0, height |-> 0]

Fresh ==
    /\ settings' = NoSettings
    /\ servers' = {}
    /\ resolution' = NoResolution
    /\ splashTime' = 0

StartInit ==
    /\ environment \in Environments
    /\ files \in SUBSET {"disable"}
    /\ place = "off"
    /\ settings = NoSettings /\ servers = {} /\ resolution = NoResolution /\ splashTime = 0
    /\ shown = 0 /\ unmarked = 0 /\ refused = FALSE
    /\ starts = 0

At(from, to) == place = from /\ place' = to

Persistent == <<environment, files, starts>>
HistoryVars == <<shown, unmarked, refused>>

-----------------------------------------------------------------------------
(* initialize()                                                            *)

Start ==
    /\ starts < MaxStarts
    /\ At("off", "settings")
    /\ Fresh
    /\ starts' = starts + 1
    /\ UNCHANGED <<environment, files, HistoryVars>>

\* The thresholds in MB.  The critical one is held under the low one where it
\* is set, and 100 where it is not.
LowThreshold == Positive("RDKSHELL_LOW_MEMORY_THRESHOLD", 200)

CriticalThreshold ==
    LET asked == environment.number["RDKSHELL_CRITICALLY_LOW_MEMORY_THRESHOLD"]
    IN  IF asked <= 0 THEN 100 ELSE IF asked <= LowThreshold THEN asked ELSE LowThreshold

Thresholds == {"RDKSHELL_LOW_MEMORY_THRESHOLD", "RDKSHELL_CRITICALLY_LOW_MEMORY_THRESHOLD",
               "RDKSHELL_SWAP_MEMORY_INCREASE_THRESHOLD"}

Throws == \E name \in Thresholds : environment.number[name] = NotANumber

ReadSettings ==
    /\ ~Throws
    /\ At("settings", "servers")
    /\ settings' =
         [gCurrentFramerate               |-> Positive("RDKSHELL_FRAMERATE", 40),
          gLowRamMemoryThresholdInMb      |-> LowThreshold,
          gCriticallyLowRamMemoryThresholdInMb |-> CriticalThreshold,
          gSwapMemoryIncreaseThresoldInMb |->
              Positive("RDKSHELL_SWAP_MEMORY_INCREASE_THRESHOLD", 50),
          mKeyInitialDelay                |-> Positive("RDKSHELL_KEY_INITIAL_DELAY", 500),
          mKeyRepeatInterval              |-> Positive("RDKSHELL_KEY_REPEAT_INTERVAL", 100)]
    /\ UNCHANGED <<servers, resolution, splashTime, Persistent, HistoryVars>>

\* main() catches what std::stod throws, and the process ends.
SettingThrows ==
    /\ Throws
    /\ At("settings", "off")
    /\ Fresh
    /\ UNCHANGED <<Persistent, HistoryVars>>

StartServers ==
    /\ At("servers", "essos")
    /\ servers' = {server \in {"ipc", "websocket"} :
                     \/ server = "ipc" /\ On("RDKSHELL_ENABLE_IPC")
                     \/ server = "websocket" /\ On("RDKSHELL_ENABLE_WS_IPC")}
    /\ UNCHANGED <<settings, resolution, splashTime, Persistent, HistoryVars>>

gForce720 == On("RDKSHELL_SET_GRAPHICS_720") \/ "rdkshell720" \in files

\* Essos fails or not: the error is logged and the start goes on.
EssosInitialize ==
    /\ At("essos", "splash")
    /\ \E essosError \in BOOLEAN :
          resolution' = IF Force1080 /\ gForce720 THEN [width |-> 1280, height |-> 720]
                        ELSE IF Force1080 THEN [width |-> 1920, height |-> 1080]
                        ELSE IF essosError THEN NoResolution
                        ELSE BoxResolution
    /\ UNCHANGED <<settings, servers, splashTime, Persistent, HistoryVars>>

\* The marker is looked for first, and only then the other file.
NoSplash ==
    /\ ~On("RDKSHELL_SHOW_SPLASH_SCREEN") \/ "marker" \in files
    /\ ~(On("RDKSHELL_SHOW_SPLASH_SCREEN") /\ On("RDKSHELL_DISABLE_SPLASH_SCREEN_FILE")
         /\ "disable" \in files)
    /\ At("splash", "controller")
    /\ UNCHANGED <<settings, servers, resolution, splashTime, Persistent, HistoryVars>>

RefuseSplash ==
    /\ On("RDKSHELL_SHOW_SPLASH_SCREEN")
    /\ On("RDKSHELL_DISABLE_SPLASH_SCREEN_FILE") /\ "disable" \in files
    /\ At("splash", "removing")
    /\ files' = files \cup {"marker"}
    /\ refused' = TRUE
    /\ UNCHANGED <<environment, settings, servers, resolution, splashTime, shown, unmarked,
                   starts>>

\* remove() fails where the file may not be written.
RemoveDisableFile ==
    /\ At("removing", "controller")
    /\ files' \in {files, files \ {"disable"}}
    /\ UNCHANGED <<environment, settings, servers, resolution, splashTime, HistoryVars, starts>>

ShowSplash ==
    /\ On("RDKSHELL_SHOW_SPLASH_SCREEN") /\ "marker" \notin files
    /\ ~(On("RDKSHELL_DISABLE_SPLASH_SCREEN_FILE") /\ "disable" \in files)
    /\ At("splash", "marking")
    /\ splashTime' = Positive("RDKSHELL_SHOW_SPLASH_TIME_IN_SECONDS", 0)
    /\ shown' = shown + 1
    /\ UNCHANGED <<settings, servers, resolution, Persistent, unmarked, refused>>

BugMark == UNCHANGED files

Mark == files' = files \cup {"marker"}

MarkSplash ==
    /\ At("marking", "controller")
    /\ Mark
    /\ UNCHANGED <<environment, settings, servers, resolution, splashTime, HistoryVars, starts>>

\* CompositorController::initialize(); the memory monitor starts after it.
ControllerInitialize ==
    /\ At("controller", "running")
    /\ settings' =
         [n \in DOMAIN settings \cup {"gPowerKeyCode", "gPowerKeyEnabled",
                "gFrontPanelButtonCode", "gRdkShellPowerKeyReleaseOnlyEnabled",
                "gIgnoreKeyInputEnabled", "gRdkShellCompositorType", "gCursor"} |->
            CASE n = "gPowerKeyCode"        -> Positive("RDKSHELL_POWER_KEY_CODE", 0)
              [] n = "gFrontPanelButtonCode" -> Positive("RDKSHELL_FRONT_PANEL_BUTTON_CODE", 0)
              [] n = "gPowerKeyEnabled"     -> On("RDKSHELL_ENABLE_POWER_KEY")
              [] n = "gRdkShellPowerKeyReleaseOnlyEnabled" -> On("RDKSHELL_POWER_RELEASE_ONLY")
              [] n = "gIgnoreKeyInputEnabled" -> On("RDKSHELL_ENABLE_KEY_IGNORE")
              [] n = "gRdkShellCompositorType" -> IF On("surface") THEN "SURFACE" ELSE "NESTED"
              [] n = "gCursor"              -> On("RDKSHELL_CURSOR_IMAGE")
              [] OTHER                      -> settings[n]]
    /\ UNCHANGED <<servers, resolution, splashTime, Persistent, HistoryVars>>

-----------------------------------------------------------------------------
(* Around the process.                                                     *)

Die ==
    /\ place # "off"
    /\ place' = "off"
    /\ Fresh
    /\ unmarked' = IF place = "marking" THEN unmarked + 1 ELSE unmarked
    /\ UNCHANGED <<Persistent, shown, refused>>

Reboot ==
    /\ place' = "off"
    /\ Fresh
    /\ files' = files \cap {"disable"}
    /\ shown' = 0 /\ unmarked' = 0 /\ refused' = FALSE
    /\ UNCHANGED <<environment, starts>>

\* Somebody leaves a file.
Leave(file) ==
    /\ files' = files \cup {file}
    /\ UNCHANGED <<environment, place, settings, servers, resolution, splashTime, HistoryVars,
                   starts>>

StartNext ==
    \/ Start \/ ReadSettings \/ SettingThrows \/ StartServers \/ EssosInitialize
    \/ NoSplash \/ RefuseSplash \/ RemoveDisableFile \/ ShowSplash \/ MarkSplash
    \/ ControllerInitialize
    \/ Die \/ Reboot
    \/ \E file \in {"disable", "rdkshell720"} : Leave(file)

StartSpec == StartInit /\ [][StartNext]_startVars

-----------------------------------------------------------------------------

\* Until the box restarts the splash screen is shown once, again only where the
\* process died before it could say so, and not at all once somebody asked for
\* none and was heard, whatever becomes of the process and of that file.
SplashOncePerBoot ==
    [][shown' > shown => ~refused /\ shown = unmarked]_startVars

=============================================================================
