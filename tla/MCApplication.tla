----------------------------- MODULE MCApplication -----------------------------
(* The threads around one display: the life of its application, or the      *)
(* input extension with its modules; and what a display depends on before   *)
(* it has an application: the start of RDKShell, where displays come from,  *)
(* and what is known of input devices.  These share nothing that one of     *)
(* them changes, so a behaviour is about one of them.                       *)
EXTENDS Application, ExtendedInput, StartUp, Displays, InputDevices

VARIABLE part   \* for good

Parts == {"application", "input", "start", "displays", "devices"}

-----------------------------------------------------------------------------
(* Environments: nothing set, all of it, a threshold that is no number, and *)
(* the splash screen with and without a file to refuse it.                  *)

AllZero == [name \in Numbers |-> 0]

Splash == {"RDKSHELL_SHOW_SPLASH_SCREEN"}

Refusable == Splash \cup {"RDKSHELL_DISABLE_SPLASH_SCREEN_FILE"}

MCEnvironments ==
    {[on |-> {}, number |-> AllZero],
     [on |-> Splash, number |-> AllZero],
     [on |-> Refusable, number |-> [AllZero EXCEPT !["RDKSHELL_LOW_MEMORY_THRESHOLD"] = 50]],
     [on |-> Refusable, number |-> [AllZero EXCEPT !["RDKSHELL_LOW_MEMORY_THRESHOLD"] = NotANumber]],
     [on |-> Switches, number |-> [name \in Numbers |-> 300]]}

MCBoxResolution == [width |-> 1280, height |-> 720]

-----------------------------------------------------------------------------
(* Permissions: one client with two entries, one in capitals that is the    *)
(* first, one that is no string; and none for the other client.             *)

MCLowerCase == [spelling \in {"app", "App", "other"} |-> IF spelling = "App" THEN "app" ELSE spelling]

MCNoPermissions == [clients |-> <<>>, extensions |-> {"e1"}, renderer |-> ""]

MCPermissionFiles ==
    {Unreadable, MCNoPermissions,
     [clients |-> <<[client |-> NotText, extensions |-> {"e1", "e2"}],
                    [client |-> "App", extensions |-> {"e1"}],
                    [client |-> "app", extensions |-> {"e2"}]>>,
      extensions |-> {"e2"}, renderer |-> "r"]}

-----------------------------------------------------------------------------
(* Devices: by ids, by path, infrared, unknown, and without either.         *)

Entry(formed, vendor, path, type) ==
    [formed |-> formed, vendor |-> vendor, product |-> vendor, path |-> path, type |-> type,
     mode |-> 4]

MCDeviceFiles ==
    {Unread,
     [devices |-> <<Entry(FALSE, 2, NoPath, 10), Entry(TRUE, 1, NoPath, 11),
                    Entry(TRUE, 0, "p", 12), Entry(TRUE, 2, NoPath, Generic_IR),
                    Entry(TRUE, 3, "q", FrontPanel), Entry(TRUE, 3, NoPath, 13)>>,
      mapping |-> <<[formed |-> FALSE, filterCode |-> 0, type |-> 20],
                    [formed |-> TRUE, filterCode |-> 7, type |-> 21]>>]}

MCDevices ==
    {[vendor |-> n, product |-> m, path |-> path, number |-> 0, filterCode |-> code] :
        n \in 0..3, m \in {0, 2, 3}, path \in {NoPath, "p", "q"}, code \in {0, 7}}

-----------------------------------------------------------------------------

others == <<startVars, displaysVars, devicesVars>>

MCInit ==
    /\ Init
    /\ InputInit
    /\ StartInit
    /\ DisplaysInit
    /\ DevicesInit
    /\ part \in Parts
    /\ part # "application" => ~surface /\ ~launched
    /\ ~surface => ~autoDestroy    \* which is read of a surface display only
    /\ part # "start" => environment.on = {} /\ files = {}
    /\ part # "displays" =>
          permissionFile = Unreadable /\ ~extendedInput /\ gCompositorType = "NESTED"
    /\ gCompositorType = "SURFACE" => permissionFile = Unreadable /\ ~extendedInput
    /\ part # "devices" => deviceFile = Unread

MCNext ==
    \/ part = "application" /\ Next /\ UNCHANGED <<inputVars, others, part>>
    \/ part = "input" /\ InputNext /\ UNCHANGED <<vars, others, part>>
    \/ part = "start" /\ StartNext /\ UNCHANGED <<vars, inputVars, displaysVars, devicesVars, part>>
    \/ part = "displays" /\ DisplaysNext
       /\ UNCHANGED <<vars, inputVars, startVars, devicesVars, part>>
    \/ part = "devices" /\ DevicesNext
       /\ UNCHANGED <<vars, inputVars, startVars, displaysVars, part>>

MCSpec ==
    /\ MCInit /\ [][MCNext]_<<vars, inputVars, others, part>>
    /\ Fairness /\ InputFairness

=============================================================================
