------------------------------ MODULE Application ------------------------------
(***************************************************************************)
(* The life of one display and of the application launched on it:          *)
(* RdkCompositor (rdkcompositor.cpp) and the calls of CompositorController *)
(* that suspend, resume, close and kill it.  Three threads meet here.  The *)
(* main loop makes the calls, and its closeApplication() waits for the     *)
(* launch thread, which stays in Westeros until the application has ended. *)
(* Westeros' own thread reports clients that connect and disconnect, and   *)
(* an extension registers a state-change listener on it.                   *)
(*                                                                         *)
(* A step ends where a thread takes or gives up mApplicationMutex or       *)
(* mStateChangeLock, waits, or, without a lock, has read mApplicationState. *)
(* mVisible and mFocused are read on the main loop only (Westeros' thread  *)
(* asks for the state of a suspended display alone), so that setting one   *)
(* belongs to the reading of mApplicationState behind it.                  *)
(***************************************************************************)
EXTENDS Naturals, FiniteSets

CONSTANT Strangers   \* processes that connect to the display but were not launched on it

ASSUME StrangersAssumption == Strangers \cap {"application", "unknown", "closed"} = {}

Processes == {"application"} \cup Strangers

VARIABLES
    surface,               \* gRdkShellCompositorType is SURFACE
    launched,              \* launchApplication made the display: it has mApplicationName
    autoDestroy,           \* CompositorInfo.autoDestroy; launchApplication leaves it unset
    display,               \* where the object is: none, created, listed, killed, ...
    mApplicationState,
    mApplicationPid,       \* a process, or "unknown" (-1), or "closed" (0)
    mSuspendedBeforeStart,
    mVisible,
    mFocused,
    mSurfaceCount,
    launchThread,          \* where mApplicationThread is
    joined,                \* mApplicationThread has been joined
    main,                  \* the call the main loop is in
    chosen,                \* the state it is about to tell, or "none"
    wayland,               \* what Westeros' thread is doing
    listening,             \* a state-change listener is registered
    told,                  \* the last state that listener was told
    process,               \* the launched application
    connected,             \* processes connected to the display
    struck,                \* processes that were sent SIGKILL
    terminated,            \* std::thread::join threw, and RDKShell is gone
    first,                 \* history: the process whose pid the display took for its own
    raced,                 \* history: the last registration had a resume in its middle
    overtaken              \* history: it came between the choice of a state and its telling

controller == <<surface, launched, autoDestroy>>
state      == <<mApplicationState, mSuspendedBeforeStart, mVisible, mFocused>>
outside    == <<process, connected>>
history    == <<first, raced, overtaken>>
vars == <<controller, display, state, mApplicationPid, mSurfaceCount, launchThread, joined,
          main, chosen, wayland, listening, told, outside, struck, terminated, history>>

TypeOK ==
    /\ surface \in BOOLEAN /\ launched \in BOOLEAN /\ autoDestroy \in BOOLEAN
    /\ display \in {"none", "created", "listed", "killed", "released",
                    "destroying", "destroyed"}
    /\ mApplicationState \in {"Unknown", "Running", "Suspended", "Stopped"}
    /\ mApplicationPid \in Processes \cup {"unknown", "closed"}
    /\ mSuspendedBeforeStart \in BOOLEAN /\ mVisible \in BOOLEAN /\ mFocused \in BOOLEAN
    /\ mSurfaceCount \in Nat
    /\ launchThread \in {"none", "started", "launching", "forked", "waiting", "ending", "ended"}
    /\ joined \in BOOLEAN
    /\ main \in {"idle", "creating", "suspending", "resuming", "hiding", "showing",
                "revealing", "telling", "joining", "destroying"}
    /\ chosen \in {"none", "ACTIVE", "INACTIVE", "HIDDEN", "SUSPENDED"}
    /\ wayland \in {"idle", "found", "checked", "destroying"}
    /\ listening \in BOOLEAN
    /\ told \in {"nothing", "ACTIVE", "INACTIVE", "HIDDEN", "SUSPENDED"}
    /\ process \in {"none", "running", "ended"}
    /\ connected \subseteq Processes
    /\ struck \subseteq Processes
    /\ terminated \in BOOLEAN
    /\ first \in Processes \cup {"nobody"}
    /\ raced \in BOOLEAN /\ overtaken \in BOOLEAN

Init ==
    /\ surface \in BOOLEAN /\ launched \in BOOLEAN /\ autoDestroy \in BOOLEAN
    /\ display = "none"
    /\ mApplicationState = "Unknown"
    /\ mApplicationPid = "unknown"
    /\ mSuspendedBeforeStart = FALSE /\ mVisible = TRUE /\ mFocused = FALSE
    /\ mSurfaceCount = 0
    /\ launchThread = "none" /\ joined = FALSE
    /\ main = "idle" /\ chosen = "none" /\ wayland = "idle"
    /\ listening = FALSE /\ told = "nothing"
    /\ process = "none" /\ connected = {}
    /\ struck = {} /\ terminated = FALSE
    /\ first = "nobody" /\ raced = FALSE /\ overtaken = FALSE

mApplicationThreadStarted == launchThread # "none"

\* The destructor clears the callbacks before anything else.
CallbacksSet == display \in {"created", "listed", "killed", "released"}

\* The state a display with these is in, as updateWaylandState picks it.
WaylandState(application, visible, focused) ==
    IF application = "Suspended" THEN "SUSPENDED"
    ELSE IF ~visible THEN "HIDDEN"
    ELSE IF focused THEN "ACTIVE"
    ELSE "INACTIVE"

\* updateWaylandState up to broadcastStateChangeEvent; what a registration did
\* to a state chosen before is over.
UpdateWaylandState ==
    LET resumed == mApplicationState = "Suspended" /\ mApplicationState' = "Running"
    IN  /\ chosen' = WaylandState(mApplicationState', mVisible', mFocused')
        /\ raced' = (wayland = "checked" /\ (raced \/ resumed))
        /\ overtaken' = FALSE

-----------------------------------------------------------------------------
(* The main loop: the display is created, then listed.                     *)

\* Westeros runs, and the launch thread is started, before the display is
\* in the lists of the controller.
CreateDisplay ==
    /\ display = "none" /\ main = "idle"
    /\ display' = "created"
    /\ main' = "creating"
    /\ launchThread' = IF launched THEN "started" ELSE "none"
    /\ UNCHANGED <<controller, chosen, state, mApplicationPid, mSurfaceCount, joined,
                   wayland, listening, told, outside, struck, terminated, history>>

ListDisplay ==
    /\ main = "creating"
    /\ display' = "listed"
    /\ main' = "idle"
    /\ UNCHANGED <<controller, chosen, state, mApplicationPid, mSurfaceCount,
                   launchThread, joined, wayland, listening, told, outside, struck,
                   terminated, history>>

-----------------------------------------------------------------------------
(* The main loop: suspend, resume, visibility and focus of a listed        *)
(* display.  The first two end with a setVisible() outside the lock.       *)

Called == main = "idle" /\ display = "listed"

\* The main loop holds mApplicationMutex until it has told the listener.
ApplicationLocked == main \in {"suspending", "resuming"}

Suspend ==
    /\ Called
    /\ \/ /\ mApplicationState = "Running"
          /\ mApplicationState' = "Suspended"
          /\ UNCHANGED <<mSuspendedBeforeStart, mVisible, mFocused>>
          /\ UpdateWaylandState
          /\ main' = "suspending"
       \/ /\ mApplicationState = "Unknown"
          /\ mSuspendedBeforeStart' = TRUE
          /\ UNCHANGED <<mApplicationState, mVisible, mFocused, chosen, raced, overtaken>>
          /\ main' = "hiding"
    /\ UNCHANGED <<controller, display, mApplicationPid, mSurfaceCount, launchThread,
                   joined, wayland, listening, told, outside, struck, terminated, first>>

Resume ==
    /\ Called
    /\ mApplicationState = "Suspended"
    /\ mApplicationState' = "Running"
    /\ UNCHANGED <<mSuspendedBeforeStart, mVisible, mFocused>>
    /\ UpdateWaylandState
    /\ main' = "resuming"
    /\ UNCHANGED <<controller, display, mApplicationPid, mSurfaceCount, launchThread,
                   joined, wayland, listening, told, outside, struck, terminated, first>>

\* setVisible(true) begins with a test: a suspended application is not made
\* visible ...
TestSuspended ==
    /\ Called \/ main = "showing"
    /\ main' = IF mApplicationState = "Suspended" THEN "idle" ELSE "revealing"
    /\ UNCHANGED <<controller, display, state, mApplicationPid, mSurfaceCount,
                   launchThread, joined, chosen, wayland, listening, told, outside,
                   struck, terminated, history>>

\* ... unless it is suspended after the test; setVisible(false) has none.
SetVisible(visible) ==
    /\ IF visible THEN main = "revealing" ELSE Called \/ main = "hiding"
    /\ mVisible' = visible
    /\ UNCHANGED <<mApplicationState, mSuspendedBeforeStart, mFocused>>
    /\ UpdateWaylandState
    /\ main' = "telling"
    /\ UNCHANGED <<controller, display, mApplicationPid, mSurfaceCount, launchThread,
                   joined, wayland, listening, told, outside, struck, terminated, first>>

BugSetFocused(focused) ==
    /\ Called
    /\ mFocused' = focused
    /\ UNCHANGED <<controller, display, mApplicationState, mSuspendedBeforeStart,
                   mVisible, mApplicationPid, mSurfaceCount, launchThread, joined, main,
                   chosen, wayland, listening, told, outside, struck, terminated,
                   history>>

SetFocused(focused) ==
    /\ Called
    /\ mFocused' = focused
    /\ UNCHANGED <<mApplicationState, mSuspendedBeforeStart, mVisible>>
    /\ UpdateWaylandState
    /\ main' = "telling"
    /\ UNCHANGED <<controller, display, mApplicationPid, mSurfaceCount, launchThread,
                   joined, wayland, listening, told, outside, struck, terminated, first>>

\* broadcastStateChangeEvent: what the listener is told was chosen before.
BroadcastStateChangeEvent ==
    /\ main \in {"suspending", "resuming", "telling"}
    /\ told' = IF listening THEN chosen ELSE told
    /\ chosen' = "none"
    /\ main' = CASE main = "suspending" -> "hiding"
                 [] main = "resuming"   -> "showing"
                 [] main = "telling"    -> "idle"
    /\ UNCHANGED <<controller, display, state, mApplicationPid, mSurfaceCount,
                   launchThread, joined, wayland, listening, outside, struck, terminated,
                   history>>

-----------------------------------------------------------------------------
(* Closing, killing, and the end of the object.                            *)

BugCloseSection ==
    IF mApplicationPid \in Processes /\ mApplicationState # "Stopped"
      THEN /\ struck' = struck \cup {mApplicationPid}
           /\ mApplicationPid' = "closed"
           /\ mApplicationState' = "Stopped"
      ELSE UNCHANGED <<struck, mApplicationPid, mApplicationState>>

BugCloseRunning ==
    IF mApplicationPid \in Processes /\ mApplicationState = "Running"
      THEN /\ struck' = struck \cup {mApplicationPid}
           /\ mApplicationPid' = "closed"
           /\ mApplicationState' = "Stopped"
      ELSE UNCHANGED <<struck, mApplicationPid, mApplicationState>>

\* The locked part of closeApplication.
CloseSection ==
    IF mApplicationPid \in Processes /\ mApplicationState \notin {"Stopped", "Unknown"}
      THEN /\ struck' = struck \cup {mApplicationPid}
           /\ mApplicationPid' = "closed"
           /\ mApplicationState' = "Stopped"
      ELSE UNCHANGED <<struck, mApplicationPid, mApplicationState>>

\* mApplicationThreadStarted is never reset: a thread joined once is joined
\* again by the next close, or by the destructor, and std::thread throws.
Close ==
    /\ Called
    /\ CloseSection
    /\ terminated' = (mApplicationThreadStarted /\ joined)
    /\ main' = IF mApplicationThreadStarted /\ ~joined THEN "joining" ELSE "idle"
    /\ UNCHANGED <<controller, chosen, display, mSuspendedBeforeStart, mVisible, mFocused,
                   mSurfaceCount, launchThread, joined, wayland, listening, told, outside,
                   history>>

Join ==
    /\ main = "joining"
    /\ launchThread = "ended"
    /\ joined' = TRUE
    /\ main' = "idle"
    /\ UNCHANGED <<controller, chosen, display, state, mApplicationPid, mSurfaceCount,
                   launchThread, wayland, listening, told, outside, struck, terminated,
                   history>>

Kill ==
    /\ Called
    /\ display' = "killed"
    /\ UNCHANGED <<controller, chosen, state, mApplicationPid, mSurfaceCount,
                   launchThread, joined, main, wayland, listening, told, outside, struck,
                   terminated, history>>

\* ~RdkCompositor up to the join.
Destroy ==
    /\ display' = "destroying"
    /\ CloseSection
    /\ terminated' = (mApplicationThreadStarted /\ joined)
    /\ UNCHANGED <<mSuspendedBeforeStart, mVisible, mFocused>>

\* Westeros could not set the display up: createDisplay drops the object.
DropDisplay ==
    /\ main = "creating"
    /\ Destroy
    /\ main' = "destroying"
    /\ UNCHANGED <<controller, chosen, mSurfaceCount, launchThread, joined, wayland,
                   listening, told, outside, history>>

\* draw() lets go of a killed display; an extension may still hold it.
Draw ==
    /\ main = "idle"
    /\ display = "killed"
    /\ \/ /\ wayland = "idle"
          /\ Destroy
          /\ main' = "destroying"
       \/ /\ wayland # "idle"
          /\ display' = "released"
          /\ UNCHANGED <<main, state, mApplicationPid, struck, terminated>>
    /\ UNCHANGED <<controller, chosen, mSurfaceCount, launchThread, joined, wayland,
                   listening, told, outside, history>>

BugCanFinish == TRUE

\* The destructor ends when the launch thread has, if there is one.
CanFinish == launchThread \in {"none", "ended"}

DestroyEnds ==
    /\ display = "destroying"
    /\ CanFinish
    /\ display' = "destroyed"
    /\ joined' = mApplicationThreadStarted
    /\ main' = IF main = "destroying" THEN "idle" ELSE main
    /\ wayland' = "idle"
    /\ UNCHANGED <<controller, chosen, state, mApplicationPid, mSurfaceCount,
                   launchThread, listening, told, outside, struck, terminated, history>>

-----------------------------------------------------------------------------
(* onClientStatus, on the thread that reports.                             *)

\* Whichever client is heard of first is taken for the application.
TakePid(p) ==
    IF CallbacksSet /\ mApplicationPid = "unknown"
      THEN mApplicationPid' = p /\ first' = p
      ELSE UNCHANGED <<mApplicationPid, first>>

Connect(p) ==
    /\ wayland = "idle" /\ CallbacksSet
    /\ p \notin connected
    /\ p = "application" => process = "running"
    /\ connected' = connected \cup {p}
    /\ TakePid(p)
    /\ mSurfaceCount' = IF surface /\ display = "listed" THEN mSurfaceCount + 1 ELSE mSurfaceCount
    /\ UNCHANGED <<controller, chosen, display, state, launchThread, joined, main,
                   wayland, listening, told, process, struck, terminated, raced,
                   overtaken>>

\* The client whose extension registered the listener takes it along.
Listener == IF launched THEN {"application"} ELSE Strangers

CountDown == IF mSurfaceCount > 0 THEN mSurfaceCount - 1 ELSE 0

\* A display without surfaces is killed inside the callback.
Disconnect(p) ==
    /\ wayland = "idle" /\ CallbacksSet
    /\ p \in connected
    /\ connected' = connected \ {p}
    /\ TakePid(p)
    /\ IF surface /\ display = "listed"
         THEN /\ mSurfaceCount' = CountDown
              /\ display' = IF mSurfaceCount' = 0 /\ autoDestroy THEN "killed" ELSE display
         ELSE UNCHANGED <<mSurfaceCount, display>>
    /\ IF p \in Listener
         THEN listening' = FALSE /\ told' = "nothing"
         ELSE UNCHANGED <<listening, told>>
    /\ UNCHANGED <<controller, chosen, state, launchThread, joined, main, wayland,
                   process, struck, terminated, raced, overtaken>>

-----------------------------------------------------------------------------
(* Westeros' thread: an extension registers a state-change listener for a  *)
(* client.  getCompositor() gives it a reference for the time.             *)

Bind ==
    /\ wayland = "idle" /\ display = "listed"
    /\ connected \cap Listener # {}
    /\ ~listening
    /\ wayland' = "found"
    /\ UNCHANGED <<controller, chosen, display, state, mApplicationPid, mSurfaceCount,
                   launchThread, joined, main, listening, told, outside, struck,
                   terminated, history>>

BugCheckSuspended ==
    /\ wayland = "found"
    /\ UNCHANGED state
    /\ wayland' = "checked"
    /\ UNCHANGED <<controller, chosen, display, mApplicationPid, mSurfaceCount,
                   launchThread, joined, main, listening, told, outside, struck,
                   terminated, history>>

\* registerStateChangeEventListener, first its call of suspendApplication,
\* which has no listener to tell yet ...
CheckSuspended ==
    /\ wayland = "found"
    /\ mSuspendedBeforeStart => ~ApplicationLocked
    /\ IF mSuspendedBeforeStart /\ mApplicationState = "Running"
         THEN mApplicationState' = "Suspended" /\ UNCHANGED <<mSuspendedBeforeStart, mVisible, mFocused>>
         ELSE UNCHANGED state
    /\ wayland' = "checked"
    /\ UNCHANGED <<controller, chosen, display, mApplicationPid, mSurfaceCount,
                   launchThread, joined, main, listening, told, outside, struck,
                   terminated, history>>

\* ... then, under the other lock, the listener; it is told nothing else.
\* The reference goes away with the call and may have been the last one.
AddListener ==
    /\ wayland = "checked"
    /\ listening' = TRUE
    /\ told' = IF mSuspendedBeforeStart THEN "SUSPENDED" ELSE told
    /\ IF display = "released"
         THEN /\ display' = "destroying"
              /\ CloseSection
              /\ terminated' = (mApplicationThreadStarted /\ joined)
              /\ wayland' = "destroying"
         ELSE /\ wayland' = "idle"
              /\ UNCHANGED <<display, mApplicationPid, mApplicationState, struck, terminated>>
    /\ mSuspendedBeforeStart' = FALSE
    /\ overtaken' = \/ overtaken
                    \/ mSuspendedBeforeStart /\ chosen \notin {"none", "SUSPENDED"}
    /\ UNCHANGED <<controller, chosen, mVisible, mFocused, mSurfaceCount, launchThread,
                   joined, main, outside, first, raced>>

-----------------------------------------------------------------------------
(* The launch thread and the application.                                  *)

Launching(from, to) ==
    /\ launchThread = from
    /\ launchThread' = to
    /\ UNCHANGED <<controller, chosen, display, mSuspendedBeforeStart, mVisible, mFocused,
                   mSurfaceCount, joined, main, wayland, listening, told, connected,
                   struck, terminated, raced, overtaken>>

LaunchBegins ==
    /\ ~ApplicationLocked
    /\ Launching("started", "launching")
    /\ mApplicationState' = "Running"
    /\ UNCHANGED <<mApplicationPid, process, first>>

Fork ==
    /\ Launching("launching", "forked")
    /\ process' = "running"
    /\ UNCHANGED <<mApplicationPid, mApplicationState, first>>

LaunchFails ==
    /\ Launching("launching", "ending")
    /\ UNCHANGED <<mApplicationPid, mApplicationState, process, first>>

ReportStarted ==
    /\ Launching("forked", "waiting")
    /\ TakePid("application")
    /\ UNCHANGED <<mApplicationState, process>>

\* WstCompositorLaunchClient returns once the application has ended; a report
\* of that end does not change mApplicationPid.
ReportStopped ==
    /\ process = "ended"
    /\ Launching("waiting", "ending")
    /\ UNCHANGED <<mApplicationPid, mApplicationState, process, first>>

\* The state is Running again at the end, whatever it was.
LaunchEnds ==
    /\ ~ApplicationLocked
    /\ Launching("ending", "ended")
    /\ mApplicationState' = "Running"
    /\ UNCHANGED <<mApplicationPid, process, first>>

ProcessEnds ==
    /\ process = "running"
    /\ process' = "ended"
    /\ UNCHANGED <<controller, chosen, display, state, mApplicationPid, mSurfaceCount,
                   launchThread, joined, main, wayland, listening, told, connected,
                   struck, terminated, history>>

-----------------------------------------------------------------------------
MainLoop ==
    \/ CreateDisplay \/ ListDisplay \/ DropDisplay
    \/ Suspend \/ Resume
    \/ \E on \in BOOLEAN : SetVisible(on) \/ SetFocused(on)
    \/ TestSuspended \/ BroadcastStateChangeEvent
    \/ Close \/ Join \/ Kill \/ Draw

Westeros ==
    \/ \E p \in Processes : Connect(p) \/ Disconnect(p)
    \/ Bind \/ CheckSuspended \/ AddListener

LaunchThread ==
    \/ LaunchBegins \/ Fork \/ LaunchFails \/ ReportStarted \/ ReportStopped \/ LaunchEnds

Next ==
    /\ ~terminated
    /\ MainLoop \/ DestroyEnds \/ Westeros \/ LaunchThread \/ ProcessEnds

Spec == Init /\ [][Next]_vars

\* The main loop is in a call and goes on with it.
GoOn ==
    /\ main # "idle"
    /\ TestSuspended \/ BroadcastStateChangeEvent \/ \E on \in BOOLEAN : SetVisible(on)

\* A thread that is in a call goes on, the main loop draws, Westeros starts
\* an application or says it cannot, and a process does not outlive SIGKILL.
Fairness ==
    /\ WF_vars(~terminated /\ GoOn)
    /\ WF_vars(~terminated /\ Draw)
    /\ WF_vars(~terminated /\ Join)
    /\ WF_vars(~terminated /\ DestroyEnds)
    /\ WF_vars(~terminated /\ (CheckSuspended \/ AddListener))
    /\ WF_vars(~terminated /\ LaunchThread)
    /\ WF_vars(~terminated /\ "application" \in struck /\ ProcessEnds)

FairSpec == Spec /\ Fairness

-----------------------------------------------------------------------------
(* Properties.                                                             *)

\* While the application runs, its listener is not left with an old state:
\* whatever suspends, resumes, hides, shows and focuses the display in
\* whatever order, and also when the suspend came before the application
\* had started, the last state told is the present one once the main loop has
\* told it - unless that suspend took effect in a registration that came after
\* the main loop had chosen what to tell and before it told it, or that had a
\* resume between its two locks; and then the next state told is right again.
ToldTheState ==
    launched /\ launchThread = "waiting" /\ told # "nothing" /\ chosen = "none"
        /\ ~raced /\ ~overtaken /\ mApplicationState # "Stopped"
      => told = WaylandState(mApplicationState, mVisible, mFocused)

\* A suspend accepted before the application started is kept for it and takes
\* effect when its listener registers: it is suspended and told so, unless
\* it has ended, or the main loop resumed or closed it, in the meantime.
EarlySuspendTakesEffect ==
    [][ AddListener /\ launched /\ process = "running" /\ mSuspendedBeforeStart
          => /\ told' = "SUSPENDED"
             /\ mApplicationState = "Suspended" \/ raced \/ struck # {} ]_vars

\* When the object is gone nothing of it is left: no launch thread that
\* still refers to it, no application that outlives its display.
NothingLeftBehind ==
    display = "destroyed" => launchThread \in {"none", "ended"} /\ process # "running"

\* A display on which nothing was launched signals no process, though it
\* remembers one; one with an application signals that only, unless another
\* client was heard of before it.
OnlyTheApplicationIsKilled ==
    struck \subseteq IF launched THEN {"application", first} ELSE {}

\* A killed display whose application is known goes, and its application
\* with it; the main loop does not wait for it for ever.
KilledDisplayGoes ==
    (display = "killed" /\ mApplicationPid = "application" /\ main # "joining")
      ~> (display = "destroyed" \/ terminated)

=============================================================================
