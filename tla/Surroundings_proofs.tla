--------------------------- MODULE Surroundings_proofs ---------------------------
(* Theorems about one display and what is around it: the life of its application, *)
(* for any processes that connect to it; the input extension, for any modules,    *)
(* pipes and number of events; the start of RDKShell, for any environments and    *)
(* number of starts; where displays come from, for any displays, clients and      *)
(* permissions; and what is told of the device of a key, for any configuration.   *)
EXTENDS Application, ExtendedInput, StartUp, Displays, InputDevices, SequenceLemmas

-----------------------------------------------------------------------------
(* Application: nothing is left behind by a display that is gone, only its        *)
(* application is killed, and the application is told its state.                  *)

\* Where the launch thread is, the application is, and the display with them.
ThreadInv ==
    /\ launchThread \in {"none", "started", "launching", "forked", "waiting", "ending", "ended"}
    /\ mApplicationState \in {"Unknown", "Running", "Suspended", "Stopped"}
    /\ display = "none" => launchThread = "none"
    /\ ~launched => launchThread = "none"
    /\ launchThread \in {"none", "started"} <=> mApplicationState = "Unknown"
    /\ launchThread \in {"none", "started", "launching"} => process = "none"
    /\ launchThread \in {"ending", "ended"} => process # "running"
    /\ display = "destroyed" => launchThread \in {"none", "ended"}

\* The pid is that of the first process heard of until that is killed.
PidInv ==
    /\ mApplicationPid \in Processes => first = mApplicationPid
    /\ mApplicationPid = "unknown" => struck = {}
    /\ struck \subseteq IF launched THEN {first} ELSE {}
    /\ mApplicationState = "Stopped" => struck # {}

Forked == launchThread \notin {"none", "started", "launching"}

\* Only an application that runs registers a listener.
ListenInv ==
    /\ launched /\ ("application" \in connected \/ listening \/ wayland \in {"found", "checked"})
         => Forked
    /\ wayland \in {"found", "checked"} => ~listening
    /\ ~listening => told = "nothing"

Present == WaylandState(mApplicationState, mVisible, mFocused)

\* Until the launch thread, if there is one, is at its end, the state the main
\* loop is about to tell is the present one, or a registration is suspending the
\* display, or has done so.
ChoiceInv ==
    /\ chosen # "none" <=> main \in {"suspending", "resuming", "telling"}
    /\ chosen # "none" /\ launchThread \notin {"none", "ending", "ended"}
          /\ mApplicationState # "Stopped"
         => /\ chosen = "SUSPENDED" => mApplicationState = "Suspended"
            /\ chosen = Present \/ overtaken \/ (wayland = "checked" /\ mSuspendedBeforeStart)

\* Once forked and until it has ended, the application has been told its state,
\* or is suspended before its listener is added.
ToldInv ==
    launched /\ launchThread \in {"forked", "waiting"} /\ ~raced /\ mApplicationState # "Stopped"
      => /\ told # "nothing" /\ chosen = "none" /\ ~overtaken => told = Present
         /\ wayland = "checked" /\ mSuspendedBeforeStart => mApplicationState = "Suspended"

IInv == ThreadInv /\ PidInv /\ ListenInv /\ ChoiceInv /\ ToldInv

-----------------------------------------------------------------------------
\* Nothing has happened to the display.
LEMMA InitInv == Init => IInv
BY StrangersAssumption
   DEF Init, IInv, ThreadInv, PidInv, ListenInv, ChoiceInv, ToldInv, Processes, Forked

\* Only the launch thread and the end of the process change what the two are,
\* and the display is only destroyed when the thread is at its end.
LEMMA NextThread == ThreadInv /\ [Next]_vars => ThreadInv'
<1> SUFFICES ASSUME ThreadInv, [Next]_vars PROVE ThreadInv'
    OBVIOUS
<1> USE DEF ThreadInv, controller, state, outside, history
<1>1. CASE CreateDisplay
    BY <1>1 DEF CreateDisplay
<1>2. CASE ListDisplay
    BY <1>2 DEF ListDisplay
<1>3. CASE DropDisplay
    BY <1>3 DEF DropDisplay, Destroy, CloseSection
<1>4. CASE Suspend
    BY <1>4 DEF Suspend, UpdateWaylandState, Called
<1>5. CASE Resume
    BY <1>5 DEF Resume, UpdateWaylandState, Called
<1>6. ASSUME NEW on \in BOOLEAN, SetVisible(on) PROVE ThreadInv'
    BY <1>6 DEF SetVisible, UpdateWaylandState, Called
<1>7. ASSUME NEW on \in BOOLEAN, SetFocused(on) PROVE ThreadInv'
    BY <1>7 DEF SetFocused, UpdateWaylandState, Called
<1>8. CASE Close
    BY <1>8 DEF Close, CloseSection, Called
<1>9. CASE Join
    BY <1>9 DEF Join
<1>10. CASE Kill
    BY <1>10 DEF Kill, Called
<1>11. CASE Draw
    BY <1>11 DEF Draw, Destroy, CloseSection
<1>12. CASE DestroyEnds
    BY <1>12 DEF DestroyEnds, CanFinish
<1>13. ASSUME NEW p \in Processes, Connect(p) PROVE ThreadInv'
    BY <1>13 DEF Connect, TakePid, CallbacksSet
<1>14. ASSUME NEW p \in Processes, Disconnect(p) PROVE ThreadInv'
    BY <1>14 DEF Disconnect, TakePid, CallbacksSet, Listener
<1>15. CASE Bind
    BY <1>15 DEF Bind, Listener
<1>16. CASE CheckSuspended
    BY <1>16 DEF CheckSuspended
<1>17. CASE AddListener
    BY <1>17 DEF AddListener, CloseSection
<1>18. CASE LaunchBegins
    BY <1>18 DEF LaunchBegins, Launching
<1>19. CASE Fork
    BY <1>19 DEF Fork, Launching
<1>20. CASE LaunchFails
    BY <1>20 DEF LaunchFails, Launching
<1>21. CASE ReportStarted
    BY <1>21 DEF ReportStarted, Launching, TakePid, CallbacksSet
<1>22. CASE ReportStopped
    BY <1>22 DEF ReportStopped, Launching
<1>23. CASE LaunchEnds
    BY <1>23 DEF LaunchEnds, Launching
<1>24. CASE ProcessEnds
    BY <1>24 DEF ProcessEnds
<1>25. CASE TestSuspended
    BY <1>25 DEF TestSuspended, Called
<1>26. CASE BroadcastStateChangeEvent
    BY <1>26 DEF BroadcastStateChangeEvent
<1>27. CASE UNCHANGED vars
    BY <1>27 DEF vars, outside, history
<1> QED BY <1>1, <1>2, <1>3, <1>4, <1>5, <1>6, <1>7, <1>8, <1>9, <1>10, <1>11, <1>12,
           <1>13, <1>14, <1>15, <1>16, <1>17, <1>18, <1>19, <1>20, <1>21, <1>22, <1>23,
           <1>24, <1>25, <1>26, <1>27 DEF Next, MainLoop, Westeros, LaunchThread

\* A pid is taken once, with the first process, and given up when it is killed.
LEMMA NextPid == ThreadInv /\ PidInv /\ [Next]_vars => PidInv'
<1> SUFFICES ASSUME ThreadInv, PidInv, [Next]_vars PROVE PidInv'
    OBVIOUS
<1> USE DEF ThreadInv, PidInv, controller, state, outside, history
<1>1. CASE CreateDisplay
    BY <1>1 DEF CreateDisplay
<1>2. CASE ListDisplay
    BY <1>2 DEF ListDisplay
<1>3. CASE DropDisplay
    BY <1>3, StrangersAssumption DEF DropDisplay, Destroy, CloseSection, Processes
<1>4. CASE Suspend
    BY <1>4 DEF Suspend, UpdateWaylandState, Called
<1>5. CASE Resume
    BY <1>5 DEF Resume, UpdateWaylandState, Called
<1>6. ASSUME NEW on \in BOOLEAN, SetVisible(on) PROVE PidInv'
    BY <1>6 DEF SetVisible, UpdateWaylandState, Called
<1>7. ASSUME NEW on \in BOOLEAN, SetFocused(on) PROVE PidInv'
    BY <1>7 DEF SetFocused, UpdateWaylandState, Called
<1>8. CASE Close
    BY <1>8, StrangersAssumption DEF Close, CloseSection, Called, Processes
<1>9. CASE Join
    BY <1>9 DEF Join
<1>10. CASE Kill
    BY <1>10 DEF Kill, Called
<1>11. CASE Draw
    BY <1>11, StrangersAssumption DEF Draw, Destroy, CloseSection, Processes
<1>12. CASE DestroyEnds
    BY <1>12 DEF DestroyEnds, CanFinish
<1>13. ASSUME NEW p \in Processes, Connect(p) PROVE PidInv'
    BY <1>13, StrangersAssumption DEF Connect, TakePid, CallbacksSet, Processes
<1>14. ASSUME NEW p \in Processes, Disconnect(p) PROVE PidInv'
    BY <1>14, StrangersAssumption DEF Disconnect, TakePid, CallbacksSet, Listener, Processes
<1>15. CASE Bind
    BY <1>15 DEF Bind, Listener
<1>16. CASE CheckSuspended
    BY <1>16 DEF CheckSuspended
<1>17. CASE AddListener
    BY <1>17, StrangersAssumption DEF AddListener, CloseSection, Processes
<1>18. CASE LaunchBegins
    BY <1>18 DEF LaunchBegins, Launching
<1>19. CASE Fork
    BY <1>19 DEF Fork, Launching
<1>20. CASE LaunchFails
    BY <1>20 DEF LaunchFails, Launching
<1>21. CASE ReportStarted
    BY <1>21, StrangersAssumption DEF ReportStarted, Launching, TakePid, CallbacksSet, Processes
<1>22. CASE ReportStopped
    BY <1>22 DEF ReportStopped, Launching
<1>23. CASE LaunchEnds
    BY <1>23 DEF LaunchEnds, Launching
<1>24. CASE ProcessEnds
    BY <1>24 DEF ProcessEnds
<1>25. CASE TestSuspended
    BY <1>25 DEF TestSuspended, Called
<1>26. CASE BroadcastStateChangeEvent
    BY <1>26 DEF BroadcastStateChangeEvent
<1>27. CASE UNCHANGED vars
    BY <1>27 DEF vars, outside, history
<1> QED BY <1>1, <1>2, <1>3, <1>4, <1>5, <1>6, <1>7, <1>8, <1>9, <1>10, <1>11, <1>12,
           <1>13, <1>14, <1>15, <1>16, <1>17, <1>18, <1>19, <1>20, <1>21, <1>22, <1>23,
           <1>24, <1>25, <1>26, <1>27 DEF Next, MainLoop, Westeros, LaunchThread

\* A listener comes with an application that is connected, and goes with it.
LEMMA NextListen == ThreadInv /\ ListenInv /\ [Next]_vars => ListenInv'
<1> SUFFICES ASSUME ThreadInv, ListenInv, [Next]_vars PROVE ListenInv'
    OBVIOUS
<1> USE DEF ThreadInv, ListenInv, Forked, controller, state, outside, history
<1>1. CASE CreateDisplay
    BY <1>1 DEF CreateDisplay
<1>2. CASE ListDisplay
    BY <1>2 DEF ListDisplay
<1>3. CASE DropDisplay
    BY <1>3 DEF DropDisplay, Destroy, CloseSection
<1>4. CASE Suspend
    BY <1>4 DEF Suspend, UpdateWaylandState, Called
<1>5. CASE Resume
    BY <1>5 DEF Resume, UpdateWaylandState, Called
<1>6. ASSUME NEW on \in BOOLEAN, SetVisible(on) PROVE ListenInv'
    BY <1>6 DEF SetVisible, UpdateWaylandState, Called
<1>7. ASSUME NEW on \in BOOLEAN, SetFocused(on) PROVE ListenInv'
    BY <1>7 DEF SetFocused, UpdateWaylandState, Called
<1>8. CASE Close
    BY <1>8 DEF Close, CloseSection, Called
<1>9. CASE Join
    BY <1>9 DEF Join
<1>10. CASE Kill
    BY <1>10 DEF Kill, Called
<1>11. CASE Draw
    BY <1>11 DEF Draw, Destroy, CloseSection
<1>12. CASE DestroyEnds
    BY <1>12 DEF DestroyEnds, CanFinish
<1>13. ASSUME NEW p \in Processes, Connect(p) PROVE ListenInv'
    BY <1>13 DEF Connect, TakePid, CallbacksSet
<1>14. ASSUME NEW p \in Processes, Disconnect(p) PROVE ListenInv'
    BY <1>14 DEF Disconnect, TakePid, CallbacksSet, Listener
<1>15. CASE Bind
    BY <1>15 DEF Bind, Listener
<1>16. CASE CheckSuspended
    BY <1>16 DEF CheckSuspended
<1>17. CASE AddListener
    BY <1>17 DEF AddListener, CloseSection
<1>18. CASE LaunchBegins
    BY <1>18 DEF LaunchBegins, Launching
<1>19. CASE Fork
    BY <1>19 DEF Fork, Launching
<1>20. CASE LaunchFails
    BY <1>20 DEF LaunchFails, Launching
<1>21. CASE ReportStarted
    BY <1>21 DEF ReportStarted, Launching, TakePid, CallbacksSet
<1>22. CASE ReportStopped
    BY <1>22 DEF ReportStopped, Launching
<1>23. CASE LaunchEnds
    BY <1>23 DEF LaunchEnds, Launching
<1>24. CASE ProcessEnds
    BY <1>24 DEF ProcessEnds
<1>25. CASE TestSuspended
    BY <1>25 DEF TestSuspended, Called
<1>26. CASE BroadcastStateChangeEvent
    BY <1>26 DEF BroadcastStateChangeEvent
<1>27. CASE UNCHANGED vars
    BY <1>27 DEF vars, outside, history
<1> QED BY <1>1, <1>2, <1>3, <1>4, <1>5, <1>6, <1>7, <1>8, <1>9, <1>10, <1>11, <1>12,
           <1>13, <1>14, <1>15, <1>16, <1>17, <1>18, <1>19, <1>20, <1>21, <1>22, <1>23,
           <1>24, <1>25, <1>26, <1>27 DEF Next, MainLoop, Westeros, LaunchThread

\* The main loop chooses by what holds, and what a suspend changes after that
\* is put down.
LEMMA NextChoice == ThreadInv /\ ListenInv /\ ChoiceInv /\ [Next]_vars => ChoiceInv'
<1> SUFFICES ASSUME ThreadInv, ListenInv, ChoiceInv, [Next]_vars PROVE ChoiceInv'
    OBVIOUS
<1> USE DEF ThreadInv, ListenInv, ChoiceInv, Forked, Present, WaylandState,
           controller, state, outside, history
<1>1. CASE CreateDisplay
    BY <1>1 DEF CreateDisplay
<1>2. CASE ListDisplay
    BY <1>2 DEF ListDisplay
<1>3. CASE DropDisplay
    BY <1>3 DEF DropDisplay, Destroy, CloseSection
<1>4. CASE Suspend
    BY <1>4 DEF Suspend, UpdateWaylandState, Called
<1>5. CASE Resume
    BY <1>5 DEF Resume, UpdateWaylandState, Called
<1>6. ASSUME NEW on \in BOOLEAN, SetVisible(on) PROVE ChoiceInv'
    BY <1>6 DEF SetVisible, UpdateWaylandState, Called
<1>7. ASSUME NEW on \in BOOLEAN, SetFocused(on) PROVE ChoiceInv'
    BY <1>7 DEF SetFocused, UpdateWaylandState, Called
<1>8. CASE Close
    BY <1>8 DEF Close, CloseSection, Called
<1>9. CASE Join
    BY <1>9 DEF Join
<1>10. CASE Kill
    BY <1>10 DEF Kill, Called
<1>11. CASE Draw
    BY <1>11 DEF Draw, Destroy, CloseSection
<1>12. CASE DestroyEnds
    BY <1>12 DEF DestroyEnds, CanFinish
<1>13. ASSUME NEW p \in Processes, Connect(p) PROVE ChoiceInv'
    BY <1>13 DEF Connect, TakePid, CallbacksSet
<1>14. ASSUME NEW p \in Processes, Disconnect(p) PROVE ChoiceInv'
    BY <1>14 DEF Disconnect, TakePid, CallbacksSet, Listener
<1>15. CASE Bind
    BY <1>15 DEF Bind, Listener
<1>16. CASE CheckSuspended
    BY <1>16 DEF CheckSuspended, ApplicationLocked
<1>17. CASE AddListener
    BY <1>17 DEF AddListener, CloseSection
<1>18. CASE LaunchBegins
    BY <1>18 DEF LaunchBegins, Launching, ApplicationLocked
<1>19. CASE Fork
    BY <1>19 DEF Fork, Launching
<1>20. CASE LaunchFails
    BY <1>20 DEF LaunchFails, Launching
<1>21. CASE ReportStarted
    BY <1>21 DEF ReportStarted, Launching, TakePid, CallbacksSet
<1>22. CASE ReportStopped
    BY <1>22 DEF ReportStopped, Launching
<1>23. CASE LaunchEnds
    BY <1>23 DEF LaunchEnds, Launching
<1>24. CASE ProcessEnds
    BY <1>24 DEF ProcessEnds
<1>25. CASE TestSuspended
    BY <1>25 DEF TestSuspended, Called
<1>26. CASE BroadcastStateChangeEvent
    BY <1>26 DEF BroadcastStateChangeEvent
<1>27. CASE UNCHANGED vars
    BY <1>27 DEF vars, outside, history
<1> QED BY <1>1, <1>2, <1>3, <1>4, <1>5, <1>6, <1>7, <1>8, <1>9, <1>10, <1>11, <1>12,
           <1>13, <1>14, <1>15, <1>16, <1>17, <1>18, <1>19, <1>20, <1>21, <1>22, <1>23,
           <1>24, <1>25, <1>26, <1>27 DEF Next, MainLoop, Westeros, LaunchThread

\* What the main loop chose it tells the listener.
LEMMA NextTold == ThreadInv /\ ListenInv /\ ChoiceInv /\ ToldInv /\ [Next]_vars => ToldInv'
<1> SUFFICES ASSUME ThreadInv, ListenInv, ChoiceInv, ToldInv, [Next]_vars PROVE ToldInv'
    OBVIOUS
<1> USE DEF ThreadInv, ListenInv, ChoiceInv, ToldInv, Forked, Present, WaylandState,
           controller, state, outside, history
<1>1. CASE CreateDisplay
    BY <1>1 DEF CreateDisplay
<1>2. CASE ListDisplay
    BY <1>2 DEF ListDisplay
<1>3. CASE DropDisplay
    BY <1>3 DEF DropDisplay, Destroy, CloseSection
<1>4. CASE Suspend
    BY <1>4 DEF Suspend, UpdateWaylandState, Called
<1>5. CASE Resume
    BY <1>5 DEF Resume, UpdateWaylandState, Called
<1>6. ASSUME NEW on \in BOOLEAN, SetVisible(on) PROVE ToldInv'
    BY <1>6 DEF SetVisible, UpdateWaylandState, Called
<1>7. ASSUME NEW on \in BOOLEAN, SetFocused(on) PROVE ToldInv'
    BY <1>7 DEF SetFocused, UpdateWaylandState, Called
<1>8. CASE Close
    BY <1>8 DEF Close, CloseSection, Called
<1>9. CASE Join
    BY <1>9 DEF Join
<1>10. CASE Kill
    BY <1>10 DEF Kill, Called
<1>11. CASE Draw
    BY <1>11 DEF Draw, Destroy, CloseSection
<1>12. CASE DestroyEnds
    BY <1>12 DEF DestroyEnds, CanFinish
<1>13. ASSUME NEW p \in Processes, Connect(p) PROVE ToldInv'
    BY <1>13 DEF Connect, TakePid, CallbacksSet
<1>14. ASSUME NEW p \in Processes, Disconnect(p) PROVE ToldInv'
    BY <1>14 DEF Disconnect, TakePid, CallbacksSet, Listener
<1>15. CASE Bind
    BY <1>15 DEF Bind, Listener
<1>16. CASE CheckSuspended
    BY <1>16 DEF CheckSuspended, ApplicationLocked
<1>17. CASE AddListener
    BY <1>17 DEF AddListener, CloseSection
<1>18. CASE LaunchBegins
    BY <1>18 DEF LaunchBegins, Launching, ApplicationLocked
<1>19. CASE Fork
    BY <1>19 DEF Fork, Launching
<1>20. CASE LaunchFails
    BY <1>20 DEF LaunchFails, Launching
<1>21. CASE ReportStarted
    BY <1>21 DEF ReportStarted, Launching, TakePid, CallbacksSet
<1>22. CASE ReportStopped
    BY <1>22 DEF ReportStopped, Launching
<1>23. CASE LaunchEnds
    BY <1>23 DEF LaunchEnds, Launching
<1>24. CASE ProcessEnds
    BY <1>24 DEF ProcessEnds
<1>25. CASE TestSuspended
    BY <1>25 DEF TestSuspended, Called
<1>26. CASE BroadcastStateChangeEvent
    BY <1>26 DEF BroadcastStateChangeEvent
<1>27. CASE UNCHANGED vars
    BY <1>27 DEF vars, outside, history
<1> QED BY <1>1, <1>2, <1>3, <1>4, <1>5, <1>6, <1>7, <1>8, <1>9, <1>10, <1>11, <1>12,
           <1>13, <1>14, <1>15, <1>16, <1>17, <1>18, <1>19, <1>20, <1>21, <1>22, <1>23,
           <1>24, <1>25, <1>26, <1>27 DEF Next, MainLoop, Westeros, LaunchThread

-----------------------------------------------------------------------------
\* The inductive invariant: what is left, killed and told at any time.
THEOREM Invariance == Spec => []IInv
<1>1. IInv /\ [Next]_vars => IInv'
    BY NextThread, NextPid, NextListen, NextChoice, NextTold DEF IInv
<1> QED BY InitInv, <1>1, PTL DEF Spec

\* When the object of a display is gone, so are its launch thread and its
\* application, whichever thread destroyed it and whatever was called before.
THEOREM NothingIsLeft == Spec => []NothingLeftBehind
<1>1. IInv => NothingLeftBehind
    BY DEF IInv, ThreadInv, NothingLeftBehind
<1> QED BY <1>1, Invariance, PTL

\* No process is killed but the one the display first heard of, and none by a
\* display that launched nothing.
THEOREM OthersLive == Spec => []OnlyTheApplicationIsKilled
<1>1. IInv => OnlyTheApplicationIsKilled
    BY DEF IInv, PidInv, OnlyTheApplicationIsKilled
<1> QED BY <1>1, Invariance, PTL

\* The last state the application was told is its state, for any order of the
\* calls and callbacks of the three threads, save the one that ToldTheState
\* names.
THEOREM ListenerIsTold == Spec => []ToldTheState
<1>1. IInv => ToldTheState
    BY DEF IInv, ToldInv, ToldTheState, Present
<1> QED BY <1>1, Invariance, PTL

\* A suspend that came before the application is in effect when its listener
\* has been added.
THEOREM EarlySuspendIsKept == Spec => EarlySuspendTakesEffect
<1>1. IInv /\ [Next]_vars =>
        [ AddListener /\ launched /\ process = "running" /\ mSuspendedBeforeStart
            => /\ told' = "SUSPENDED"
               /\ mApplicationState = "Suspended" \/ raced \/ struck # {} ]_vars
    BY DEF IInv, ThreadInv, PidInv, ListenInv, ToldInv, AddListener, Forked
<1> QED BY <1>1, Invariance, PTL DEF Spec, EarlySuspendTakesEffect

-----------------------------------------------------------------------------
(* ExtendedInput: no module is told anything but while it is registered.          *)

\* While the main loop tells the listeners, none leaves the list; and who is
\* listed is registered.
ListenersInv ==
    /\ telling \subseteq mInputListeners
    /\ mInputListeners \subseteq {m \in Modules : module[m] = "registered"}
    /\ DOMAIN module = Modules

\* The display has no listener.
LEMMA InitListeners == InputInit => ListenersInv
BY DEF InputInit, ListenersInv

\* The constructor lists the module when it takes the lock, the destructor takes
\* it off the list under it, and the display goes between two events.
LEMMA NextListeners == ListenersInv /\ [InputNext]_inputVars => ListenersInv'
<1> SUFFICES ASSUME ListenersInv, [InputNext]_inputVars PROVE ListenersInv'
    OBVIOUS
<1> USE DEF ListenersInv, MainHoldsLock
<1>1. CASE Broadcast
    BY <1>1 DEF Broadcast
<1>2. CASE ClientGone
    BY <1>2 DEF ClientGone
<1>3. ASSUME NEW m \in Modules, Write(m) PROVE ListenersInv'
    BY <1>3 DEF Write
<1>4. ASSUME NEW m \in Modules, BindModule(m) PROVE ListenersInv'
    BY <1>4 DEF BindModule
<1>5. ASSUME NEW m \in Modules, Register(m) PROVE ListenersInv'
    BY <1>5 DEF Register
<1>6. ASSUME NEW m \in Modules, Unregister(m) PROVE ListenersInv'
    BY <1>6 DEF Unregister
<1>7. ASSUME NEW m \in Modules, Delete(m) PROVE ListenersInv'
    BY <1>7 DEF Delete
<1>8. ASSUME NEW m \in Modules, Notify(m) PROVE ListenersInv'
    BY <1>8 DEF Notify
<1>9. CASE UNCHANGED inputVars
    BY <1>9 DEF inputVars
<1> QED BY <1>1, <1>2, <1>3, <1>4, <1>5, <1>6, <1>7, <1>8, <1>9 DEF InputNext

\* The main loop calls no module that is being destroyed on Westeros' thread,
\* although it calls them one by one while that thread runs.
THEOREM NoDeadModuleIsTold == InputSpec => []ToldModulesLive
<1>1. ListenersInv => ToldModulesLive
    BY DEF ListenersInv, ToldModulesLive
<1> QED BY <1>1, InitListeners, NextListeners, PTL DEF InputSpec

-----------------------------------------------------------------------------
(* StartUp: the splash screen and the files that outlive the process.             *)

\* A request for none is kept by the marker, and of the splash screens all are
\* accounted for by deaths before the marker, but for one that is being marked.
SplashInv ==
    /\ shown \in Nat /\ unmarked \in Nat
    /\ refused => "marker" \in files
    /\ place = "marking" => ~refused /\ shown = unmarked + 1
    /\ place # "marking" /\ "marker" \notin files => shown = unmarked

\* No splash is up before the first start, and no marker is owed.
LEMMA InitSplash == StartInit => SplashInv
BY DEF StartInit, SplashInv

\* Neither a start, nor a death, nor a reboot breaks that.
LEMMA NextSplash == SplashInv /\ [StartNext]_startVars => SplashInv'
<1> SUFFICES ASSUME SplashInv, [StartNext]_startVars PROVE SplashInv'
    OBVIOUS
<1> USE DEF SplashInv, At, Persistent, HistoryVars
<1>1. CASE Start
    BY <1>1 DEF Start
<1>2. CASE ReadSettings \/ StartServers \/ EssosInitialize \/ NoSplash \/ ControllerInitialize
    BY <1>2 DEF ReadSettings, StartServers, EssosInitialize, NoSplash, ControllerInitialize
<1>3. CASE SettingThrows
    BY <1>3 DEF SettingThrows
<1>4. CASE RefuseSplash
    BY <1>4 DEF RefuseSplash
<1>5. CASE RemoveDisableFile
    BY <1>5 DEF RemoveDisableFile
<1>6. CASE ShowSplash
    BY <1>6 DEF ShowSplash
<1>7. CASE MarkSplash
    BY <1>7 DEF MarkSplash, Mark
<1>8. CASE Die
    BY <1>8 DEF Die
<1>9. CASE Reboot
    BY <1>9 DEF Reboot
<1>10. ASSUME NEW file \in {"disable", "rdkshell720"}, Leave(file) PROVE SplashInv'
    BY <1>10 DEF Leave
<1>11. CASE UNCHANGED startVars
    BY <1>11 DEF startVars
<1> QED BY <1>1, <1>2, <1>3, <1>4, <1>5, <1>6, <1>7, <1>8, <1>9, <1>10, <1>11 DEF StartNext

\* However often the process dies and wherever, the splash screen is shown once
\* until the box restarts, or again where the marker was not written yet.
THEOREM SplashIsShownOnce == StartSpec => SplashOncePerBoot
<1>1. SplashInv /\ [StartNext]_startVars => [shown' > shown => ~refused /\ shown = unmarked]_startVars
    <2> SUFFICES ASSUME SplashInv, StartNext, shown' > shown
                 PROVE  ~refused /\ shown = unmarked
        OBVIOUS
    <2> USE DEF SplashInv, At, Persistent, HistoryVars
    <2>1. CASE ShowSplash
        BY <2>1 DEF ShowSplash
    <2>2. CASE Reboot
        BY <2>2 DEF Reboot
    <2>3. CASE shown' = shown
        BY <2>3
    <2>4. \/ ShowSplash \/ Reboot \/ shown' = shown
        BY DEF StartNext, Start, ReadSettings, SettingThrows, StartServers, EssosInitialize,
               NoSplash, RefuseSplash, RemoveDisableFile, MarkSplash, ControllerInitialize,
               Die, Leave
    <2> QED BY <2>1, <2>2, <2>3, <2>4
<1> QED BY <1>1, InitSplash, NextSplash, PTL DEF StartSpec, SplashOncePerBoot

-----------------------------------------------------------------------------
(* Displays: those that wait, and those that were given to a client.              *)

Display == [is : {"none", "listed", "killed", "destroyed"}, name : Spellings \cup {NoDisplay},
            launched : BOOLEAN]

Distinct(s) == \A i, j \in 1..Len(s) : s[i] = s[j] => i = j

Waits(known, o) == known[o].is \in {"listed", "killed"} /\ ~known[o].launched

\* Those that wait do so once, are there and have no application of their own; those
\* that were given away or are about to be were made.
WaitingInv ==
    /\ objects \in [Objects -> Display]
    /\ gAvailable \in Seq(Objects)
    /\ Distinct(gAvailable)
    /\ \A i \in 1..Len(gAvailable) : Waits(objects, gAvailable[i])
    /\ DOMAIN given = Outsiders
    /\ \A p \in Outsiders : given[p] \in Objects => objects[given[p]].is # "none"
    /\ met \in BOOLEAN
    /\ report.at # "idle" => report.front \in Objects /\ objects[report.front].is # "none"

\* Until the list changes during a report its front stays what was looked at, and
\* nobody was given what still waits, but for that.
ReportInv ==
    ~met =>
        /\ report.at # "idle" => gAvailable # <<>> /\ gAvailable[1] = report.front
        /\ \A p, q \in Outsiders : given[p] \in Objects /\ given[p] = given[q] => p = q
        /\ \A p \in Outsiders, i \in 1..Len(gAvailable) :
              given[p] = gAvailable[i] => i = 1 /\ report.at = "erasing"

\* One taken out of distinct ones leaves distinct ones, and not itself.
LEMMA RemainsDistinct ==
    ASSUME NEW S, NEW s \in Seq(S), Distinct(s), NEW p \in 1..Len(s)
    PROVE  /\ RemoveAt(s, p) \in Seq(S)
           /\ Distinct(RemoveAt(s, p))
           /\ \A i \in 1..Len(RemoveAt(s, p)) :
                 \E j \in 1..Len(s) : j # p /\ RemoveAt(s, p)[i] = s[j]
           /\ Len(RemoveAt(s, p)) = Len(s) - 1
<1> DEFINE w == RemoveAt(s, p)
<1>1. /\ w \in Seq(S) /\ Len(w) = Len(s) - 1 /\ Len(s) \in Nat
      /\ \A i \in 1..(Len(s) - 1) : w[i] = IF i < p THEN s[i] ELSE s[i + 1]
    BY RemoveAtElements, LenProperties
<1> HIDE DEF w
<1>2. Distinct(w)
    <2>1. \A i \in 1..Len(w) : LET j == IF i < p THEN i ELSE i + 1
                              IN  j \in 1..Len(s) /\ w[i] = s[j]
        BY <1>1
    <2>2. \A i, k \in 1..Len(w) : (IF i < p THEN i ELSE i + 1) = (IF k < p THEN k ELSE k + 1) => i = k
        BY <1>1
    <2> QED BY <2>1, <2>2 DEF Distinct
<1>3. ASSUME NEW i \in 1..Len(w)
      PROVE  \E j \in 1..Len(s) : j # p /\ w[i] = s[j]
    <2>1. CASE i < p
        BY <1>1, <2>1
    <2>2. CASE i >= p
        <3>1. i + 1 \in 1..Len(s) /\ i + 1 # p /\ w[i] = s[i + 1]
            BY <1>1, <2>2
        <3> QED BY <3>1
    <2> QED BY SMTT(20), <2>1, <2>2, <1>1
<1> QED BY <1>1, <1>2, <1>3 DEF w

\* The destructor's search finds the display wherever it waits.
LEMMA RemoveFirstEffect ==
    ASSUME NEW s \in Seq(Objects), Distinct(s), NEW o \in Objects
    PROVE  \/ \E p \in 1..Len(s) : s[p] = o /\ RemoveFirst(s, o) = RemoveAt(s, p)
           \/ (\A i \in 1..Len(s) : s[i] # o) /\ RemoveFirst(s, o) = s
<1>1. CASE \A i \in 1..Len(s) : s[i] # o
    BY <1>1 DEF RemoveFirst
<1>2. CASE ~(\A i \in 1..Len(s) : s[i] # o)
    <2>1. PICK p \in 1..Len(s) : s[p] = o
        BY <1>2
    <2> DEFINE I == {i \in 1..Len(s) : s[i] = o}
    <2>2. I = {p}
        BY <2>1 DEF Distinct
    <2>3. Min(I) = p
        <3>1. Len(s) \in Nat
            BY LenProperties
        <3>2. \A x \in I : (\A y \in I : x <= y) <=> x = p
            BY <2>2, <3>1
        <3> HIDE DEF I
        <3> QED BY <2>2, <3>2 DEF Min
    <2>4. SelectInSeq(s, LAMBDA v : v = o) = Min(I)
        <3>1. I # {}
            BY <2>2
        <3> QED BY <3>1 DEF SelectInSeq
    <2>5. RemoveFirst(s, o) = RemoveAt(s, p)
        BY <2>1, <2>3, <2>4 DEF RemoveFirst
    <2> QED BY <2>1, <2>5
<1> QED BY <1>1, <1>2

\* An empty list has no places.
LEMMA NothingUpToZero == \A i \in 1..0 : FALSE
    OBVIOUS

\* Nothing waits before the first display, and nobody was given any.
LEMMA InitDisplays == DisplaysInit => WaitingInv /\ ReportInv
<1> SUFFICES ASSUME DisplaysInit PROVE WaitingInv /\ ReportInv
    OBVIOUS
<1> USE DEF DisplaysInit
<1>1. objects \in [Objects -> Display]
    <2>1. NoObject \in Display
        BY DEF NoObject, Display
    <2> QED BY <2>1
<1>2. /\ gAvailable = <<>> /\ Len(gAvailable) = 0 /\ gAvailable \in Seq(Objects)
      /\ \A i \in 1..Len(gAvailable) : FALSE
    <2>1. gAvailable = <<>>
        OBVIOUS
    <2>2. Len(<<>>) = 0 /\ <<>> \in Seq(Objects)
        BY EmptySeq
    <2> QED BY <2>1, <2>2, NothingUpToZero
<1>3. /\ DOMAIN given = Outsiders /\ \A p \in Outsiders : given[p] \notin Objects
      /\ report.at = "idle" /\ met \in BOOLEAN
    BY ObjectsAssumption DEF Idle
<1> QED BY <1>1, <1>2, <1>3 DEF WaitingInv, ReportInv, Distinct

\* A display takes a fresh object, and at most joins the list behind the others.
LEMMA MakeKeepsWaiting ==
    ASSUME WaitingInv, ReportInv, NEW o \in Objects, NEW spelling \in Spellings,
           NEW isLaunched \in BOOLEAN,
           MakeDisplay(o, spelling, isLaunched)
    PROVE  WaitingInv' /\ ReportInv'
<1> USE DisplaysAssumption DEF WaitingInv, ReportInv, Waits, Display
<1>1. /\ objects[o].is = "none"
      /\ objects' = [objects EXCEPT ![o] = [is |-> "listed", name |-> LowerCase[spelling],
                                            launched |-> isLaunched]]
      /\ UNCHANGED <<report, given>>
    BY DEF MakeDisplay, Unmade, Becomes
<1>2. objects' \in [Objects -> Display]
    BY <1>1
<1>3. \A i \in 1..Len(gAvailable) : gAvailable[i] # o /\ Waits(objects', gAvailable[i])
    <2>1. \A i \in 1..Len(gAvailable) : gAvailable[i] \in Objects /\ gAvailable[i] # o
        BY <1>1, ElementOfSeq
    <2>2. \A x \in Objects : x # o => objects'[x] = objects[x]
        BY <1>1
    <2>3. \A x \in Objects : x # o /\ Waits(objects, x) => Waits(objects', x)
        BY <2>2
    <2> QED BY <2>1, <2>3
<1>4. CASE UNCHANGED <<gAvailable, met>>
    BY <1>1, <1>2, <1>3, <1>4 DEF Distinct
<1>5. CASE ~isLaunched /\ gAvailable' = Append(gAvailable, o) /\ Meets
    <2>1. /\ gAvailable' \in Seq(Objects) /\ Len(gAvailable') = Len(gAvailable) + 1
          /\ Len(gAvailable) \in Nat
          /\ \A i \in 1..Len(gAvailable) : gAvailable'[i] = gAvailable[i]
          /\ gAvailable'[Len(gAvailable) + 1] = o
        BY <1>5, AppendProperties, LenProperties
    <2>2. Distinct(gAvailable)'
        BY SMTT(30), <2>1, <1>3 DEF Distinct
    <2>3. \A i \in 1..Len(gAvailable') : Waits(objects', gAvailable'[i])
        <3>1. Waits(objects', o)
            BY <1>1, <1>5
        <3>2. \A i \in 1..Len(gAvailable') : i \in 1..Len(gAvailable) \/ i = Len(gAvailable) + 1
            BY <2>1
        <3> QED BY <3>1, <3>2, <2>1, <1>3
    <2>4. WaitingInv'
        BY <2>1, <2>2, <2>3, <1>1, <1>2, <1>5 DEF Meets
    <2>5. ReportInv'
        <3>1. \A p \in Outsiders : given[p] # o
            BY <1>1
        <3> QED BY SMTT(60), <3>1, <2>1, <1>1, <1>5 DEF Meets
    <2> QED BY <2>4, <2>5
<1> QED BY <1>4, <1>5 DEF MakeDisplay

\* The destructor takes the display off the list, if it is on it.
LEMMA DestroyKeepsWaiting ==
    ASSUME WaitingInv, ReportInv, NEW o \in Objects, DestroyDisplay(o)
    PROVE  WaitingInv' /\ ReportInv'
<1> USE DEF WaitingInv, ReportInv, Waits, Display
<1>1. /\ objects' = [objects EXCEPT ![o].is = "destroyed"]
      /\ objects' \in [Objects -> Display]
      /\ UNCHANGED <<report, given>>
    BY SMTT(60) DEF DestroyDisplay
<1>2. met' = (met \/ report.at # "idle") /\ gAvailable' = RemoveFirst(gAvailable, o)
    BY DEF DestroyDisplay, Forget, Meets
<1>3. CASE (\A i \in 1..Len(gAvailable) : gAvailable[i] # o) /\ gAvailable' = gAvailable
    BY <1>1, <1>2, <1>3 DEF Distinct
<1>4. ASSUME NEW p \in 1..Len(gAvailable), gAvailable[p] = o,
             gAvailable' = RemoveAt(gAvailable, p)
      PROVE  WaitingInv' /\ ReportInv'
    <2>1. /\ gAvailable' \in Seq(Objects) /\ Distinct(gAvailable)'
          /\ \A i \in 1..Len(gAvailable') :
                \E j \in 1..Len(gAvailable) : j # p /\ gAvailable'[i] = gAvailable[j]
        BY SMTT(20), <1>4, RemainsDistinct DEF Distinct
    <2>2. \A j \in 1..Len(gAvailable) : j # p => gAvailable[j] # o /\ Waits(objects', gAvailable[j])
        <3>1. \A j \in 1..Len(gAvailable) : j # p => gAvailable[j] # o
            BY <1>4 DEF Distinct
        <3>2. \A x \in Objects : x # o => objects'[x] = objects[x]
            BY <1>1
        <3>3. \A j \in 1..Len(gAvailable) : gAvailable[j] \in Objects
            BY ElementOfSeq
        <3> QED BY <3>1, <3>2, <3>3
    <2>3. \A x \in Objects : objects[x].is # "none" => objects'[x].is # "none"
        BY <1>1
    <2>4. WaitingInv'
        <3>1. \A i \in 1..Len(gAvailable') : Waits(objects', gAvailable'[i])
            BY <2>1, <2>2
        <3> QED BY <3>1, <2>1, <2>3, <1>1, <1>2
    <2>5. ReportInv'
        <3> SUFFICES ASSUME ~met' PROVE ReportInv'
            BY DEF ReportInv
        <3>1. ~met /\ report.at = "idle" /\ report'.at = "idle"
            BY <1>1, <1>2
        <3>2. \A q \in Outsiders, j \in 1..Len(gAvailable) : given[q] # gAvailable[j]
            BY <3>1
        <3>3. \A q \in Outsiders, i \in 1..Len(gAvailable') : given[q] # gAvailable'[i]
            BY <3>2, <2>1
        <3>4. given' = given
            BY <1>1
        <3> QED BY <3>1, <3>3, <3>4
    <2> QED BY <2>4, <2>5
<1> QED BY <1>2, <1>3, <1>4, RemoveFirstEffect

\* The erase takes the front, or after a change of the list any one or none.
LEMMA EraseKeepsWaiting ==
    ASSUME WaitingInv, ReportInv, EraseDisplay
    PROVE  WaitingInv' /\ ReportInv'
<1> USE DEF WaitingInv, ReportInv, Waits, Display
<1>1. UNCHANGED <<objects, given, met>> /\ report.at = "erasing" /\ report' = Idle
    BY DEF EraseDisplay
<1>2. report'.at = "idle"
    BY <1>1 DEF Idle
<1>3. CASE UNCHANGED gAvailable /\ met
    BY <1>1, <1>2, <1>3
<1>4. ASSUME met, NEW i \in DOMAIN gAvailable, gAvailable' = RemoveAt(gAvailable, i)
      PROVE  WaitingInv' /\ ReportInv'
    <2>1. i \in 1..Len(gAvailable)
        BY <1>4, LenProperties
    <2>2. /\ gAvailable' \in Seq(Objects) /\ Distinct(gAvailable)'
          /\ \A k \in 1..Len(gAvailable') :
                \E j \in 1..Len(gAvailable) : j # i /\ gAvailable'[k] = gAvailable[j]
        BY SMTT(60), <1>4, <2>1, RemainsDistinct DEF Distinct
    <2>3. \A k \in 1..Len(gAvailable') : Waits(objects', gAvailable'[k])
        <3>1. \A j \in 1..Len(gAvailable) : Waits(objects, gAvailable[j])
            OBVIOUS
        <3>2. objects' = objects
            BY <1>1
        <3> HIDE DEF WaitingInv, ReportInv, Waits, Display
        <3> QED BY <2>2, <3>1, <3>2
    <2>4. WaitingInv'
        BY <2>2, <2>3, <1>1, <1>2
    <2>5. ReportInv'
        BY <1>1, <1>2, <1>4
    <2> QED BY <2>4, <2>5
<1>5. CASE ~met /\ gAvailable' = Tail(gAvailable)
    <2>1. gAvailable # <<>>
        BY <1>1, <1>5
    <2>2. /\ gAvailable' \in Seq(Objects) /\ Len(gAvailable') = Len(gAvailable) - 1
          /\ Len(gAvailable) \in Nat
          /\ \A i \in 1..Len(gAvailable') : gAvailable'[i] = gAvailable[i + 1]
        BY <1>5, <2>1, HeadTailProperties, LenProperties
    <2>3. Distinct(gAvailable)'
        BY <2>2 DEF Distinct
    <2>4. \A i \in 1..Len(gAvailable') :
             i + 1 \in 1..Len(gAvailable) /\ gAvailable'[i] = gAvailable[i + 1] /\ i + 1 # 1
        BY <2>2
    <2> QED BY <2>2, <2>3, <2>4, <1>1, <1>2, <1>5
<1> QED BY <1>3, <1>4, <1>5 DEF EraseDisplay

\* No step of RDKShell, of Westeros' thread or of a client breaks either.
LEMMA NextDisplays == WaitingInv /\ ReportInv /\ [DisplaysNext]_displaysVars => WaitingInv' /\ ReportInv'
<1> SUFFICES ASSUME WaitingInv, ReportInv, [DisplaysNext]_displaysVars
             PROVE  WaitingInv' /\ ReportInv'
    OBVIOUS
<1>1. CASE CreateMainCompositor
    BY <1>1 DEF CreateMainCompositor, WaitingInv, ReportInv, Waits, Distinct
<1>2. ASSUME NEW o \in Objects, NEW spelling \in Spellings, NEW isLaunched \in BOOLEAN,
             MakeDisplay(o, spelling, isLaunched)
      PROVE  WaitingInv' /\ ReportInv'
    BY <1>2, MakeKeepsWaiting
<1>3. ASSUME NEW o \in Objects, NEW spelling \in Spellings, NEW isLaunched \in BOOLEAN,
             FailDisplay(o, spelling, isLaunched) \/ EmptyDisplay(o, spelling, isLaunched)
      PROVE  WaitingInv' /\ ReportInv'
    <2>1. /\ objects[o].is = "none"
          /\ \E is \in {"listed", "destroyed"} :
                objects' = [objects EXCEPT ![o] = [is |-> is, name |-> LowerCase[spelling],
                                                  launched |-> isLaunched]]
          /\ UNCHANGED <<gAvailable, report, given, met>>
        BY <1>3 DEF FailDisplay, EmptyDisplay, Unmade, Becomes
    <2>2. WaitingInv'
        <3>1. LowerCase[spelling] \in Spellings
            BY DisplaysAssumption
        <3>2. objects' \in [Objects -> Display]
            BY <2>1, <3>1 DEF WaitingInv, Display
        <3>3. \A p \in Objects : objects[p].is # "none" => objects'[p] = objects[p]
            BY <2>1 DEF WaitingInv
        <3>4. \A p \in Objects : Waits(objects, p) => Waits(objects', p)
            BY <3>3 DEF Waits
        <3>5. \A i \in 1..Len(gAvailable) : gAvailable[i] \in Objects
            BY ElementOfSeq DEF WaitingInv
        <3>6. \A i \in 1..Len(gAvailable) : Waits(objects', gAvailable[i])
            BY <3>4, <3>5 DEF WaitingInv
        <3> QED BY <2>1, <3>2, <3>3, <3>6 DEF WaitingInv
    <2>3. ReportInv'
        BY <2>1 DEF ReportInv
    <2> QED BY <2>2, <2>3
<1>4. ASSUME NEW o \in Objects, KillDisplay(o) PROVE WaitingInv' /\ ReportInv'
    <2>1. /\ objects[o].is = "listed"
          /\ objects' = [objects EXCEPT ![o].is = "killed"]
          /\ UNCHANGED <<gAvailable, report, given, met>>
        BY <1>4 DEF KillDisplay, Listed
    <2>2. \A p \in Objects : /\ objects'[p].launched = objects[p].launched
                            /\ objects'[p].is = IF p = o THEN "killed" ELSE objects[p].is
        BY <2>1 DEF WaitingInv, Display
    <2>3. objects' \in [Objects -> Display]
        BY <2>1 DEF WaitingInv, Display
    <2>4. \A p \in Objects : Waits(objects, p) => Waits(objects', p)
        BY <2>1, <2>2 DEF Waits
    <2>5. \A i \in 1..Len(gAvailable) : gAvailable[i] \in Objects
        BY ElementOfSeq DEF WaitingInv
    <2>6. WaitingInv'
        <3>1. \A p \in Objects : objects[p].is # "none" => objects'[p].is # "none"
            BY <2>2
        <3>2. \A i \in 1..Len(gAvailable) : Waits(objects', gAvailable[i])
            BY <2>4, <2>5 DEF WaitingInv
        <3> QED BY <2>1, <2>3, <3>1, <3>2 DEF WaitingInv
    <2>7. ReportInv'
        BY <2>1 DEF ReportInv
    <2> QED BY <2>6, <2>7
<1>5. ASSUME NEW o \in Objects, DestroyDisplay(o) PROVE WaitingInv' /\ ReportInv'
    BY <1>5, DestroyKeepsWaiting
<1>6. ASSUME NEW p \in Outsiders, ReportClient(p) PROVE WaitingInv' /\ ReportInv'
    BY <1>6, ObjectsAssumption
       DEF ReportClient, WaitingInv, ReportInv, Waits, Distinct, Display
<1>7. CASE BindClient
    BY <1>7, ObjectsAssumption
       DEF BindClient, WaitingInv, ReportInv, Waits, Distinct, Display
<1>8. CASE EraseDisplay
    BY <1>8, EraseKeepsWaiting
<1>9. CASE UNCHANGED displaysVars
    BY <1>9 DEF displaysVars, WaitingInv, ReportInv, Waits, Distinct
<1> QED BY <1>1, <1>2, <1>3, <1>4, <1>5, <1>6, <1>7, <1>8, <1>9 DEF DisplaysNext

\* As long as no display comes or goes while one is being reported, clients get
\* displays of their own that are there, for any number of either.
THEOREM ClientsGetTheirOwn == DisplaysSpec => []ClientsGetDisplays
<1>1. WaitingInv /\ ReportInv => ClientsGetDisplays
    <2> SUFFICES ASSUME WaitingInv, ReportInv, ~met
                 PROVE  /\ \A p, q \in Outsiders :
                              given[p] \in Objects /\ given[p] = given[q] => p = q
                        /\ \A o \in ToSet(gAvailable) :
                              /\ ~objects[o].launched
                              /\ objects[o].is # "destroyed"
                              /\ (\E p \in Outsiders : given[p] = o) =>
                                    report.at = "erasing" /\ report.front = o
                        /\ report.at # "idle" => objects[report.front].is # "destroyed"
        BY DEF ClientsGetDisplays
    <2> USE DEF WaitingInv, ReportInv, Waits
    <2>1. \A o \in ToSet(gAvailable) : \E i \in 1..Len(gAvailable) : gAvailable[i] = o
        BY LenProperties DEF ToSet
    <2>2. gAvailable # <<>> => 1 \in 1..Len(gAvailable)
        BY LenProperties, EmptySeq
    <2> QED BY <2>1, <2>2
<1> QED BY <1>1, InitDisplays, NextDisplays, PTL DEF DisplaysSpec

-----------------------------------------------------------------------------
(* Displays: the extensions a client is permitted.                                *)

\* What a display made for a client of this name gets, by the file alone.
FileSays(name) ==
    LET entries == IF permissionFile = Unreadable THEN <<>> ELSE permissionFile.clients
        named == {i \in 1..Len(entries) : entries[i].client # NotText
                                          /\ LowerCase[entries[i].client] = name}
    IN  IF named # {} THEN entries[CHOOSE i \in named : \A j \in named : i <= j].extensions
        ELSE IF permissionFile = Unreadable THEN {}
        ELSE permissionFile.extensions

Said(known) == FileSays(IF known.launched THEN "" ELSE known.name)

\* Before there is a compositor no permissions have been read and there is no
\* display; after that the permissions are what the file says.  A display that is
\* not made has no extensions, and what is known of displays stays of its type.
PermittedInv ==
    /\ permissionFile \in PermissionFiles
    /\ mMainWstContext = "none" =>
          /\ gClientsPermittedExtensions = [name \in {} |-> {}]
          /\ gClientsDefaultPermittedExtensions = {}
          /\ \A o \in Objects : objects[o].is = "none"
    /\ mMainWstContext # "none" => \A name : getAllowedExtensions(name) = FileSays(name)
    /\ objects \in [Objects -> Display]
    /\ DOMAIN modules = Objects \cup {Shared}
    /\ gCompositorType = "NESTED" =>
          \A o \in Objects :
             /\ objects[o].is = "none" => modules[o] = {}
             /\ objects[o].is = "listed" => modules[o] \in {Said(objects[o]), {}}

\* The entries of the file.
LEMMA Entries ==
    LET entries == IF permissionFile = Unreadable THEN <<>> ELSE permissionFile.clients
    IN  permissionFile \in PermissionFiles =>
            /\ Len(entries) \in Nat
            /\ DOMAIN entries = 1..Len(entries)
            /\ \A i \in 1..Len(entries) : entries[i].client \in Spellings \cup {NotText}
<1> SUFFICES ASSUME permissionFile \in PermissionFiles, permissionFile # Unreadable
             PROVE  LET entries == permissionFile.clients
                    IN  /\ Len(entries) \in Nat
                        /\ DOMAIN entries = 1..Len(entries)
                        /\ \A i \in 1..Len(entries) : entries[i].client \in Spellings \cup {NotText}
    OBVIOUS
<1> DEFINE Entry == [client : Spellings \cup {NotText}, extensions : SUBSET Extensions]
           entries == permissionFile.clients
<1>1. entries \in Seq(Entry)
    BY DisplaysAssumption
<1> HIDE DEF entries
<1>2. Len(entries) \in Nat /\ DOMAIN entries = 1..Len(entries)
    BY <1>1, LenProperties
<1>3. \A i \in 1..Len(entries) : entries[i] \in Entry
    BY <1>1, ElementOfSeq
<1> QED BY <1>2, <1>3 DEF entries

\* What the property says of a display is what the file says of its client.
LEMMA ConfiguredIsSaid ==
    ASSUME permissionFile \in PermissionFiles, NEW o
    PROVE  Configured(o) = Said(objects[o])
<1> DEFINE entries == IF permissionFile = Unreadable THEN <<>> ELSE permissionFile.clients
           name == IF objects[o].launched THEN "" ELSE objects[o].name
           named == {i \in 1..Len(entries) : entries[i].client # NotText
                                             /\ LowerCase[entries[i].client] = name}
           foundAt == SelectInSeq(entries, LAMBDA entry : entry.client # NotText
                                                        /\ LowerCase[entry.client] = name)
           least == CHOOSE i \in named : \A j \in named : i <= j
<1>1. foundAt = IF named # {} THEN least ELSE 0
    BY DEF SelectInSeq, Min
<1>2. named # {} => least # 0
    <2>1. named \subseteq 1..Len(entries) /\ Len(entries) \in Nat
        BY Entries
    <2> HIDE DEF named, entries
    <2>2. named \in SUBSET Nat
        BY <2>1
    <2>3. named # {} => \E i \in named : \A j \in named : i <= j
        BY <2>2, Smallest
    <2>4. named # {} => least \in named
        BY <2>3
    <2> HIDE DEF least
    <2> QED BY <2>1, <2>4
<1>3. Configured(o) = IF foundAt # 0 THEN entries[foundAt].extensions
                      ELSE IF permissionFile = Unreadable THEN {}
                      ELSE permissionFile.extensions
    BY DEF Configured
<1>4. Said(objects[o]) =
         IF named # {} THEN entries[least].extensions
         ELSE IF permissionFile = Unreadable THEN {} ELSE permissionFile.extensions
    BY DEF FileSays, Said
<1> HIDE DEF entries, named, foundAt, least
<1> QED BY <1>1, <1>2, <1>3, <1>4

\* Reading the file makes the permissions what it says, once and for all.
LEMMA ReadIsSaid ==
    ASSUME permissionFile \in PermissionFiles,
           mMainWstContext = "none" =>
              /\ gClientsPermittedExtensions = [name \in {} |-> {}]
              /\ gClientsDefaultPermittedExtensions = {},
           CreateMainCompositor,
           NEW name
    PROVE  getAllowedExtensions(name)' = FileSays(name)'
<1>1. permissionFile' = permissionFile
    BY DEF CreateMainCompositor, configuration
<1>2. CASE NoPermissions
    <2>1. /\ gClientsPermittedExtensions' = [n \in {} |-> {}]
          /\ gClientsDefaultPermittedExtensions' = {} /\ permissionFile = Unreadable
        BY <1>2 DEF NoPermissions, permissions
    <2>2. FileSays(name) = {}
        BY <2>1, EmptySeq DEF FileSays
    <2> QED BY <1>1, <2>1, <2>2, EmptySeq DEF getAllowedExtensions, FileSays
<1>3. CASE ReadPermissions
    <2> DEFINE entries == permissionFile.clients
               named(n) == {i \in DOMAIN entries : SameName(entries[i], n)}
               least(n) == CHOOSE i \in named(n) : \A j \in named(n) : i <= j
    <2>1. /\ permissionFile # Unreadable
          /\ gClientsPermittedExtensions' =
                [n \in {m \in Spellings : named(m) # {}} |-> entries[least(n)].extensions]
          /\ gClientsDefaultPermittedExtensions' = permissionFile.extensions
        BY <1>3 DEF ReadPermissions
    <2>2. FileSays(name) = IF named(name) # {} THEN entries[least(name)].extensions
                                               ELSE permissionFile.extensions
        <3>1. named(name) = {i \in 1..Len(entries) : entries[i].client # NotText
                                                    /\ LowerCase[entries[i].client] = name}
            BY <2>1, Entries DEF SameName
        <3> HIDE DEF named
        <3> QED BY <2>1, <3>1 DEF FileSays
    <2>3. named(name) # {} => name \in Spellings
        BY <2>1, Entries, DisplaysAssumption DEF SameName
    <2>4. FileSays(name)' = FileSays(name)
        BY <1>1 DEF FileSays
    <2> HIDE DEF entries, named, least
    <2>5. getAllowedExtensions(name)' = FileSays(name)
        BY SMTT(30), <2>1, <2>2, <2>3 DEF getAllowedExtensions
    <2> QED BY <2>4, <2>5
<1> QED BY <1>2, <1>3 DEF CreateMainCompositor

\* While the configuration holds, so does all that the invariant says of it.
LEMMA SamePermissions ==
    ASSUME PermittedInv, UNCHANGED <<configuration, permissions, mMainWstContext>>
    PROVE  /\ permissionFile' = permissionFile /\ permissionFile' \in PermissionFiles
           /\ gCompositorType' = gCompositorType
           /\ UNCHANGED <<gClientsPermittedExtensions, gClientsDefaultPermittedExtensions>>
           /\ \A name : FileSays(name)' = FileSays(name)
           /\ \A name : getAllowedExtensions(name)' = getAllowedExtensions(name)
BY SMTT(30) DEF PermittedInv, configuration, permissions, FileSays, getAllowedExtensions

\* A display comes or changes: what it has must be what the file says or nothing.
LEMMA ChangesPermitted ==
    ASSUME PermittedInv, UNCHANGED <<configuration, permissions, mMainWstContext>>,
           mMainWstContext # "none",
           NEW o \in Objects, NEW known \in Display, known.is # "none",
           objects' = [objects EXCEPT ![o] = known],
           DOMAIN modules' = Objects \cup {Shared},
           gCompositorType = "NESTED" =>
              /\ \A other \in Objects \ {o} : modules'[other] = modules[other]
              /\ known.is = "listed" =>
                    modules'[o] \in {Said(known), {}}
    PROVE  PermittedInv'
<1>1. objects \in [Objects -> Display] /\ permissionFile \in PermissionFiles
    BY DEF PermittedInv
<1>2. objects' \in [Objects -> Display] /\ objects'[o] = known
      /\ \A other \in Objects \ {o} : objects'[other] = objects[other]
    BY <1>1
<1>3. /\ permissionFile' = permissionFile /\ gCompositorType' = gCompositorType
      /\ mMainWstContext' = mMainWstContext
      /\ \A name : FileSays(name)' = FileSays(name)
      /\ \A name : getAllowedExtensions(name)' = getAllowedExtensions(name)
    BY SamePermissions
<1>4. \A name : getAllowedExtensions(name)' = FileSays(name)'
    BY <1>3 DEF PermittedInv
<1>5. \A d : Said(d)' = Said(d)
    BY <1>3 DEF Said
<1>6. ASSUME gCompositorType = "NESTED", NEW other \in Objects
      PROVE  /\ objects'[other].is = "none" => modules'[other] = {}
             /\ objects'[other].is = "listed" => modules'[other] \in {Said(objects'[other]), {}}
    <2>1. CASE other = o
        BY <1>2, <1>6, <2>1
    <2>2. CASE other # o
        BY <1>2, <1>6, <2>2 DEF PermittedInv
    <2> QED BY <2>1, <2>2
<1>7. gCompositorType' = "NESTED" =>
          \A other \in Objects :
             /\ objects'[other].is = "none" => modules'[other] = {}
             /\ objects'[other].is = "listed" => modules'[other] \in {Said(objects[other])', {}}
    BY <1>3, <1>5, <1>6
<1> QED BY <1>1, <1>2, <1>3, <1>4, <1>7 DEF PermittedInv

\* Nothing that the invariant is about changes.
LEMMA SamePermitted ==
    ASSUME PermittedInv,
           UNCHANGED <<configuration, permissions, mMainWstContext, objects, modules>>
    PROVE  PermittedInv'
<1>1. /\ permissionFile' = permissionFile /\ gCompositorType' = gCompositorType
      /\ UNCHANGED <<gClientsPermittedExtensions, gClientsDefaultPermittedExtensions>>
      /\ \A name : FileSays(name)' = FileSays(name)
      /\ \A name : getAllowedExtensions(name)' = getAllowedExtensions(name)
    BY SamePermissions
<1>2. \A d : Said(d)' = Said(d)
    BY <1>1 DEF Said
<1> QED BY <1>1, <1>2 DEF PermittedInv

\* A display is made, fails to be or is made empty.
LEMMA MakePermitted ==
    ASSUME PermittedInv, NEW o \in Objects, NEW spelling \in Spellings, NEW isLaunched \in BOOLEAN,
           \/ MakeDisplay(o, spelling, isLaunched)
           \/ FailDisplay(o, spelling, isLaunched)
           \/ EmptyDisplay(o, spelling, isLaunched)
    PROVE  PermittedInv'
<1> DEFINE known(is) == [is |-> is, name |-> LowerCase[spelling], launched |-> isLaunched]
           name == NameFor(spelling, isLaunched)
<1>1. /\ objects[o].is = "none" /\ mMainWstContext # "none"
      /\ UNCHANGED <<configuration, permissions, mMainWstContext>>
    BY DEF MakeDisplay, FailDisplay, EmptyDisplay, Unmade
<1>2. \A is \in {"listed", "destroyed"} : known(is) \in Display
    BY DisplaysAssumption DEF Display
<1>3. \A is : Said(known(is)) = FileSays(name)
    BY DEF Said, NameFor
<1>4. getAllowedExtensions(name) = FileSays(name)
    BY <1>1 DEF PermittedInv
<1>5. DOMAIN modules = Objects \cup {Shared}
      /\ (gCompositorType = "NESTED" => modules[o] = {} /\ Context(o) = o)
    BY <1>1 DEF PermittedInv, Context
<1>6. \A loaded : LoadExtensions(o, name, loaded) =>
         /\ DOMAIN modules' = Objects \cup {Shared}
         /\ gCompositorType = "NESTED" =>
               /\ \A other \in Objects \ {o} : modules'[other] = modules[other]
               /\ modules'[o] = loaded
    BY <1>5 DEF LoadExtensions
<1> HIDE DEF name
<1>7. CASE MakeDisplay(o, spelling, isLaunched)
    <2>1. Wanted(name) = getAllowedExtensions(name)
        BY <1>7, DisplaysAssumption DEF MakeDisplay, Wanted, name
    <2>2. LoadExtensions(o, name, Wanted(name)) /\ objects' = [objects EXCEPT ![o] = known("listed")]
        BY <1>7 DEF MakeDisplay, Becomes, name
    <2> HIDE DEF known
    <2>3. known("listed").is = "listed"
        BY DEF known
    <2>4. gCompositorType = "NESTED" => modules'[o] \in {Said(known("listed")), {}}
        BY <2>1, <2>2, <1>3, <1>4, <1>6
    <2> QED BY <1>1, <1>2, <1>6, <2>2, <2>3, <2>4, ChangesPermitted
<1>8. CASE FailDisplay(o, spelling, isLaunched)
    <2>1. /\ \E loaded : LoadExtensions(o, name, loaded)
          /\ objects' = [objects EXCEPT ![o] = known("destroyed")]
        BY <1>8 DEF FailDisplay, Becomes, name
    <2> HIDE DEF known
    <2>2. known("destroyed").is = "destroyed"
        BY DEF known
    <2> QED BY <1>1, <1>2, <1>6, <2>1, <2>2, ChangesPermitted
<1>9. CASE EmptyDisplay(o, spelling, isLaunched)
    <2>1. modules' = modules /\ objects' = [objects EXCEPT ![o] = known("listed")]
        BY <1>9 DEF EmptyDisplay, Becomes
    <2> HIDE DEF known
    <2>2. known("listed").is = "listed"
        BY DEF known
    <2> QED BY <1>1, <1>2, <1>5, <2>1, <2>2, ChangesPermitted
<1> QED BY <1>7, <1>8, <1>9

\* A display is killed or destroyed: it is listed no more.
LEMMA EndPermitted ==
    ASSUME PermittedInv, NEW o \in Objects, KillDisplay(o) \/ DestroyDisplay(o)
    PROVE  PermittedInv'
<1>1. PICK is \in {"killed", "destroyed"} :
         /\ objects[o].is # "none"
         /\ objects' = [objects EXCEPT ![o].is = is]
    BY DEF KillDisplay, DestroyDisplay, Listed
<1>2. UNCHANGED <<configuration, permissions, mMainWstContext, modules>>
    BY DEF KillDisplay, DestroyDisplay
<1> DEFINE known == [objects[o] EXCEPT !.is = is]
<1>3. known \in Display /\ known.is = is
    BY DEF PermittedInv, Display
<1>4. objects' = [objects EXCEPT ![o] = known]
    BY <1>1
<1>5. mMainWstContext # "none" /\ DOMAIN modules = Objects \cup {Shared}
    BY <1>1 DEF PermittedInv
<1> HIDE DEF known
<1> QED BY <1>1, <1>2, <1>3, <1>4, <1>5, ChangesPermitted

LEMMA NextPermitted == PermittedInv /\ [DisplaysNext]_displaysVars => PermittedInv'
<1> SUFFICES ASSUME PermittedInv, [DisplaysNext]_displaysVars PROVE PermittedInv'
    OBVIOUS
<1>1. CASE CreateMainCompositor
    <2>1. /\ mMainWstContext = "none" /\ mMainWstContext' # "none"
          /\ permissionFile' = permissionFile
          /\ objects' = objects /\ modules' = modules
        BY <1>1 DEF CreateMainCompositor, ReadPermissions, NoPermissions, configuration
    <2>2. permissionFile \in PermissionFiles
          /\ gClientsPermittedExtensions = [n \in {} |-> {}]
          /\ gClientsDefaultPermittedExtensions = {}
        BY <2>1 DEF PermittedInv
    <2>3. \A name : getAllowedExtensions(name)' = FileSays(name)'
        BY <1>1, <2>2, ReadIsSaid
    <2>4. /\ objects \in [Objects -> Display] /\ \A o \in Objects : objects[o].is = "none"
          /\ DOMAIN modules = Objects \cup {Shared}
          /\ gCompositorType = "NESTED" => \A o \in Objects : modules[o] = {}
        BY <2>1 DEF PermittedInv
    <2>5. gCompositorType' = gCompositorType
        BY <1>1 DEF CreateMainCompositor, configuration
    <2> QED BY <2>1, <2>2, <2>3, <2>4, <2>5 DEF PermittedInv
<1>2. ASSUME NEW o \in Objects, NEW spelling \in Spellings, NEW isLaunched \in BOOLEAN,
             \/ MakeDisplay(o, spelling, isLaunched)
             \/ FailDisplay(o, spelling, isLaunched)
             \/ EmptyDisplay(o, spelling, isLaunched)
      PROVE  PermittedInv'
    BY <1>2, MakePermitted
<1>3. ASSUME NEW o \in Objects, KillDisplay(o) \/ DestroyDisplay(o) PROVE PermittedInv'
    BY <1>3, EndPermitted
<1>4. ASSUME NEW p \in Outsiders, ReportClient(p) PROVE PermittedInv'
    BY <1>4, SamePermitted DEF ReportClient
<1>5. CASE BindClient
    BY <1>5, SamePermitted DEF BindClient
<1>6. CASE EraseDisplay
    BY <1>6, SamePermitted DEF EraseDisplay
<1>7. CASE UNCHANGED displaysVars
    BY <1>7, SamePermitted DEF displaysVars
<1> QED BY <1>1, <1>2, <1>3, <1>4, <1>5, <1>6, <1>7 DEF DisplaysNext

\* However often clients come and go, however they and the file spell their names
\* and whatever fails, no display in a compositor of its own has an extension that
\* the file does not permit its client.
THEOREM ExtensionsArePermitted == DisplaysSpec => []OnlyPermittedExtensions
<1>1. DisplaysInit => PermittedInv
    <2> SUFFICES ASSUME DisplaysInit PROVE PermittedInv
        OBVIOUS
    <2>1. NoObject \in Display /\ NoObject.is = "none"
        BY DEF NoObject, Display
    <2>2. objects \in [Objects -> Display] /\ \A o \in Objects : objects[o].is = "none"
        BY <2>1 DEF DisplaysInit
    <2>3. /\ permissionFile \in PermissionFiles /\ mMainWstContext = "none"
          /\ gClientsPermittedExtensions = [name \in {} |-> {}]
          /\ gClientsDefaultPermittedExtensions = {}
          /\ DOMAIN modules = Objects \cup {Shared} /\ \A o \in Objects : modules[o] = {}
        BY DEF DisplaysInit
    <2> QED BY <2>2, <2>3 DEF PermittedInv
<1>2. PermittedInv => OnlyPermittedExtensions
    BY ConfiguredIsSaid DEF PermittedInv, OnlyPermittedExtensions, Listed
<1> QED BY <1>1, <1>2, NextPermitted, PTL DEF DisplaysSpec

-----------------------------------------------------------------------------
(* Input devices: the table is what is formed of the file, and what is found in   *)
(* it is of the device that was looked for.                                       *)

TablesInv ==
    /\ deviceFile \in DeviceFiles
    /\ IF ready /\ deviceFile # Unread
         THEN /\ gRdkShellInputDevices = Formed(deviceFile.devices)
              /\ gIrInputDeviceTypeMapping = Formed(deviceFile.mapping)
         ELSE gRdkShellInputDevices = <<>> /\ gIrInputDeviceTypeMapping = <<>>

DevicesInv == TablesInv /\ NothingBorrowed

LEMMA FirstIsOne ==
    ASSUME NEW T \in SUBSET Nat
    PROVE  First(T) # 0 => First(T) \in T
<1>1. T # {} => \E x \in T : \A y \in T : x <= y
    BY Smallest
<1> QED BY <1>1 DEF First, Min

\* What is at a place of a table is a formed entry at that place of the file.
LEMMA EntriesOfTables ==
    ASSUME TablesInv
    PROVE  /\ \A i \in DOMAIN gRdkShellInputDevices :
                 /\ i \in DOMAIN deviceFile.devices /\ i \in Nat
                 /\ gRdkShellInputDevices[i] = deviceFile.devices[i]
                 /\ deviceFile.devices[i].formed
           /\ \A i \in DOMAIN gIrInputDeviceTypeMapping :
                 /\ i \in DOMAIN deviceFile.mapping /\ i \in Nat
                 /\ gIrInputDeviceTypeMapping[i] = deviceFile.mapping[i]
                 /\ deviceFile.mapping[i].formed
<1>1. CASE ready /\ deviceFile # Unread
    <2>1. /\ gRdkShellInputDevices = Formed(deviceFile.devices)
          /\ gIrInputDeviceTypeMapping = Formed(deviceFile.mapping)
        BY <1>1 DEF TablesInv
    <2>2. DOMAIN deviceFile.devices \subseteq Nat /\ DOMAIN deviceFile.mapping \subseteq Nat
        BY <1>1, InputDevicesAssumption DEF TablesInv
    <2> QED BY <2>1, <2>2 DEF Formed
<1>2. CASE ~(ready /\ deviceFile # Unread)
    <2>1. DOMAIN <<>> = {}
        OBVIOUS
    <2> QED BY <1>2, <2>1 DEF TablesInv
<1> QED BY <1>1, <1>2

\* The entry a device is found at names it.
LEMMA FoundIsNamed ==
    ASSUME TablesInv, NEW device, EntryOf(device) # 0, ~Anonymous(device)
    PROVE  /\ EntryOf(device) \in DOMAIN gRdkShellInputDevices
           /\ Named(gRdkShellInputDevices[EntryOf(device)], device)
<1>1. ByPath(device) \in SUBSET Nat /\ ByIds(device) \in SUBSET Nat
    BY EntriesOfTables DEF ByPath, ByIds
<1>2. CASE device.vendor = 0 /\ device.product = 0
    <2>1. EntryOf(device) \in ByPath(device)
        BY <1>1, <1>2, FirstIsOne DEF EntryOf, Anonymous
    <2> QED BY <1>2, <2>1 DEF ByPath, Named
<1>3. CASE ~(device.vendor = 0 /\ device.product = 0)
    <2>1. EntryOf(device) \in ByIds(device)
        BY <1>1, <1>3, FirstIsOne DEF EntryOf
    <2> QED BY <1>3, <2>1 DEF ByIds, Named
<1> QED BY <1>2, <1>3

LEMMA KeyIsNotBorrowed ==
    ASSUME DevicesInv, NEW device, Key(device)
    PROVE  DevicesInv'
<1>1. TablesInv'
    BY DEF DevicesInv, TablesInv, Key
<1>2. CASE UNCHANGED event
    BY <1>1, <1>2 DEF DevicesInv, NothingBorrowed, Key
<1>3. CASE event' = processInputMetadata(device)
    <2> DEFINE i == EntryOf(device)
               found == inputDeviceTypeAndMode(device)
               mapped == {j \in DOMAIN gIrInputDeviceTypeMapping :
                             gIrInputDeviceTypeMapping[j].filterCode = device.filterCode}
    <2>1. /\ event'.device = device
          /\ event'.type = IF ExtendedIr /\ found.type = Generic_IR
                             THEN irDeviceType(device.filterCode) ELSE found.type
        BY <1>3 DEF processInputMetadata
    <2>2. found.type = IF i = 0 THEN GenericLinuxInputDev ELSE gRdkShellInputDevices[i].type
        BY DEF inputDeviceTypeAndMode
    <2>3. irDeviceType(device.filterCode) =
             IF First(mapped) = 0 THEN Generic_IR
             ELSE gIrInputDeviceTypeMapping[First(mapped)].type
        BY DEF irDeviceType
    <2>4. First(mapped) # 0 => First(mapped) \in mapped
        <3>1. mapped \in SUBSET Nat
            BY EntriesOfTables DEF DevicesInv
        <3> QED BY <3>1, FirstIsOne
    <2>5. i # 0 /\ ~Anonymous(device) =>
             i \in DOMAIN gRdkShellInputDevices /\ Named(gRdkShellInputDevices[i], device)
        BY FoundIsNamed DEF DevicesInv
    <2> HIDE DEF i, found
    <2> SUFFICES ASSUME event'.type # GenericLinuxInputDev, ~Anonymous(device)
                 PROVE  \E k \in DOMAIN deviceFile.devices :
                            LET entry == deviceFile.devices[k] IN
                            /\ entry.formed /\ Named(entry, device)
                            /\ \/ entry.type = event'.type
                               \/ /\ entry.type = Generic_IR
                                  /\ \E j \in DOMAIN deviceFile.mapping :
                                        /\ deviceFile.mapping[j].formed
                                        /\ deviceFile.mapping[j].filterCode = device.filterCode
                                        /\ deviceFile.mapping[j].type = event'.type
        BY <1>1, <2>1 DEF DevicesInv, NothingBorrowed, Anonymous, Named, Key
    <2>6. i # 0
        BY <2>1, <2>2, <2>3 DEF GenericLinuxInputDev, Generic_IR
    <2>7. /\ i \in DOMAIN deviceFile.devices /\ deviceFile.devices[i].formed
          /\ Named(deviceFile.devices[i], device) /\ found.type = deviceFile.devices[i].type
        BY <2>2, <2>5, <2>6, EntriesOfTables DEF DevicesInv
    <2>8. CASE event'.type = found.type
        BY <2>7, <2>8
    <2>9. CASE event'.type # found.type
        <3>1. /\ found.type = Generic_IR /\ First(mapped) # 0
              /\ event'.type = gIrInputDeviceTypeMapping[First(mapped)].type
            BY <2>1, <2>3, <2>9
        <3>2. /\ First(mapped) \in DOMAIN gIrInputDeviceTypeMapping
              /\ gIrInputDeviceTypeMapping[First(mapped)].filterCode = device.filterCode
            BY <2>4, <3>1
        <3> HIDE DEF mapped
        <3>3. /\ First(mapped) \in DOMAIN deviceFile.mapping
              /\ deviceFile.mapping[First(mapped)].formed
              /\ deviceFile.mapping[First(mapped)] = gIrInputDeviceTypeMapping[First(mapped)]
            BY <3>2, EntriesOfTables DEF DevicesInv
        <3> QED BY <2>7, <3>1, <3>2, <3>3
    <2> QED BY <2>8, <2>9
<1> QED BY <1>2, <1>3 DEF Key

\* For any configuration and any devices: what an extension is told of a key's
\* device comes from a formed entry that names the device, or from its infrared
\* code (inputDeviceTypeAndMode, processInputMetadata).
THEOREM NothingIsBorrowed == DevicesSpec => []NothingBorrowed
<1>1. DevicesInit => DevicesInv
    BY DEF DevicesInit, DevicesInv, TablesInv, NothingBorrowed
<1>2. DevicesInv /\ [DevicesNext]_devicesVars => DevicesInv'
    <2> SUFFICES ASSUME DevicesInv, [DevicesNext]_devicesVars PROVE DevicesInv'
        OBVIOUS
    <2>1. CASE ReadInputDevices
        <3>1. TablesInv'
            BY <2>1 DEF DevicesInv, TablesInv, ReadInputDevices, Formed
        <3>2. UNCHANGED <<deviceFile, event>>
            BY <2>1 DEF ReadInputDevices
        <3> QED BY <3>1, <3>2 DEF DevicesInv, NothingBorrowed
    <2>2. ASSUME NEW device \in Devices, Key(device) PROVE DevicesInv'
        BY <2>2, KeyIsNotBorrowed
    <2>3. ASSUME UNCHANGED <<deviceFile, gRdkShellInputDevices, gIrInputDeviceTypeMapping,
                             ready, event>>
          PROVE  DevicesInv'
        BY <2>3 DEF DevicesInv, TablesInv, NothingBorrowed, Formed
    <2>4. ASSUME NEW on \in BOOLEAN, KeyMetadataListener(on) \/ EnableInputEvents(on)
          PROVE  DevicesInv'
        BY <2>3, <2>4 DEF KeyMetadataListener, EnableInputEvents
    <2>5. CASE UNCHANGED devicesVars
        BY <2>3, <2>5 DEF devicesVars
    <2> QED BY <2>1, <2>2, <2>4, <2>5 DEF DevicesNext
<1>3. DevicesInv => NothingBorrowed
    BY DEF DevicesInv
<1> QED BY <1>1, <1>2, <1>3, PTL DEF DevicesSpec

=============================================================================
