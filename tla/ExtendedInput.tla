----------------------------- MODULE ExtendedInput -----------------------------
(***************************************************************************)
(* The extended-input extension (extensions/RdkShellExtendedInput): key    *)
(* events with their metadata go from the main loop to the Wayland clients *)
(* of one display.  A client that binds the extension gets a module with a *)
(* pipe, which the module registers as an input listener of the display    *)
(* (rdkcompositor.cpp 544-567).  The main loop writes every event into the *)
(* pipes of the listeners, under mInputLock; Westeros' thread binds and    *)
(* destroys the modules and reads the pipes.                               *)
(***************************************************************************)
EXTENDS Naturals, Sequences

CONSTANTS
    Modules,    \* RdkShellExtendedInputModule objects
    PipeSize,   \* events a pipe holds
    MaxEvents   \* bound: events in a behaviour

ASSUME BoundsAssumption == PipeSize \in Nat \ {0} /\ MaxEvents \in Nat

VARIABLES
    client,           \* the display: "alive", or "gone" with the last reference to it
    mInputListeners,  \* the modules registered with it
    telling,          \* the main loop holds mInputLock and still has these to tell
    events,           \* events so far; events are numbered
    module,           \* how far each module is
    pipe              \* events in its pipe

inputVars == <<client, mInputListeners, telling, events, module, pipe>>

InputTypeOK ==
    /\ client \in {"alive", "gone"}
    /\ mInputListeners \subseteq Modules
    /\ telling \subseteq Modules
    /\ events \in 0..MaxEvents
    /\ module \in [Modules -> {"none", "piped", "registered", "unregistered", "deleted"}]
    /\ \A m \in Modules : pipe[m] \in Seq(1..events)

InputInit ==
    /\ client = "alive"
    /\ mInputListeners = {}
    /\ telling = {}
    /\ events = 0
    /\ module = [m \in Modules |-> "none"]
    /\ pipe = [m \in Modules |-> <<>>]

MainHoldsLock == telling # {}

\* Westeros' thread is inside no constructor and no destructor.
WaylandIdle == \A m \in Modules : module[m] \notin {"piped", "unregistered"}

-----------------------------------------------------------------------------
(* The main loop.                                                          *)

\* broadcastInputEvent takes the lock and tells every listener, in any order.
Broadcast ==
    /\ client = "alive"
    /\ ~MainHoldsLock
    /\ events < MaxEvents
    /\ events' = events + 1
    /\ telling' = mInputListeners
    /\ UNCHANGED <<client, mInputListeners, module, pipe>>

\* onWesterosInputEvent: a full pipe refuses the event, which is dropped.
\* With the last listener the lock is given up.
Write(m) ==
    /\ m \in telling
    /\ telling' = telling \ {m}
    /\ IF Len(pipe[m]) < PipeSize
         THEN pipe' = [pipe EXCEPT ![m] = Append(@, events)]
         ELSE UNCHANGED pipe
    /\ UNCHANGED <<client, mInputListeners, events, module>>

\* ~RdkCompositor, between two events; a bind in progress holds a reference.
ClientGone ==
    /\ client = "alive"
    /\ ~MainHoldsLock
    /\ \A m \in Modules : module[m] # "piped"
    /\ client' = "gone"
    /\ mInputListeners' = {}
    /\ UNCHANGED <<telling, events, module, pipe>>

-----------------------------------------------------------------------------
(* Westeros' thread.                                                       *)

\* rdkShellExtendedInputBind finds the display; the module makes its pipe ...
BindModule(m) ==
    /\ WaylandIdle
    /\ client = "alive"
    /\ module[m] = "none"
    /\ module' = [module EXCEPT ![m] = "piped"]
    /\ UNCHANGED <<client, mInputListeners, telling, events, pipe>>

\* ... and registers.
Register(m) ==
    /\ module[m] = "piped"
    /\ ~MainHoldsLock
    /\ module' = [module EXCEPT ![m] = "registered"]
    /\ mInputListeners' = mInputListeners \cup {m}
    /\ UNCHANGED <<client, telling, events, pipe>>

BugUnregister(m) ==
    /\ WaylandIdle
    /\ module[m] = "registered"
    /\ mInputListeners' = mInputListeners \ {m}
    /\ module' = [module EXCEPT ![m] = "unregistered"]
    /\ UNCHANGED <<client, telling, events, pipe>>

\* The destructor waits for the lock, unless the display is gone ...
Unregister(m) ==
    /\ WaylandIdle
    /\ module[m] = "registered"
    /\ ~MainHoldsLock
    /\ mInputListeners' = mInputListeners \ {m}
    /\ module' = [module EXCEPT ![m] = "unregistered"]
    /\ UNCHANGED <<client, telling, events, pipe>>

\* ... then closes both ends of the pipe and drops what is in it.
Delete(m) ==
    /\ module[m] = "unregistered"
    /\ module' = [module EXCEPT ![m] = "deleted"]
    /\ pipe' = [pipe EXCEPT ![m] = <<>>]
    /\ UNCHANGED <<client, mInputListeners, telling, events>>

BugNotifyWhileAlive(m) ==
    /\ WaylandIdle
    /\ module[m] = "registered"
    /\ client = "alive"
    /\ pipe[m] # <<>>
    /\ pipe' = [pipe EXCEPT ![m] = Tail(@)]
    /\ UNCHANGED <<client, mInputListeners, telling, events, module>>

\* onWaylandInputEventNotification reads one event and sends it on.
Notify(m) ==
    /\ WaylandIdle
    /\ module[m] = "registered"
    /\ pipe[m] # <<>>
    /\ pipe' = [pipe EXCEPT ![m] = Tail(@)]
    /\ UNCHANGED <<client, mInputListeners, telling, events, module>>

-----------------------------------------------------------------------------
InputNext ==
    \/ Broadcast \/ ClientGone
    \/ \E m \in Modules :
          Write(m) \/ BindModule(m) \/ Register(m) \/ Unregister(m) \/ Delete(m) \/ Notify(m)

InputSpec == InputInit /\ [][InputNext]_inputVars

\* The main loop finishes a broadcast, Westeros' thread what it is in, and
\* its event loop comes back to every pipe that can be read.
InputFairness ==
    \A m \in Modules :
        WF_inputVars(Write(m)) /\ WF_inputVars(Register(m)) /\ WF_inputVars(Delete(m)) /\ WF_inputVars(Notify(m))

-----------------------------------------------------------------------------
(* Properties.                                                             *)

\* The main loop calls no module that is being destroyed on the other thread,
\* and writes to no pipe that is closed or open again as something else.
ToldModulesLive == \A m \in telling : module[m] = "registered"

\* No event stays behind in a pipe: whatever the other thread and the other
\* modules do, every pipe is read empty again and again, or closed.
PipesAreEmptied == \A m \in Modules : []<>(pipe[m] = <<>>)

=============================================================================
