# RDKShell: specifications, model checking and proofs

TLA+ modules for RDKShell, the TLC runs that check them on small instances, and
theorems about them checked by TLAPS. Paths below are relative to the
repository (`src/` here is its root). `PROJECT.json` lists the runs, the
deliberate mistakes each property was tested against (`mutants`), the source
lines of every definition (`map`), the hazards and the findings.

## 1. The system

RDKShell is a process with one main loop (`rdkshell.cpp`, `run()` 492-524): each
iteration calls `update()` (which runs `Animator::animate()`, key repeats,
generated keys and inactivity), `CompositorController::draw()`, and
`EssosInstance::update()`, from which the key and pointer callbacks come. API
calls come from the host (the Thunder plugin), from the IPC server, which
`update()` polls, or from a Wayland extension. Everything in
`CompositorController` runs on that one thread over file-scope variables.

| component | state | operations | hard to get right |
|---|---|---|---|
| **Compositor controller, displays** (`compositorcontroller.cpp`) | `gCompositorList`, `gTopmostCompositorList` (front first), `gFocusedCompositor` (a *copy* of a list element), `gDeletedCompositors` | createDisplay, launchApplication, moveToFront/Back/Behind, setFocus, setTopmost, kill, enableInputEvents, draw | two lists edited by name; the copied focus; a killed object that lives until the next frame |
| **Compositor controller, keys** (same file, `rdkcompositor.cpp` 368-402, `essosinstance.cpp` 109-160) | `gKeyInterceptInfoMap` (copies of `CompositorInfo` again), the listeners of every `CompositorInfo`, `gPendingKeyUpListeners`, `mKeyPressed` of every display, its input-enabled bit | add/set/remove intercept and listener, removeAll..., onKeyPress, onKeyRelease, interceptKey, evaluateKeyListeners, bubbleKey | a press and its release are routed separately, by the focus, intercepts and listeners of the moment; listeners move the focus *inside* a dispatch; the power key's press is made up for inside its release |
| **Animator** (`animation.cpp`) | the vector of animations: name, display, destination, time | addAnimation, fastForwardAnimation, stopAnimation, animate | iterators kept over an erase; a new animation that replaces a running one; kill |
| **Compositor controller, timers** | last key, repeat and inactivity times, the queue of generated keys | updateKeyRepeat, generateKey, updateGenerateKeyEvents, inactivity | what is repeated is whatever key came last; absolute times set by many calls |
| **Applications** (`rdkcompositor.cpp`, `compositorcontroller.cpp` 1840-1990) | state, pid, launch thread, suspended-before-start, visibility, focus, surface count of every display, its state-change listener | launchApplication, suspend, resume, close, kill, onEvent, onClientStatus, addStateChangeEventListener, the destructor | three threads: the main loop, the launch thread, which stays in Westeros until the application has ended, and Westeros' own thread |
| **Sizes and holes** (`rdkcompositor.cpp`, `rdkcompositornested.cpp`) | size, virtual size, the size Westeros was given, visibility | setSize, setVirtualResolution, enableVirtualDisplay, setVisible, draw | which of two sizes Westeros and its clients have after a change; a rectangle computed with signed and unsigned words |
| **Images** (`compositorcontroller.cpp`, `cursor.cpp`) | the list of watermark images, watermark, full-screen and splash image, cursor | create/update/adjust/deleteWatermarkImage, show and hide of each, draw | a list kept in order by hand; the name of the full-screen image survives its image |
| **Memory monitor** (`rdkshell.cpp` 166-295) | thresholds, interval, the sent flags of the low-memory events | setMemoryMonitor, the thread | the thread reads the thresholds without the mutex under which they are set |
| **`EssosInstance`, keys** (`essosinstance.cpp`) | modifier flags, key mapping, ignored inputs, repeats; resolution | key/pointer callbacks, ignoreKeyInputs | inputs ignored between a press and its release |
| **Easter eggs** (`eastereggs.cpp`) | the progress of every key sequence | checkEasterEggs, resolveWaiting | sequences that are prefixes of each other, hold times |
| **IPC server** (`servermessagehandler.cpp`, `communication/`) | client descriptors, request map | poll, accept, read, respond, broadcast event | commands that succeed are not answered, clients that end at any point, one id for all requests |
| **IPC client** (`client/`) | one socket, one message buffer | callMethod, callMethodWithResult, processMessages | any message that arrives is taken for the answer |
| **Values of a call** (`clientmessagehandler.cpp`, `rdkshelldata.cpp`, `servermessagehandler.cpp`) | - | RdkShellData to JSON text and back, defaults of parameters left out | signed places travel unsigned, doubles as a text of six digits, parameters by an index written twice |
| **Extended input extension** (`extensions/RdkShellExtendedInput`) | the modules bound to a display, a pipe of events each | bind, unbind, onKeyPress/Release, dispatch | a module is destroyed on Westeros' thread while the main loop tells the listeners an event |
| **Key codes** (`linuxkeys.h`, `linuxkeys.cpp`) | the configured map of keys, the map of virtual keys | keyCodeFromWayland, keyCodeToWayland, keyCodeFromVirtual | two tables written separately, through which every key passes one after the other |
| **Input devices** (`linuxinput.cpp`, `essosinstance.cpp`) | the devices of a file, a table of infrared codes | inputDeviceTypeAndMode, irDeviceType, processInputMetadata | lookup by ids or by path, of which both may be missing |
| **Start** (`main.cpp`, `rdkshell.cpp` 297-480) | settings, servers, resolution; two files that outlive the process | initialize and what it calls | a death between two steps; settings that throw |
| **Where displays come from** (`rdkcompositornested.cpp`, `rdkcompositorsurface.cpp`, `permissions.cpp`) | the displays that wait for a client, permitted extensions | createDisplay, loadExtensions, unBoundedClient, destructor | a list shared by two threads; names in capitals, or none |
| **Properties of a display** (`compositorcontroller.cpp`, `messageHandler.cpp`) | place, size, scale, opacity, visibility, hole punch, MIME type | their setters and getters, setClientInfo, scaleToFit, websocket messages | one property through many calls, units and defaults |
| **Data** (`rdkshelldata.cpp`) | a union, its type, a string on the heap | constructors, assignments, conversions | narrow and wide values in one word; who owns a string |
| **Pixels** (`rdkshellimage.cpp`, `cursor.cpp`) | texture, place and size of the cursor | loading of three formats, drawing in three ways | padding of rows, rows counted from the top and from the bottom |
| Run of the main loop, client-control extension, frame buffers, tweens, logging | - | - | drawing, conversion and passing on; see section 7 |

What makes each of the modelled ones correct:

* *Displays*: the z-order is a set of distinct names, one call moves one client,
  the copied focus is the live object, a killed display is reachable from
  nothing but the key-up queue and goes away.
* *Keys*: a key goes to the focused client or to those that intercept it, never
  to a killed one, never twice to one; whoever sees a key go down sees it go up.
* *Animator*: an animation ends, ends where it should, and takes its hint along;
  none of a killed display.
* *Keys in time*: a repeated key is held, a generated one comes up, an idle user
  and no other is reported.
* *Easter eggs*: an egg is sent when its keys have been typed, and only then;
  of several the longest.
* *IPC*: every answer goes to the process that asked, in the order of its
  questions and once; every query is answered; a process that ended is let go of.
* *Applications*: a display that is gone leaves no thread and no application
  behind and signals no other process; the listener knows the state that holds.
* *Extended input*: no module is called while it is being destroyed, no event
  stays behind in a pipe.
* *Images*: the watermark images are drawn in their order, the full-screen image
  is the one last shown with success.
* *Sizes*: Westeros comes to have the size a display is composed at, and the hole
  in a frame is around all that Westeros reported.
* *Values*: what a process sets by a call is what it reads by the next.
* *Key codes*: a key arrives as the key it is, never as another.
* *Input devices*: no key is told to come from another device.
* *Start*: the splash screen is shown once, whenever the process dies.
* *Where displays come from*: a client gets its own extensions and a display nobody else has.
* *Properties*: what was set last is what is answered.
* *Data*: a value reads as it was assigned, and a string has one owner.
* *Pixels*: every point of the screen shows the pixel of the picture that belongs there.
* *Memory monitor*: the warnings out are those the last measurement calls for
  and the listener knows them, whatever the thread read half-changed.

## 2. Modules

| module | models | runs |
|---|---|---|
| `CompositorController` | displays, z-order, focus, intercepts, listeners and the routing of every key event | through the `MC...` modules |
| `ZOrder` | the abstract z-order that the controller's two lists implement | `stack` |
| `CompositorController_proofs` | theorems about the controller | tlapm |
| `Images` | watermark, full-screen image, splash screen, cursor, and what `draw()` makes of them | `stack` |
| `Geometry` | the size of one display, its virtual size, its holes | `stack` |
| `Pictures`, `Pixels` | decoded pictures and where each of their pixels is drawn; the second declares their variables under names that go with the other modules' | `stack` |
| `MCStack` | displays without keys, or watermark images, or the other images, or pixels, or the geometry of a display (`part`) | `stack` |
| `MCKeys` | displays and keys, with intercepts or with listeners (`part`) | `keys`, `swallowed_key` |
| `KeyUp`, `MCKeyUp` | the controller with a keyboard on which any keys are down together, in both builds | `key_up` |
| `KeyHistory` | the controller with a record of who was sent which key | `released_key` |
| `BubbleKey`, `MCBubbleKey` | `bubbleKey` as a loop that takes one display per step, which implements the one-step routing of `CompositorController` | `bubble` |
| `KeyDispatch_proofs` | theorems about `KeyUp` and `BubbleKey` | tlapm |
| `Animator`, `MCAnimator` | animations, the calls that start and stop them and the frames that move the displays | `animator`, `two_ends_in_one_frame` |
| `Frame_proofs` | theorems about what a frame shows: `Images`, `Pictures`, `Geometry` and `Animator` | tlapm |
| `Application` | the life of one display and its application, over three threads | `application` |
| `ExtendedInput` | the extension's modules and pipes, over two threads | `application` |
| `StartUp` | `initialize()` and the files that outlive the process | `application` |
| `Displays` | creating displays of both kinds, their extensions, and clients that come by themselves | `application` |
| `InputDevices` | the table of devices and what an extension is told of a key's device | `application` |
| `Surroundings_proofs` | theorems about these five: `Application` to `InputDevices` | tlapm |
| `MCApplication` | one of them (`part`) | `application` |
| `Ipc` | the socket server, its requests and answers, and the client processes | `ipc` |
| `Parameters` | the values of one call on their way from a process to a display and back | `ipc` |
| `RdkShellData` | the union in which such a value is kept | `ipc` |
| `Calls` | the setters and getters of a display, as calls and websocket messages | `ipc` |
| `Words` | integers of a fixed width and their conversions | with `Parameters` and `Calls` |
| `IpcValues` | the conversation together with the values it carries | with `MCIpc` |
| `Ipc_proofs` | theorems about `Ipc`, `Parameters`, `RdkShellData` and `Calls` | tlapm |
| `MCIpc` | a conversation, or `Parameters`, `RdkShellData` or `Calls` (`part`) | `ipc` |
| `MemoryMonitor`, `MCMemoryMonitor` | the monitor thread, the setters of its thresholds and the event listener | `memory_monitor` |
| `MemoryMonitor_proofs` | theorems about it | tlapm |
| `EasterEggs` | easter eggs: state and operations | with `KeyInput` |
| `KeyInput`, `MCKeyInput` | keys from Essos to the controller; key repeat, generated keys, inactivity and easter eggs, with time | `key_input` |
| `KeyInput_proofs` | theorems about it | tlapm |
| `KeyCodes` | the codes of every key on its way in and out | `key_input` |
| `SequenceLemmas` | lemmas about sequences and recursive functions that several proofs rest on | tlapm |

The modules stand for parts that share no state but the displays: `Ipc` ends
where a request becomes a call of the controller, which is an action of
`CompositorController`, and `Parameters` follows the values of such a call;
`Animator` has the displays of the controller as objects that exist, move and are
killed, `Application`, `Geometry` and `ExtendedInput` have one of them each;
`MemoryMonitor` meets the controller in its event listener only; `KeyInput` is
what happens to a key before `CompositorController` routes it, and when. An `MC...`
module with a `part` chooses in its initial state which of its specifications
runs and leaves the others' variables alone: they meet in nothing but `draw()`,
the display or the socket, and a product of their states would show no more.

How the state corresponds to the code:

* A member of `Clients` is a client name after `standardizeName()` (lower case).
  `compositorLists` is the two vectors of `CompositorInfo` reduced to their
  names; the rest of a `CompositorInfo` is kept by name in `compositor` and
  `keyListeners`. That the names are distinct, so that keeping it by name loses
  nothing, is itself proved (`UniqueNames`, and `ZOrderIsKept` in the runs).
* A member of `Compositors` is one `RdkCompositor` object. Objects are held by
  `shared_ptr`: `Referenced` is what some pointer keeps alive, and a new display
  takes an object that nothing references. A step that creates a display is
  therefore disabled when all objects are in use; this bounds the model, not the code.
* `gFocusedCompositor` and the entries of `gKeyInterceptInfoMap` are copies, as
  in the code, and can be stale in the model for the same reasons.
* `gPendingKeyUpListeners` is a set. The code has a vector; an object listed
  twice gets its second `onKeyRelease` when no press is outstanding, which does
  nothing (`rdkcompositor.cpp` 385-402).
* `mReceivedKeyPress` and `mInputEventsEnabled` are one bit of every object.
* `sent` records which objects the last call passed a press or a release on to
  Westeros for; `lost` records objects that `moveBehind(c, c)` dropped. Neither
  influences a step.

One action is one API call or one key event; the whole call is one step because
all of it runs on the main loop. A key event is described on a record of the
routing state (`CurrentRouting`) so that the power key, whose release event
dispatches a press and then a release, is the composition of the two. `bubbleKey`
is written there as the outcome of its walk; `BubbleKey` has the loop and the
run `bubble` compares them.

`ZOrder` is what the callers of `getZOrder` may rely on: one sequence of distinct
clients, the topmost before the others, of which a step inserts, removes or moves
one. `ZOrderIsKept` is the refinement: `order` is the topmost list followed by the
other, `topmost` the names of the first. Each of seven calls edits the two lists
in its own way; all of them, `moveBehind(c, c)` too, implement one step of it.

`KeyUp` names what the key-up queue is good for. Any keys are down together, each
repeats, and keys are released in any order. Meanwhile it allows
setFocus, setTopmost, kill, the moves, listeners, intercepts for keys that are up and
the removal of single intercepts; each of them either queues a key-up or cannot
change where a release goes. It allows the calls that do neither (a display created with the
focus, setKeyIntercept for a key that is down, removal by wildcard, removeAllKeyIntercepts,
enableInputEvents) only while the keyboard is idle: with a key down, each of
them leaves a key stuck on some display, and so do modifiers that change while a
key is down that is intercepted with some modifiers and not with others
(`InterceptedAlike` leaves these out). Nothing in the repository promises
otherwise, so this is recorded as a hazard and not as a finding. The properties are about
what a display remembers, the one bit `mReceivedKeyPress`: with one key down at a time this
is what its client saw, with several the client may miss a release (section 6).

`Animator` keeps two properties, which make a place: a size, for width, height and opacity,
which a frame cuts to what lies between zero and the screen (`OnScreen`, animation.cpp
93-108), and a scale, for the scales and the position, which it leaves as they are;
`setScale` drops one below zero (`SetTo`). So an animation that runs out leaves its display
at its destination cut to the screen (`Goal`), and one that is fast-forwarded at the
destination itself (`Forwarded`); `EndsAtDestination` says both. A caller leaves out either
(`Unspecified` in `Targets`), and has the display's instead (`Asked`). `Between` is any value
on the way. A size of a call and of `createDisplay` is kept as it is; that `setSize` puts 720p for
any under `gForce720` is in `Geometry`. Time is counted in frames. What a frame does is two recursive functions over the list, `Moved` (each animation moves its
display) and `Erased` (those that are over are taken out, last first). The effect of
`vector::erase` on iterators collected before it is modelled by position, with
what libstdc++ does for the iterator past the end (it pops the last element);
the run that uses this names it.

`Images` has every call on the images as one step of the main loop. `Overlays` is
what `draw()` puts over the displays, bottom first; the properties are about it.
A picture is what a file or a segment of shared memory holds; decoding it
succeeds or fails. Times are ages, up to `MaxTime`. `asked` records the full-screen
image last shown with success.

`Geometry` has one dimension, width and height being treated alike. `output` is
what `WstCompositorSetOutputSize` was last given, `holes` what Westeros reported
in the last frame and `hole` the rectangle `prepareHolePunchRects` made of it,
with its comparisons of signed and unsigned words of `Word` values.

`Application` is one display from its creation to its destruction. `main`,
`launchThread` and `wayland` are where the three threads are. A step ends where a thread
takes or gives up `mApplicationMutex` or `mStateChangeLock`, waits, or has read
`mApplicationState` without a lock. So `setVisible` is up to three steps: its test of the state
(`TestSuspended`), the change and the choice of what to tell (`SetVisible`, with
`UpdateWaylandState`, which sets `chosen`), and the telling under the lock
(`BroadcastStateChangeEvent`); suspend and resume hold `mApplicationMutex` from their change to
the end of their telling (`ApplicationLocked`), setVisible and setFocused do not, and a
registration, a launch that reports or a process that ends may come between any two. `mVisible` and `mFocused` are
written and read by the main loop only, so that setting one is no step apart from the choice behind it.
The main loop in `closeApplication` waits (`Join`) for the launch thread. `display` is where the object is: in the lists, killed but
still to be drawn once, released by the main loop but held by a callback on Westeros'
thread, in its destructor, or gone; the destructor runs on whichever thread lets
go of it last. `process` and `connected` are the application and who is connected
to the display; `Strangers` connect without having been launched on it, and are
all there is on a display made by `createDisplay`. `told` is the last state the
listener was told. `first`, `raced` and `overtaken` are history: the last two mark the two
interleavings after which the listener has a state that no longer holds, until the next one is
told (section 6). What the host does with an
event is left out, but for the auto-destroy of the controller itself.

`ExtendedInput` follows a module through its constructor (`"piped"`, then
`"registered"`) and destructor (`"unregistered"`, then `"deleted"`), on Westeros'
thread. `telling` is the rest of a broadcast, during which the main loop holds
`mInputLock`; registering and unregistering need that lock. A write into a full pipe
fails and the event is lost, as in the code.

`Ipc` has one connection per client process and keeps what is in the two
directions of each as sequences. A `Process` step of the server is one round of
`SocketHandler::process` up to one `readData`: the descriptors that `select()`
found readable are served one at a time, in any order, and a process may end
between two of them. Header and payload of a request are two sends, so a
process can end between them (`BrokenOff`); the server's `recv` loop then never
ends, and the model stops serving. `mMessageId` stays 0 in the client, so ids
are left out. What a handler answers depends on the kind of call alone: a query
is answered, a command only if it fails (`servermessagehandler.cpp` 85-232). Not in
the model: calls after the client's own `stop`, sends that block, payloads longer than
the buffer, full socket buffers.

`Parameters` is one call of a method that sets something (setBounds, setScale or
addAnimation), the event about it, and a query. An integer stands for itself and
a double for its value in units, `Unit` of them in 1.0, so that there are fractions. The text of an
integer has all its digits. That of a double is what `std::stringstream <<` makes of it
(clientmessagehandler.cpp 80, servermessagehandler.cpp 219, 267): six significant digits, so 1234.567 is read as
1234.57, and from a million on an exponent, so that a whole number is no integer to the parser (`DoubleText`). `sixDigits` is
that rounding, of which only `sixDigits[sixDigits[d]] = sixDigits[d]` is assumed; `SetIsRead` promises a
scale to these digits. `GetUint()` on a number that is none
is an assertion of rapidjson (`"server aborted"`, `"client aborted"`). Of an
animation only the last frame is there.

`MemoryMonitor` follows the thread from one read of a shared variable to the
next (`at`) and `setMemoryMonitor` from one entry of its map to the next
(`setter`), in the order of their names, each with a new or the old value. The
mutex is held by `setter` while it is not `"out"`; the thread's own critical
sections are single steps. The threads touch the thresholds in what C++ calls a
data race; the model takes each `double` to be read and written whole, as on the
targets. `told` is what a listener knows by counting the events it was sent;
`heardAll` says it has been there since no warning was out. There is no time.

`KeyInput` keeps times as ages: how long ago `gLastKeyPressStartTime`,
`gLastKeyRepeatTime` and `gLastKeyEventTime` were set, `Never` for the code's 0.0.
`waited` is how long ago `gNextInactiveEventTime` would be without the interval
that was added to it, so that the code's "now is past the deadline" is
`waited > gInactivityIntervalInSeconds`; a new interval counts from the last
key. A generated key has the time it still waits. Ages stop at `Cap`, more than
every time they are compared with. `Tick` is one unit of time, `Update` is
`CompositorController::update()` without `animate()`. `down` is what has been
passed to the routing as pressed; `held` is the keyboard, with what Essos does by
itself: a held key comes again while `mKeyRepeatsEnabled`. `disturbed` marks two
situations in which the code repeats a key that is not held (section 6). `typed`
and `sameEggs` remember the keys since all eggs were reset, the last `MaxTyped` of
them (more than any egg has keys, and at least twice as many less one, so that a window of
them that no longer begins with the first key still shows which keys an egg has gone
through: `HistoryAssumption`, which also has eggs told apart by their names). The list of eggs is
sorted by inserting each egg in turn (`Placed`), with the comparison as it is.
Not in the model: `generateKey` for a named client, which touches only that
client's display; the power key, which is in `CompositorController`; egg sequences
without keys and more than 16 eggs, for which the code is undefined.

`KeyCodes` has the codes of `linuxkeys.h` by their names, without the prefix that tells
the two headings apart, and each of the two switches as a function of names; `ByCode`
makes it one of codes. `arrived` is the last event of the client. It is apart from
`KeyInput`, which needs three keys of different kinds, not a hundred.

`RdkShellData` keeps a union as one word; a type uses the lowest part of it, of one of three
widths (`Narrow`, `Middle`, `Wide`: how many values each part has): what is left of a wider value is there for a wider type to read. `assigned` is
history. The class relies on its callers not to assign a number to a string or copy a
string when constructing; so does the module.

`StartUp` goes through `initialize()` place by place; `Die` may come at each, `Reboot`
empties `/tmp`. `shown`, `unmarked` and `refused` are history.

`Displays` has the creation of a display, which fails or not, its kill and its
destruction in a later frame, and on the thread of the shared compositor the three steps
of a report: looking at the front of the list, binding, erasing. `met` says that the list
changed during a report, after which the erase is undefined and erases anything. What a display
does once it is there is `CompositorController`'s and `Application`'s.

`InputDevices` takes an entry of a configuration as formed or not. `Calls` keeps opacity in
hundredths and a scale as a fraction; `wanted` is history: what the last calls asked for.
Calls of one kind of property do not touch another's, so `mode` chooses the kind.

`Pictures` tells the pixels of a picture apart by row and column (`Pixel`) and has a
texture as a function of both; `Junk` is what stands where the decoder reads or leaves
bytes that belong to no pixel. Transparency, rotation and the shader are left out.

## 3. Runs

| run | instance | shows |
|---|---|---|
| `stack` | 3 clients, 3 objects, no keys, draw fair; or 3 watermark images of 3 z-orders; or 2 full-screen images, a splash of 0 to 2 seconds and the cursor; or 6 pictures of 3 formats on screens of 4 by 3 or 4 points; or a display of 2 sizes, with 2 holes of 5 | `ZOrderIsKept`, `FocusIsManaged`, `KilledCompositorReleased` for every order of creating, restacking, focusing and killing; `ImagesAreShown`: the watermark images in order, the full-screen image the last one shown; `PixelsAreShown`; `HoleIsAroundAll`, `OutputFollows` |
| `keys` | 2 clients, 2 objects, an ordinary key, the power key and the removal wildcard; displays and intercepts, or displays and listeners | a killed display is pressed no more (`PressOnlyToManaged`), the power key's press and release reach the same displays wherever listeners move the focus (`PowerKeyPaired`) |
| `key_up` | 2 clients, 2 keys down together, 2 modifiers, 2 intercepts, listeners or disabled displays in all (1 with both modifiers met), both builds of key bubbling | `NoStuckKey`, `OwedRelease` |
| `bubble` | 3 clients stacked, 1 topmost, every assignment of listeners, every focus, one display disabled or none, the focused display with the key down or not, both builds | `WalkIsOneStep`: the loop ends with the one-step outcome |
| `animator` | 2 clients, 2 objects, delays and durations of up to 1 frame, destinations beyond the screen with no scale given, on it with a negative scale, and with nothing given, no two ends in one frame, frames fair | no animation is of a killed display, none twice (`AnimationsAreLive`); each ends where it should, cut to the screen or not (`EndsAtDestination`); they end, without a hint left, when calls stop (`Settles`) |
| `application` | one display of either kind, launched on or not, auto-destroyed or not, one stranger; or 2 modules with pipes for 2 events and 3 events; or the start, 5 environments, 3 starts; or 3 displays of 3 spellings of 2 names, 3 permission files, 2 clients; or 6 devices' entries and every device of small ids | `ToldTheState`, `EarlySuspendTakesEffect`, `NothingLeftBehind`, `OnlyTheApplicationIsKilled`, `KilledDisplayGoes`; `ToldModulesLive`, `PipesAreEmptied`; `SplashOncePerBoot`; `ClientsGetDisplays`; `NothingBorrowed` |
| `ipc` | a process that makes two calls beside one that makes one, queries and commands, one event, timeouts, a server that may stop; or one call of 3 methods with any of its parameters, of 2 values each, on 2 displays; or 2 values of every type, with 2 strings; or one display, 3 places, 4 opacities, 3 scales | `AnswersInOrder`, `OwnResult`, `QueriesAnswered`, `EndedAreForgotten`; `SetIsRead`; `ValuesAreKept`; `AnswerIsLastSet` |
| `memory_monitor` | 3 amounts of memory, 2 thresholds, 2 of swap, a window of 3 measurements | `WarningsMatch`, `ListenerKnows`, `MonitorKeepsUp` |
| `key_input` | 3 keys (plain, modifier, mapped), a generated one, 2 eggs of which one ends like the other, times of 0 and 1; or every key of `linuxkeys.h`, one held beside modifiers, two key maps and a virtual key | `GeneratedComesUp`, `EggWasTyped`, `EggCompletes`, `LongestEggWins`; `KeyArrives` |
| `swallowed_key`, `released_key`, `two_ends_in_one_frame` | | the findings of section 6 |

Bounds. Two clients are enough for keys because every step of the routing
involves the focused client, one other client and the object of a killed one;
two objects let a killed display be held by the key-up queue while its client
has a new one. The z-order needs three clients (one moved between two others). One key is enough except where two keys interact:
`key_up`, `released_key`, the power key and the wildcard have two; a third key down would be one more like the
second, owed its own release. One word of modifiers is enough
because the code compares the words for equality only, and two keys with one
word behave like one key with two, except in `key_up`, where they change while a key is down. `keys` has intercepts in one half of its
behaviours and listeners in the other because the registrations of both together
are too many to enumerate, and input is enabled and disabled beside intercepts (and in `bubble`) only;
`key_up` has both, two in all (`MaxSettings`): enough for an intercept to meet another or a listener that moves the
focus it depends on. The theorems are about the full `Spec` and the full `KeyUpSpec`.
Symmetry is used on clients and objects, in runs without liveness only.

Three watermark images let one be inserted between, before and behind others of
smaller, equal and larger z-order; the theorem is for any number. Two sizes are
enough to differ. The five holes of `stack` lie beside each other, inside one
another and off the screen; `Word` and `Far` keep their order (every place on the
screen below `Far`, negative ones above it). In `application` one stranger is
enough to connect before the application does and take its place as the known
pid; two modules let one be destroyed while both are told; a pipe of two events
can be full.

In `animator` a second client has an animation that goes on while the first one's is stopped,
replaced or over; three, which the erase of two in one frame needs, are in
`two_ends_in_one_frame`, and the theorems are for any number. The screen is of size 1 with
destinations of 1 and 2, of which a frame cuts the second and a fast-forward does not.

The codes of keys are all in `key_input`, so nothing is left to a bound there but how many are
held. The parts of the word of `RdkShellData` have 2, 4 and 8 values, so every narrow type differs from every wide one and
signs extend; two values are enough to share a string. The pictures have widths below, at and
above the four that their rows are padded to, one to three rows, one to four components, and sizes on the
screen that shrink and stretch them. Three displays let one wait behind another while the first
is destroyed. `Percents` has the smallest opacity that is
read as one less, and `Bounds` places left of the screen and above it, which wrap in a `Word` of 16. The doubles of `SetIsRead` are in thousandths: 1.5, 123456.4, whose six digits
are a whole number, 1234.567, which loses one, and a million, which is written with an exponent.

`ipc` needs two calls of one process, so that an answer to the first can meet the
second, and a second process, so that an answer can go astray. `memory_monitor`
has amounts below, between and above the thresholds; the window is five
measurements in the code, and only the first and the last are compared, so three
(a first, a last and one between) shift through all that matters. The
theorems hold for any window and any amounts.

`key_input` has two times, so that a time is not past, just past and long past its limit with
`Cap` 2. Easter eggs and the other timers are fed by the same keys and read
nothing of each other, so the initial state chooses one of the two and the other's
calls are not made; the theorems are about the full `Spec`. Sequences of two keys, of which
the second is the other egg, give eggs that advance, are complete and are reset
together; three keys typed are one more than any sequence.

`TopMode` is the build option `RDKSHELL_ENABLE_KEYBUBBING_TOP_MODE` (on by
default). `key_up` and `bubble` run both builds by choosing one in the initial
state; the theorems hold for both. `PowerReleaseOnly` is
`gRdkShellPowerKeyReleaseOnlyEnabled`; `TRUE` makes the power key's release an
ordinary one, so the runs take `FALSE`.

Fairness. `run()` calls `update()`, which calls `animate()`, and `draw()` in
every iteration, however many calls come in between, hence weak fairness of
`Draw` and `DrawDisplay` in `stack` and of `Animate` in `animator`. The same loop polls the IPC server
(`update()` 538-548), hence weak fairness of `Process` in `ipc`; a client that has
sent a header goes on to its payload unless it ends, and nothing else is assumed of the clients. In
`application` a thread that is inside a call goes on (each in its own step, the main loop from
choosing a state to telling it by `GoOn`), the
main loop draws, Westeros starts an application or says that it cannot, and a
process does not outlive SIGKILL; that an application ends by itself, that a client
disconnects or that a listener comes is not assumed. A broadcast of the extension
goes on to its end, Westeros' thread finishes the constructor or destructor it is
in, and its event loop comes back to every pipe that can be read. The
monitor thread is never blocked for ever: it finds the mutex free now and then
although setters come again and again (strong fairness of `ReadEnabled` and
`Sleep`), `/proc/meminfo` can be read now and then (`Measure`), and a setter that has the
mutex returns. `Update` is in the main loop too, and
time passes (`Tick`), hence their weak fairness in `key_input`. Nothing is assumed of
the callers of the controller. `Settles` and `OutputFollows` are stated for
behaviours in which the calls stop.

Deadlock is not checked in `application` and `ipc`, which really stop: the display is
destroyed or RDKShell terminated, the last start over, the server stopped and every process ended, the
call answered.

## 4. Proofs

Every invariant and action property below is proved for all values of the constants, from the
assumptions that are named with it. What they have in common: the property is
seldom inductive, so an invariant is (`...Inv`), which TLC checked on a run's instance
before it was proved; it has one lemma per action or per operator that an action uses.

`SequenceLemmas` has what several of them rest on. What `InsertAt` and `RemoveAt`
make of a sequence is said element by element (`InsertAtElements`, `RemoveAtElements`,
`Remaining`). A loop is a recursive
function in the modules; that it is what its equations say is an induction, which the library's
theorems state with an operator as a parameter and the installed provers cannot use. It is
done once instead, by a least counterexample in a well-founded order (`Smallest`,
`RecursionExists`), and two functions with the same start and steps are the same
(`SameOneByOne`).

### The compositor controller

`CompositorController_proofs` proves, for any sets of clients, objects, keys and
modifiers and for both build options, from `ConstantsAssumption` alone (the null
values are no members of the sets they stand outside of, listeners and power
keys are about known keys):

| theorem | property |
|---|---|
| `Invariance` | `Spec => []IInv` |
| `TypeCorrectness` | `TypeOK` |
| `NamesAreUnique` | `UniqueNames` |
| `FocusStaysManaged` | `FocusIsManaged` |
| `InterceptsStayManaged` | `InterceptsAreManaged` |
| `DeletedIsUnreferenced` | `DeletedUnreferenced` |
| `PressesAreManaged` | `PressOnlyToManaged` |
| `InterceptsStaySingle` | `OneInterceptPerClient` |
| `ZOrderIsImplemented` | `ZOrderIsKept`: the refinement of `ZOrder` |
| `PowerKeysArePaired` | `PowerKeyPaired` (an action property) |

None of the invariants is inductive alone. That a copy of a `CompositorInfo` is still
good after a call depends on the client having one place in the lists
(otherwise erasing the first leaves a second), on every listed client having an
object and no unlisted one having any, on no two clients sharing an object, and
on the managed, the lost and the killed objects being disjoint (otherwise a new
display could take an object that a stale copy still points to). `IInv`
is the conjunction of these: `TypeOK`, `ListsInv` (names and objects),
`ObjectsInv` (the three disjoint kinds), `GoodFocus` and `GoodIntercepts` (the
copies). The proof has one lemma per action. Key events go through the routing
record: `RoutingInv` says that the copies and the sets in a record are good, each
of `Rebind`, `PressOn`, `ReleaseOn`, `Activate`, `BubblePress`, `FlushPending`
preserves it, so `Press` and `Release` do, and so does the power key's
composition. `PressesAreManaged` follows from the same lemmas, which also carry
that the displays a press is sent to are managed or lost. `InterceptsStaySingle`
needs an invariant beside `IInv`: an entry changes its compositor when a key
binds it or a kill unbinds it, and entries that were two stay two only because
no two differ in nothing else (`OneEntryEach`).

`ZOrderIsImplemented` takes each call to one step of the one sequence or to none. With the
topmost list in front of the other, a place in one list is a place in the sequence
(shifted or not); an edit of a list, said by place, is then the insertion, removal or move
that `ZOrder` has. `IInv` says that names are distinct, so the place a call finds is the only one.

`PowerKeysArePaired` compares the two dispatches of one step: which displays a walk meets
depends on the names in the list and the listeners, which no dispatch changes, and on the focus, which the
first may move; each of the ways in which it moves leaves the displays that were sent
the press among those that are sent the release, or in the key-up queue that the release flushes.

`KeyDispatch_proofs` builds on that invariant, for the same constants and
under the same assumption, and proves of `KeyUpSpec` and of `BubbleKey`:

| theorem | property |
|---|---|
| `KeyUpInvariance` | `KeyUpSpec => []KInv` |
| `NoKeyIsStuck` | `NoStuckKey` |
| `ReleaseIsOwed` | `OwedRelease` |
| `BubbleKeyIsOneStep` | `WalkIsOneStep` of `BubbleKey` |

`KInv` is `IInv`, that no display is lost, and `HeldInv`: with the keyboard idle
nobody is pressed, and as long as keys are down everybody who believes that a key is down
is in the key-up queue or where the release of one of these keys will go (`Settled`). For this to
survive a change of the focus, the intercept entries of the keys that are down are
bound to the listed displays (`BoundAt`), without which the display that
`setFocus` queues and the one that intercepted the press could be two: with it, what
an intercept loses with the focus is what the queue gains, and any other display keeps its route
whatever key moves the focus (`TakesUnfocused`). A power key is owed nothing: its press is skipped, and its
release is a press and a release in one step (`Routed` leaves it out).
`PressOwes` and `ReleasePays` are the two halves of a key event: a press owes a release to all it was
sent to, and a release leaves only displays that another key has a route to, with the queue empty, so that
after the last release there are none. Each call that may come while keys are down has a lemma: it
either queues who loses the release or does not move it.

`BubbleKeyIsOneStep` starts the loop in any state that satisfies `IInv`, with any number of
displays, and in both builds, where the run `bubble` has stacks of three. `WalkInv` has the
routing after some of the list as an outcome of the places met so far (`Outcome`):
who has been sent the key, who has been queued, and the last activating listener among them has the focus.
A turn of the loop adds one place (`TurnWalkInv`); at the end these are the places that
`BubblePress` speaks of.

### A frame

`Frame_proofs` proves what the frames show:

| theorem | property | of |
|---|---|---|
| `WatermarksStayInOrder` | `WatermarksInOrder` | `Images` |
| `ImagesStayShown` | `ImagesAreShown` | `Images` |
| `HoleStaysAroundAll` | `HoleIsAroundAll` | `Geometry` |
| `PixelsStayInPlace` | `PixelsAreShown` | `Pictures` |
| `AnimatorInvariance` | `LowerCase => (SpacedSpec => []AnimatorInv)` | `MCAnimator` |
| `AnimationsStayLive` | `AnimationsAreLive` | `MCAnimator` |
| `AnimationsArrive` | `EndsAtDestination` (an action property) | `MCAnimator` |

The watermark images, of any number and z-orders (`ImagesAssumption`): what inserting into a
sorted sequence by the first larger element, erasing, and replacing do to the order is
proved by place. For the full-screen image the name that survives its image
has to be the current one (`FullScreenInv`), or a name already loaded would show another picture.

The rectangle around any number of holes, on any screen: `HolesOneByOne` takes the recursion of
`prepareHolePunchRects` apart; while the leftmost hole comes first each turn leaves the rectangle
around those before, and on the screen (`GeometryAssumption` keeps the arithmetic on unsigned words
below `Word`).

The pixels, of any pictures, sizes and screens (`PixelsAssumption`), have an argument in two halves. What the
three decoders return is one function, row and column to the pixel there (`TextureIsUpright`): where `Fits` holds
rows need no padding (`NoPadding`), and of a bitmap, whose rows come from the bottom, each place has a single
writer, which the uniqueness of quotient and remainder gives (`DivideByRow`). What is drawn of it at a point
is the pixel of that point's part of the picture, counted from the top, where GL and the bounds count from the bottom
(`DrawnInPlace`). `PicturesInv` ties the texture to what the file or segment held, and the place of the
cursor to the pointer and to the height the screen then had; the property is about the cursor where that is still the height.

The animations, of any clients, displays, places and times, for names in lower case and
while no two end in one frame (`SpacedSpec`; without this
it is false, finding `two_ends_in_one_frame`). `AnimatorInv` is `TypeOK`, that no two clients share a display
(`OneEach`), that each name comes once in the list with its client's display (`LiveList`),
that a hint has an animation (`HintInv`), and `EndsDiffer`. With one end in a frame the erased
list is the old one without that place (`Erased` by `RecursionExists`), and a display is moved by
its own animation only (`Moved`), so an animation that is over has left it at its destination as far as
that is on the screen, `Goal` being a place that `SetTo` keeps (`SetToPlace`, `GoalIsPlace`).

### Around the controller

`Surroundings_proofs` proves, of a display and its application, for any strangers whose names are not those of the
application (`StrangersAssumption`):

| theorem | property |
|---|---|
| `Invariance` | `Spec => []IInv` |
| `NothingIsLeft` | `NothingLeftBehind` |
| `OthersLive` | `OnlyTheApplicationIsKilled` |
| `ListenerIsTold` | `ToldTheState` |
| `EarlySuspendIsKept` | `EarlySuspendTakesEffect` (an action property) |

`IInv` has five parts: `ThreadInv` ties the places of the launch thread to the state
and to the process, `PidInv` says whose pid is known and who has been signalled,
`ListenInv` that only an application that runs registers, `ChoiceInv` what has been chosen and is
still to be told: it is the state that holds, unless Westeros' thread has suspended since, which is `overtaken`,
or the launch thread has written the state; and `ToldInv` what the listener
knows, also while the registration is between its two locks and while something chosen is not told yet. And of the other parts:

* `NoDeadModuleIsTold` (`ToldModulesLive`), for any number of modules: those still to
  be told are registered (`ListenersInv`), since unregistering waits for the lock that
  the broadcast holds.
* `SplashIsShownOnce` (`SplashOncePerBoot`), for any environments and number of starts.
  `SplashInv` counts: while no marker is there, every splash screen shown so far belongs
  to a process that died before it wrote one, except the one that is being marked.
* `ClientsGetTheirOwn` (`ClientsGetDisplays`), for any displays, clients and permission
  files (`DisplaysAssumption`, `ObjectsAssumption`). `WaitingInv` says that those that
  wait do so once, are there and have no application; `ReportInv` that, until the list
  changes during a report, its front is the one that Westeros' thread has looked at, and
  nothing else on it has been given away. The place where the destructor finds a display
  is a lemma (`RemoveFirstEffect`), as is what is left when one is taken out (`Remains`).
* `ExtensionsArePermitted` (`OnlyPermittedExtensions`), for any permission file, in which the
  first entry of a name is the one that counts, however it is spelled. `PermittedInv` says that from the first compositor on `getAllowedExtensions` answers what the file
  says of any name (`FileSays`), and that what a display has comes from there or is nothing.
* `NothingIsBorrowed` (`NothingBorrowed`), for any configuration and any devices. `TablesInv`: the two
  tables have the formed entries of the file, in its order, once it has been read; the first
  entry that matches is then one of them.

### Calls and their values

`Ipc_proofs` proves, for any processes, any number of calls and of events
(`IpcAssumption`):

| theorem | property |
|---|---|
| `IpcInvariance` | `Spec => []IInv` |
| `AnswersStayInOrder` | `AnswersInOrder` |
| `RequestsStayAccounted` | `RequestsAccounted` |
| `ResultStaysOwn` | `OwnResult` |

The answers given and the requests queued of a process are one sequence of its
calls (`Ordered`), of which the next call is larger (`Earlier`, until the process
ends). The count needs that both sets it counts are finite, which they are from the
start, and that a request answered at once leaves the map as it was
(`ReadRequestEffect`): its new id is in nobody's place. For `OwnResult` all that is on
its way from and to a process that called alone is that call, its answer, and
messages that answer nothing (`OwnInv`).

And of the values such calls carry:

| theorem | property | for any |
|---|---|---|
| `WhatIsPassedIsRead` | `SetIsRead` (`Parameters`) | numbers, scales, places, and any `Word` (`ParametersAssumption`) |
| `ValuesStayKept` | `ValuesAreKept` (`RdkShellData`) | values, texts, blocks, and even widths (`RdkShellDataAssumption`) |
| `CallsInvariance` | `CallsSpec => []CallsInv` (`Calls`) | clients, bounds, percentages, scales (`CallsAssumption`) |
| `WhatIsSetIsRead` | `AnswerIsLastSet` (`Calls`) | the same |

`WhatIsPassedIsRead` follows one call: `GivenInv` keeps what the process gave in the range of its
types, `StepInv` says for each place on the way what the request, the display and the answer are in
terms of it (`Target`). A place is written unsigned and read signed, which is the identity on what fits
(`SignedSurvives`). `ValuesStayKept`: a value of a type is in the low part of the word and its cast gives it back
(`StoredIsRead`, `CastKeeps`), whatever a wider value left above it; strings are in blocks of
their own, each owned by one value that is alive (`HeapInv`). `CallsInv` relates a display to
what was asked of it, by either route and in either unit (`DisplaysInv`), and the screen to what was asked of that (`ScreenInv`).

### Memory monitor, keys in time

`MemoryMonitor_proofs` proves, for any amounts, thresholds and window length, from
`MemoryAssumption` (numbers, a window of more than one):

| theorem | property |
|---|---|
| `MonitorInvariance` | `Spec => []IInv` |
| `MonitorTypeCorrectness` | `TypeOK` |
| `WarningsMatchMeasurement` | `WarningsMatch` |
| `CriticalStaysInsideLow` | `CriticalInsideLow` |
| `ListenerStaysInformed` | `ListenerKnows` |
| `ThresholdsStayOrdered` | `ThresholdsOrdered` |

`WarningsMatch` speaks of the end of an evaluation only. `EvaluationInv` carries
it there: as long as no threshold changes, each place on the way knows the
outcome of the reads so far, and the places before the next measurement keep the
warnings of the last. `CriticalInsideLow` needs the place between the two
warnings, where the low one is out already; `ListenerKnows` needs that a listener
that has heard all is there. The lemmas split the next-state relation into the
setter, the calls, and the thread's reads and sends; a threshold that changes
clears `steady`, which is all the setter does to the invariant.

`KeyInput_proofs` proves, for any keys, codes, mapping, settings, times and easter eggs, from
`KeyAssumption`, `EggAssumption` (times below `Cap`, eggs that have keys) and `HistoryAssumption`:

| theorem | property |
|---|---|
| `ReportedIsIdle` | `InactiveMeansIdle` |
| `RepeatedIsHeld` | `RepeatedKeyIsHeld` |
| `EggsAreTyped` | `EggWasTyped` (an action property) |
| `TypedEggsComplete` | `EggCompletes` |
| `LongestEggIsSent` | `LongestEggWins` (an action property) |

The first follows because the deadline never counts from before the last
key (`waited <= gLastKeyEventTime`, in `IdleInv`): every call that moves one moves
the other. The second needs that inputs are not ignored while a key is timed and
undisturbed (`HeldInv`), since a release that is ignored does not end the timing.

The eggs rest on one invariant (`EggsInv`): every egg fits the keys typed since all were reset
(`Fits`). Those of its keys it has gone through are the last that were typed, with
their hold times and in its time (`Begun`); one that is satisfied was typed whole (`Done`); and
while no egg was added and every key since the reset is remembered, an egg is no less far than the
keys allow (`Exact`), which `EggCompletes` needs. The list is `Descending`: of two eggs the first is no shorter.
`compareKeySize` being no strict weak order, this is proved of the insertion
(`PlacedKeepsOrder`, `SortedEggs`), not of an order. A key typed when the history is full drops its first
(`WindowStays`, `WindowGrows`), for which `HistoryAssumption` has the history longer than any egg.

### Model-checked only

* Liveness, which needs fairness and `ENABLED`: `KilledCompositorReleased`, `Settles`,
  `KilledDisplayGoes`, `PipesAreEmptied`, `OutputFollows`, `QueriesAnswered`,
  `EndedAreForgotten`, `MonitorKeepsUp`, `GeneratedComesUp`.
* `KeyArrives`, which is about two tables of about a hundred strings each: TLC goes through
  every key, and there is no constant left to prove it for but the key maps.

Proved for every instance and for that reason checked by no run: `OneInterceptPerClient`, `DeletedUnreferenced`, `RepeatedKeyIsHeld`, `RequestsAccounted`,
`UniqueNames`, `InterceptsAreManaged`, `OnlyPermittedExtensions`, and the type invariants and inductive ones, which are parts of
the arguments.

## 5. Plan

Done: the displays and keys with their proofs, the timers, the animator, the
applications, the extension, the images and their pixels, the geometry and the other
properties of a display, the memory monitor, the IPC and the values of its calls, key codes, devices,
permissions and the start; `ZOrder` as the abstract specification of the two lists and
`BubbleKey` as a detailed one of the dispatch, both refinements proved; of the safety
properties the runs check all but those of section 4's last list.

Left: the two-threaded use of the containers of the controller (section 7), with one step
per access; `Displays` does this for the one list of the surface compositor.

## 6. Findings

* `swallowed_key`: an intercept set with `always = false` by a client that is
  not focused takes the key from the focused client and does not get it either
  (`compositorcontroller.cpp` 304), against README.md:14.
* `released_key`: the key-up queue is flushed on the release of any key (1424),
  so the focused client may be sent the release of a key that was intercepted.
* `two_ends_in_one_frame`: `animate()` erases through iterators that an earlier
  erase has moved (`animation.cpp` 160-164). With two animations over in one frame
  a third can be taken off the list half way.

Noticed, with no statement in the repository to hold them against:

*Displays and keys.* `moveBehind(c, c)` erases the display from its list (its focus,
intercepts and object live on as `lost`). `createDisplay` and `bubbleKey` move the focus
without `setFocused()` on the displays, and `createDisplay` without queueing a key-up.
`mReceivedKeyPress` is one bit for all keys, so of two keys down at once on one display only
the first release is passed on. A key that is intercepted with some modifiers and not with others stays
down on the display that its press went to when the modifiers change before its release. A key generated while another is held is the one that is
repeated until that other comes up, and inputs that are ignored between a press and its
release leave the key repeating and down (`disturbed` in `KeyInput`,
compositorcontroller.cpp 425, essosinstance.cpp 389). `compareKeySize` is no strict weak order
(eastereggs.cpp 150); with up to 16 eggs libstdc++ sorts by insertion and merely turns
eggs of one length round at every sort (`SortEggs`). An egg without keys is indexed at 0
(eastereggs.cpp 51).

*Animations.* A frame cuts size and opacity to the screen, a fast-forward does not
(animation.cpp 93-108, 177), so that an animation to a place beyond it ends in two ways.
`addAnimation` stores a name as it was spelled while `kill` stops its lower-case
form, so an animation of `"TestApp"` survives `kill("TestApp")` and holds its object
(`Animator` has `standardizeName` for this; the runs use lower-case names).
`addAnimation` reads the bounds a caller left out before it fast-forwards the
animation that is moving the display (compositorcontroller.cpp 1699), and takes the
display back (`Unspecified` in `Animator`). The client's table of `addAnimation` enters `"w"`
twice (clientmessagehandler.cpp 127), so that a width is taken for the height and `"h"` is dropped; the server reads the scales of an animation as
unsigned numbers, and the client the place in an `onAnimation` event, which
rapidjson asserts for a place left of the screen or a fraction (`Parameters` has these as the server or
the client aborted).

*Applications.* `closeApplication` leaves `mApplicationThreadStarted` set, so a second
close, or the destructor after a close and a kill, joins a joined thread and ends the
program (rdkcompositor.cpp 658); called before the pid is known it waits until the
application ends by itself. The pid is that of the first process heard of, launched or
not, and is signalled although that process may have ended (647). A display suspended
before its application started stays to be suspended although it is resumed before
the application binds (`mSuspendedBeforeStart`, 573); a suspend after the start and
before the binding is not told to the listener; a resume between the two locks of the
binding leaves the listener told that it is suspended (`raced`). `updateWaylandState` (768) chooses the
state to tell before it takes the lock: a binding that suspends the application between the two tells
SUSPENDED, and then the listener is told the ACTIVE or INACTIVE chosen before, although the application
is suspended (`overtaken`); `setVisible` shows a display whose suspend came after its test (504). A plain display
that is suspended is never resumed (`resumeApplication` wants the state Suspended, 667). The end of
the launch thread sets the state to Running. The controller's `resumeApplication` returns false when it
succeeds (compositorcontroller.cpp 1969-1988), and `launchApplication` leaves `autoDestroy`
unset. The destructor of a display may run on Westeros' thread.

*Key codes.* A key without a case in `keyCodeFromWayland` passes unchanged and may be another's code:
the apostrophe arrives as the arrow down, Num Lock as E, the key beside the left shift (102ND) as V, the keypad's
= as F6, +/- as F7 and comma as F10, the Meta keys as F14 and F15, F20 as a full stop (`Mistaken` in `KeyCodes`). The dash,
the grave accent and the colour keys arrive as nothing unless a key map has them.

*Start.* A low-memory threshold set below 100 alone leaves the critical one at 100, above it. A threshold
that is no number ends the process (`std::stod`).

*Where displays come from.* `RDKSHELL_EXTENDED_INPUT_ENABLED` puts the plugin directory before its path
twice (rdkcompositor.cpp 203, 209), so that no nested display can be created. A launched application gets the extensions of clients
without an entry, because its display is created with an empty name (compositorcontroller.cpp 1915). The extensions of
surface displays load into the compositor they share. A bind that Westeros refuses still takes the display
off the list, and a display that was killed and waits for its last frame can still be given to a client.

*Devices.* A device with neither ids nor a path takes the first entry without ids.

*Pictures.* A JPEG that is grey or whose width is no multiple of four, and a bitmap whose width is none, come
out skewed (rdkshellimage.cpp 599). A name that an image has already is never loaded again, whatever the file
holds since. The place of the cursor is computed with the height of the screen at the event; its offset is never set.

*Websocket.* A parameter that is left out is 0, a message of an unknown kind is not answered, and the
answer to `getFocused` lacks its quotes. `setOpacity`, `setScale` and `scaleToFit` answer true for a client
there is none of.

*Images.* An update of a watermark image whose data cannot be decoded returns true
(compositorcontroller.cpp 2388) and blanks the image. A splash screen asked
for again keeps the time of the first.

*Sizes.* Leaving the virtual display sends no size-change event. The rectangle around the
holes is too short when a later hole begins further left, is arithmetic on unsigned
words for holes off the screen, and is in virtual coordinates when the
display is drawn to a frame buffer. `scaleToFit` divides by a size that may be 0.

*Values.* A double passes the IPC with six significant digits (clientmessagehandler.cpp 80,
servermessagehandler.cpp 219): a scale of 1.234567 is read back as 1.23457. `getOpacity` truncates, so that opacities of 29, 57 and 58 read as one less
(compositorcontroller.cpp 1261). A string constructed into an `RdkShellData` is written through an uninitialized
pointer, a `void*` assigned to one keeps the address of the argument, and assigning a number over a string loses it. `RdkShellData` deletes its string in the destructor and has an
assignment operator but no copy constructor, so a copy of one that holds a string shares it.

*IPC.* A client that ends between a header and its payload keeps the server in its
`recv` loop, and the main loop with it (`BrokenOff` in `Ipc`, sockethandler.cpp 254);
`callMethodWithResult` takes any message for its answer, also an event or an
answer that came after an earlier timeout (`OwnResult` says what holds).

*Memory monitor.* An environment that lowers the low-memory threshold below the default
critical one is not put right (rdkshell.cpp 323-349), while `setMemoryMonitor` is. Disabling
the monitor leaves a warning that is out where it is. The interval is
truncated to an int and multiplied by 10^6 in 32 bits (rdkshell.cpp 271).

## 7. Not modelled

* `rapidjson`: third-party, and about half of the repository's lines of code. What RDKShell needs of it is in
  `Parameters`: a number reads as its text says, as an integer if the text has neither fraction nor exponent, and
  `GetUint()` and its like on another type assert.
* Westeros and Essos: external. A display that Westeros fails to create is a
  call that returns false and changes nothing; what Westeros reports comes at any time.
* The containers of the controller are used from the main loop and, inside
  `onEvent` and `onClientStatus`, from Westeros' thread, without a lock: a data race. The modules
  take each such access as atomic; `Application` has the two threads otherwise.
* Drawing: OpenGL, the PNG and JPEG decoders (libraries; `Pictures` has what they return), frame buffers and
  their shaders, tweens (floating-point curves; `Animator` has any place on the way).
* Pointer events, which `EssosInstance` passes on, and the log.
* The websocket messages that pass on to a call which `CompositorController` has (moving, focus, kill, intercepts,
  createDisplay) and the client-control extension, whose requests are `setBounds` and `setScale` (`Calls`, `Geometry`).
* Generated protocol headers and the tests.

Of the C++ code that is the project's own, without `rapidjson`, more than half is mapped; the rest is the list
above.
