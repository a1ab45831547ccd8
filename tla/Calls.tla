-------------------------------- MODULE Calls --------------------------------
(***************************************************************************)
(* What a caller sets of a display and what it reads back: the setters and *)
(* getters of CompositorController with those of RdkCompositor they call,  *)
(* and the messages of the websocket that reach some of them               *)
(* (messageHandler.cpp).  Calls and messages all come on the main loop.    *)
(* A display has its places and sizes, a scale as a fraction, an opacity   *)
(* in hundredths; what it does with a size is Geometry's.                  *)
(***************************************************************************)
EXTENDS Words, FiniteSets

CONSTANTS
    Clients,       \* displays' names, standardized
    Bounds,        \* [x, y, w, h] a caller passes
    Percents,      \* opacities a caller passes
    Scales,        \* scales a caller passes, pairs of integers for the axes
    MimeTypes,
    Applications,  \* that may be kept from audio and video
    Forced1080     \* RDKSHELL_ENABLE_FORCE_1080: the screen keeps its resolution

\* Places are integers of 32 bits.
CallsAssumption ==
    /\ Word \in Nat \ {0, 1}
    /\ \A b \in Bounds : /\ DOMAIN b = {"x", "y", "w", "h"}
                         /\ {b.w, b.h} \subseteq Nat /\ {b.x, b.y} \subseteq Int
                         /\ Signed(b.x) = b.x /\ Signed(b.y) = b.y
    /\ Percents \subseteq Nat
    /\ \A p \in Scales : {p[1], p[2]} \subseteq Int

VARIABLES
    mode,      \* which of its properties callers are about, for good
    listed,    \* the clients with a display
    shown,     \* [Clients -> the display's properties]
    wanted,    \* history: [Clients -> what the last calls that succeeded asked for]
    screen,    \* the resolution of EssosInstance
    wantedScreen,
    gAppsAVBlacklistStatus,
    blocked,   \* history: the applications that are to be blocked
    aborted    \* a message had a number RDKShell does not read

callsVars == <<mode, listed, shown, wanted, screen, wantedScreen, gAppsAVBlacklistStatus, blocked,
          aborted>>

Modes == {"layout", "state", "screen"}

Fraction(n, d) == [n |-> n, d |-> d]

NoFit == [width |-> -1, height |-> -1]

\* RdkCompositor()
Default ==
    [x |-> 0, y |-> 0, w |-> 4, h |-> 4, opacity |-> 100,
     sx |-> Fraction(1, 1), sy |-> Fraction(1, 1),
     visible |-> TRUE, suspended |-> FALSE, holePunch |-> TRUE, mimeType |-> ""]

\* fit: the size on the screen, if scaleToFit was what set it last
NothingAsked == [asked |-> Default, fit |-> NoFit]

DefaultScreen == [width |-> 1920, height |-> 1080]

CallsInit ==
    /\ mode \in Modes
    /\ listed = {}
    /\ shown = [c \in Clients |-> Default]
    /\ wanted = [c \in Clients |-> NothingAsked]
    /\ screen = DefaultScreen /\ wantedScreen = DefaultScreen
    /\ gAppsAVBlacklistStatus = [app \in {} |-> TRUE]
    /\ blocked = {}
    /\ aborted = FALSE

globals == <<screen, wantedScreen, gAppsAVBlacklistStatus, blocked>>

CreateDisplay(c) ==
    /\ c \notin listed
    /\ listed' = listed \cup {c}
    /\ shown' = [shown EXCEPT ![c] = Default]
    /\ wanted' = [wanted EXCEPT ![c] = NothingAsked]
    /\ UNCHANGED <<mode, globals, aborted>>

Kill(c) ==
    /\ c \in listed
    /\ listed' = listed \ {c}
    /\ UNCHANGED <<mode, shown, wanted, globals, aborted>>

-----------------------------------------------------------------------------
(* RdkCompositor.                                                          *)

setPosition(d, x, y) == [d EXCEPT !.x = x, !.y = y]

setSize(d, w, h) == [d EXCEPT !.w = w, !.h = h]

setOpacity(d, opacity) == [d EXCEPT !.opacity = opacity]

BugSetScale(d, sx, sy) == IF sx.n >= 0 /\ sy.n >= 0 THEN [d EXCEPT !.sx = sx, !.sy = sy] ELSE d

\* A negative scale of one axis leaves that axis as it is, and so does the
\* 0/0 of a display without a size, which is no number.
Counts(scale) == scale.n >= 0 /\ (scale.d # 0 \/ scale.n # 0)

setScale(d, sx, sy) ==
    [d EXCEPT !.sx = IF Counts(sx) THEN sx ELSE @,
              !.sy = IF Counts(sy) THEN sy ELSE @]

\* A suspended application is not made visible.
setVisible(d, visible) ==
    IF visible /\ d.suspended THEN d ELSE [d EXCEPT !.visible = visible]

-----------------------------------------------------------------------------
(* CompositorController: setters.  A call about a client without a display *)
(* changes nothing; some of them say that it succeeded all the same.       *)

Set(c, display, asked, fit) ==
    /\ c \in listed
    /\ shown' = [shown EXCEPT ![c] = display]
    /\ wanted' = [wanted EXCEPT ![c] = [asked |-> asked, fit |-> fit]]
    /\ UNCHANGED <<mode, listed, globals, aborted>>

Asked(c) == wanted[c].asked

SetBounds(c, b) ==
    Set(c, setSize(setPosition(shown[c], Signed(b.x), Signed(b.y)), b.w, b.h),
        [Asked(c) EXCEPT !.x = b.x, !.y = b.y, !.w = b.w, !.h = b.h], NoFit)

SetVisibility(c, visible) ==
    Set(c, setVisible(shown[c], visible), [Asked(c) EXCEPT !.visible = visible], wanted[c].fit)

SetOpacity(c, percent) ==
    Set(c, setOpacity(shown[c], percent), [Asked(c) EXCEPT !.opacity = percent], wanted[c].fit)

AskedScale(old, scale) == IF Counts(scale) THEN scale ELSE old

SetScale(c, sx, sy) ==
    Set(c, setScale(shown[c], sx, sy),
        [Asked(c) EXCEPT !.sx = AskedScale(@, sx), !.sy = AskedScale(@, sy)], NoFit)

SetHolePunch(c, holePunch) ==
    Set(c, [shown[c] EXCEPT !.holePunch = holePunch], [Asked(c) EXCEPT !.holePunch = holePunch],
        wanted[c].fit)

SetMimeType(c, mimeType) ==
    Set(c, [shown[c] EXCEPT !.mimeType = mimeType], [Asked(c) EXCEPT !.mimeType = mimeType],
        wanted[c].fit)

\* The scale is worked out from the size the display has.
ScaleToFit(c, b) ==
    LET sx == Fraction(b.w, shown[c].w)
        sy == Fraction(b.h, shown[c].h)
    IN  Set(c, setScale(setPosition(shown[c], b.x, b.y), sx, sy),
            [Asked(c) EXCEPT !.x = b.x, !.y = b.y, !.sx = AskedScale(@, sx),
                             !.sy = AskedScale(@, sy)],
            [width |-> b.w, height |-> b.h])

SetClientInfo(c, visible, percent, sx, sy, b) ==
    LET display == setScale(setOpacity(setVisible(shown[c], visible), percent), sx, sy)
    IN  Set(c, setSize(setPosition(display, b.x, b.y), b.w, b.h),
            [Asked(c) EXCEPT !.visible = visible, !.opacity = percent,
                             !.sx = AskedScale(@, sx), !.sy = AskedScale(@, sy),
                             !.x = b.x, !.y = b.y, !.w = b.w, !.h = b.h],
            NoFit)

\* suspendApplication() and resumeApplication(): the state is Application's.
Suspend(c) ==
    /\ ~shown[c].suspended
    /\ Set(c, [shown[c] EXCEPT !.suspended = TRUE, !.visible = FALSE],
           [Asked(c) EXCEPT !.visible = FALSE], wanted[c].fit)

Resume(c) ==
    /\ shown[c].suspended
    /\ Set(c, [shown[c] EXCEPT !.suspended = FALSE, !.visible = TRUE],
           [Asked(c) EXCEPT !.visible = TRUE], wanted[c].fit)

SetScreenResolution(width, height) ==
    /\ screen' = IF Forced1080 THEN screen ELSE [width |-> width, height |-> height]
    /\ wantedScreen' = [width |-> width, height |-> height]
    /\ UNCHANGED <<mode, listed, shown, wanted, gAppsAVBlacklistStatus, blocked, aborted>>

Status(app, block) == [a \in DOMAIN gAppsAVBlacklistStatus \cup {app} |->
                         IF a = app THEN block ELSE gAppsAVBlacklistStatus[a]]

\* The resource manager may refuse, and the caller is told.
SetAVBlocked(app, block) ==
    /\ \/ /\ gAppsAVBlacklistStatus' = Status(app, block)
          /\ blocked' = IF block THEN blocked \cup {app} ELSE blocked \ {app}
       \/ UNCHANGED <<gAppsAVBlacklistStatus, blocked>>
    /\ UNCHANGED <<mode, listed, shown, wanted, screen, wantedScreen, aborted>>

-----------------------------------------------------------------------------
(* CompositorController: getters, for a client with a display.             *)

getBounds(c) == [x |-> shown[c].x % Word, y |-> shown[c].y % Word, w |-> shown[c].w,
                 h |-> shown[c].h]

getVisibility(c) == shown[c].visible

\* n / 100.0 * 100 is a little less than these n in doubles.
Truncated == {29, 57, 58}

getOpacity(c) ==
    LET percent == shown[c].opacity
    IN  IF percent \in Truncated THEN percent - 1 ELSE IF percent > 100 THEN 100 ELSE percent

getScale(c) == <<shown[c].sx, shown[c].sy>>

getHolePunch(c) == shown[c].holePunch

getMimeType(c) == shown[c].mimeType

getScreenResolution == screen

getBlockedAVApplications ==
    {app \in DOMAIN gAppsAVBlacklistStatus : gAppsAVBlacklistStatus[app]}

-----------------------------------------------------------------------------
(* The websocket.  A parameter that is not in a message is 0, false or "", *)
(* and a number that is not unsigned fails an assertion of the parser.  A  *)
(* message of a kind there is none of is not answered.                     *)

Uint(params, name) == IF name \in DOMAIN params THEN params[name] ELSE 0

Unread(params) == \E name \in DOMAIN params : params[name] < 0

Abort ==
    /\ aborted' = TRUE
    /\ UNCHANGED <<mode, listed, shown, wanted, globals>>

setBoundsHandler(c, params) ==
    \/ Unread(params) /\ Abort
    \/ ~Unread(params) /\ SetBounds(c, [name \in {"x", "y", "w", "h"} |-> Uint(params, name)])

setOpacityHandler(c, params) == SetOpacity(c, Uint(params, "opacity"))

setVisibilityHandler(c, params) ==
    SetVisibility(c, "visible" \in DOMAIN params /\ params["visible"] = 1)

setScreenResolutionHandler(params) == SetScreenResolution(Uint(params, "w"), Uint(params, "h"))

\* The answer about a client without a display has no parameters.
Answer(c, params) == IF c \in listed THEN params ELSE [name \in {} |-> 0]

getBoundsHandler(c) == Answer(c, getBounds(c))

getVisibilityHandler(c) == Answer(c, [visible |-> getVisibility(c)])

getOpacityHandler(c) == Answer(c, [opacity |-> getOpacity(c)])

getScreenResolutionHandler == [width |-> getScreenResolution.width,
                               height |-> getScreenResolution.height]

\* The messages with some of what a call passes.
Part(b) == {[name \in names |-> b[name]] : names \in SUBSET DOMAIN b}

-----------------------------------------------------------------------------

Axes == {<<Fraction(p[1], 1), Fraction(p[2], 1)>> : p \in Scales}

Layout(c) ==
    \/ \E b \in Bounds :
          \/ SetBounds(c, b) \/ ScaleToFit(c, b)
          \/ \E params \in Part(b) : setBoundsHandler(c, params)
          \/ \E a \in Axes : SetClientInfo(c, TRUE, 100, a[1], a[2], b)
    \/ \E a \in Axes : SetScale(c, a[1], a[2])

State(c) ==
    \/ \E visible \in BOOLEAN :
          \/ SetVisibility(c, visible) \/ SetHolePunch(c, visible)
          \/ \E percent \in Percents :
                SetClientInfo(c, visible, percent, Fraction(1, 1), Fraction(1, 1), Default)
    \/ \E percent \in Percents :
          \/ SetOpacity(c, percent)
          \/ \E params \in Part([opacity |-> percent]) : setOpacityHandler(c, params)
    \/ \E params \in Part([visible |-> 1]) : setVisibilityHandler(c, params)
    \/ \E mimeType \in MimeTypes : SetMimeType(c, mimeType)
    \/ Suspend(c) \/ Resume(c)

ChangeScreen ==
    \/ \E b \in Bounds :
          \/ SetScreenResolution(b.w, b.h)
          \/ \E params \in Part([w |-> b.w, h |-> b.h]) : setScreenResolutionHandler(params)
    \/ \E app \in Applications, block \in BOOLEAN : SetAVBlocked(app, block)

CallsNext ==
    /\ ~aborted
    /\ \/ \E c \in Clients :
             \/ CreateDisplay(c) \/ Kill(c)
             \/ mode = "layout" /\ Layout(c)
             \/ mode = "state" /\ State(c)
       \/ mode = "screen" /\ ChangeScreen

CallsSpec == CallsInit /\ [][CallsNext]_callsVars

-----------------------------------------------------------------------------

Fits(size, scale, on) == on < 0 \/ size = 0 \/ size * scale.n = on * scale.d

\* Whatever of a display was asked for last, with any of the calls or messages
\* that can ask for it, is what a call or a message about it answers, nothing
\* that was asked for another display, and nothing when there is none: except
\* that an opacity over 100 reads as 100 and some read as one less, and that a
\* suspended application stays hidden until it is resumed.  A display that was
\* scaled to fit has that size on the screen.
AnswerIsLastSet ==
    /\ \A c \in listed :
          LET asked == wanted[c].asked IN
          /\ \A name \in {"x", "y"} : Signed(getBoundsHandler(c)[name]) = asked[name]
          /\ \A name \in {"w", "h"} : getBoundsHandler(c)[name] = asked[name]
          /\ LET visible == getVisibilityHandler(c).visible
             IN  visible = asked.visible \/ (shown[c].suspended /\ ~visible)
          /\ LET opacity == getOpacityHandler(c).opacity
             IN  \/ asked.opacity \in Truncated /\ opacity = asked.opacity - 1
                 \/ opacity = (IF asked.opacity > 100 THEN 100 ELSE asked.opacity)
          /\ getScale(c) = <<asked.sx, asked.sy>>
          /\ getHolePunch(c) = asked.holePunch
          /\ getMimeType(c) = asked.mimeType
          /\ Fits(shown[c].w, shown[c].sx, wanted[c].fit.width)
          /\ Fits(shown[c].h, shown[c].sy, wanted[c].fit.height)
    /\ \A c \in Clients \ listed :
          \A answer \in {getBoundsHandler(c), getVisibilityHandler(c), getOpacityHandler(c)} :
             DOMAIN answer = {}
    /\ ~Forced1080 => getScreenResolutionHandler = wantedScreen
    /\ getBlockedAVApplications = blocked

=============================================================================
