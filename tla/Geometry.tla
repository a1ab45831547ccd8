------------------------------- MODULE Geometry -------------------------------
(***************************************************************************)
(* The size of one display (rdkcompositor.cpp): the size it is shown at,   *)
(* the virtual size its clients draw for if the virtual display is         *)
(* enabled, the output size Westeros has been given, which its clients     *)
(* follow, and the hole that a frame leaves for video and watermarks.      *)
(* Width and height are treated alike, so there is one dimension.          *)
(* Operators named Bug... are deliberate mistakes used to test that the    *)
(* properties can fail.                                                    *)
(***************************************************************************)
EXTENDS Integers, Sequences

CONSTANTS
    Sizes,           \* sizes a caller asks for
    gForce720,       \* every size set later is Size720
    Size720,
    HiddenSupport,   \* RDKSHELL_ENABLE_HIDDEN_SUPPORT: hidden displays are composed
    Word,            \* 2^32: sizes and places are unsigned words
    Far,             \* 20000: where the search for the leftmost hole begins
    Holes,           \* rectangles Westeros can report, [x, width]
    MaxHoles         \* bounds how many it reports in one frame

ASSUME GeometryAssumption ==
    /\ Sizes \cup {Size720} \subseteq Nat \ {0}
    /\ {gForce720, HiddenSupport} \subseteq BOOLEAN
    /\ Word \in Nat /\ Far \in Nat /\ MaxHoles \in Nat
    /\ \A size \in Sizes \cup {Size720, Far} : 2 * size < Word
    /\ \A hole \in Holes : /\ hole.x \in Int /\ hole.width \in Nat \ {0}
                           /\ hole.x + hole.width <= Far

VARIABLES
    mSize,                       \* mWidth and mHeight
    mVirtualDisplayEnabled,
    mVirtualSize,
    mFbo,                        \* the size of the frame buffer, 0 if there is none
    mVisible,
    mSizeChangeRequestPresent,
    output,                      \* Westeros' output size
    holes, hole                  \* what Westeros reported in the last frame, and what draw() made of it

geometry == <<mSize, mVirtualDisplayEnabled, mVirtualSize, mFbo, mVisible,
          mSizeChangeRequestPresent, output, holes, hole>>

NoHole == [x |-> 0, width |-> 0]

\* A virtual resolution of zero is the size the display has at the time.
VirtualSize(size) == IF size > 0 THEN size ELSE mSize

\* createDisplay: the output size is that of the display even if the virtual
\* display is enabled, which comes into effect with the first frame.
GeometryInit ==
    /\ mSize \in Sizes
    /\ mVirtualDisplayEnabled \in BOOLEAN
    /\ \E size \in Sizes \cup {0} : mVirtualSize = VirtualSize(size)
    /\ mFbo = 0
    /\ mVisible = TRUE
    /\ mSizeChangeRequestPresent = FALSE
    /\ output = mSize
    /\ holes = <<>>
    /\ hole = NoHole

-----------------------------------------------------------------------------
(* Calls.                                                                  *)

Forced(size) == IF gForce720 THEN Size720 ELSE size

\* The clients of a virtual display keep their size.
SetSize(size) ==
    /\ mSize' = Forced(size)
    /\ LET resizes == ~mVirtualDisplayEnabled /\ mSize # Forced(size)
       IN  /\ mSizeChangeRequestPresent' = (mSizeChangeRequestPresent \/ resizes)
           /\ output' = IF resizes THEN Forced(size) ELSE output
    /\ UNCHANGED <<mVirtualDisplayEnabled, mVirtualSize, mFbo, mVisible, holes, hole>>

SetVirtualResolution(size) ==
    /\ mVirtualSize' = VirtualSize(size)
    /\ UNCHANGED <<mSize, mVirtualDisplayEnabled, mFbo, mVisible,
                   mSizeChangeRequestPresent, output, holes, hole>>

EnableVirtualDisplay(enable) ==
    /\ mVirtualDisplayEnabled' = enable
    /\ UNCHANGED <<mSize, mVirtualSize, mFbo, mVisible,
                   mSizeChangeRequestPresent, output, holes, hole>>

\* of a display whose application is not suspended
SetVisible(visible) ==
    /\ mVisible' = visible
    /\ UNCHANGED <<mSize, mVirtualDisplayEnabled, mVirtualSize, mFbo,
                   mSizeChangeRequestPresent, output, holes, hole>>

\* Westeros' dispatch callback.  The event goes to the host's listener.
OnSizeChangeComplete ==
    /\ mSizeChangeRequestPresent
    /\ mSizeChangeRequestPresent' = FALSE
    /\ UNCHANGED <<mSize, mVirtualDisplayEnabled, mVirtualSize, mFbo, mVisible,
                   output, holes, hole>>

-----------------------------------------------------------------------------
(* A frame.                                                                *)

BugWiden(rect, wstRect) ==
    LET x == IF wstRect.x % Word < rect.x THEN wstRect.x % Word ELSE rect.x
    IN  [x |-> x, width |-> IF wstRect.width > rect.width THEN wstRect.width ELSE rect.width]

\* The comparisons are of unsigned words, and the width is measured from the
\* leftmost place found so far.
Widen(rect, wstRect) ==
    LET x == IF wstRect.x % Word < rect.x THEN wstRect.x % Word ELSE rect.x
        tempWidth == (wstRect.x + wstRect.width - x) % Word
    IN  [x |-> x, width |-> IF tempWidth > rect.width THEN tempWidth ELSE rect.width]

prepareHolePunchRects(rects) ==
    LET rect[n \in 0..Len(rects)] ==
            IF n = 0 THEN [x |-> Far, width |-> 0] ELSE Widen(rect[n - 1], rects[n])
    IN  rect[Len(rects)]

\* The size Westeros composes the frame at.
ComposedSize == IF mVirtualDisplayEnabled THEN mVirtualSize ELSE mSize

IsDrawn == HiddenSupport \/ mVisible

BugOutputSize == IF mVirtualDisplayEnabled THEN mVirtualSize ELSE output

\* drawFbo() and drawDirect() give Westeros the size they compose at.
OutputSize == ComposedSize

\* draw(): needsHolePunch is Westeros' answer.
DrawDisplay ==
    /\ IsDrawn
    /\ mFbo' = IF mVirtualDisplayEnabled THEN mVirtualSize ELSE mFbo
    /\ output' = OutputSize
    /\ \E n \in 0..MaxHoles : holes' \in [1..n -> Holes]
    /\ \E needsHolePunch \in BOOLEAN :
          hole' = IF needsHolePunch THEN prepareHolePunchRects(holes') ELSE NoHole
    /\ UNCHANGED <<mSize, mVirtualDisplayEnabled, mVirtualSize, mVisible,
                   mSizeChangeRequestPresent>>

GeometryNext ==
    \/ \E size \in Sizes : SetSize(size)
    \/ \E size \in Sizes \cup {0} : SetVirtualResolution(size)
    \/ \E enable \in BOOLEAN : EnableVirtualDisplay(enable)
    \/ \E visible \in BOOLEAN : SetVisible(visible)
    \/ OnSizeChangeComplete
    \/ DrawDisplay

\* run() draws every display in every iteration of the main loop.
GeometryFairness == WF_geometry(DrawDisplay)

GeometrySpec == GeometryInit /\ [][GeometryNext]_geometry /\ GeometryFairness

-----------------------------------------------------------------------------
(* Properties.                                                             *)

GeometryTypeOK ==
    /\ {mSize, mVirtualSize, output} \subseteq Sizes \cup {Size720}
    /\ mFbo \in Sizes \cup {0, Size720}
    /\ {mVirtualDisplayEnabled, mVisible, mSizeChangeRequestPresent} \subseteq BOOLEAN
    /\ holes \in Seq(Holes)
    /\ hole \in [x : Nat, width : Nat]

\* When the calls on a display that is drawn stop, Westeros and its clients
\* come to have the size it is composed at, whatever was set, enabled and
\* hidden before; the virtual size does not outlive the virtual display.
OutputFollows ==
    \A size \in Sizes \cup {Size720} :
        <>[](IsDrawn /\ ComposedSize = size) => <>[](output = size)

\* No hole begins off the screen, nor to the left of the first one.
LeftmostFirst ==
    holes # <<>> /\ \A i \in DOMAIN holes : 0 <= holes[1].x /\ holes[1].x <= holes[i].x

End(rect) == rect.x + rect.width

\* The rectangle the watermark images are drawn in is the smallest one around
\* all holes, if the leftmost comes first.  (If not, the width is measured
\* from the leftmost before it, and the rectangle ends too early.)
HoleIsAroundAll ==
    LeftmostFirst /\ hole # NoHole =>
        /\ \A i \in DOMAIN holes : hole.x <= holes[i].x /\ End(holes[i]) <= End(hole)
        /\ \E i \in DOMAIN holes : hole.x = holes[i].x
        /\ \E i \in DOMAIN holes : End(holes[i]) = End(hole)

=============================================================================
