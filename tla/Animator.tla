------------------------------ MODULE Animator ------------------------------
(***************************************************************************)
(* Animator (animation.cpp) with the calls of CompositorController that    *)
(* start, skip and stop animations.  Every frame of the main loop calls    *)
(* animate(), which moves each animated display towards its destination.   *)
(* A place is a size and a scale: the size stands for width, height and    *)
(* opacity, which a frame keeps within the screen, the scale for scale and *)
(* position, which it does not.  Time is counted in frames.                *)
(*                                                                         *)
(* Operators named Bug... are deliberate mistakes used to test that the    *)
(* properties can fail; no action uses them.                               *)
(***************************************************************************)
EXTENDS Integers, Sequences, SequencesExt

CONSTANTS
    Names,            \* client names as callers spell them
    standardizeName,  \* standardizeName: the lower-case form of every name
    Compositors,      \* RdkCompositor objects; bounds how many exist at once
    NoCompositor,     \* a null shared_ptr
    Targets,          \* places a caller can ask for
    Screen,           \* the largest size on the screen, and opacity 1.0
    Between,          \* the size and the scale of a display while it moves
    Unspecified,      \* a size or scale the property set does not mention
    MaxDelay,         \* bounds the delay of an animation, in frames
    MaxDuration       \* bounds its duration, in frames

Clients == {standardizeName[n] : n \in Names}

ASSUME ConstantsAssumption ==
    /\ standardizeName \in [Names -> Names]
    /\ \A c \in Clients : standardizeName[c] = c
    /\ NoCompositor \notin Compositors
    /\ Targets \subseteq [size : Int \cup {Unspecified}, scale : Int \cup {Unspecified}]
    /\ Screen \in Nat
    /\ Between \notin Int
    /\ Unspecified \notin Int
    /\ MaxDelay \in Nat
    /\ MaxDuration \in Nat

VARIABLES
    compositor,   \* for every client, the object getCompositorInfo finds
    place,        \* for every object, its size and scale
    mAnimating,   \* objects drawn with the animating hint
    animations    \* Animator::animations

vars == <<compositor, place, mAnimating, animations>>

Place == [size : Int \cup {Between}, scale : Int \cup {Between}]

Animation == [name : Names, compositor : Compositors, end : Place,
              delay : 0..MaxDelay, left : 0..MaxDuration]

TypeOK ==
    /\ compositor \in [Clients -> Compositors \cup {NoCompositor}]
    /\ place \in [Compositors -> Place]
    /\ mAnimating \subseteq Compositors
    /\ animations \in Seq(Animation)

Init ==
    /\ compositor = [c \in Clients |-> NoCompositor]
    /\ place = [o \in Compositors |-> [size |-> Screen, scale |-> 1]]
    /\ mAnimating = {}
    /\ animations = <<>>

-----------------------------------------------------------------------------
(* Displays come and go.                                                   *)

\* RdkCompositor::setScale drops a negative scale; one on the way is not.
Negative(scale) == scale # Between /\ scale < 0

\* setSize, setOpacity and setScale of a display that is at `old`.
SetTo(old, p) == [size |-> p.size, scale |-> IF Negative(p.scale) THEN old.scale ELSE p.scale]

\* What the caller does not specify is taken from the display as it is.
Asked(target, old) ==
    [size |-> IF target.size = Unspecified THEN old.size ELSE target.size,
     scale |-> IF target.scale = Unspecified THEN old.scale ELSE target.scale]

CreateDisplay(c) ==
    /\ compositor[c] = NoCompositor
    /\ \E o \in Compositors, t \in Targets :
          /\ t.size # Unspecified
          /\ \A d \in Clients : compositor[d] # o
          /\ \A i \in DOMAIN animations : animations[i].compositor # o
          /\ compositor' = [compositor EXCEPT ![c] = o]
          /\ place' = [place EXCEPT ![o] = [size |-> t.size, scale |-> 1]]
          /\ mAnimating' = mAnimating \ {o}
    /\ UNCHANGED animations

SetBounds(c, target) ==
    /\ compositor[c] # NoCompositor
    /\ place' = [place EXCEPT ![compositor[c]] = SetTo(@, Asked(target, @))]
    /\ UNCHANGED <<compositor, mAnimating, animations>>

\* The first animation registered under a name, as a set of at most one.
Named(n) == {i \in DOMAIN animations :
               animations[i].name = n /\ \A j \in 1..(i - 1) : animations[j].name # n}

BugWithout(n) == animations

\* The list once the animation of a name is erased from it.
Without(n) == IF Named(n) = {} THEN animations
              ELSE RemoveAt(animations, CHOOSE i \in Named(n) : TRUE)

NoLongerAnimating(n) == mAnimating \ {animations[i].compositor : i \in Named(n)}

\* kill() stops the animation registered under the lower-case name.
Kill(c) ==
    /\ compositor[c] # NoCompositor
    /\ compositor' = [compositor EXCEPT ![c] = NoCompositor]
    /\ animations' = Without(c)
    /\ mAnimating' = NoLongerAnimating(c)
    /\ UNCHANGED place

-----------------------------------------------------------------------------
(* Animations.                                                             *)

BugForwarded(n) == place

\* Fast-forwarding takes the display of a running animation to its end, on the
\* screen or beyond it.
Forwarded(n) ==
    [o \in Compositors |->
       IF \E i \in Named(n) : animations[i].compositor = o
         THEN SetTo(place[o], animations[CHOOSE i \in Named(n) : TRUE].end)
         ELSE place[o]]

\* CompositorController::addAnimation reads the display for what the caller does
\* not specify before Animator::addAnimation forwards the animation that is
\* replaced.  The name is stored as it was spelled.
AddAnimation(n, target, delay, duration) ==
    LET o == compositor[standardizeName[n]] IN
    /\ o # NoCompositor
    /\ animations' =
         Append(Without(n),
                [name |-> n, compositor |-> o,
                 end |-> Asked(target, place[o]),
                 delay |-> delay, left |-> duration])
    /\ place' = Forwarded(n)
    /\ mAnimating' = NoLongerAnimating(n) \cup {o}
    /\ UNCHANGED compositor

\* removeAnimation is Animator::fastForwardAnimation.
RemoveAnimation(n) ==
    /\ Named(n) # {}
    /\ animations' = Without(n)
    /\ place' = Forwarded(n)
    /\ mAnimating' = NoLongerAnimating(n)
    /\ UNCHANGED compositor

-----------------------------------------------------------------------------
(* One frame.                                                              *)

IsOver(a) == a.delay = 0 /\ a.left = 0

Over == {i \in DOMAIN animations : IsOver(animations[i])}

\* The iterators of all animations that are over are collected first and
\* erased one by one.  An erase shifts the vector under the iterators behind
\* it: they then erase the element after the one they were taken for, and the
\* one that points past the end (undefined) pops the last element, as the
\* vector of libstdc++ does.
EraseAt(s, i) == IF i \in DOMAIN s THEN RemoveAt(s, i) ELSE Front(s)

Advance(a) == IF a.delay > 0 THEN [a EXCEPT !.delay = @ - 1]
              ELSE IF a.left > 0 THEN [a EXCEPT !.left = @ - 1]
              ELSE a

\* animate() cuts what lies beyond the screen, or under zero.
OnScreen(size) ==
    IF size = Between \/ size \in 0..Screen THEN size ELSE IF size < 0 THEN 0 ELSE Screen

\* Where a frame takes the display of an animation that is no longer delayed.
Goal(a) == IF IsOver(a) THEN [a.end EXCEPT !.size = OnScreen(@)]
           ELSE [size |-> Between, scale |-> Between]

BugMove(p, a) ==
    IF a.delay > 0 \/ IsOver(a) THEN p
    ELSE [p EXCEPT ![a.compositor] = SetTo(@, Goal(a))]

Move(p, a) ==
    IF a.delay > 0 THEN p
    ELSE [p EXCEPT ![a.compositor] = SetTo(@, Goal(a))]

BugHint == mAnimating

Hint == mAnimating \ {animations[i].compositor : i \in Over}

\* The displays are moved one animation after another.
Moved ==
    LET moved[n \in 0..Len(animations)] ==
          IF n = 0 THEN place ELSE Move(moved[n - 1], animations[n])
    IN  moved[Len(animations)]

\* What is left once the collected iterators have been erased in their order.
Erased ==
    LET erased[n \in 0..Len(animations)] ==
          IF n = 0 THEN [i \in DOMAIN animations |-> Advance(animations[i])]
          ELSE IF n \in Over THEN EraseAt(erased[n - 1], n) ELSE erased[n - 1]
    IN  erased[Len(animations)]

Animate ==
    /\ animations # <<>>
    /\ place' = Moved
    /\ mAnimating' = Hint
    /\ animations' = Erased
    /\ UNCHANGED compositor

-----------------------------------------------------------------------------
Next ==
    \/ \E c \in Clients :
          \/ CreateDisplay(c)
          \/ Kill(c)
          \/ \E target \in Targets : SetBounds(c, target)
    \/ \E n \in Names :
          \/ \E target \in Targets, delay \in 0..MaxDelay,
                duration \in 0..MaxDuration : AddAnimation(n, target, delay, duration)
          \/ RemoveAnimation(n)
    \/ Animate

Spec == Init /\ [][Next]_vars

\* update() calls animate() in every iteration of the main loop.
FairSpec == Spec /\ WF_vars(Animate)

-----------------------------------------------------------------------------
(* Properties.                                                             *)

\* Every animation moves the display its client has now, so none outlives a
\* kill; it is the only one of its name, on which stopAnimation and the others
\* act; and a display has the animating hint only while one moves it.
AnimationsAreLive ==
    /\ \A i \in DOMAIN animations :
          /\ compositor[standardizeName[animations[i].name]] = animations[i].compositor
          /\ \A j \in DOMAIN animations : animations[i].name = animations[j].name => i = j
    /\ \A o \in mAnimating : \E i \in DOMAIN animations : animations[i].compositor = o

\* tests/testRdkShellCI.sh:213-236: once an animation has run its time, or was
\* removed, the bounds of the client are its destination.  An animation that
\* goes, other than by kill(), leaves its display there: with the size it was to
\* have, cut to the screen if a frame ended it, and the scale, if that is one.
EndsAtDestination ==
    [][\A i \in DOMAIN animations :
         LET a == animations[i]
             before == place[a.compositor]
             after == place'[a.compositor]
         IN  (/\ UNCHANGED compositor
              /\ \A j \in DOMAIN animations' : animations'[j].name # a.name)
               => /\ after.size = IF Animate THEN OnScreen(a.end.size) ELSE a.end.size
                  /\ after.scale = IF Negative(a.end.scale) THEN before.scale
                                   ELSE a.end.scale]_vars

\* When no more calls come, every animation ends and no display keeps the hint.
Settles == <>[][Animate]_vars => <>[](animations = <<>> /\ mAnimating = {})

=============================================================================
