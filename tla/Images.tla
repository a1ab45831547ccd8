-------------------------------- MODULE Images --------------------------------
(***************************************************************************)
(* What CompositorController draws over the displays: the watermark and    *)
(* its numbered images, the full-screen image, the splash screen and the   *)
(* cursor (compositorcontroller.cpp, cursor.cpp).  Every call comes on the *)
(* main loop, which also draws.  A picture is a file's or a segment's      *)
(* content; decoding one is external and may fail.  Operators named Bug... *)
(* are deliberate mistakes used to test that the properties can fail.      *)
(***************************************************************************)
EXTENDS Integers, Sequences, FiniteSets, SequencesExt

CONSTANTS
    Ids,            \* watermark image ids
    ZOrders,        \* their z-orders
    Pictures,       \* what an image file or a shared-memory segment holds
    SplashTimes,    \* seconds a splash screen is asked for; 0 is for ever
    MaxTime         \* bounds the clocks: at least every splash time and mInactivityDuration

mInactivityDuration == 1   \* seconds (5 in the code) a cursor stays after it moved

ASSUME ImagesAssumption ==
    /\ ZOrders \subseteq Nat
    /\ SplashTimes \subseteq Nat
    /\ MaxTime \in Nat
    /\ \A time \in SplashTimes : time < MaxTime
    /\ mInactivityDuration <= MaxTime

VARIABLES
    gWatermarkImages,   \* by z-order, drawn in this order
    gRdkShellWatermarkImage,
    gShowWatermarkImage,
    gAlwaysShowWatermarkImageOnTop,
    gFullScreenImage,
    gShowFullScreenImage,
    gCurrentFullScreenImage,
    splash,             \* gShowSplashImage with gSplashDisplayTimeInSeconds
    splashAge,          \* seconds() - gSplashStartTime
    mIsVisible,         \* of the cursor
    cursorAge,          \* seconds() - mLastUpdateTime
    asked               \* history: the full-screen image last shown with success

watermarkVars  == <<gWatermarkImages, gRdkShellWatermarkImage, gShowWatermarkImage,
                    gAlwaysShowWatermarkImageOnTop>>
fullScreenVars == <<gFullScreenImage, gShowFullScreenImage, gCurrentFullScreenImage, asked>>
splashVars     == <<splash, splashAge>>
cursorVars     == <<mIsVisible, cursorAge>>
imagesVars     == <<watermarkVars, fullScreenVars, splashVars, cursorVars>>

NoImage == "null"
NoTexture == "no texture"   \* an Image whose last load failed draws nothing
NoSplash == [shown |-> FALSE, time |-> 0]

WatermarkImage == [id : Ids, zorder : ZOrders, image : Pictures \cup {NoImage, NoTexture}]

Layer(kind, picture) == [kind |-> kind, picture |-> picture]

ImagesInit ==
    /\ gWatermarkImages = <<>>
    /\ gRdkShellWatermarkImage = FALSE
    /\ gShowWatermarkImage = FALSE
    /\ gAlwaysShowWatermarkImageOnTop = FALSE
    /\ gFullScreenImage = NoImage
    /\ gShowFullScreenImage = FALSE
    /\ gCurrentFullScreenImage = NoImage
    /\ splash = NoSplash
    /\ splashAge = 0
    /\ mIsVisible = FALSE
    /\ cursorAge = MaxTime
    /\ asked = NoImage

-----------------------------------------------------------------------------
(* The watermark and its images.                                           *)

Positions(id) == {i \in DOMAIN gWatermarkImages : gWatermarkImages[i].id = id}

\* In front of the first image with a larger z-order.
insertWatermarkImage(s, image) ==
    LET after == {i \in DOMAIN s : s[i].zorder > image.zorder} IN
    IF after = {} THEN Append(s, image)
    ELSE InsertAt(s, CHOOSE i \in after : \A j \in after : i <= j, image)

CreateWatermarkImage(id, zorder) ==
    /\ Positions(id) = {}
    /\ gWatermarkImages' = insertWatermarkImage(gWatermarkImages,
                             [id |-> id, zorder |-> zorder, image |-> NoImage])
    /\ UNCHANGED <<gRdkShellWatermarkImage, gShowWatermarkImage,
                   gAlwaysShowWatermarkImageOnTop>>

DeleteWatermarkImage(id) ==
    /\ \E i \in Positions(id) : gWatermarkImages' = RemoveAt(gWatermarkImages, i)
    /\ UNCHANGED <<gRdkShellWatermarkImage, gShowWatermarkImage,
                   gAlwaysShowWatermarkImageOnTop>>

AdjustWatermarkImage(id, zorder) ==
    /\ \E i \in Positions(id) :
          gWatermarkImages' =
            insertWatermarkImage(RemoveAt(gWatermarkImages, i),
                                 [gWatermarkImages[i] EXCEPT !.zorder = zorder])
    /\ UNCHANGED <<gRdkShellWatermarkImage, gShowWatermarkImage,
                   gAlwaysShowWatermarkImageOnTop>>

\* loadImageData lets go of the old texture before it decodes the new data.
UpdateWatermarkImage(id, picture) ==
    /\ \E i \in Positions(id) :
          gWatermarkImages' = [gWatermarkImages EXCEPT ![i].image = picture]
    /\ UNCHANGED <<gRdkShellWatermarkImage, gShowWatermarkImage,
                   gAlwaysShowWatermarkImageOnTop>>

\* The images stay in the list, without their content.
HideWatermark ==
    /\ gShowWatermarkImage' = FALSE
    /\ gRdkShellWatermarkImage' = FALSE
    /\ gWatermarkImages' = [i \in DOMAIN gWatermarkImages |->
                              [gWatermarkImages[i] EXCEPT !.image = NoImage]]
    /\ UNCHANGED gAlwaysShowWatermarkImageOnTop

\* The configured file is loaded if it is not, and may be missing or broken.
ShowWatermark ==
    /\ gShowWatermarkImage' = TRUE
    /\ gRdkShellWatermarkImage' \in {gRdkShellWatermarkImage, TRUE}
    /\ UNCHANGED <<gWatermarkImages, gAlwaysShowWatermarkImageOnTop>>

AlwaysShowWatermarkImageOnTop(show) ==
    /\ gAlwaysShowWatermarkImageOnTop' = show
    /\ UNCHANGED <<gWatermarkImages, gRdkShellWatermarkImage, gShowWatermarkImage>>

Watermark ==
    /\ \/ \E id \in Ids :
             \/ \E zorder \in ZOrders : \/ CreateWatermarkImage(id, zorder)
                                        \/ AdjustWatermarkImage(id, zorder)
             \/ \E picture \in Pictures \cup {NoTexture} : UpdateWatermarkImage(id, picture)
             \/ DeleteWatermarkImage(id)
       \/ HideWatermark
       \/ ShowWatermark
       \/ \E show \in BOOLEAN : AlwaysShowWatermarkImageOnTop(show)
    /\ UNCHANGED <<fullScreenVars, splashVars, cursorVars>>

-----------------------------------------------------------------------------
(* The full-screen image, kept with the name it was loaded from.           *)

HideFullScreenImage ==
    /\ gShowFullScreenImage' = FALSE
    /\ gFullScreenImage' = NoImage
    /\ asked' = NoImage
    /\ UNCHANGED gCurrentFullScreenImage

Show(file) ==
    /\ gShowFullScreenImage' = TRUE
    /\ gCurrentFullScreenImage' = file
    /\ asked' = file

BugAlreadyLoaded(file) == file = gCurrentFullScreenImage

AlreadyLoaded(file) == gFullScreenImage # NoImage /\ file = gCurrentFullScreenImage

ShowFullScreenImage(file) ==
    \/ /\ AlreadyLoaded(file)
       /\ Show(file)
       /\ UNCHANGED gFullScreenImage
    \/ /\ ~AlreadyLoaded(file)
       /\ gFullScreenImage' = file
       /\ Show(file)
    \/ \* the file does not load: the flag and the name of the old one stay
       /\ ~AlreadyLoaded(file)
       /\ gFullScreenImage' = NoImage
       /\ asked' = NoImage
       /\ UNCHANGED <<gShowFullScreenImage, gCurrentFullScreenImage>>

FullScreen ==
    /\ HideFullScreenImage \/ \E file \in Pictures : ShowFullScreenImage(file)
    /\ UNCHANGED <<watermarkVars, splashVars, cursorVars>>

-----------------------------------------------------------------------------
(* The splash screen.                                                      *)

\* A splash screen that is shown keeps its time, whatever is asked now.  A
\* file that does not load changes nothing.
ShowSplashScreen(time) ==
    /\ ~splash.shown
    /\ splash' = [shown |-> TRUE, time |-> time]
    /\ splashAge' = 0
    /\ UNCHANGED <<watermarkVars, fullScreenVars, cursorVars>>

HideSplashScreen ==
    /\ splash' = NoSplash
    /\ UNCHANGED <<watermarkVars, fullScreenVars, splashAge, cursorVars>>

-----------------------------------------------------------------------------
(* The cursor, which a configured image and a pointer make visible.        *)

ShowCursor(visible) ==
    /\ mIsVisible' = visible
    /\ UNCHANGED <<watermarkVars, fullScreenVars, splashVars, cursorAge>>

\* onPointerMotion and the pointer buttons place the cursor.
SetPosition ==
    /\ cursorAge' = 0
    /\ UNCHANGED <<watermarkVars, fullScreenVars, splashVars, mIsVisible>>

-----------------------------------------------------------------------------
(* draw(), after the displays themselves.                                  *)

Drawable(picture) == picture \notin {NoImage, NoTexture}

NoLayer == Layer("nothing", NoImage)

\* Every image is asked to draw itself; without a texture it draws nothing.
WatermarkLayers ==
    IF gShowWatermarkImage
    THEN [i \in DOMAIN gWatermarkImages |->
            IF Drawable(gWatermarkImages[i].image)
            THEN Layer("watermark", gWatermarkImages[i].id) ELSE NoLayer]
    ELSE <<>>

OneIf(condition, layer) == IF condition THEN <<layer>> ELSE <<>>

SplashIsOver == splash.time > 0 /\ splashAge > splash.time

\* What draw() puts on the screen, bottom first.  punched: a display on the
\* lower list needs a hole, and the watermark images are drawn inside it
\* (in each, if there are more) unless they are always on top.
Overlays(punched) ==
    (IF punched \/ gAlwaysShowWatermarkImageOnTop THEN WatermarkLayers ELSE <<>>)
    \o OneIf(gShowWatermarkImage /\ gRdkShellWatermarkImage, Layer("rdkshell watermark", "file"))
    \o OneIf(gShowFullScreenImage /\ gFullScreenImage # NoImage,
             Layer("full screen", gFullScreenImage))
    \o OneIf(mIsVisible /\ cursorAge < mInactivityDuration, Layer("cursor", "file"))
    \o OneIf(splash.shown /\ ~SplashIsOver, Layer("splash", "file"))

\* Drawing changes one thing: a splash screen that is over is hidden.
DrawImages ==
    /\ splash.shown /\ SplashIsOver
    /\ splash' = NoSplash
    /\ UNCHANGED <<watermarkVars, fullScreenVars, splashAge, cursorVars>>

Older(age) == IF age < MaxTime THEN age + 1 ELSE age

Tick ==
    /\ splashAge' = IF splash.shown THEN Older(splashAge) ELSE splashAge
    /\ cursorAge' = Older(cursorAge)
    /\ UNCHANGED <<watermarkVars, fullScreenVars, splash, mIsVisible>>

-----------------------------------------------------------------------------
Others ==
    \/ FullScreen
    \/ \E time \in SplashTimes : ShowSplashScreen(time)
    \/ HideSplashScreen
    \/ \E visible \in BOOLEAN : ShowCursor(visible)
    \/ SetPosition
    \/ DrawImages
    \/ Tick

ImagesNext == Watermark \/ Others

ImagesSpec == ImagesInit /\ [][ImagesNext]_imagesVars

-----------------------------------------------------------------------------
(* Properties.                                                             *)

ImagesTypeOK ==
    /\ gWatermarkImages \in Seq(WatermarkImage)
    /\ {gRdkShellWatermarkImage, gShowWatermarkImage, gAlwaysShowWatermarkImageOnTop,
        gShowFullScreenImage, mIsVisible} \subseteq BOOLEAN
    /\ {gFullScreenImage, gCurrentFullScreenImage, asked} \subseteq Pictures \cup {NoImage}
    /\ splash \in [shown : BOOLEAN, time : SplashTimes \cup {0}]
    /\ splashAge \in 0..MaxTime
    /\ cursorAge \in 0..MaxTime

Drawn(kind, punched) ==
    LET layers == Overlays(punched)
    IN  {layers[i].picture : i \in {j \in DOMAIN layers : layers[j].kind = kind}}

\* Whatever was created, adjusted, updated and deleted, every watermark image
\* is drawn once and none under an image of a smaller z-order.
WatermarksInOrder ==
    \A i, j \in DOMAIN gWatermarkImages :
        i < j => /\ gWatermarkImages[i].id # gWatermarkImages[j].id
                 /\ gWatermarkImages[i].zorder <= gWatermarkImages[j].zorder

\* The screen shows the full-screen image last shown with success, also after
\* files that did not load and after it was hidden and asked for again under
\* the name that is still remembered; none after a failure or a hide.
LastImageIsShown ==
    \A punched \in BOOLEAN : Drawn("full screen", punched) = {asked} \ {NoImage}

\* draw() puts the images over the displays that were asked for, in the order
\* that was asked for.
ImagesAreShown == WatermarksInOrder /\ LastImageIsShown

=============================================================================
