------------------------------ MODULE MCStack ------------------------------
(* What is on the screen: CompositorController with three clients and no    *)
(* keys (z-order and focus), or the images it draws over them, either the   *)
(* watermark's or the others, or the pixels of two of these, or the size of *)
(* one display and its holes.                                               *)
(* These share nothing but the draw() that renders them, so a behaviour is  *)
(* about one of them.                                                       *)
EXTENDS CompositorController, Images, Geometry, Pixels

\* on the screen, side by side, inside one another and off the screen
MCHoles == {[x |-> -1, width |-> 2], [x |-> 0, width |-> 1], [x |-> 0, width |-> 3],
            [x |-> 1, width |-> 1], [x |-> 2, width |-> 2]}

Content(kind, width, height, components, sound) ==
    [kind |-> kind, width |-> width, height |-> height, components |-> components,
     sound |-> sound]

\* pictures whose rows need padding and some that do not, grey and coloured
Decoded == {Content("png", 3, 2, 4, TRUE), Content("png", 2, 2, 3, FALSE),
            Content("jpeg", 4, 2, 3, TRUE), Content("jpeg", 3, 2, 1, TRUE),
            Content("bmp", 4, 3, 3, TRUE), Content("bmp", 1, 3, 3, TRUE)}

MCPictureSizes == {[width |-> 2, height |-> 2], [width |-> 4, height |-> 3]}

VARIABLE part   \* "displays", "watermark", "images", "pixels" or "geometry", for good

MCInit ==
    /\ Init
    /\ ImagesInit
    /\ GeometryInit
    /\ Picture!Init
    /\ part \in {"displays", "watermark", "images", "pixels", "geometry"}
    /\ part # "pixels" => screenHeight = 3 /\ file.content = Picture!Missing /\ file.format = "png"
    /\ part # "geometry" => mSize = 1 /\ mVirtualSize = 1 /\ ~mVirtualDisplayEnabled

MCNext ==
    \/ part = "displays" /\ Next /\ UNCHANGED <<imagesVars, geometry, pixels, part>>
    \/ part = "watermark" /\ Watermark /\ UNCHANGED <<vars, geometry, pixels, part>>
    \/ part = "images" /\ Others /\ UNCHANGED <<vars, geometry, pixels, part>>
    \/ part = "geometry" /\ GeometryNext /\ UNCHANGED <<vars, imagesVars, pixels, part>>
    \/ part = "pixels" /\ Picture!Next /\ UNCHANGED <<vars, imagesVars, geometry, part>>

\* The main loop draws, as in FairSpec and in Geometry, where DrawDisplay is
\* not to wait in a behaviour about something else.
MCSpec ==
    /\ MCInit /\ [][MCNext]_<<vars, imagesVars, geometry, pixels, part>>
    /\ WF_vars(Draw)
    /\ WF_geometry(part = "geometry" /\ DrawDisplay)

=============================================================================
