------------------------------ MODULE Pictures ------------------------------
(***************************************************************************)
(* The pixels of an image (rdkshellimage.cpp) and where draw() puts them,  *)
(* for the two users that differ: the cursor, a file loaded once and drawn *)
(* at the pointer (cursor.cpp), and a watermark image, decoded again and   *)
(* again from the data of a segment and drawn over the screen or a hole.   *)
(* Decoding PNG and JPEG is external: it fails, or gives the rows.  Every  *)
(* pixel is named by its row from the top and its column.  Operators named *)
(* Bug... are deliberate mistakes used to test the property.               *)
(***************************************************************************)
EXTENDS Integers, FiniteSets, FiniteSetsExt

CONSTANTS
    Contents,    \* of files and segments: [kind, width, height, components, sound]
    Sizes,       \* the cursor is given: [width, height]
    Heights,     \* of the screen
    Wide         \* width of the screen

PicturesAssumption ==
    /\ \A c \in Contents :
          /\ c.kind \in {"png", "jpeg", "bmp"}
          /\ c.sound => /\ c.width \in Nat \ {0} /\ c.height \in Nat \ {0}
                        /\ c.components \in 1..4
    /\ Sizes \subseteq [width : Nat \ {0}, height : Nat \ {0}]
    /\ Heights \subseteq Nat \ {0}
    /\ Wide \in Nat \ {0}

VARIABLES
    screenHeight,   \* of EssosInstance's resolution
    file,           \* history: RDKSHELL_CURSOR_IMAGE, what its name says and what it holds
    mCursorImage,
    mIsLoaded,
    cursorBounds,   \* mX, mY, mWidth, mHeight of the cursor
    pointer,        \* history: where it is, on which screen
    watermark,      \* an entry's image, or NoImage
    data            \* history: what the segment held when it was last updated

picturesVars == <<screenHeight, file, mCursorImage, mIsLoaded, cursorBounds, pointer,
                  watermark, data>>

Pixel(row, column) == [row |-> row, column |-> column]

Junk == Pixel(-1, 0)       \* a pixel that is none of the picture's
Nothing == Pixel(-1, -1)   \* no pixel drawn
NoTexture == [row \in {} |-> Nothing]
NoImage == [mFileName |-> "null", mTexture |-> NoTexture]
NewImage == [mFileName |-> "", mTexture |-> NoTexture]

\* the file does not exist
Missing == [kind |-> "missing", width |-> 0, height |-> 0, components |-> 0, sound |-> FALSE]

UpTo4(n) == 4 * ((n + 3) \div 4)

-----------------------------------------------------------------------------
(* Decoding: the texture's cells, or failure.                              *)

Cells(content, Cell(_, _)) ==
    [row \in 0..(content.height - 1) |-> [column \in 0..(content.width - 1) |-> Cell(row, column)]]

\* Four bytes a pixel, whatever the file has.
loadPng(content) == Cells(content, Pixel)

\* Rows of width * components bytes without padding, which the texture reads
\* as rows of three bytes a pixel padded to four.
loadJpeg(content) ==
    LET rowStride == content.width * content.components
        At(offset) == LET row == offset \div rowStride
                          column == (offset % rowStride) \div 3
                      IN  IF row < content.height /\ content.components = 3
                             /\ (offset % rowStride) % 3 = 0
                          THEN Pixel(row, column) ELSE Junk
        Cell(row, column) == At(row * UpTo4(3 * content.width) + 3 * column)
    IN  Cells(content, Cell)

\* What a bitmap file holds at an offset: rows from the bottom, padded to four bytes.
BmpFile(content, offset) ==
    LET stride == UpTo4(3 * content.width)
        row == content.height - 1 - offset \div stride
        at == offset % stride
    IN  IF row >= 0 /\ at % 3 = 0 /\ at < 3 * content.width THEN Pixel(row, at \div 3) ELSE Junk

BugUpsideDown(content) ==
    LET Cell(row, column) == BmpFile(content, row * UpTo4(3 * content.width) + 3 * column)
    IN  Cells(content, Cell)

\* The rows of the file are taken to be padded to four pixels, and as many
\* pixels are written to the row of the picture: the next row, written
\* before, loses its first ones.
loadBmp(content) ==
    LET perRow == UpTo4(content.width)
        Start(i) == (content.height - 1 - i) * content.width
        Writers(k) == {i \in 0..(content.height - 1) : k - Start(i) \in 0..(perRow - 1)}
        Cell(row, column) ==
            LET k == row * content.width + column
                i == Max(Writers(k))
            IN  BmpFile(content, 3 * (i * perRow + k - Start(i)))
    IN  Cells(content, Cell)

Texture(format, content) ==
    CASE ~content.sound \/ content.kind # format -> NoTexture
      [] OTHER -> CASE format = "bmp" -> loadBmp(content)
                    [] format = "png" -> loadPng(content)
                    [] format = "jpeg" -> loadJpeg(content)

\* What the name says: .bmp or .BMP anywhere, else .png anywhere, else a JPEG.
\* The name an image already has is not loaded again, loaded or not.
loadLocalFile(image, name, format, content) ==
    IF image.mFileName = name THEN image
    ELSE [mFileName |-> name, mTexture |-> Texture(format, content)]

\* A PNG only; the old texture goes first.
loadImageData(image, content) == [image EXCEPT !.mTexture = Texture("png", content)]

-----------------------------------------------------------------------------
(* Drawing.  GL counts rows from the bottom of the screen, and so do the   *)
(* bounds.                                                                 *)

WholeScreen == [x |-> 0, y |-> 0, width |-> Wide, height |-> screenHeight]

\* The pixel of a texture nearest to the middle of a point of the screen.
Draw(image, bounds, x, y) ==
    LET texture == image.mTexture
        height == Cardinality(DOMAIN texture)
        width == Cardinality(DOMAIN texture[0])
        across == 2 * (x - bounds.x) + 1
        down == 2 * (bounds.y + bounds.height - y) - 1   \* texture row 0 is uppermost
    IN  IF \/ texture = NoTexture
           \/ x - bounds.x \notin 0..(bounds.width - 1)
           \/ y - bounds.y \notin 0..(bounds.height - 1)
        THEN Nothing
        ELSE texture[(down * height) \div (2 * bounds.height)]
                    [(across * width) \div (2 * bounds.width)]

\* draw(rect): glScissor counts from the bottom too, rect from the top.
DrawInside(image, rect, x, y) ==
    IF /\ x - rect.x \in 0..(rect.width - 1)
       /\ y - (screenHeight - rect.height - rect.y) \in 0..(rect.height - 1)
    THEN Draw(image, WholeScreen, x, y) ELSE Nothing

\* The offset of the cursor is never set and is 0.
DrawCursor(x, y) ==
    IF ~mIsLoaded THEN Nothing
    ELSE Draw(mCursorImage, [cursorBounds EXCEPT !.y = @ - cursorBounds.height], x, y)

-----------------------------------------------------------------------------
DefaultSize == 64

\* initialize() loads the cursor's picture and takes its size.
LoadCursor(name, format, content) ==
    LET image == loadLocalFile(NewImage, name, format, content)
        loaded == image.mTexture # NoTexture
    IN  /\ file = [format |-> format, content |-> content]
        /\ mCursorImage = image
        /\ mIsLoaded = loaded
        /\ cursorBounds = [x |-> 0, y |-> 0,
                           width |-> IF loaded THEN content.width ELSE DefaultSize,
                           height |-> IF loaded THEN content.height ELSE DefaultSize]

Init ==
    /\ screenHeight \in Heights
    /\ \E format \in {"png", "jpeg", "bmp"}, content \in Contents \cup {Missing} :
          LoadCursor("cursor", format, content)
    /\ pointer = [x |-> 0, y |-> 0, screen |-> 0]
    /\ watermark = NoImage
    /\ data = Missing

\* setPosition(), from every event of the pointer.
SetPosition(x, y) ==
    /\ cursorBounds' = [cursorBounds EXCEPT !.x = x, !.y = screenHeight - y]
    /\ pointer' = [x |-> x, y |-> y, screen |-> screenHeight]
    /\ UNCHANGED <<screenHeight, file, mCursorImage, mIsLoaded, watermark, data>>

\* setCursorSize().
SetSize(size) ==
    /\ cursorBounds' = [cursorBounds EXCEPT !.width = size.width, !.height = size.height]
    /\ UNCHANGED <<screenHeight, file, mCursorImage, mIsLoaded, pointer, watermark, data>>

SetScreenHeight(height) ==
    /\ screenHeight' = height
    /\ UNCHANGED <<file, mCursorImage, mIsLoaded, cursorBounds, pointer, watermark, data>>

\* updateWatermarkImage() and hideWatermark().
UpdateWatermark(content) ==
    /\ watermark' = loadImageData(IF watermark = NoImage THEN NewImage ELSE watermark, content)
    /\ data' = content
    /\ UNCHANGED <<screenHeight, file, mCursorImage, mIsLoaded, cursorBounds, pointer>>

HideWatermark ==
    /\ watermark' = NoImage
    /\ data' = Missing
    /\ UNCHANGED <<screenHeight, file, mCursorImage, mIsLoaded, cursorBounds, pointer>>

Next ==
    \/ \E x \in 0..(Wide - 1), y \in 0..(screenHeight - 1) : SetPosition(x, y)
    \/ \E size \in Sizes : SetSize(size)
    \/ \E height \in Heights : SetScreenHeight(height)
    \/ \E content \in Contents : UpdateWatermark(content)
    \/ HideWatermark

Spec == Init /\ [][Next]_picturesVars

-----------------------------------------------------------------------------
(* Property.                                                               *)

\* A JPEG in colour and a bitmap come out right when their rows need no padding.
Fits(content) ==
    /\ content.kind # "png" => content.width % 4 = 0
    /\ content.kind = "jpeg" => content.components = 3

\* The pixel a viewer expects at a point whose row counts from the top, of a
\* picture with its upper left corner at left, top.
Expected(format, content, left, top, width, height, x, y) ==
    IF \/ ~content.sound \/ content.kind # format
       \/ x - left \notin 0..(width - 1) \/ y - top \notin 0..(height - 1)
    THEN Nothing
    ELSE Pixel(((2 * (y - top) + 1) * content.height) \div (2 * height),
               ((2 * (x - left) + 1) * content.width) \div (2 * width))

\* Every point of the screen shows the pixel it should of the pictures drawn
\* on it: the cursor's hangs from the pointer, upright and at the size it was
\* given, until the screen changes its size; the watermark's is the one last
\* given, over the whole screen and cut to a hole where it is drawn in one;
\* and what did not decode is not shown.
PixelsAreShown ==
    \A x \in 0..(Wide - 1), y \in 0..(screenHeight - 1) :
        LET fromBottom == screenHeight - 1 - y
            hole == [x |-> 1, y |-> 0, width |-> 2, height |-> 1]
            over == Expected("png", data, 0, 0, Wide, screenHeight, x, y)
        IN  /\ (pointer.screen = screenHeight /\ (mIsLoaded => Fits(file.content))) =>
                  DrawCursor(x, fromBottom) =
                    Expected(file.format, file.content, pointer.x, pointer.y,
                             cursorBounds.width, cursorBounds.height, x, y)
            /\ Draw(watermark, WholeScreen, x, fromBottom) = over
            /\ DrawInside(watermark, hole, x, fromBottom) =
                  (IF x \in 1..2 /\ y = 0 THEN over ELSE Nothing)

=============================================================================
