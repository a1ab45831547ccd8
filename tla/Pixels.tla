------------------------------- MODULE Pixels -------------------------------
(* The pixels of the images that draw() puts on the screen (Pictures), for   *)
(* the modules that are about other things on it as well.                    *)
EXTENDS Integers

CONSTANTS Contents, PictureSizes, ScreenHeights, ScreenWidth    \* of Pictures

VARIABLES screenHeight, file, mCursorImage, mIsLoaded, cursorBounds, pointer, picture, data

pixels == <<screenHeight, file, mCursorImage, mIsLoaded, cursorBounds, pointer, picture, data>>

Picture == INSTANCE Pictures WITH
    Sizes <- PictureSizes, Heights <- ScreenHeights, Wide <- ScreenWidth, watermark <- picture

ASSUME PixelsAssumption == Picture!PicturesAssumption

\* Every point of the screen shows the pixel it should, see Pictures.
PixelsAreShown == Picture!PixelsAreShown

=============================================================================
