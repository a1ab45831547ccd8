---------------------------- MODULE Frame_proofs ----------------------------
(***************************************************************************)
(* Theorems about a frame: the places to which animate() moves the         *)
(* displays (Animator), and what draw() puts on the screen: the watermark  *)
(* images, once each and in the order of their z-orders, the full-screen   *)
(* image that was asked for last (Images), the pixels of the pictures      *)
(* (Pictures), and the hole that is left for video and watermarks          *)
(* (Geometry), for any clients, displays, places and times, any ids,       *)
(* z-orders and pictures, and any number of animations, images and holes.  *)
(***************************************************************************)
EXTENDS Images, Geometry, Pixels, MCAnimator, SequenceLemmas, FiniteSetTheorems

\* What is to be kept of a list of watermark images.
InOrder(s) ==
    \A i, j \in DOMAIN s : i < j => /\ s[i].id # s[j].id
                                    /\ s[i].zorder <= s[j].zorder

OrderInv ==
    /\ gWatermarkImages \in Seq(WatermarkImage)
    /\ InOrder(gWatermarkImages)

-----------------------------------------------------------------------------
(* The operations on the list.                                                 *)

\* Where the images are when one is put in between.
LEMMA InsertImage ==
    ASSUME NEW s \in Seq(WatermarkImage), NEW image \in WatermarkImage, NEW p \in 1..(Len(s) + 1)
    PROVE  /\ InsertAt(s, p, image) \in Seq(WatermarkImage)
           /\ Len(InsertAt(s, p, image)) = Len(s) + 1
           /\ \A i \in 1..(Len(s) + 1) :
                 InsertAt(s, p, image)[i] = IF i < p THEN s[i] ELSE IF i = p THEN image ELSE s[i - 1]
BY InsertAtElements

\* A new image goes behind all images of its z-order and in front of those of
\* larger ones, wherever they are.
LEMMA InsertInOrder ==
    ASSUME NEW s \in Seq(WatermarkImage), InOrder(s),
           NEW image \in WatermarkImage, \A i \in DOMAIN s : s[i].id # image.id
    PROVE  /\ insertWatermarkImage(s, image) \in Seq(WatermarkImage)
           /\ InOrder(insertWatermarkImage(s, image))
<1> DEFINE after == {i \in DOMAIN s : s[i].zorder > image.zorder}
           first == CHOOSE i \in after : \A j \in after : i <= j
           p == IF after = {} THEN Len(s) + 1 ELSE first
           w == insertWatermarkImage(s, image)
<1>1. DOMAIN s = 1..Len(s) /\ Len(s) \in Nat /\ \A i \in 1..Len(s) : s[i] \in WatermarkImage
    BY LenProperties, ElementOfSeq
<1>2. image.zorder \in Nat /\ \A i \in 1..Len(s) : s[i].zorder \in Nat
    BY <1>1, ImagesAssumption DEF WatermarkImage
<1>3. p \in 1..(Len(s) + 1)
    <2>1. CASE after = {}
        BY <1>1, <2>1
    <2>2. CASE after # {}
        <3>1. after \in SUBSET Nat
            BY <1>1
        <3>2. \E i \in after : \A j \in after : i <= j
            BY <2>2, <3>1, Smallest
        <3> QED BY <1>1, <2>2, <3>2
    <2> QED BY <2>1, <2>2
<1>4. /\ \A i \in 1..(p - 1) : s[i].zorder <= image.zorder
      /\ \A i \in p..Len(s) : image.zorder <= s[i].zorder
    <2>1. CASE after = {}
        BY <1>1, <1>2, <2>1
    <2>2. CASE after # {}
        <3>1. after \in SUBSET Nat
            BY <1>1
        <3>2. \E i \in after : \A j \in after : i <= j
            BY <2>2, <3>1, Smallest
        <3>3. first \in after /\ \A j \in after : first <= j
            BY <3>2
        <3>4. p = first
            BY <2>2
        <3> HIDE DEF first, p
        <3>5. \A i \in 1..(p - 1) : ~ (s[i].zorder > image.zorder)
            BY <1>1, <3>3, <3>4
        <3>6. \A i \in p..Len(s) : s[p].zorder <= s[i].zorder
            BY <1>1, <1>2, <3>3, <3>4 DEF InOrder
        <3> QED BY <1>1, <1>2, <1>3, <3>3, <3>4, <3>5, <3>6
    <2> QED BY <2>1, <2>2
<1>5. /\ w \in Seq(WatermarkImage)
      /\ Len(w) = Len(s) + 1
      /\ \A i \in 1..(Len(s) + 1) : w[i] = IF i < p THEN s[i] ELSE IF i = p THEN image ELSE s[i - 1]
    <2>1. CASE after = {}
        BY <1>1, <2>1, AppendProperties DEF insertWatermarkImage
    <2>2. CASE after # {}
        <3>1. w = InsertAt(s, p, image)
            BY <2>2 DEF insertWatermarkImage
        <3> HIDE DEF w, p, first, after
        <3>2. /\ InsertAt(s, p, image) \in Seq(WatermarkImage)
              /\ Len(InsertAt(s, p, image)) = Len(s) + 1
              /\ \A i \in 1..(Len(s) + 1) :
                    InsertAt(s, p, image)[i] =
                      IF i < p THEN s[i] ELSE IF i = p THEN image ELSE s[i - 1]
            <4>1. p \in 1..(Len(s) + 1)
                BY <1>3
            <4> HIDE <1>3
            <4> QED BY ZenonT(60), <4>1, InsertImage
        <3> QED BY <3>1, <3>2
    <2> QED BY <2>1, <2>2
<1> HIDE DEF w, p, first, after
<1>6. DOMAIN w = 1..(Len(s) + 1)
    BY <1>5, LenProperties
<1>7. InOrder(w)
    <2> SUFFICES ASSUME NEW i \in 1..(Len(s) + 1), NEW j \in 1..(Len(s) + 1), i < j
                 PROVE  w[i].id # w[j].id /\ w[i].zorder <= w[j].zorder
        BY <1>6 DEF InOrder
    <2>1. w[i] = IF i < p THEN s[i] ELSE IF i = p THEN image ELSE s[i - 1]
        BY <1>5
    <2>2. w[j] = IF j < p THEN s[j] ELSE IF j = p THEN image ELSE s[j - 1]
        BY <1>5
    <2>3. CASE i # p /\ j # p
        <3> DEFINE k == IF i < p THEN i ELSE i - 1
                   l == IF j < p THEN j ELSE j - 1
        <3>1. k \in DOMAIN s /\ l \in DOMAIN s /\ k < l
            BY <1>1, <1>3, <2>3
        <3>2. w[i] = s[k] /\ w[j] = s[l]
            BY <2>1, <2>2, <2>3
        <3> HIDE DEF k, l
        <3> QED BY <3>1, <3>2 DEF InOrder
    <2>4. CASE i = p
        BY <1>1, <1>3, <1>4, <2>1, <2>2, <2>4
    <2>5. CASE j = p
        BY <1>1, <1>3, <1>4, <2>1, <2>2, <2>5
    <2> QED BY <2>3, <2>4, <2>5
<1> QED BY <1>5, <1>7 DEF w

\* Taking an image off leaves the others in order.
LEMMA RemoveInOrder ==
    ASSUME NEW s \in Seq(WatermarkImage), InOrder(s), NEW p \in DOMAIN s
    PROVE  /\ RemoveAt(s, p) \in Seq(WatermarkImage)
           /\ InOrder(RemoveAt(s, p))
           /\ \A i \in DOMAIN RemoveAt(s, p) : RemoveAt(s, p)[i].id # s[p].id
<1> DEFINE w == RemoveAt(s, p)
<1>1. DOMAIN s = 1..Len(s) /\ Len(s) \in Nat
    BY LenProperties
<1>2. /\ w \in Seq(WatermarkImage)
      /\ Len(w) = Len(s) - 1
      /\ \A i \in 1..(Len(s) - 1) : w[i] = IF i < p THEN s[i] ELSE s[i + 1]
    BY <1>1, RemoveAtElements
<1> HIDE DEF w
<1>3. DOMAIN w = 1..(Len(s) - 1)
    BY <1>2, LenProperties
<1>4. InOrder(w)
    <2> SUFFICES ASSUME NEW i \in 1..(Len(s) - 1), NEW j \in 1..(Len(s) - 1), i < j
                 PROVE  w[i].id # w[j].id /\ w[i].zorder <= w[j].zorder
        BY <1>3 DEF InOrder
    <2> DEFINE k == IF i < p THEN i ELSE i + 1
               l == IF j < p THEN j ELSE j + 1
    <2>1. k \in DOMAIN s /\ l \in DOMAIN s /\ k < l
        BY <1>1
    <2>2. w[i] = s[k] /\ w[j] = s[l]
        BY <1>2
    <2> HIDE DEF k, l
    <2> QED BY <2>1, <2>2 DEF InOrder
<1>5. ASSUME NEW i \in DOMAIN w PROVE w[i].id # s[p].id
    <2> DEFINE k == IF i < p THEN i ELSE i + 1
    <2>1. k \in DOMAIN s /\ (k < p \/ p < k)
        BY <1>1, <1>3
    <2>2. w[i] = s[k]
        BY <1>2, <1>3
    <2> HIDE DEF k
    <2> QED BY <2>1, <2>2 DEF InOrder
<1> QED BY <1>2, <1>4, <1>5 DEF w

\* Changing the content of images leaves them where they are.
LEMMA SameOrder ==
    ASSUME OrderInv, gWatermarkImages' \in Seq(WatermarkImage),
           DOMAIN gWatermarkImages' = DOMAIN gWatermarkImages,
           \A i \in DOMAIN gWatermarkImages :
              /\ gWatermarkImages'[i].id = gWatermarkImages[i].id
              /\ gWatermarkImages'[i].zorder = gWatermarkImages[i].zorder
    PROVE  OrderInv'
BY DEF OrderInv, InOrder

-----------------------------------------------------------------------------
\* There is no image.
LEMMA InitOrder == ImagesInit => OrderInv
BY DEF ImagesInit, OrderInv, InOrder

\* Each call on the list keeps the order; the others leave the list alone.
LEMMA NextOrder == OrderInv /\ [ImagesNext]_imagesVars => OrderInv'
<1> SUFFICES ASSUME OrderInv, [ImagesNext]_imagesVars PROVE OrderInv'
    OBVIOUS
<1>0. /\ DOMAIN gWatermarkImages = 1..Len(gWatermarkImages)
      /\ Len(gWatermarkImages) \in Nat
      /\ \A i \in 1..Len(gWatermarkImages) : gWatermarkImages[i] \in WatermarkImage
    BY LenProperties, ElementOfSeq DEF OrderInv
<1>1. ASSUME NEW id \in Ids, NEW zorder \in ZOrders, CreateWatermarkImage(id, zorder)
      PROVE  OrderInv'
    <2> DEFINE image == [id |-> id, zorder |-> zorder, image |-> NoImage]
    <2>1. image \in WatermarkImage
        BY DEF WatermarkImage
    <2>2. \A i \in DOMAIN gWatermarkImages : gWatermarkImages[i].id # image.id
        BY <1>1 DEF CreateWatermarkImage, Positions
    <2>3. gWatermarkImages' = insertWatermarkImage(gWatermarkImages, image)
        BY <1>1 DEF CreateWatermarkImage
    <2> QED BY <2>1, <2>2, <2>3, InsertInOrder DEF OrderInv
<1>2. ASSUME NEW id \in Ids, DeleteWatermarkImage(id) PROVE OrderInv'
    BY <1>2, RemoveInOrder DEF DeleteWatermarkImage, Positions, OrderInv
<1>3. ASSUME NEW id \in Ids, NEW zorder \in ZOrders, AdjustWatermarkImage(id, zorder)
      PROVE  OrderInv'
    <2>1. PICK i \in Positions(id) :
             gWatermarkImages' = insertWatermarkImage(RemoveAt(gWatermarkImages, i),
                                   [gWatermarkImages[i] EXCEPT !.zorder = zorder])
        BY <1>3 DEF AdjustWatermarkImage
    <2>2. i \in DOMAIN gWatermarkImages
        BY DEF Positions
    <2> DEFINE rest == RemoveAt(gWatermarkImages, i)
               image == [gWatermarkImages[i] EXCEPT !.zorder = zorder]
    <2>3. /\ rest \in Seq(WatermarkImage) /\ InOrder(rest)
          /\ \A k \in DOMAIN rest : rest[k].id # gWatermarkImages[i].id
        BY <2>2, RemoveInOrder DEF OrderInv
    <2>4. image \in WatermarkImage /\ image.id = gWatermarkImages[i].id
        BY <1>0, <2>2 DEF WatermarkImage
    <2> HIDE DEF rest, image
    <2>5. /\ insertWatermarkImage(rest, image) \in Seq(WatermarkImage)
          /\ InOrder(insertWatermarkImage(rest, image))
        BY <2>3, <2>4, InsertInOrder
    <2> QED BY <2>1, <2>5 DEF rest, image, OrderInv
<1>4. ASSUME NEW id \in Ids, NEW loaded \in Pictures \cup {NoTexture},
             UpdateWatermarkImage(id, loaded)
      PROVE  OrderInv'
    <2>1. PICK i \in Positions(id) :
             gWatermarkImages' = [gWatermarkImages EXCEPT ![i].image = loaded]
        BY <1>4 DEF UpdateWatermarkImage
    <2>2. i \in DOMAIN gWatermarkImages
        BY DEF Positions
    <2>3. [gWatermarkImages[i] EXCEPT !.image = loaded] \in WatermarkImage
        BY <1>0, <2>2 DEF WatermarkImage
    <2>4. gWatermarkImages' \in Seq(WatermarkImage)
        BY <1>0, <2>1, <2>2, <2>3, ExceptSeq DEF OrderInv
    <2>5. \A k \in DOMAIN gWatermarkImages :
             /\ gWatermarkImages'[k].id = gWatermarkImages[k].id
             /\ gWatermarkImages'[k].zorder = gWatermarkImages[k].zorder
        BY <1>0, <2>1, <2>2 DEF WatermarkImage
    <2>6. DOMAIN gWatermarkImages' = DOMAIN gWatermarkImages
        BY <1>0, <2>1, <2>2 DEF OrderInv
    <2> QED BY <2>4, <2>5, <2>6, SameOrder
<1>5. CASE HideWatermark
    <2>1. gWatermarkImages' = [i \in 1..Len(gWatermarkImages) |->
                                 [gWatermarkImages[i] EXCEPT !.image = NoImage]]
        BY <1>0, <1>5 DEF HideWatermark
    <2>2. \A i \in 1..Len(gWatermarkImages) :
             [gWatermarkImages[i] EXCEPT !.image = NoImage] \in WatermarkImage
        BY <1>0 DEF WatermarkImage
    <2>3. gWatermarkImages' \in Seq(WatermarkImage)
        BY <1>0, <2>1, <2>2, IsASeq
    <2>4. \A k \in DOMAIN gWatermarkImages :
             /\ gWatermarkImages'[k].id = gWatermarkImages[k].id
             /\ gWatermarkImages'[k].zorder = gWatermarkImages[k].zorder
        BY <1>0, <2>1 DEF WatermarkImage
    <2>5. DOMAIN gWatermarkImages' = DOMAIN gWatermarkImages
        BY <1>0, <2>1
    <2> QED BY <2>3, <2>4, <2>5, SameOrder
<1>6. CASE UNCHANGED gWatermarkImages
    BY <1>6 DEF OrderInv, InOrder
<1>7. [ImagesNext]_imagesVars => Watermark \/ UNCHANGED gWatermarkImages
    BY DEF ImagesNext, Others, imagesVars, watermarkVars, FullScreen, ShowSplashScreen,
           HideSplashScreen, ShowCursor, SetPosition, DrawImages, Tick
<1> QED BY <1>1, <1>2, <1>3, <1>4, <1>5, <1>6, <1>7
        DEF Watermark, ShowWatermark, AlwaysShowWatermarkImageOnTop

\* Whatever is created, adjusted, updated, hidden and deleted, each watermark
\* image is in the list once, and none is drawn under one of a smaller z-order.
THEOREM WatermarksStayInOrder == ImagesSpec => []WatermarksInOrder
<1>1. OrderInv => WatermarksInOrder
    BY DEF OrderInv, InOrder, WatermarksInOrder
<1>2. OrderInv /\ [ImagesNext]_imagesVars => OrderInv'
    BY NextOrder
<1> QED BY <1>1, <1>2, InitOrder, PTL DEF ImagesSpec

-----------------------------------------------------------------------------
(* The full-screen image.                                                      *)

\* What is shown is what was asked for, and an image that is loaded is remembered
\* under its own name.
FullScreenInv ==
    /\ asked = IF gShowFullScreenImage THEN gFullScreenImage ELSE NoImage
    /\ gFullScreenImage # NoImage => gFullScreenImage = gCurrentFullScreenImage

LEMMA FullScreenKept == FullScreenInv /\ [ImagesNext]_imagesVars => FullScreenInv'
<1> SUFFICES ASSUME FullScreenInv, [ImagesNext]_imagesVars PROVE FullScreenInv'
    OBVIOUS
<1>1. CASE HideFullScreenImage
    BY <1>1 DEF HideFullScreenImage, FullScreenInv
<1>2. ASSUME NEW name \in Pictures, ShowFullScreenImage(name) PROVE FullScreenInv'
    BY <1>2 DEF ShowFullScreenImage, Show, AlreadyLoaded, FullScreenInv
<1>3. CASE UNCHANGED fullScreenVars
    BY <1>3 DEF fullScreenVars, FullScreenInv
<1>4. [ImagesNext]_imagesVars => FullScreen \/ UNCHANGED fullScreenVars
    BY DEF ImagesNext, Others, imagesVars, Watermark, ShowSplashScreen,
           HideSplashScreen, ShowCursor, SetPosition, DrawImages, Tick
<1> QED BY <1>1, <1>2, <1>3, <1>4 DEF FullScreen

Elements(s) == {s[i] : i \in DOMAIN s}

\* What is drawn by one part of draw() after another.
LEMMA ElementsOfConcat ==
    ASSUME NEW S, NEW s \in Seq(S), NEW t \in Seq(S)
    PROVE  s \o t \in Seq(S) /\ Elements(s \o t) = Elements(s) \cup Elements(t)
<1>1. /\ DOMAIN s = 1..Len(s) /\ Len(s) \in Nat
      /\ DOMAIN t = 1..Len(t) /\ Len(t) \in Nat
    BY LenProperties
<1> DEFINE w == s \o t
<1>2. /\ w \in Seq(S) /\ Len(w) = Len(s) + Len(t)
      /\ \A i \in 1..(Len(s) + Len(t)) : w[i] = IF i <= Len(s) THEN s[i] ELSE t[i - Len(s)]
    BY ConcatProperties
<1> HIDE DEF w
<1>3. DOMAIN w = 1..(Len(s) + Len(t))
    BY <1>2, LenProperties
<1>4. ASSUME NEW i \in DOMAIN w PROVE w[i] \in Elements(s) \cup Elements(t)
    <2>1. i \in Int /\ 1 <= i /\ i <= Len(s) + Len(t)
        BY <1>1, <1>3
    <2>2. CASE i <= Len(s)
        BY <1>1, <1>2, <1>3, <2>1, <2>2 DEF Elements
    <2>3. CASE ~(i <= Len(s))
        <3>1. i - Len(s) \in DOMAIN t
            BY <1>1, <2>1, <2>3
        <3>2. w[i] = t[i - Len(s)]
            BY <1>2, <1>3, <2>3
        <3> QED BY <3>1, <3>2 DEF Elements
    <2> QED BY <2>2, <2>3
<1>5. ASSUME NEW i \in DOMAIN s PROVE s[i] \in Elements(w)
    <2>1. i \in DOMAIN w /\ w[i] = s[i]
        BY <1>1, <1>2, <1>3
    <2> QED BY <2>1 DEF Elements
<1>6. ASSUME NEW i \in DOMAIN t PROVE t[i] \in Elements(w)
    <2>1. i \in Int /\ 1 <= i /\ i <= Len(t)
        BY <1>1
    <2>2. /\ Len(s) + i \in 1..(Len(s) + Len(t)) /\ ~(Len(s) + i <= Len(s))
          /\ (Len(s) + i) - Len(s) = i
        BY <1>1, <2>1
    <2>3. w[Len(s) + i] = t[i]
        BY <1>2, <2>2
    <2> QED BY <1>3, <2>2, <2>3 DEF Elements
<1> QED BY <1>2, <1>4, <1>5, <1>6 DEF w, Elements

\* What all five parts draw.
Five(a, b, c, d, e) == a \o b \o c \o d \o e

LEMMA ElementsOfFive ==
    ASSUME NEW S, NEW a \in Seq(S), NEW b \in Seq(S), NEW c \in Seq(S), NEW d \in Seq(S),
           NEW e \in Seq(S)
    PROVE  Elements(Five(a, b, c, d, e)) =
              Elements(a) \cup Elements(b) \cup Elements(c) \cup Elements(d) \cup Elements(e)
<1> DEFINE Then(s, t) == s \o t
<1>1. \A s, t \in Seq(S) :
         Then(s, t) \in Seq(S) /\ Elements(Then(s, t)) = Elements(s) \cup Elements(t)
    BY ElementsOfConcat
<1>2. Five(a, b, c, d, e) = Then(Then(Then(Then(a, b), c), d), e)
    BY DEF Five
<1> HIDE DEF Then
<1>3. Then(a, b) \in Seq(S) /\ Then(Then(a, b), c) \in Seq(S)
    BY <1>1
<1>4. Then(Then(Then(a, b), c), d) \in Seq(S)
    BY <1>1, <1>3
<1>5. Elements(Then(Then(Then(Then(a, b), c), d), e))
        = Elements(a) \cup Elements(b) \cup Elements(c) \cup Elements(d) \cup Elements(e)
    BY <1>1, <1>3, <1>4
<1> QED BY <1>2, <1>5

AllLayers ==
    [kind : {"watermark", "nothing", "rdkshell watermark", "full screen", "cursor", "splash"},
     picture : Ids \cup Pictures \cup {NoImage, "file"}]

LEMMA ElementsOfOneIf ==
    ASSUME NEW c \in BOOLEAN, NEW layer \in AllLayers
    PROVE  /\ OneIf(c, layer) \in Seq(AllLayers)
           /\ Elements(OneIf(c, layer)) = IF c THEN {layer} ELSE {}
BY DEF OneIf, Elements

LEMMA ElementsOfWatermark ==
    ASSUME OrderInv
    PROVE  /\ WatermarkLayers \in Seq(AllLayers)
           /\ \A layer \in Elements(WatermarkLayers) : layer.kind # "full screen"
<1>1. /\ DOMAIN gWatermarkImages = 1..Len(gWatermarkImages) /\ Len(gWatermarkImages) \in Nat
      /\ \A i \in 1..Len(gWatermarkImages) : gWatermarkImages[i] \in WatermarkImage
    BY LenProperties, ElementOfSeq DEF OrderInv
<1>2. CASE ~gShowWatermarkImage
    BY <1>2 DEF WatermarkLayers, Elements
<1>3. CASE gShowWatermarkImage
    <2> DEFINE E(i) == IF Drawable(gWatermarkImages[i].image)
                       THEN Layer("watermark", gWatermarkImages[i].id) ELSE NoLayer
    <2>1. ASSUME NEW i \in 1..Len(gWatermarkImages)
          PROVE  E(i) \in AllLayers /\ E(i).kind # "full screen"
        <3>1. gWatermarkImages[i].id \in Ids
            BY <1>1 DEF WatermarkImage
        <3>2. Layer("watermark", gWatermarkImages[i].id) \in AllLayers /\ NoLayer \in AllLayers
            BY <3>1 DEF AllLayers, NoLayer, Layer
        <3>3. /\ Layer("watermark", gWatermarkImages[i].id).kind = "watermark"
              /\ NoLayer.kind = "nothing"
            BY DEF Layer, NoLayer
        <3> QED BY <3>2, <3>3
    <2>2. WatermarkLayers = [i \in 1..Len(gWatermarkImages) |-> E(i)]
        BY <1>1, <1>3 DEF WatermarkLayers
    <2> HIDE DEF E
    <2>3. WatermarkLayers \in Seq(AllLayers)
        <3>1. \A i \in 1..Len(gWatermarkImages) : E(i) \in AllLayers
            BY <2>1
        <3>2. [i \in 1..Len(gWatermarkImages) |-> E(i)] \in Seq(AllLayers)
            BY <1>1, <3>1, IsASeq
        <3> QED BY <2>2, <3>2
    <2>4. \A layer \in Elements(WatermarkLayers) : layer.kind # "full screen"
        BY <2>1, <2>2 DEF Elements
    <2> QED BY <2>3, <2>4
<1> QED BY <1>2, <1>3

\* Of a file's name nothing need be known but that it is one, or none.
FullScreenName == gFullScreenImage \in Pictures \cup {NoImage}

LEMMA FullScreenNameKept == FullScreenName /\ [ImagesNext]_imagesVars => FullScreenName'
<1> SUFFICES ASSUME FullScreenName, [ImagesNext]_imagesVars PROVE FullScreenName'
    OBVIOUS
<1>1. [ImagesNext]_imagesVars => FullScreen \/ UNCHANGED fullScreenVars
    BY DEF ImagesNext, Others, imagesVars, Watermark, ShowSplashScreen,
           HideSplashScreen, ShowCursor, SetPosition, DrawImages, Tick
<1>2. CASE UNCHANGED fullScreenVars
    BY <1>2 DEF fullScreenVars, FullScreenName
<1>3. CASE FullScreen
    BY <1>3 DEF FullScreen, FullScreenName, HideFullScreenImage, ShowFullScreenImage, Show
<1> QED BY <1>1, <1>2, <1>3

\* Of all that draw() puts on the screen the full-screen image is the one asked for.
LEMMA LastImage == OrderInv /\ FullScreenInv /\ FullScreenName => LastImageIsShown
<1> SUFFICES ASSUME OrderInv, FullScreenInv, FullScreenName, NEW punched \in BOOLEAN
             PROVE  Drawn("full screen", punched) = {asked} \ {NoImage}
    BY DEF LastImageIsShown
<1> DEFINE shows == gShowFullScreenImage /\ gFullScreenImage # NoImage
           watermarks == IF punched \/ gAlwaysShowWatermarkImageOnTop THEN WatermarkLayers ELSE <<>>
           logo == OneIf(gShowWatermarkImage /\ gRdkShellWatermarkImage,
                         Layer("rdkshell watermark", "file"))
           full == OneIf(shows, Layer("full screen", gFullScreenImage))
           cursor == OneIf(mIsVisible /\ cursorAge < mInactivityDuration, Layer("cursor", "file"))
           over == OneIf(splash.shown /\ ~SplashIsOver, Layer("splash", "file"))
<1>1. Overlays(punched) = Five(watermarks, logo, full, cursor, over)
    BY DEF Overlays, Five
<1>2. /\ watermarks \in Seq(AllLayers)
      /\ \A layer \in Elements(watermarks) : layer.kind # "full screen"
    <2>1. <<>> \in Seq(AllLayers) /\ Elements(<<>>) = {}
        BY DEF Elements
    <2> QED BY <2>1, ElementsOfWatermark
<1>3. /\ Layer("rdkshell watermark", "file") \in AllLayers
      /\ Layer("full screen", gFullScreenImage) \in AllLayers
      /\ Layer("cursor", "file") \in AllLayers /\ Layer("splash", "file") \in AllLayers
    BY DEF AllLayers, FullScreenName, Layer
<1>4. /\ logo \in Seq(AllLayers) /\ \A layer \in Elements(logo) : layer.kind # "full screen"
      /\ cursor \in Seq(AllLayers) /\ \A layer \in Elements(cursor) : layer.kind # "full screen"
      /\ over \in Seq(AllLayers) /\ \A layer \in Elements(over) : layer.kind # "full screen"
    <2>1. /\ Layer("rdkshell watermark", "file").kind # "full screen"
          /\ Layer("cursor", "file").kind # "full screen"
          /\ Layer("splash", "file").kind # "full screen"
        BY DEF Layer
    <2>2. \A c \in BOOLEAN : \A layer \in AllLayers :
             /\ OneIf(c, layer) \in Seq(AllLayers)
             /\ Elements(OneIf(c, layer)) \subseteq {layer}
        BY ElementsOfOneIf
    <2>3. /\ (gShowWatermarkImage /\ gRdkShellWatermarkImage) \in BOOLEAN
          /\ (mIsVisible /\ cursorAge < mInactivityDuration) \in BOOLEAN
          /\ (splash.shown /\ ~SplashIsOver) \in BOOLEAN
        OBVIOUS
    <2> QED BY ZenonT(40), <1>3, <2>1, <2>2, <2>3
<1>5. /\ full \in Seq(AllLayers)
      /\ Elements(full) = IF shows THEN {Layer("full screen", gFullScreenImage)} ELSE {}
    BY <1>3, ElementsOfOneIf
<1> HIDE DEF watermarks, logo, full, cursor, over
<1>6. Elements(Overlays(punched)) = Elements(watermarks) \cup Elements(logo) \cup Elements(full)
                                      \cup Elements(cursor) \cup Elements(over)
    <2>1. full \in Seq(AllLayers)
        BY <1>5
    <2>2. /\ watermarks \in Seq(AllLayers) /\ logo \in Seq(AllLayers)
          /\ cursor \in Seq(AllLayers) /\ over \in Seq(AllLayers)
        BY <1>2, <1>4
    <2> QED BY <1>1, <2>1, <2>2, ElementsOfFive
<1>7. Drawn("full screen", punched) =
         {layer.picture : layer \in {e \in Elements(Overlays(punched)) : e.kind = "full screen"}}
    BY DEF Drawn, Elements
<1>8. {e \in Elements(Overlays(punched)) : e.kind = "full screen"} = Elements(full)
    <2>1. Layer("full screen", gFullScreenImage).kind = "full screen"
        BY DEF Layer
    <2>2. \A e \in Elements(full) : e.kind = "full screen"
        BY <1>5, <2>1
    <2> QED BY <1>2, <1>4, <1>6, <2>2
<1>9. Drawn("full screen", punched) = IF shows THEN {gFullScreenImage} ELSE {}
    <2>1. Layer("full screen", gFullScreenImage).picture = gFullScreenImage
        BY DEF Layer
    <2>2. Drawn("full screen", punched) = {layer.picture : layer \in Elements(full)}
        BY <1>7, <1>8
    <2> QED BY <1>5, <2>1, <2>2
<1> QED BY <1>9 DEF FullScreenInv

\* draw() puts the images over the displays that were asked for, in the order that
\* was asked for: the watermark's by their z-orders, and of the full-screen images
\* the last one that was shown with success, under whichever names images were
\* loaded, failed to load and were hidden before.
THEOREM ImagesStayShown == ImagesSpec => []ImagesAreShown
<1>1. ImagesInit => FullScreenInv /\ FullScreenName
    BY DEF ImagesInit, FullScreenInv, FullScreenName
<1>2. OrderInv => WatermarksInOrder
    BY DEF OrderInv, InOrder, WatermarksInOrder
<1>3. OrderInv /\ FullScreenInv /\ FullScreenName => ImagesAreShown
    BY <1>2, LastImage DEF ImagesAreShown
<1> QED BY <1>1, <1>3, InitOrder, NextOrder, FullScreenKept, FullScreenNameKept, PTL DEF ImagesSpec

-----------------------------------------------------------------------------
(* The hole of a frame.                                                        *)

HoleRect == [x : Nat, width : Nat]

\* The recursion of prepareHolePunchRects(), rectangle by rectangle.
LEMMA HolesOneByOne ==
    ASSUME NEW s \in Seq(Holes)
    PROVE  \E rect \in [0..Len(s) -> HoleRect] :
              /\ rect[0] = [x |-> Far, width |-> 0]
              /\ \A n \in 1..Len(s) : rect[n] = Widen(rect[n - 1], s[n])
              /\ prepareHolePunchRects(s) = rect[Len(s)]
<1> DEFINE N == Len(s)
           start == [x |-> Far, width |-> 0]
           Step(f) == [n \in 0..N |-> IF n = 0 THEN start ELSE Widen(f[n - 1], s[n])]
           rect == CHOOSE f : f = Step(f)
           G == [n \in 1..N |-> [r \in HoleRect |-> Widen(r, s[n])]]
<1>1. prepareHolePunchRects(s) = rect[N]
    BY DEF prepareHolePunchRects
<1>2. N \in Nat /\ \A n \in 1..N : s[n] \in Holes
    BY LenProperties, ElementOfSeq
<1>3. Far \in Nat /\ Word \in Nat \ {0}
    <2>1. Far \in Sizes \cup {Size720, Far}
        OBVIOUS
    <2>2. Far \in Nat /\ Word \in Nat /\ 2 * Far < Word
        BY <2>1, GeometryAssumption
    <2> QED BY <2>2
<1>4. start \in HoleRect
    BY <1>3 DEF HoleRect
<1>5. ASSUME NEW r \in HoleRect, NEW n \in 1..N PROVE Widen(r, s[n]) \in HoleRect
    <2>1. s[n].x \in Int /\ s[n].width \in Int /\ r.x \in Nat /\ r.width \in Nat
        BY <1>2, GeometryAssumption DEF HoleRect
    <2>2. s[n].x % Word \in Nat
        BY <1>3, <2>1
    <2> DEFINE x == IF s[n].x % Word < r.x THEN s[n].x % Word ELSE r.x
    <2>3. x \in Nat
        BY <2>1, <2>2
    <2> HIDE DEF x
    <2> DEFINE end == s[n].x + s[n].width - x
               width == end % Word
    <2>4. end \in Int
        BY <2>1, <2>3
    <2>5. Widen(r, s[n]) = [x |-> x, width |-> IF width > r.width THEN width ELSE r.width]
        BY Zenon DEF Widen, x
    <2> HIDE DEF end
    <2>6. width \in Nat
        BY <1>3, <2>4
    <2> HIDE DEF width
    <2> QED BY <2>1, <2>3, <2>5, <2>6 DEF HoleRect
<1>6. G \in [1..N -> [HoleRect -> HoleRect]]
    BY <1>5
<1>7. PICK f \in [0..N -> HoleRect] : f[0] = start /\ \A n \in 1..N : f[n] = G[n][f[n - 1]]
    <2>1. N \in Nat
        BY <1>2
    <2>2. G \in Steps(HoleRect, N)
        BY <1>6 DEF Steps
    <2>3. \E f : Computes(f, HoleRect, N, start, G)
        <3> HIDE DEF G, start, N
        <3> QED BY <1>4, <2>1, <2>2, RecursionExists
    <2> QED BY <2>3 DEF Computes
<1>8. \A n \in 1..N : n - 1 \in 0..N /\ G[n][f[n - 1]] = Widen(f[n - 1], s[n])
    <2> SUFFICES ASSUME NEW n \in 1..N
                 PROVE  n - 1 \in 0..N /\ G[n][f[n - 1]] = Widen(f[n - 1], s[n])
        OBVIOUS
    <2>1. n - 1 \in 0..N
        BY <1>2
    <2>2. f[n - 1] \in HoleRect
        BY <1>7, <2>1
    <2> QED BY <2>1, <2>2
<1>9. f = Step(f)
    <2>1. \A n \in 0..N : f[n] = IF n = 0 THEN start ELSE Widen(f[n - 1], s[n])
        <3> SUFFICES ASSUME NEW n \in 0..N
                     PROVE  f[n] = IF n = 0 THEN start ELSE Widen(f[n - 1], s[n])
            OBVIOUS
        <3>1. n = 0 \/ n \in 1..N
            BY <1>2
        <3> HIDE DEF G, start
        <3> QED BY <1>7, <1>8, <3>1
    <2> QED BY <1>7, <2>1
<1>10. rect = Step(rect)
    <2> HIDE DEF Step
    <2> QED BY <1>9
<1> HIDE DEF rect
<1>11. rect[0] = start /\ \A n \in 1..N : rect[n] = Widen(rect[n - 1], s[n])
    BY <1>2, <1>10
<1> DEFINE Wrong == {n \in 0..N : rect[n] \notin HoleRect}
<1>12. Wrong = {}
    <2> SUFFICES ASSUME Wrong # {} PROVE FALSE
        OBVIOUS
    <2>1. PICK n \in Wrong : \A k \in Wrong : n <= k
        <3>1. Wrong \in SUBSET Nat
            OBVIOUS
        <3> HIDE DEF Wrong
        <3> QED BY <3>1, Smallest
    <2>2. n \in 0..N /\ rect[n] \notin HoleRect
        OBVIOUS
    <2>3. n # 0
        BY <1>4, <1>11, <2>2
    <2>4. n \in 1..N /\ n - 1 \in 0..N /\ ~(n <= n - 1)
        BY <1>2, <2>2, <2>3
    <2>5. rect[n - 1] \in HoleRect
        BY <2>1, <2>4
    <2> QED BY <1>5, <1>11, <2>2, <2>4, <2>5
<1>13. rect \in [0..N -> HoleRect]
    <2>1. rect = [n \in 0..N |-> rect[n]]
        BY <1>10
    <2> QED BY <1>12, <2>1
<1> QED BY <1>1, <1>11, <1>13

\* The rectangle that widens over the holes one by one begins where the first does
\* and ends where the one that ends last does.
LEMMA HoleIsAround ==
    ASSUME NEW s \in Seq(Holes), s # <<>>,
           \A i \in DOMAIN s : 0 <= s[1].x /\ s[1].x <= s[i].x
    PROVE  LET rect == prepareHolePunchRects(s)
           IN  /\ rect.x = s[1].x
               /\ \A i \in DOMAIN s : End(s[i]) <= End(rect)
               /\ \E i \in DOMAIN s : End(s[i]) = End(rect)
<1> DEFINE N == Len(s)
<1>1. DOMAIN s = 1..N /\ N \in Nat /\ N >= 1 /\ \A n \in 1..N : s[n] \in Holes
    <2>1. DOMAIN s = 1..N /\ N \in Nat /\ \A n \in 1..N : s[n] \in Holes
        BY LenProperties, ElementOfSeq
    <2>2. N # 0
        BY EmptySeq
    <2> QED BY <2>1, <2>2
<1>2. PICK rect \in [0..N -> HoleRect] :
         /\ rect[0] = [x |-> Far, width |-> 0]
         /\ \A n \in 1..N : rect[n] = Widen(rect[n - 1], s[n])
         /\ prepareHolePunchRects(s) = rect[N]
    BY HolesOneByOne
<1> HIDE DEF N
<1>3. Far \in Nat /\ Word \in Nat /\ Far < Word
    <2>1. Far \in Sizes \cup {Size720, Far}
        OBVIOUS
    <2>2. Far \in Nat /\ Word \in Nat /\ 2 * Far < Word
        BY <2>1, GeometryAssumption
    <2> QED BY <2>2
<1>4. \A n \in 1..N : /\ s[n].x \in Nat /\ s[n].width \in Nat /\ s[n].width > 0
                      /\ s[1].x \in Nat /\ s[1].x <= s[n].x /\ s[n].x + s[n].width <= Far
    <2> SUFFICES ASSUME NEW n \in 1..N
                 PROVE  /\ s[n].x \in Nat /\ s[n].width \in Nat /\ s[n].width > 0
                        /\ s[1].x \in Nat /\ s[1].x <= s[n].x /\ s[n].x + s[n].width <= Far
        OBVIOUS
    <2>1. s[n] \in Holes /\ s[1] \in Holes
        BY <1>1
    <2>2. /\ s[n].x \in Int /\ s[1].x \in Int /\ s[n].width \in Nat \ {0}
          /\ s[n].x + s[n].width <= Far
        BY <2>1, GeometryAssumption
    <2>3. 0 <= s[1].x /\ s[1].x <= s[n].x
        BY <1>1
    <2> QED BY <2>2, <2>3
<1>5. \A k \in 0..(Word - 1) : k % Word = k
    BY <1>3, SMTT(30)
<1> DEFINE x == s[1].x
           Around(n) == /\ rect[n].x = x
                        /\ \A i \in 1..n : s[i].x + s[i].width <= x + rect[n].width
                        /\ \E i \in 1..n : s[i].x + s[i].width = x + rect[n].width
<1>6. \A n \in 0..N : rect[n].x \in Nat /\ rect[n].width \in Nat
    BY <1>2 DEF HoleRect
<1>7. x \in Nat
    BY <1>1, <1>4
<1>8. ASSUME NEW n \in 1..N, rect[n - 1].x >= x, n = 1 \/ rect[n - 1].x = x
      PROVE  /\ rect[n].x = x
             /\ rect[n].width = IF s[n].x + s[n].width - x > rect[n - 1].width
                                THEN s[n].x + s[n].width - x ELSE rect[n - 1].width
    <2>1. n - 1 \in 0..N /\ rect[n] = Widen(rect[n - 1], s[n])
        BY <1>1, <1>2
    <2>2. s[n].x % Word = s[n].x
        BY SMTT(20), <1>3, <1>4, <1>5
    <2>3. (IF s[n].x % Word < rect[n - 1].x THEN s[n].x % Word ELSE rect[n - 1].x) = x
        <3>1. CASE n = 1
            <4>1. s[n].x = x
                BY <3>1
            <4>2. rect[n - 1].x = Far
                BY <1>2, <3>1
            <4>3. x < Far
                BY <1>3, <1>4, <4>1
            <4> QED BY <2>2, <4>1, <4>2, <4>3
        <3>2. CASE n # 1
            <4>1. rect[n - 1].x = x
                BY <1>8, <3>2
            <4> QED BY <1>4, <1>7, <2>2, <4>1
        <3> QED BY <3>1, <3>2
    <2>4. (s[n].x + s[n].width - x) % Word = s[n].x + s[n].width - x
        <3>1. /\ s[n].x \in Nat /\ s[n].width \in Nat /\ s[n].width > 0
              /\ x <= s[n].x /\ s[n].x + s[n].width <= Far
            BY <1>4
        <3> HIDE DEF x
        <3>2. s[n].x + s[n].width - x \in 0..(Word - 1)
            BY SMTT(20), <1>3, <1>7, <3>1
        <3> QED BY <1>5, <3>2
    <2> QED BY <2>1, <2>3, <2>4 DEF Widen
<1> DEFINE Wrong == {n \in 1..N : ~Around(n)}
<1>9. Wrong = {}
    <2> SUFFICES ASSUME Wrong # {} PROVE FALSE
        OBVIOUS
    <2>1. PICK n \in Wrong : \A k \in Wrong : n <= k
        <3>1. Wrong \in SUBSET Nat
            BY <1>1
        <3> HIDE DEF Wrong
        <3> QED BY <3>1, Smallest
    <2>2. n \in 1..N /\ ~Around(n)
        OBVIOUS
    <2> DEFINE end(i) == s[i].x + s[i].width
    <2>3. \A i \in 1..N : end(i) \in Nat /\ end(i) > x
        BY SMTT(20), <1>4, <1>7
    <2>4. CASE n = 1
        <3>1. rect[n - 1].x = Far /\ rect[n - 1].width = 0
            BY <1>2, <2>4
        <3>2. Far >= x
            BY SMTT(20), <1>1, <1>3, <1>4
        <3>3. rect[n].x = x /\ rect[n].width = end(n) - x
            <4>1. /\ rect[n].x = x
                  /\ rect[n].width = IF end(n) - x > 0 THEN end(n) - x ELSE 0
                <5>1. rect[n - 1].x >= x
                    BY <3>1, <3>2
                <5>2. /\ rect[n].x = x
                      /\ rect[n].width = IF s[n].x + s[n].width - x > rect[n - 1].width
                                         THEN s[n].x + s[n].width - x ELSE rect[n - 1].width
                    BY <1>8, <2>2, <2>4, <5>1
                <5>3. rect[n - 1].width = 0 /\ s[n].x + s[n].width - x = end(n) - x
                    BY <1>4, <1>7, <2>2, <3>1
                <5> HIDE DEF end, x
                <5> QED BY <5>2, <5>3
            <4>2. end(n) - x > 0
                BY <1>7, <2>2, <2>3
            <4> QED BY <4>1, <4>2
        <3>4. x + rect[n].width = end(n)
            BY <1>7, <2>2, <2>3, <3>3
        <3>5. 1..n = {n} /\ end(n) <= end(n)
            BY <2>2, <2>3, <2>4
        <3> QED BY <2>2, <3>3, <3>4, <3>5
    <2>5. CASE n # 1
        <3>1. n - 1 \in 1..N /\ ~(n <= n - 1)
            BY <1>1, <2>2, <2>5
        <3>2. Around(n - 1)
            BY <2>1, <3>1
        <3> DEFINE w == rect[n - 1].width
        <3>3. w \in Nat /\ rect[n - 1].x = x /\ x >= x
            BY <1>1, <1>6, <1>7, <3>1, <3>2
        <3>4. rect[n].x = x /\ rect[n].width = IF end(n) - x > w THEN end(n) - x ELSE w
            <4>1. rect[n - 1].x >= x
                BY <1>7, <3>3
            <4>2. /\ rect[n].x = x
                  /\ rect[n].width = IF s[n].x + s[n].width - x > rect[n - 1].width
                                     THEN s[n].x + s[n].width - x ELSE rect[n - 1].width
                BY <1>8, <2>2, <3>3, <4>1
            <4>3. s[n].x + s[n].width - x = end(n) - x
                BY <1>4, <1>7, <2>2
            <4> HIDE DEF end, x
            <4> QED BY <4>2, <4>3
        <3>5. \A i \in 1..(n - 1) : end(i) <= x + w
            BY <3>2
        <3>6. PICK j \in 1..(n - 1) : end(j) = x + w
            BY <3>2
        <3>7. \A i \in 1..n : i \in 1..(n - 1) \/ i = n
            BY <2>2
        <3>8. n \in 1..n /\ j \in 1..n
            BY <2>2
        <3> HIDE DEF w
        <3>9. x + rect[n].width = IF end(n) > x + w THEN end(n) ELSE x + w
            BY <1>7, <2>2, <2>3, <3>3, <3>4
        <3>10. \A i \in 1..(n - 1) : end(i) \in Nat
            <4>1. \A i \in 1..(n - 1) : i \in 1..N
                BY <1>1, <2>2
            <4> QED BY <2>3, <4>1
        <3>13. end(n) \in Nat
            BY <2>2, <2>3
        <3> HIDE DEF end, x
        <3>11. \A i \in 1..n : end(i) <= x + rect[n].width
            <4> SUFFICES ASSUME NEW i \in 1..n PROVE end(i) <= x + rect[n].width
                OBVIOUS
            <4>1. CASE i = n
                BY <1>7, <3>3, <3>9, <3>13, <4>1
            <4>2. CASE i \in 1..(n - 1)
                <5>1. end(i) <= x + w /\ end(i) \in Nat
                    BY <3>5, <3>10, <4>2
                <5> QED BY <1>7, <3>3, <3>9, <3>13, <5>1
            <4> QED BY <3>7, <4>1, <4>2
        <3>12. \E i \in 1..n : end(i) = x + rect[n].width
            BY <3>6, <3>8, <3>9
        <3> QED BY <2>2, <3>4, <3>11, <3>12 DEF end, x
    <2> QED BY <2>4, <2>5
<1>10. Around(N)
    BY SMTT(20), <1>1, <1>9
<1> QED BY <1>1, <1>2, <1>10 DEF End

HoleInv == holes \in Seq(Holes) /\ hole \in {NoHole, prepareHolePunchRects(holes)}

\* The rectangle the watermark images are drawn in is the smallest one around all
\* the holes of the frame, for any number of them, if the leftmost comes first.
THEOREM HoleStaysAroundAll == GeometrySpec => []HoleIsAroundAll
<1>1. GeometryInit => HoleInv
    BY DEF GeometryInit, HoleInv
<1>2. HoleInv /\ [GeometryNext]_geometry => HoleInv'
    <2> SUFFICES ASSUME HoleInv, [GeometryNext]_geometry PROVE HoleInv'
        OBVIOUS
    <2>1. CASE DrawDisplay
        <3>1. PICK n \in 0..MaxHoles : holes' \in [1..n -> Holes]
            BY <2>1 DEF DrawDisplay
        <3>2. holes' \in Seq(Holes)
            <4>1. n \in Nat
                BY GeometryAssumption
            <4> QED BY <3>1, <4>1, SeqDef
        <3>3. hole' \in {NoHole, prepareHolePunchRects(holes')}
            BY <2>1 DEF DrawDisplay
        <3> QED BY <3>2, <3>3 DEF HoleInv, NoHole
    <2>2. CASE UNCHANGED <<holes, hole>>
        BY <2>2 DEF HoleInv
    <2>3. [GeometryNext]_geometry => DrawDisplay \/ UNCHANGED <<holes, hole>>
        BY DEF GeometryNext, geometry, SetSize, SetVirtualResolution, EnableVirtualDisplay, SetVisible,
               OnSizeChangeComplete
    <2> QED BY <2>1, <2>2, <2>3
<1>3. HoleInv => HoleIsAroundAll
    <2> SUFFICES ASSUME HoleInv, LeftmostFirst, hole # NoHole
                 PROVE  /\ \A i \in DOMAIN holes :
                              hole.x <= holes[i].x /\ End(holes[i]) <= End(hole)
                        /\ \E i \in DOMAIN holes : hole.x = holes[i].x
                        /\ \E i \in DOMAIN holes : End(holes[i]) = End(hole)
        BY DEF HoleIsAroundAll
    <2>1. hole = prepareHolePunchRects(holes) /\ holes \in Seq(Holes) /\ holes # <<>>
        BY DEF HoleInv, LeftmostFirst
    <2>2. \A i \in DOMAIN holes : 0 <= holes[1].x /\ holes[1].x <= holes[i].x
        BY DEF LeftmostFirst
    <2>3. /\ hole.x = holes[1].x
          /\ \A i \in DOMAIN holes : End(holes[i]) <= End(hole)
          /\ \E i \in DOMAIN holes : End(holes[i]) = End(hole)
        BY <2>1, <2>2, HoleIsAround
    <2>4. 1 \in DOMAIN holes
        BY <2>3, LenProperties, <2>1
    <2> QED BY <2>2, <2>3, <2>4
<1> QED BY <1>1, <1>2, <1>3, PTL DEF GeometrySpec

-----------------------------------------------------------------------------
(* Animations.                                                                 *)

\* What the runs take for granted of the names.
LowerCase == \A n \in Names : standardizeName[n] = n

\* The displays of the clients are different objects.
OneEach ==
    \A c, d \in Clients : compositor[c] = compositor[d] /\ compositor[c] # NoCompositor => c = d

\* A list in which no name comes twice, each with the display of its client.
LiveList(displays, list) ==
    /\ \A i \in DOMAIN list : displays[list[i].name] = list[i].compositor
    /\ \A i, j \in DOMAIN list : list[i].name = list[j].name => i = j

\* A display is only drawn with the hint while an animation moves it.
HintInv == \A o \in mAnimating : \E i \in DOMAIN animations : animations[i].compositor = o

\* All of it, with no two animations that end in one frame.
AnimatorInv ==
    /\ TypeOK
    /\ OneEach
    /\ LiveList(compositor, animations)
    /\ HintInv
    /\ EndsDiffer

LEMMA ClientsAreNames ==
    ASSUME LowerCase
    PROVE  Clients = Names
BY DEF LowerCase, Clients

LEMMA LiveIsLive ==
    ASSUME LowerCase, TypeOK
    PROVE  AnimationsAreLive <=> LiveList(compositor, animations) /\ HintInv
<1>1. \A i \in DOMAIN animations : animations[i] \in Animation
    BY ElementOfSeq, LenProperties DEF TypeOK
<1>2. \A i \in DOMAIN animations : standardizeName[animations[i].name] = animations[i].name
    BY <1>1 DEF LowerCase, Animation
<1> QED BY <1>2 DEF AnimationsAreLive, LiveList, HintInv

\* What a call or a frame makes of a place is a place.
LEMMA SetToPlace ==
    ASSUME NEW old \in Place, NEW p \in Place
    PROVE  SetTo(old, p) \in Place
BY DEF SetTo, Place

LEMMA AskedPlace ==
    ASSUME NEW old \in Place, NEW target \in Targets
    PROVE  Asked(target, old) \in Place
<1>1. target.size \in Int \cup {Unspecified} /\ target.scale \in Int \cup {Unspecified}
    BY ConstantsAssumption
<1> QED BY <1>1 DEF Asked, Place

LEMMA GoalIsPlace ==
    ASSUME NEW a \in Animation
    PROVE  Goal(a) \in Place
<1>1. a.end \in Place
    BY DEF Animation
<1>2. [a.end EXCEPT !.size = OnScreen(@)] \in Place
    <2>1. a.end.size \in Int \cup {Between} /\ a.end.scale \in Int \cup {Between}
        BY <1>1 DEF Place
    <2>2. OnScreen(a.end.size) \in Int \cup {Between}
        BY <2>1, ConstantsAssumption DEF OnScreen
    <2>3. [a.end EXCEPT !.size = OnScreen(@)]
            = [size |-> OnScreen(a.end.size), scale |-> a.end.scale]
        BY <1>1 DEF Place
    <2> QED BY <2>1, <2>2, <2>3 DEF Place
<1>3. [size |-> Between, scale |-> Between] \in Place
    BY DEF Place
<1> QED BY <1>2, <1>3 DEF Goal

\* The places of a list and what is there.
LEMMA ListPlaces ==
    ASSUME TypeOK
    PROVE  /\ DOMAIN animations = 1..Len(animations) /\ Len(animations) \in Nat
           /\ \A i \in DOMAIN animations :
                 /\ animations[i] \in Animation
                 /\ animations[i].name \in Names /\ animations[i].compositor \in Compositors
                 /\ animations[i].end \in Place
                 /\ animations[i].delay \in 0..MaxDelay /\ animations[i].left \in 0..MaxDuration
<1>1. /\ DOMAIN animations = 1..Len(animations) /\ Len(animations) \in Nat
      /\ \A i \in DOMAIN animations : animations[i] \in Animation
    BY ElementOfSeq, LenProperties DEF TypeOK
<1> QED BY <1>1 DEF Animation

\* Two animations move two displays.
LEMMA OneDisplayEach ==
    ASSUME AnimatorInv, LowerCase, NEW i \in DOMAIN animations, NEW j \in DOMAIN animations,
           animations[i].compositor = animations[j].compositor
    PROVE  i = j
<1>1. /\ animations[i].name \in Clients /\ animations[j].name \in Clients
      /\ animations[i].compositor \in Compositors
    BY ListPlaces, ClientsAreNames DEF AnimatorInv
<1>2. /\ compositor[animations[i].name] = animations[i].compositor
      /\ compositor[animations[j].name] = animations[j].compositor
    BY DEF AnimatorInv, LiveList
<1>3. animations[i].compositor # NoCompositor
    BY <1>1, ConstantsAssumption
<1>4. animations[i].name = animations[j].name
    BY <1>1, <1>2, <1>3 DEF AnimatorInv, OneEach
<1> QED BY <1>4 DEF AnimatorInv, LiveList

\* A name that is found has one animation, the one found.
LEMMA NamedIsTheOne ==
    ASSUME AnimatorInv, NEW n \in Names
    PROVE  Named(n) = {i \in DOMAIN animations : animations[i].name = n}
<1>1. DOMAIN animations = 1..Len(animations) /\ Len(animations) \in Nat
    BY ListPlaces DEF AnimatorInv
<1>2. ASSUME NEW i \in DOMAIN animations, animations[i].name = n, NEW j \in 1..(i - 1)
      PROVE  animations[j].name # n
    <2>1. j \in DOMAIN animations /\ j # i
        BY <1>1
    <2> QED BY <1>2, <2>1 DEF AnimatorInv, LiveList
<1> QED BY <1>2 DEF Named

\* What is left, and what was done, when the animation of a name goes.
LEMMA WithoutEffect ==
    ASSUME AnimatorInv, LowerCase, NEW n \in Names
    PROVE  /\ Without(n) \in Seq(Animation)
           /\ LiveList(compositor, Without(n))
           /\ \A i \in DOMAIN Without(n) : Without(n)[i].name # n
           /\ \A j \in DOMAIN animations : animations[j].name # n =>
                \E i \in DOMAIN Without(n) : Without(n)[i] = animations[j]
           /\ \A o \in NoLongerAnimating(n) :
                o \in mAnimating /\ \E i \in DOMAIN Without(n) : Without(n)[i].compositor = o
           /\ Forwarded(n) \in [Compositors -> Place]
           /\ \A j \in DOMAIN animations : animations[j].name = n =>
                Forwarded(n)[animations[j].compositor] =
                  SetTo(place[animations[j].compositor], animations[j].end)
<1> DEFINE w == Without(n)
<1>0. TypeOK /\ LiveList(compositor, animations) /\ HintInv
    BY DEF AnimatorInv
<1>1. animations \in Seq(Animation)
    BY <1>0 DEF TypeOK
<1>2. Named(n) = {i \in DOMAIN animations : animations[i].name = n}
    BY NamedIsTheOne
<1>3. \A i, j \in DOMAIN animations : animations[i].name = animations[j].name => i = j
    BY <1>0 DEF LiveList
<1>4. /\ w \in Seq(Animation)
      /\ LiveList(compositor, w)
      /\ \A i \in DOMAIN w : w[i].name # n
      /\ \A j \in DOMAIN animations : animations[j].name # n => \E i \in DOMAIN w : w[i] = animations[j]
    <2>1. CASE Named(n) = {}
        <3>1. w = animations
            BY <2>1 DEF Without
        <3>2. \A i \in DOMAIN animations : animations[i].name # n
            BY <1>2, <2>1
        <3> HIDE DEF w
        <3> QED BY <1>0, <1>1, <3>1, <3>2
    <2>2. CASE Named(n) # {}
        <3> DEFINE k == CHOOSE i \in Named(n) : TRUE
        <3>1. k \in Named(n) /\ w = RemoveAt(animations, k)
            BY <2>2 DEF Without
        <3> HIDE DEF k, w
        <3>2. k \in DOMAIN animations /\ animations[k].name = n
            BY <1>2, <3>1
        <3>3. /\ w \in Seq(Animation)
              /\ \A i \in DOMAIN w : \E j \in DOMAIN animations : j # k /\ w[i] = animations[j]
              /\ \A i, l \in DOMAIN w : i # l =>
                    \E j, m \in DOMAIN animations :
                       j # m /\ w[i] = animations[j] /\ w[l] = animations[m]
              /\ \A j \in DOMAIN animations : j # k => \E i \in DOMAIN w : w[i] = animations[j]
            BY <1>1, <3>1, <3>2, Remaining
        <3>4. \A i \in DOMAIN w : w[i].name # n
            BY <1>3, <3>2, <3>3
        <3>5. \A i \in DOMAIN w : compositor[w[i].name] = w[i].compositor
            BY <1>0, <3>3 DEF LiveList
        <3>6. \A i, l \in DOMAIN w : w[i].name = w[l].name => i = l
            BY <1>3, <3>3
        <3> QED BY <3>2, <3>3, <3>4, <3>5, <3>6 DEF LiveList
    <2> QED BY <2>1, <2>2
<1> HIDE DEF w
<1>5. ASSUME NEW o \in NoLongerAnimating(n)
      PROVE  o \in mAnimating /\ \E i \in DOMAIN w : w[i].compositor = o
    <2>1. o \in mAnimating /\ \A i \in Named(n) : animations[i].compositor # o
        BY DEF NoLongerAnimating
    <2>2. PICK j \in DOMAIN animations : animations[j].compositor = o
        BY <1>0, <2>1 DEF HintInv
    <2>3. animations[j].name # n
        BY <1>2, <2>1, <2>2
    <2> QED BY <1>4, <2>1, <2>2, <2>3
<1>6. \A i \in Named(n) : (CHOOSE j \in Named(n) : TRUE) = i
    BY <1>2, <1>3
<1>7. Forwarded(n) \in [Compositors -> Place]
    <2> SUFFICES ASSUME NEW o \in Compositors
                 PROVE  (IF \E i \in Named(n) : animations[i].compositor = o
                           THEN SetTo(place[o], animations[CHOOSE i \in Named(n) : TRUE].end)
                           ELSE place[o]) \in Place
        BY DEF Forwarded
    <2>1. place[o] \in Place
        BY <1>0 DEF TypeOK
    <2>2. \A i \in Named(n) : SetTo(place[o], animations[i].end) \in Place
        BY <1>0, <1>2, <2>1, ListPlaces, SetToPlace
    <2> QED BY <1>6, <2>1, <2>2
<1>8. ASSUME NEW j \in DOMAIN animations, animations[j].name = n
      PROVE  Forwarded(n)[animations[j].compositor] =
               SetTo(place[animations[j].compositor], animations[j].end)
    <2>1. j \in Named(n) /\ animations[j].compositor \in Compositors
        BY <1>0, <1>2, <1>8, ListPlaces
    <2> QED BY <1>6, <2>1 DEF Forwarded
<1> QED BY <1>4, <1>5, <1>7, <1>8 DEF w

\* Where the displays are once all animations have been gone through: each display has
\* one animation, so no later one takes it from where the first has put it.
LEMMA MovedEffect ==
    ASSUME AnimatorInv, LowerCase
    PROVE  /\ Moved \in [Compositors -> Place]
           /\ \A k \in Over : LET o == animations[k].compositor
                            IN  Moved[o] = SetTo(place[o], Goal(animations[k]))
<1> DEFINE N == Len(animations)
           Movers(o, n) == {i \in 1..n : animations[i].compositor = o /\ animations[i].delay = 0}
           At(o, n) == IF Movers(o, n) = {} THEN place[o]
                       ELSE SetTo(place[o], Goal(animations[CHOOSE i \in Movers(o, n) : TRUE]))
           g == [n \in 0..N |-> [o \in Compositors |-> At(o, n)]]
           Step(f) == [n \in 0..N |-> IF n = 0 THEN place ELSE Move(f[n - 1], animations[n])]
           f == CHOOSE f : f = Step(f)
<1>1. Moved = f[N]
    BY DEF Moved
<1>2. /\ TypeOK /\ N \in Nat /\ DOMAIN animations = 1..N
      /\ \A n \in 1..N : /\ animations[n].compositor \in Compositors
                         /\ Goal(animations[n]) \in Place
                         /\ animations[n].delay \in Nat
    BY ListPlaces, GoalIsPlace DEF AnimatorInv
<1>3. \A i, j \in 1..N : animations[i].compositor = animations[j].compositor => i = j
    BY <1>2, OneDisplayEach
<1> HIDE DEF N
<1>4. ASSUME NEW k \in 1..N, NEW n \in k..N, animations[k].delay = 0
      PROVE  LET o == animations[k].compositor
             IN  At(o, n) = SetTo(place[o], Goal(animations[k]))
    <2> DEFINE o == animations[k].compositor
    <2>1. Movers(o, n) = {k}
        BY <1>2, <1>3, <1>4
    <2>2. (CHOOSE i \in Movers(o, n) : TRUE) = k
        BY <2>1
    <2> HIDE DEF Movers
    <2> QED BY <2>1, <2>2
<1>5. ASSUME NEW n \in 1..N, NEW o \in Compositors,
             animations[n].compositor # o \/ animations[n].delay # 0
      PROVE  At(o, n) = At(o, n - 1)
    <2>1. Movers(o, n) = Movers(o, n - 1)
        BY <1>2, <1>5
    <2> HIDE DEF Movers
    <2> QED BY <2>1
<1>5a. ASSUME NEW n \in 1..N
      PROVE  At(animations[n].compositor, n - 1) = place[animations[n].compositor]
    <2>1. Movers(animations[n].compositor, n - 1) = {}
        BY <1>2, <1>3
    <2> HIDE DEF Movers
    <2> QED BY <2>1
<1>6. ASSUME NEW o \in Compositors, NEW n \in 0..N PROVE At(o, n) \in Place
    <2>1. place[o] \in Place
        BY <1>2 DEF TypeOK
    <2>2. CASE Movers(o, n) = {}
        BY <2>1, <2>2
    <2>3. CASE Movers(o, n) # {}
        <3> DEFINE k == CHOOSE i \in Movers(o, n) : TRUE
        <3>1. k \in Movers(o, n)
            BY <2>3
        <3> HIDE DEF k
        <3>2. k \in 1..N /\ Goal(animations[k]) \in Place
            BY <1>2, <3>1
        <3>3. At(o, n) = SetTo(place[o], Goal(animations[k]))
            BY <2>3 DEF k
        <3>4. SetTo(place[o], Goal(animations[k])) \in Place
            BY <2>1, <3>2, SetToPlace
        <3> QED BY <3>3, <3>4
    <2> QED BY <2>2, <2>3
<1>7. g[0] = place
    <2>1. place = [o \in Compositors |-> place[o]]
        BY <1>2 DEF TypeOK
    <2>2. \A o \in Compositors : At(o, 0) = place[o]
        <3>1. \A o : Movers(o, 0) = {}
            OBVIOUS
        <3> QED BY <3>1
    <2>3. 0 \in 0..N
        BY <1>2
    <2> HIDE DEF At
    <2> QED BY <2>1, <2>2, <2>3
<1>8. ASSUME NEW n \in 1..N PROVE g[n] = Move(g[n - 1], animations[n])
    <2> DEFINE a == animations[n]
    <2>1. n - 1 \in 0..N /\ n \in 0..N /\ n \in n..N /\ a.compositor \in Compositors /\ a.delay \in Nat
        BY <1>2
    <2>2. /\ g[n - 1] = [o \in Compositors |-> At(o, n - 1)]
          /\ g[n] = [o \in Compositors |-> At(o, n)]
        <3> HIDE DEF At
        <3> QED BY <2>1
    <2>3. CASE a.delay > 0
        <3>1. \A o \in Compositors : At(o, n) = At(o, n - 1)
            <4> HIDE DEF At
            <4> QED BY <1>5, <2>1, <2>3
        <3> HIDE DEF At, g
        <3> QED BY <2>2, <2>3, <3>1 DEF Move
    <2>4. CASE ~(a.delay > 0)
        <3>1. a.delay = 0
            BY <2>1, <2>4
        <3>2. At(a.compositor, n) = SetTo(place[a.compositor], Goal(a))
            <4> HIDE DEF At
            <4> QED BY <1>4, <2>1, <3>1
        <3>3. \A o \in Compositors : o # a.compositor => At(o, n) = At(o, n - 1)
            <4> HIDE DEF At
            <4> QED BY <1>5
        <3>4. Move(g[n - 1], a)
                = [g[n - 1] EXCEPT ![a.compositor] = SetTo(g[n - 1][a.compositor], Goal(a))]
            <4> HIDE DEF g
            <4> QED BY <2>4 DEF Move
        <3>4a. g[n - 1][a.compositor] = place[a.compositor]
            <4>1. At(a.compositor, n - 1) = place[a.compositor]
                <5> HIDE DEF At
                <5> QED BY <1>5a
            <4> HIDE DEF At, g, a
            <4> QED BY <2>1, <2>2, <4>1
        <3> HIDE DEF At, g, a
        <3>5. [g[n - 1] EXCEPT ![a.compositor] = SetTo(g[n - 1][a.compositor], Goal(a))]
                = [o \in Compositors |-> At(o, n)]
            BY <2>2, <3>2, <3>3, <3>4a
        <3>6. g[n] = Move(g[n - 1], a)
            BY <2>2, <3>4, <3>5
        <3> QED BY <3>6 DEF a
    <2> QED BY <2>3, <2>4
<1>9. g = Step(g)
    <2>1. \A n \in 0..N : n = 0 \/ n \in 1..N
        BY <1>2
    <2>2. \A n \in 0..N : g[n] = IF n = 0 THEN place ELSE Move(g[n - 1], animations[n])
        <3> HIDE DEF g
        <3> QED BY <1>7, <1>8, <2>1
    <2>3. g = [n \in 0..N |-> g[n]]
        OBVIOUS
    <2> HIDE DEF g
    <2> QED BY <2>2, <2>3
<1> HIDE DEF g
<1>10. f = Step(f)
    <2> HIDE DEF Step
    <2> QED BY <1>9
<1> HIDE DEF f
<1>11. f[N] = g[N]
    <2>1. f = [n \in 0..N |-> f[n]] /\ g = [n \in 0..N |-> g[n]]
        BY <1>9, <1>10
    <2>2. f[0] = g[0]
        BY <1>2, <1>7, <1>10
    <2>3. \A n \in 1..N : f[n] = Move(f[n - 1], animations[n])
        BY <1>2, <1>10
    <2>4. \A n \in 1..N : f[n - 1] = g[n - 1] => f[n] = g[n]
        BY <1>8, <2>3
    <2>5. N \in Nat
        BY <1>2
    <2> QED BY <2>1, <2>2, <2>4, <2>5, SameOneByOne
<1>12. Moved = [o \in Compositors |-> At(o, N)]
    <2> HIDE DEF At
    <2> QED BY <1>1, <1>2, <1>11 DEF g
<1>13. Moved \in [Compositors -> Place]
    <2> HIDE DEF At
    <2> QED BY <1>2, <1>6, <1>12
<1>14. ASSUME NEW k \in Over
       PROVE  LET o == animations[k].compositor IN Moved[o] = SetTo(place[o], Goal(animations[k]))
    <2>1. /\ k \in 1..N /\ N \in k..N /\ animations[k].delay = 0
          /\ animations[k].compositor \in Compositors
        BY <1>2 DEF Over, IsOver
    <2> HIDE DEF At
    <2> QED BY <1>4, <1>12, <2>1
<1> QED BY <1>13, <1>14

\* No two animations end in one frame, so at most one iterator is erased, and it is
\* where it should be.
LEMMA ErasedEffect ==
    ASSUME AnimatorInv
    PROVE  LET advanced == [i \in DOMAIN animations |-> Advance(animations[i])]
           IN  /\ advanced \in Seq(Animation)
               /\ \A i \in DOMAIN animations :
                     /\ advanced[i].name = animations[i].name
                     /\ advanced[i].compositor = animations[i].compositor
               /\ \A k, l \in Over : k = l
               /\ Over = {} => Erased = advanced
               /\ \A k \in Over : Erased = RemoveAt(advanced, k)
<1> DEFINE N == Len(animations)
           advanced == [i \in DOMAIN animations |-> Advance(animations[i])]
           g == [n \in 0..N |-> IF \E k \in Over : k <= n
                                  THEN RemoveAt(advanced, CHOOSE k \in Over : TRUE)
                                  ELSE advanced]
           Step(f) == [n \in 0..N |-> IF n = 0 THEN advanced
                                      ELSE IF n \in Over THEN EraseAt(f[n - 1], n)
                                      ELSE f[n - 1]]
           f == CHOOSE f : f = Step(f)
<1>1. Erased = f[N]
    BY DEF Erased
<1>2. /\ TypeOK /\ N \in Nat /\ DOMAIN animations = 1..N
      /\ \A n \in 1..N : /\ animations[n] \in Animation
                         /\ animations[n].delay \in 0..MaxDelay
                         /\ animations[n].left \in 0..MaxDuration
    BY ListPlaces DEF AnimatorInv
<1>3. ASSUME NEW i \in 1..N
      PROVE  /\ Advance(animations[i]) \in Animation
             /\ Advance(animations[i]).name = animations[i].name
             /\ Advance(animations[i]).compositor = animations[i].compositor
    <2> DEFINE a == animations[i]
    <2>1. a \in Animation /\ a.delay \in 0..MaxDelay /\ a.left \in 0..MaxDuration
        BY <1>2
    <2>2. a.delay > 0 => a.delay - 1 \in 0..MaxDelay
        BY <2>1, ConstantsAssumption
    <2>3. a.left > 0 => a.left - 1 \in 0..MaxDuration
        BY <2>1, ConstantsAssumption
    <2> HIDE DEF a
    <2>4. Advance(a) \in Animation /\ Advance(a).name = a.name /\ Advance(a).compositor = a.compositor
        BY <2>1, <2>2, <2>3 DEF Advance, Animation
    <2> QED BY <2>4 DEF a
<1>4. advanced \in Seq(Animation) /\ DOMAIN advanced = 1..N
    <2>1. advanced = [i \in 1..N |-> Advance(animations[i])]
        BY <1>2
    <2> HIDE DEF advanced, N
    <2>2. \A i \in 1..N : Advance(animations[i]) \in Animation
        BY <1>3
    <2> QED BY <1>2, <2>1, <2>2, IsASeq
<1>5. \A i \in DOMAIN animations : /\ advanced[i].name = animations[i].name
                                  /\ advanced[i].compositor = animations[i].compositor
    BY <1>2, <1>3
<1>6. ASSUME NEW k \in Over, NEW l \in Over PROVE k = l
    <2>1. /\ k \in DOMAIN animations /\ l \in DOMAIN animations
          /\ animations[k].delay + animations[k].left = animations[l].delay + animations[l].left
        BY DEF Over, IsOver
    <2> QED BY <2>1 DEF AnimatorInv, EndsDiffer
<1>7. Over \subseteq 1..N
    BY <1>2 DEF Over
<1> HIDE DEF N, advanced
<1>8. \A k \in Over : (CHOOSE l \in Over : TRUE) = k
    BY <1>6
<1>9. \A n \in 0..N : g[n] = IF n = 0 THEN advanced
                             ELSE IF n \in Over THEN EraseAt(g[n - 1], n) ELSE g[n - 1]
    <2> SUFFICES ASSUME NEW n \in 0..N
                 PROVE  g[n] = IF n = 0 THEN advanced
                               ELSE IF n \in Over THEN EraseAt(g[n - 1], n) ELSE g[n - 1]
        OBVIOUS
    <2>1. CASE n = 0
        <3>1. \A k \in Over : ~(k <= n)
            BY <1>7, <2>1
        <3> QED BY <2>1, <3>1
    <2>2. CASE n \in Over
        <3>1. n - 1 \in 0..N /\ n # 0 /\ n <= n /\ ~(n <= n - 1)
            BY <1>2, <1>7, <2>2
        <3>2. \A k \in Over : ~(k <= n - 1)
            BY <1>6, <2>2, <3>1
        <3>3. g[n - 1] = advanced
            BY <3>1, <3>2
        <3>4. g[n] = RemoveAt(advanced, n)
            BY <1>8, <2>2, <3>1
        <3>5. EraseAt(advanced, n) = RemoveAt(advanced, n)
            BY <1>4, <1>7, <2>2 DEF EraseAt
        <3> HIDE DEF g
        <3> QED BY <2>2, <3>1, <3>3, <3>4, <3>5
    <2>3. CASE n # 0 /\ n \notin Over
        <3>1. n - 1 \in 0..N
            BY <1>2, <2>3
        <3>2. \A k \in Over : k <= n <=> k <= n - 1
            BY <1>7, <2>3
        <3>3. g[n] = g[n - 1]
            BY <3>1, <3>2
        <3> HIDE DEF g
        <3> QED BY <2>3, <3>3
    <2> QED BY <2>1, <2>2, <2>3
<1>10. g = [n \in 0..N |-> g[n]]
    OBVIOUS
<1>11. 0 \in 0..N /\ N \in 0..N
    BY <1>2
<1>12. /\ Over = {} => g[N] = advanced
       /\ \A k \in Over : g[N] = RemoveAt(advanced, k)
    <2>1. \A k \in Over : k <= N
        BY <1>2, <1>7
    <2> QED BY <1>8, <1>11, <2>1
<1> HIDE DEF g
<1>13. g = Step(g)
    BY <1>9, <1>10
<1>14. f = Step(f)
    <2> HIDE DEF Step
    <2> QED BY <1>13
<1> HIDE DEF f
<1>15. f[N] = g[N]
    <2>1. f = [n \in 0..N |-> f[n]]
        BY <1>14
    <2>2. f[0] = g[0]
        BY <1>9, <1>11, <1>14
    <2>3. \A n \in 0..N : f[n] = IF n = 0 THEN advanced
                                 ELSE IF n \in Over THEN EraseAt(f[n - 1], n) ELSE f[n - 1]
        BY <1>14
    <2>4. \A n \in 1..N : n \in 0..N /\ n # 0
        BY <1>2
    <2>5. \A n \in 1..N : f[n - 1] = g[n - 1] => f[n] = g[n]
        BY <1>9, <2>3, <2>4
    <2>6. N \in Nat
        BY <1>2
    <2> QED BY <1>10, <2>1, <2>2, <2>5, <2>6, SameOneByOne
<1> QED BY <1>1, <1>4, <1>5, <1>6, <1>12, <1>15 DEF advanced

-----------------------------------------------------------------------------
(* The steps of the animator, all but the distance of the ends.                *)

\* What a step has to keep, but for the ends of the animations.
Kept == TypeOK' /\ OneEach' /\ LiveList(compositor', animations') /\ HintInv'

LEMMA CreateKeepsAnimations ==
    ASSUME AnimatorInv, LowerCase, NEW c \in Clients, CreateDisplay(c)
    PROVE  Kept
<1>1. PICK o \in Compositors, t \in Targets :
          /\ t.size # Unspecified
          /\ \A d \in Clients : compositor[d] # o
          /\ \A i \in DOMAIN animations : animations[i].compositor # o
          /\ compositor' = [compositor EXCEPT ![c] = o]
          /\ place' = [place EXCEPT ![o] = [size |-> t.size, scale |-> 1]]
          /\ mAnimating' = mAnimating \ {o}
    BY DEF CreateDisplay
<1>2. compositor[c] = NoCompositor /\ animations' = animations
    BY DEF CreateDisplay
<1>3. TypeOK /\ OneEach /\ LiveList(compositor, animations) /\ HintInv
    BY DEF AnimatorInv
<1>4. TypeOK'
    <2>1. t.size \in Int
        BY <1>1, ConstantsAssumption
    <2>2. [size |-> t.size, scale |-> 1] \in Place
        BY <2>1 DEF Place
    <2> QED BY <1>1, <1>2, <1>3, <2>2 DEF TypeOK
<1>5. OneEach'
    BY <1>1, <1>3 DEF OneEach, TypeOK
<1>6. LiveList(compositor', animations')
    <2> SUFFICES ASSUME NEW i \in DOMAIN animations
                 PROVE  compositor'[animations[i].name] = animations[i].compositor
        BY <1>2, <1>3 DEF LiveList
    <2>1. animations[i].name \in Clients /\ animations[i].compositor \in Compositors
        BY <1>3, ListPlaces, ClientsAreNames
    <2>2. compositor[animations[i].name] = animations[i].compositor
        BY <1>3 DEF LiveList
    <2>3. animations[i].name # c
        BY <1>2, <2>1, <2>2, ConstantsAssumption
    <2> QED BY <1>1, <1>3, <2>1, <2>2, <2>3 DEF TypeOK
<1>7. HintInv'
    BY <1>1, <1>2, <1>3 DEF HintInv
<1> QED BY <1>4, <1>5, <1>6, <1>7 DEF Kept

LEMMA KillKeepsAnimations ==
    ASSUME AnimatorInv, LowerCase, NEW c \in Clients, Kill(c)
    PROVE  Kept
<1>1. /\ compositor' = [compositor EXCEPT ![c] = NoCompositor]
      /\ animations' = Without(c) /\ mAnimating' = NoLongerAnimating(c)
      /\ UNCHANGED place
    BY DEF Kill
<1>2. TypeOK /\ OneEach
    BY DEF AnimatorInv
<1>3. c \in Names
    BY ClientsAreNames
<1> DEFINE w == Without(c)
<1>4. /\ w \in Seq(Animation) /\ LiveList(compositor, w)
      /\ \A i \in DOMAIN w : w[i].name # c
      /\ \A o \in mAnimating' : o \in mAnimating /\ \E i \in DOMAIN w : w[i].compositor = o
    BY <1>1, <1>3, WithoutEffect
<1>5. animations' = w
    BY <1>1
<1> HIDE DEF w
<1>6. TypeOK'
    BY <1>1, <1>2, <1>4, <1>5 DEF TypeOK
<1>7. OneEach'
    BY <1>1, <1>2 DEF OneEach, TypeOK
<1>8. LiveList(compositor', animations')
    <2>0. \A i \in DOMAIN w : w[i] \in Animation
        BY <1>4, ElementOfSeq, LenProperties
    <2>1. \A i \in DOMAIN w : w[i].name \in Names
        BY <2>0 DEF Animation
    <2>2. \A i \in DOMAIN w : compositor'[w[i].name] = w[i].compositor
        BY <1>1, <1>2, <1>4, <2>1, ClientsAreNames DEF LiveList, TypeOK
    <2> QED BY <1>4, <1>5, <2>2 DEF LiveList
<1>9. HintInv'
    BY <1>4, <1>5 DEF HintInv
<1> QED BY <1>6, <1>7, <1>8, <1>9 DEF Kept

LEMMA AddKeepsAnimations ==
    ASSUME AnimatorInv, LowerCase, NEW n \in Names, NEW target \in Targets,
           NEW delay \in 0..MaxDelay, NEW duration \in 0..MaxDuration,
           AddAnimation(n, target, delay, duration)
    PROVE  Kept
<1> DEFINE o == compositor[n]
           w == Without(n)
           a == [name |-> n, compositor |-> o,
                 end |-> Asked(target, place[o]),
                 delay |-> delay, left |-> duration]
<1>1. /\ o # NoCompositor
      /\ animations' = Append(w, a)
      /\ place' = Forwarded(n)
      /\ mAnimating' = NoLongerAnimating(n) \cup {o}
      /\ UNCHANGED compositor
    BY DEF AddAnimation, LowerCase
<1>2. TypeOK /\ OneEach
    BY DEF AnimatorInv
<1>3. o \in Compositors
    BY <1>1, <1>2, ClientsAreNames DEF TypeOK
<1>4. /\ w \in Seq(Animation) /\ LiveList(compositor, w)
      /\ \A i \in DOMAIN w : w[i].name # n
      /\ \A d \in NoLongerAnimating(n) : d \in mAnimating /\ \E i \in DOMAIN w : w[i].compositor = d
      /\ Forwarded(n) \in [Compositors -> Place]
    BY WithoutEffect
<1>5. a \in Animation /\ a.name = n /\ a.compositor = o
    <2>1. place[o] \in Place
        BY <1>2, <1>3 DEF TypeOK
    <2>2. a.end \in Place
        BY <2>1, AskedPlace
    <2> HIDE DEF o
    <2> QED BY <1>3, <2>2 DEF Animation
<1> HIDE DEF w, a
<1>6. /\ animations' \in Seq(Animation) /\ Len(w) \in Nat
      /\ DOMAIN w = 1..Len(w) /\ DOMAIN animations' = 1..(Len(w) + 1)
      /\ \A i \in 1..Len(w) : animations'[i] = w[i]
      /\ animations'[Len(w) + 1] = a
    <2>1. /\ Append(w, a) \in Seq(Animation) /\ Len(Append(w, a)) = Len(w) + 1
          /\ \A i \in 1..Len(w) : Append(w, a)[i] = w[i]
          /\ Append(w, a)[Len(w) + 1] = a
        BY <1>4, <1>5, AppendProperties
    <2>2. DOMAIN w = 1..Len(w) /\ Len(w) \in Nat
        BY <1>4, LenProperties
    <2>3. DOMAIN Append(w, a) = 1..(Len(w) + 1)
        BY <2>1, LenProperties
    <2> QED BY <1>1, <2>1, <2>2, <2>3
<1>7. TypeOK'
    <2>1. mAnimating' \subseteq Compositors
        BY <1>1, <1>2, <1>3 DEF NoLongerAnimating, TypeOK
    <2> QED BY <1>1, <1>2, <1>4, <1>6, <2>1 DEF TypeOK
<1>8. OneEach'
    BY <1>1, <1>2 DEF OneEach
<1> HIDE DEF o
<1>9. LiveList(compositor', animations')
    <2>0. \A i \in DOMAIN animations' : i \in 1..Len(w) \/ i = Len(w) + 1
        BY <1>6
    <2>1. \A i \in DOMAIN animations' : compositor[animations'[i].name] = animations'[i].compositor
        BY <1>4, <1>5, <1>6, <2>0 DEF LiveList, o
    <2>2. \A i, j \in DOMAIN animations' : animations'[i].name = animations'[j].name => i = j
        BY <1>4, <1>5, <1>6, <2>0 DEF LiveList
    <2> QED BY <1>1, <2>1, <2>2 DEF LiveList
<1>10. HintInv'
    <2> SUFFICES ASSUME NEW d \in mAnimating'
                 PROVE  \E i \in DOMAIN animations' : animations'[i].compositor = d
        BY DEF HintInv
    <2>1. CASE d = o
        <3>1. Len(w) + 1 \in DOMAIN animations'
            BY <1>6
        <3> QED BY <1>5, <1>6, <2>1, <3>1
    <2>2. CASE d # o
        <3>1. PICK i \in DOMAIN w : w[i].compositor = d
            BY <1>1, <1>4, <2>2
        <3>2. i \in DOMAIN animations' /\ animations'[i] = w[i]
            BY <1>6
        <3> QED BY <3>1, <3>2
    <2> QED BY <2>1, <2>2
<1> QED BY <1>7, <1>8, <1>9, <1>10 DEF Kept

LEMMA RemoveKeepsAnimations ==
    ASSUME AnimatorInv, LowerCase, NEW n \in Names, RemoveAnimation(n)
    PROVE  Kept
<1>1. /\ animations' = Without(n) /\ place' = Forwarded(n)
      /\ mAnimating' = NoLongerAnimating(n) /\ UNCHANGED compositor
    BY DEF RemoveAnimation
<1>2. TypeOK /\ OneEach
    BY DEF AnimatorInv
<1>3. /\ animations' \in Seq(Animation) /\ LiveList(compositor, animations')
      /\ \A o \in mAnimating' :
            o \in mAnimating /\ \E i \in DOMAIN animations' : animations'[i].compositor = o
      /\ place' \in [Compositors -> Place]
    BY <1>1, WithoutEffect
<1>4. TypeOK'
    BY <1>1, <1>2, <1>3 DEF TypeOK
<1>5. OneEach'
    BY <1>1, <1>2 DEF OneEach
<1> QED BY <1>1, <1>3, <1>4, <1>5 DEF Kept, HintInv

\* What a frame leaves on the list, and what goes.
LEMMA AnimateEffect ==
    ASSUME AnimatorInv, LowerCase, Animate
    PROVE  /\ animations' \in Seq(Animation)
           /\ \A i \in DOMAIN animations' : \E j \in DOMAIN animations \ Over :
                 /\ animations'[i].name = animations[j].name
                 /\ animations'[i].compositor = animations[j].compositor
           /\ \A i, l \in DOMAIN animations' : animations'[i].name = animations'[l].name => i = l
           /\ \A j \in DOMAIN animations \ Over : \E i \in DOMAIN animations' :
                 /\ animations'[i].name = animations[j].name
                 /\ animations'[i].compositor = animations[j].compositor
<1> DEFINE advanced == [i \in DOMAIN animations |-> Advance(animations[i])]
<1>1. /\ advanced \in Seq(Animation)
      /\ \A i \in DOMAIN animations :
            /\ advanced[i].name = animations[i].name
            /\ advanced[i].compositor = animations[i].compositor
      /\ \A k, l \in Over : k = l
      /\ Over = {} => Erased = advanced
      /\ \A k \in Over : Erased = RemoveAt(advanced, k)
    BY ErasedEffect
<1>2. DOMAIN advanced = DOMAIN animations
    OBVIOUS
<1>3. animations' = Erased
    BY DEF Animate
<1>4. \A i, j \in DOMAIN animations : animations[i].name = animations[j].name => i = j
    BY DEF AnimatorInv, LiveList
<1> HIDE DEF advanced
<1>5. CASE Over = {}
    BY <1>1, <1>2, <1>3, <1>4, <1>5
<1>6. CASE Over # {}
    <2>1. PICK k \in Over : TRUE
        BY <1>6
    <2>2. k \in DOMAIN advanced /\ Over = {k}
        BY <1>1, <1>2, <2>1 DEF Over
    <2> DEFINE r == RemoveAt(advanced, k)
    <2>3. animations' = r
        BY <1>1, <1>3, <2>1
    <2>4. /\ r \in Seq(Animation)
          /\ \A i \in DOMAIN r : \E j \in DOMAIN advanced : j # k /\ r[i] = advanced[j]
          /\ \A i, l \in DOMAIN r : i # l =>
               \E j, m \in DOMAIN advanced : j # m /\ r[i] = advanced[j] /\ r[l] = advanced[m]
          /\ \A j \in DOMAIN advanced : j # k => \E i \in DOMAIN r : r[i] = advanced[j]
        BY <1>1, <2>2, Remaining
    <2> HIDE DEF r
    <2>5. \A i \in DOMAIN r : \E j \in DOMAIN animations \ Over :
             r[i].name = animations[j].name /\ r[i].compositor = animations[j].compositor
        BY <1>1, <1>2, <2>2, <2>4
    <2>6. \A i, l \in DOMAIN r : r[i].name = r[l].name => i = l
        <3> SUFFICES ASSUME NEW i \in DOMAIN r, NEW l \in DOMAIN r, i # l PROVE r[i].name # r[l].name
            OBVIOUS
        <3>1. PICK j \in DOMAIN advanced, m \in DOMAIN advanced :
                 j # m /\ r[i] = advanced[j] /\ r[l] = advanced[m]
            BY <2>4
        <3> QED BY <1>1, <1>2, <1>4, <3>1
    <2>7. \A j \in DOMAIN animations \ Over : \E i \in DOMAIN r :
             r[i].name = animations[j].name /\ r[i].compositor = animations[j].compositor
        BY <1>1, <1>2, <2>2, <2>4
    <2> QED BY <2>3, <2>4, <2>5, <2>6, <2>7
<1> QED BY <1>5, <1>6

LEMMA AnimateKeepsAnimations ==
    ASSUME AnimatorInv, LowerCase, Animate
    PROVE  Kept
<1>1. place' = Moved /\ mAnimating' = Hint /\ compositor' = compositor
    BY DEF Animate
<1>2. TypeOK /\ OneEach /\ LiveList(compositor, animations) /\ HintInv
    BY DEF AnimatorInv
<1>3. /\ animations' \in Seq(Animation)
      /\ \A i \in DOMAIN animations' : \E j \in DOMAIN animations \ Over :
            /\ animations'[i].name = animations[j].name
            /\ animations'[i].compositor = animations[j].compositor
      /\ \A i, l \in DOMAIN animations' : animations'[i].name = animations'[l].name => i = l
      /\ \A j \in DOMAIN animations \ Over : \E i \in DOMAIN animations' :
            /\ animations'[i].name = animations[j].name
            /\ animations'[i].compositor = animations[j].compositor
    BY AnimateEffect
<1>4. TypeOK'
    <2>1. place' \in [Compositors -> Place]
        BY <1>1, MovedEffect
    <2>2. mAnimating' \subseteq Compositors
        BY <1>1, <1>2 DEF Hint, TypeOK
    <2> QED BY <1>1, <1>2, <1>3, <2>1, <2>2 DEF TypeOK
<1>5. OneEach'
    BY <1>1, <1>2 DEF OneEach
<1>6. LiveList(compositor', animations')
    <2>1. \A i \in DOMAIN animations' : compositor[animations'[i].name] = animations'[i].compositor
        BY <1>2, <1>3 DEF LiveList
    <2> QED BY <1>1, <1>3, <2>1 DEF LiveList
<1>7. HintInv'
    <2> SUFFICES ASSUME NEW o \in mAnimating'
                 PROVE  \E i \in DOMAIN animations' : animations'[i].compositor = o
        BY DEF HintInv
    <2>1. o \in mAnimating /\ \A i \in Over : animations[i].compositor # o
        BY <1>1 DEF Hint
    <2>2. PICK j \in DOMAIN animations : animations[j].compositor = o
        BY <1>2, <2>1 DEF HintInv
    <2>3. j \in DOMAIN animations \ Over
        BY <2>1, <2>2
    <2> QED BY <1>3, <2>2, <2>3
<1> QED BY <1>4, <1>5, <1>6, <1>7 DEF Kept

LEMMA AnimatorStarts ==
    ASSUME Init
    PROVE  AnimatorInv
<1>1. animations = <<>> /\ DOMAIN animations = {}
    BY DEF Init
<1>2. TypeOK
    <2>1. [size |-> Screen, scale |-> 1] \in Place
        BY ConstantsAssumption DEF Place
    <2> QED BY <1>1, <2>1 DEF Init, TypeOK
<1>3. OneEach
    BY DEF Init, OneEach
<1> QED BY <1>1, <1>2, <1>3 DEF Init, AnimatorInv, LiveList, HintInv, EndsDiffer

LEMMA AnimatorSteps ==
    ASSUME AnimatorInv, LowerCase, [Next /\ EndsDiffer']_vars
    PROVE  AnimatorInv'
<1>1. CASE UNCHANGED vars
    BY <1>1 DEF vars, AnimatorInv, TypeOK, OneEach, LiveList, HintInv, EndsDiffer
<1>2. CASE Next /\ EndsDiffer'
    <2>1. ASSUME NEW c \in Clients, CreateDisplay(c) PROVE Kept
        BY <2>1, CreateKeepsAnimations
    <2>2. ASSUME NEW c \in Clients, Kill(c) PROVE Kept
        BY <2>2, KillKeepsAnimations
    <2>3. ASSUME NEW c \in Clients, NEW target \in Targets, SetBounds(c, target) PROVE Kept
        <3> DEFINE p == SetTo(place[compositor[c]], Asked(target, place[compositor[c]]))
        <3>1. compositor[c] \in Compositors /\ TypeOK
            BY <2>3 DEF SetBounds, AnimatorInv, TypeOK
        <3>2. place[compositor[c]] \in Place
            BY <3>1 DEF TypeOK
        <3>3. p \in Place
            BY <3>2, SetToPlace, AskedPlace
        <3>4. place' = [place EXCEPT ![compositor[c]] = p]
            BY <2>3 DEF SetBounds
        <3> HIDE DEF p
        <3>5. TypeOK'
            BY <2>3, <3>1, <3>3, <3>4 DEF SetBounds, TypeOK
        <3> QED BY <2>3, <3>5 DEF SetBounds, AnimatorInv, OneEach, LiveList, HintInv, Kept
    <2>4. ASSUME NEW n \in Names, NEW target \in Targets,
                 NEW delay \in 0..MaxDelay, NEW duration \in 0..MaxDuration,
                 AddAnimation(n, target, delay, duration)
          PROVE  Kept
        BY <2>4, AddKeepsAnimations
    <2>5. ASSUME NEW n \in Names, RemoveAnimation(n) PROVE Kept
        BY <2>5, RemoveKeepsAnimations
    <2>6. ASSUME Animate PROVE Kept
        BY <2>6, AnimateKeepsAnimations
    <2>7. Kept
        BY <1>2, <2>1, <2>2, <2>3, <2>4, <2>5, <2>6 DEF Next
    <2> QED BY <1>2, <2>7 DEF Kept, AnimatorInv
<1> QED BY <1>1, <1>2

\* While no two animations end in one frame, the list and what it says of the
\* displays (animation.cpp 51-230) stay as AnimatorInv says.
THEOREM AnimatorInvariance == LowerCase => (SpacedSpec => []AnimatorInv)
<1> SUFFICES ASSUME LowerCase PROVE SpacedSpec => []AnimatorInv
    OBVIOUS
<1>1. Init => AnimatorInv
    BY AnimatorStarts
<1>2. AnimatorInv /\ [Next /\ EndsDiffer']_vars => AnimatorInv'
    BY AnimatorSteps
<1> QED BY <1>1, <1>2, PTL DEF SpacedSpec

\* For any clients, displays, places and times, while no two animations end in one
\* frame (animation.cpp 160-164): an animation belongs to the display its client has
\* now, none outlives a kill (compositorcontroller.cpp 985), is the only one of its
\* name, and no display is left with the animating hint without one.
THEOREM AnimationsStayLive == LowerCase => (SpacedSpec => []AnimationsAreLive)
<1> SUFFICES ASSUME LowerCase PROVE SpacedSpec => []AnimationsAreLive
    OBVIOUS
<1>1. AnimatorInv => AnimationsAreLive
    BY LiveIsLive DEF AnimatorInv
<1> QED BY <1>1, AnimatorInvariance, PTL

\* What EndsAtDestination says of one step, and of one animation that goes in it.
HasArrived(a, before, after) ==
    /\ after.size = IF Animate THEN OnScreen(a.end.size) ELSE a.end.size
    /\ after.scale = IF Negative(a.end.scale) THEN before.scale ELSE a.end.scale

Arrives ==
    \A i \in DOMAIN animations :
      (/\ UNCHANGED compositor
       /\ \A j \in DOMAIN animations' : animations'[j].name # animations[i].name)
        => HasArrived(animations[i], place[animations[i].compositor],
                      place'[animations[i].compositor])

\* Calls take a display to the end itself, a frame to what the screen leaves of it.
LEMMA SkippedHasArrived ==
    ASSUME NEW a, ~Animate, place'[a.compositor] = SetTo(place[a.compositor], a.end)
    PROVE  HasArrived(a, place[a.compositor], place'[a.compositor])
BY DEF HasArrived, SetTo

LEMMA StepsArrive ==
    ASSUME AnimatorInv, LowerCase, [Next]_vars
    PROVE  Arrives
<1> SUFFICES ASSUME NEW i \in DOMAIN animations, UNCHANGED compositor,
                    \A j \in DOMAIN animations' : animations'[j].name # animations[i].name
             PROVE  HasArrived(animations[i], place[animations[i].compositor],
                               place'[animations[i].compositor])
    BY DEF Arrives
<1> DEFINE o == animations[i].compositor
<1>1. animations[i].name \in Names /\ compositor[animations[i].name] = animations[i].compositor
    BY ListPlaces DEF AnimatorInv, LiveList
<1>2. animations' # animations
    OBVIOUS
<1>3. ASSUME NEW c \in Clients, CreateDisplay(c) \/ Kill(c) \/ \E target \in Targets : SetBounds(c, target)
      PROVE  FALSE
    <2>1. Kill(c)
        BY <1>2, <1>3 DEF CreateDisplay, SetBounds
    <2>2. compositor' = [compositor EXCEPT ![c] = NoCompositor] /\ compositor[c] # NoCompositor
        BY <2>1 DEF Kill
    <2>3. compositor'[c] = NoCompositor
        BY <2>2 DEF AnimatorInv, TypeOK
    <2> QED BY <2>2, <2>3
<1>4. ASSUME NEW n \in Names, NEW target \in Targets,
             NEW delay \in 0..MaxDelay, NEW duration \in 0..MaxDuration,
             AddAnimation(n, target, delay, duration)
      PROVE  place'[o] = SetTo(place[o], animations[i].end)
    <2> DEFINE w == Without(n)
               d == compositor[standardizeName[n]]
               a == [name |-> n, compositor |-> d,
                     end |-> Asked(target, place[d]),
                     delay |-> delay, left |-> duration]
    <2>1. animations' = Append(w, a) /\ place' = Forwarded(n)
        BY <1>4 DEF AddAnimation
    <2>2. /\ w \in Seq(Animation)
          /\ animations[i].name # n => \E k \in DOMAIN w : w[k] = animations[i]
        BY WithoutEffect
    <2> HIDE DEF w, a
    <2>3. \A k \in DOMAIN w : k \in DOMAIN animations' /\ animations'[k] = w[k]
        BY <2>1, <2>2
    <2>4. animations[i].name = n
        BY <2>2, <2>3
    <2> QED BY <2>1, <2>4, WithoutEffect
<1>5. ASSUME NEW n \in Names, RemoveAnimation(n)
      PROVE  place'[o] = SetTo(place[o], animations[i].end)
    <2>1. animations' = Without(n) /\ place' = Forwarded(n)
        BY <1>5 DEF RemoveAnimation
    <2>2. animations[i].name = n
        BY <2>1, WithoutEffect
    <2> QED BY <2>1, <2>2, WithoutEffect
<1>6. ASSUME Animate
      PROVE  HasArrived(animations[i], place[o], place'[o])
    <2>1. i \in Over
        BY <1>6, AnimateEffect
    <2>2. place'[o] = SetTo(place[o], Goal(animations[i]))
        BY <1>6, <2>1, MovedEffect DEF Animate
    <2>3. animations[i].end \in Place
        BY ListPlaces DEF AnimatorInv
    <2>4. /\ Goal(animations[i]).size = OnScreen(animations[i].end.size)
          /\ Goal(animations[i]).scale = animations[i].end.scale
        BY <2>1, <2>3 DEF Goal, Over, Place
    <2> QED BY <1>6, <2>2, <2>4 DEF HasArrived, SetTo
<1>7. Next
    BY <1>2 DEF vars
<1>8. CASE ~Animate
    <2>1. place'[o] = SetTo(place[o], animations[i].end)
        BY <1>3, <1>4, <1>5, <1>7, <1>8 DEF Next
    <2> QED BY <1>8, <2>1, SkippedHasArrived
<1> QED BY <1>6, <1>8

\* For any clients, displays, places and times, while no two animations end in one
\* frame: an animation that goes, because it is over, is stopped or replaced
\* (animation.cpp 51-213), leaves its display where it was to go, and a frame that ends
\* it (animation.cpp 75-116) what the screen leaves of that.
THEOREM AnimationsArrive == LowerCase => (SpacedSpec => EndsAtDestination)
<1> SUFFICES ASSUME LowerCase PROVE SpacedSpec => EndsAtDestination
    OBVIOUS
<1>1. AnimatorInv /\ [Next /\ EndsDiffer']_vars => [Arrives]_vars
    BY StepsArrive
<1>2. SpacedSpec => [][Arrives]_vars
    BY <1>1, AnimatorInvariance, PTL DEF SpacedSpec
<1> QED BY <1>2 DEF EndsAtDestination, Arrives, HasArrived

-----------------------------------------------------------------------------
(* Pixels: decoding gives every pixel its place, and drawing every point its    *)
(* pixel.                                                                       *)

LEMMA DivideByRow ==
    ASSUME NEW a \in Nat \ {0}, NEW q \in Nat, NEW r \in 0..(a - 1)
    PROVE  (q * a + r) \div a = q /\ (q * a + r) % a = r
OBVIOUS

\* Rows of four pixels need no padding.
LEMMA NoPadding ==
    ASSUME NEW n \in Nat, n % 4 = 0
    PROVE  Picture!UpTo4(n) = n /\ Picture!UpTo4(3 * n) = 3 * n
BY DEF Picture!UpTo4

\* The rows and columns of a picture, each pixel in its place.
Upright(content) ==
    [row \in 0..(content.height - 1) |->
       [column \in 0..(content.width - 1) |-> Picture!Pixel(row, column)]]

LEMMA JpegIsUpright ==
    ASSUME NEW content, content.width \in Nat \ {0}, content.height \in Nat \ {0},
           content.width % 4 = 0, content.components = 3
    PROVE  Picture!loadJpeg(content) = Upright(content)
<1> DEFINE w == content.width
           rowStride == w * content.components
           At(offset) == LET row == offset \div rowStride
                             column == (offset % rowStride) \div 3
                         IN  IF row < content.height /\ content.components = 3
                                /\ (offset % rowStride) % 3 = 0
                             THEN Picture!Pixel(row, column) ELSE Picture!Junk
           Cell(row, column) == At(row * Picture!UpTo4(3 * content.width) + 3 * column)
<1>1. Picture!loadJpeg(content) =
        [row \in 0..(content.height - 1) |-> [column \in 0..(content.width - 1) |-> Cell(row, column)]]
    BY DEF Picture!loadJpeg, Picture!Cells
<1>2. ASSUME NEW row \in 0..(content.height - 1), NEW column \in 0..(content.width - 1)
      PROVE  Cell(row, column) = Picture!Pixel(row, column)
    <2> DEFINE a == 3 * w
               r == 3 * column
    <2>1. /\ Picture!UpTo4(3 * content.width) = a
          /\ rowStride = a
        BY NoPadding
    <2>2. a \in Nat \ {0} /\ r \in 0..(a - 1) /\ row \in Nat
        OBVIOUS
    <2>3. r \div 3 = column /\ r % 3 = 0
        OBVIOUS
    <2> HIDE DEF a, r
    <2>4. (row * a + r) \div a = row /\ (row * a + r) % a = r
        BY <2>2, DivideByRow
    <2>5. row * Picture!UpTo4(3 * content.width) + 3 * column = row * a + r
        BY <2>1 DEF r
    <2>6. Cell(row, column) = At(row * a + r)
        BY <2>5
    <2>7. At(row * a + r) = Picture!Pixel(row, column)
        BY <2>1, <2>3, <2>4
    <2> QED BY <2>6, <2>7
<1> HIDE DEF Cell
<1> QED BY <1>1, <1>2 DEF Upright

\* The rows of a bitmap come from the bottom.
LEMMA BmpIsUpright ==
    ASSUME NEW content, content.width \in Nat \ {0}, content.height \in Nat \ {0},
           content.width % 4 = 0
    PROVE  Picture!loadBmp(content) = Upright(content)
<1> DEFINE w == content.width
           h == content.height
           perRow == Picture!UpTo4(w)
           Start(i) == (h - 1 - i) * w
           Writers(k) == {i \in 0..(h - 1) : k - Start(i) \in 0..(perRow - 1)}
           Cell(row, column) ==
               LET k == row * w + column
                   i == Picture!Max(Writers(k))
               IN  Picture!BmpFile(content, 3 * (i * perRow + k - Start(i)))
<1>1. Picture!loadBmp(content) =
        [row \in 0..(content.height - 1) |-> [column \in 0..(content.width - 1) |-> Cell(row, column)]]
    BY DEF Picture!loadBmp, Picture!Cells
<1>2. ASSUME NEW row \in 0..(content.height - 1), NEW column \in 0..(content.width - 1)
      PROVE  Cell(row, column) = Picture!Pixel(row, column)
    <2> DEFINE k == row * w + column
               i == h - 1 - row
               a == 3 * w
               r == 3 * column
    <2>1. perRow = w /\ Picture!UpTo4(3 * w) = a
        BY NoPadding
    <2>2. /\ i \in 0..(h - 1) /\ h - 1 - i = row /\ k - Start(i) = column
        OBVIOUS
    <2>3. ASSUME NEW j \in Writers(k) PROVE j = i
        <3>1. j \in 0..(h - 1) /\ k - Start(j) \in 0..(w - 1)
            BY <2>1
        <3> DEFINE q == h - 1 - j
                   d == k - Start(j)
        <3>2. q \in Nat /\ d \in 0..(w - 1) /\ k = q * w + d
            BY <3>1
        <3>3. w \in Nat \ {0} /\ row \in Nat /\ column \in 0..(w - 1) /\ k = row * w + column
            OBVIOUS
        <3> HIDE DEF q, d, w, k
        <3>4. k \div w = q
            BY <3>2, <3>3, DivideByRow
        <3>5. k \div w = row
            BY <3>3, DivideByRow
        <3>6. q = row
            BY <3>4, <3>5
        <3> QED BY <3>1, <3>6 DEF q
    <2>4. Writers(k) = {i}
        <3>1. i \in Writers(k)
            BY <2>1, <2>2
        <3> QED BY <2>3, <3>1
    <2>5. Picture!Max(Writers(k)) = i
        <3>1. i >= i
            BY <2>2
        <3> QED BY <2>4, <3>1 DEF Picture!Max
    <2>6. Cell(row, column) = Picture!BmpFile(content, 3 * (i * perRow + k - Start(i)))
        BY <2>5
    <2>7. 3 * (i * perRow + k - Start(i)) = i * a + r
        BY <2>1, <2>2
    <2>8. a \in Nat \ {0} /\ r \in 0..(a - 1) /\ i \in Nat
        BY <2>2
    <2>9. r \div 3 = column /\ r % 3 = 0
        OBVIOUS
    <2>10. (i * a + r) \div a = i /\ (i * a + r) % a = r
        <3> HIDE DEF a, r, i
        <3> QED BY <2>8, DivideByRow
    <2>11. Picture!BmpFile(content, i * a + r) = Picture!Pixel(row, column)
        <3> DEFINE offset == i * a + r
        <3>1. h - 1 - i = row /\ row >= 0 /\ column < w
            BY <2>2
        <3>2. r < 3 * w
            BY <2>8
        <3>3. offset \div a = i /\ offset % a = r
            BY <2>10
        <3> HIDE DEF offset, i, r, a
        <3>4. Picture!BmpFile(content, offset) =
                IF h - 1 - i >= 0 /\ r % 3 = 0 /\ r < 3 * w
                THEN Picture!Pixel(h - 1 - i, r \div 3) ELSE Picture!Junk
            BY <2>1, <3>3 DEF Picture!BmpFile
        <3>5. Picture!BmpFile(content, offset) = Picture!Pixel(row, column)
            BY <2>9, <3>1, <3>2, <3>4
        <3> QED BY <3>5 DEF offset
    <2> QED BY <2>6, <2>7, <2>11
<1> HIDE DEF Cell
<1> QED BY <1>1, <1>2 DEF Upright

\* What is decoded is upright, and what is not is nothing.
LEMMA TextureIsUpright ==
    ASSUME Picture!PicturesAssumption, NEW format \in {"png", "jpeg", "bmp"},
           NEW content \in Contents, content.sound, content.kind = format,
           Picture!Fits(content)
    PROVE  Picture!Texture(format, content) = Upright(content)
<1>1. content.width \in Nat \ {0} /\ content.height \in Nat \ {0}
    BY DEF Picture!PicturesAssumption
<1>2. CASE format = "png"
    BY <1>2 DEF Picture!Texture, Picture!loadPng, Picture!Cells, Upright
<1>3. CASE format = "jpeg"
    <2>1. Picture!Texture(format, content) = Picture!loadJpeg(content)
        BY <1>3 DEF Picture!Texture
    <2>2. content.width % 4 = 0 /\ content.components = 3
        BY <1>3 DEF Picture!Fits
    <2> QED BY <1>1, <2>1, <2>2, JpegIsUpright
<1>4. CASE format = "bmp"
    <2>1. Picture!Texture(format, content) = Picture!loadBmp(content)
        BY <1>4 DEF Picture!Texture
    <2>2. content.width % 4 = 0
        BY <1>4 DEF Picture!Fits
    <2> QED BY <1>1, <2>1, <2>2, BmpIsUpright
<1> QED BY <1>2, <1>3, <1>4

\* A texture of a picture is one, and no other is.
LEMMA TextureIsSound ==
    ASSUME Picture!PicturesAssumption, NEW format \in {"png", "jpeg", "bmp"},
           NEW content \in Contents \cup {Picture!Missing}
    PROVE  Picture!Texture(format, content) # Picture!NoTexture
              <=> content.sound /\ content.kind = format
<1> DEFINE texture == Picture!Texture(format, content)
<1>1. CASE ~(content.sound /\ content.kind = format)
    BY <1>1 DEF Picture!Texture
<1>2. CASE content.sound /\ content.kind = format
    <2>1. content \in Contents
        BY <1>2 DEF Picture!Missing
    <2>2. content.height \in Nat \ {0}
        BY <1>2, <2>1 DEF Picture!PicturesAssumption
    <2>3. DOMAIN texture = 0..(content.height - 1)
        <3>1. CASE format = "png"
            BY <3>1, <1>2 DEF Picture!Texture, Picture!loadPng, Picture!Cells
        <3>2. CASE format = "jpeg"
            BY <3>2, <1>2 DEF Picture!Texture, Picture!loadJpeg, Picture!Cells
        <3>3. CASE format = "bmp"
            BY <3>3, <1>2 DEF Picture!Texture, Picture!loadBmp, Picture!Cells
        <3> QED BY <3>1, <3>2, <3>3
    <2>4. 0 \in DOMAIN texture
        BY <2>2, <2>3
    <2>5. DOMAIN Picture!NoTexture = {}
        BY DEF Picture!NoTexture
    <2> QED BY <1>2, <2>4, <2>5
<1> QED BY <1>1, <1>2

LEMMA HowMany ==
    ASSUME NEW n \in Nat \ {0}
    PROVE  Picture!Cardinality(0..(n - 1)) = n
<1>1. Cardinality(0..(n - 1)) = n
    BY FS_Interval
<1> QED BY <1>1 DEF Cardinality, Picture!Cardinality

\* The part of a line of n points that a point in a line of m stands for.
LEMMA PartOfLine ==
    ASSUME NEW m \in Nat \ {0}, NEW x \in 0..(m - 1), NEW n \in Nat \ {0}
    PROVE  ((2 * x + 1) * n) \div (2 * m) \in 0..(n - 1)
<1> DEFINE c == 2 * x + 1
           d == 2 * m
<1>1. d \in Nat \ {0} /\ c \in 0..(d - 1)
    OBVIOUS
<1> HIDE DEF c, d
<1>2. (c * n) \div d \in 0..(n - 1)
    BY <1>1
<1> QED BY <1>2 DEF c, d

\* A point that is left from the left and above of the bottom of a rectangle shows
\* its part of an upright picture, and one outside shows nothing.
LEMMA DrawnInPlace ==
    ASSUME NEW content, content.width \in Nat \ {0}, content.height \in Nat \ {0},
           NEW image, image.mTexture = Upright(content), image.mTexture # Picture!NoTexture,
           NEW bounds \in [x : Int, y : Int, width : Nat \ {0}, height : Nat \ {0}],
           NEW x \in Int, NEW y \in Int
    PROVE  LET left == x - bounds.x
               below == bounds.height - 1 - (y - bounds.y)
           IN  Picture!Draw(image, bounds, x, y) =
                  IF left \in 0..(bounds.width - 1) /\ below \in 0..(bounds.height - 1)
                  THEN Picture!Pixel(((2 * below + 1) * content.height) \div (2 * bounds.height),
                                     ((2 * left + 1) * content.width) \div (2 * bounds.width))
                  ELSE Picture!Nothing
<1> DEFINE left == x - bounds.x
           below == bounds.height - 1 - (y - bounds.y)
           texture == image.mTexture
           row == ((2 * below + 1) * content.height) \div (2 * bounds.height)
           column == ((2 * left + 1) * content.width) \div (2 * bounds.width)
<1>1. /\ bounds.width \in Nat \ {0} /\ bounds.height \in Nat \ {0}
      /\ left \in Int /\ below \in Int
      /\ y - bounds.y \in 0..(bounds.height - 1) <=> below \in 0..(bounds.height - 1)
      /\ 2 * (bounds.y + bounds.height - y) - 1 = 2 * below + 1
      /\ 2 * (x - bounds.x) + 1 = 2 * left + 1
    OBVIOUS
<1>2. Picture!Cardinality(DOMAIN texture) = content.height
    <2>1. DOMAIN texture = 0..(content.height - 1)
        BY DEF Upright
    <2>2. content.height \in Nat \ {0}
        OBVIOUS
    <2> HIDE DEF texture
    <2> QED BY <2>1, <2>2, HowMany
<1>3. Picture!Cardinality(DOMAIN texture[0]) = content.width
    <2>1. DOMAIN texture[0] = 0..(content.width - 1)
        BY DEF Upright
    <2>2. content.width \in Nat \ {0}
        OBVIOUS
    <2> HIDE DEF texture
    <2> QED BY <2>1, <2>2, HowMany
<1>4. Picture!Draw(image, bounds, x, y) =
        IF left \notin 0..(bounds.width - 1) \/ below \notin 0..(bounds.height - 1)
        THEN Picture!Nothing ELSE texture[row][column]
    <2> DEFINE down == 2 * (bounds.y + bounds.height - y) - 1
               across == 2 * (x - bounds.x) + 1
    <2>1. down = 2 * below + 1 /\ across = 2 * left + 1
        BY <1>1
    <2>2. Picture!Draw(image, bounds, x, y) =
            IF \/ texture = Picture!NoTexture
               \/ left \notin 0..(bounds.width - 1)
               \/ y - bounds.y \notin 0..(bounds.height - 1)
            THEN Picture!Nothing
            ELSE texture[(down * content.height) \div (2 * bounds.height)]
                        [(across * content.width) \div (2 * bounds.width)]
        BY <1>2, <1>3, Zenon DEF Picture!Draw
    <2> HIDE DEF down, across, below, left, texture
    <2>3. /\ (down * content.height) \div (2 * bounds.height) = row
          /\ (across * content.width) \div (2 * bounds.width) = column
        BY <2>1, Zenon
    <2>4. texture # Picture!NoTexture
        BY DEF texture
    <2> HIDE DEF row, column
    <2> QED BY <1>1, <2>2, <2>3, <2>4
<1>5. ASSUME left \in 0..(bounds.width - 1), below \in 0..(bounds.height - 1)
      PROVE  texture[row][column] = Picture!Pixel(row, column)
    <2> HIDE DEF left, below
    <2>1. row \in 0..(content.height - 1)
        BY <1>1, <1>5, PartOfLine
    <2>2. column \in 0..(content.width - 1)
        BY <1>1, <1>5, PartOfLine
    <2> HIDE DEF row, column
    <2> QED BY <2>1, <2>2 DEF Upright
<1> HIDE DEF texture, row, column
<1>6. Picture!Draw(image, bounds, x, y) =
        IF left \in 0..(bounds.width - 1) /\ below \in 0..(bounds.height - 1)
        THEN Picture!Pixel(row, column) ELSE Picture!Nothing
    BY <1>4, <1>5
<1> QED BY <1>6 DEF row, column

LEMMA NoTextureDrawsNothing ==
    ASSUME NEW image, image.mTexture = Picture!NoTexture, NEW bounds, NEW x, NEW y
    PROVE  Picture!Draw(image, bounds, x, y) = Picture!Nothing
BY DEF Picture!Draw

-----------------------------------------------------------------------------

Bounds == [x : Int, y : Int, width : Nat \ {0}, height : Nat \ {0}]

\* The cursor's picture is what its file holds, and it hangs from the pointer as
\* far down as the pointer was on the screen of that time; the watermark is what
\* its segment held when it was updated.
PicturesInv ==
    /\ screenHeight \in ScreenHeights
    /\ file.format \in {"png", "jpeg", "bmp"}
    /\ file.content \in Contents \cup {Picture!Missing}
    /\ mCursorImage.mTexture = Picture!Texture(file.format, file.content)
    /\ mIsLoaded <=> mCursorImage.mTexture # Picture!NoTexture
    /\ cursorBounds \in Bounds
    /\ pointer.x \in Int /\ pointer.y \in Int /\ pointer.screen \in Int
    /\ cursorBounds.x = pointer.x /\ cursorBounds.y = pointer.screen - pointer.y
    /\ data \in Contents \cup {Picture!Missing}
    /\ "mTexture" \in DOMAIN picture
    /\ picture = [name \in DOMAIN picture |-> picture[name]]
    /\ picture.mTexture = Picture!Texture("png", data)

LEMMA PicturesInvInitially == Picture!PicturesAssumption /\ Picture!Init => PicturesInv
<1> SUFFICES ASSUME Picture!PicturesAssumption, Picture!Init PROVE PicturesInv
    OBVIOUS
<1>1. PICK format \in {"png", "jpeg", "bmp"}, content \in Contents \cup {Picture!Missing} :
          Picture!LoadCursor("cursor", format, content)
    BY DEF Picture!Init
<1>2. /\ file.format = format /\ file.content = content
      /\ mCursorImage.mTexture = Picture!Texture(format, content)
      /\ mIsLoaded = (mCursorImage.mTexture # Picture!NoTexture)
      /\ cursorBounds = [x |-> 0, y |-> 0,
                         width |-> IF mIsLoaded THEN content.width ELSE 64,
                         height |-> IF mIsLoaded THEN content.height ELSE 64]
    BY <1>1 DEF Picture!LoadCursor, Picture!loadLocalFile, Picture!NewImage, Picture!DefaultSize
<1>3. mIsLoaded => content.width \in Nat \ {0} /\ content.height \in Nat \ {0}
    <2>1. mIsLoaded => content.sound
        BY <1>2, TextureIsSound
    <2>2. content.sound => content \in Contents
        BY DEF Picture!Missing
    <2> QED BY <2>1, <2>2 DEF Picture!PicturesAssumption
<1>4. cursorBounds \in Bounds
    BY <1>2, <1>3 DEF Bounds
<1>5. /\ screenHeight \in ScreenHeights
      /\ pointer = [x |-> 0, y |-> 0, screen |-> 0]
      /\ picture = Picture!NoImage /\ data = Picture!Missing
    BY DEF Picture!Init
<1>6. /\ "mTexture" \in DOMAIN picture
      /\ picture = [name \in DOMAIN picture |-> picture[name]]
      /\ picture.mTexture = Picture!Texture("png", data)
    BY <1>5 DEF Picture!NoImage, Picture!Missing, Picture!Texture
<1>7. cursorBounds.x = pointer.x /\ cursorBounds.y = pointer.screen - pointer.y
    BY <1>2, <1>5
<1>8. mIsLoaded <=> mCursorImage.mTexture # Picture!NoTexture
    BY <1>2, Zenon
<1> QED BY <1>2, <1>4, <1>5, <1>6, <1>7, <1>8 DEF PicturesInv

LEMMA PicturesInvKept ==
    Picture!PicturesAssumption /\ PicturesInv /\ [Picture!Next]_Picture!picturesVars => PicturesInv'
<1> SUFFICES ASSUME Picture!PicturesAssumption, PicturesInv, [Picture!Next]_Picture!picturesVars
             PROVE  PicturesInv'
    OBVIOUS
<1>1. ASSUME NEW x \in 0..(ScreenWidth - 1), NEW y \in 0..(screenHeight - 1),
             Picture!SetPosition(x, y)
      PROVE  PicturesInv'
    <2>1. screenHeight \in Int
        BY DEF PicturesInv, Picture!PicturesAssumption
    <2> DEFINE below == screenHeight - y
    <2>2. x \in Int /\ y \in Int /\ below \in Int
        BY <2>1
    <2> HIDE DEF below
    <2>3. cursorBounds' = [cursorBounds EXCEPT !.x = x, !.y = below]
        BY <1>1 DEF Picture!SetPosition, below
    <2>4. cursorBounds \in Bounds
        BY DEF PicturesInv
    <2>5. cursorBounds' \in Bounds /\ cursorBounds'.x = x /\ cursorBounds'.y = below
        BY <2>2, <2>3, <2>4 DEF Bounds
    <2> QED BY <1>1, <2>1, <2>2, <2>5 DEF Picture!SetPosition, PicturesInv, below
<1>2. ASSUME NEW size \in PictureSizes, Picture!SetSize(size) PROVE PicturesInv'
    <2>1. size.width \in Nat \ {0} /\ size.height \in Nat \ {0}
        BY DEF Picture!PicturesAssumption
    <2>2. /\ cursorBounds' \in Bounds
          /\ cursorBounds'.x = cursorBounds.x /\ cursorBounds'.y = cursorBounds.y
        BY <1>2, <2>1 DEF Picture!SetSize, PicturesInv, Bounds
    <2> QED BY <1>2, <2>2 DEF Picture!SetSize, PicturesInv
<1>3. ASSUME NEW height \in ScreenHeights, Picture!SetScreenHeight(height) PROVE PicturesInv'
    BY <1>3 DEF Picture!SetScreenHeight, PicturesInv
<1>4. ASSUME NEW content \in Contents, Picture!UpdateWatermark(content) PROVE PicturesInv'
    <2>1. /\ "mTexture" \in DOMAIN picture'
          /\ picture' = [name \in DOMAIN picture' |-> picture'[name]]
          /\ picture'.mTexture = Picture!Texture("png", content)
        BY <1>4 DEF Picture!UpdateWatermark, Picture!loadImageData, Picture!NewImage, PicturesInv
    <2> QED BY <1>4, <2>1 DEF Picture!UpdateWatermark, PicturesInv
<1>5. CASE Picture!HideWatermark
    <2>1. /\ "mTexture" \in DOMAIN picture'
          /\ picture' = [name \in DOMAIN picture' |-> picture'[name]]
          /\ picture'.mTexture = Picture!Texture("png", data')
        BY <1>5 DEF Picture!HideWatermark, Picture!NoImage, Picture!Missing, Picture!Texture
    <2> QED BY <1>5, <2>1 DEF Picture!HideWatermark, PicturesInv
<1>6. CASE UNCHANGED Picture!picturesVars
    BY <1>6 DEF Picture!picturesVars, PicturesInv
<1> QED BY <1>1, <1>2, <1>3, <1>4, <1>5, <1>6 DEF Picture!Next

\* What a viewer is to see of a picture in a rectangle is what is drawn of it.
LEMMA DrawnAsExpected ==
    ASSUME Picture!PicturesAssumption, NEW format \in {"png", "jpeg", "bmp"},
           NEW content \in Contents \cup {Picture!Missing},
           content.sound, content.kind = format, Picture!Fits(content),
           NEW image, image.mTexture = Picture!Texture(format, content),
           NEW bounds \in Bounds, NEW left \in Int, NEW top \in Int, NEW height \in Int,
           bounds.x = left, bounds.y = height - top - bounds.height,
           NEW x \in Int, NEW y \in Int, NEW z \in Int, z = height - 1 - y
    PROVE  Picture!Draw(image, bounds, x, z) =
             Picture!Expected(format, content, left, top, bounds.width, bounds.height, x, y)
<1>1. content \in Contents
    BY DEF Picture!Missing
<1>2. content.width \in Nat \ {0} /\ content.height \in Nat \ {0}
    BY <1>1 DEF Picture!PicturesAssumption
<1>3. image.mTexture = Upright(content) /\ image.mTexture # Picture!NoTexture
    BY <1>1, TextureIsUpright, TextureIsSound
<1> DEFINE l == x - bounds.x
           below == bounds.height - 1 - (z - bounds.y)
<1>4. /\ l = x - left /\ below = y - top
      /\ bounds.width \in Nat \ {0} /\ bounds.height \in Nat \ {0}
    BY DEF Bounds
<1>5. Picture!Draw(image, bounds, x, z) =
          IF l \in 0..(bounds.width - 1) /\ below \in 0..(bounds.height - 1)
          THEN Picture!Pixel(((2 * below + 1) * content.height) \div (2 * bounds.height),
                             ((2 * l + 1) * content.width) \div (2 * bounds.width))
          ELSE Picture!Nothing
    BY <1>2, <1>3, <1>4, DrawnInPlace DEF Bounds
<1> HIDE DEF l, below
<1>6. Picture!Draw(image, bounds, x, z) =
          IF x - left \in 0..(bounds.width - 1) /\ y - top \in 0..(bounds.height - 1)
          THEN Picture!Pixel(((2 * (y - top) + 1) * content.height) \div (2 * bounds.height),
                             ((2 * (x - left) + 1) * content.width) \div (2 * bounds.width))
          ELSE Picture!Nothing
    BY <1>4, <1>5, Zenon
<1> QED BY <1>6, Zenon DEF Picture!Expected

\* Of what did not decode nothing is to be seen.
LEMMA NothingAsExpected ==
    ASSUME Picture!PicturesAssumption, NEW format \in {"png", "jpeg", "bmp"},
           NEW content \in Contents \cup {Picture!Missing},
           ~(content.sound /\ content.kind = format),
           NEW image, image.mTexture = Picture!Texture(format, content),
           NEW bounds, NEW left, NEW top, NEW width, NEW height, NEW x, NEW y, NEW z
    PROVE  Picture!Draw(image, bounds, x, z) =
             Picture!Expected(format, content, left, top, width, height, x, y)
<1>1. image.mTexture = Picture!NoTexture
    BY TextureIsSound
<1> QED BY <1>1, NoTextureDrawsNothing DEF Picture!Expected

\* Every point of the screen shows the pixel of the cursor, and of the watermark, that
\* belongs there, upright and scaled to its rectangle, and the watermark in a hole is
\* the part of it that is in the hole, for any pictures, sizes and screens and after
\* any updates: the row strides of loadPng, loadJpeg and loadBmp, the order of a
\* bitmap's rows, and the places that Cursor::draw and Image::draw compute, agree.
THEOREM PixelsStayInPlace == Picture!Spec => []PixelsAreShown
<1> USE PixelsAssumption
<1>1. PicturesInv => PixelsAreShown
    <2> SUFFICES ASSUME PicturesInv, NEW x \in 0..(ScreenWidth - 1), NEW y \in 0..(screenHeight - 1)
                 PROVE  LET fromBottom == screenHeight - 1 - y
                            rect == [x |-> 1, y |-> 0, width |-> 2, height |-> 1]
                            over == Picture!Expected("png", data, 0, 0, ScreenWidth, screenHeight, x, y)
                        IN  /\ (pointer.screen = screenHeight /\ (mIsLoaded => Picture!Fits(file.content))) =>
                                  Picture!DrawCursor(x, fromBottom) =
                                    Picture!Expected(file.format, file.content, pointer.x, pointer.y,
                                             cursorBounds.width, cursorBounds.height, x, y)
                            /\ Picture!Draw(picture, Picture!WholeScreen, x, fromBottom) = over
                            /\ Picture!DrawInside(picture, rect, x, fromBottom) =
                                  (IF x \in 1..2 /\ y = 0 THEN over ELSE Picture!Nothing)
        BY DEF PixelsAreShown, Picture!PixelsAreShown
    <2> DEFINE fromBottom == screenHeight - 1 - y
               rect == [x |-> 1, y |-> 0, width |-> 2, height |-> 1]
               over == Picture!Expected("png", data, 0, 0, ScreenWidth, screenHeight, x, y)
    <2>1. screenHeight \in Nat \ {0} /\ ScreenWidth \in Nat \ {0} /\ x \in Int /\ y \in Int
        BY DEF PicturesInv, Picture!PicturesAssumption
    <2>2. Picture!Draw(picture, Picture!WholeScreen, x, fromBottom) = over
        <3>1. /\ picture.mTexture = Picture!Texture("png", data)
              /\ data \in Contents \cup {Picture!Missing}
            BY DEF PicturesInv
        <3>2. CASE ~(data.sound /\ data.kind = "png")
            BY <3>1, <3>2, NothingAsExpected
        <3>3. CASE data.sound /\ data.kind = "png"
            <4> DEFINE bounds == Picture!WholeScreen
                       zero == 0
            <4>1. /\ bounds \in Bounds /\ bounds.x = zero /\ zero \in Int
                  /\ bounds.width = ScreenWidth /\ bounds.height = screenHeight
                  /\ bounds.y = screenHeight - zero - bounds.height
                BY <2>1 DEF Bounds, Picture!WholeScreen
            <4>2. Picture!Fits(data)
                BY <3>3 DEF Picture!Fits
            <4>3. fromBottom \in Int /\ fromBottom = screenHeight - 1 - y
                BY <2>1
            <4> HIDE DEF bounds, zero, fromBottom
            <4>4. Picture!Draw(picture, bounds, x, fromBottom) =
                    Picture!Expected("png", data, zero, zero, bounds.width, bounds.height, x, y)
                BY <2>1, <3>1, <3>3, <4>1, <4>2, <4>3, DrawnAsExpected
            <4> QED BY <4>1, <4>4 DEF bounds, zero
        <3> QED BY <3>2, <3>3
    <2>3. Picture!DrawInside(picture, rect, x, fromBottom) =
              (IF x \in 1..2 /\ y = 0 THEN over ELSE Picture!Nothing)
        <3> HIDE DEF over
        <3>1. /\ x - rect.x \in 0..(rect.width - 1) <=> x \in 1..2
              /\ fromBottom - (screenHeight - rect.height - rect.y) \in 0..(rect.height - 1) <=> y = 0
            BY <2>1
        <3> HIDE DEF fromBottom, rect
        <3> QED BY <2>2, <3>1, Zenon DEF Picture!DrawInside
    <2>4. ASSUME pointer.screen = screenHeight, mIsLoaded => Picture!Fits(file.content)
          PROVE  Picture!DrawCursor(x, fromBottom) =
                    Picture!Expected(file.format, file.content, pointer.x, pointer.y,
                                     cursorBounds.width, cursorBounds.height, x, y)
        <3> DEFINE loaded == file.content.sound /\ file.content.kind = file.format
        <3>1. mIsLoaded <=> loaded
            BY TextureIsSound DEF PicturesInv
        <3>2. CASE ~mIsLoaded
            BY <3>1, <3>2 DEF Picture!DrawCursor, Picture!Expected
        <3>3. CASE mIsLoaded
            <4> DEFINE bounds == [cursorBounds EXCEPT !.y = @ - cursorBounds.height]
            <4>1. cursorBounds \in Bounds /\ cursorBounds.x = pointer.x
                  /\ cursorBounds.y = screenHeight - pointer.y
                BY <2>4 DEF PicturesInv
            <4>2. /\ bounds \in Bounds /\ bounds.x = pointer.x
                  /\ bounds.width = cursorBounds.width /\ bounds.height = cursorBounds.height
                  /\ bounds.y = screenHeight - pointer.y - bounds.height
                BY <4>1 DEF Bounds
            <4>3. Picture!DrawCursor(x, fromBottom) =
                    Picture!Draw(mCursorImage, bounds, x, fromBottom)
                BY <3>3 DEF Picture!DrawCursor
            <4> HIDE DEF bounds
            <4>4. fromBottom \in Int /\ fromBottom = screenHeight - 1 - y
                BY <2>1
            <4> HIDE DEF fromBottom
            <4>5. Picture!Draw(mCursorImage, bounds, x, fromBottom) =
                    Picture!Expected(file.format, file.content, pointer.x, pointer.y,
                                     bounds.width, bounds.height, x, y)
                BY <2>1, <2>4, <3>1, <3>3, <4>2, <4>4, DrawnAsExpected DEF PicturesInv
            <4> QED BY <4>2, <4>3, <4>5
        <3> QED BY <3>2, <3>3
    <2> QED BY <2>2, <2>3, <2>4
<1>2. Picture!Init => PicturesInv
    BY PicturesInvInitially
<1>3. PicturesInv /\ [Picture!Next]_Picture!picturesVars => PicturesInv'
    BY PicturesInvKept
<1> QED BY <1>1, <1>2, <1>3, PTL DEF Picture!Spec

=============================================================================
