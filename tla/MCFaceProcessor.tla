-------------------------- MODULE MCFaceProcessor --------------------------
(***************************************************************************)
(* A small instance of FaceProcessor: images are scaled to 4 by 4 pixels,  *)
(* with eight anchors of stride 2 and two of stride 4.                     *)
(***************************************************************************)
EXTENDS FaceProcessor

MCStrides == <<2, 4>>

\* An image of w by h pixels with these detections: <<level, anchor, score, reg>>.
Picture(w, h, found) ==
    LET here(l, i) == {d \in found : d[1] = l /\ d[2] = i}
        field(k, default) ==
            [l \in Levels |-> [i \in Anchors(l) |->
                IF here(l, i) = {} THEN default ELSE (CHOOSE d \in here(l, i) : TRUE)[k]]]
    IN  [decodes |-> TRUE, w |-> w, h |-> h,
         score |-> field(3, 0), reg |-> field(4, <<1, 1, 1, 1>>)]

\* Two best detections with the same score, the first exceeding the image on
\* three sides, a NaN and lower scores around them.
Face == Picture(8, 8, {<<1, 0, NaN, <<1, 1, 1, 1>>>>, <<1, 2, 60, <<0, 0, 1, 1>>>>,
                       <<1, 3, 70, <<2, 1, 2, 1>>>>, <<2, 0, 70, <<0, 0, 1, 1>>>>,
                       <<2, 1, NaN, <<0, 0, 1, 1>>>>})

\* The best detection lies in the padding below the image.
Padding == Picture(8, 4, {<<1, 6, 80, <<0, 0, 1, 1>>>>, <<1, 2, 60, <<0, 0, 1, 1>>>>})

\* The only detection is wider than the scaled image is.
Wide == Picture(9, 5, {<<1, 4, 50, <<1, 1, 3, 2>>>>, <<1, 5, 49, <<0, 0, 1, 1>>>>})

Nobody   == Picture(8, 8, {<<1, 0, 49, <<1, 1, 1, 1>>>>, <<2, 1, NaN, <<1, 1, 1, 1>>>>})
Narrow   == Picture(1, 16, {<<1, 0, 90, <<1, 1, 1, 1>>>>})
Garbage  == [Nobody EXCEPT !.decodes = FALSE]

MCImages == {Face, Padding, Wide, Nobody, Narrow, Garbage}
=============================================================================
