--------------------------- MODULE FaceProcessor ---------------------------
(***************************************************************************)
(* FaceProcessor.DetectAndCrop, called concurrently by HTTP handlers and   *)
(* the MQTT worker: decode and scale the image, run the detection session, *)
(* scan its anchors for the highest score, cut the face out of the image   *)
(* and run the recognition session on it.  Both sessions, and the native   *)
(* values they take and return, are used under inferMu only.               *)
(*                                                                         *)
(* ONNX Runtime is external: what the detection session finds in an image  *)
(* is a field of the image, and every call to the runtime may fail.        *)
(* GetTensorData is taken to return a copy.  Coordinates are whole pixels  *)
(* of the scaled image and scores whole numbers, or NaN.                   *)
(***************************************************************************)
EXTENDS Integers, Sequences

CONSTANTS
    Requests,      \* calls of DetectAndCrop
    Images,        \* the images they are given
    Outputs,       \* names of the detection session's outputs
    DetInputSize,  \* side of the square the image is scaled to (640)
    Strides,       \* of detLevels, in their order (8, 16, 32)
    DetThreshold,  \* least score of a detection
    NaN, None

\* hw and numAnchors of a level.
HW(l) == DetInputSize \div Strides[l]
NumAnchors(l) == 2 * HW(l) * HW(l)
Levels == 1..Len(Strides)
Anchors(l) == 0..(NumAnchors(l) - 1)

ASSUME FaceProcessorAssumption ==
    /\ None \notin Requests
    /\ {"tensor", "embedding"} \cap Outputs = {}
    /\ DetInputSize \in Nat \ {0}
    /\ Strides \in Seq(1..DetInputSize) /\ Strides # <<>>
    /\ DetThreshold \in Nat
    /\ NaN \notin Int
    /\ \A img \in Images :
          /\ img.decodes \in BOOLEAN
          /\ img.w \in Nat \ {0} /\ img.h \in Nat \ {0}
          /\ \A l \in Levels : \A i \in Anchors(l) :
                /\ img.score[l][i] \in Nat \cup {NaN}
                /\ img.reg[l][i] \in [1..4 -> Int]

VARIABLES
    pc,       \* where each request is
    phase,    \* the session it uses, or will use next
    image,    \* the image it was given
    holder,   \* who holds inferMu
    open,     \* native values not closed: <<request, name>>
    unread,   \* detection outputs still to be read
    at,       \* the anchor the scan has come to: level and index
    best,     \* bestScore and the anchor it belongs to
    region    \* the rectangle that was cut out

vars == <<pc, phase, image, holder, open, unread, at, best, region>>
-----------------------------------------------------------------------------
\* Geometry.

\* math.Round(a / b), half away from zero, for b > 0.
RoundDiv(a, b) ==
    IF a >= 0 THEN (2 * a + b) \div (2 * b) ELSE -((b - 2 * a) \div (2 * b))

Longest(img) == IF img.w > img.h THEN img.w ELSE img.h

\* A length of the image in the scaled one.
Scaled(img, length) == RoundDiv(length * DetInputSize, Longest(img))

\* A coordinate of the scaled image in the original one.
MapBack(img, c) == RoundDiv(c * Longest(img), DetInputSize)

\* The box of an anchor, in the scaled image: two anchors to a cell, the cells
\* row by row.
Box(img, l, i) ==
    LET cell == i \div 2
        cx == (cell % HW(l)) * Strides[l]
        cy == (cell \div HW(l)) * Strides[l]
        reg == img.reg[l][i]
    IN  [x1 |-> cx - reg[1] * Strides[l], y1 |-> cy - reg[2] * Strides[l],
         x2 |-> cx + reg[3] * Strides[l], y2 |-> cy + reg[4] * Strides[l]]

\* Mutant of Region: one side is not clamped.
Region_NoLowerClamp(img, box) ==
    LET y1 == MapBack(img, box.y1)  x2 == MapBack(img, box.x2)  y2 == MapBack(img, box.y2)
    IN  [x1 |-> MapBack(img, box.x1), y1 |-> IF y1 < 0 THEN 0 ELSE y1,
         x2 |-> IF x2 > img.w THEN img.w ELSE x2,
         y2 |-> IF y2 > img.h THEN img.h ELSE y2]

\* The box in the original image, cut off at the sides that it may exceed.
Region(img, box) ==
    LET x1 == MapBack(img, box.x1)  y1 == MapBack(img, box.y1)
        x2 == MapBack(img, box.x2)  y2 == MapBack(img, box.y2)
    IN  [x1 |-> IF x1 < 0 THEN 0 ELSE x1, y1 |-> IF y1 < 0 THEN 0 ELSE y1,
         x2 |-> IF x2 > img.w THEN img.w ELSE x2,
         y2 |-> IF y2 > img.h THEN img.h ELSE y2]

NonEmpty(rect) == rect.x1 < rect.x2 /\ rect.y1 < rect.y2

\* a < b of the scores, where a comparison with NaN is false.
Below(a, b) == a # NaN /\ b # NaN /\ a < b

NoBest == [score |-> -1, l |-> 0, i |-> 0]

\* Mutant of Candidate: the last of equal scores is taken.
Candidate_Last(img, l, i, sofar) ==
    LET score == img.score[l][i]
    IN  ~Below(score, DetThreshold) /\ ~Below(score, sofar.score) /\ score # NaN

\* Does the scan take anchor i of level l for the best so far?
Candidate(img, l, i, sofar) ==
    LET score == img.score[l][i]
    IN  ~Below(score, DetThreshold) /\ Below(sofar.score, score)
-----------------------------------------------------------------------------
Init ==
    /\ pc = [r \in Requests |-> "decode"]
    /\ phase = [r \in Requests |-> "detect"]
    /\ image \in [Requests -> Images]
    /\ holder = None
    /\ open = {}
    /\ unread = [r \in Requests |-> {}]
    /\ at = [r \in Requests |-> <<1, 0>>]
    /\ best = [r \in Requests |-> NoBest]
    /\ region = [r \in Requests |-> None]

Goto(r, to) == pc' = [pc EXCEPT ![r] = to]

\* decodeRGB and resizePadToSquare: a very narrow image has no pixels left.
Decode(r) ==
    /\ pc[r] = "decode"
    /\ Goto(r, IF /\ image[r].decodes
                  /\ Scaled(image[r], image[r].w) > 0
                  /\ Scaled(image[r], image[r].h) > 0
                 THEN "lock" ELSE "failed")
    /\ UNCHANGED <<phase, image, holder, open, unread, at, best, region>>

\* Mutant of Lock: inference without inferMu.
Lock_NoWait(r) ==
    /\ pc[r] = "lock"
    /\ holder' = r
    /\ Goto(r, "tensor")
    /\ UNCHANGED <<phase, image, open, unread, at, best, region>>

\* runDetect and runRecognize begin.
Lock(r) ==
    /\ pc[r] = "lock"
    /\ holder = None
    /\ holder' = r
    /\ Goto(r, "tensor")
    /\ UNCHANGED <<phase, image, open, unread, at, best, region>>

\* runDetect and runRecognize return: the deferred calls close the native
\* values in closing, the input tensor among them, and unlock inferMu.
Unlock(r, closing) ==
    /\ open' = open \ ({r} \X (closing \cup {"tensor"}))
    /\ holder' = None

NewTensor(r) ==
    /\ pc[r] = "tensor"
    /\ \/ /\ open' = open \cup {<<r, "tensor">>}
          /\ Goto(r, "run")
          /\ UNCHANGED holder
       \/ /\ Unlock(r, {})
          /\ Goto(r, "failed")
    /\ UNCHANGED <<phase, image, unread, at, best, region>>

\* Mutant of Run: the input tensor is closed by a successful run only.
Run_LeaksTensor(r) ==
    /\ pc[r] = "run"
    /\ \/ /\ IF phase[r] = "detect"
               THEN /\ open' = open \cup ({r} \X Outputs)
                    /\ unread' = [unread EXCEPT ![r] = Outputs]
               ELSE /\ open' = open \cup {<<r, "embedding">>}
                    /\ UNCHANGED unread
          /\ Goto(r, "read")
          /\ UNCHANGED holder
       \/ /\ holder' = None
          /\ Goto(r, "failed")
          /\ UNCHANGED <<open, unread>>
    /\ UNCHANGED <<phase, image, at, best, region>>

\* Session.Run returns one native value per output, or an error.
Run(r) ==
    /\ pc[r] = "run"
    /\ \/ /\ IF phase[r] = "detect"
               THEN /\ open' = open \cup ({r} \X Outputs)
                    /\ unread' = [unread EXCEPT ![r] = Outputs]
               ELSE /\ open' = open \cup {<<r, "embedding">>}
                    /\ UNCHANGED unread
          /\ Goto(r, "read")
          /\ UNCHANGED holder
       \/ /\ Unlock(r, {})
          /\ Goto(r, "failed")
          /\ UNCHANGED unread
    /\ UNCHANGED <<phase, image, at, best, region>>

\* runDetect reads the outputs in the order of a Go map, any order, and closes
\* each as soon as it is read.
ReadOutput(r) ==
    /\ pc[r] = "read" /\ phase[r] = "detect"
    /\ \E o \in unread[r] :
          /\ open' = open \ {<<r, o>>}
          /\ unread' = [unread EXCEPT ![r] = @ \ {o}]
    /\ UNCHANGED <<pc, phase, image, holder, at, best, region>>

\* Mutant of ReadOutputFails: it returns without unlocking.
ReadOutputFails_Locked(r) ==
    /\ pc[r] = "read" /\ phase[r] = "detect"
    /\ \E o \in unread[r] : open' = open \ {<<r, o>>, <<r, "tensor">>}
    /\ Goto(r, "failed")
    /\ UNCHANGED <<phase, image, holder, unread, at, best, region>>

\* The first output that cannot be read is closed, those after it are not.
ReadOutputFails(r) ==
    /\ pc[r] = "read" /\ phase[r] = "detect"
    /\ \E o \in unread[r] : Unlock(r, {o})
    /\ Goto(r, "failed")
    /\ UNCHANGED <<phase, image, unread, at, best, region>>

DetectReturns(r) ==
    /\ pc[r] = "read" /\ phase[r] = "detect"
    /\ unread[r] = {}
    /\ Unlock(r, {})
    /\ Goto(r, "scan")
    /\ UNCHANGED <<phase, image, unread, at, best, region>>

\* An output is missing or has the wrong size: seen as the scan enters a level.
OutputMismatch(r) ==
    /\ pc[r] = "scan"
    /\ at[r][2] = 0
    /\ Goto(r, "failed")
    /\ UNCHANGED <<phase, image, holder, open, unread, at, best, region>>

\* One turn of the loop over the anchors of all levels.
Scan(r) ==
    LET l == at[r][1]
        i == at[r][2]
    IN  /\ pc[r] = "scan"
        /\ best' = IF Candidate(image[r], l, i, best[r])
                     THEN [best EXCEPT ![r] = [score |-> image[r].score[l][i],
                                               l |-> l, i |-> i]]
                     ELSE best
        /\ at' = [at EXCEPT ![r] = IF i + 1 < NumAnchors(l) THEN <<l, i + 1>>
                                                             ELSE <<l + 1, 0>>]
        /\ Goto(r, IF at'[r][1] \in Levels THEN "scan" ELSE "crop")
        /\ UNCHANGED <<phase, image, holder, open, unread, region>>

\* detectAndCrop112 ends: no face, an invalid box, or the face's region.
Crop(r) ==
    LET rect == Region(image[r], Box(image[r], best[r].l, best[r].i))
    IN  /\ pc[r] = "crop"
        /\ IF best[r] # NoBest /\ NonEmpty(rect)
             THEN /\ region' = [region EXCEPT ![r] = rect]
                  /\ phase' = [phase EXCEPT ![r] = "recognize"]
                  /\ Goto(r, "lock")
             ELSE /\ Goto(r, "failed")
                  /\ UNCHANGED <<region, phase>>
        /\ UNCHANGED <<image, holder, open, unread, at, best>>

\* runRecognize ends: the output is missing, unreadable or empty, or it is the
\* embedding; all values are closed.
ReadEmbedding(r) ==
    /\ pc[r] = "read" /\ phase[r] = "recognize"
    /\ Unlock(r, {"embedding"})
    /\ \E to \in {"done", "failed"} : Goto(r, to)
    /\ UNCHANGED <<phase, image, unread, at, best, region>>

Step(r) ==
    \/ Decode(r) \/ Lock(r) \/ NewTensor(r) \/ Run(r)
    \/ ReadOutput(r) \/ ReadOutputFails(r) \/ DetectReturns(r)
    \/ OutputMismatch(r) \/ Scan(r) \/ Crop(r) \/ ReadEmbedding(r)

Next == \E r \in Requests : Step(r)

Spec == Init /\ [][Next]_vars

\* A goroutine that can run is run.
LiveSpec == Spec /\ \A r \in Requests : WF_vars(Step(r))
-----------------------------------------------------------------------------
Rect == [x1 : Nat, y1 : Nat, x2 : Nat, y2 : Nat]

TypeOK ==
    /\ pc \in [Requests -> {"decode", "lock", "tensor", "run", "read", "scan",
                            "crop", "done", "failed"}]
    /\ phase \in [Requests -> {"detect", "recognize"}]
    /\ image \in [Requests -> Images]
    /\ holder \in Requests \cup {None}
    /\ open \subseteq Requests \X (Outputs \cup {"tensor", "embedding"})
    /\ unread \in [Requests -> SUBSET Outputs]
    /\ at \in [Requests -> (1..(Len(Strides) + 1)) \X Nat]
    /\ best \in [Requests -> [score : Int, l : 0..Len(Strides), i : Nat]]
    /\ region \in [Requests -> Rect \cup {None}]

\* inferMu: a request is in ONNX Runtime exactly while it holds the mutex, so
\* that no two requests are.
RuntimeIsExclusive ==
    \A r \in Requests : pc[r] \in {"tensor", "run", "read"} <=> holder = r

\* Every way out of an inference closes what it opened, but one: a request that
\* failed to read a detection output leaves outputs open, and nothing else.
OnlyFailedReadsLeak ==
    \A v \in open : \/ v[1] = holder
                    \/ /\ pc[v[1]] = "failed" /\ phase[v[1]] = "detect"
                       /\ v[2] \in unread[v[1]]

\* Is anchor i of level l the first, in the order of the scan, of those with
\* the highest score, and a detection?
IsFirstHighest(img, l, i) ==
    LET score == img.score[l][i]
    IN  /\ score # NaN /\ ~Below(score, DetThreshold)
        /\ \A m \in Levels : \A j \in Anchors(m) :
              /\ ~Below(score, img.score[m][j])
              /\ (m < l \/ (m = l /\ j < i)) => img.score[m][j] # score

\* Does a rectangle with an area lie within the image?
IsInside(img, rect) ==
    /\ 0 <= rect.x1 /\ rect.x1 < rect.x2 /\ rect.x2 <= img.w
    /\ 0 <= rect.y1 /\ rect.y1 < rect.y2 /\ rect.y2 <= img.h

\* What is embedded, and returned, is the box of the best detection, and within
\* the image: the scan over all levels is not led astray by NaN or by ties, and
\* a box in the padding or outside the image is cut off or refused.
CropsBestFace ==
    \A r \in Requests :
       region[r] # None =>
          /\ IsInside(image[r], region[r])
          /\ \E l \in Levels : \E i \in Anchors(l) :
                /\ IsFirstHighest(image[r], l, i)
                /\ region[r] = Region(image[r], Box(image[r], l, i))

\* Whatever fails, every call returns: inferMu is not left locked.
EveryRequestEnds == \A r \in Requests : <>(pc[r] \in {"done", "failed"})
=============================================================================
