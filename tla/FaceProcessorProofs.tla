------------------------ MODULE FaceProcessorProofs ------------------------
(***************************************************************************)
(* Theorems about FaceProcessor, for any images, outputs, strides and      *)
(* number of concurrent requests.                                          *)
(***************************************************************************)
EXTENDS FaceProcessor, TLAPS

\* What request r may have open at the point it has come to.
MayBeOpen(r) ==
    CASE pc[r] = "run"                             -> {"tensor"}
      [] pc[r] = "read" /\ phase[r] = "detect"     -> {"tensor"} \cup unread[r]
      [] pc[r] = "read" /\ phase[r] = "recognize"  -> {"tensor", "embedding"}
      [] pc[r] = "failed" /\ phase[r] = "detect"   -> unread[r]
      [] OTHER                                     -> {}

OpenIsExpected == \A v \in open : v[2] \in MayBeOpen(v[1])

\* Has the scan of r passed anchor i of level l?
Passed(r, l, i) == l < at[r][1] \/ (l = at[r][1] /\ i < at[r][2])

\* A score that the scan may take.
Counts(score) == score # NaN /\ ~Below(score, DetThreshold)

\* The best so far is the first highest of the anchors that were passed.
BestIsFirstHighest(r) ==
    LET img == image[r]
        b == best[r]
    IN  /\ b = NoBest \/ /\ b.l \in Levels /\ b.i \in Anchors(b.l)
                         /\ Passed(r, b.l, b.i)
                         /\ b.score = img.score[b.l][b.i]
                         /\ Counts(b.score)
        /\ \A m \in Levels : \A j \in Anchors(m) :
              (Passed(r, m, j) /\ Counts(img.score[m][j])) =>
                 /\ b # NoBest
                 /\ img.score[m][j] <= b.score
                 /\ (m < b.l \/ (m = b.l /\ j < b.i)) => img.score[m][j] # b.score

\* Where the scan is at each point of r, and when a region is known.
ScanPosition(r) ==
    /\ pc[r] = "scan" => at[r][1] \in Levels /\ at[r][2] \in Anchors(at[r][1])
    /\ pc[r] \in {"decode", "scan", "crop"} => phase[r] = "detect"
    /\ phase[r] = "detect" /\ pc[r] \in {"decode", "lock", "tensor", "run", "read"}
          => at[r] = <<1, 0>>
    /\ pc[r] = "crop" => at[r][1] = Len(Strides) + 1
    /\ phase[r] = "detect" => region[r] = None

RegionIsBest(r) ==
    region[r] # None =>
       /\ at[r][1] = Len(Strides) + 1
       /\ best[r] # NoBest
       /\ region[r] = Region(image[r], Box(image[r], best[r].l, best[r].i))
       /\ IsInside(image[r], region[r])

ProcessorInv ==
    /\ TypeOK
    /\ RuntimeIsExclusive
    /\ OpenIsExpected
    /\ \A r \in Requests : BestIsFirstHighest(r) /\ ScanPosition(r) /\ RegionIsBest(r)
-----------------------------------------------------------------------------
\* Geometry.

LEMMA QuotientIsPositive ==
    ASSUME NEW a \in Nat, NEW b \in 1..a
    PROVE  a \div b \in Nat \ {0}
<1>1. a \div b \in Int /\ a \div b # 0
  OBVIOUS
<1>2. a \div b >= 0
  OBVIOUS
<1> QED BY <1>1, <1>2

\* Every level has anchors.
LEMMA LevelHasAnchors ==
    ASSUME NEW l \in Levels
    PROVE  HW(l) \in Nat \ {0} /\ NumAnchors(l) \in Nat \ {0} /\ 0 \in Anchors(l)
<1>1. Strides[l] \in 1..DetInputSize
  BY FaceProcessorAssumption DEF Levels
<1>2. HW(l) \in Nat \ {0}
  BY <1>1, FaceProcessorAssumption, QuotientIsPositive DEF HW
<1>3. NumAnchors(l) \in Nat \ {0}
  <2> DEFINE h == HW(l)
  <2>1. h * h \in Nat /\ h * h > 0
    BY <1>2
  <2>2. NumAnchors(l) = 2 * (h * h)
    BY <1>2 DEF NumAnchors
  <2> QED BY <2>1, <2>2
<1> QED BY <1>2, <1>3 DEF Anchors

LEMMA RoundDivIsInt ==
    ASSUME NEW a \in Int, NEW b \in Nat \ {0}
    PROVE  RoundDiv(a, b) \in Int
<1>1. 2 * b \in Nat \ {0} /\ 2 * a + b \in Int /\ b - 2 * a \in Int
  OBVIOUS
<1>2. (2 * a + b) \div (2 * b) \in Int /\ (b - 2 * a) \div (2 * b) \in Int
  BY <1>1
<1> QED BY <1>2 DEF RoundDiv

LEMMA MapBackIsInt ==
    ASSUME NEW img \in Images, NEW c \in Int
    PROVE  MapBack(img, c) \in Int
<1>1. Longest(img) \in Nat
  BY FaceProcessorAssumption DEF Longest
<1>2. c * Longest(img) \in Int /\ DetInputSize \in Nat \ {0}
  BY <1>1, FaceProcessorAssumption
<1> QED BY <1>2, RoundDivIsInt DEF MapBack

LEMMA BoxIsInt ==
    ASSUME NEW img \in Images, NEW l \in Levels, NEW i \in Anchors(l)
    PROVE  LET box == Box(img, l, i)
           IN  box.x1 \in Int /\ box.y1 \in Int /\ box.x2 \in Int /\ box.y2 \in Int
<1> DEFINE cell == i \div 2
           reg == img.reg[l][i]
           s == Strides[l]
<1>1. s \in Nat
  BY FaceProcessorAssumption DEF Levels
<1>2. reg \in [1..4 -> Int]
  BY FaceProcessorAssumption
<1>3. reg[1] \in Int /\ reg[2] \in Int /\ reg[3] \in Int /\ reg[4] \in Int
  BY <1>2
<1>4. cell \in Int /\ HW(l) \in Nat \ {0}
  BY LevelHasAnchors DEF Anchors
<1>5. cell % HW(l) \in Int /\ cell \div HW(l) \in Int
  BY <1>4
<1>6. /\ (cell % HW(l)) * s \in Int /\ (cell \div HW(l)) * s \in Int
      /\ reg[1] * s \in Int /\ reg[2] * s \in Int /\ reg[3] * s \in Int /\ reg[4] * s \in Int
  BY <1>1, <1>3, <1>5
<1> HIDE DEF cell, reg, s
<1>7. Box(img, l, i) = [x1 |-> (cell % HW(l)) * s - reg[1] * s,
                        y1 |-> (cell \div HW(l)) * s - reg[2] * s,
                        x2 |-> (cell % HW(l)) * s + reg[3] * s,
                        y2 |-> (cell \div HW(l)) * s + reg[4] * s]
  BY DEF Box, cell, reg, s
<1> QED BY <1>6, <1>7

\* A region that is not refused has an area, and that lies within the image.
LEMMA AcceptedRegionIsInside ==
    ASSUME NEW img \in Images, NEW l \in Levels, NEW i \in Anchors(l),
           NonEmpty(Region(img, Box(img, l, i)))
    PROVE  LET rect == Region(img, Box(img, l, i)) IN IsInside(img, rect) /\ rect \in Rect
<1> DEFINE box == Box(img, l, i)
           x1 == MapBack(img, box.x1)
           y1 == MapBack(img, box.y1)
           x2 == MapBack(img, box.x2)
           y2 == MapBack(img, box.y2)
<1>1. x1 \in Int /\ y1 \in Int /\ x2 \in Int /\ y2 \in Int
  BY BoxIsInt, MapBackIsInt
<1>2. img.w \in Nat /\ img.h \in Nat
  BY FaceProcessorAssumption
<1>3. Region(img, box) =
        [x1 |-> IF x1 < 0 THEN 0 ELSE x1, y1 |-> IF y1 < 0 THEN 0 ELSE y1,
         x2 |-> IF x2 > img.w THEN img.w ELSE x2, y2 |-> IF y2 > img.h THEN img.h ELSE y2]
  BY DEF Region
<1> HIDE DEF x1, y1, x2, y2
<1> QED BY <1>1, <1>2, <1>3 DEF NonEmpty, IsInside, Rect
-----------------------------------------------------------------------------
\* The invariant.

LEMMA LevelsExist == 1 \in Levels /\ Len(Strides) \in Nat \ {0}
  BY FaceProcessorAssumption DEF Levels

LEMMA ProcessorInit == Init => ProcessorInv
<1> SUFFICES ASSUME Init PROVE ProcessorInv
  OBVIOUS
<1>1. TypeOK
  BY LevelsExist DEF Init, TypeOK, NoBest
<1>2. RuntimeIsExclusive /\ OpenIsExpected
  BY FaceProcessorAssumption DEF Init, RuntimeIsExclusive, OpenIsExpected
<1>3. ASSUME NEW r \in Requests
      PROVE  BestIsFirstHighest(r) /\ ScanPosition(r) /\ RegionIsBest(r)
  <2>1. best[r] = NoBest /\ at[r] = <<1, 0>> /\ at[r][1] = 1 /\ at[r][2] = 0
    BY DEF Init
  <2>2. ASSUME NEW m \in Levels, NEW j \in Anchors(m) PROVE ~Passed(r, m, j)
    BY <2>1, LevelHasAnchors DEF Passed, Levels, Anchors
  <2>3. BestIsFirstHighest(r)
    BY <2>1, <2>2 DEF BestIsFirstHighest
  <2> QED BY <2>3 DEF Init, ScanPosition, RegionIsBest
<1> QED BY <1>1, <1>2, <1>3 DEF ProcessorInv

LEMMA ProcessorTypes ==
    ASSUME ProcessorInv, NEW r \in Requests, Step(r)
    PROVE  TypeOK'
<1> USE DEF ProcessorInv, TypeOK, Goto, Unlock
<1>1. CASE Decode(r)
  BY <1>1 DEF Decode
<1>2. CASE Lock(r)
  BY <1>2 DEF Lock
<1>3. CASE NewTensor(r)
  <2>1. open' = open \cup {<<r, "tensor">>} \/ open' = open \ ({r} \X ({} \cup {"tensor"}))
    BY <1>3 DEF NewTensor
  <2>2. open' \subseteq Requests \X (Outputs \cup {"tensor", "embedding"})
    BY <2>1
  <2>3. holder' \in Requests \cup {None} /\ (Goto(r, "run") \/ Goto(r, "failed"))
    BY <1>3 DEF NewTensor
  <2> QED BY <1>3, <2>2, <2>3 DEF NewTensor
<1>4. CASE Run(r)
  <2>1. \/ open' = open \cup ({r} \X Outputs)
        \/ open' = open \cup {<<r, "embedding">>}
        \/ open' = open \ ({r} \X ({} \cup {"tensor"}))
    BY <1>4 DEF Run
  <2>2. open' \subseteq Requests \X (Outputs \cup {"tensor", "embedding"})
    BY <2>1
  <2>3. unread' = [unread EXCEPT ![r] = Outputs] \/ unread' = unread
    BY <1>4 DEF Run
  <2>4. /\ holder' \in Requests \cup {None}
        /\ pc' = [pc EXCEPT ![r] = "read"] \/ pc' = [pc EXCEPT ![r] = "failed"]
        /\ UNCHANGED <<phase, image, at, best, region>>
    BY <1>4 DEF Run
  <2>5. unread' \in [Requests -> SUBSET Outputs]
    BY <2>3
  <2> QED BY <2>2, <2>4, <2>5
<1>5. CASE ReadOutput(r)
  <2> PICK o \in unread[r] : /\ open' = open \ {<<r, o>>}
                             /\ unread' = [unread EXCEPT ![r] = @ \ {o}]
    BY <1>5 DEF ReadOutput
  <2>1. unread[r] \ {o} \in SUBSET Outputs
    OBVIOUS
  <2>2. unread' \in [Requests -> SUBSET Outputs]
    BY <2>1
  <2> QED BY <1>5, <2>2 DEF ReadOutput
<1>6. CASE ReadOutputFails(r)
  BY <1>6 DEF ReadOutputFails
<1>7. CASE DetectReturns(r)
  BY <1>7 DEF DetectReturns
<1>8. CASE OutputMismatch(r)
  BY <1>8 DEF OutputMismatch
<1>9. CASE Scan(r)
  <2> DEFINE l == at[r][1]
             i == at[r][2]
             score == image[r].score[l][i]
  <2>1. l \in Levels /\ i \in Anchors(l) /\ image[r] \in Images
    BY <1>9 DEF Scan, ScanPosition
  <2>2. score \in Nat \cup {NaN} /\ i \in Nat /\ l \in 1..Len(Strides) /\ Len(Strides) \in Nat
    BY <2>1, LevelHasAnchors, LevelsExist, FaceProcessorAssumption DEF Anchors, Levels
  <2> HIDE DEF l, i, score
  <2>3. at' \in [Requests -> (1..(Len(Strides) + 1)) \X Nat]
    <3>1. at' = [at EXCEPT ![r] = <<l, i + 1>>] \/ at' = [at EXCEPT ![r] = <<l + 1, 0>>]
      BY <1>9 DEF Scan, l, i
    <3>2. /\ <<l, i + 1>> \in (1..(Len(Strides) + 1)) \X Nat
          /\ <<l + 1, 0>> \in (1..(Len(Strides) + 1)) \X Nat
      <4>1. /\ l \in 1..(Len(Strides) + 1) /\ l + 1 \in 1..(Len(Strides) + 1)
            /\ i + 1 \in Nat /\ 0 \in Nat
        BY <2>2
      <4> HIDE <2>2
      <4> QED BY <4>1
    <3> QED BY <3>1, <3>2
  <2>4. best' \in [Requests -> [score : Int, l : 0..Len(Strides), i : Nat]]
    <3>1. CASE Candidate(image[r], l, i, best[r])
      <4>1. score \in Int
        BY <2>2, <3>1 DEF Candidate, Below, score
      <4>2. best' = [best EXCEPT ![r] = [score |-> score, l |-> l, i |-> i]]
        BY <1>9, <3>1 DEF Scan, l, i, score
      <4> QED BY <2>2, <4>1, <4>2
    <3>2. CASE ~Candidate(image[r], l, i, best[r])
      BY <1>9, <3>2 DEF Scan, l, i
    <3> QED BY <3>1, <3>2
  <2> QED BY <1>9, <2>3, <2>4 DEF Scan
<1>10. CASE Crop(r)
  <2> DEFINE rect == Region(image[r], Box(image[r], best[r].l, best[r].i))
  <2>1. CASE best[r] # NoBest /\ NonEmpty(rect)
    <3>1. best[r].l \in Levels /\ best[r].i \in Anchors(best[r].l) /\ image[r] \in Images
      BY <2>1 DEF BestIsFirstHighest
    <3>2. rect \in Rect
      BY <2>1, <3>1, AcceptedRegionIsInside
    <3> HIDE DEF rect
    <3>3. /\ region' = [region EXCEPT ![r] = rect]
          /\ phase' = [phase EXCEPT ![r] = "recognize"]
          /\ pc' = [pc EXCEPT ![r] = "lock"]
          /\ UNCHANGED <<image, holder, open, unread, at, best>>
      BY <1>10, <2>1 DEF Crop, rect
    <3> QED BY <3>2, <3>3
  <2>2. CASE ~(best[r] # NoBest /\ NonEmpty(rect))
    BY <1>10, <2>2 DEF Crop
  <2> QED BY <2>1, <2>2
<1>11. CASE ReadEmbedding(r)
  BY <1>11 DEF ReadEmbedding
<1> QED BY <1>1, <1>2, <1>3, <1>4, <1>5, <1>6, <1>7, <1>8, <1>9, <1>10, <1>11 DEF Step

LEMMA ProcessorMutex ==
    ASSUME ProcessorInv, NEW r \in Requests, Step(r)
    PROVE  RuntimeIsExclusive'
<1> USE FaceProcessorAssumption DEF ProcessorInv, TypeOK, RuntimeIsExclusive, Goto, Unlock
<1>1. CASE Decode(r)
  BY <1>1 DEF Decode
<1>2. CASE Lock(r)
  BY <1>2 DEF Lock
<1>3. CASE NewTensor(r)
  BY <1>3 DEF NewTensor
<1>4. CASE Run(r)
  <2>1. /\ pc[r] = "run"
        /\ \/ pc' = [pc EXCEPT ![r] = "read"] /\ holder' = holder
           \/ pc' = [pc EXCEPT ![r] = "failed"] /\ holder' = None
    BY <1>4 DEF Run
  <2>2. holder = r /\ r # None
    BY <2>1
  <2>3. CASE pc' = [pc EXCEPT ![r] = "read"] /\ holder' = holder
    BY <2>1, <2>2, <2>3
  <2>4. CASE pc' = [pc EXCEPT ![r] = "failed"] /\ holder' = None
    BY <2>1, <2>2, <2>4
  <2> QED BY <2>1, <2>3, <2>4
<1>5. CASE ReadOutput(r)
  BY <1>5 DEF ReadOutput
<1>6. CASE ReadOutputFails(r)
  BY <1>6 DEF ReadOutputFails
<1>7. CASE DetectReturns(r)
  BY <1>7 DEF DetectReturns
<1>8. CASE OutputMismatch(r)
  BY <1>8 DEF OutputMismatch
<1>9. CASE Scan(r)
  <2>1. pc[r] = "scan" /\ UNCHANGED holder
    BY <1>9 DEF Scan
  <2>2. pc' = [pc EXCEPT ![r] = "scan"] \/ pc' = [pc EXCEPT ![r] = "crop"]
    BY <1>9 DEF Scan
  <2> QED BY <2>1, <2>2
<1>10. CASE Crop(r)
  BY <1>10 DEF Crop
<1>11. CASE ReadEmbedding(r)
  BY <1>11 DEF ReadEmbedding
<1> QED BY <1>1, <1>2, <1>3, <1>4, <1>5, <1>6, <1>7, <1>8, <1>9, <1>10, <1>11 DEF Step

\* Other requests have the same values open, and what is expected of them is the
\* same; r's own are followed through the inference.
LEMMA ProcessorOpen ==
    ASSUME ProcessorInv, NEW r \in Requests, Step(r)
    PROVE  OpenIsExpected'
<1>1. /\ \A q \in Requests \ {r} : pc'[q] = pc[q] /\ phase'[q] = phase[q] /\ unread'[q] = unread[q]
      /\ \A v \in open' : v \in open \/ v[1] = r
      /\ \A v \in open' : v[1] \in Requests
  <2> USE DEF ProcessorInv, TypeOK, Goto, Unlock
  <2>1. \A v \in open' : v[1] \in Requests
    BY ProcessorTypes
  <2>2. CASE Decode(r) \/ Lock(r) \/ NewTensor(r)
    BY <2>1, <2>2 DEF Decode, Lock, NewTensor
  <2>3. CASE Run(r)
    <3>1. /\ \/ open' = open \cup ({r} \X Outputs)
             \/ open' = open \cup {<<r, "embedding">>}
             \/ open' = open \ ({r} \X ({} \cup {"tensor"}))
          /\ unread' = [unread EXCEPT ![r] = Outputs] \/ unread' = unread
          /\ pc' = [pc EXCEPT ![r] = "read"] \/ pc' = [pc EXCEPT ![r] = "failed"]
          /\ phase' = phase
      BY <2>3 DEF Run
    <3>2. \A v \in {r} \X Outputs : v[1] = r
      OBVIOUS
    <3>3. \A v \in open' : v \in open \/ v[1] = r
      BY <3>1, <3>2
    <3>4. \A q \in Requests \ {r} : pc'[q] = pc[q] /\ phase'[q] = phase[q] /\ unread'[q] = unread[q]
      BY <3>1
    <3> QED BY <2>1, <3>3, <3>4
  <2>4. CASE ReadOutput(r) \/ ReadOutputFails(r) \/ DetectReturns(r) \/ OutputMismatch(r)
    BY <2>1, <2>4 DEF ReadOutput, ReadOutputFails, DetectReturns, OutputMismatch
  <2>5. CASE Scan(r)
    BY <2>1, <2>5 DEF Scan
  <2>6. CASE Crop(r) \/ ReadEmbedding(r)
    BY <2>1, <2>6 DEF Crop, ReadEmbedding
  <2> QED BY <2>2, <2>3, <2>4, <2>5, <2>6 DEF Step
<1>2. ASSUME NEW v \in open', v[1] # r PROVE v[2] \in MayBeOpen(v[1])'
  <2>1. v \in open /\ v[1] \in Requests \ {r} /\ v[2] \in MayBeOpen(v[1])
    BY <1>1, <1>2 DEF ProcessorInv, OpenIsExpected
  <2> DEFINE q == v[1]
  <2>2. pc'[q] = pc[q] /\ phase'[q] = phase[q] /\ unread'[q] = unread[q]
    BY <1>1, <2>1
  <2>3. MayBeOpen(q)' = MayBeOpen(q)
    BY <2>2 DEF MayBeOpen
  <2> QED BY <2>1, <2>3
<1>3. ASSUME NEW v \in open', v[1] = r PROVE v[2] \in MayBeOpen(r)'
  <2>1. v \in open => v[2] \in MayBeOpen(r)
    BY <1>3 DEF ProcessorInv, OpenIsExpected
  <2>2. v = <<r, v[2]>>
    BY <1>3, ProcessorTypes DEF TypeOK
  <2> DEFINE name == v[2]
  <2> USE DEF ProcessorInv, TypeOK, ScanPosition, MayBeOpen, Goto, Unlock
  <2>3. CASE Decode(r)
    BY <1>3, <2>1, <2>3 DEF Decode
  <2>4. CASE Lock(r)
    BY <1>3, <2>1, <2>4 DEF Lock
  <2>5. CASE NewTensor(r)
    BY <1>3, <2>1, <2>2, <2>5 DEF NewTensor
  <2>6. CASE Run(r)
    BY <1>3, <2>1, <2>2, <2>6 DEF Run
  <2>7. CASE ReadOutput(r)
    BY <1>3, <2>1, <2>2, <2>7 DEF ReadOutput
  <2>8. CASE ReadOutputFails(r)
    BY <1>3, <2>1, <2>2, <2>8 DEF ReadOutputFails
  <2>9. CASE DetectReturns(r)
    BY <1>3, <2>1, <2>2, <2>9 DEF DetectReturns
  <2>10. CASE OutputMismatch(r)
    BY <1>3, <2>1, <2>10 DEF OutputMismatch
  <2>11. CASE Scan(r)
    BY <1>3, <2>1, <2>11 DEF Scan
  <2>12. CASE Crop(r)
    BY <1>3, <2>1, <2>12 DEF Crop
  <2>13. CASE ReadEmbedding(r)
    BY <1>3, <2>1, <2>2, <2>13 DEF ReadEmbedding
  <2> QED BY <2>3, <2>4, <2>5, <2>6, <2>7, <2>8, <2>9, <2>10, <2>11, <2>12, <2>13 DEF Step
<1> QED BY <1>2, <1>3 DEF OpenIsExpected

LEMMA ProcessorPosition ==
    ASSUME ProcessorInv, NEW r \in Requests, Step(r), NEW q \in Requests
    PROVE  ScanPosition(q)'
<1>1. CASE q # r
  <2>1. pc'[q] = pc[q] /\ phase'[q] = phase[q] /\ at'[q] = at[q] /\ region'[q] = region[q]
    <3> USE <1>1 DEF ProcessorInv, TypeOK, Goto, Unlock
    <3>1. CASE Decode(r) \/ Lock(r) \/ NewTensor(r)
      BY <3>1 DEF Decode, Lock, NewTensor
    <3>2. CASE Run(r)
      <4>1. /\ pc' = [pc EXCEPT ![r] = "read"] \/ pc' = [pc EXCEPT ![r] = "failed"]
            /\ UNCHANGED <<phase, at, region>>
        BY <3>2 DEF Run
      <4> QED BY <4>1
    <3>3. CASE ReadOutput(r) \/ ReadOutputFails(r) \/ DetectReturns(r) \/ OutputMismatch(r)
      BY <3>3 DEF ReadOutput, ReadOutputFails, DetectReturns, OutputMismatch
    <3>4. CASE Scan(r)
      BY <3>4 DEF Scan
    <3>5. CASE Crop(r) \/ ReadEmbedding(r)
      BY <3>5 DEF Crop, ReadEmbedding
    <3> QED BY <3>1, <3>2, <3>3, <3>4, <3>5 DEF Step
  <2> QED BY <2>1 DEF ProcessorInv, ScanPosition
<1>2. CASE q = r
  <2> USE <1>2 DEF ProcessorInv, TypeOK, ScanPosition, Goto, Unlock
  <2>1. CASE Decode(r) \/ Lock(r) \/ NewTensor(r)
    BY <2>1 DEF Decode, Lock, NewTensor
  <2>2. CASE Run(r)
    <3>1. /\ pc[r] = "run"
          /\ pc' = [pc EXCEPT ![r] = "read"] \/ pc' = [pc EXCEPT ![r] = "failed"]
          /\ UNCHANGED <<phase, at, region>>
      BY <2>2 DEF Run
    <3> QED BY <3>1
  <2>3. CASE ReadOutput(r) \/ ReadOutputFails(r)
    BY <2>3 DEF ReadOutput, ReadOutputFails
  <2>4. CASE DetectReturns(r)
    <3>1. at[r][1] \in Levels /\ at[r][2] \in Anchors(at[r][1])
      BY <2>4, LevelsExist, LevelHasAnchors DEF DetectReturns
    <3> QED BY <2>4, <3>1 DEF DetectReturns
  <2>5. CASE OutputMismatch(r)
    BY <2>5 DEF OutputMismatch
  <2>6. CASE Scan(r)
    <3> DEFINE l == at[r][1]
               i == at[r][2]
    <3>1. l \in Levels /\ i \in Anchors(l) /\ phase[r] = "detect" /\ region[r] = None
      BY <2>6 DEF Scan
    <3>2. UNCHANGED <<phase, region>>
      BY <2>6 DEF Scan
    <3>3. CASE i + 1 < NumAnchors(l)
      <4>1. at'[r] = <<l, i + 1>> /\ pc'[r] = "scan"
        BY <2>6, <3>1, <3>3 DEF Scan
      <4>2. i + 1 \in Anchors(l)
        BY <3>1, <3>3, LevelHasAnchors DEF Anchors
      <4> QED BY <3>1, <3>2, <4>1, <4>2
    <3>4. CASE ~(i + 1 < NumAnchors(l))
      <4>1. at'[r] = <<l + 1, 0>> /\ pc'[r] = IF l + 1 \in Levels THEN "scan" ELSE "crop"
        BY <2>6, <3>1, <3>4 DEF Scan
      <4>2. CASE l + 1 \in Levels
        BY <3>1, <3>2, <4>1, <4>2, LevelHasAnchors
      <4>3. CASE l + 1 \notin Levels
        <5>1. l + 1 = Len(Strides) + 1
          BY <3>1, <4>3, LevelsExist DEF Levels
        <5> QED BY <3>1, <3>2, <4>1, <4>3, <5>1
      <4> QED BY <4>2, <4>3
    <3> QED BY <3>3, <3>4
  <2>7. CASE Crop(r)
    BY <2>7 DEF Crop
  <2>8. CASE ReadEmbedding(r)
    BY <2>8 DEF ReadEmbedding
  <2> QED BY <2>1, <2>2, <2>3, <2>4, <2>5, <2>6, <2>7, <2>8 DEF Step
<1> QED BY <1>1, <1>2

\* Only Scan(r) moves r on in the images and may find a better anchor.
LEMMA OnlyScanSearches ==
    ASSUME ProcessorInv, NEW r \in Requests, Step(r), NEW q \in Requests,
           ~(q = r /\ Scan(r))
    PROVE  image' = image /\ at'[q] = at[q] /\ best'[q] = best[q]
<1> USE DEF ProcessorInv, TypeOK
<1>1. CASE Scan(r)
  BY <1>1 DEF Scan
<1>2. CASE Decode(r) \/ Lock(r) \/ NewTensor(r)
  BY <1>2 DEF Decode, Lock, NewTensor
<1>3. CASE Run(r)
  <2>1. UNCHANGED <<phase, image, at, best, region>>
    BY <1>3 DEF Run
  <2> QED BY <2>1
<1>4. CASE ReadOutput(r) \/ ReadOutputFails(r) \/ DetectReturns(r) \/ OutputMismatch(r)
  BY <1>4 DEF ReadOutput, ReadOutputFails, DetectReturns, OutputMismatch
<1>5. CASE Crop(r) \/ ReadEmbedding(r)
  BY <1>5 DEF Crop, ReadEmbedding
<1> QED BY <1>1, <1>2, <1>3, <1>4, <1>5 DEF Step

\* One turn of the scan: the anchor it is at joins the passed ones, and becomes
\* the best one if its score is higher.
LEMMA ScanKeepsBest ==
    ASSUME ProcessorInv, NEW r \in Requests, Scan(r)
    PROVE  BestIsFirstHighest(r)'
<1> DEFINE img == image[r]
           l == at[r][1]
           i == at[r][2]
           b == best[r]
           here == img.score[l][i]
           PassedNow(m, j) == m < at'[r][1] \/ (m = at'[r][1] /\ j < at'[r][2])
<1>1. /\ l \in Levels /\ i \in Anchors(l) /\ img \in Images
      /\ image' = image
  BY DEF Scan, ScanPosition, ProcessorInv, TypeOK
<1>2. /\ Levels \subseteq Nat /\ \A m \in Levels : Anchors(m) \subseteq Nat /\ NumAnchors(m) \in Nat
      /\ \A m \in Levels : \A j \in Anchors(m) : j < NumAnchors(m)
  BY LevelHasAnchors, LevelsExist DEF Levels, Anchors
<1>3. \A m \in Levels : \A j \in Anchors(m) : img.score[m][j] \in Nat \cup {NaN}
  BY <1>1, FaceProcessorAssumption
<1>4. at'[r] = IF i + 1 < NumAnchors(l) THEN <<l, i + 1>> ELSE <<l + 1, 0>>
  BY DEF Scan, ProcessorInv, TypeOK
<1>5. best'[r] = IF Candidate(img, l, i, b) THEN [score |-> here, l |-> l, i |-> i] ELSE b
  BY DEF Scan, ProcessorInv, TypeOK
\* The anchors that are passed now.
<1>6. ASSUME NEW m \in Levels, NEW j \in Anchors(m)
      PROVE  PassedNow(m, j) <=> Passed(r, m, j) \/ (m = l /\ j = i)
  <2> m \in Nat /\ j \in Nat /\ l \in Nat /\ i \in Nat /\ j < NumAnchors(m) /\ NumAnchors(m) \in Nat
    BY <1>1, <1>2
  <2>1. Passed(r, m, j) <=> m < l \/ (m = l /\ j < i)
    BY DEF Passed
  <2> HIDE DEF l, i
  <2>3. CASE i + 1 < NumAnchors(l)
    <3>1. at'[r][1] = l /\ at'[r][2] = i + 1
      BY <1>4, <2>3
    <3> QED BY <2>1, <3>1
  <2>4. CASE ~(i + 1 < NumAnchors(l))
    <3>1. at'[r][1] = l + 1 /\ at'[r][2] = 0
      BY <1>4, <2>4
    <3>2. m = l => j <= i
      BY <2>4
    <3> QED BY <2>1, <3>1, <3>2
  <2> QED BY <2>3, <2>4
<1>7. BestIsFirstHighest(r)
  BY DEF ProcessorInv
<1>8. b = NoBest \/ /\ b.l \in Levels /\ b.i \in Anchors(b.l)
                    /\ Passed(r, b.l, b.i)
                    /\ b.score = img.score[b.l][b.i]
                    /\ Counts(b.score)
  BY <1>7 DEF BestIsFirstHighest
<1>9. \A m \in Levels : \A j \in Anchors(m) :
        (Passed(r, m, j) /\ Counts(img.score[m][j])) =>
           /\ b # NoBest
           /\ img.score[m][j] <= b.score
           /\ (m < b.l \/ (m = b.l /\ j < b.i)) => img.score[m][j] # b.score
  BY <1>7 DEF BestIsFirstHighest
<1>10. here \in Nat \cup {NaN} /\ (b = NoBest \/ b.score \in Nat) /\ NoBest.score = -1
  BY <1>1, <1>3, <1>8 DEF Counts, NoBest
<1>11. DetThreshold \in Nat /\ NaN \notin Int
  BY FaceProcessorAssumption
<1> DEFINE new == best'[r]
<1> HIDE DEF PassedNow
<1> SUFFICES /\ new = NoBest \/ /\ new.l \in Levels /\ new.i \in Anchors(new.l)
                                /\ PassedNow(new.l, new.i)
                                /\ new.score = img.score[new.l][new.i]
                                /\ Counts(new.score)
             /\ \A m \in Levels : \A j \in Anchors(m) :
                   (PassedNow(m, j) /\ Counts(img.score[m][j])) =>
                      /\ new # NoBest
                      /\ img.score[m][j] <= new.score
                      /\ (m < new.l \/ (m = new.l /\ j < new.i)) => img.score[m][j] # new.score
  BY <1>1 DEF BestIsFirstHighest, Passed, PassedNow, Counts
<1>12. CASE Candidate(img, l, i, b)
  <2>1. new = [score |-> here, l |-> l, i |-> i] /\ new.score = here /\ new.l = l /\ new.i = i
    BY <1>5, <1>12
  <2>2. Counts(here) /\ here \in Nat /\ (b # NoBest => b.score < here)
    BY <1>10, <1>11, <1>12 DEF Candidate, Counts, Below
  <2>3. new # NoBest
    BY <1>1, <1>2, <2>1, <2>2 DEF NoBest
  <2>4. PassedNow(l, i)
    BY <1>1, <1>6
  <2>5. ASSUME NEW m \in Levels, NEW j \in Anchors(m), PassedNow(m, j), Counts(img.score[m][j])
        PROVE  /\ img.score[m][j] <= here
               /\ (m < l \/ (m = l /\ j < i)) => img.score[m][j] # here
    <3>1. CASE Passed(r, m, j)
      <4>1. b # NoBest /\ img.score[m][j] <= b.score
        BY <1>9, <2>5, <3>1
      <4>2. img.score[m][j] \in Nat
        BY <1>3, <2>5 DEF Counts
      <4> HIDE DEF b, img, here
      <4> QED BY <1>10, <2>2, <4>1, <4>2
    <3>2. CASE m = l /\ j = i
      BY <1>1, <1>2, <2>2, <3>2
    <3> QED BY <1>6, <2>5, <3>1, <3>2
  <2> HIDE DEF new, l, i, here, b, img
  <2>6. new.l \in Levels /\ new.i \in Anchors(new.l) /\ new.score = img.score[new.l][new.i]
    BY <1>1, <2>1 DEF here
  <2> QED BY <2>1, <2>2, <2>3, <2>4, <2>5, <2>6
<1>13. CASE ~Candidate(img, l, i, b)
  <2>1. new = b
    BY <1>5, <1>13
  <2>2. ASSUME Counts(here)
        PROVE  b # NoBest /\ here <= b.score
    BY <1>10, <1>11, <1>13, <2>2 DEF Candidate, Counts, Below
  <2>3. ASSUME NEW m \in Levels, NEW j \in Anchors(m), PassedNow(m, j), Counts(img.score[m][j])
        PROVE  /\ b # NoBest
               /\ img.score[m][j] <= b.score
               /\ (m < b.l \/ (m = b.l /\ j < b.i)) => img.score[m][j] # b.score
    <3>1. CASE Passed(r, m, j)
      BY <1>9, <2>3, <3>1
    <3>2. CASE m = l /\ j = i
      <4>1. b # NoBest /\ here <= b.score
        BY <2>2, <2>3, <3>2
      <4>2. b.l \in Levels /\ b.i \in Anchors(b.l) /\ Passed(r, b.l, b.i)
        BY <1>8, <4>1
      <4>3. b.l < l \/ (b.l = l /\ b.i < i)
        BY <4>2 DEF Passed
      <4>4. b.l \in Nat /\ b.i \in Nat /\ l \in Nat /\ i \in Nat
        BY <1>1, <1>2, <4>2
      <4>5. ~(m < b.l \/ (m = b.l /\ j < b.i))
        BY <3>2, <4>3, <4>4
      <4> QED BY <3>2, <4>1, <4>5
    <3> QED BY <1>6, <2>3, <3>1, <3>2
  <2>4. b = NoBest \/ PassedNow(b.l, b.i)
    BY <1>6, <1>8
  <2> HIDE DEF new, l, i, here, b, img
  <2> QED BY <1>8, <2>1, <2>3, <2>4
<1> QED BY <1>12, <1>13

LEMMA ProcessorBest ==
    ASSUME ProcessorInv, NEW r \in Requests, Step(r), NEW q \in Requests
    PROVE  BestIsFirstHighest(q)'
<1>1. CASE q = r /\ Scan(r)
  BY <1>1, ScanKeepsBest
<1>2. CASE ~(q = r /\ Scan(r))
  <2>1. image' = image /\ at'[q] = at[q] /\ best'[q] = best[q]
    BY <1>2, OnlyScanSearches
  <2>2. BestIsFirstHighest(q)
    BY DEF ProcessorInv
  <2>3. BestIsFirstHighest(q)' <=> BestIsFirstHighest(q)
    BY <2>1 DEF BestIsFirstHighest, Passed
  <2> QED BY <2>2, <2>3
<1> QED BY <1>1, <1>2

\* A region is set by Crop only, and its request scans no more.
LEMMA ProcessorRegion ==
    ASSUME ProcessorInv, NEW r \in Requests, Step(r), NEW q \in Requests
    PROVE  RegionIsBest(q)'
<1>1. RegionIsBest(q) /\ ScanPosition(r) /\ BestIsFirstHighest(r)
  BY DEF ProcessorInv
<1>2. CASE q = r /\ Scan(r)
  <2>1. region[r] = None /\ region' = region
    BY <1>1, <1>2 DEF Scan, ScanPosition
  <2> QED BY <1>2, <2>1 DEF RegionIsBest
<1>3. CASE q = r /\ Crop(r)
  <2> DEFINE rect == Region(image[r], Box(image[r], best[r].l, best[r].i))
  <2>1. UNCHANGED <<image, at, best>> /\ region[r] = None /\ at[r][1] = Len(Strides) + 1
    BY <1>1, <1>3 DEF Crop, ScanPosition
  <2>2. CASE best[r] # NoBest /\ NonEmpty(rect)
    <3>1. best[r].l \in Levels /\ best[r].i \in Anchors(best[r].l) /\ image[r] \in Images
      BY <1>1, <2>2 DEF BestIsFirstHighest, ProcessorInv, TypeOK
    <3>2. IsInside(image[r], rect)
      BY <2>2, <3>1, AcceptedRegionIsInside
    <3>3. region'[r] = rect
      BY <1>3, <2>2 DEF Crop, ProcessorInv, TypeOK
    <3> HIDE DEF rect
    <3>4. image'[r] = image[r] /\ best'[r] = best[r] /\ at'[r] = at[r]
      BY <2>1
    <3>5. IsInside(image[r], region[r])'
      BY <3>2, <3>3, <3>4 DEF IsInside
    <3>6. (region[r] = Region(image[r], Box(image[r], best[r].l, best[r].i)))'
      BY <3>3, <3>4 DEF rect
    <3> QED BY <1>3, <2>1, <2>2, <3>4, <3>5, <3>6 DEF RegionIsBest
  <2>3. CASE ~(best[r] # NoBest /\ NonEmpty(rect))
    <3>1. region' = region
      BY <1>3, <2>3 DEF Crop
    <3> QED BY <1>3, <2>1, <3>1 DEF RegionIsBest
  <2> QED BY <2>2, <2>3
<1>4. CASE ~(q = r /\ Scan(r)) /\ ~(q = r /\ Crop(r))
  <2>1. image' = image /\ at'[q] = at[q] /\ best'[q] = best[q]
    BY <1>4, OnlyScanSearches
  <2>2. region'[q] = region[q]
    <3> USE DEF ProcessorInv, TypeOK
    <3>1. CASE Crop(r)
      BY <1>4, <3>1 DEF Crop
    <3>2. CASE Run(r)
      <4>1. UNCHANGED <<phase, image, at, best, region>>
        BY <3>2 DEF Run
      <4> QED BY <4>1
    <3>3. CASE Decode(r) \/ Lock(r) \/ NewTensor(r) \/ Scan(r) \/ ReadEmbedding(r)
      BY <3>3 DEF Decode, Lock, NewTensor, Scan, ReadEmbedding
    <3>4. CASE ReadOutput(r) \/ ReadOutputFails(r) \/ DetectReturns(r) \/ OutputMismatch(r)
      BY <3>4 DEF ReadOutput, ReadOutputFails, DetectReturns, OutputMismatch
    <3> QED BY <3>1, <3>2, <3>3, <3>4 DEF Step
  <2>3. RegionIsBest(q)' <=> RegionIsBest(q)
    BY <2>1, <2>2 DEF RegionIsBest
  <2> QED BY <1>1, <2>3
<1> QED BY <1>2, <1>3, <1>4

LEMMA ProcessorInvariance == Spec => []ProcessorInv
<1>1. ProcessorInv /\ Next => ProcessorInv'
  <2> SUFFICES ASSUME ProcessorInv, NEW r \in Requests, Step(r) PROVE ProcessorInv'
    BY DEF Next
  <2>1. TypeOK' /\ RuntimeIsExclusive' /\ OpenIsExpected'
    BY ProcessorTypes, ProcessorMutex, ProcessorOpen
  <2>2. ASSUME NEW q \in Requests
        PROVE  BestIsFirstHighest(q)' /\ ScanPosition(q)' /\ RegionIsBest(q)'
    BY ProcessorBest, ProcessorPosition, ProcessorRegion
  <2> QED BY <2>1, <2>2 DEF ProcessorInv
<1>2. ProcessorInv /\ UNCHANGED vars => ProcessorInv'
  <2> SUFFICES ASSUME ProcessorInv, UNCHANGED vars PROVE ProcessorInv'
    OBVIOUS
  <2>1. TypeOK' /\ RuntimeIsExclusive' /\ OpenIsExpected'
    BY DEF vars, ProcessorInv, TypeOK, RuntimeIsExclusive, OpenIsExpected, MayBeOpen
  <2>2. ASSUME NEW q \in Requests
        PROVE  BestIsFirstHighest(q)' /\ ScanPosition(q)' /\ RegionIsBest(q)'
    <3>1. BestIsFirstHighest(q)'
      BY DEF vars, ProcessorInv, BestIsFirstHighest, Passed
    <3>2. ScanPosition(q)' /\ RegionIsBest(q)'
      BY DEF vars, ProcessorInv, ScanPosition, RegionIsBest
    <3> QED BY <3>1, <3>2
  <2> QED BY <2>1, <2>2 DEF ProcessorInv
<1> QED BY <1>1, <1>2, ProcessorInit, PTL DEF Spec

\* Every variable keeps its type; regions have no negative coordinates.
THEOREM ProcessorTypeCorrectness == Spec => []TypeOK
  BY ProcessorInvariance, PTL DEF ProcessorInv

\* inferMu keeps all uses of ONNX Runtime, by any number of requests, apart.
THEOREM RuntimeIsNeverShared == Spec => []RuntimeIsExclusive
  BY ProcessorInvariance, PTL DEF ProcessorInv

\* Only a detection output that could not be read leaves native values behind.
THEOREM OtherPathsCloseEverything == Spec => []OnlyFailedReadsLeak
<1>1. ProcessorInv => OnlyFailedReadsLeak
  <2> SUFFICES ASSUME ProcessorInv, NEW v \in open, v[1] # holder
               PROVE  /\ pc[v[1]] = "failed" /\ phase[v[1]] = "detect"
                      /\ v[2] \in unread[v[1]]
    BY DEF OnlyFailedReadsLeak
  <2>1. v[1] \in Requests /\ v[2] \in MayBeOpen(v[1])
    BY DEF ProcessorInv, TypeOK, OpenIsExpected
  <2>2. pc[v[1]] \notin {"run", "read"}
    BY <2>1 DEF ProcessorInv, RuntimeIsExclusive
  <2> QED BY <2>1, <2>2 DEF MayBeOpen
<1> QED BY <1>1, ProcessorInvariance, PTL

\* For any images, levels and scores, NaN among them, the region embedded is that
\* of the best detection and lies within the image.
THEOREM EmbeddedFaceIsBest == Spec => []CropsBestFace
<1>1. ProcessorInv => CropsBestFace
  <2> SUFFICES ASSUME ProcessorInv, NEW r \in Requests, region[r] # None
               PROVE  /\ IsInside(image[r], region[r])
                      /\ \E l \in Levels : \E i \in Anchors(l) :
                            /\ IsFirstHighest(image[r], l, i)
                            /\ region[r] = Region(image[r], Box(image[r], l, i))
    BY DEF CropsBestFace
  <2> DEFINE img == image[r]
             b == best[r]
  <2>1. /\ at[r][1] = Len(Strides) + 1 /\ b # NoBest
        /\ region[r] = Region(img, Box(img, b.l, b.i))
        /\ IsInside(img, region[r])
    BY DEF ProcessorInv, RegionIsBest
  <2>2. \A m \in Levels : \A j \in Anchors(m) : Passed(r, m, j)
    BY <2>1, LevelsExist DEF Passed, Levels
  <2>3. BestIsFirstHighest(r) /\ img \in Images
    BY DEF ProcessorInv, TypeOK
  <2>4. /\ b.l \in Levels /\ b.i \in Anchors(b.l)
        /\ b.score = img.score[b.l][b.i] /\ Counts(b.score)
        /\ \A m \in Levels : \A j \in Anchors(m) :
              Counts(img.score[m][j]) =>
                 /\ img.score[m][j] <= b.score
                 /\ (m < b.l \/ (m = b.l /\ j < b.i)) => img.score[m][j] # b.score
    BY <2>1, <2>2, <2>3 DEF BestIsFirstHighest
  <2>5. /\ \A m \in Levels : \A j \in Anchors(m) : img.score[m][j] \in Nat \cup {NaN}
        /\ DetThreshold \in Nat
    BY <2>3, FaceProcessorAssumption
  <2> HIDE DEF img, b
  <2>6. IsFirstHighest(img, b.l, b.i)
    BY <2>4, <2>5 DEF IsFirstHighest, Counts, Below
  <2> QED BY <2>1, <2>4, <2>6 DEF img
<1> QED BY <1>1, ProcessorInvariance, PTL
=============================================================================
