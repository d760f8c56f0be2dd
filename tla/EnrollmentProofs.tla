-------------------------- MODULE EnrollmentProofs --------------------------
(***************************************************************************)
(* What the operations on one user record return, whatever the faces and   *)
(* the limit: lemmas for the services that store such records.             *)
(***************************************************************************)
EXTENDS Enrollment, SequenceTheorems, TLAPS

\* Removing one element of a sequence leaves a sequence of the same elements,
\* one shorter (the slices DeletePicture concatenates).
LEMMA RemoveAtProperties ==
    ASSUME NEW S, NEW s \in Seq(S), NEW i \in 1..Len(s)
    PROVE  /\ RemoveAt(s, i) \in Seq(S)
           /\ Len(RemoveAt(s, i)) = Len(s) - 1
<1> DEFINE front == SubSeq(s, 1, i - 1)
           back  == SubSeq(s, i + 1, Len(s))
<1>1. Len(s) \in Nat /\ \A j \in 1..Len(s) : s[j] \in S
  BY LenProperties, ElementOfSeq
<1>2. front \in Seq(S) /\ Len(front) = i - 1
  <2>1. \A j \in 1..(i - 1) : s[j] \in S
    BY <1>1
  <2>2. i - 1 \in Int /\ 1 \in Int
    BY <1>1
  <2> QED BY <1>1, <2>1, <2>2, SubSeqProperties
<1>3. back \in Seq(S) /\ Len(back) = Len(s) - i
  <2>1. \A j \in (i + 1)..Len(s) : s[j] \in S
    BY <1>1
  <2>2. i + 1 \in Int /\ Len(s) \in Int
    BY <1>1
  <2> QED BY <1>1, <2>1, <2>2, SubSeqProperties
<1> HIDE DEF front, back
<1>4. front \o back \in Seq(S) /\ Len(front \o back) = Len(s) - 1
  <2>1. front \o back \in Seq(S) /\ Len(front \o back) = Len(front) + Len(back)
    BY <1>2, <1>3, ConcatProperties
  <2> QED BY <1>1, <1>2, <1>3, <2>1
<1>5. RemoveAt(s, i) = front \o back
  BY DEF RemoveAt, front, back
<1> QED BY <1>4, <1>5

\* What EnrollImage and PromoteFromAudit save is a record whose newest picture
\* and embedding are the new face; the limit is kept if there was room, and
\* the surplus of pictures and the alignment are kept.
LEMMA WithFaceProperties ==
    ASSUME NEW u \in User \cup {NoUser}, NEW f \in Faces
    PROVE  /\ WithFace(u, f) \in User
           /\ WithFace(u, f) # NoUser
           /\ Last(WithFace(u, f).pictures) = f
           /\ Last(WithFace(u, f).embeddings) = f
           /\ HasRoom(u) => Bounded(WithFace(u, f))
           /\ u = NoUser => Surplus(WithFace(u, f)) = 0
           /\ u # NoUser => Surplus(WithFace(u, f)) = Surplus(u)
           /\ (u # NoUser => Aligned(u)) => Aligned(WithFace(u, f))
<1>1. CASE u = NoUser
  <2>1. WithFace(u, f) = [embeddings |-> <<f>>, pictures |-> <<f>>]
    BY <1>1 DEF WithFace
  <2>2. <<f>> \in Seq(Faces) /\ Len(<<f>>) = 1 /\ <<f>>[1] = f
    OBVIOUS
  <2>3. WithFace(u, f) \in User /\ WithFace(u, f) # NoUser
    <3>1. WithFace(u, f) \in User
      BY <2>1, <2>2 DEF User
    <3> QED BY <3>1, EnrollmentAssumption DEF User
  <2>4. /\ Last(WithFace(u, f).pictures) = f
        /\ Last(WithFace(u, f).embeddings) = f
    BY <2>1, <2>2 DEF Last
  <2>5. Bounded(WithFace(u, f)) /\ Aligned(WithFace(u, f))
    BY <2>1, <2>2, EnrollmentAssumption DEF Bounded, Aligned
  <2>6. Surplus(WithFace(u, f)) = 0
    BY <2>1, <2>2 DEF Surplus
  <2> QED BY <1>1, <2>3, <2>4, <2>5, <2>6
<1>2. CASE u # NoUser
  <2>1. u \in User /\ u.embeddings \in Seq(Faces) /\ u.pictures \in Seq(Faces)
    BY <1>2 DEF User
  <2>2. WithFace(u, f) = [embeddings |-> Append(u.embeddings, f),
                          pictures   |-> Append(u.pictures, f)]
    BY <1>2 DEF WithFace
  <2>3. \A s \in Seq(Faces) : /\ Append(s, f) \in Seq(Faces)
                              /\ Len(Append(s, f)) = Len(s) + 1
                              /\ Append(s, f)[Len(s) + 1] = f
    OBVIOUS
  <2>4. Len(u.embeddings) \in Nat /\ Len(u.pictures) \in Nat
    BY <2>1
  <2>5. WithFace(u, f) \in User /\ WithFace(u, f) # NoUser
    <3>1. WithFace(u, f) \in User
      BY <2>1, <2>2, <2>3 DEF User
    <3> QED BY <3>1, EnrollmentAssumption DEF User
  <2>6. /\ Last(WithFace(u, f).pictures) = f
        /\ Last(WithFace(u, f).embeddings) = f
    <3>1. \A s \in Seq(Faces) : Last(Append(s, f)) = f
      BY <2>3 DEF Last
    <3> QED BY <2>1, <2>2, <3>1
  <2>7. HasRoom(u) => Bounded(WithFace(u, f))
    BY <1>2, <2>1, <2>2, <2>3, <2>4, EnrollmentAssumption DEF HasRoom, Bounded
  <2>8. Aligned(u) => Aligned(WithFace(u, f))
    BY <2>2 DEF Aligned
  <2>9. Surplus(WithFace(u, f)) = Surplus(u)
    <3>1. /\ Len(WithFace(u, f).embeddings) = Len(u.embeddings) + 1
          /\ Len(WithFace(u, f).pictures) = Len(u.pictures) + 1
      BY <2>1, <2>2, <2>3
    <3> QED BY <2>4, <3>1 DEF Surplus
  <2> QED BY <1>2, <2>5, <2>6, <2>7, <2>8, <2>9
<1> QED BY <1>1, <1>2

\* What DeletePicture saves is a record with one picture and one embedding
\* less; the limit, the surplus and the alignment are kept.
LEMMA WithoutPictureProperties ==
    ASSUME NEW u \in User, NEW index \in Nat,
           index < Len(u.embeddings), index < Len(u.pictures)
    PROVE  /\ WithoutPicture(u, index) \in User
           /\ WithoutPicture(u, index) # NoUser
           /\ Len(WithoutPicture(u, index).embeddings) = Len(u.embeddings) - 1
           /\ Len(WithoutPicture(u, index).pictures) = Len(u.pictures) - 1
           /\ Bounded(u) => Bounded(WithoutPicture(u, index))
           /\ Surplus(WithoutPicture(u, index)) = Surplus(u)
           /\ Aligned(u) => Aligned(WithoutPicture(u, index))
<1> DEFINE w == WithoutPicture(u, index)
<1>1. u.embeddings \in Seq(Faces) /\ u.pictures \in Seq(Faces)
  BY DEF User
<1>2. Len(u.embeddings) \in Nat /\ Len(u.pictures) \in Nat
  BY <1>1
<1>3. index + 1 \in 1..Len(u.embeddings) /\ index + 1 \in 1..Len(u.pictures)
  BY <1>2
<1>4. /\ w.embeddings = RemoveAt(u.embeddings, index + 1)
      /\ w.pictures = RemoveAt(u.pictures, index + 1)
      /\ w = [embeddings |-> w.embeddings, pictures |-> w.pictures]
  BY DEF WithoutPicture
<1>5. w.embeddings \in Seq(Faces) /\ Len(w.embeddings) = Len(u.embeddings) - 1
  BY <1>1, <1>3, <1>4, RemoveAtProperties
<1>6. w.pictures \in Seq(Faces) /\ Len(w.pictures) = Len(u.pictures) - 1
  BY <1>1, <1>3, <1>4, RemoveAtProperties
<1> HIDE DEF w
<1>7. w \in User
  BY <1>4, <1>5, <1>6 DEF User
<1>8. w # NoUser
  BY <1>7, EnrollmentAssumption DEF User
<1>9. Bounded(u) => Bounded(w)
  BY <1>2, <1>5, <1>6, EnrollmentAssumption DEF Bounded
<1>10. Aligned(u) => Aligned(w)
  BY <1>4 DEF Aligned
<1>11. Surplus(w) = Surplus(u)
  BY <1>2, <1>5, <1>6 DEF Surplus
<1> QED BY <1>5, <1>6, <1>7, <1>8, <1>9, <1>10, <1>11 DEF w
=============================================================================
