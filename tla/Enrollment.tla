---------------------------- MODULE Enrollment ----------------------------
(***************************************************************************)
(* The enrolled-user record of face-api (domain.User, stored as JSON in    *)
(* the bbolt bucket "Faces") and what the service does to one record.      *)
(*                                                                         *)
(* A face stands for one detected crop: the embedding and the JPEG that    *)
(* DetectAndCrop returns together are the same element of Faces, so "the   *)
(* two lists are index-aligned" is the equality of two sequences.  Users   *)
(* are numbered in the order of their bbolt keys.                          *)
(***************************************************************************)
EXTENDS Integers, Sequences, SequencesExt

CONSTANTS
    Names,               \* user names, numbered in key order
    Faces,               \* the distinct face crops that occur
    MaxPicturesPerUser,  \* domain.MaxPicturesPerUser (5 in the code)
    NoUser               \* no value is stored under the name

ASSUME EnrollmentAssumption ==
    /\ Names \subseteq Nat \ {0}
    /\ MaxPicturesPerUser \in Nat \ {0}
    /\ NoUser \notin [embeddings : Seq(Faces), pictures : Seq(Faces)]

User == [embeddings : Seq(Faces), pictures : Seq(Faces)]

\* Mutant of HasRoom: the limit checked with > instead of >=.
HasRoom_OffByOne(u) == u # NoUser => Len(u.embeddings) <= MaxPicturesPerUser

\* GetByName's "user %q not found" is read as an absent user; any stored
\* record with room for one more embedding may be extended.
HasRoom(u) == u # NoUser => Len(u.embeddings) < MaxPicturesPerUser

\* What EnrollImage and PromoteFromAudit save: both lists one longer.
WithFace(u, f) ==
    IF u = NoUser
      THEN [embeddings |-> <<f>>, pictures |-> <<f>>]
      ELSE [embeddings |-> Append(u.embeddings, f),
            pictures   |-> Append(u.pictures, f)]

\* Mutants of WithoutPicture: the second list is cut one place too early, or
\* only the picture is removed.
WithoutPicture_WrongIndex(u, index) ==
    [embeddings |-> RemoveAt(u.embeddings, index + 1),
     pictures   |-> RemoveAt(u.pictures, IF index = 0 THEN 1 ELSE index)]

WithoutPicture_KeepsEmbedding(u, index) ==
    [u EXCEPT !.pictures = RemoveAt(@, index + 1)]

\* What DeletePicture saves (index counts from 0).
WithoutPicture(u, index) ==
    [embeddings |-> RemoveAt(u.embeddings, index + 1),
     pictures   |-> RemoveAt(u.pictures, index + 1)]

\* The embeddings and the pictures come from the same crops, in one order.
Aligned(u) == u.embeddings = u.pictures

\* No limit is put on the pictures but that on the embeddings.
Bounded(u) == Len(u.embeddings) <= MaxPicturesPerUser

\* How many more pictures than embeddings u has: some, where a backfill gave an
\* old record pictures of a user deleted since (negative, where it gave none).
Surplus(u) == Len(u.pictures) - Len(u.embeddings)
=============================================================================
