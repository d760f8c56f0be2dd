----------------------------- MODULE Migration -----------------------------
(***************************************************************************)
(* What a start of face-api does to a database that an earlier version     *)
(* wrote: BackfillUsersFromAudit gives users without pictures the faces of *)
(* their enroll entries, and BackfillAuditThumbnails stores thumbnails     *)
(* with the large images of the audit log.                                 *)
(*                                                                         *)
(* An image is one element of Images wherever it is stored; an embedding   *)
(* is named by the image it was computed from, and a thumbnail by the      *)
(* image it shows.                                                         *)
(***************************************************************************)
EXTENDS Integers, Sequences, SequencesExt

CONSTANTS
    Names,               \* user names
    Images,              \* base64 images
    Large,               \* those above thumbnailSizeThreshold that decode
    MaxPicturesPerUser,  \* domain.MaxPicturesPerUser
    ThumbLimit,          \* how many entries the second backfill looks at (100000)
    NoUser,              \* no value is stored under the name
    None                 \* no image, no thumbnail

ASSUME MigrationAssumption ==
    /\ Large \subseteq Images
    /\ MaxPicturesPerUser \in Nat \ {0}
    /\ ThumbLimit \in Nat
    /\ None \notin Images
    /\ NoUser \notin [format : {"record", "array"}, embeddings : Seq(Images),
                      pictures : Seq(Images), updated : BOOLEAN]

\* A stored user is a JSON record or, in the oldest format, an array of
\* embeddings; updated says whether the record has an updated_at.
StoredUser == [format : {"record", "array"}, embeddings : Seq(Images),
               pictures : Seq(Images), updated : BOOLEAN]

\* face is FALSE in the entry of a check that found no face: its image is the
\* camera frame.
StoredEntry == [endpoint : {"enroll", "scan"}, name : Names \cup {None},
                image : Images \cup {None}, thumb : Images \cup {None},
                face : BOOLEAN, sec : Nat]
-----------------------------------------------------------------------------
\* Is e an enrollment of n whose image can be recovered?
IsEnrollOf(e, n) == e.endpoint = "enroll" /\ e.name = n /\ e.image # None

\* One turn of the loop that groups the entries: the group of n is full after
\* MaxPicturesPerUser.
Group(log, n, i, pictures) ==
    IF IsEnrollOf(log[i], n) /\ Len(pictures) < MaxPicturesPerUser
      THEN Append(pictures, log[i].image)
      ELSE pictures

\* The loop, from Last to Prev: the group of n after the k newest entries.
Grouped(log, n) ==
    LET grouped[k \in 0..Len(log)] ==
          IF k = 0 THEN <<>> ELSE Group(log, n, Len(log) - k + 1, grouped[k - 1])
    IN  grouped

\* What n gets: the newest images, newest first.
Recovered(log, n) == Grouped(log, n)[Len(log)]

\* Mutant of NeedsPictures: every record without pictures is filled.
NeedsPictures_AnyAge(u) == u # NoUser /\ u.format = "record" /\ u.pictures = <<>>

\* An array does not unmarshal into a record and is skipped.
NeedsPictures(u) ==
    /\ u # NoUser
    /\ u.format = "record"
    /\ u.pictures = <<>>
    /\ ~u.updated

\* BackfillUsersFromAudit: one transaction over both buckets.
Backfill(users, log) ==
    [n \in DOMAIN users |->
       IF NeedsPictures(users[n]) /\ \E i \in DOMAIN log : IsEnrollOf(log[i], n)
         THEN [users[n] EXCEPT !.pictures = Recovered(log, n), !.updated = TRUE]
         ELSE users[n]]
-----------------------------------------------------------------------------
\* thumbnailForEntry: nothing for small images or ones that do not decode.
ThumbOf(image) == IF image \in Large THEN image ELSE None

NeedsThumb(e) == e.thumb = None /\ ThumbOf(e.image) # None

\* A thumbnail shows the image it is stored with, and only large images have one.
ThumbsFit(log) ==
    \A i \in DOMAIN log :
       log[i].thumb # None => log[i].thumb = log[i].image /\ log[i].image \in Large

\* Mutant of SetFaceThumb: only the time is compared.
SetFaceThumb_ByTime(log, sec, image) ==
    [i \in DOMAIN log |->
       IF log[i].sec = sec THEN [log[i] EXCEPT !.thumb = ThumbOf(image)] ELSE log[i]]

\* SetFaceThumb: every entry with this time, to the second, and this image.
SetFaceThumb(log, sec, image) ==
    [i \in DOMAIN log |->
       IF log[i].sec = sec /\ log[i].image = image
         THEN [log[i] EXCEPT !.thumb = ThumbOf(image)]
         ELSE log[i]]

\* What Recent(ThumbLimit) lists.
Listed(log) == {i \in DOMAIN log : i > Len(log) - ThumbLimit}

\* The next entry of the list, newest first, that needs a thumbnail when the
\* loop has come down to entry at.
IsNextForThumb(log, at, i) ==
    LET waiting == {j \in Listed(log) : j <= at /\ NeedsThumb(log[j])}
    IN  i \in waiting /\ \A j \in waiting : j <= i
=============================================================================
