---------------------------- MODULE UserGallery ----------------------------
(***************************************************************************)
(* What the enrolled-user store promises: a map from names to records that *)
(* changes only by whole operations, each applied to the record that is    *)
(* stored at that instant.  No picture is lost to a concurrent request, no *)
(* deleted user comes back with old pictures, and nobody exceeds the       *)
(* picture limit.  FaceService implements this specification.              *)
(***************************************************************************)
EXTENDS Enrollment

CONSTANT InitUsers       \* the records a name may start with

VARIABLE gallery         \* name -> record, or NoUser

Init == gallery \in [Names -> InitUsers]

\* One more picture of n: an enrollment or a promotion from the audit log.
AddPicture(n, f) ==
    /\ HasRoom(gallery[n])
    /\ gallery' = [gallery EXCEPT ![n] = WithFace(@, f)]

\* The picture with some index leaves both lists of the record.
RemovePicture(n) ==
    /\ gallery[n] # NoUser
    /\ \E index \in 0..Len(gallery[n].pictures) - 1 :
          /\ index < Len(gallery[n].embeddings)
          /\ gallery' = [gallery EXCEPT ![n] = WithoutPicture(@, index)]

RemoveUser(n) ==
    /\ gallery[n] # NoUser
    /\ gallery' = [gallery EXCEPT ![n] = NoUser]

Next ==
    \E n \in Names :
        \/ \E f \in Faces : AddPicture(n, f)
        \/ RemovePicture(n)
        \/ RemoveUser(n)

Spec == Init /\ [][Next]_gallery
=============================================================================
