--------------------------- MODULE MCFaceService ---------------------------
(***************************************************************************)
(* Small instances of FaceService for TLC.                                 *)
(***************************************************************************)
EXTENDS FaceService

CONSTANTS f1, f2

\* A face scores 100 against itself; two faces score 30 against each other.
MCScore == [f \in {f1, f2} |-> [g \in {f1, f2} |-> IF f = g THEN 100 ELSE 30]]

OnlyNew == {NoUser}

\* Records from before pictures were stored: one that the backfill gave pictures
\* of an earlier user of the name too, and one that it found no picture for.
OldRecords == {NoUser, [embeddings |-> <<f1>>, pictures |-> <<f2, f1>>],
               [embeddings |-> <<f1>>, pictures |-> <<>>]}

AlignedRecords == {NoUser, [embeddings |-> <<f1>>, pictures |-> <<f1>>],
                   [embeddings |-> <<f2, f1>>, pictures |-> <<f2, f1>>]}

GalleryOps == {"enroll", "promote", "delete-user", "delete-picture",
               "stream-check"}
LogOps == {"recognize", "stream-check", "promote"}

\* Handlers are interchangeable.
ClientSymmetry == Permutations(Clients)
=============================================================================
