---------------------------- MODULE MCLifecycle ----------------------------
(***************************************************************************)
(* Databases of earlier versions for Lifecycle: a user in each format, with *)
(* enroll entries, and large images of one second without thumbnails.      *)
(***************************************************************************)
EXTENDS Lifecycle

CONSTANTS n1, i1, i2, b1, b2   \* a user, two crops, two large frames

Entry(endpoint, name, image, face) ==
    [endpoint |-> endpoint, name |-> name, image |-> image, thumb |-> None,
     face |-> face, sec |-> 1]

\* Two scans of one second, the second without a face, before any thumbnail writer.
Scans == <<Entry("scan", None, b1, TRUE), Entry("scan", None, b2, FALSE)>>

Enrolls == <<Entry("enroll", n1, i1, TRUE), Entry("enroll", n1, i2, TRUE)>>

Legacy(format) ==
    [format |-> format, embeddings |-> <<i1, i2>>, pictures |-> <<>>,
     updated |-> FALSE]

Current == [format |-> "record", embeddings |-> <<i1>>, pictures |-> <<i1>>,
            updated |-> TRUE]

Disk(u, entries) == [users |-> [n \in {n1} |-> u], log |-> entries]

MCDisks ==
    {Disk(u, Scans) : u \in {NoUser, Current}}
    \cup {Disk(Legacy(f), Enrolls) : f \in {"record", "array"}}
    \cup {Disk(Current, <<Enrolls[1]>>)}
=============================================================================
