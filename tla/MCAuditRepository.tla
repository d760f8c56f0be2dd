------------------------- MODULE MCAuditRepository -------------------------
(***************************************************************************)
(* A small instance of AuditRepository: a recognition, which has no        *)
(* status, a stream check without a match and one without a face, whose    *)
(* full frame is twice as large as the images of faces.                    *)
(***************************************************************************)
EXTENDS AuditRepository

CONSTANTS f1, NoFace

Logged(endpoint, status, sec) ==
    [endpoint |-> endpoint, name |-> Nobody, matched |-> FALSE,
     status |-> status, face |-> IF status = "no_face" THEN NoFace ELSE f1,
     embedded |-> status # "no_face", sec |-> sec]

MCEntries == {Logged("recognize", "", 1),
              Logged("stream-check", "not_matched", 2),
              Logged("stream-check", "no_face", 1)}

MCBytes(e) == IF e.face = NoFace THEN 2 ELSE 1
=============================================================================
