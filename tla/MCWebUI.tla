------------------------------ MODULE MCWebUI ------------------------------
(***************************************************************************)
(* A small instance of WebUI, behind an ingress that strips "/face": two   *)
(* tabs, one user with two pictures, a threshold out of range, one inside  *)
(* and NaN.                                                                *)
(***************************************************************************)
EXTENDS WebUI

CONSTANTS f1, f2, t1, t2

MCSubmits == [t \in {t1, t2} |->
    IF t = t1 THEN {"threshold", "delete"} ELSE {"login", "recognize", "enroll", "delete_picture"}]

MCBase == <<"face">>
MCNames == {1}
MCInputs == {60, 100, NaN}
MCInitUsers == {[embeddings |-> <<f1, f2>>, pictures |-> <<f1, f2>>]}
=============================================================================
