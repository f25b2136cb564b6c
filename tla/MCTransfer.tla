----------------------------- MODULE MCTransfer -----------------------------
(***************************************************************************)
(* Transfer for the model checker: bytes that look like tags, two block    *)
(* geometries (two symbols of three bytes, and one).                       *)
(***************************************************************************)
EXTENDS Transfer

AppBytes == <<4, 7, 1, 2>>
TwoRequests == {[size |-> 5, k |-> 0, ppm |-> 1], [size |-> 3, k |-> 1, ppm |-> 9]}
Secret == <<3>>
TwoTokens == {<<>>, Secret}
OneOther == {Signal("nack", <<1, 2, 1>>)}
=============================================================================
