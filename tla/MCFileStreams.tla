---------------------------- MODULE MCFileStreams ----------------------------
(* FileStreams with a writer and a reader. *)
EXTENDS FileStreams

CONSTANTS c1, c2

MCClients == {c1, c2}
MCKinds == (c1 :> {"write"}) @@ (c2 :> {"read"})
=============================================================================
