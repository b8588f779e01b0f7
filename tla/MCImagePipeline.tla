--------------------------- MODULE MCImagePipeline ---------------------------
(* The small instance of ImagePipeline for TLC.                             *)
EXTENDS ImagePipeline, TLC

\* A photo named as server.go:596 says, and the profile picture of user.go:100.
PhotoNames == {<<"u1", "p1", "webp">>}
ProfileNames == {<<"u1", "jpg">>}
=============================================================================
