---------------------------- MODULE MCPublication ----------------------------
(* Publication for model checking: two runs, for the life of a publication *)
(* and for what they do to each other through the shared /source.          *)
EXTENDS Publication
=============================================================================
