------------------------ MODULE MCNearObjectSession ------------------------
(***************************************************************************)
(* A small instance of NearObjectSession: two calling threads, a session   *)
(* made without members or with two, and lists that hold one object, both, *)
(* or one object twice.                                                    *)
(***************************************************************************)
EXTENDS NearObjectSession, TLC

CONSTANTS a, b

MCInitial == {<<>>, <<a, b>>}
MCBatch == {<<a>>, <<b>>, <<a, b>>, <<b, b>>}

=============================================================================
