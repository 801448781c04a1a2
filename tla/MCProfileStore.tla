---------------------------- MODULE MCProfileStore ----------------------------
(* ProfileStore with two profiles that differ in their scope and security. *)
EXTENDS ProfileStore, TLC

MCProfile == {[scope |-> "Unicast", security |-> FALSE],
              [scope |-> "Multicast", security |-> TRUE]}

Symmetry == Permutations(Caller)
=============================================================================
