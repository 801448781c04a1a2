---------------------------- MODULE MCUwbSession ----------------------------
(***************************************************************************)
(* Small instances of UwbSession.  Clients, objects and addresses are      *)
(* interchangeable and only safety is checked.                             *)
(***************************************************************************)
EXTENDS UwbSession, TLC

MCSymmetry ==
    Permutations(Caller) \cup Permutations(Object) \cup Permutations(Address)

\* Configurations without controlees: they are added one by one.
MCConfigured == {{}}

=============================================================================
