--------------------------- MODULE MCUwbConnector ---------------------------
(***************************************************************************)
(* A small instance of UwbConnector: one session with a callback for its   *)
(* status and one for its end, and two callbacks of the device.            *)
(***************************************************************************)
EXTENDS UwbConnector, TLC

CONSTANTS c1, c2, s1, status1, ended1, device1, device2

\* The deregistering threads are interchangeable.
MCSymmetry == Permutations({c1, c2})

MCSlotOf ==
    status1 :> <<"OnSessionStatusChanged", s1>> @@
    ended1 :> <<"OnSessionEnded", s1>> @@
    device1 :> <<"OnStatusChanged", Device>> @@
    device2 :> <<"OnStatusChanged", Device>>

=============================================================================
