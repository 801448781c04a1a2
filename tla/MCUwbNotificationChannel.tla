---------------------- MODULE MCUwbNotificationChannel ----------------------
(***************************************************************************)
(* A small instance of UwbNotificationChannel: notifications of two sizes, *)
(* all larger than the buffer of the first attempt.                        *)
(***************************************************************************)
EXTENDS UwbNotificationChannel, TLC

CONSTANTS n1, n2, n3

MCSize == n1 :> 2 @@ n2 :> 3 @@ n3 :> 2

=============================================================================
