---------------------------- MODULE MCTripWorker ----------------------------
(* Small instances of TripWorker for TLC. *)
EXTENDS TripWorker

OneImei == {"imei1"}
TwoImei == {"imei1", "imei2"}
Trips4 == 1..4
Trips6 == 1..6
Gps1 == 0..1
Gps2 == 0..2
Gps3 == 0..3
=============================================================================
