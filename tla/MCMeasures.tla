----------------------------- MODULE MCMeasures -----------------------------
(***************************************************************************)
(* The parts that measure and rate, on small instances: rate limits, trip  *)
(* metrics, challan ratings and the rows of vehicles.  They share no       *)
(* state, so TLC explores them one at a time (focus names the part that    *)
(* moves, the others rest).                                                *)
(***************************************************************************)
EXTENDS RateLimiter, TripMetrics, ChallanRating, Vehicles

VARIABLE focus

(* The buckets of one address; the cfg sizes them *)
Addresses == {"address"}

(* Trips of three events around 20:00, 05:00 and midnight *)
Missing == -999
Carries(odo, lat, speed, alert) ==
    [odo |-> odo, pos |-> [lat |-> lat, lon |-> 1], speed |-> speed, alert |-> alert]
Carried ==
    {Carries(600, 1, 1, FALSE), Carries(606, 2, 60, TRUE), Carries(594, 3, 150, FALSE),
     Carries(540, 2, 151, FALSE),                      \* reset
     Carries(7200, 1, 0, FALSE),                       \* jump
     Carries(Missing, 3, Missing, FALSE),              \* no odometer
     Carries(Missing, 0, 5, FALSE),                    \* a zero position
     Carries(Missing, 100, 5, FALSE),                  \* out of range
     Carries(612, Missing, 30, FALSE)}                 \* no position
Starts == {118, 28, 142}

(* Texts with keywords of two heavy categories and a light one *)
HeavyAndLight == {2, 3, 8}

(* Three lookups of two numbers; the vendor takes both for one vehicle, or for two *)
Numbers == {"a", "b"}
Lookups == {1, 2, 3}

MCInit ==
    /\ focus \in {"limits", "metrics", "ratings", "vehicles"}
    /\ Init /\ MetricsInit /\ RatingInit /\ VehicleInit
    /\ focus # "vehicles" => named = [n \in Numbers |-> n]

MCNext ==
    \/ focus = "limits" /\ Next /\ UNCHANGED <<metricsVars, ratingVars, vehicleVars, focus>>
    \/ focus = "metrics" /\ MetricsNext /\ UNCHANGED <<vars, ratingVars, vehicleVars, focus>>
    \/ focus = "ratings" /\ RatingNext /\ UNCHANGED <<vars, metricsVars, vehicleVars, focus>>
    \/ focus = "vehicles" /\ VehicleNext /\ UNCHANGED <<vars, metricsVars, ratingVars, focus>>

MCSpec == MCInit /\ [][MCNext]_<<vars, metricsVars, ratingVars, vehicleVars, focus>>

\* Every variable has its type, and the limits are configured as the code has them.
TypesOK == BucketAssumption /\ TypeOK /\ MetricsTypeOK
=============================================================================
