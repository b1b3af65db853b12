------------------------------ MODULE Vehicles ------------------------------
(***************************************************************************)
(* Registration data of vehicles (src/vehicles): answered from the table,  *)
(* or fetched from the vendor, stored and answered.  Requests run in the   *)
(* processes of the backend; a row is inserted and committed under the     *)
(* number the vendor names, which is the primary key.                      *)
(***************************************************************************)
EXTENDS FiniteSets

CONSTANTS
    Number,    \* registration numbers, normalised as ValidateVehicleNumber does
    Request    \* lookups, each made once

VARIABLES
    named,     \* rc_number in the vendor's answer for each requested number
    stored,    \* numbers with a row
    lookupPc,  \* where each request is
    asked,     \* the number it asks for
    answer     \* how it ended

vehicleVars == <<named, stored, lookupPc, asked, answer>>

Goto(r, place) == lookupPc' = [lookupPc EXCEPT ![r] = place]
Ends(r, how) == Goto(r, "done") /\ answer' = [answer EXCEPT ![r] = how]

\* get: a row is answered as it is; without one the vendor is asked.
Get(r) ==
    /\ lookupPc[r] = "idle"
    /\ \E n \in Number :
          /\ asked' = [asked EXCEPT ![r] = n]
          /\ IF n \in stored THEN Ends(r, "row") ELSE Goto(r, "fetch") /\ UNCHANGED answer
    /\ UNCHANGED <<named, stored>>

Fetch(r) ==
    /\ lookupPc[r] = "fetch"
    /\ Goto(r, "insert")
    /\ UNCHANGED <<named, stored, asked, answer>>

\* A failed call answers details without content and stores nothing; a response that _map
\* cannot read is outside of the try, and the request fails.
FetchFails(r) ==
    /\ lookupPc[r] = "fetch"
    /\ \E how \in {"empty", "error"} : Ends(r, how)
    /\ UNCHANGED <<named, stored, asked>>

\* rc_number of the response.
RcNumber(r) == named[asked[r]]

\* Fault: a second row replaces the first.
TakenNever(r) == FALSE
\* The primary key is taken, also by a transaction that committed since the miss.
Taken(r) == RcNumber(r) \in stored

InsertVehicle(r) ==
    /\ lookupPc[r] = "insert" /\ ~Taken(r)
    /\ stored' = stored \cup {RcNumber(r)}
    /\ Ends(r, "inserted")
    /\ UNCHANGED <<named, asked>>

InsertVehicleFails(r) ==
    /\ lookupPc[r] = "insert" /\ Taken(r)
    /\ Ends(r, "error")
    /\ UNCHANGED <<named, stored, asked>>

VehicleInit ==
    /\ named \in {f \in [Number -> Number] : \A n \in Number : f[f[n]] = f[n]}
    /\ stored = {}
    /\ lookupPc = [r \in Request |-> "idle"]
    /\ asked = [r \in Request |-> CHOOSE n \in Number : TRUE]
    /\ answer = [r \in Request |-> "none"]

VehicleNext ==
    \E r \in Request : \/ Get(r) \/ Fetch(r) \/ FetchFails(r)
                      \/ InsertVehicle(r) \/ InsertVehicleFails(r)

VehicleSpec == VehicleInit /\ [][VehicleNext]_vehicleVars

-----------------------------------------------------------------------------
(* Properties *)

\* However first lookups of a vehicle overlap, and whichever numbers the vendor takes for
\* one vehicle, a row is inserted by one request: the others that fetched it fail, none
\* of them is told of a row that is not its own insert or older.
InsertedOnce ==
    LET inserting(n) == {r \in Request : answer[r] = "inserted" /\ RcNumber(r) = n}
    IN  /\ \A n \in Number : Cardinality(inserting(n)) = IF n \in stored THEN 1 ELSE 0
        /\ \A r \in Request : answer[r] = "row" => inserting(asked[r]) # {}

=============================================================================
