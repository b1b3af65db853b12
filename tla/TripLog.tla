------------------------------- MODULE TripLog -------------------------------
(***************************************************************************)
(* What the trip detector promises to the readers of vehicle_trips         *)
(* (src/telematics: the active trip, the recent closed trips, the          *)
(* statistics): a trip opens, grows and closes, a closed trip is final, a  *)
(* device has at most one open trip, and every run of the detector moves   *)
(* on in the device's events.  Events, batches, faults and retries are     *)
(* hidden.                                                                 *)
(***************************************************************************)
EXTENDS Integers

CONSTANTS Device, TripId, Nothing

VARIABLES
    position,  \* how far a device's events have been processed
    current,   \* the device's open trip, or Nothing
    row        \* status, device, start and end of every trip

vars == <<position, current, row>>

Unwritten == [status |-> "absent", device |-> Nothing, start |-> 0, end |-> 0]

Init == /\ position = [i \in Device |-> 0]
        /\ current = [i \in Device |-> Nothing]
        /\ row = [t \in TripId |-> Unwritten]

\* A row of device i may appear, be prolonged, or close; its start stays.
Moves(old, new, i) ==
    \/ new = old
    \/ /\ old.status = "absent"
       /\ new.status \in {"open", "closed"}
       /\ new.device = i
       /\ new.start <= new.end
    \/ /\ old.status = "open"
       /\ new.status \in {"open", "closed"}
       /\ old.device = i /\ new.device = i
       /\ new.start = old.start
       /\ new.end >= old.end

OnlyCurrent(r, c) == \A t \in TripId, i \in Device :
                        (r[t].status = "open" /\ r[t].device = i) <=> c[i] = t

\* One detector run of one device.
Advance(i) ==
    /\ position'[i] > position[i]
    /\ position' = [position EXCEPT ![i] = position'[i]]
    /\ current' = [current EXCEPT ![i] = current'[i]]
    /\ \A t \in TripId : Moves(row[t], row'[t], i)
    /\ OnlyCurrent(row', current')

\* The timeout: some open trips close as they are.
Expire ==
    \E S \in SUBSET {t \in TripId : row[t].status = "open"} :
        /\ row' = [t \in TripId |-> IF t \in S THEN [row[t] EXCEPT !.status = "closed"]
                                               ELSE row[t]]
        /\ current' = [i \in Device |-> IF current[i] \in S THEN Nothing ELSE current[i]]
        /\ UNCHANGED position

Next == Expire \/ \E i \in Device : Advance(i)

Spec == Init /\ [][Next]_vars

=============================================================================
