----------------------------- MODULE MCServers -----------------------------
(***************************************************************************)
(* The parts whose liveness is checked, on small instances: the packet     *)
(* store, the device server in front of it and the connection pool of the  *)
(* backend.  They meet in results each model leaves free, so TLC explores  *)
(* them one at a time (focus names the part that moves, the others rest).  *)
(***************************************************************************)
EXTENDS PacketStore, DeviceServer, BatchPool

VARIABLE focus

(* The store: two connections of one device *)
NoTime == 0
Data(id, conn, kind, gps) == [id |-> id, conn |-> conn, kind |-> kind, imei |-> "imei", gps |-> gps]
First == Data(1, 1, "DP", 1)
Second == Data(2, 2, "DP", 2)
Login == Data(3, 1, "LI", NoTime)
Broken == {Data(4, 1, "invalid", NoTime), Data(5, 1, "short", 3), Data(6, 2, "DP", NoTime)}
Packets == {First, Second, Login} \cup Broken
PacketLoads == {{First, Login, Second}, {First} \cup Broken}
Devices == {"imei"}

(* The server: one connection with a stream worth framing, one without data, and one
   from the server's own host *)
Conns == {"device", "other", "own"}
Own == {"own"}
Symbols == {<<"x", "$", "D", "*", "x", "*", "$", "b", "*", "$">>,  \* garbage between packets
            <<"$", "?", "*">>,                                     \* an invalid character
            <<"$", "b", "b", "b", "*">>,                           \* oversized
            <<"$", "b", "b", "b", "b">>}                           \* never ends
Sending == {[c \in Conns |-> IF c = "device" THEN s ELSE <<>>] : s \in Symbols}

(* The pool: as many batches as connections *)
Batches == 1..2

MCInit ==
    /\ focus \in {"server", "store", "pool"}
    /\ Init /\ ServerInit /\ PoolInit
    /\ focus # "store" => sent = {First, Login, Second}
    /\ focus # "server" => stream["device"] = <<"$", "?", "*">>

MCNext ==
    \/ focus = "store" /\ Next /\ UNCHANGED <<serverVars, poolVars, focus>>
    \/ focus = "server" /\ ServerNext /\ UNCHANGED <<vars, poolVars, focus>>
    \/ focus = "pool" /\ PoolNext /\ UNCHANGED <<vars, serverVars, focus>>

MCSpec == /\ MCInit /\ [][MCNext]_<<vars, serverVars, poolVars, focus>>
          /\ Fairness /\ ServerFairness /\ HealthClientsSpeak /\ PoolFairness

\* Every variable has its type.
TypesOK == TypeOK /\ ServerTypeOK /\ PoolTypeOK
=============================================================================
