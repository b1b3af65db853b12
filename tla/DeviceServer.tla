---------------------------- MODULE DeviceServer ----------------------------
(***************************************************************************)
(* The TCP server for devices (telematics/main.py): admission, framing of  *)
(* what a connection receives, the health endpoint and the shutdown.       *)
(*                                                                         *)
(* A stream is a sequence of symbols: "$" and "*" delimit a packet, "?" is *)
(* a character is_valid_encoding rejects, "D" a DP header with an          *)
(* identifier, and the others stand for themselves.  A handler runs        *)
(* without interruption between two awaits; the steps here are those       *)
(* pieces, the inner loop cut once per packet.  Python 3.13, of the image: *)
(* Server.wait_closed waits until the transports of its connections are    *)
(* closed.  Verdicts of the rate limiters are free (see RateLimiter).      *)
(***************************************************************************)
EXTENDS Integers, FiniteSets, SequencesExt

CONSTANTS
    Conn,            \* connections
    Loopback,        \* those from the server's own host
    Streams,         \* what the devices may send, one stream per connection
    MaxConnections,  \* slots of the semaphore
    MaxPacket,       \* longest packet
    MaxBuffer,       \* longest unframed rest
    MaxDenials       \* bound on the rate-limited packets

\* Limits are counts, and what a device sends is finite.
ASSUME ServerAssumption ==
    /\ MaxConnections \in Nat /\ MaxDenials \in Nat
    /\ \A sending \in Streams : \A c \in Conn : sending[c] \in Seq(STRING)

VARIABLES
    handlerPc,  \* where the handler of each connection is
    transport,  \* "open", "lost" (by the device) or "closed" (by the handler)
    stream,     \* all a device sends
    read,       \* how many of its symbols were read
    buf,        \* the handler's buffer
    taken,      \* history: the packets handed to the service
    denials,    \* history: how many of its packets were rate-limited
    slots,      \* active_connections_sem
    active,     \* active_tasks
    shutdown,   \* shutdown_event
    phase,      \* where run_server is
    drain,      \* tasks_to_drain
    cut,        \* history: handlers cancelled while the service had their packet
    health      \* where the handler of a health request is

handler == <<handlerPc, transport, read, buf, taken, denials, slots, active>>
server == <<shutdown, phase, drain, cut>>
serverVars == <<handler, stream, server, health>>

Moves(c, place) == handlerPc' = [handlerPc EXCEPT ![c] = place]

\* str.find: the first position of a symbol, 0 when there is none.
Find(s, symbol) == SelectInSeq(s, LAMBDA x : x = symbol)
From(s, i) == SubSeq(s, i, Len(s))
\* Garbage before the next start marker is dropped, and everything without one.
Trim(s) == IF Find(s, "$") = 0 THEN <<>> ELSE From(s, Find(s, "$"))

-----------------------------------------------------------------------------
(* The handler of a connection, handle_client *)

\* Connections from the own host, and those beyond the limit, are closed unread.
Refuse(c) ==
    /\ handlerPc[c] = "away" /\ phase = "serving"
    /\ c \in Loopback \/ slots = 0
    /\ Moves(c, "done")
    /\ UNCHANGED <<transport, stream, read, buf, taken, denials, slots, active, server, health>>

Admit(c) ==
    /\ handlerPc[c] = "away" /\ phase = "serving"
    /\ c \notin Loopback /\ slots > 0
    /\ Moves(c, "loop")
    /\ transport' = [transport EXCEPT ![c] = "open"]
    /\ slots' = slots - 1
    /\ active' = active \cup {c}
    /\ UNCHANGED <<stream, read, buf, taken, denials, server, health>>

\* The head of the loop: at a shutdown, or after its lifetime, the connection ends.
LoopHead(c) ==
    /\ handlerPc[c] = "loop"
    /\ \/ ~shutdown /\ Moves(c, "reading")
       \/ Moves(c, "closing")
    /\ UNCHANGED <<transport, stream, read, buf, taken, denials, slots, active, server, health>>

\* Fault: what a chunk leaves unfinished is dropped.
KeepNothing(c, chunk) == Trim(chunk)
Collect(c, chunk) == Trim(buf[c] \o chunk)

Read(c) ==
    /\ handlerPc[c] = "reading" /\ transport[c] = "open"
    /\ \E n \in read[c] + 1 .. Len(stream[c]) :
         /\ buf' = [buf EXCEPT ![c] = Collect(c, SubSeq(stream[c], read[c] + 1, n))]
         /\ read' = [read EXCEPT ![c] = n]
    /\ Moves(c, IF buf'[c] = <<>> THEN "loop" ELSE "packets")
    /\ UNCHANGED <<transport, stream, taken, denials, slots, active, server, health>>

\* Fault: no idle timeout, only a lost connection ends a read.
MayEndLost(c) == transport[c] = "lost"
\* The idle timeout, the end of the stream, or the exception of a lost connection.
MayEnd(c) == TRUE
ReadEnds(c) ==
    /\ handlerPc[c] = "reading"
    /\ MayEnd(c)
    /\ Moves(c, "closing")
    /\ UNCHANGED <<transport, stream, read, buf, taken, denials, slots, active, server, health>>

Unfinished(c) ==
    /\ handlerPc[c] = "packets" /\ Find(buf[c], "*") = 0
    /\ Moves(c, IF Len(buf[c]) > MaxBuffer THEN "closing" ELSE "loop")
    /\ UNCHANGED <<transport, stream, read, buf, taken, denials, slots, active, server, health>>

NextPacket(c) == SubSeq(buf[c], 1, Find(buf[c], "*"))
Rest(c) == From(buf[c], Find(buf[c], "*") + 1)
Acceptable(p) == Len(p) <= MaxPacket /\ Find(p, "?") = 0

Reject(c) ==
    /\ handlerPc[c] = "packets" /\ Find(buf[c], "*") # 0
    /\ ~Acceptable(NextPacket(c))
    /\ buf' = [buf EXCEPT ![c] = Rest(c)]
    /\ Moves(c, "closing")
    /\ UNCHANGED <<transport, stream, read, taken, denials, slots, active, server, health>>

\* Over the rate of its address, or, for a DP packet, of its device: the packet is
\* dropped, and the loop goes on without the trim at its end.
Deny(c) ==
    /\ handlerPc[c] = "packets" /\ Find(buf[c], "*") # 0
    /\ Acceptable(NextPacket(c))
    /\ denials[c] < MaxDenials
    /\ buf' = [buf EXCEPT ![c] = Rest(c)]
    /\ denials' = [denials EXCEPT ![c] = @ + 1]
    /\ UNCHANGED <<handlerPc, transport, stream, read, taken, slots, active, server, health>>

Serve(c) ==
    /\ handlerPc[c] = "packets" /\ Find(buf[c], "*") # 0
    /\ Acceptable(NextPacket(c))
    /\ taken' = [taken EXCEPT ![c] = Append(@, NextPacket(c))]
    /\ buf' = [buf EXCEPT ![c] = Rest(c)]
    /\ Moves(c, "service")
    /\ UNCHANGED <<transport, stream, read, denials, slots, active, server, health>>

\* process_packet returns or raises; either way the loop trims and goes on.
Served(c) ==
    /\ handlerPc[c] = "service"
    /\ buf' = [buf EXCEPT ![c] = Trim(@)]
    /\ Moves(c, IF buf'[c] = <<>> THEN "loop" ELSE "packets")
    /\ UNCHANGED <<transport, stream, read, taken, denials, slots, active, server, health>>

\* The device is gone; a handler that awaits the service does not notice.
Lose(c) ==
    /\ transport[c] = "open"
    /\ transport' = [transport EXCEPT ![c] = "lost"]
    /\ UNCHANGED <<handlerPc, stream, read, buf, taken, denials, slots, active, server, health>>

\* finally: writer.close() and wait_closed(), then the slot and the task set.
CloseTransport(c) ==
    /\ handlerPc[c] = "closing"
    /\ transport' = [transport EXCEPT ![c] = "closed"]
    /\ Moves(c, "leaving")
    /\ UNCHANGED <<stream, read, buf, taken, denials, slots, active, server, health>>

\* Fault: a cancelled handler keeps its slot.
ReleasedUnlessCut(c) == IF c \in cut THEN slots ELSE slots + 1
Released(c) == slots + 1

Leave(c) ==
    /\ handlerPc[c] = "leaving"
    /\ slots' = Released(c)
    /\ active' = active \ {c}
    /\ Moves(c, "done")
    /\ UNCHANGED <<transport, stream, read, buf, taken, denials, server, health>>

-----------------------------------------------------------------------------
(* The health endpoint, handle_health_client: no timeout on the request line *)

HealthConnect ==
    /\ health = "none" /\ phase \in {"serving", "closing"}
    /\ health' = "reading"
    /\ UNCHANGED <<handler, stream, server>>

\* A request line arrives (or the client closes): only /ready asks the database.
HealthRequest ==
    /\ health = "reading"
    /\ health' \in {"none", "probing"}
    /\ UNCHANGED <<handler, stream, server>>

HealthAnswer ==
    /\ health = "probing"
    /\ health' = "none"
    /\ UNCHANGED <<handler, stream, server>>

-----------------------------------------------------------------------------
(* run_server *)

Signal ==
    /\ ~shutdown
    /\ shutdown' = TRUE
    /\ UNCHANGED <<handler, stream, phase, drain, cut, health>>

\* server.wait_closed(): every transport of the server is closed.
Disconnected == \A c \in Conn : transport[c] # "open"

Shutdown ==
    /\ shutdown
    /\ \/ /\ phase = "serving" /\ phase' = "closing"
          /\ UNCHANGED drain
       \/ /\ phase = "closing" /\ Disconnected
          /\ phase' = "closing health"
          /\ UNCHANGED drain
       \/ /\ phase = "closing health" /\ health = "none"
          /\ phase' = "draining" /\ drain' = active
    /\ UNCHANGED <<handler, stream, shutdown, cut, health>>

\* The drain times out: its tasks are cancelled where they wait.
DrainTimeout ==
    /\ phase = "draining" /\ drain \cap active # {}
    /\ phase' = "cancelling"
    /\ handlerPc' = [c \in Conn |->
                IF c \notin drain \cap active THEN handlerPc[c]
                ELSE IF handlerPc[c] = "leaving" THEN "leaving" ELSE "closing"]
    /\ cut' = cut \cup {c \in drain : handlerPc[c] = "service"}
    /\ UNCHANGED <<transport, stream, read, buf, taken, denials, slots, active,
                   shutdown, drain, health>>

\* Fault: the tasks that were cancelled are not awaited.
DrainedOrCancelled == phase = "cancelling" \/ drain \cap active = {}
Drained == drain \cap active = {}

\* The pruning task is cancelled and the pool closed.
Stop ==
    /\ phase \in {"draining", "cancelling"}
    /\ Drained
    /\ phase' = "stopped"
    /\ UNCHANGED <<handler, stream, shutdown, drain, cut, health>>

-----------------------------------------------------------------------------
ServerInit ==
    /\ handlerPc = [c \in Conn |-> "away"]
    /\ transport = [c \in Conn |-> "closed"]
    /\ stream \in Streams
    /\ read = [c \in Conn |-> 0]
    /\ buf = [c \in Conn |-> <<>>]
    /\ taken = [c \in Conn |-> <<>>]
    /\ denials = [c \in Conn |-> 0]
    /\ slots = MaxConnections
    /\ active = {} /\ drain = {} /\ cut = {}
    /\ shutdown = FALSE
    /\ phase = "serving"
    /\ health = "none"

\* What the handler of c does of itself.
Handler(c) ==
    \/ LoopHead(c) \/ Read(c) \/ ReadEnds(c) \/ Unfinished(c) \/ Reject(c)
    \/ Deny(c) \/ Serve(c) \/ Served(c) \/ CloseTransport(c) \/ Leave(c)

Server == Shutdown \/ DrainTimeout \/ Stop

ServerNext ==
    \/ \E c \in Conn : Refuse(c) \/ Admit(c) \/ Lose(c) \/ Handler(c)
    \/ HealthConnect \/ HealthRequest \/ HealthAnswer
    \/ Signal \/ Server

\* The event loop runs what is ready; reads have a timeout, and the service ends
\* because its queries have timeouts and a bounded number of retries.
ServerFairness ==
    /\ \A c \in Conn : WF_serverVars(Handler(c))
    /\ WF_serverVars(HealthAnswer)
    /\ WF_serverVars(Server)
\* Of the clients of the health endpoint, not of the code: each sends its request line, or
\* goes.  One that stays silent holds up the shutdown, as its read has no timeout.
HealthClientsSpeak == WF_serverVars(HealthRequest)

ServerSpec == ServerInit /\ [][ServerNext]_serverVars /\ ServerFairness

-----------------------------------------------------------------------------
(* Properties *)

ServerTypeOK ==
    /\ handlerPc \in [Conn -> {"away", "loop", "reading", "packets", "service", "closing",
                        "leaving", "done"}]
    /\ transport \in [Conn -> {"open", "lost", "closed"}]
    /\ stream \in Streams
    /\ read \in [Conn -> Nat] /\ \A c \in Conn : read[c] <= Len(stream[c])
    /\ denials \in [Conn -> 0..MaxDenials]
    /\ slots \in 0..MaxConnections
    /\ active \subseteq Conn /\ drain \subseteq Conn /\ cut \subseteq Conn
    /\ shutdown \in BOOLEAN
    /\ phase \in {"serving", "closing", "closing health", "draining", "cancelling", "stopped"}
    /\ health \in {"none", "reading", "probing"}

\* What is framed after one more symbol: a packet goes from a start marker to the next
\* end, and what is outside of packets is dropped.
Frame(f, x) ==
    IF f.open = <<>> /\ x # "$" THEN f
    ELSE IF x = "*" THEN [open |-> <<>>, out |-> Append(f.out, Append(f.open, x))]
    ELSE [f EXCEPT !.open = Append(@, x)]

Framed(f, s) ==
    LET framed[n \in 0..Len(s)] == IF n = 0 THEN f ELSE Frame(framed[n - 1], s[n])
    IN  framed[Len(s)]

Outside == [open |-> <<>>, out |-> <<>>]
\* The packets of a stream, read in one piece.
Frames(s) == Framed(Outside, s).out

\* The packets handed over are those of the stream, whatever chunks it arrived in, as
\* long as none was rate-limited: none is lost, repeated, cut or joined to garbage.
FramingIgnoresChunks ==
    \A c \in Conn : handlerPc[c] = "reading" /\ denials[c] = 0 =>
        taken[c] = Frames(SubSeq(stream[c], 1, read[c]))

\* A slot is taken by exactly the handlers that are tracked, so none is leaked and a
\* handler that found the semaphore unlocked never waits for it.
SlotsTracked == slots = MaxConnections - Cardinality(active)

\* When the pool is closed no handler and no health request still uses it.
PoolOutlivesHandlers ==
    phase = "stopped" => /\ \A c \in Conn : handlerPc[c] \in {"away", "done"}
                         /\ health = "none"

\* The drain timeout cuts off only packets of devices that were gone already.
CutOnlyLost == \A c \in cut : transport[c] # "open"

\* A shutdown cuts nothing off that could go on and leaves nothing running on the closed
\* pool: the parts above.
ShutdownIsClean == PoolOutlivesHandlers /\ CutOnlyLost

\* A shutdown completes, whatever the devices do.
ShutdownCompletes == shutdown ~> phase = "stopped"

=============================================================================
