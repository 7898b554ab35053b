------------------------------ MODULE Sockets ------------------------------
(***************************************************************************)
(* The connections between the clients and the server, as far as the code  *)
(* of either side can tell: a queue of connections nobody has accepted     *)
(* yet and, for each connection, what one side has written and the other   *)
(* has not read.  What one call of write passes on is one piece; a read of *)
(* that length gets the whole piece.                                       *)
(***************************************************************************)
EXTENDS Naturals, Sequences

CONSTANTS Clients,       \* one connection each, so these also name the sockets
          Frail          \* clients that may be killed, and connections reset

VARIABLES listening,     \* the server's process lives
          backlog,       \* connections that wait for accept()
          conn           \* conn[c]: the connection of client c

sockVars == <<listening, backlog, conn>>

(* end: the client's end is "unused", "open" or "closed", and "over" when   *)
(* the server has closed its own end too.  reset: the server's end has been *)
(* told that nobody will read what it writes.                              *)
Unconnected == [up |-> <<>>, down |-> <<>>, end |-> "unused", reset |-> FALSE]

SockInit == listening = TRUE /\ backlog = <<>> /\ conn = [c \in Clients |-> Unconnected]

Connected(c) == [conn EXCEPT ![c].end = "open"]
Open(c) == conn[c].end = "open"
Gone(c) == conn[c].end = "closed"

-----------------------------------------------------------------------------
(* The server's end.  A read gets data, or the end of the stream, or an    *)
(* error; it waits as long as there is none of these.                      *)
HasData(c) == conn[c].up # <<>>
Ended(c)   == ~HasData(c) /\ Gone(c)
Failed(c)  == Ended(c) /\ conn[c].reset
Ready(c)   == HasData(c) \/ Ended(c)

Taken(c) == [conn EXCEPT ![c].up = Tail(@)]
Over(c)  == [conn EXCEPT ![c].end = "over"]

(* Nobody reads what is written to a client that has gone.  It is answered *)
(* with a reset, and writing again then raises SIGPIPE.                    *)
Written(c, pieces) == IF Open(c) THEN [conn EXCEPT ![c].down = @ \o pieces] ELSE conn
MayKill(c, pieces) == Gone(c) /\ (conn[c].reset \/ Len(pieces) > 1)

(* A reset comes some time after the client has gone, or never. *)
Reset(c) == /\ Gone(c) /\ c \in Frail
            /\ conn' = [conn EXCEPT ![c].reset = TRUE]
            /\ UNCHANGED <<listening, backlog>>

-----------------------------------------------------------------------------
(* The client's end.  What was on its way when the server's process ended  *)
(* may still arrive, or not.                                               *)
Sent(c, piece) == [conn EXCEPT ![c].up = Append(@, piece)]
Arrived(c)     == conn[c].down # <<>>
Fetched(c)     == [conn EXCEPT ![c].down = Tail(@)]
CutShort(c)    == ~listening /\ (~Arrived(c) \/ HasData(c))
Closed(c)      == [conn EXCEPT ![c].end = "closed", ![c].down = <<>>]
=============================================================================
