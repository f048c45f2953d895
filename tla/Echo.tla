--------------------------------- MODULE Echo ----------------------------------
(****************************************************************************)
(* The socket examples under examples/protocols/sockets: an echo server and *)
(* a client, over TCP and over UDP.                                         *)
(*                                                                          *)
(* The client sends a message, waits without a timeout for an answer,       *)
(* pauses and sends again; the server sends back what it receives.  Both    *)
(* leave their inner loop on an error, close the socket and start over;     *)
(* an error before that loop ends the task.  The TCP server closes the      *)
(* connection but never the socket it listens on, so its second bind finds  *)
(* the port in use.                                                         *)
(*                                                                          *)
(* Bytes are counted, not named.  TCP keeps their order and number and      *)
(* hands them over in pieces; a connection may break.  UDP may lose,        *)
(* duplicate and reorder datagrams.                                         *)
(*                                                                          *)
(* Operators named X_y (y a word for a fault) are faulty variants of X that *)
(* the mutation checks use; the specification does not.                     *)
(****************************************************************************)
EXTENDS Integers, FiniteSets

CONSTANTS
    MsgLen,     \* length of the payload
    BufLen,     \* sizeof(rx_buffer) - 1
    MaxSent,    \* bound: messages sent
    MaxFaults   \* bound: connections broken, datagrams lost or doubled, sockets refused

ASSUME EchoAssumption == MsgLen \in Nat /\ BufLen \in Nat

VARIABLES
    proto,      \* "tcp" or "udp", for both programs
    server,     \* the server task: [pc, sock, held]
    client,     \* the client task: [pc, sock]
    port,       \* the server's port: "free", "bound", "listening"
    conns,      \* TCP connections so far, a function on 1 .. n
    toServer,   \* UDP datagrams on their way, each [n, copy]
    toClient,
    sent,       \* messages sent
    faults      \* faults so far

echoVars == <<proto, server, client, port, conns, toServer, toClient, sent, faults>>

EchoInit ==
    /\ proto \in {"tcp", "udp"}
    /\ server = [pc |-> "socket", sock |-> 0, held |-> 0]
    /\ client = [pc |-> "socket", sock |-> 0]
    /\ port = "free" /\ conns = <<>> /\ toServer = {} /\ toClient = {}
    /\ sent = 0 /\ faults = 0

atMost(a, b) == IF a < b THEN a ELSE b
MayFail == faults < MaxFaults
Fails == MayFail /\ faults' = faults + 1

ServerAt(p, pc) == proto = p /\ server.pc = pc
ClientAt(p, pc) == proto = p /\ client.pc = pc
ServerGoes(pc) == server' = [server EXCEPT !.pc = pc]
ClientGoes(pc) == client' = [client EXCEPT !.pc = pc]

--------------------------------------------------------------------------------
(* TCP.  up and down count the bytes under way to the server and back, sent *)
(* and heard those the client has sent and read.  The server's end of a     *)
(* connection is queued until it is accepted.                               *)
NewConn == [up |-> 0, down |-> 0, sent |-> 0, heard |-> 0,
            client |-> TRUE, server |-> "queued", broken |-> FALSE]

tcp_server_socket ==
    /\ ServerAt("tcp", "socket")
    /\ \/ ServerGoes("bind") /\ UNCHANGED faults
       \/ Fails /\ ServerGoes("dead")
    /\ UNCHANGED <<proto, client, port, conns, toServer, toClient, sent>>

(* A socket that still listens keeps the port.                              *)
tcp_server_bind ==
    /\ ServerAt("tcp", "bind")
    /\ IF port = "free" THEN ServerGoes("listen") /\ port' = "bound"
       ELSE ServerGoes("dead") /\ UNCHANGED port
    /\ UNCHANGED <<proto, client, conns, toServer, toClient, sent, faults>>

tcp_server_listen ==
    /\ ServerAt("tcp", "listen")
    /\ \/ ServerGoes("accept") /\ port' = "listening" /\ UNCHANGED faults
       \/ Fails /\ ServerGoes("dead") /\ UNCHANGED port
    /\ UNCHANGED <<proto, client, conns, toServer, toClient, sent>>

tcp_server_accept ==
    /\ ServerAt("tcp", "accept")
    /\ \E c \in DOMAIN conns :
           /\ conns[c].server = "queued"
           /\ server' = [server EXCEPT !.pc = "recv", !.sock = c]
           /\ conns' = [conns EXCEPT ![c].server = "open"]
    /\ UNCHANGED <<proto, client, port, toServer, toClient, sent, faults>>

tcp_server_recv ==
    /\ ServerAt("tcp", "recv")
    /\ LET c == conns[server.sock]
       IN \/ \E n \in 1 .. atMost(c.up, BufLen) :
                 /\ ~c.broken
                 /\ conns' = [conns EXCEPT ![server.sock].up = @ - n]
                 /\ server' = [server EXCEPT !.pc = "send", !.held = n]
          \/ /\ c.broken \/ (~c.client /\ c.up = 0)
             /\ ServerGoes("close") /\ UNCHANGED conns
    /\ UNCHANGED <<proto, client, port, toServer, toClient, sent, faults>>

tcp_server_send_wholeBuffer ==
    /\ ServerAt("tcp", "send")
    /\ conns' = [conns EXCEPT ![server.sock].down = @ + BufLen]
    /\ server' = [server EXCEPT !.pc = "recv", !.held = 0]
    /\ UNCHANGED <<proto, client, port, toServer, toClient, sent, faults>>

tcp_server_send ==
    /\ ServerAt("tcp", "send")
    /\ IF conns[server.sock].broken
       THEN server' = [server EXCEPT !.pc = "close", !.held = 0] /\ UNCHANGED conns
       ELSE /\ conns' = [conns EXCEPT ![server.sock].down = @ + server.held]
            /\ server' = [server EXCEPT !.pc = "recv", !.held = 0]
    /\ UNCHANGED <<proto, client, port, toServer, toClient, sent, faults>>

tcp_server_close ==
    /\ ServerAt("tcp", "close")
    /\ conns' = [conns EXCEPT ![server.sock].server = "closed"]
    /\ server' = [server EXCEPT !.pc = "socket", !.sock = 0]
    /\ UNCHANGED <<proto, client, port, toServer, toClient, sent, faults>>

tcp_client_socket ==
    /\ ClientAt("tcp", "socket")
    /\ \/ ClientGoes("connect") /\ UNCHANGED faults
       \/ Fails /\ ClientGoes("dead")
    /\ UNCHANGED <<proto, server, port, conns, toServer, toClient, sent>>

(* The network connects to a listening port, accepted or not, while its     *)
(* backlog of one has room.                                                 *)
BacklogFull == \E c \in DOMAIN conns : conns[c].server = "queued"

tcp_client_connect ==
    /\ ClientAt("tcp", "connect")
    /\ LET n == Cardinality(DOMAIN conns) + 1
       IN IF port = "listening" /\ ~BacklogFull
          THEN /\ client' = [pc |-> "send", sock |-> n]
               /\ conns' = [c \in 1 .. n |-> IF c = n THEN NewConn ELSE conns[c]]
          ELSE ClientGoes("socket") /\ UNCHANGED conns
    /\ UNCHANGED <<proto, server, port, toServer, toClient, sent, faults>>

tcp_client_send ==
    /\ ClientAt("tcp", "send") /\ sent < MaxSent
    /\ IF conns[client.sock].broken
       THEN ClientGoes("close") /\ UNCHANGED <<conns, sent>>
       ELSE /\ conns' = [conns EXCEPT ![client.sock].up = @ + MsgLen,
                                      ![client.sock].sent = @ + MsgLen]
            /\ ClientGoes("recv") /\ sent' = sent + 1
    /\ UNCHANGED <<proto, server, port, toServer, toClient, faults>>

(* The code would take the end of the connection, a length of 0, for an     *)
(* answer; this server closes only what is broken or closed already.        *)
tcp_client_recv ==
    /\ ClientAt("tcp", "recv")
    /\ LET c == conns[client.sock]
       IN \/ \E n \in 1 .. atMost(c.down, BufLen) :
                 /\ ~c.broken
                 /\ conns' = [conns EXCEPT ![client.sock].down = @ - n,
                                           ![client.sock].heard = @ + n]
                 /\ ClientGoes("pause")
          \/ c.broken /\ ClientGoes("close") /\ UNCHANGED conns
    /\ UNCHANGED <<proto, server, port, toServer, toClient, sent, faults>>

tcp_client_close ==
    /\ ClientAt("tcp", "close")
    /\ conns' = [conns EXCEPT ![client.sock].client = FALSE]
    /\ client' = [pc |-> "socket", sock |-> 0]
    /\ UNCHANGED <<proto, server, port, toServer, toClient, sent, faults>>

Break(c) ==
    /\ c \in DOMAIN conns /\ ~conns[c].broken /\ Fails
    /\ conns' = [conns EXCEPT ![c].broken = TRUE, ![c].up = 0, ![c].down = 0]
    /\ UNCHANGED <<proto, server, client, port, toServer, toClient, sent>>

--------------------------------------------------------------------------------
(* UDP.                                                                     *)
udp_server_socket ==
    /\ ServerAt("udp", "socket")
    /\ \/ ServerGoes("bind") /\ UNCHANGED faults
       \/ Fails /\ ServerGoes("dead")
    /\ UNCHANGED <<proto, client, port, conns, toServer, toClient, sent>>

(* A failure to bind is reported and the server goes on, deaf.              *)
udp_server_bind ==
    /\ ServerAt("udp", "bind") /\ ServerGoes("recv")
    /\ \/ port' = "bound" /\ UNCHANGED faults
       \/ Fails /\ UNCHANGED port
    /\ UNCHANGED <<proto, client, conns, toServer, toClient, sent>>

udp_server_recv ==
    /\ ServerAt("udp", "recv")
    /\ \/ /\ port = "bound"
          /\ \E d \in toServer :
                 /\ toServer' = toServer \ {d}
                 /\ server' = [server EXCEPT !.pc = "send", !.held = d.n]
          /\ UNCHANGED faults
       \/ Fails /\ ServerGoes("close") /\ UNCHANGED toServer
    /\ UNCHANGED <<proto, client, port, conns, toClient, sent>>

udp_server_send ==
    /\ ServerAt("udp", "send")
    /\ \/ /\ toClient' = toClient \cup {[n |-> server.held, copy |-> FALSE]}
          /\ server' = [server EXCEPT !.pc = "recv", !.held = 0] /\ UNCHANGED faults
       \/ /\ Fails /\ UNCHANGED toClient
          /\ server' = [server EXCEPT !.pc = "close", !.held = 0]
    /\ UNCHANGED <<proto, client, port, conns, toServer, sent>>

udp_server_close ==
    /\ ServerAt("udp", "close") /\ ServerGoes("socket") /\ port' = "free"
    /\ UNCHANGED <<proto, client, conns, toServer, toClient, sent, faults>>

udp_client_socket ==
    /\ ClientAt("udp", "socket")
    /\ \/ ClientGoes("send") /\ UNCHANGED faults
       \/ Fails /\ ClientGoes("dead")
    /\ UNCHANGED <<proto, server, port, conns, toServer, toClient, sent>>

(* A datagram that meets no bound socket is lost.                           *)
udp_client_send ==
    /\ ClientAt("udp", "send") /\ sent < MaxSent
    /\ \/ /\ toServer' = toServer \cup {d \in {[n |-> sent + 1, copy |-> FALSE]} : port = "bound"}
          /\ sent' = sent + 1 /\ ClientGoes("recv")
          /\ faults' = IF port = "bound" THEN faults ELSE faults + 1
       \/ Fails /\ ClientGoes("close") /\ UNCHANGED <<toServer, sent>>
    /\ UNCHANGED <<proto, server, port, conns, toClient>>

udp_client_recv ==
    /\ ClientAt("udp", "recv")
    /\ \/ /\ \E d \in toClient : toClient' = toClient \ {d}
          /\ ClientGoes("pause") /\ UNCHANGED faults
       \/ Fails /\ ClientGoes("close") /\ UNCHANGED toClient
    /\ UNCHANGED <<proto, server, port, conns, toServer, sent>>

udp_client_close ==
    /\ ClientAt("udp", "close") /\ ClientGoes("socket") /\ toClient' = {}
    /\ UNCHANGED <<proto, server, port, conns, toServer, sent, faults>>

Lose ==
    /\ Fails
    /\ \/ \E d \in toServer : toServer' = toServer \ {d} /\ UNCHANGED toClient
       \/ \E d \in toClient : toClient' = toClient \ {d} /\ UNCHANGED toServer
    /\ UNCHANGED <<proto, server, client, port, conns, sent>>

Duplicate ==
    /\ Fails
    /\ \/ \E d \in toServer :
              toServer' = toServer \cup {[d EXCEPT !.copy = TRUE]} /\ UNCHANGED toClient
       \/ \E d \in toClient :
              toClient' = toClient \cup {[d EXCEPT !.copy = TRUE]} /\ UNCHANGED toServer
    /\ UNCHANGED <<proto, server, client, port, conns, sent>>

--------------------------------------------------------------------------------
(* The pause between two messages, in both clients.                         *)
Pause ==
    /\ client.pc = "pause" /\ ClientGoes("send")
    /\ UNCHANGED <<proto, server, port, conns, toServer, toClient, sent, faults>>

Server ==
    \/ tcp_server_socket \/ tcp_server_bind \/ tcp_server_listen \/ tcp_server_accept
    \/ tcp_server_recv \/ tcp_server_send \/ tcp_server_close
    \/ udp_server_socket \/ udp_server_bind \/ udp_server_recv \/ udp_server_send
    \/ udp_server_close

Client ==
    \/ tcp_client_socket \/ tcp_client_connect \/ tcp_client_send \/ tcp_client_recv
    \/ tcp_client_close
    \/ udp_client_socket \/ udp_client_send \/ udp_client_recv \/ udp_client_close
    \/ Pause

(* What runs again and again: the two programs.                             *)
EchoTask(k) == (k = 1 /\ Server) \/ (k = 2 /\ Client)

EchoNext == Server \/ Client \/ (\E c \in DOMAIN conns : Break(c)) \/ Lose \/ Duplicate

EchoSpec == EchoInit /\ [][EchoNext]_echoVars

--------------------------------------------------------------------------------
(* The server sends back what it was sent, no more and no less, in whatever *)
(* pieces TCP hands it over: of what the client sent on a connection,       *)
(* each byte is on its way to the server, in its buffer, on its way back or *)
(* read by the client.                                                      *)
EveryByteOnce ==
    \A c \in DOMAIN conns : conns[c].broken \/
        conns[c].sent = conns[c].up + conns[c].down + conns[c].heard
                        + (IF server.sock = c THEN server.held ELSE 0)

(* A client waits for an answer, and no connection broke, no datagram was   *)
(* lost and no call failed: it waits without a timeout.                     *)
ClientWaits == client.pc = "recv" /\ faults = 0
================================================================================
