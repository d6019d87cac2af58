----------------------------- MODULE PangoClient -----------------------------
(***************************************************************************)
(* The BBB's program: the loop of client/main_client.c with the functions  *)
(* of client_func.c, tcp.c and server_connection_check_functions.c, as it  *)
(* sees the STM controller over UART1 and the server over TCP.             *)
(*                                                                         *)
(* The server is reduced to what one connection makes of a START and of a  *)
(* CLOSE (module PangoServer has the rest), the STM to its packet or its   *)
(* silence (module StmController).  A thread of the server has left the    *)
(* conversation some time before it ends: it may have to wait for the      *)
(* mutex and for SQLite in between, and the BBB does not wait for that.    *)
(* A location is abstracted to whether the buffer begins with a city or    *)
(* with ERROR, and to whether its sixth byte is the NUL that ends ERROR    *)
(* for strcmp.                                                             *)
(***************************************************************************)
EXTENDS Naturals

CONSTANT Faults

Fault == {"silent",  \* no packet within SMALL_DELAY
          "short",   \* the CRC-8 of a packet is wrong, its status is not
          "broken",  \* the CRC-8 of a packet is wrong, its status may be
          "noise",   \* the status of a packet may be wrong, its CRC-8 fits
          "refused", \* connect fails
          "error",   \* the server answers ERROR
          "down"}    \* the server dies

ASSUME FaultsAssumption == Faults \subseteq Fault

ON == 1
OFF == 2
RESTART == 3
STAY_ON == 6
STAY_OFF == 7

VARIABLES
    pc,         \* where main is
    status,
    connected,
    stm_data_receive_error,
    location,   \* the buffer: how it begins, and whether byte 5 is NUL
    sock,       \* client_socket
    server,     \* the server's thread of the last connection
    toServer,   \* a message on the way to the server
    toClient,   \* the answer the client has not read
    located,    \* history: a location was received on this connection
    misread     \* history: a status was misread, and no packet was right since

client == <<status, connected, stm_data_receive_error, location, located, misread>>
net == <<sock, server, toServer, toClient>>
vars == <<pc, client, net>>

Buffer == [begins : {"garbage", "city", "ERROR"}, nul : BOOLEAN]

TypeOK ==
    /\ pc \in {"button", "request", "stm", "connect", "start", "location",
               "close", "payment", "update", "ending", "ended", "killed"}
    /\ status \in {ON, OFF, STAY_ON, STAY_OFF}
    /\ connected \in BOOLEAN
    /\ stm_data_receive_error \in 0 .. RESTART
    /\ location \in Buffer
    /\ sock \in {"none", "refused", "up", "closed"}
    /\ server \in {"none", "accepted", "serving", "leaving", "ended"}
    /\ toServer \in {"nothing", "START_APP", "CLOSE_APP"}
    /\ toClient \in {"nothing", "location", "ERROR", "payment"}
    /\ located \in BOOLEAN
    /\ misread \in BOOLEAN

\* location is on the stack and not initialized: its sixth byte is anything.
Init ==
    /\ pc = "button"
    /\ status = ON
    /\ connected = FALSE
    /\ stm_data_receive_error = 0
    /\ location \in [begins : {"garbage"}, nul : BOOLEAN]
    /\ sock = "none"
    /\ server = "none"
    /\ toServer = "nothing"
    /\ toClient = "nothing"
    /\ located = FALSE
    /\ misread = FALSE

-----------------------------------------------------------------------------
(* Variants with a plausible bug each, not part of the specification.       *)

StatusModFour(s) == IF (s + 1) % 4 = 0 THEN ON ELSE (s + 1) % 4

NotConnectedYetUnchecked(s) == s = ON

\* The silences are forgotten, not counted.
StmSilentForgotten ==
    /\ pc = "stm"
    /\ "silent" \in Faults
    /\ stm_data_receive_error' = 0
    /\ pc' = "button"
    /\ UNCHANGED <<status, connected, location, located, misread, net>>

CRC_8_checkSwapped(s, ok) == IF ok THEN s ELSE IF s = ON THEN STAY_OFF ELSE STAY_ON

\* Only a payment ends the wait for it.
RecvPaymentOrWait ==
    /\ pc = "payment"
    /\ toClient = "payment"
    /\ toClient' = "nothing"
    /\ sock' = "closed"
    /\ connected' = FALSE
    /\ pc' = "update"
    /\ UNCHANGED <<status, stm_data_receive_error, location, located, misread, server,
                   toServer>>

-----------------------------------------------------------------------------
(* The functions main calls.                                                *)

\* updating_status_value: 6 and 7 repeat the ON or the OFF they stand for.
updating_status_value(s) == IF (s + 1) % 3 = 0 THEN ON ELSE (s + 1) % 3

\* get_status, then CRC_8_check.
CRC_8_check(s, ok) == IF ok THEN s ELSE IF s = ON THEN STAY_ON ELSE STAY_OFF

\* already_connected_to_server_check(...) == NOT_CONNECTED
NotConnectedYet(s) == s = ON /\ ~connected

\* ready_to_quit(...) == QUIT
ReadyToQuit(s) == s = OFF /\ connected

\* strcmp(location, "ERROR") == 0
SaysError(l) == l.begins = "ERROR" /\ l.nul

\* recv into location: a city has 12 bytes with letters in the first eight,
\* ERROR has five and no NUL.
Received(answer) ==
    IF answer = "location" THEN [begins |-> "city", nul |-> FALSE]
                           ELSE [location EXCEPT !.begins = "ERROR"]

crc8_server_side_value(l) ==
    /\ connected' = ~SaysError(l)
    /\ status' = IF SaysError(l) THEN STAY_ON ELSE status

\* What a send or a recv can meet on a connection the server has left.
PeerGone == server = "ended" /\ toClient = "nothing"

-----------------------------------------------------------------------------
(* The loop of main: the button and the STM controller.                     *)

\* wait_poll_event on UART4: the button lets the bytes of start_end_func in.
Press ==
    /\ pc = "button"
    /\ pc' = "request"
    /\ UNCHANGED <<client, net>>

\* write of the status on UART1 between two flushes.
AskStm ==
    /\ pc = "request"
    /\ pc' = "stm"
    /\ UNCHANGED <<client, net>>

\* The third silence since the program started ends it.
StmSilent ==
    /\ pc = "stm"
    /\ "silent" \in Faults
    /\ stm_data_receive_error' = stm_data_receive_error + 1
    /\ pc' = IF stm_data_receive_error' = RESTART THEN "ending" ELSE "button"
    /\ UNCHANGED <<status, connected, location, located, misread, net>>

\* read, get_status and CRC_8_check.  status is ON or OFF before, so
\* received_data_from_stm is TRUE.
Packet(echo, ok) ==
    LET s == CRC_8_check(echo, ok)
    IN  /\ pc = "stm"
        /\ status' = s
        /\ misread' = (echo # status \/ (misread /\ ~ok))
        /\ pc' = IF NotConnectedYet(s) THEN "connect"
                 ELSE IF ReadyToQuit(s) THEN "close" ELSE "update"
        /\ UNCHANGED <<connected, stm_data_receive_error, location, located, net>>

\* A read right after poll can miss the end of the packet, so its CRC-8 is
\* wrong; a tcflush that comes late, or noise, can change its first byte too.
ReadPacket ==
    \E echo \in {ON, OFF}, ok \in BOOLEAN :
        /\ ok /\ echo # status => "noise" \in Faults
        /\ ~ok /\ echo # status => "broken" \in Faults
        /\ ~ok => Faults \cap {"short", "broken"} # {}
        /\ Packet(echo, ok)

-----------------------------------------------------------------------------
(* The loop of main: the server.                                            *)

\* A thread that is still leaving the connection before goes on beside the
\* new one; what it has left to do does not reach the BBB any more.
Connected ==
    /\ sock' = "up"
    /\ server' = "accepted"

\* connect_to_pango_server returns -1 as a uint8_t, which is not ERROR: main
\* goes on with a socket that is not connected.
Refused ==
    /\ "refused" \in Faults
    /\ sock' = "refused"
    /\ UNCHANGED server

Connect ==
    /\ pc = "connect"
    /\ Connected \/ Refused
    /\ toServer' = "nothing"
    /\ toClient' = "nothing"
    /\ located' = FALSE
    /\ pc' = "start"
    /\ UNCHANGED <<status, connected, stm_data_receive_error, location, misread>>

SendStart ==
    /\ pc = "start"
    /\ sock = "up"
    /\ toServer' = IF server = "ended" THEN "nothing" ELSE "START_APP"
    /\ pc' = "location"
    /\ UNCHANGED <<client, sock, server, toClient>>

RecvLocation ==
    /\ pc = "location"
    /\ toClient # "nothing"
    /\ location' = Received(toClient)
    /\ crc8_server_side_value(location')
    /\ located' = (toClient = "location")
    /\ toClient' = "nothing"
    /\ pc' = "update"
    /\ UNCHANGED <<stm_data_receive_error, misread, sock, server, toServer>>

\* send or recv returns -1, which the uint8_t return_value makes 255, or recv
\* returns 0: main goes on with what the buffer held.
NoLocation ==
    /\ pc = "location"
    /\ PeerGone
    /\ crc8_server_side_value(location)
    /\ pc' = "update"
    /\ UNCHANGED <<stm_data_receive_error, location, located, misread, net>>

SendClose ==
    /\ pc = "close"
    /\ toServer' = IF server = "ended" THEN "nothing" ELSE "CLOSE_APP"
    /\ pc' = "payment"
    /\ UNCHANGED <<client, sock, server, toClient>>

\* recv returned something or 0; what is shown is then the payment or not.
RecvPayment ==
    /\ pc = "payment"
    /\ toClient # "nothing" \/ PeerGone
    /\ toClient' = "nothing"
    /\ sock' = "closed"
    /\ connected' = FALSE
    /\ pc' = "update"
    /\ UNCHANGED <<status, stm_data_receive_error, location, located, misread, server,
                   toServer>>

\* send or recv of the CLOSE returns -1.
CloseFails ==
    /\ pc \in {"close", "payment"}
    /\ PeerGone
    /\ pc' = "ending"
    /\ UNCHANGED <<client, net>>

\* SIGPIPE: a send on a socket that is not connected, or once the RST of the
\* other end has arrived.
Killed ==
    /\ \/ pc = "start" /\ sock = "refused"
       \/ pc \in {"start", "close"} /\ PeerGone
    /\ sock' = "closed"
    /\ pc' = "killed"
    /\ UNCHANGED <<client, server, toServer, toClient>>

Update ==
    /\ pc = "update"
    /\ status' = updating_status_value(status)
    /\ pc' = "button"
    /\ UNCHANGED <<connected, stm_data_receive_error, location, located, misread, net>>

\* After the loop: the STM is restarted, and everything is closed.
End ==
    /\ pc = "ending"
    /\ sock' = "closed"
    /\ pc' = "ended"
    /\ UNCHANGED <<client, server, toServer, toClient>>

\* The program is started again, later than the server needs to notice that
\* the old one is gone.
Relaunch ==
    /\ pc \in {"ended", "killed"}
    /\ server \in {"none", "ended"}
    /\ pc' = "button"
    /\ status' = ON
    /\ connected' = FALSE
    /\ stm_data_receive_error' = 0
    /\ location' \in [begins : {"garbage"}, nul : BOOLEAN]
    /\ sock' = "none"
    /\ server' = "none"
    /\ toServer' = "nothing"
    /\ toClient' = "nothing"
    /\ located' = FALSE
    /\ misread' = FALSE

Main == AskStm \/ StmSilent \/ ReadPacket \/ Connect \/ SendStart
        \/ RecvLocation \/ NoLocation \/ SendClose \/ RecvPayment \/ CloseFails
        \/ Killed \/ Update \/ End

-----------------------------------------------------------------------------
(* The server's thread of the connection (client_thread.c).                 *)

ServeStart ==
    /\ server = "accepted"
    /\ toServer = "START_APP"
    /\ server' = "serving"
    /\ toClient' = "location"

\* The payment is sent first: the DELETE of the row is still to be done.
ServeClose ==
    /\ server = "serving"
    /\ toServer = "CLOSE_APP"
    /\ server' = "leaving"
    /\ toClient' = "payment"

\* A wrong CRC-8 or an SQLite error: err_msg, and the thread leaves.
ServeError ==
    /\ "error" \in Faults
    /\ server \in {"accepted", "serving"}
    /\ toServer # "nothing"
    /\ server' = "leaving"
    /\ toClient' = "ERROR"

\* recv returns 0: the program at the other end is gone.  The UPDATE of the
\* row is still to be done.
ServeLost ==
    /\ sock = "closed"
    /\ toServer = "nothing"
    /\ server \in {"accepted", "serving"}
    /\ server' = "leaving"
    /\ UNCHANGED toClient

\* The mutex was granted, the row deleted or written, the socket closed.  A
\* message that came meanwhile is not read.
ServeEnd ==
    /\ server = "leaving"
    /\ server' = "ended"
    /\ UNCHANGED toClient

Serve ==
    /\ ServeStart \/ ServeClose \/ ServeError \/ ServeLost \/ ServeEnd
    /\ toServer' = "nothing"
    /\ UNCHANGED <<pc, client, sock>>

ServerDown ==
    /\ "down" \in Faults
    /\ server \in {"accepted", "serving", "leaving"}
    /\ server' = "ended"
    /\ toServer' = "nothing"
    /\ UNCHANGED <<pc, client, sock, toClient>>

Next == Press \/ Main \/ Relaunch \/ Serve \/ ServerDown

Spec == Init /\ [][Next]_vars

\* The program runs and the server answers; nobody has to press the button.
Fairness == WF_vars(Main) /\ WF_vars(Serve)

FairSpec == Spec /\ Fairness
-----------------------------------------------------------------------------
(* Properties.                                                              *)

\* main_client.c:109-116: a second connection is never opened while the
\* thread of the first still waits for a START or for the CLOSE of the device,
\* whatever the STM and the server answered before.  It may be opened while
\* that thread, having answered, still has its DELETE to do.
NoSecondParking == pc = "connect" => server \notin {"accepted", "serving"}

\* client_func.c:77-90 and 157-170: however often a packet has to be asked for
\* again, the next press asks for what comes next: a CLOSE if the device
\* believes it is connected and a START if not; and one packet that is right
\* suffices to get back in step after a status was misread.
InStep == pc = "button" /\ ~misread => status = (IF connected THEN OFF ELSE ON)

\* A press is dealt with: main is back at the button, or the program ends.
PressHandled == pc = "request" ~> pc \in {"button", "ended", "killed"}

\* server_connection_check_functions.c:46-49: ERROR if the check on the server
\* failed; otherwise the city where the client parked.  So main is connected
\* only after a city was received on the connection.
ConnectedMeansLocated == connected => located
=============================================================================
