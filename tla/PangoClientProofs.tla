-------------------------- MODULE PangoClientProofs --------------------------
(***************************************************************************)
(* Proofs about PangoClient: its type invariant, that the BBB never opens  *)
(* a second connection while the thread of the first still waits for what  *)
(* it says, and that it asks for what comes next unless a status was       *)
(* misread.  They hold for every set of faults.                            *)
(***************************************************************************)
EXTENDS PangoClient, TLAPS

(***************************************************************************)
(* The inductive invariant, in named parts.                                *)
(***************************************************************************)

\* The third silence is the last.
Counted == stm_data_receive_error = RESTART => pc \in {"ending", "ended"}

\* Between two connections nothing is under way between the BBB and the server.
Quiet ==
    pc \notin {"location", "payment"} => toServer = "nothing" /\ toClient = "nothing"

\* A START is answered while main waits for a location, a CLOSE while it waits
\* for a payment.
OneAtATime ==
    /\ pc = "location" => toServer # "CLOSE_APP" /\ toClient # "payment"
    /\ pc = "payment" => toServer # "START_APP" /\ toClient # "location"

\* A message is on its way in one direction at a time, and to a thread that
\* has not ended.
OneWay == toServer = "nothing" \/ (toClient = "nothing" /\ server # "ended")

\* ERROR and a payment are the last a thread of the server sends.
LastWords == toClient \in {"ERROR", "payment"} => server \in {"leaving", "ended"}

\* Once back in its loop, main is connected as long as it is served.
NotServed ==
    pc \in {"button", "request", "stm", "connect", "update"} /\ ~connected =>
        server \notin {"accepted", "serving"}

Net == Quiet /\ OneAtATime /\ OneWay /\ LastWords /\ NotServed

\* The status that the next press asks for.
Due == IF connected THEN OFF ELSE ON

\* How status follows connected on the way round the loop.
StatusAt ==
    /\ pc \in {"button", "request", "stm"} => status \in {ON, OFF}
    /\ pc \in {"connect", "start", "location"} => status = ON /\ ~connected
    /\ pc \in {"close", "payment"} => status = OFF /\ connected

\* What InStep says of the rest of the loop.
InStepAt ==
    ~misread =>
        /\ pc \in {"button", "request", "stm"} => status = Due
        /\ pc = "update" => updating_status_value(status) = Due

ClientInv ==
    /\ TypeOK
    /\ Counted
    /\ Net
    /\ StatusAt
    /\ InStepAt

-----------------------------------------------------------------------------
(* Lemmas about the helpers.                                                *)

\* client_func.c:156-171: the status after an update is one to ask with, and
\* which one it is.
LEMMA UpdatedStatus ==
    /\ updating_status_value(ON) = OFF
    /\ updating_status_value(OFF) = ON
    /\ updating_status_value(STAY_ON) = ON
    /\ updating_status_value(STAY_OFF) = OFF
BY DEF updating_status_value, ON, OFF, STAY_ON, STAY_OFF

\* What main finds in its buffer is a Buffer: garbage at first, then what recv
\* wrote over it.
LEMMA GarbageIsBuffer == [begins : {"garbage"}, nul : BOOLEAN] \subseteq Buffer
<1> SUFFICES ASSUME NEW l \in [begins : {"garbage"}, nul : BOOLEAN]
             PROVE  l \in Buffer
    OBVIOUS
<1> QED
    BY DEF Buffer

LEMMA ReceivedIsBuffer ==
    ASSUME location \in Buffer, NEW answer
    PROVE  Received(answer) \in Buffer
<1>1. [begins |-> "city", nul |-> FALSE] \in Buffer
    BY DEF Buffer
<1>2. [location EXCEPT !.begins = "ERROR"] \in Buffer
    BY DEF Buffer
<1> QED
    BY <1>1, <1>2 DEF Received

-----------------------------------------------------------------------------
(* TypeOK.                                                                  *)

LEMMA ClientInitType == Init => TypeOK /\ Counted
<1> SUFFICES ASSUME Init
             PROVE  TypeOK /\ Counted
    OBVIOUS
<1>1. location \in Buffer
    BY GarbageIsBuffer DEF Init
<1>2. stm_data_receive_error \in 0 .. RESTART /\ stm_data_receive_error # RESTART
    BY DEF Init, RESTART
<1> QED
    BY <1>1, <1>2 DEF Init, TypeOK, Counted

LEMMA ClientNextType == TypeOK /\ Counted /\ [Next]_vars => TypeOK' /\ Counted'
<1> SUFFICES ASSUME TypeOK, Counted, [Next]_vars
             PROVE  TypeOK' /\ Counted'
    OBVIOUS
<1> USE DEF TypeOK, Counted, client, net
<1>1. CASE Press
    BY <1>1 DEF Press
<1>2. CASE AskStm
    BY <1>2 DEF AskStm
<1>3. CASE StmSilent
    BY <1>3 DEF StmSilent, RESTART
<1>4. CASE ReadPacket
    <2>1. PICK echo \in {ON, OFF}, ok \in BOOLEAN : Packet(echo, ok)
        BY <1>4 DEF ReadPacket
    <2>2. status' \in {ON, OFF, STAY_ON, STAY_OFF}
        BY <1>4 DEF ReadPacket, Packet, CRC_8_check
    <2> QED
        BY <2>1, <2>2 DEF Packet
<1>5. CASE Connect
    BY <1>5 DEF Connect, Connected, Refused
<1>6. CASE SendStart
    BY <1>6 DEF SendStart
<1>7. CASE RecvLocation
    <2>1. location' \in Buffer
        BY <1>7, ReceivedIsBuffer DEF RecvLocation
    <2> QED
        BY <1>7, <2>1 DEF RecvLocation, crc8_server_side_value
<1>8. CASE NoLocation
    BY <1>8 DEF NoLocation, crc8_server_side_value
<1>9. CASE SendClose
    BY <1>9 DEF SendClose
<1>10. CASE RecvPayment
    BY <1>10 DEF RecvPayment
<1>11. CASE CloseFails
    BY <1>11 DEF CloseFails
<1>12. CASE Killed
    BY <1>12 DEF Killed
<1>13. CASE Update
    BY <1>13, UpdatedStatus DEF Update
<1>14. CASE End
    BY <1>14 DEF End
<1>15. CASE Relaunch
    <2>1. location' \in Buffer
        BY <1>15, GarbageIsBuffer DEF Relaunch
    <2>2. stm_data_receive_error' \in 0 .. RESTART /\ stm_data_receive_error' # RESTART
        BY <1>15 DEF Relaunch, RESTART
    <2> QED
        BY <1>15, <2>1, <2>2 DEF Relaunch
<1>16. CASE Serve
    BY <1>16 DEF Serve, ServeStart, ServeClose, ServeError, ServeLost, ServeEnd
<1>17. CASE ServerDown
    BY <1>17 DEF ServerDown
<1>18. CASE UNCHANGED vars
    BY <1>18 DEF vars
<1> QED
    BY <1>1, <1>2, <1>3, <1>4, <1>5, <1>6, <1>7, <1>8, <1>9, <1>10, <1>11,
       <1>12, <1>13, <1>14, <1>15, <1>16, <1>17, <1>18 DEF Next, Main

-----------------------------------------------------------------------------
(* The two ends of the connection.                                          *)

\* What a message under way says of the thread that serves the BBB.
LEMMA ClientNextNet ==
    TypeOK /\ StatusAt /\ Net /\ [Next]_vars => Net'
<1> SUFFICES ASSUME TypeOK, StatusAt, Net, [Next]_vars
             PROVE  Net'
    OBVIOUS
<1> USE DEF TypeOK, StatusAt, Net, Quiet, OneAtATime, OneWay, LastWords, NotServed, client, net
<1>1. CASE Press
    BY <1>1 DEF Press
<1>2. CASE AskStm
    BY <1>2 DEF AskStm
<1>3. CASE StmSilent
    BY <1>3 DEF StmSilent
<1>4. CASE ReadPacket
    BY <1>4 DEF ReadPacket, Packet, NotConnectedYet, ReadyToQuit
<1>5. CASE Connect
    BY <1>5 DEF Connect, Connected, Refused
<1>6. CASE SendStart
    BY <1>6 DEF SendStart
<1>7. CASE RecvLocation
    <2>1. CASE toClient = "location"
        <3>1. connected'
            BY <1>7, <2>1 DEF RecvLocation, Received, crc8_server_side_value, SaysError
        <3> QED
            BY <1>7, <2>1, <3>1 DEF RecvLocation
    <2>2. CASE toClient = "ERROR"
        BY <1>7, <2>2 DEF RecvLocation
    <2> QED
        BY <1>7, <2>1, <2>2 DEF RecvLocation
<1>8. CASE NoLocation
    BY <1>8 DEF NoLocation, crc8_server_side_value, PeerGone
<1>9. CASE SendClose
    BY <1>9 DEF SendClose
<1>10. CASE RecvPayment
    BY <1>10 DEF RecvPayment, PeerGone
<1>11. CASE CloseFails
    BY <1>11 DEF CloseFails, PeerGone
<1>12. CASE Killed
    BY <1>12 DEF Killed, PeerGone
<1>13. CASE Update
    BY <1>13 DEF Update
<1>14. CASE End
    BY <1>14 DEF End
<1>15. CASE Relaunch
    BY <1>15 DEF Relaunch
<1>16. CASE Serve
    BY <1>16 DEF Serve, ServeStart, ServeClose, ServeError, ServeLost, ServeEnd
<1>17. CASE ServerDown
    BY <1>17 DEF ServerDown
<1>18. CASE UNCHANGED vars
    BY <1>18 DEF vars
<1> QED
    BY <1>1, <1>2, <1>3, <1>4, <1>5, <1>6, <1>7, <1>8, <1>9, <1>10, <1>11,
       <1>12, <1>13, <1>14, <1>15, <1>16, <1>17, <1>18 DEF Next, Main

-----------------------------------------------------------------------------
(* The status that is asked for.                                            *)

LEMMA ClientNextStatus ==
    TypeOK /\ StatusAt /\ InStepAt /\ [Next]_vars => StatusAt' /\ InStepAt'
<1> SUFFICES ASSUME TypeOK, StatusAt, InStepAt, [Next]_vars
             PROVE  StatusAt' /\ InStepAt'
    OBVIOUS
<1> USE UpdatedStatus DEF TypeOK, StatusAt, InStepAt, Due, client, net
<1>1. CASE Press
    BY <1>1 DEF Press
<1>2. CASE AskStm
    BY <1>2 DEF AskStm
<1>3. CASE StmSilent
    BY <1>3 DEF StmSilent
<1>4. CASE ReadPacket
    <2>1. PICK echo \in {ON, OFF}, ok \in BOOLEAN : Packet(echo, ok)
        BY <1>4 DEF ReadPacket
    <2>2. misread' = (echo # status \/ (misread /\ ~ok))
        BY <2>1 DEF Packet
    <2>3. status \in {ON, OFF} /\ connected' = connected
        BY <2>1 DEF Packet
    <2>4. CASE ok
        <3>1. status' = echo
            BY <2>1, <2>4 DEF Packet, CRC_8_check
        <3> QED
            BY <2>1, <2>2, <2>3, <2>4, <3>1
            DEF Packet, CRC_8_check, NotConnectedYet, ReadyToQuit
    <2>5. CASE ~ok
        <3>1. status' = (IF echo = ON THEN STAY_ON ELSE STAY_OFF)
            BY <2>1, <2>5 DEF Packet, CRC_8_check
        <3>2. pc' = "update"
            BY <2>1, <2>5, <3>1 DEF Packet, CRC_8_check, NotConnectedYet, ReadyToQuit,
                                    ON, OFF, STAY_ON, STAY_OFF
        <3>3. updating_status_value(status') = echo
            BY <3>1
        <3>4. ~misread' => status = Due /\ echo = status
            BY <2>1, <2>2, <2>5 DEF Packet
        <3> QED
            BY <2>3, <3>2, <3>3, <3>4
    <2> QED
        BY <2>4, <2>5
<1>5. CASE Connect
    BY <1>5 DEF Connect, Connected, Refused
<1>6. CASE SendStart
    BY <1>6 DEF SendStart
<1>7. CASE RecvLocation
    BY <1>7 DEF RecvLocation, Received, crc8_server_side_value, SaysError
<1>8. CASE NoLocation
    BY <1>8 DEF NoLocation, crc8_server_side_value, PeerGone
<1>9. CASE SendClose
    BY <1>9 DEF SendClose
<1>10. CASE RecvPayment
    BY <1>10 DEF RecvPayment, PeerGone
<1>11. CASE CloseFails
    BY <1>11 DEF CloseFails, PeerGone
<1>12. CASE Killed
    BY <1>12 DEF Killed, PeerGone
<1>13. CASE Update
    BY <1>13 DEF Update
<1>14. CASE End
    BY <1>14 DEF End
<1>15. CASE Relaunch
    BY <1>15 DEF Relaunch
<1>16. CASE Serve
    BY <1>16 DEF Serve, ServeStart, ServeClose, ServeError, ServeLost, ServeEnd
<1>17. CASE ServerDown
    BY <1>17 DEF ServerDown
<1>18. CASE UNCHANGED vars
    BY <1>18 DEF vars
<1> QED
    BY <1>1, <1>2, <1>3, <1>4, <1>5, <1>6, <1>7, <1>8, <1>9, <1>10, <1>11,
       <1>12, <1>13, <1>14, <1>15, <1>16, <1>17, <1>18 DEF Next, Main
-----------------------------------------------------------------------------
(* The invariant, and what it gives.                                        *)

LEMMA ClientInit == Init => ClientInv
<1>1. Init => Net /\ StatusAt /\ InStepAt
    BY DEF Init, Net, Quiet, OneAtATime, OneWay, LastWords, NotServed, StatusAt,
           InStepAt, Due
<1> QED
    BY <1>1, ClientInitType DEF ClientInv

LEMMA ClientNext == ClientInv /\ [Next]_vars => ClientInv'
BY ClientNextType, ClientNextNet, ClientNextStatus DEF ClientInv

THEOREM ClientInvariant == Spec => []ClientInv
BY ClientInit, ClientNext, PTL DEF Spec

\* main_client.c: the variables of main keep to the values their code gives
\* them; the third silence, main_client.c:87-94, ends the program.
THEOREM ClientTypeOK == Spec => []TypeOK
<1>1. ClientInv => TypeOK
    BY DEF ClientInv
<1> QED
    BY <1>1, ClientInvariant, PTL

\* main_client.c:109-116: a second connection is never opened while the thread
\* of the first still waits for a START or for the CLOSE of the device.
THEOREM ClientNoSecondParking == Spec => []NoSecondParking
<1>1. ClientInv => NoSecondParking
    BY DEF ClientInv, Net, NotServed, StatusAt, NoSecondParking
<1> QED
    BY <1>1, ClientInvariant, PTL

\* client_func.c:77-90 and 157-170: the next press asks for what comes next,
\* and one right packet gets main back in step after a misread status.
THEOREM ClientInStep == Spec => []InStep
<1>1. ClientInv => InStep
    BY DEF ClientInv, InStepAt, Due, InStep
<1> QED
    BY <1>1, ClientInvariant, PTL

-----------------------------------------------------------------------------
(* What it takes for main to be connected without a city.                   *)

\* A server that neither answers ERROR nor goes away serves a session from the
\* connect until its location is read.
ServedInv ==
    /\ ConnectedMeansLocated
    /\ toClient # "ERROR"
    /\ pc = "start" => sock \in {"up", "refused"}
    /\ pc = "location" => sock = "up"
    /\ pc \in {"start", "location"} /\ sock = "up" => server \in {"accepted", "serving"}

LEMMA ClientNextServed ==
    ASSUME "error" \notin Faults, "down" \notin Faults, ClientInv, ServedInv, [Next]_vars
    PROVE  ServedInv'
<1> USE DEF ClientInv, TypeOK, Net, StatusAt, ServedInv, ConnectedMeansLocated, client, net
<1>1. CASE Press \/ AskStm \/ StmSilent
    BY <1>1 DEF Press, AskStm, StmSilent
<1>2. CASE ReadPacket
    BY <1>2 DEF ReadPacket, Packet, NotConnectedYet, ReadyToQuit
<1>3. CASE Connect
    BY <1>3 DEF Connect, Connected, Refused
<1>4. CASE SendStart
    BY <1>4 DEF SendStart
<1>5. CASE RecvLocation
    BY <1>5 DEF RecvLocation, OneAtATime
<1>6. CASE NoLocation
    BY <1>6 DEF NoLocation, PeerGone
<1>7. CASE SendClose \/ RecvPayment \/ CloseFails \/ Killed
    BY <1>7 DEF SendClose, RecvPayment, CloseFails, Killed
<1>8. CASE Update \/ End \/ Relaunch
    BY <1>8 DEF Update, End, Relaunch
<1>9. CASE Serve
    BY <1>9 DEF Serve, ServeStart, ServeClose, ServeError, ServeLost, ServeEnd, Quiet, OneAtATime
<1>10. CASE ServerDown
    BY <1>10 DEF ServerDown
<1>11. CASE UNCHANGED vars
    BY <1>11 DEF vars
<1> QED
    BY <1>1, <1>2, <1>3, <1>4, <1>5, <1>6, <1>7, <1>8, <1>9, <1>10, <1>11 DEF Next, Main

\* server_connection_check_functions.c:46-49: main is connected only after a
\* city was received, unless the server answers ERROR or dies while the BBB
\* waits: misread and missing packets, pressing at any time and a refused
\* connect, whose -1 is not seen, do not do it.  The run client_error_reply
\* shows the first exception to be needed.
THEOREM ClientConnectedMeansLocated ==
    ASSUME "error" \notin Faults, "down" \notin Faults
    PROVE  Spec => []ConnectedMeansLocated
<1>1. Init => ServedInv
    BY DEF Init, ServedInv, ConnectedMeansLocated
<1>2. ServedInv => ConnectedMeansLocated
    BY DEF ServedInv
<1>3. ClientInv /\ ServedInv /\ [Next]_vars => ServedInv'
    BY ClientNextServed
<1> QED
    BY <1>1, <1>2, <1>3, ClientInvariant, PTL DEF Spec
=============================================================================
