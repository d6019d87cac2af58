----------------------------- MODULE DeviceProofs -----------------------------
(***************************************************************************)
(* Proofs about Device: with the controller StmController at the other end *)
(* of UART1, the BBB's program behaves as PangoClient says and no status   *)
(* is misread but that of a broken packet; and, as long as the server      *)
(* answers and no packet was broken, the BBB keeps the pace that           *)
(* StmController asks for when it is Settled, so the controller is not     *)
(* deaf.                                                                   *)
(***************************************************************************)
EXTENDS Device, StmControllerProofs

ClientProofs == INSTANCE PangoClientProofs WITH
    Faults <- ClientFaults,
    pc     <- bbb_pc,
    status <- bbb_status

(***************************************************************************)
(* The inductive invariant of a device whose server may do as it likes.    *)
(***************************************************************************)

\* The BBB awaits a packet in the same step of its loop in which the request
\* is outstanding on the line.
SameRequest == request = (IF bbb_pc = "stm" THEN bbb_status ELSE NoByte)

\* Only a broken packet is misread, and the history of it is kept.
OnlyBroken ==
    /\ misread => disturbed
    /\ disturbed => spoilt
    /\ disturbed \in BOOLEAN /\ spoilt \in BOOLEAN

DeviceInv ==
    /\ EchoInv
    /\ ClientProofs!ClientInv
    /\ SameRequest
    /\ OnlyBroken

(***************************************************************************)
(* What it takes in addition for the pace of the BBB.                      *)
(***************************************************************************)

\* The server answers a START with a location and a CLOSE with a payment.
ServerAnswers == {"error", "down"} \cap ClientFaults = {}

\* When main is at the button, or stops the controller, a second has passed.
SleptAt == bbb_pc \in {"update", "button", "request", "ending"} => slept

\* The socket main believes in.
SocketAt ==
    /\ bbb_pc = "location" => sock = "up"
    /\ bbb_pc \notin {"ending", "ended", "killed"} /\ connected => sock = "up"

\* A thread of the server leaves with a payment, or when the BBB has closed, and
\* never with ERROR.
EndsInOrder ==
    /\ toClient # "ERROR"
    /\ server \in {"leaving", "ended"} =>
        \/ sock = "closed"
        \/ toClient = "payment"
        \/ bbb_pc = "start" /\ sock = "refused"

PacedInv ==
    /\ SettledInv
    /\ SleptAt
    /\ SocketAt
    /\ EndsInOrder

\* A BBB that has read a broken packet may be out of step, and then passes over
\* a right packet without a sleep.
PacedUnlessSpoilt == spoilt \/ PacedInv

-----------------------------------------------------------------------------
(* The two instances of PangoClient are the same.                           *)

LEMMA ClientFaultsAreFaults == ClientFaults \subseteq ClientProofs!Fault
BY ClientFaultsAssumption DEF BBBClient!Fault, ClientProofs!Fault

LEMMA SameInit == BBBClient!Init <=> ClientProofs!Init
BY DEF BBBClient!Init, ClientProofs!Init, BBBClient!ON, ClientProofs!ON

LEMMA SameNext == BBBClient!Next <=> ClientProofs!Next
BY DEF BBBClient!ON, BBBClient!OFF, BBBClient!RESTART, BBBClient!STAY_ON,
       BBBClient!STAY_OFF, BBBClient!client, BBBClient!net,
       BBBClient!updating_status_value, BBBClient!CRC_8_check,
       BBBClient!NotConnectedYet, BBBClient!ReadyToQuit, BBBClient!SaysError,
       BBBClient!Received, BBBClient!crc8_server_side_value, BBBClient!PeerGone,
       BBBClient!Press, BBBClient!AskStm, BBBClient!StmSilent, BBBClient!Packet,
       BBBClient!ReadPacket, BBBClient!Connected, BBBClient!Refused,
       BBBClient!Connect, BBBClient!SendStart, BBBClient!RecvLocation,
       BBBClient!NoLocation, BBBClient!SendClose, BBBClient!RecvPayment,
       BBBClient!CloseFails, BBBClient!Killed, BBBClient!Update, BBBClient!End,
       BBBClient!Relaunch, BBBClient!Main, BBBClient!ServeStart,
       BBBClient!ServeClose, BBBClient!ServeError, BBBClient!ServeLost,
       BBBClient!ServeEnd, BBBClient!Serve, BBBClient!ServerDown, BBBClient!Next,
       ClientProofs!ON,
       ClientProofs!OFF, ClientProofs!RESTART, ClientProofs!STAY_ON,
       ClientProofs!STAY_OFF, ClientProofs!client, ClientProofs!net,
       ClientProofs!updating_status_value, ClientProofs!CRC_8_check,
       ClientProofs!NotConnectedYet, ClientProofs!ReadyToQuit,
       ClientProofs!SaysError, ClientProofs!Received,
       ClientProofs!crc8_server_side_value, ClientProofs!PeerGone,
       ClientProofs!Press, ClientProofs!AskStm, ClientProofs!StmSilent,
       ClientProofs!Packet, ClientProofs!ReadPacket, ClientProofs!Connected,
       ClientProofs!Refused, ClientProofs!Connect, ClientProofs!SendStart,
       ClientProofs!RecvLocation, ClientProofs!NoLocation,
       ClientProofs!SendClose, ClientProofs!RecvPayment,
       ClientProofs!CloseFails, ClientProofs!Killed, ClientProofs!Update,
       ClientProofs!End, ClientProofs!Relaunch, ClientProofs!Main,
       ClientProofs!ServeStart, ClientProofs!ServeClose,
       ClientProofs!ServeError, ClientProofs!ServeLost, ClientProofs!ServeEnd,
       ClientProofs!Serve, ClientProofs!ServerDown, ClientProofs!Next

LEMMA SameStep == [BBBClient!Next]_BBBClient!vars <=> [ClientProofs!Next]_ClientProofs!vars
<1>1. UNCHANGED BBBClient!vars <=> UNCHANGED ClientProofs!vars
    BY DEF BBBClient!vars, ClientProofs!vars, BBBClient!client, ClientProofs!client,
           BBBClient!net, ClientProofs!net
<1> QED
    BY <1>1, SameNext

-----------------------------------------------------------------------------
(* Every step of the device is a step of the BBB's program or none of its.  *)

\* A whole packet carries the status it was asked for, and its CRC-8 is wrong
\* only if the read came too soon; a broken one is what noise or a late flush
\* has made of it.
LEMMA ReadIsRight ==
    ASSUME DeviceInv, Read
    PROVE  /\ bbb_pc = "stm"
           /\ bbb_status \in {ON, OFF}
           /\ cut # "broken" => cut = "whole" /\ wire = bbb_status
           /\ BBBClient!ReadPacket
           /\ OnlyBroken'
<1> DEFINE echo == IF wire = ON THEN ON ELSE OFF
<1>1. request # NoByte /\ wire # NoByte /\ flushed
    BY DEF Read, ReadPacket
<1>2. bbb_pc = "stm" /\ request = bbb_status
    BY <1>1 DEF DeviceInv, SameRequest
<1>3. bbb_status \in {ON, OFF}
    BY <1>2 DEF DeviceInv, ClientProofs!ClientInv, ClientProofs!StatusAt, ClientProofs!ON,
                ClientProofs!OFF, ON, OFF
<1>4. cut \in {"whole", "broken"}
    BY <1>1 DEF DeviceInv, EchoInv, TypeOK, OnTheWire
<1>5. cut = "whole" => wire = bbb_status
    BY <1>1, <1>2 DEF DeviceInv, EchoInv, OnTheWire
<1>6. cut = "whole" => echo = bbb_status
    BY <1>3, <1>5
<1>7. wire' = NoByte \/ "short" \in ClientFaults
    BY ClientFaultsAssumption DEF Read, ReadPacket, Empty
<1>8. cut = "broken" => "broken" \in ClientFaults
    BY ClientFaultsAssumption DEF DeviceInv, EchoInv, OnTheWire
<1>9. PICK ok \in BOOLEAN :
          /\ \/ ok = (cut = "whole" /\ wire' = NoByte)
             \/ ok /\ cut = "broken" /\ "noise" \in ClientFaults
          /\ BBBClient!Packet(echo, ok)
          /\ disturbed' = (cut = "broken" \/ (disturbed /\ ~ok))
    BY DEF Read
<1>10. ok /\ echo # bbb_status => "noise" \in ClientFaults
    BY <1>4, <1>6, <1>9
<1>11. ~ok /\ echo # bbb_status => "broken" \in ClientFaults
    BY <1>4, <1>6, <1>8
<1>12. ~ok => ClientFaults \cap {"short", "broken"} # {}
    BY <1>4, <1>7, <1>8, <1>9
<1>13. echo \in {BBBClient!ON, BBBClient!OFF}
    BY DEF BBBClient!ON, BBBClient!OFF, ON, OFF
<1>14. BBBClient!ReadPacket
    BY <1>9, <1>10, <1>11, <1>12, <1>13 DEF BBBClient!ReadPacket
<1>15. misread' = (echo # bbb_status \/ (misread /\ ~ok))
    BY <1>9 DEF BBBClient!Packet
<1>16. spoilt' = (spoilt \/ cut = "broken")
    BY DEF Read
<1>17. OnlyBroken'
    BY <1>4, <1>6, <1>9, <1>15, <1>16 DEF DeviceInv, OnlyBroken
<1> QED
    BY <1>2, <1>3, <1>4, <1>5, <1>14, <1>17

LEMMA DeviceStepsClient ==
    DeviceInv /\ [DeviceNext]_deviceVars => [BBBClient!Next]_BBBClient!vars
<1> SUFFICES ASSUME DeviceInv, [DeviceNext]_deviceVars
             PROVE  [BBBClient!Next]_BBBClient!vars
    OBVIOUS
<1> USE DEF BBBClient!Next, BBBClient!Main
<1>1. CASE Ask
    BY <1>1 DEF Ask
<1>2. CASE Read
    BY <1>2, ReadIsRight
<1>3. CASE Silence
    BY <1>3 DEF Silence
<1>4. CASE Stop
    BY <1>4 DEF Stop
<1>5. CASE Push
    BY <1>5 DEF Push
<1>6. CASE StartParking \/ EndParking \/ Talk
    BY <1>6 DEF StartParking, EndParking, Talk
<1>7. CASE StartAgain \/ Network
    BY <1>7 DEF StartAgain, Network
<1>8. CASE TcFlush \/ Controller \/ UNCHANGED deviceVars
    <2>1. UNCHANGED clientVars
        BY <1>8 DEF TcFlush, Controller, deviceVars
    <2> QED
        BY <2>1 DEF clientVars, BBBClient!vars, BBBClient!client, BBBClient!net
<1> QED
    BY <1>1, <1>2, <1>3, <1>4, <1>5, <1>6, <1>7, <1>8 DEF DeviceNext, Program

-----------------------------------------------------------------------------
(* The invariant.                                                           *)

LEMMA DeviceInitInv == DeviceInit => DeviceInv
<1> SUFFICES ASSUME DeviceInit
             PROVE  DeviceInv
    OBVIOUS
<1>1. EchoInv
    BY EchoInit DEF DeviceInit
<1>2. ClientProofs!ClientInv
    BY SameInit, ClientFaultsAreFaults, ClientProofs!ClientInit DEF DeviceInit
<1>3. SameRequest /\ OnlyBroken
    BY DEF DeviceInit, Init, BBBClient!Init, SameRequest, OnlyBroken
<1> QED
    BY <1>1, <1>2, <1>3 DEF DeviceInv

LEMMA DeviceNextClientInv ==
    DeviceInv /\ [DeviceNext]_deviceVars => ClientProofs!ClientInv'
<1> SUFFICES ASSUME DeviceInv, [DeviceNext]_deviceVars
             PROVE  ClientProofs!ClientInv'
    OBVIOUS
<1>1. [ClientProofs!Next]_ClientProofs!vars
    BY DeviceStepsClient, SameStep
<1> QED
    BY <1>1, ClientFaultsAreFaults, ClientProofs!ClientNext DEF DeviceInv

LEMMA DeviceNextEchoInv == DeviceInv /\ [DeviceNext]_deviceVars => EchoInv'
<1> SUFFICES ASSUME DeviceInv, [DeviceNext]_deviceVars
             PROVE  EchoInv'
    OBVIOUS
<1>1. EchoInv
    BY DEF DeviceInv
<1>2. CASE Ask
    <2>1. bbb_status \in {ON, OFF}
        BY <1>2 DEF Ask, BBBClient!AskStm, DeviceInv, ClientProofs!ClientInv,
                    ClientProofs!StatusAt, ClientProofs!ON, ClientProofs!OFF, ON, OFF
    <2> QED
        BY <1>1, <1>2, <2>1, WriteEcho DEF Ask
<1>3. CASE Read
    BY <1>1, <1>3, EchoNext DEF Read, Next, BBB
<1>4. CASE Silence
    BY <1>1, <1>4, EchoNext DEF Silence, Next, BBB
<1>5. CASE Stop
    BY <1>1, <1>5, EchoNext DEF Stop, Next, BBB
<1>6. CASE TcFlush \/ Controller
    BY <1>1, <1>6, EchoNext DEF TcFlush, Controller, Next, BBB
<1>7. CASE Push \/ StartParking \/ EndParking \/ Talk \/ StartAgain \/ Network
           \/ UNCHANGED deviceVars
    <2>1. UNCHANGED vars
        BY <1>7 DEF Push, StartParking, EndParking, Talk, StartAgain, Network, deviceVars
    <2> QED
        BY <1>1, <2>1, EchoNext
<1> QED
    BY <1>2, <1>3, <1>4, <1>5, <1>6, <1>7 DEF DeviceNext, Program

\* Only the steps over UART1 touch the request, and they move both ends at once;
\* only the reading of a packet is recorded.
LEMMA DeviceNextSameRequest ==
    DeviceInv /\ [DeviceNext]_deviceVars => SameRequest' /\ OnlyBroken'
<1> SUFFICES ASSUME DeviceInv, [DeviceNext]_deviceVars
             PROVE  SameRequest' /\ OnlyBroken'
    OBVIOUS
<1> USE DEF DeviceInv, SameRequest, OnlyBroken, BBBClient!client, BBBClient!net, pace, uart
<1>1. CASE Ask
    BY <1>1 DEF Ask, BBBClient!AskStm, Write
<1>2. CASE Read
    <2>1. request' = NoByte /\ bbb_pc' # "stm"
        BY <1>2 DEF Read, ReadPacket, BBBClient!Packet
    <2> QED
        BY <1>2, <2>1, ReadIsRight
<1>3. CASE Silence
    BY <1>3 DEF Silence, BBBClient!StmSilent, TimeOut
<1>4. CASE Stop
    BY <1>4 DEF Stop, BBBClient!End, SendRestart
<1>5. CASE Push
    BY <1>5 DEF Push, BBBClient!Press, vars
<1>6. CASE StartParking
    BY <1>6 DEF StartParking, BBBClient!RecvLocation, BBBClient!NoLocation, vars
<1>7. CASE EndParking
    BY <1>7 DEF EndParking, BBBClient!RecvPayment, vars
<1>8. CASE Talk
    BY <1>8 DEF Talk, BBBClient!Connect, BBBClient!SendStart, BBBClient!SendClose,
                BBBClient!CloseFails, BBBClient!Killed, BBBClient!Update, vars
<1>9. CASE StartAgain
    BY <1>9 DEF StartAgain, BBBClient!Relaunch, vars
<1>10. CASE Network
    BY <1>10 DEF Network, BBBClient!Serve, BBBClient!ServerDown, vars
<1>11. CASE Controller
    <2>1. UNCHANGED request
        BY <1>11 DEF Controller, HAL_UART_RxCpltCallback, Main, FlagSeen, RestartRequested,
                     Pack, RngError, Transmit, TransmitError, Rearm, RearmError, Clear,
                     Garble, RestartByte, PressReset
    <2> QED
        BY <1>11, <2>1 DEF Controller, clientVars
<1>13. CASE TcFlush
    BY <1>13 DEF TcFlush, Flush, clientVars
<1>12. CASE UNCHANGED deviceVars
    BY <1>12 DEF deviceVars, vars, clientVars
<1> QED
    BY <1>1, <1>2, <1>3, <1>4, <1>5, <1>6, <1>7, <1>8, <1>9, <1>10, <1>11, <1>12, <1>13
    DEF DeviceNext, Program

LEMMA DeviceNextInv == DeviceInv /\ [DeviceNext]_deviceVars => DeviceInv'
BY DeviceNextClientInv, DeviceNextEchoInv, DeviceNextSameRequest DEF DeviceInv

THEOREM DeviceInvariant == DeviceSpec => []DeviceInv
BY DeviceInitInv, DeviceNextInv, PTL DEF DeviceSpec

-----------------------------------------------------------------------------
(* What it gives, whatever the server does.                                 *)

\* PNG.c and main_client.c: the variables of the firmware keep to their values
\* with the BBB's program at the other end.
THEOREM DeviceTypeOK == DeviceSpec => []TypeOK
<1>1. DeviceInv => TypeOK
    BY DEF DeviceInv, EchoInv
<1> QED
    BY <1>1, DeviceInvariant, PTL

\* PNG.c:66-75: the packet the BBB's program reads echoes what it asked if
\* neither the flush nor noise has spoilt it, even if it has asked a controller
\* that was still busy.
THEOREM DeviceEchoesTheRequest == DeviceSpec => []EchoesTheRequest
<1>1. DeviceInv => EchoesTheRequest
    BY DEF DeviceInv, EchoInv, OnTheWire, EchoesTheRequest
<1> QED
    BY <1>1, DeviceInvariant, PTL

\* main_client.c:79-106: with a controller that echoes what it was asked, each
\* press asks for what the device is to do next, unless the last packets were
\* broken by noise or by a flush that came late.
THEOREM DeviceAsksForNext == DeviceSpec => []AsksForNext
<1>1. DeviceInv => AsksForNext
    BY DEF DeviceInv, OnlyBroken, AsksForNext, ClientProofs!ClientInv, ClientProofs!InStepAt,
           ClientProofs!Due, ClientProofs!ON, ClientProofs!OFF, ON, OFF
<1> QED
    BY <1>1, DeviceInvariant, PTL

\* The program of a device whose controller answers as StmController does
\* behaves as PangoClient, with a controller of which it knows nothing, says.
THEOREM DeviceImplementsClient == DeviceSpec => ImplementsClient
<1>1. DeviceInit => BBBClient!Init
    BY DEF DeviceInit
<1> QED
    BY <1>1, DeviceStepsClient, DeviceInvariant, PTL
    DEF DeviceSpec, ImplementsClient, BBBClient!Spec

\* main_client.c:109-116: so the device never opens a second connection while
\* the thread of the first still waits for its START or its CLOSE.
THEOREM DeviceNoSecondParking == DeviceSpec => []BBBClient!NoSecondParking
<1>1. DeviceInv => BBBClient!NoSecondParking
    BY DEF DeviceInv, ClientProofs!ClientInv, ClientProofs!Net, ClientProofs!NotServed,
           ClientProofs!StatusAt, BBBClient!NoSecondParking
<1> QED
    BY <1>1, DeviceInvariant, PTL

-----------------------------------------------------------------------------
(* The pace of the BBB, as long as the server answers.                      *)

LEMMA DeviceInitPaced == DeviceInit => PacedInv
BY SettledInit
DEF DeviceInit, BBBClient!Init, PacedInv, SleptAt, SocketAt, EndsInOrder

\* main_client.c:136,143: main is asked to write only after its sleeps.
LEMMA WritesAtRest ==
    ASSUME PacedInv, Ask \/ Stop
    PROVE  AtRest
BY DEF PacedInv, SleptAt, Ask, Stop, Paced, BBBClient!AskStm, BBBClient!End

LEMMA DeviceNextSettled ==
    DeviceInv /\ PacedInv /\ [DeviceNext]_deviceVars => SettledInv'
<1> SUFFICES ASSUME DeviceInv, PacedInv, [DeviceNext]_deviceVars
             PROVE  SettledInv'
    OBVIOUS
<1>1. EchoInv /\ SettledInv
    BY DEF DeviceInv, PacedInv
<1>2. CASE Ask
    <2>1. bbb_status \in {ON, OFF}
        BY <1>2 DEF Ask, BBBClient!AskStm, DeviceInv, ClientProofs!ClientInv,
                    ClientProofs!StatusAt, ClientProofs!ON, ClientProofs!OFF, ON, OFF
    <2> QED
        BY <1>1, <1>2, <2>1, WritesAtRest, WriteSettled DEF Ask
<1>3. CASE Stop
    BY <1>1, <1>3, WritesAtRest, SendRestartSettled DEF Stop
<1>4. CASE TcFlush \/ Read \/ Silence
    BY <1>1, <1>4, ReadSettled DEF TcFlush, Read, Silence
<1>5. CASE Controller
    BY <1>1, <1>5, CallbackSettled, MainSettled, RestartByteSettled, ResetSettled,
       ReadSettled
    DEF Controller, PressReset, EchoInv
<1>6. CASE Push \/ StartParking \/ EndParking \/ Talk \/ StartAgain \/ Network
           \/ UNCHANGED deviceVars
    <2>1. UNCHANGED vars
        BY <1>6 DEF Push, StartParking, EndParking, Talk, StartAgain, Network, deviceVars
    <2> QED
        BY <1>1, <2>1 DEF vars, SettledInv, ArmedAt, Undisturbed, Answering, Raised
<1> QED
    BY <1>2, <1>3, <1>4, <1>5, <1>6 DEF DeviceNext, Program

\* As long as no packet was broken, main goes on to connect or to close with a
\* right packet, and sleeps with one that was cut short.
LEMMA ReadSleeps ==
    ASSUME DeviceInv, Read, ~spoilt'
    PROVE  /\ bbb_pc = "stm"
           /\ bbb_pc' \in {"connect", "close", "update"}
           /\ bbb_pc' = "update" => slept'
           /\ UNCHANGED <<connected, sock, server, toClient>>
<1>1. bbb_pc = "stm" /\ cut # "broken" /\ ~misread
    BY ReadIsRight DEF Read, DeviceInv, OnlyBroken
<1>2. /\ wire = bbb_status
      /\ bbb_status \in {ON, OFF}
      /\ bbb_status = (IF connected THEN OFF ELSE ON)
    BY <1>1, ReadIsRight
    DEF DeviceInv, ClientProofs!ClientInv, ClientProofs!InStepAt, ClientProofs!Due,
        ClientProofs!ON, ClientProofs!OFF, ON, OFF
<1>3. PICK ok \in BOOLEAN : BBBClient!Packet(IF wire = ON THEN ON ELSE OFF, ok)
    BY DEF Read
<1>4. bbb_status' = BBBClient!CRC_8_check(bbb_status, ok)
    BY <1>2, <1>3 DEF BBBClient!Packet
<1>5. bbb_pc' = "update" => bbb_status' \notin {ON, OFF}
    <2>1. CASE ok
        BY <1>2, <1>3, <1>4, <2>1
        DEF BBBClient!Packet, BBBClient!CRC_8_check, BBBClient!NotConnectedYet,
            BBBClient!ReadyToQuit, BBBClient!ON, BBBClient!OFF, ON, OFF
    <2>2. CASE ~ok
        BY <1>4, <2>2
        DEF BBBClient!CRC_8_check, BBBClient!STAY_ON, BBBClient!STAY_OFF, ON, OFF
    <2> QED
        BY <2>1, <2>2
<1> QED
    BY <1>1, <1>3, <1>5 DEF BBBClient!Packet, BBBClient!net, Read

LEMMA DeviceNextPace ==
    ServerAnswers /\ DeviceInv /\ PacedInv /\ [DeviceNext]_deviceVars /\ ~spoilt' =>
        SleptAt' /\ SocketAt' /\ EndsInOrder'
<1> SUFFICES ASSUME ServerAnswers, DeviceInv, PacedInv, [DeviceNext]_deviceVars, ~spoilt'
             PROVE  SleptAt' /\ SocketAt' /\ EndsInOrder'
    OBVIOUS
<1>1. /\ bbb_pc \in {"close", "payment"} => connected
      /\ bbb_pc \in {"connect", "start", "location"} => ~connected
      /\ bbb_pc = "location" => toClient # "payment"
      /\ bbb_pc = "payment" => toClient # "location"
      /\ bbb_pc \notin {"location", "payment"} => toClient = "nothing"
      /\ toClient \in {"nothing", "location", "ERROR", "payment"}
      /\ connected \in BOOLEAN
    BY DEF DeviceInv, ClientProofs!ClientInv, ClientProofs!StatusAt, ClientProofs!Net,
           ClientProofs!Quiet, ClientProofs!OneAtATime, ClientProofs!TypeOK
<1> USE <1>1
    DEF PacedInv, SleptAt, SocketAt, EndsInOrder, BBBClient!client, BBBClient!net, pace
<1>2. CASE Ask
    BY <1>2 DEF Ask, BBBClient!AskStm
<1>3. CASE Read
    BY <1>3, ReadSleeps
<1>4. CASE Silence
    BY <1>4 DEF Silence, BBBClient!StmSilent
<1>5. CASE Stop
    BY <1>5 DEF Stop, BBBClient!End
<1>6. CASE Push
    BY <1>6 DEF Push, BBBClient!Press
<1>7. CASE StartParking
    BY <1>7 DEF StartParking, BBBClient!RecvLocation, BBBClient!NoLocation, BBBClient!PeerGone
<1>8. CASE EndParking
    BY <1>8 DEF EndParking, BBBClient!RecvPayment, BBBClient!PeerGone
<1>9. CASE Talk
    BY <1>9 DEF Talk, BBBClient!Connect, BBBClient!Connected, BBBClient!Refused,
                BBBClient!SendStart, BBBClient!SendClose, BBBClient!CloseFails,
                BBBClient!PeerGone, BBBClient!Killed, BBBClient!Update
<1>10. CASE StartAgain
    BY <1>10 DEF StartAgain, BBBClient!Relaunch
<1>11. CASE Network
    BY <1>11 DEF Network, ServerAnswers, BBBClient!Serve, BBBClient!ServeStart,
                 BBBClient!ServeClose, BBBClient!ServeError, BBBClient!ServeLost,
                 BBBClient!ServeEnd, BBBClient!ServerDown
<1>12. CASE TcFlush \/ Controller \/ UNCHANGED deviceVars
    BY <1>12 DEF TcFlush, Controller, deviceVars, clientVars
<1> QED
    BY <1>2, <1>3, <1>4, <1>5, <1>6, <1>7, <1>8, <1>9, <1>10, <1>11, <1>12
    DEF DeviceNext, Program

LEMMA SpoiltStays == [DeviceNext]_deviceVars /\ spoilt => spoilt'
BY DEF DeviceNext, Program, Ask, TcFlush, Read, Silence, Stop, Push, StartParking,
       EndParking, Talk, StartAgain, Network, Controller, deviceVars, pace

LEMMA DeviceNextPaced ==
    ServerAnswers /\ DeviceInv /\ PacedUnlessSpoilt /\ [DeviceNext]_deviceVars =>
        PacedUnlessSpoilt'
<1> SUFFICES ASSUME ServerAnswers, DeviceInv, PacedUnlessSpoilt, [DeviceNext]_deviceVars,
                    ~spoilt'
             PROVE  PacedInv'
    BY DEF PacedUnlessSpoilt
<1>1. PacedInv
    BY SpoiltStays DEF PacedUnlessSpoilt
<1> QED
    BY <1>1, DeviceNextSettled, DeviceNextPace DEF PacedInv

THEOREM DevicePaced ==
    ASSUME ServerAnswers
    PROVE  DeviceSpec => []PacedUnlessSpoilt
<1>1. DeviceInit => PacedUnlessSpoilt
    BY DeviceInitPaced DEF PacedUnlessSpoilt
<1>2. DeviceInv /\ PacedUnlessSpoilt /\ [DeviceNext]_deviceVars => PacedUnlessSpoilt'
    BY DeviceNextPaced
<1> QED
    BY <1>1, <1>2, DeviceInvariant, PTL DEF DeviceSpec

-----------------------------------------------------------------------------
(* The device is a controller with a BBB that waits until it is at rest.    *)

\* The two instances of StmController differ in Settled only.
LEMMA SettlingSame ==
    /\ Settling!Init <=> Init
    /\ Settling!HAL_UART_RxCpltCallback <=> HAL_UART_RxCpltCallback
    /\ Settling!Main <=> Main
    /\ Settling!RestartByte <=> RestartByte
    /\ Settling!Flush <=> Flush
    /\ Settling!Garble <=> Garble
    /\ Settling!ReadPacket <=> ReadPacket
    /\ Settling!TimeOut <=> TimeOut
    /\ Settling!PressReset <=> PressReset
BY DEF Init, ON, OFF, RESTART, Known, NoByte, Byte, RestartSize, Started, Reset, AtRest,
       Arrive, HAL_UART_RxCpltCallback, KnownStatus, UnknownStatus, UnknownStatusError,
       TooManyWrong, Main, FlagSeen, RestartRequested, Pack, RngError, Transmit,
       TransmitError, Rearm, RearmError, Clear, RestartByte, Broken, Empty, Flush,
       Garble, ReadPacket, TimeOut, PressReset, uart, Settling!Init, Settling!ON,
       Settling!OFF, Settling!RESTART, Settling!Known, Settling!NoByte, Settling!Byte,
       Settling!RestartSize, Settling!Started, Settling!Reset, Settling!AtRest,
       Settling!Arrive, Settling!HAL_UART_RxCpltCallback, Settling!KnownStatus,
       Settling!UnknownStatus, Settling!UnknownStatusError, Settling!TooManyWrong,
       Settling!Main, Settling!FlagSeen, Settling!RestartRequested, Settling!Pack,
       Settling!RngError, Settling!Transmit, Settling!TransmitError, Settling!Rearm,
       Settling!RearmError, Settling!Clear, Settling!RestartByte, Settling!Broken,
       Settling!Empty, Settling!Flush, Settling!Garble, Settling!ReadPacket,
       Settling!TimeOut, Settling!PressReset, Settling!uart

\* What is written to a controller at rest may be written to one that is Settled.
LEMMA SettlingWrite ==
    ASSUME AtRest, NEW b, Write(b)
    PROVE  Settling!Write(b)
BY DEF Write, AtRest, Arrive, NoByte, OFF, Settling!Write, Settling!AtRest,
       Settling!Arrive, Settling!NoByte, Settling!OFF

LEMMA SettlingRestart ==
    ASSUME AtRest, NEW times, SendRestart(times)
    PROVE  Settling!SendRestart(times)
BY DEF SendRestart, AtRest, Arrive, NoByte, OFF, RESTART, RestartSize,
       Settling!SendRestart, Settling!AtRest, Settling!Arrive, Settling!NoByte,
       Settling!OFF, Settling!RESTART, Settling!RestartSize, uart, Settling!uart

LEMMA DeviceStepsSettled ==
    DeviceInv /\ PacedInv /\ [DeviceNext]_deviceVars => [Settling!Next]_Settling!vars
<1> SUFFICES ASSUME DeviceInv, PacedInv, [DeviceNext]_deviceVars
             PROVE  [Settling!Next]_Settling!vars
    OBVIOUS
<1> USE DEF Settling!Next, Settling!BBB
<1>1. CASE Ask
    <2>1. bbb_status \in {Settling!ON, Settling!OFF}
        BY <1>1 DEF Ask, BBBClient!AskStm, DeviceInv, ClientProofs!ClientInv,
                    ClientProofs!StatusAt, ClientProofs!ON, ClientProofs!OFF,
                    Settling!ON, Settling!OFF
    <2>2. Settling!Write(bbb_status)
        BY <1>1, WritesAtRest, SettlingWrite DEF Ask
    <2> QED
        BY <2>1, <2>2 DEF Settling!SendStatus
<1>2. CASE Stop
    BY <1>2, WritesAtRest, SettlingRestart DEF Stop
<1>3. CASE TcFlush \/ Read
    BY <1>3, SettlingSame DEF TcFlush, Read
<1>4. CASE Silence
    BY <1>4, SettlingSame DEF Silence
<1>5. CASE Controller
    BY <1>5, SettlingSame DEF Controller
<1>6. CASE Push \/ StartParking \/ EndParking \/ Talk \/ StartAgain \/ Network
           \/ UNCHANGED deviceVars
    <2>1. UNCHANGED vars
        BY <1>6 DEF Push, StartParking, EndParking, Talk, StartAgain, Network, deviceVars
    <2> QED
        BY <2>1 DEF vars, uart, Settling!vars, Settling!uart
<1> QED
    BY <1>1, <1>2, <1>3, <1>4, <1>5, <1>6 DEF DeviceNext, Program

\* main_client.c:136,143 and client_thread_func.c:283: as long as the server
\* answers, and until a packet is broken, the sleeps keep the BBB from writing
\* while the controller is not at rest: the device implements the controller
\* that is Settled.
THEOREM DeviceImplementsSettled ==
    ASSUME ServerAnswers
    PROVE  DeviceSpec => ImplementsSettled
<1>1. DeviceInit => Settling!Init
    BY SettlingSame DEF DeviceInit
<1>2. DeviceInv /\ PacedUnlessSpoilt /\ [DeviceNext]_deviceVars =>
          [spoilt \/ Settling!Next]_(Settling!vars)
    BY DeviceStepsSettled DEF PacedUnlessSpoilt
<1> QED
    BY <1>1, <1>2, DeviceInvariant, DevicePaced, PTL DEF DeviceSpec, ImplementsSettled

\* PNG.c:77-85: so the controller of a device never waits for a flag that no
\* interrupt can raise, unless a packet was broken.
THEOREM DeviceDeafOnlyIfSpoilt ==
    ASSUME ServerAnswers
    PROVE  DeviceSpec => []DeafOnlyIfSpoilt
<1>1. PacedUnlessSpoilt => DeafOnlyIfSpoilt
    BY DEF PacedUnlessSpoilt, PacedInv, SettledInv, ArmedAt, NeverDeaf, DeafOnlyIfSpoilt
<1> QED
    BY <1>1, DevicePaced, PTL
=============================================================================
