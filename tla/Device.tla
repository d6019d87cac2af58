------------------------------- MODULE Device -------------------------------
(***************************************************************************)
(* A car's device: the BBB's program (PangoClient) and the STM controller  *)
(* (StmController) at the two ends of UART1.  Each module has the other as *)
(* an environment free to answer, be silent or write at rest; here the     *)
(* bytes one writes are the bytes the other reads, and the BBB's program   *)
(* keeps to no pace but the sleeps of its loop.                            *)
(***************************************************************************)
EXTENDS StmController

CONSTANT ClientFaults  \* of PangoClient

VARIABLES
    bbb_pc, bbb_status, \* pc and status of PangoClient
    connected, stm_data_receive_error, location, sock, server, toServer,
    toClient, located, misread,
    slept,              \* a second has passed since the BBB read a packet
    disturbed,          \* history: the BBB read a broken packet, and none that
                        \* was right since
    spoilt              \* history: the BBB once read a broken packet

BBBClient == INSTANCE PangoClient WITH
    Faults <- ClientFaults,
    pc     <- bbb_pc,
    status <- bbb_status

ASSUME ClientFaultsAssumption ==
    /\ ClientFaults \subseteq BBBClient!Fault
    /\ "silent" \in ClientFaults
    /\ "short" \in Faults => "short" \in ClientFaults
    /\ {"noise", "flush"} \cap Faults # {} => "broken" \in ClientFaults

clientVars == <<bbb_pc, bbb_status, connected, stm_data_receive_error, location,
                sock, server, toServer, toClient, located, misread>>
pace == <<slept, disturbed, spoilt>>
deviceVars == <<vars, clientVars, pace>>

DeviceInit ==
    /\ Init
    /\ BBBClient!Init
    /\ slept = TRUE
    /\ disturbed = FALSE
    /\ spoilt = FALSE

\* The timeouts of a second and the sleeps of a second are longer than the
\* controller needs to get back to its loop.
Paced == slept => AtRest

-----------------------------------------------------------------------------
(* Steps over UART1.                                                        *)

Ask ==
    /\ BBBClient!AskStm
    /\ Paced
    /\ Write(bbb_status)
    /\ UNCHANGED pace

\* The BBB may be preempted before it.
TcFlush ==
    /\ Flush
    /\ UNCHANGED <<clientVars, pace>>

\* The CRC-8 of a packet fits if it is whole and read to its end.  The one of a
\* broken packet is wrong, unless noise happens to make it fit.
Read ==
    /\ ReadPacket
    /\ \E ok \in BOOLEAN :
        /\ \/ ok = (cut = "whole" /\ wire' = NoByte)
           \/ ok /\ cut = "broken" /\ "noise" \in ClientFaults
        /\ BBBClient!Packet(IF wire = ON THEN ON ELSE OFF, ok)
        /\ disturbed' = (cut = "broken" \/ (disturbed /\ ~ok))
    /\ slept' = (bbb_status' \notin {ON, OFF})
    /\ spoilt' = (spoilt \/ cut = "broken")

\* poll has waited for a second.
Silence ==
    /\ BBBClient!StmSilent
    /\ TimeOut
    /\ slept' = TRUE
    /\ UNCHANGED <<disturbed, spoilt>>

Stop ==
    /\ BBBClient!End
    /\ Paced
    /\ SendRestart(IF stm_data_receive_error = RESTART THEN 2 ELSE 1)
    /\ UNCHANGED pace

-----------------------------------------------------------------------------
(* Steps of one side.                                                       *)

Push ==
    /\ BBBClient!Press
    /\ UNCHANGED <<vars, pace>>

\* sleep(1) follows the attempt to start a parking,
StartParking ==
    /\ BBBClient!RecvLocation \/ BBBClient!NoLocation
    /\ slept' = TRUE
    /\ UNCHANGED <<vars, disturbed, spoilt>>

\* A variant with a plausible bug: the server sends it at once.
EndParkingAtOnce ==
    /\ BBBClient!RecvPayment
    /\ slept' = FALSE
    /\ UNCHANGED <<vars, disturbed, spoilt>>

\* and the recv of a payment takes a second, for which the server sleeps before
\* it sends one.
EndParking ==
    /\ BBBClient!RecvPayment
    /\ slept' = (toClient = "payment")
    /\ UNCHANGED <<vars, disturbed, spoilt>>

Talk ==
    /\ \/ BBBClient!Connect \/ BBBClient!SendStart \/ BBBClient!SendClose
       \/ BBBClient!CloseFails \/ BBBClient!Killed \/ BBBClient!Update
    /\ UNCHANGED <<vars, pace>>

StartAgain ==
    /\ BBBClient!Relaunch
    /\ slept' = TRUE
    /\ disturbed' = FALSE
    /\ UNCHANGED <<vars, spoilt>>

Network ==
    /\ BBBClient!Serve \/ BBBClient!ServerDown
    /\ UNCHANGED <<vars, pace>>

Controller ==
    /\ HAL_UART_RxCpltCallback \/ Main \/ Garble \/ RestartByte \/ PressReset
    /\ UNCHANGED <<clientVars, pace>>

Program == Ask \/ TcFlush \/ Read \/ Silence \/ Stop \/ StartParking \/ EndParking \/ Talk

DeviceNext == Push \/ Program \/ StartAgain \/ Network \/ Controller

DeviceSpec == DeviceInit /\ [][DeviceNext]_deviceVars

\* Both processors run, the line delivers, and the server answers.  Nobody
\* has to push the button, to reset the controller or to start the program.
DeviceFairness ==
    /\ WF_deviceVars(Program)
    /\ WF_deviceVars(Network)
    /\ WF_deviceVars(Main /\ UNCHANGED <<clientVars, pace>>)
    /\ WF_deviceVars(HAL_UART_RxCpltCallback /\ UNCHANGED <<clientVars, pace>>)
    /\ WF_deviceVars(RestartByte /\ UNCHANGED <<clientVars, pace>>)

FairDeviceSpec == DeviceSpec /\ DeviceFairness

-----------------------------------------------------------------------------
(* Properties.                                                              *)

\* The program of a device whose controller answers as StmController does
\* behaves as PangoClient, with a controller of which it knows nothing, says.
ImplementsClient == BBBClient!Spec

\* main_client.c:136,143 and client_thread_func.c:283: as long as the server
\* answers, the sleeps keep the BBB from writing while the controller is not
\* at rest, which StmController assumes when it is Settled.  A broken packet
\* ends this: once out of step, the BBB has nothing to do with the next packet
\* that is right, and is back at the button without a sleep.
Settling == INSTANCE StmController WITH Settled <- TRUE
ImplementsSettled ==
    Settling!Init /\ [][spoilt \/ Settling!Next]_(Settling!vars)

\* PNG.c:77-85 and main_client.c:136,143: so only then can the controller wait
\* for a flag that no interrupt can raise.
DeafOnlyIfSpoilt == spoilt \/ NeverDeaf

\* main_client.c:79-106: with a controller that echoes what it was asked, each
\* press asks for what the device is to do next, whatever was lost, cut short or
\* left unread before, unless the last packets were broken by noise or by a
\* flush that came late; the first right one gets the BBB back in step.
AsksForNext ==
    bbb_pc = "button" /\ ~disturbed => bbb_status = (IF connected THEN OFF ELSE ON)

\* PNG.c:53-85: until then a status that arrived as the BBB sent it is answered,
\* unless the controller stops, or starts again after a failed transmission.
Answered ==
    \A b \in {ON, OFF} :
        request = b /\ rdr = b
            ~> \/ wire = b
               \/ pc = "halted" \/ (status = 0 /\ rdr # b)
               \/ spoilt

\* main_client.c:82-94: a controller that has stopped is noticed by somebody
\* who goes on pushing the button: the program ends, and the server, which
\* sees the connection closed, stops the count.
DeadControllerNoticed ==
    WF_deviceVars(Push) =>
        (pc = "halted" ~> pc # "halted" \/ (bbb_pc \in {"ended", "killed"}
                                            /\ server \in {"none", "ended"}))
=============================================================================
