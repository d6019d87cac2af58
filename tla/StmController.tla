---------------------------- MODULE StmController ----------------------------
(***************************************************************************)
(* The firmware of the STM controller (STM/PANGO_L/PNG/Src/PNG.c): the     *)
(* main loop, the receive interrupt that preempts it between any two of    *)
(* its steps, and, as the environment, the BBB at the other end of UART1.  *)
(*                                                                         *)
(* A byte that arrives while no reception is armed waits in the data       *)
(* register of the UART; one that finds the register full is lost.  A      *)
(* packet is abstracted to its first byte, the status it echoes: the MAC   *)
(* address, the coordinates and the CRC-8 do not change the control.  The  *)
(* BBB may be preempted between its write and its tcflush, so an answer    *)
(* may lose its head to the flush that was meant for older bytes.          *)
(***************************************************************************)
EXTENDS Naturals

CONSTANTS
    Unknown,  \* bytes that are no restart_flag: 0, and what noise makes of one
    Settled,  \* TRUE: the BBB writes only when the controller is at rest
    Faults    \* which faults can happen

Fault == {"eth",      \* HAL_ETH_Init fails
          "receive",  \* HAL_UART_Receive_IT fails
          "rng",      \* the random number generator fails
          "transmit", \* HAL_UART_Transmit fails
          "noise",    \* a byte is garbled on its way, in either direction
          "flush",    \* the BBB's tcflush drops the byte it has just written,
                      \* or what has arrived of the answer
          "short"}    \* the BBB reads before the packet is complete

ON == 1
OFF == 2
RESTART == 3
Known == {ON, OFF, RESTART}

ASSUME ConstantsAssumption ==
    /\ Unknown \subseteq (0 .. 255) \ Known
    /\ 0 \in Unknown
    /\ Settled \in BOOLEAN
    /\ Faults \subseteq Fault

NoByte == 256
Byte == Known \cup Unknown

\* restart of main_client.c is a 4-byte int: 3, 0, 0, 0.
RestartSize == 4

VARIABLES
    pc,             \* where main_PNG is
    armed,          \* HAL_UART_Receive_IT is waiting for a byte
    rdr,            \* the data register of the UART
    interrupt_flag,
    status,         \* pango_client_data.status
    wrong_status,
    packet,         \* send_buff
    wire,           \* the first of the bytes that the BBB has not read
    cut,            \* whether they are a whole packet, what flush or noise
                    \* left of one, or the rest after a short read
    request,        \* the byte for which the BBB awaits a packet
    flushed,        \* tcflush has followed the write of it
    tail            \* bytes of a RESTART that are still to come

uart == <<wire, cut, request, flushed>>
vars == <<pc, armed, rdr, interrupt_flag, status, wrong_status, packet, uart, tail>>

TypeOK ==
    /\ pc \in {"loop", "flagged", "transmit", "rearm", "clear", "halted"}
    /\ armed \in BOOLEAN
    /\ rdr \in Byte \cup {NoByte}
    /\ interrupt_flag \in {ON, OFF}
    /\ status \in Byte
    /\ wrong_status \in 1 .. 5
    /\ packet \in Byte
    /\ wire \in Byte \cup {NoByte}
    /\ cut \in {"whole", "broken", "rest"}
    /\ request \in Byte \cup {NoByte}
    /\ flushed \in BOOLEAN
    /\ tail \in 0 .. 2 * RestartSize - 1

\* main_PNG up to the loop: Error_Handler or exit(1) if the MAC address cannot
\* be read or the reception not be armed.
Started == {"loop"} \cup (IF Faults \cap {"eth", "receive"} # {} THEN {"halted"} ELSE {})

Init ==
    /\ pc \in Started
    /\ armed = (pc = "loop")
    /\ rdr = NoByte
    /\ interrupt_flag = OFF
    /\ status = 0
    /\ wrong_status = 1
    /\ packet = 0
    /\ wire = NoByte
    /\ cut = "whole"
    /\ request = NoByte
    /\ flushed = TRUE
    /\ tail = 0

\* NVIC_SystemReset, or the reset button: the program starts again; what the
\* BBB has received or still sends is not affected.
Reset ==
    /\ pc' \in Started
    /\ armed' = (pc' = "loop")
    /\ rdr' = NoByte
    /\ interrupt_flag' = OFF
    /\ status' = 0
    /\ wrong_status' = 1
    /\ packet' = 0

\* Nothing to do, for the processor or on the line to it.
AtRest ==
    /\ tail = 0
    /\ pc = "halted" \/ (pc = "loop" /\ interrupt_flag = OFF /\ (rdr = NoByte \/ ~armed))

-----------------------------------------------------------------------------
(* Variants with a plausible bug each, not part of the specification.       *)

\* The default case of the callback does not arm the reception again.
UnknownStatusNotArmed ==
    /\ wrong_status' = wrong_status + 1
    /\ interrupt_flag' = OFF
    /\ armed' = FALSE
    /\ UNCHANGED pc

\* Coordinates are taken, but send_buff is not packed again.
PackNothing ==
    /\ pc = "flagged"
    /\ status # RESTART
    /\ pc' = "transmit"
    /\ UNCHANGED <<armed, rdr, interrupt_flag, status, wrong_status, packet,
                   uart, tail>>

\* An OFF is not a reason to raise the flag.
KnownStatusUnlessOff ==
    /\ interrupt_flag' = IF rdr = OFF THEN OFF ELSE ON
    /\ armed' = FALSE
    /\ UNCHANGED <<pc, wrong_status>>

\* The BBB does not flush: what arrived before its request is still there.
FlushNothing ==
    /\ request # NoByte
    /\ ~flushed
    /\ flushed' = TRUE
    /\ UNCHANGED <<pc, armed, rdr, interrupt_flag, status, wrong_status, packet,
                   wire, cut, request, tail>>

\* The count of unknown bytes goes on where the controller should stop.
TooManyWrongGoesOn ==
    /\ wrong_status' = wrong_status + 1
    /\ interrupt_flag' = OFF
    /\ armed' = TRUE
    /\ UNCHANGED pc

-----------------------------------------------------------------------------
(* HAL_UART_RxCpltCallback.                                                 *)

KnownStatus ==
    /\ interrupt_flag' = ON
    /\ armed' = FALSE
    /\ UNCHANGED <<pc, wrong_status>>

UnknownStatus ==
    /\ wrong_status' = wrong_status + 1
    /\ interrupt_flag' = OFF
    /\ armed' = TRUE
    /\ UNCHANGED pc

\* exit(1): HAL_UART_Receive_IT fails.
UnknownStatusError ==
    /\ "receive" \in Faults
    /\ wrong_status' = wrong_status + 1
    /\ interrupt_flag' = OFF
    /\ pc' = "halted"
    /\ armed' = FALSE

\* Error_Handler: interrupts are off and nothing goes on.  The transmission
\* before it sends whatever is at address HARDWARE_ERROR: not modelled.
TooManyWrong ==
    /\ pc' = "halted"
    /\ armed' = FALSE
    /\ UNCHANGED <<interrupt_flag, wrong_status>>

HAL_UART_RxCpltCallback ==
    /\ pc # "halted"
    /\ armed
    /\ rdr # NoByte
    /\ status' = rdr
    /\ rdr' = NoByte
    /\ \/ wrong_status % 5 = 0 /\ TooManyWrong
       \/ wrong_status % 5 # 0 /\ rdr \in Known /\ KnownStatus
       \/ wrong_status % 5 # 0 /\ rdr \notin Known /\ (UnknownStatus \/ UnknownStatusError)
    /\ UNCHANGED <<packet, uart, tail>>

-----------------------------------------------------------------------------
(* The loop of main_PNG.                                                    *)

FlagSeen ==
    /\ pc = "loop"
    /\ interrupt_flag = ON
    /\ pc' = "flagged"
    /\ UNCHANGED <<armed, rdr, interrupt_flag, status, wrong_status, packet,
                   uart, tail>>

RestartRequested ==
    /\ pc = "flagged"
    /\ status = RESTART
    /\ Reset
    /\ UNCHANGED <<uart, tail>>

\* get_coordinates, pack_pango_buffer, calculate_crc8.
Pack ==
    /\ pc = "flagged"
    /\ status # RESTART
    /\ packet' = status
    /\ pc' = "transmit"
    /\ UNCHANGED <<armed, rdr, interrupt_flag, status, wrong_status, uart,
                   tail>>

\* Error_Handler of rand_uint128.
RngError ==
    /\ "rng" \in Faults
    /\ pc = "flagged"
    /\ status # RESTART
    /\ pc' = "halted"
    /\ armed' = FALSE
    /\ UNCHANGED <<rdr, interrupt_flag, status, wrong_status, packet, uart,
                   tail>>

\* The first byte is on the wire before HAL_UART_Transmit returns.
Transmit ==
    /\ pc = "transmit"
    /\ wire' = packet
    /\ cut' = "whole"
    /\ pc' = "rearm"
    /\ UNCHANGED <<armed, rdr, interrupt_flag, status, wrong_status, packet,
                   request, flushed, tail>>

TransmitError ==
    /\ "transmit" \in Faults
    /\ pc = "transmit"
    /\ Reset
    /\ UNCHANGED <<uart, tail>>

\* From here on a byte that is waiting or arrives raises the interrupt, and
\* the flag is still ON.
Rearm ==
    /\ pc = "rearm"
    /\ armed' = TRUE
    /\ pc' = "clear"
    /\ UNCHANGED <<rdr, interrupt_flag, status, wrong_status, packet, uart,
                   tail>>

RearmError ==
    /\ "receive" \in Faults
    /\ pc = "rearm"
    /\ pc' = "halted"
    /\ UNCHANGED <<armed, rdr, interrupt_flag, status, wrong_status, packet,
                   uart, tail>>

Clear ==
    /\ pc = "clear"
    /\ interrupt_flag' = OFF
    /\ pc' = "loop"
    /\ UNCHANGED <<armed, rdr, status, wrong_status, packet, uart, tail>>

Main == FlagSeen \/ RestartRequested \/ Pack \/ RngError \/ Transmit
        \/ TransmitError \/ Rearm \/ RearmError \/ Clear

-----------------------------------------------------------------------------
(* The BBB (main_client.c) and the line.                                    *)

\* A byte reaches the UART; noise may have changed it.
Arrive(b) ==
    \E c \in {b} \cup (IF "noise" \in Faults THEN Unknown ELSE {}) :
       rdr' = IF rdr = NoByte THEN c ELSE rdr

\* The byte reaches the UART, or the tcflush will drop it before it is sent.
Write(b) ==
    /\ request = NoByte
    /\ Settled => AtRest
    /\ Arrive(b) \/ ("flush" \in Faults /\ UNCHANGED rdr)
    /\ request' = b
    /\ flushed' = FALSE
    /\ UNCHANGED <<pc, armed, interrupt_flag, status, wrong_status, packet, wire,
                   cut, tail>>

SendStatus == \E b \in {ON, OFF} : Write(b)

\* What the BBB finds at the head of a packet that has lost its own, or whose
\* bytes were changed: CRC_8_check asks of it only whether it is ON.
Broken ==
    /\ wire' \in {ON, OFF}
    /\ cut' = "broken"

Empty ==
    /\ wire' = NoByte
    /\ cut' = "whole"

\* tcflush: nothing is left of what was there before the request.  Of an answer
\* that has been quicker than the BBB, what has arrived is dropped too: none of
\* it, its head, or all.
Flush ==
    /\ request # NoByte
    /\ ~flushed
    /\ flushed' = TRUE
    /\ \/ cut = "rest" /\ Empty
       \/ cut # "rest" /\ UNCHANGED <<wire, cut>>
       \/ "flush" \in Faults /\ wire # NoByte /\ cut # "rest" /\ (Empty \/ Broken)
    /\ UNCHANGED <<pc, armed, rdr, interrupt_flag, status, wrong_status, packet,
                   request, tail>>

\* Noise on the line from the controller.
Garble ==
    /\ "noise" \in Faults
    /\ wire # NoByte
    /\ cut = "whole"
    /\ Broken
    /\ UNCHANGED <<pc, armed, rdr, interrupt_flag, status, wrong_status, packet,
                   request, flushed, tail>>

\* Nobody waits for an answer to a RESTART.  After the third silence it is
\* written twice, before and after the break that leaves the loop.
SendRestart(times) ==
    /\ request = NoByte
    /\ Settled => AtRest
    /\ Arrive(RESTART)
    /\ tail' = times * RestartSize - 1
    /\ UNCHANGED <<pc, armed, interrupt_flag, status, wrong_status, packet, uart>>

RestartByte ==
    /\ tail > 0
    /\ Arrive(IF tail = RestartSize THEN RESTART ELSE 0)
    /\ tail' = tail - 1
    /\ UNCHANGED <<pc, armed, interrupt_flag, status, wrong_status, packet, uart>>

\* wait_poll_event returns with the first byte of the packet.  A read right
\* after it may leave the end of the packet, coordinates and CRC-8, behind.
ReadPacket ==
    /\ request # NoByte
    /\ flushed
    /\ wire # NoByte
    /\ \/ Empty
       \/ "short" \in Faults /\ wire' = 0 /\ cut' = "rest"
    /\ request' = NoByte
    /\ UNCHANGED <<pc, armed, rdr, interrupt_flag, status, wrong_status, packet,
                   flushed, tail>>

\* One second without an answer: much longer than the controller is busy.
TimeOut ==
    /\ request # NoByte
    /\ flushed
    /\ wire = NoByte
    /\ AtRest
    /\ request' = NoByte
    /\ UNCHANGED <<pc, armed, rdr, interrupt_flag, status, wrong_status, packet,
                   wire, cut, flushed, tail>>

\* The reset button of the board.
PressReset ==
    /\ pc = "halted"
    /\ Reset
    /\ UNCHANGED <<uart, tail>>

BBB == SendStatus \/ Flush \/ Garble \/ SendRestart(1) \/ SendRestart(2)
       \/ RestartByte \/ ReadPacket \/ TimeOut \/ PressReset

Next == HAL_UART_RxCpltCallback \/ Main \/ BBB

Spec == Init /\ [][Next]_vars

-----------------------------------------------------------------------------
(* Properties.                                                              *)

\* PNG.c:77-85: the controller never waits for a flag that no interrupt can
\* raise: when the loop finds the flag OFF the reception is armed.
NeverDeaf == pc = "loop" /\ interrupt_flag = OFF => armed

\* PNG.c:66-75 with the callback writing the status it packs: a packet that
\* neither the flush nor noise has spoilt, and that the BBB is about to read as
\* the answer to a request, echoes that request, not an earlier one and not a
\* byte that arrived in between.
EchoesTheRequest ==
    request # NoByte /\ flushed /\ wire # NoByte /\ cut = "whole" => wire = request
=============================================================================
