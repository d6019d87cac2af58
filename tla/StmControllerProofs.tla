------------------------- MODULE StmControllerProofs -------------------------
(***************************************************************************)
(* Proofs about StmController: its type invariant and that what the BBB    *)
(* reads echoes what it asked, whatever the BBB does; and, as long as the  *)
(* BBB writes only to a controller at rest (Settled), that the main loop   *)
(* is never deaf.  They hold for every set of faults and for every set of  *)
(* bytes that noise can make.                                              *)
(***************************************************************************)
EXTENDS StmController, TLAPS

\* uart only stands for a list of variables.
USE DEF uart

(***************************************************************************)
(* The inductive invariant behind EchoesTheRequest, in named parts.  It    *)
(* does not need the BBB to wait for a controller at rest.                 *)
(***************************************************************************)

\* While the flag is up, and until HAL_UART_Receive_IT arms it again after an
\* answer, the reception is not armed.
NotArmed ==
    /\ pc \in {"flagged", "transmit", "rearm"} => interrupt_flag = ON /\ ~armed
    /\ pc = "loop" /\ interrupt_flag = ON => ~armed
    /\ pc = "halted" => ~armed

\* The controller may still come to read its data register.
Hears == pc # "halted" /\ (pc = "loop" => interrupt_flag = ON \/ armed)

\* The flag is ON, and not for the last step of an answer.
Raised == pc \in {"loop", "flagged"} /\ interrupt_flag = ON

\* No answer to the last request has been transmitted: at most the rest of an
\* older packet is on its way to the BBB.
Unanswered == wire = NoByte \/ cut = "rest"

\* A status that has arrived, or is being answered, is the one the BBB asked
\* for, and was not answered yet; no other has arrived since.
Asked ==
    /\ Hears /\ rdr \in {ON, OFF} => request = rdr /\ Unanswered
    /\ Raised => status \in Known
    /\ Raised /\ status # RESTART =>
        request = status /\ Unanswered /\ rdr \notin {ON, OFF}
    /\ pc = "transmit" => request = packet /\ Unanswered /\ rdr \notin {ON, OFF}

\* An answer is on its way only while the BBB waits for it, and what an older
\* packet has left only until the flush; a whole packet, which flush and noise
\* have spared, echoes the request.
OnTheWire ==
    /\ request = NoByte => Unanswered
    /\ request # NoByte /\ flushed => cut # "rest"
    /\ request # NoByte /\ wire # NoByte /\ cut = "whole" => wire = request
    /\ wire = NoByte => cut = "whole"
    /\ cut = "broken" => {"noise", "flush"} \cap Faults # {}

EchoInv ==
    /\ TypeOK
    /\ NotArmed
    /\ Asked
    /\ OnTheWire

(***************************************************************************)
(* What it takes in addition for NeverDeaf, if the BBB waits.              *)
(***************************************************************************)

\* The reception is armed just while the loop finds the flag OFF, and between
\* HAL_UART_Receive_IT at the end of an answer and the reset of the flag.
ArmedAt ==
    /\ pc = "loop" /\ interrupt_flag = OFF => armed
    /\ pc = "clear" => interrupt_flag = ON /\ armed

\* A status is being answered.
Answering == (Raised /\ status # RESTART) \/ pc \in {"transmit", "rearm", "clear"}

\* Nothing arrives while a status is being answered, and nothing follows one
\* that has not been read yet.
Undisturbed ==
    /\ Answering => rdr = NoByte /\ tail = 0
    /\ pc # "halted" /\ rdr \in {ON, OFF} => tail = 0

SettledInv == ArmedAt /\ Undisturbed

-----------------------------------------------------------------------------
(* Lemmas about the bytes.                                                  *)

\* The bytes of a RESTART and those noise makes of any are bytes, and NoByte
\* is none.
LEMMA BytesAreBytes ==
    /\ ON \in Byte /\ OFF \in Byte /\ RESTART \in Byte /\ 0 \in Byte
    /\ Unknown \subseteq Byte
    /\ NoByte \notin Byte
    /\ Known = {ON, OFF, RESTART}
    /\ Known \cap Unknown = {}
    /\ ON # OFF /\ ON # RESTART /\ OFF # RESTART
    /\ 0 \notin Known
BY ConstantsAssumption DEF Byte, Known, NoByte, ON, OFF, RESTART

\* What can be in the data register after a byte has reached it.
LEMMA ArrivedByte ==
    ASSUME NEW b, Arrive(b)
    PROVE  rdr' \in {rdr, b} \cup Unknown /\ (rdr # NoByte => rdr' = rdr)
BY DEF Arrive

-----------------------------------------------------------------------------
(* TypeOK, for a controller the BBB may interrupt at any time.              *)

LEMMA ControllerInitType == Init => TypeOK
BY BytesAreBytes DEF Init, TypeOK, Started, RestartSize, ON, OFF

LEMMA ResetType == TypeOK /\ Reset /\ UNCHANGED <<uart, tail>> => TypeOK'
BY BytesAreBytes DEF Reset, TypeOK, Started, ON, OFF

LEMMA CallbackType == TypeOK /\ HAL_UART_RxCpltCallback => TypeOK'
<1> SUFFICES ASSUME TypeOK, HAL_UART_RxCpltCallback
             PROVE  TypeOK'
    OBVIOUS
<1>1. wrong_status % 5 # 0 => wrong_status + 1 \in 1 .. 5
    BY DEF TypeOK
<1>2. status' \in Byte /\ rdr' = NoByte
    BY DEF TypeOK, HAL_UART_RxCpltCallback
<1>3. /\ pc' \in {pc, "halted"}
      /\ armed' \in BOOLEAN
      /\ interrupt_flag' \in {ON, OFF}
      /\ wrong_status' \in 1 .. 5
    BY <1>1 DEF TypeOK, HAL_UART_RxCpltCallback, TooManyWrong, KnownStatus, UnknownStatus,
                UnknownStatusError
<1> QED
    BY <1>2, <1>3 DEF TypeOK, HAL_UART_RxCpltCallback

LEMMA MainType == TypeOK /\ Main => TypeOK'
<1> SUFFICES ASSUME TypeOK, Main
             PROVE  TypeOK'
    OBVIOUS
<1> USE DEF TypeOK
<1>1. CASE FlagSeen
    BY <1>1 DEF FlagSeen
<1>2. CASE RestartRequested \/ TransmitError
    BY <1>2, ResetType DEF RestartRequested, TransmitError
<1>3. CASE Pack
    BY <1>3 DEF Pack
<1>4. CASE RngError
    BY <1>4 DEF RngError
<1>5. CASE Transmit
    BY <1>5 DEF Transmit
<1>6. CASE Rearm
    BY <1>6 DEF Rearm
<1>7. CASE RearmError
    BY <1>7 DEF RearmError
<1>8. CASE Clear
    BY <1>8 DEF Clear
<1> QED
    BY <1>1, <1>2, <1>3, <1>4, <1>5, <1>6, <1>7, <1>8 DEF Main

LEMMA WriteType ==
    ASSUME TypeOK, NEW b \in {ON, OFF}, Write(b)
    PROVE  TypeOK'
<1>1. rdr' \in Byte \cup {NoByte}
    BY ArrivedByte, BytesAreBytes DEF TypeOK, Write
<1>2. request' \in Byte
    BY BytesAreBytes DEF Write
<1> QED
    BY <1>1, <1>2 DEF TypeOK, Write

LEMMA FlushType == TypeOK /\ (Flush \/ Garble) => TypeOK'
BY BytesAreBytes DEF TypeOK, Flush, Garble, Broken, Empty

LEMMA SendRestartType ==
    ASSUME TypeOK, NEW times \in {1, 2}, SendRestart(times)
    PROVE  TypeOK'
<1>1. rdr' \in Byte \cup {NoByte}
    BY ArrivedByte, BytesAreBytes DEF TypeOK, SendRestart
<1>2. tail' \in 0 .. 2 * RestartSize - 1
    BY DEF SendRestart, RestartSize
<1> QED
    BY <1>1, <1>2 DEF TypeOK, SendRestart

LEMMA BBBType == TypeOK /\ BBB => TypeOK'
<1> SUFFICES ASSUME TypeOK, BBB
             PROVE  TypeOK'
    OBVIOUS
<1>1. CASE SendStatus
    BY <1>1, WriteType DEF SendStatus
<1>2. CASE SendRestart(1) \/ SendRestart(2)
    BY <1>2, SendRestartType
<1>3. CASE RestartByte
    <2>1. rdr' \in Byte \cup {NoByte}
        BY <1>3, ArrivedByte, BytesAreBytes DEF TypeOK, RestartByte
    <2>2. tail' \in 0 .. 2 * RestartSize - 1
        BY <1>3 DEF TypeOK, RestartByte, RestartSize
    <2> QED
        BY <1>3, <2>1, <2>2 DEF TypeOK, RestartByte
<1>4. CASE ReadPacket
    BY <1>4, BytesAreBytes DEF TypeOK, ReadPacket, Empty
<1>5. CASE TimeOut
    BY <1>5 DEF TypeOK, TimeOut
<1>6. CASE PressReset
    BY <1>6, ResetType DEF PressReset
<1>7. CASE Flush \/ Garble
    BY <1>7, FlushType
<1> QED
    BY <1>1, <1>2, <1>3, <1>4, <1>5, <1>6, <1>7 DEF BBB

LEMMA ControllerNextType == TypeOK /\ [Next]_vars => TypeOK'
<1>1. TypeOK /\ UNCHANGED vars => TypeOK'
    BY DEF TypeOK, vars
<1> QED
    BY <1>1, CallbackType, MainType, BBBType DEF Next

\* PNG.c: whatever the BBB writes and whenever, the variables of the firmware
\* keep to their values; the count of unknown bytes stops the controller
\* before it passes 5.
THEOREM ControllerTypeOK == Spec => []TypeOK
BY ControllerInitType, ControllerNextType, PTL DEF Spec

-----------------------------------------------------------------------------
(* The answer.                                                              *)

LEMMA EchoInit == Init => EchoInv
BY ControllerInitType, BytesAreBytes
DEF EchoInv, NotArmed, Hears, Raised, Asked, Unanswered, OnTheWire, Started, Init

\* Whenever the controller starts again, nothing it has heard is left.
LEMMA ResetIdle ==
    Reset => /\ pc' \in {"loop", "halted"}
             /\ pc' = "loop" => armed'
             /\ pc' = "halted" => ~armed'
             /\ rdr' = NoByte
             /\ rdr' \notin {ON, OFF}
             /\ interrupt_flag' # ON
BY BytesAreBytes DEF Reset, Started

LEMMA ResetEcho == EchoInv /\ Reset /\ UNCHANGED <<uart, tail>> => EchoInv'
<1> SUFFICES ASSUME EchoInv, Reset, UNCHANGED <<uart, tail>>
             PROVE  EchoInv'
    OBVIOUS
<1>1. TypeOK'
    BY ResetType DEF EchoInv
<1>2. NotArmed' /\ Asked'
    BY ResetIdle DEF NotArmed, Hears, Raised, Asked
<1>3. OnTheWire'
    BY DEF EchoInv, OnTheWire, Unanswered
<1> QED
    BY <1>1, <1>2, <1>3 DEF EchoInv

LEMMA CallbackEcho == EchoInv /\ HAL_UART_RxCpltCallback => EchoInv'
<1> SUFFICES ASSUME EchoInv, HAL_UART_RxCpltCallback
             PROVE  EchoInv'
    OBVIOUS
<1> USE BytesAreBytes
    DEF EchoInv, NotArmed, Hears, Raised, Asked, Unanswered, OnTheWire
<1>1. TypeOK'
    BY CallbackType
<1>2. /\ pc = "clear" \/ (pc = "loop" /\ interrupt_flag = OFF)
      /\ armed /\ rdr \in Byte /\ status' = rdr /\ rdr' = NoByte
      /\ UNCHANGED <<packet, uart>>
    BY DEF HAL_UART_RxCpltCallback, TypeOK
<1>3. CASE TooManyWrong
    BY <1>1, <1>2, <1>3 DEF TooManyWrong
<1>4. CASE rdr \in Known /\ KnownStatus
    BY <1>1, <1>2, <1>4 DEF KnownStatus
<1>5. CASE UnknownStatus
    BY <1>1, <1>2, <1>5 DEF UnknownStatus
<1>6. CASE UnknownStatusError
    BY <1>1, <1>2, <1>6 DEF UnknownStatusError
<1> QED
    BY <1>3, <1>4, <1>5, <1>6 DEF HAL_UART_RxCpltCallback

LEMMA MainEcho == EchoInv /\ Main => EchoInv'
<1> SUFFICES ASSUME EchoInv, Main
             PROVE  EchoInv'
    OBVIOUS
<1>1. TypeOK'
    BY MainType DEF EchoInv
<1>2. CASE RestartRequested \/ TransmitError
    BY <1>2, ResetEcho DEF RestartRequested, TransmitError
<1> USE BytesAreBytes
    DEF EchoInv, NotArmed, Hears, Raised, Asked, Unanswered, OnTheWire
<1>3. CASE FlagSeen
    BY <1>1, <1>3 DEF FlagSeen
<1>4. CASE Pack
    BY <1>1, <1>4 DEF Pack
<1>5. CASE RngError
    BY <1>1, <1>5 DEF RngError
<1>6. CASE Transmit
    BY <1>1, <1>6 DEF Transmit
<1>7. CASE Rearm
    BY <1>1, <1>7 DEF Rearm
<1>8. CASE RearmError
    BY <1>1, <1>8 DEF RearmError
<1>9. CASE Clear
    BY <1>1, <1>9 DEF Clear, TypeOK
<1> QED
    BY <1>2, <1>3, <1>4, <1>5, <1>6, <1>7, <1>8, <1>9 DEF Main

\* A new request waits until the one before was answered or given up.
LEMMA WriteEcho ==
    ASSUME EchoInv, NEW b \in {ON, OFF}, Write(b)
    PROVE  EchoInv'
<1>1. TypeOK'
    BY WriteType DEF EchoInv
<1>2. rdr' \in {rdr, b} \cup Unknown
    BY ArrivedByte DEF Write
<1> QED
    BY <1>1, <1>2, BytesAreBytes
    DEF EchoInv, NotArmed, Hears, Raised, Asked, Unanswered, OnTheWire, Write, TypeOK

\* The flush ends what an older packet has left, and like noise makes of an
\* answer one that is not whole.
LEMMA FlushEcho == EchoInv /\ (Flush \/ Garble) => EchoInv'
BY FlushType, BytesAreBytes
DEF EchoInv, NotArmed, Hears, Raised, Asked, Unanswered, OnTheWire, Flush, Garble,
    Broken, Empty

LEMMA SendRestartEcho ==
    ASSUME EchoInv, NEW times \in {1, 2}, SendRestart(times)
    PROVE  EchoInv'
<1>1. TypeOK'
    BY SendRestartType DEF EchoInv
<1>2. rdr' \in {rdr, RESTART} \cup Unknown
    BY ArrivedByte DEF SendRestart
<1> QED
    BY <1>1, <1>2, BytesAreBytes
    DEF EchoInv, NotArmed, Hears, Raised, Asked, Unanswered, OnTheWire, SendRestart

LEMMA RestartByteEcho == EchoInv /\ RestartByte => EchoInv'
<1> SUFFICES ASSUME EchoInv, RestartByte
             PROVE  EchoInv'
    OBVIOUS
<1>1. TypeOK'
    BY BBBType DEF EchoInv, BBB
<1>2. rdr' \in {rdr, RESTART, 0} \cup Unknown
    BY ArrivedByte DEF RestartByte
<1> QED
    BY <1>1, <1>2, BytesAreBytes
    DEF EchoInv, NotArmed, Hears, Raised, Asked, Unanswered, OnTheWire, RestartByte

\* Once main waits for the interrupt, what was asked is answered or lost.
LEMMA AnsweredByRest ==
    TypeOK /\ AtRest => ~Raised /\ pc # "transmit" /\ (Hears => rdr = NoByte)
BY BytesAreBytes DEF AtRest, Raised, Hears, TypeOK

LEMMA BBBEcho == EchoInv /\ BBB => EchoInv'
<1> SUFFICES ASSUME EchoInv, BBB
             PROVE  EchoInv'
    OBVIOUS
<1>1. TypeOK'
    BY BBBType DEF EchoInv
<1>2. CASE SendStatus
    BY <1>2, WriteEcho DEF SendStatus
<1>3. CASE SendRestart(1) \/ SendRestart(2)
    BY <1>3, SendRestartEcho
<1>4. CASE RestartByte
    BY <1>4, RestartByteEcho
<1>5. CASE ReadPacket
    BY <1>1, <1>5, BytesAreBytes
    DEF EchoInv, NotArmed, Hears, Raised, Asked, Unanswered, OnTheWire, ReadPacket, Empty
<1>6. CASE TimeOut
    BY <1>1, <1>6, AnsweredByRest, BytesAreBytes
    DEF EchoInv, NotArmed, Hears, Raised, Asked, Unanswered, OnTheWire, TimeOut
<1>7. CASE PressReset
    BY <1>7, ResetEcho DEF PressReset
<1>8. CASE Flush \/ Garble
    BY <1>8, FlushEcho
<1> QED
    BY <1>2, <1>3, <1>4, <1>5, <1>6, <1>7, <1>8 DEF BBB

LEMMA EchoNext == EchoInv /\ [Next]_vars => EchoInv'
<1>1. EchoInv /\ UNCHANGED vars => EchoInv'
    BY DEF EchoInv, NotArmed, Hears, Raised, Asked, Unanswered, OnTheWire, vars, TypeOK
<1> QED
    BY <1>1, CallbackEcho, MainEcho, BBBEcho DEF Next

\* PNG.c:66-75: a packet that the BBB reads as the answer to a request, and that
\* neither the flush nor noise has spoilt, echoes that request, even if the BBB
\* writes to a controller that is busy.
THEOREM ControllerEchoesTheRequest == Spec => []EchoesTheRequest
<1>1. EchoInv => EchoesTheRequest
    BY DEF EchoInv, OnTheWire, EchoesTheRequest
<1> QED
    BY <1>1, EchoInit, EchoNext, PTL DEF Spec

-----------------------------------------------------------------------------
(* The reception, for a controller the BBB leaves alone while it is busy.   *)

LEMMA SettledInit == Init => SettledInv
BY BytesAreBytes
DEF SettledInv, ArmedAt, Undisturbed, Answering, Raised, Started, Init

LEMMA ResetSettled == TypeOK /\ Reset => SettledInv'
BY ResetIdle DEF SettledInv, ArmedAt, Undisturbed, Answering, Raised

LEMMA CallbackSettled ==
    EchoInv /\ SettledInv /\ HAL_UART_RxCpltCallback => SettledInv'
<1> SUFFICES ASSUME EchoInv, SettledInv, HAL_UART_RxCpltCallback
             PROVE  SettledInv'
    OBVIOUS
<1> USE BytesAreBytes
    DEF SettledInv, ArmedAt, Undisturbed, Answering, Raised
<1>1. /\ pc = "loop" /\ interrupt_flag = OFF /\ armed
      /\ rdr \in Byte /\ status' = rdr /\ rdr' = NoByte
      /\ tail' = tail
    BY DEF HAL_UART_RxCpltCallback, EchoInv, NotArmed, TypeOK
<1>2. CASE TooManyWrong
    BY <1>1, <1>2 DEF TooManyWrong
<1>3. CASE rdr \in Known /\ KnownStatus
    BY <1>1, <1>3 DEF KnownStatus
<1>4. CASE UnknownStatus
    BY <1>1, <1>4 DEF UnknownStatus
<1>5. CASE UnknownStatusError
    BY <1>1, <1>5 DEF UnknownStatusError
<1> QED
    BY <1>2, <1>3, <1>4, <1>5 DEF HAL_UART_RxCpltCallback

LEMMA MainSettled == EchoInv /\ SettledInv /\ Main => SettledInv'
<1> SUFFICES ASSUME EchoInv, SettledInv, Main
             PROVE  SettledInv'
    OBVIOUS
<1>1. CASE RestartRequested \/ TransmitError
    BY <1>1, ResetSettled DEF EchoInv, RestartRequested, TransmitError
<1> USE BytesAreBytes
    DEF SettledInv, ArmedAt, Undisturbed, Answering, Raised
<1>2. CASE FlagSeen
    BY <1>2 DEF FlagSeen
<1>3. CASE Pack
    BY <1>3 DEF Pack, EchoInv, NotArmed
<1>4. CASE RngError
    BY <1>4 DEF RngError
<1>5. CASE Transmit
    BY <1>5 DEF Transmit
<1>6. CASE Rearm
    BY <1>6 DEF Rearm, EchoInv, NotArmed
<1>7. CASE RearmError
    BY <1>7 DEF RearmError
<1>8. CASE Clear
    BY <1>8 DEF Clear
<1> QED
    BY <1>1, <1>2, <1>3, <1>4, <1>5, <1>6, <1>7, <1>8 DEF Main

\* At rest, a controller that runs has read all that was sent to it.
LEMMA AtRestHasRead ==
    TypeOK /\ SettledInv /\ AtRest =>
        /\ tail = 0
        /\ pc # "halted" =>
            rdr = NoByte /\ pc = "loop" /\ interrupt_flag = OFF /\ armed
BY DEF SettledInv, ArmedAt, AtRest

LEMMA WriteSettled ==
    ASSUME EchoInv, SettledInv, AtRest, NEW b \in {ON, OFF}, Write(b)
    PROVE  SettledInv'
BY AtRestHasRead, BytesAreBytes
DEF SettledInv, ArmedAt, Undisturbed, Answering, Raised, EchoInv, Write

LEMMA SendRestartSettled ==
    ASSUME EchoInv, SettledInv, AtRest, NEW times \in {1, 2}, SendRestart(times)
    PROVE  SettledInv'
<1>1. rdr' \in {rdr, RESTART} \cup Unknown
    BY ArrivedByte DEF SendRestart
<1> QED
    BY <1>1, AtRestHasRead, BytesAreBytes
    DEF SettledInv, ArmedAt, Undisturbed, Answering, Raised, EchoInv, SendRestart

LEMMA RestartByteSettled == EchoInv /\ SettledInv /\ RestartByte => SettledInv'
<1> SUFFICES ASSUME EchoInv, SettledInv, RestartByte
             PROVE  SettledInv'
    OBVIOUS
<1>1. rdr' \in {rdr, RESTART, 0} \cup Unknown
    BY ArrivedByte DEF RestartByte
<1> QED
    BY <1>1, BytesAreBytes
    DEF SettledInv, ArmedAt, Undisturbed, Answering, Raised, EchoInv, RestartByte

\* What the BBB does with the line to it is nothing to the controller.
LEMMA ReadSettled ==
    SettledInv /\ (Flush \/ Garble \/ ReadPacket \/ TimeOut) => SettledInv'
BY DEF SettledInv, ArmedAt, Undisturbed, Answering, Raised, Flush, Garble, ReadPacket,
       TimeOut

LEMMA SettledNext == Settled /\ EchoInv /\ SettledInv /\ [Next]_vars => SettledInv'
<1> SUFFICES ASSUME Settled, EchoInv, SettledInv, [Next]_vars
             PROVE  SettledInv'
    OBVIOUS
<1>1. CASE SendStatus
    <2>1. PICK b \in {ON, OFF} : Write(b)
        BY <1>1 DEF SendStatus
    <2>2. AtRest
        BY <2>1 DEF Write
    <2> QED
        BY <2>1, <2>2, WriteSettled
<1>2. CASE SendRestart(1) \/ SendRestart(2)
    <2>1. AtRest
        BY <1>2 DEF SendRestart
    <2> QED
        BY <1>2, <2>1, SendRestartSettled
<1>3. CASE RestartByte
    BY <1>3, RestartByteSettled
<1>4. CASE Flush \/ Garble \/ ReadPacket \/ TimeOut
    BY <1>4, ReadSettled
<1>5. CASE PressReset
    BY <1>5, ResetSettled DEF PressReset, EchoInv
<1>6. CASE UNCHANGED vars
    BY <1>6 DEF SettledInv, ArmedAt, Undisturbed, Answering, Raised, vars
<1> QED
    BY <1>1, <1>2, <1>3, <1>4, <1>5, <1>6, CallbackSettled, MainSettled DEF Next, BBB

\* PNG.c:77-85: if the BBB writes only to a controller at rest, the loop never
\* finds the flag OFF without an interrupt that could raise it, whatever fails
\* and whatever bytes noise makes.
THEOREM ControllerNeverDeaf ==
    ASSUME Settled
    PROVE  Spec => []NeverDeaf
<1>1. Init => EchoInv /\ SettledInv
    BY EchoInit, SettledInit
<1>2. EchoInv /\ SettledInv /\ [Next]_vars => EchoInv' /\ SettledInv'
    BY EchoNext, SettledNext
<1>3. SettledInv => NeverDeaf
    BY DEF SettledInv, ArmedAt, NeverDeaf
<1> QED
    BY <1>1, <1>2, <1>3, PTL DEF Spec
=============================================================================
