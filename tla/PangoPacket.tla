------------------------------ MODULE PangoPacket ------------------------------
(***************************************************************************)
(* The ten bytes of PANNGO on their way from the STM controller over the   *)
(* UART to the BBB and over TCP into client[]: what is packed, sealed with *)
(* a CRC-8, disturbed on the line, read in part, converted by the terminal *)
(* driver, checked twice, and stored as text while the database thread may *)
(* read it.                                                                *)
(*                                                                         *)
(* One request is under way at a time.  Who may ask when, the answers of   *)
(* the server and the parkings are the matter of the other modules.        *)
(***************************************************************************)
EXTENDS Integers, Sequences, SequencesExt, FiniteSetsExt, Bitwise

CONSTANTS
    Mac,      \* the MAC addresses a controller may have: six bytes each
    Random,   \* the two numbers the generator returns for a request
    Stack,    \* what the uninitialised data_buff of the BBB holds
    Noise,    \* the sets of bits of a packet that the line may flip
    MaxBad    \* bound on the transfers that do not go well

ASSUME PacketAssumption ==
    /\ Mac \subseteq [1 .. 6 -> 0 .. 255]
    /\ Random \subseteq Nat \X Nat
    /\ Stack \in [1 .. 10 -> 0 .. 255]
    /\ Noise \subseteq SUBSET (0 .. 79)
    /\ MaxBad \in Nat

VARIABLES
    at,                \* where the request is
    pango_client_data, \* the STM controller's: status, mac_address, x_coor, y_coor
    send_buff,         \* what it transmitted last
    data_buff,         \* the BBB's buffer,
    status,            \* its status
    connected,         \* and whether it is connected
    tcp,               \* the bytes the server has not received
    client_data_buff,  \* the buffer of the connection's thread,
    client,            \* what it stored of it, and its status
    writes,            \* what sprintf has still to write to client.mac_address
    harm,              \* history: what befell the packet on the line,
    read_len,          \* how much of it the BBB read,
    recv_len,          \* and how much of it the server received
    bad                \* transfers so far that did not go well

stmVars == <<pango_client_data, send_buff>>
bbbVars == <<data_buff, status, connected, harm, read_len>>
serverVars == <<tcp, client_data_buff, client, writes, recv_len>>
vars == <<at, bad, stmVars, bbbVars, serverVars>>

Byte == 0 .. 255
BUFFER_SIZE_TO_SEND == 10
PANGO_DATA_SIZE == 9
MAC_ADDRESS_SIZE == 18
CRC_POLYNOMIAL == 141

ON == 1
OFF == 2
STAY_ON == 6
STAY_OFF == 7

NoBytes == [k \in 1 .. BUFFER_SIZE_TO_SEND |-> 0]

-----------------------------------------------------------------------------
(* CRC-8.                                                                   *)

\* One turn of the inner loop, on eight bits.
ShiftOut(crc) == LET shifted == (2 * crc) % 256
                 IN  IF crc >= 128 THEN shifted ^^ CRC_POLYNOMIAL ELSE shifted

\* The inner loop, for every value crc may have before it.
Shifted8 == [crc \in Byte |-> FoldLeft(LAMBDA c, j : ShiftOut(c), crc, [j \in 1 .. 8 |-> j])]

Crc8From(init, data, length) ==
    FoldLeft(LAMBDA crc, b : Shifted8[crc ^^ b], init, SubSeq(data, 1, length))

\* A variant with a plausible bug.
calculate_crc8FromZero(data, length) == Crc8From(0, data, length)

calculate_crc8(data, length) == Crc8From(255, data, length)

-----------------------------------------------------------------------------
(* STM: the packet.                                                         *)

rand_uint128(number) == number % 128

\* A variant with a plausible bug: the byte i + 1 is not written.
PackedWithoutY(d) == <<d.status>> \o d.mac_address \o <<d.x_coor, 0>>

\* pack_pango_buffer: status, MAC address, x and y,
Packed(d) == <<d.status>> \o d.mac_address \o <<d.x_coor, d.y_coor>>

\* and the checksum in the place that is left for it.
Sealed(d) == Append(Packed(d), calculate_crc8(Packed(d), PANGO_DATA_SIZE))

-----------------------------------------------------------------------------
(* BBB: what arrives and what it is taken for.                              *)

\* The line flips bits; bit 0 is the highest of the first byte.
Flipped(packet, bits) ==
    [k \in DOMAIN packet |->
       packet[k] ^^ SumSet({2 ^ (7 - (p % 8)) : p \in {q \in bits : q \div 8 = k - 1}})]

\* init_uart1 clears IXON but not ICRNL, which the driver sets by default: a
\* carriage return is read as a newline.
IcrnlRead(b) == IF b = 13 THEN 10 ELSE b

\* read() of the first n bytes of what is in the queue, over what was there.
OverWritten(buffer, bytes, n) ==
    [k \in DOMAIN buffer |-> IF k <= n THEN bytes[k] ELSE buffer[k]]

\* get_status, then CRC_8_check of the BBB.
Verdict(buffer) ==
    IF buffer[10] = calculate_crc8(buffer, PANGO_DATA_SIZE) THEN buffer[1]
    ELSE IF buffer[1] = ON THEN STAY_ON ELSE STAY_OFF

updating_status_value(s) == LET next == (s + 1) % 3 IN IF next = 0 THEN 1 ELSE next

-----------------------------------------------------------------------------
(* Server: the check, and the text of a MAC address.                        *)

\* CRC_8_check of the server.
PassesAtServer(buffer) == buffer[10] = calculate_crc8(buffer, PANGO_DATA_SIZE)

\* Characters: the digits of "%x" as their values, and
Colon == 16
Nul == 17

\* "%x": no leading zero.
Hex(b) == IF b < 16 THEN <<b>> ELSE <<b \div 16, b % 16>>

\* A variant with a plausible bug: no separator.
PieceWithoutColon(buffer, i) == Hex(buffer[i + 1])

\* What the i-th call of sprintf prints.
Piece(buffer, i) == Hex(buffer[i + 1]) \o (IF i = 6 THEN <<>> ELSE <<Colon>>)

\* store_client_data_in_struct on mac_address, a character at a time: every
\* call of sprintf begins where the last one put its NUL.
MacWrites(buffer) ==
    LET Printed(i) == FlattenSeq([j \in 1 .. i |-> Piece(buffer, j)])
        WritesOf(i) ==
            LET offset == Len(Printed(i - 1))
                text == Append(Piece(buffer, i), Nul)
            IN  [c \in 1 .. Len(text) |-> [index |-> offset + c - 1, char |-> text[c]]]
    IN  FlattenSeq([i \in 1 .. 6 |-> WritesOf(i)])

\* The C string in an array of characters.
CString(array) ==
    LET length == Min({k \in DOMAIN array : array[k] = Nul})
    IN  [c \in 1 .. length |-> array[c - 1]]

ZeroedClient ==
    [mac_address |-> [k \in 0 .. MAC_ADDRESS_SIZE - 1 |-> Nul],
     x_axis |-> 0, y_axis |-> 0, status |-> 2]

-----------------------------------------------------------------------------
Init ==
    /\ at = "button"
    /\ \E m \in Mac : pango_client_data =
                         [status |-> 0, mac_address |-> m, x_coor |-> 0, y_coor |-> 0]
    /\ send_buff = NoBytes
    /\ data_buff = Stack
    /\ status = ON
    /\ connected = FALSE
    /\ tcp = <<>>
    /\ client_data_buff = NoBytes
    /\ client = ZeroedClient
    /\ writes = <<>>
    /\ harm = {}
    /\ read_len = BUFFER_SIZE_TO_SEND
    /\ recv_len = BUFFER_SIZE_TO_SEND
    /\ bad = 0

\* The button is pressed, the BBB writes its status, and the main loop of the
\* STM controller answers it.
Answer ==
    /\ at = "button"
    /\ \E number \in Random :
          pango_client_data' = [pango_client_data EXCEPT !.status = status,
                                                         !.x_coor = rand_uint128(number[1]),
                                                         !.y_coor = rand_uint128(number[2])]
    /\ send_buff' = Sealed(pango_client_data')
    /\ at' = "line"
    /\ UNCHANGED <<bad, bbbVars, serverVars>>

\* The transfers of a packet: whole and right, or cut short, or disturbed.
Lengths(complete) == IF bad < MaxBad THEN 1 .. complete ELSE {complete}
Disturbance == IF bad < MaxBad THEN Noise \cup {{}} ELSE {{}}

Read ==
    /\ at = "line"
    /\ \E n \in Lengths(BUFFER_SIZE_TO_SEND), bits \in Disturbance :
          LET arrived == Flipped(send_buff, bits)
              converted == [k \in DOMAIN arrived |-> IcrnlRead(arrived[k])]
          IN  /\ n = BUFFER_SIZE_TO_SEND \/ bits = {}
              /\ data_buff' = OverWritten(data_buff, converted, n)
              /\ read_len' = n
              /\ harm' = (IF bits # {} THEN {"flipped"} ELSE {}) \cup
                         (IF converted # arrived THEN {"converted"} ELSE {})
              /\ bad' = IF n < BUFFER_SIZE_TO_SEND \/ bits # {} THEN bad + 1 ELSE bad
    /\ status' = Verdict(data_buff')
    /\ at' = "checked"
    /\ UNCHANGED <<connected, stmVars, serverVars>>

\* The status is ON and the BBB not connected: a new connection, served by a
\* thread with a slot of its own.
SendStart ==
    /\ at = "checked"
    /\ status = ON /\ ~connected
    /\ tcp' = data_buff
    /\ client_data_buff' = NoBytes
    /\ client' = ZeroedClient
    /\ at' = "server"
    /\ UNCHANGED <<bad, writes, recv_len, stmVars, bbbVars>>

SendClose ==
    /\ at = "checked"
    /\ status = OFF /\ connected
    /\ tcp' = tcp \o data_buff
    /\ at' = "server"
    /\ UNCHANGED <<bad, client_data_buff, client, writes, recv_len, stmVars, bbbVars>>

\* Nothing to send: the status is turned, and the button asked again.
AskAgain ==
    /\ at = "checked"
    /\ ~(status = ON /\ ~connected) /\ ~(status = OFF /\ connected)
    /\ status' = updating_status_value(status)
    /\ at' = "button"
    /\ UNCHANGED <<bad, data_buff, connected, harm, read_len, stmVars, serverVars>>

\* recv of up to ten bytes, and CRC_8_check.
Recv ==
    /\ at = "server"
    /\ \E n \in Lengths(BUFFER_SIZE_TO_SEND) :
          /\ client_data_buff' = OverWritten(client_data_buff, tcp, n)
          /\ tcp' = SubSeq(tcp, n + 1, Len(tcp))
          /\ recv_len' = n
          /\ bad' = IF n < BUFFER_SIZE_TO_SEND THEN bad + 1 ELSE bad
    /\ \/ /\ PassesAtServer(client_data_buff')
          /\ writes' = MacWrites(client_data_buff')
          /\ client' = [client EXCEPT !.status = client_data_buff'[1]]
          /\ at' = "storing"
       \/ /\ ~PassesAtServer(client_data_buff')
          /\ at' = "refused"
          /\ UNCHANGED <<writes, client>>
    /\ UNCHANGED <<stmVars, bbbVars>>

\* A character of the text.  The mutex is not held.
Store ==
    /\ at = "storing"
    /\ writes # <<>>
    /\ client' = [client EXCEPT !.mac_address[Head(writes).index] = Head(writes).char]
    /\ writes' = Tail(writes)
    /\ UNCHANGED <<at, bad, tcp, client_data_buff, recv_len, stmVars, bbbVars>>

\* The last turn of the loop stores the coordinates.
StoreCoordinates ==
    /\ at = "storing"
    /\ writes = <<>>
    /\ client' = [client EXCEPT !.x_axis = client_data_buff[8], !.y_axis = client_data_buff[9]]
    /\ at' = "stored"
    /\ UNCHANGED <<bad, tcp, client_data_buff, writes, recv_len, stmVars, bbbVars>>

\* The server answers with the location or the payment.
Served ==
    /\ at = "stored"
    /\ connected' = (client.status = ON)
    /\ status' = updating_status_value(status)
    /\ at' = "button"
    /\ UNCHANGED <<bad, data_buff, harm, read_len, stmVars, serverVars>>

\* The server answers with ERROR, which sets STAY_ON for a START and is taken
\* for the payment of a CLOSE, and its thread ends.
Refused ==
    /\ at = "refused"
    /\ connected' = FALSE
    /\ status' = updating_status_value(IF connected THEN status ELSE STAY_ON)
    /\ tcp' = <<>>
    /\ at' = "button"
    /\ UNCHANGED <<bad, data_buff, harm, read_len, stmVars, client_data_buff, client,
                   writes, recv_len>>

Next ==
    \/ Answer \/ Read \/ SendStart \/ SendClose \/ AskAgain
    \/ Recv \/ Store \/ StoreCoordinates \/ Served \/ Refused

Spec == Init /\ [][Next]_vars
-----------------------------------------------------------------------------
(* Properties.                                                              *)

\* Polynomials over the integers mod 2, as the sets of their exponents: the
\* generator x^8 + x^7 + x^3 + x^2 + 1, and the powers of x modulo it.
Plus(p, q) == (p \ q) \cup (q \ p)
Generator == {8, 7, 3, 2, 0}
XPower[k \in 0 .. 79] ==
    IF k = 0 THEN {0}
    ELSE LET product == {e + 1 : e \in XPower[k - 1]}
         IN  IF 8 \in product THEN Plus(product, Generator) ELSE product

\* A packet as a polynomial, its first bit the highest coefficient.  The
\* initial value 0xFF inverts the first eight.
Polynomial(packet) ==
    {e \in 0 .. 79 : LET p == 79 - e
                         bit == (packet[(p \div 8) + 1] \div 2 ^ (7 - (p % 8))) % 2
                     IN  bit = IF p < 8 THEN 0 ELSE 1}

Remainder(polynomial) == FoldSet(LAMBDA e, r : Plus(XPower[e], r), {}, polynomial)

\* pango_functions.c:71: what the controller transmits is, with its checksum,
\* a multiple of the generator: the loop of shifts computes the CRC-8 that the
\* polynomial 0x8D and the initial value 0xFF stand for.
SealedIsMultiple ==
    at = "line" => Remainder(Polynomial(send_buff)) = {}

\* client_thread_func.c:111: whatever the line flipped or the driver converted
\* (but not both), and however little was read of a packet over an older one,
\* what the server stores is the status and the MAC address that the
\* controller packed for this request, and its coordinates unless a part was
\* missing.
StoredAsPacked ==
    at = "stored" /\ harm # {"flipped", "converted"} =>
        LET sent == pango_client_data
        IN  /\ client.status = sent.status
            /\ CString(client.mac_address)
                 = FlattenSeq([i \in 1 .. 6 |->
                      Hex(sent.mac_address[i]) \o (IF i = 6 THEN <<>> ELSE <<Colon>>)])
            /\ {read_len, recv_len} = {BUFFER_SIZE_TO_SEND} =>
                  <<client.x_axis, client.y_axis>> = <<sent.x_coor, sent.y_coor>>

\* client_thread_func.c:131: mac_address of a client that is counting is
\* written again without the mutex when its CLOSE arrives.  Whatever the
\* database thread reads of it meanwhile, it updates the row of this device or
\* none, and the text stays inside the array.
NobodyElsesRow ==
    /\ \A w \in ToSet(writes) : w.index < MAC_ADDRESS_SIZE
    /\ connected =>
          \A m \in Mac \ {pango_client_data.mac_address} :
             CString(client.mac_address) # CString(
                FoldLeft(LAMBDA a, w : [a EXCEPT ![w.index] = w.char],
                         ZeroedClient.mac_address, MacWrites(<<0>> \o m)))
=============================================================================
