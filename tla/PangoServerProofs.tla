-------------------------- MODULE PangoServerProofs --------------------------
(***************************************************************************)
(* Theorems of PangoServer for every number of devices and slots, every    *)
(* period and every bound on the clock.                                    *)
(***************************************************************************)
EXTENDS PangoServer, SequenceTheorems, TLAPS

-----------------------------------------------------------------------------
(* Lemmas about the operators of the model.                                 *)

\* The city of coordinates the STM can send is a city with a price.
LEMMA LocationOfCoords ==
    ASSUME NEW xy \in Coords \cup {<<0, 0>>}
    PROVE  location_func(xy[1], xy[2]) \in City
<1>1. xy[1] \in 0 .. 127 /\ xy[2] \in 0 .. 127
  BY ConstantsAssumption
<1>2. QED
  BY <1>1 DEF location_func, City

\* A price is a natural number, whether or not a row was found for the city.
LEMMA PriceIsNat ==
    ASSUME NEW location, NEW price \in Nat
    PROVE  PriceAt(location, price) \in Nat
<1>1. \A c \in City : city_parking[c] \in Nat
  BY DEF City, city_parking
<1>2. QED
  BY <1>1 DEF PriceAt

\* A wait for the mutex leads to a critical section.
LEMMA LockEnters ==
    ASSUME NEW w \in Waiting
    PROVE  CriticalSection[w] \in Critical
BY DEF Waiting, CriticalSection, Critical

\* UPDATE keeps the number of rows and the columns' types.
LEMMA UpdateRows ==
    ASSUME your_table \in [Device -> Seq(Row)], NEW m, NEW used \in Int
    PROVE  /\ Update(m, used) \in [Device -> Seq(Row)]
           /\ \A d \in Device : Len(Update(m, used)[d]) = Len(your_table[d])
<1>1. ASSUME NEW rows \in Seq(Row)
      PROVE  LET s == [k \in DOMAIN rows |-> [rows[k] EXCEPT !.TIME_USED = used]]
             IN  s \in Seq(Row) /\ Len(s) = Len(rows)
  <2>1. Len(rows) \in Nat /\ DOMAIN rows = 1 .. Len(rows)
        /\ rows \in [1 .. Len(rows) -> Row]
    BY LenProperties
  <2>2. \A k \in 1 .. Len(rows) : [rows[k] EXCEPT !.TIME_USED = used] \in Row
    BY <2>1 DEF Row
  <2> DEFINE s == [k \in DOMAIN rows |-> [rows[k] EXCEPT !.TIME_USED = used]]
  <2>3. s \in [1 .. Len(rows) -> Row]
    BY <2>1, <2>2
  <2>4. s \in Seq(Row)
    BY <2>1, <2>3, SeqDef
  <2>5. Len(s) = Len(rows)
    BY <2>1, <2>4, LenProperties
  <2>6. QED
    BY <2>4, <2>5
<1>2. QED
  BY <1>1 DEF Update

\* INSERT adds one row to those of one device.
LEMMA InsertRow ==
    ASSUME your_table \in [Device -> Seq(Row)], NEW m, NEW location \in Location
    PROVE  /\ Insert(m, location) \in [Device -> Seq(Row)]
           /\ \A d \in Device : d # m => Insert(m, location)[d] = your_table[d]
           /\ \A d \in Device : Len(Insert(m, location)[d]) <= Len(your_table[d]) + 1
<1>1. [TIME_USED |-> 0, LOCATION |-> location] \in Row
  BY DEF Row
<1>2. ASSUME NEW rows \in Seq(Row), NEW r \in Row
      PROVE  Append(rows, r) \in Seq(Row) /\ Len(Append(rows, r)) = Len(rows) + 1
  BY <1>2
<1>3. \A d \in Device : Len(your_table[d]) \in Nat
  BY LenProperties
<1>4. QED
  BY <1>1, <1>2, <1>3 DEF Insert

\* DELETE leaves no row of one device and those of the others.
LEMMA DeleteRows ==
    ASSUME your_table \in [Device -> Seq(Row)], NEW m
    PROVE  /\ Delete(m) \in [Device -> Seq(Row)]
           /\ \A d \in Device : Delete(m)[d] = IF d = m THEN <<>> ELSE your_table[d]
BY EmptySeq DEF Delete

-----------------------------------------------------------------------------
(* The inductive invariant.                                                 *)

\* The labels a thread reaches only after a message has set mac_address.
Served == {"check", "resumeLock", "resume", "insertLock", "insert",
           "sendLocation", "setConnected", "closeLock", "close",
           "deleteLock", "delete"}

\* A slot is in use once its connection is accepted, and then holds no other
\* MAC address than that of the device at the other end.  Only a thread that
\* is about to end may have none: in ServerLifecycle a failing accept starts
\* such a thread.
Registered ==
    \A i \in Slot :
        /\ pc[i] = "none" <=> i >= accepted
        /\ pc[i] = "none" => dev[i] = NoDevice
        /\ pc[i] \notin {"none", "finish", "done"} => dev[i] \in Device
        /\ client[i].mac_address \in {NoDevice, dev[i]}
        /\ pc[i] \in Served => client[i].mac_address = dev[i]
        /\ pc[i] = "exit" /\ status[i] = "CLOSE_APP" => client[i].mac_address = dev[i]
        /\ pc[i] \in {"lostLock", "lost"} => status[i] = "CONNECTION_LOST"

TypeInv == TypeOK /\ Registered

\* What keeps two rows of a device from being inserted: of its threads only
\* one has not ended,
OneLive ==
    \A i, j \in Slot :
        /\ i # j
        /\ dev[i] \in Device
        /\ pc[i] \notin {"none", "done"}
        /\ dev[j] = dev[i]
        => pc[j] = "done"

\* and while that thread waits to insert the row, there is none.
NoRowYet ==
    \A i \in Slot : pc[i] \in {"insertLock", "insert"} => Len(your_table[dev[i]]) = 0

-----------------------------------------------------------------------------
(* Types.                                                                   *)

\* Assigning the start of the count and the flag keeps client[i] well typed,
LEMMA CountingType ==
    ASSUME NEW c \in pango_data, NEW t \in Int
    PROVE  [c EXCEPT !.time_start_parking = t, !.connected = TRUE] \in pango_data
BY DEF pango_data

\* storing what a message carries as well,
LEMMA StoredType ==
    ASSUME NEW c \in pango_data, NEW m \in Device \cup {NoDevice}, NEW xy \in Coords
    PROVE  [c EXCEPT !.mac_address = m, !.coords = xy] \in pango_data
BY DEF pango_data

\* so does starting the count of a new client,
LEMMA StartedType ==
    ASSUME NEW c \in pango_data, NEW t \in Int, NEW l \in Location
    PROVE  [c EXCEPT !.time_start_parking = t, !.location = l] \in pango_data
BY DEF pango_data

\* and raising or lowering the flag,
LEMMA FlagType ==
    ASSUME NEW c \in pango_data
    PROVE  /\ [c EXCEPT !.connected = TRUE] \in pango_data
           /\ [c EXCEPT !.connected = FALSE] \in pango_data
BY DEF pango_data

\* a slot that was never used is well typed,
LEMMA ZeroedType == ZeroedData \in pango_data
BY DEF ZeroedData, pango_data, Location

\* and what the SELECTs of a resumption leave in client[i] is well typed.
LEMMA ContinuedType ==
    ASSUME TypeInv, NEW i \in Slot, pc[i] = "resume", NEW got \in Got
    PROVE  /\ Continued(i, got) \in pango_data
           /\ Located(i, got) \in pango_data
<1> DEFINE rows == your_table[client[i].mac_address]
<1>1. client[i] \in pango_data /\ now \in Nat
  BY DEF TypeInv, TypeOK
<1>2. client[i].mac_address \in Device
  BY DEF TypeInv, Registered, Served
<1>3. ASSUME rows # <<>>
      PROVE  rows[1] \in Row
  <2>1. rows \in Seq(Row)
    BY <1>2 DEF TypeInv, TypeOK
  <2>2. Len(rows) \in Nat \ {0}
    BY <2>1, <1>3, EmptySeq
  <2>3. QED
    BY <2>1, <2>2, ElementOfSeq
<1> DEFINE used == IF rows # <<>> /\ "TIME_USED" \in got THEN rows[1].TIME_USED
                   ELSE client[i].time_start_parking
           c == [client[i] EXCEPT !.time_start_parking = now - used, !.connected = TRUE]
           location == IF rows # <<>> /\ "LOCATION" \in got THEN rows[1].LOCATION
                       ELSE c.location
<1>4. used \in Int
  BY <1>1, <1>3 DEF pango_data, Row
<1>5. c \in pango_data
  <2>1. now - used \in Int
    BY <1>1, <1>4
  <2>2. QED
    BY <1>1, <2>1, CountingType
<1>6. Continued(i, got) = c
  BY DEF Continued
<1>7. location \in Location
  BY <1>5, <1>3 DEF pango_data, Row
<1>8. [c EXCEPT !.location = location] \in pango_data
  BY <1>5, <1>7 DEF pango_data
<1>9. Located(i, got) = [c EXCEPT !.location = location]
  BY <1>6 DEF Located
<1>10. QED
  BY <1>5, <1>6, <1>8, <1>9

\* Looking up the price keeps client[i] well typed.
LEMMA PricedType ==
    ASSUME NEW c \in pango_data, NEW got
    PROVE  Priced(c, got) \in pango_data
BY PriceIsNat DEF Priced, pango_data

\* send keeps the connection and what the device has to read well typed.
LEMMA SendType ==
    ASSUME TypeOK, NEW i \in Slot, NEW r \in Reply, Send(i, r)
    PROVE  /\ link' \in [Slot -> {"none", "up", "fin", "reset", "dead", "closed"}]
           /\ reply' \in [Slot -> Reply \cup {NoReply}]
BY DEF TypeOK, Send

\* Processing a message keeps the thread's locals and client[i] well typed.
LEMMA ProcessType ==
    ASSUME TypeOK, NEW i \in Slot, NEW m \in Message \cup {NoMsg}, Process(i, m)
    PROVE  /\ client' \in [Slot -> pango_data]
           /\ pc' \in [Slot -> PC]
           /\ status' \in [Slot -> AppStatus]
<1>1. CASE m # NoMsg /\ m.crc_ok
  <2>1. m.coords \in Coords /\ m.status \in AppStatus
    BY <1>1 DEF Message, AppStatus
  <2>2. dev[i] \in Device \cup {NoDevice}
    BY DEF TypeOK
  <2>3. [client[i] EXCEPT !.mac_address = dev[i], !.coords = m.coords] \in pango_data
    BY <2>1, <2>2, StoredType DEF TypeOK
  <2>4. client' = [client EXCEPT ![i] =
                     [client[i] EXCEPT !.mac_address = dev[i], !.coords = m.coords]]
    BY <1>1 DEF Process, TypeOK
  <2>5. QED
    BY <1>1, <2>1, <2>3, <2>4 DEF Process, Goto, TypeOK, PC, Waiting, CriticalSection
<1>2. CASE ~(m # NoMsg /\ m.crc_ok)
  BY <1>2 DEF Process, Goto, TypeOK, PC, AppStatus
<1>3. QED
  BY <1>1, <1>2

\* A restart leaves well-typed memory and connections.
LEMMA RestartType ==
    ASSUME TypeOK, Restart
    PROVE  TypeOK'
<1>1. client' \in [Slot -> pango_data]
  BY ZeroedType DEF Restart
<1>2. pc' \in [Slot -> PC] /\ status' \in [Slot -> AppStatus]
  BY DEF Restart, PC, AppStatus
<1>3. accepted' \in 0 .. MaxClients /\ dbNext' \in 0 .. MaxClients
  BY ConstantsAssumption DEF Restart
<1>4. QED
  BY <1>1, <1>2, <1>3 DEF Restart, TypeOK, Free

\* Every step of a client thread keeps the types.
LEMMA ThreadType ==
    ASSUME TypeInv, NEW i \in Slot, Thread(i)
    PROVE  TypeOK'
<1> USE DEF TypeInv, TypeOK, Goto, Unlock, netVars
<1>1. CASE Lock(i)
  BY <1>1, LockEnters DEF Lock, Critical, PC
<1>2. CASE Recv(i)
  BY <1>2, ProcessType DEF Recv
<1>3. CASE RecvError(i)
  BY <1>3, ProcessType DEF RecvError
<1>4. CASE RecvLost(i)
  BY <1>4 DEF RecvLost, AppStatus, PC, Waiting, CriticalSection
<1>5. CASE Lost(i)
  BY <1>5, FlagType DEF Lost, PC
<1>6. CASE CheckKnown(i)
  BY <1>6 DEF CheckKnown, PC, Waiting, CriticalSection
<1>7. CASE CheckNew(i)
  <2>1. client[i].coords \in Coords \cup {<<0, 0>>}
    BY DEF pango_data
  <2>2. location_func(client[i].coords[1], client[i].coords[2]) \in Location
    BY <2>1, LocationOfCoords DEF Location
  <2> DEFINE location == location_func(client[i].coords[1], client[i].coords[2])
             c == [client[i] EXCEPT !.time_start_parking = now, !.location = location]
  <2>3. client[i] \in pango_data /\ now \in Int
    OBVIOUS
  <2>4. c \in pango_data
    <3> HIDE DEF TypeInv, TypeOK, location
    <3>1. QED
      BY <2>2, <2>3, StartedType DEF location
  <2>5. client' = [client EXCEPT ![i] = c]
    BY <1>7 DEF CheckNew
  <2>6. client' \in [Slot -> pango_data]
    BY <2>4, <2>5
  <2>7. pc' \in [Slot -> PC]
    BY <1>7 DEF CheckNew, PC, Waiting, CriticalSection
  <2>8. QED
    BY <1>7, <2>6, <2>7 DEF CheckNew
<1>8. CASE CheckAgain(i)
  BY <1>8 DEF CheckAgain, PC
<1>9. CASE Resume(i)
  BY <1>9, ContinuedType, PricedType, SendType DEF Resume, LocationReply, Reply, PC
<1>10. CASE ResumeError(i)
  BY <1>10, ContinuedType DEF ResumeError, AppStatus, PC
<1>11. CASE InsertClient(i)
  BY <1>11, PricedType, InsertRow DEF InsertClient, pango_data, PC
<1>12. CASE InsertError(i)
  BY <1>12, PricedType DEF InsertError, AppStatus, PC
<1>13. CASE SendLocation(i)
  BY <1>13, SendType DEF SendLocation, LocationReply, Reply, PC
<1>14. CASE SetConnected(i)
  BY <1>14, FlagType DEF SetConnected, PC
<1>15. CASE CloseApp(i)
  <2>1. now - client[i].time_start_parking \in Int
    BY DEF pango_data
  <2>2. your_table' \in [Device -> Seq(Row)] /\ end_time' \in [Slot -> Nat]
    BY <1>15, <2>1, UpdateRows DEF CloseApp, UpdateClientData
  <2>3. client' \in [Slot -> pango_data]
    BY <1>15, FlagType DEF CloseApp
  <2>4. pc' \in [Slot -> PC] /\ status' \in [Slot -> AppStatus]
    BY <1>15 DEF CloseApp, PC, AppStatus
  <2>5. QED
    BY <1>15, <2>2, <2>3, <2>4 DEF CloseApp
<1>16. CASE SendPayment(i)
  <2> DEFINE elapsed == end_time[i] - client[i].time_start_parking
             price == client[i].price * elapsed
  <2>1. elapsed \in Int /\ client[i].price \in Int
    BY DEF pango_data
  <2>2. price \in Int
    BY <2>1
  <2>3. Payment(price, elapsed) \in Reply
    BY <2>1, <2>2 DEF Payment, Reply
  <2>4. Send(i, Payment(price, elapsed))
    BY <1>16 DEF SendPayment
  <2>5. pc' \in [Slot -> PC]
    BY <1>16 DEF SendPayment, PC, Waiting, CriticalSection
  <2>6. QED
    BY <1>16, <2>3, <2>4, <2>5, SendType DEF SendPayment
<1>17. CASE RemoveClient(i)
  BY <1>17, DeleteRows DEF RemoveClient, PC
<1>18. CASE ExitLost(i)
  BY <1>18 DEF ExitLost, PC, Waiting, CriticalSection
<1>19. CASE UpdateLost(i)
  BY <1>19, UpdateRows DEF UpdateLost, UpdateClientData, pango_data, PC
<1>20. CASE SendError(i)
  BY <1>20, SendType DEF SendError, ErrorReply, Reply, PC
<1>21. CASE ExitSilently(i)
  BY <1>21 DEF ExitSilently, PC
<1>22. CASE Finish(i)
  BY <1>22 DEF Finish, PC
<1>23. CASE BrokenPipe(i)
  BY <1>23, RestartType DEF BrokenPipe
<1>24. QED
  BY <1>1, <1>2, <1>3, <1>4, <1>5, <1>6, <1>7, <1>8, <1>9, <1>10, <1>11, <1>12,
     <1>13, <1>14, <1>15, <1>16, <1>17, <1>18, <1>19, <1>20, <1>21, <1>22, <1>23
  DEF Thread

\* Every step of the database update thread keeps the types.
LEMMA DbUpdateThreadType ==
    ASSUME TypeInv, DbUpdateThread
    PROVE  TypeOK'
<1> USE DEF TypeInv, TypeOK, netVars
<1>1. CASE DbLock
  BY <1>1, ConstantsAssumption DEF DbLock
<1>2. CASE DbUpdate
  <2>1. dbNext \in Slot
    BY <1>2, ConstantsAssumption DEF DbUpdate, Slot
  <2>2. now - client[dbNext].time_start_parking \in Int
    BY <2>1 DEF pango_data
  <2>3. your_table' \in [Device -> Seq(Row)]
    BY <1>2, <2>2, UpdateRows DEF DbUpdate
  <2>4. QED
    BY <1>2, <2>3, ConstantsAssumption DEF DbUpdate
<1>3. CASE DbUnlock
  BY <1>3 DEF DbUnlock
<1>4. QED
  BY <1>1, <1>2, <1>3 DEF DbUpdateThread

\* Every step of the devices, the network and the clock keeps the types.
LEMMA EnvironmentType ==
    ASSUME TypeInv, Environment
    PROVE  TypeOK'
<1> USE DEF TypeInv, TypeOK, serverVars
<1>1. ASSUME NEW m \in Device, Connect(m)
      PROVE  TypeOK'
  <2>1. accepted' \in 0 .. MaxClients
    BY <1>1, ConstantsAssumption DEF Connect
  <2>2. pc' \in [Slot -> PC]
    BY <1>1 DEF Connect, PC
  <2>3. dev' \in [Slot -> Device \cup {NoDevice}]
    BY <1>1 DEF Connect
  <2>4. /\ phase' \in [Slot -> {"closed", "open", "starting", "parked", "closing"}]
        /\ link' \in [Slot -> {"none", "up", "fin", "reset", "dead", "closed"}]
    BY <1>1 DEF Connect
  <2>5. QED
    BY <1>1, <2>1, <2>2, <2>3, <2>4 DEF Connect
<1>2. ASSUME NEW i \in Slot, DeviceStep(i) \/ Disconnect(i) \/ Reset(i)
      PROVE  TypeOK'
  <2>1. ASSUME NEW s \in {"START_APP", "CLOSE_APP"}, Transmit(i, s)
        PROVE  inbox' \in [Slot -> Message \cup {NoMsg}]
    <3>1. PICK xy \in Coords, ok \in {TRUE, "corrupt" \notin Faults} :
            inbox' = [inbox EXCEPT ![i] = [status |-> s, coords |-> xy, crc_ok |-> ok]]
      BY <2>1 DEF Transmit
    <3>2. ok \in BOOLEAN
      BY Zenon
    <3>3. [status |-> s, coords |-> xy, crc_ok |-> ok] \in Message
      BY <3>2 DEF Message
    <3>4. QED
      BY <3>1, <3>3
  <2>2. CASE SendStart(i)
    BY <2>1, <2>2 DEF SendStart
  <2>3. CASE ReceiveLocation(i)
    BY <2>3 DEF ReceiveLocation
  <2>4. CASE SendClose(i)
    BY <2>1, <2>4 DEF SendClose
  <2>5. CASE ReceivePayment(i)
    BY <2>5 DEF ReceivePayment
  <2>6. CASE GiveUp(i)
    BY <2>6 DEF GiveUp
  <2>7. CASE Disconnect(i) \/ Reset(i)
    BY <2>7 DEF Disconnect, Reset, Leave
  <2>8. QED
    BY <1>2, <2>2, <2>3, <2>4, <2>5, <2>6, <2>7 DEF DeviceStep
<1>3. CASE Crash
  BY <1>3, RestartType DEF Crash
<1>4. CASE Tick
  BY <1>4 DEF Tick, netVars
<1>5. QED
  BY <1>1, <1>2, <1>3, <1>4 DEF Environment
-----------------------------------------------------------------------------
(* Connections and MAC addresses.                                           *)

\* A thread's step that keeps the MAC addresses, and goes on to a place that
\* needs one only if it has one, keeps Registered.
LEMMA RegisteredFrame ==
    ASSUME TypeInv, NEW i \in Slot, NEW l \in PC,
           pc[i] # "none", l # "none",
           l \in {"finish", "done"} \/ pc[i] \notin {"finish", "done"},
           pc' = [pc EXCEPT ![i] = l],
           accepted' = accepted, dev' = dev,
           \A j \in Slot : client'[j].mac_address = client[j].mac_address,
           \A j \in Slot : j # i => status'[j] = status[j],
           l \in Served \/ (l = "exit" /\ status'[i] = "CLOSE_APP")
               => client[i].mac_address = dev[i],
           l \in {"lostLock", "lost"} => status'[i] = "CONNECTION_LOST"
    PROVE  Registered'
<1>1. \A j \in Slot : pc'[j] = IF j = i THEN l ELSE pc[j]
  BY DEF TypeInv, TypeOK
<1>2. QED
  BY <1>1 DEF TypeInv, Registered

\* Processing a message records the MAC address of the device at the other
\* end, and a thread goes on only with a message that has the right CRC-8.
LEMMA RegisteredProcess ==
    ASSUME TypeInv, NEW i \in Slot, NEW m \in Message \cup {NoMsg},
           pc[i] = "recv", Process(i, m), accepted' = accepted, dev' = dev
    PROVE  Registered'
<1>1. CASE m # NoMsg /\ m.crc_ok
  <2> DEFINE c == [client[i] EXCEPT !.mac_address = dev[i], !.coords = m.coords]
  <2>1. client' = [client EXCEPT ![i] = c]
    BY <1>1 DEF Process, TypeInv, TypeOK
  <2>2. c.mac_address = dev[i]
    BY DEF TypeInv, TypeOK, pango_data
  <2>3. \A j \in Slot : client'[j].mac_address =
                           IF j = i THEN dev[i] ELSE client[j].mac_address
    BY <2>1, <2>2 DEF TypeInv, TypeOK
  <2>4. /\ \A j \in Slot : j # i => pc'[j] = pc[j] /\ status'[j] = status[j]
        /\ pc'[i] \notin {"none", "lostLock", "lost"}
    BY <1>1 DEF Process, Goto, TypeInv, TypeOK
  <2>5. QED
    BY <2>3, <2>4 DEF TypeInv, Registered
<1>2. CASE ~(m # NoMsg /\ m.crc_ok)
  <2>1. /\ pc' = [pc EXCEPT ![i] = "exit"]
        /\ client' = client
        /\ status' = [status EXCEPT ![i] = "CRC8_TEST_FAILED"]
    BY <1>2 DEF Process, Goto
  <2>2. /\ \A j \in Slot : j # i => status'[j] = status[j]
        /\ status'[i] = "CRC8_TEST_FAILED"
    BY <2>1 DEF TypeInv, TypeOK
  <2>3. "exit" \in PC /\ "exit" \notin Served
    BY DEF PC, Served
  <2>4. QED
    BY <2>1, <2>2, <2>3, RegisteredFrame
<1>3. QED
  BY <1>1, <1>2

\* After a restart no slot is in use.
LEMMA RestartRegistered ==
    ASSUME Restart
    PROVE  Registered'
<1>1. ZeroedData.mac_address = NoDevice
  BY DEF ZeroedData
<1>2. \A j \in Slot : j >= 0
  BY DEF Slot
<1>3. \A j \in Slot : /\ pc'[j] = "none"
                      /\ dev'[j] = NoDevice
                      /\ client'[j].mac_address = NoDevice
  BY <1>1 DEF Restart
<1>4. accepted' = 0 /\ "none" \notin Served
  BY DEF Restart, Served
<1>5. QED
  BY <1>2, <1>3, <1>4 DEF Registered

\* No step after Process changes the MAC address of client[i]: neither the
\* flag, nor the SELECTs of a resumption, nor the price.
LEMMA MacKept ==
    ASSUME TypeInv, NEW i \in Slot
    PROVE  /\ \A b \in BOOLEAN :
                [client[i] EXCEPT !.connected = b].mac_address = client[i].mac_address
           /\ \A t, l : [client[i] EXCEPT !.time_start_parking = t, !.location = l].mac_address
                          = client[i].mac_address
           /\ \A got : /\ Continued(i, got).mac_address = client[i].mac_address
                       /\ Located(i, got).mac_address = client[i].mac_address
           /\ \A c \in pango_data : \A got : Priced(c, got).mac_address = c.mac_address
<1>1. client[i] \in pango_data
  BY DEF TypeInv, TypeOK
<1>2. /\ \A b \in BOOLEAN :
            [client[i] EXCEPT !.connected = b].mac_address = client[i].mac_address
      /\ \A t, l : [client[i] EXCEPT !.time_start_parking = t, !.location = l].mac_address
                      = client[i].mac_address
  BY <1>1 DEF pango_data
<1>3. \A t : LET c == [client[i] EXCEPT !.time_start_parking = t, !.connected = TRUE]
             IN  /\ c.mac_address = client[i].mac_address
                 /\ \A l : [c EXCEPT !.location = l].mac_address = client[i].mac_address
  BY <1>1 DEF pango_data
<1>4. \A got : Continued(i, got).mac_address = client[i].mac_address
  BY <1>3 DEF Continued
<1>5. \A got : Located(i, got).mac_address = client[i].mac_address
  BY <1>3 DEF Located, Continued
<1>6. \A c \in pango_data : \A got : Priced(c, got).mac_address = c.mac_address
  BY DEF Priced, pango_data
<1>7. QED
  BY <1>2, <1>4, <1>5, <1>6

\* Every step of a client thread keeps Registered.
LEMMA ThreadRegistered ==
    ASSUME TypeInv, NEW i \in Slot, Thread(i)
    PROVE  Registered'
<1> USE DEF Goto, Unlock, netVars
<1>a. /\ client \in [Slot -> pango_data]
      /\ pc \in [Slot -> PC]
      /\ status \in [Slot -> AppStatus]
  BY DEF TypeInv, TypeOK
<1>b. /\ \A w \in Waiting : CriticalSection[w] \in PC \ {"none", "exit"}
      /\ \A w \in Waiting \ {"lostLock", "updateLock"} : w \in Served
      /\ CriticalSection["lostLock"] \notin Served
      /\ CriticalSection["updateLock"] \notin Served
  BY DEF Waiting, CriticalSection, PC, Critical, Served
<1>c. pc[i] \in Served => client[i].mac_address = dev[i]
  BY DEF TypeInv, Registered
<1>d. \A j \in Slot : \A c :
        /\ client' = [client EXCEPT ![i] = c]
        /\ c.mac_address = client[i].mac_address
        => client'[j].mac_address = client[j].mac_address
  BY <1>a
<1>1. CASE Lock(i)
  <2>1. pc[i] \notin {"none", "finish", "done"}
    BY <1>1 DEF Lock, Waiting, CriticalSection
  <2>2. CriticalSection[pc[i]] \in {"lostLock", "lost"} => pc[i] = "lostLock"
    BY <1>1 DEF Lock, Waiting, CriticalSection
  <2>3. pc[i] = "lostLock" => status[i] = "CONNECTION_LOST"
    BY DEF TypeInv, Registered
  <2>4. QED
    BY <1>1, <2>1, <2>2, <2>3, <1>b, <1>c, RegisteredFrame DEF Lock
<1>2. CASE Recv(i)
  BY <1>2, RegisteredProcess DEF Recv, TypeInv, TypeOK
<1>3. CASE RecvError(i)
  BY <1>3, RegisteredProcess DEF RecvError, TypeInv, TypeOK
<1>4. CASE RecvLost(i)
  BY <1>4, <1>a, RegisteredFrame DEF RecvLost, PC, Waiting, CriticalSection, Served
<1>5. CASE Lost(i)
  <2>1. client' = [client EXCEPT ![i] = [client[i] EXCEPT !.connected = FALSE]]
    BY <1>5, <1>a DEF Lost
  <2>2. \A j \in Slot : client'[j].mac_address = client[j].mac_address
    BY <2>1, <1>d, MacKept
  <2>3. QED
    BY <1>5, <2>2, RegisteredFrame DEF Lost, PC, Served, TypeInv, Registered
<1>6. CASE CheckKnown(i)
  BY <1>6, <1>c, RegisteredFrame DEF CheckKnown, PC, Waiting, CriticalSection, Served
<1>7. CASE CheckNew(i)
  BY <1>7, <1>a, <1>c, RegisteredFrame
     DEF CheckNew, PC, Waiting, CriticalSection, Served, pango_data
<1>8. CASE CheckAgain(i)
  BY <1>8, RegisteredFrame DEF CheckAgain, PC, Served
<1>9. CASE Resume(i)
  <2>1. PICK got \in Got : client' = [client EXCEPT ![i] = Priced(Located(i, got), got)]
    BY <1>9 DEF Resume
  <2>2. Located(i, got) \in pango_data
    BY <1>9, ContinuedType DEF Resume
  <2>3. \A j \in Slot : client'[j].mac_address = client[j].mac_address
    BY <2>1, <2>2, <1>d, MacKept
  <2>4. QED
    BY <1>9, <2>3, RegisteredFrame DEF Resume, PC, Served
<1>10. CASE ResumeError(i)
  <2>1. \A j \in Slot : client'[j].mac_address = client[j].mac_address
    BY <1>10, <1>d, MacKept DEF ResumeError
  <2>2. status'[i] # "CLOSE_APP" /\ \A j \in Slot : j # i => status'[j] = status[j]
    BY <1>10, <1>a DEF ResumeError
  <2>3. QED
    BY <1>10, <2>1, <2>2, RegisteredFrame DEF ResumeError, PC, Served
<1>11. CASE InsertClient(i)
  <2>1. \A j \in Slot : client'[j].mac_address = client[j].mac_address
    BY <1>11, <1>a, <1>d, MacKept DEF InsertClient
  <2>2. QED
    BY <1>11, <2>1, <1>c, RegisteredFrame DEF InsertClient, PC, Served
<1>12. CASE InsertError(i)
  <2>1. \A j \in Slot : client'[j].mac_address = client[j].mac_address
    BY <1>12, <1>a, <1>d, MacKept DEF InsertError
  <2>2. status'[i] # "CLOSE_APP" /\ \A j \in Slot : j # i => status'[j] = status[j]
    BY <1>12, <1>a DEF InsertError
  <2>3. QED
    BY <1>12, <2>1, <2>2, RegisteredFrame DEF InsertError, PC, Served
<1>13. CASE SendLocation(i)
  BY <1>13, <1>c, RegisteredFrame DEF SendLocation, PC, Served
<1>14. CASE SetConnected(i)
  BY <1>14, <1>a, RegisteredFrame DEF SetConnected, PC, Served, pango_data
<1>15. CASE CloseApp(i)
  <2>1. client' = [client EXCEPT ![i] = [client[i] EXCEPT !.connected = FALSE]]
    BY <1>15, <1>a DEF CloseApp
  <2>2. \A j \in Slot : client'[j].mac_address = client[j].mac_address
    BY <2>1, <1>d, MacKept
  <2>3. \A j \in Slot : j # i => status'[j] = status[j]
    BY <1>15, <1>a DEF CloseApp
  <2>4. QED
    BY <1>15, <2>2, <2>3, <1>c, RegisteredFrame DEF CloseApp, PC, Served
<1>16. CASE SendPayment(i)
  <2>1. client[i].mac_address = dev[i]
    BY <1>16 DEF SendPayment, TypeInv, Registered
  <2>2. QED
    BY <1>16, <2>1, RegisteredFrame DEF SendPayment, PC, Waiting, CriticalSection
<1>17. CASE RemoveClient(i)
  BY <1>17, RegisteredFrame DEF RemoveClient, PC, Served
<1>18. CASE ExitLost(i)
  BY <1>18, RegisteredFrame DEF ExitLost, PC, Waiting, CriticalSection, Served
<1>19. CASE UpdateLost(i)
  BY <1>19, RegisteredFrame DEF UpdateLost, PC, Served
<1>20. CASE SendError(i)
  BY <1>20, RegisteredFrame DEF SendError, PC, Served
<1>21. CASE ExitSilently(i)
  BY <1>21, RegisteredFrame DEF ExitSilently, PC, Served
<1>22. CASE Finish(i)
  BY <1>22, RegisteredFrame DEF Finish, PC, Served
<1>23. CASE BrokenPipe(i)
  BY <1>23, RestartRegistered DEF BrokenPipe
<1>24. QED
  BY <1>1, <1>2, <1>3, <1>4, <1>5, <1>6, <1>7, <1>8, <1>9, <1>10, <1>11, <1>12,
     <1>13, <1>14, <1>15, <1>16, <1>17, <1>18, <1>19, <1>20, <1>21, <1>22, <1>23
  DEF Thread

\* Every step of the environment keeps Registered; a connect takes the next
\* slot into use.
LEMMA EnvironmentRegistered ==
    ASSUME TypeInv, Environment
    PROVE  Registered'
<1>1. ASSUME NEW m \in Device, Connect(m)
      PROVE  Registered'
  <2>1. accepted \in Slot
    BY <1>1, ConstantsAssumption DEF Connect, TypeInv, TypeOK, Slot
  <2>2. \A j \in Slot : /\ pc'[j] = IF j = accepted THEN "recv" ELSE pc[j]
                        /\ dev'[j] = IF j = accepted THEN m ELSE dev[j]
    BY <1>1 DEF Connect, TypeInv, TypeOK
  <2>3. client[accepted].mac_address = NoDevice
    <3>1. accepted >= accepted
      BY <2>1 DEF Slot
    <3>2. pc[accepted] = "none" /\ dev[accepted] = NoDevice
      BY <2>1, <3>1 DEF TypeInv, Registered
    <3>3. QED
      BY <2>1, <3>2 DEF TypeInv, Registered
  <2>4. \A j \in Slot : j >= accepted + 1 <=> j >= accepted /\ j # accepted
    BY <2>1 DEF Slot
  <2>5. QED
    BY <1>1, <2>1, <2>2, <2>3, <2>4 DEF Connect, TypeInv, Registered, Served
<1>2. ASSUME NEW i \in Slot, DeviceStep(i) \/ Disconnect(i) \/ Reset(i)
      PROVE  Registered'
  <2>1. UNCHANGED <<serverVars, dev>>
    BY <1>2 DEF DeviceStep, SendStart, ReceiveLocation, SendClose, ReceivePayment,
                GiveUp, Disconnect, Reset, Leave
  <2>2. QED
    BY <2>1 DEF serverVars, TypeInv, Registered
<1>3. CASE Crash
  BY <1>3, RestartRegistered DEF Crash
<1>4. CASE Tick
  BY <1>4 DEF Tick, serverVars, netVars, TypeInv, Registered
<1>5. QED
  BY <1>1, <1>2, <1>3, <1>4 DEF Environment

-----------------------------------------------------------------------------
(* Type correctness.                                                        *)

\* The first state is well typed,
LEMMA InitTypeInv == Init => TypeInv
<1>1. ASSUME Init
      PROVE  TypeOK
  <2>1. accepted \in 0 .. MaxClients /\ dbNext \in 0 .. MaxClients
    BY <1>1, ConstantsAssumption DEF Init, ServerInit
  <2>2. client \in [Slot -> pango_data]
    BY <1>1, ZeroedType DEF Init, ServerInit
  <2>3. pc \in [Slot -> PC] /\ status \in [Slot -> AppStatus]
    BY <1>1 DEF Init, ServerInit, PC, AppStatus
  <2>4. your_table \in [Device -> Seq(Row)]
    BY <1>1, EmptySeq DEF Init
  <2>5. QED
    BY <1>1, <2>1, <2>2, <2>3, <2>4 DEF Init, ServerInit, NetInit, TypeOK, Free
<1>2. ASSUME Init
      PROVE  Registered
  <2>1. ZeroedData.mac_address = NoDevice /\ "none" \notin Served
    BY DEF ZeroedData, Served
  <2>2. \A j \in Slot : j >= 0
    BY DEF Slot
  <2>3. \A j \in Slot : /\ pc[j] = "none"
                        /\ dev[j] = NoDevice
                        /\ client[j].mac_address = NoDevice
    BY <1>2, <2>1 DEF Init, ServerInit, NetInit
  <2>4. accepted = 0
    BY <1>2 DEF Init, ServerInit
  <2>5. QED
    BY <2>1, <2>2, <2>3, <2>4 DEF Registered
<1>3. QED
  BY <1>1, <1>2 DEF TypeInv

\* and every step keeps it so.
LEMMA NextTypeInv == TypeInv /\ [Next]_vars => TypeInv'
<1>1. ASSUME TypeInv, NEW i \in Slot, Thread(i)
      PROVE  TypeInv'
  BY <1>1, ThreadType, ThreadRegistered DEF TypeInv
<1>2. ASSUME TypeInv, DbUpdateThread
      PROVE  TypeInv'
  <2>1. TypeOK'
    BY <1>2, DbUpdateThreadType
  <2>2. Registered'
    BY <1>2 DEF DbUpdateThread, DbLock, DbUpdate, DbUnlock, netVars, TypeInv, Registered
  <2>3. QED
    BY <2>1, <2>2 DEF TypeInv
<1>3. ASSUME TypeInv, Environment
      PROVE  TypeInv'
  BY <1>3, EnvironmentType, EnvironmentRegistered DEF TypeInv
<1>4. ASSUME TypeInv, UNCHANGED vars
      PROVE  TypeInv'
  BY <1>4 DEF vars, serverVars, netVars, TypeInv, TypeOK, Registered
<1>5. QED
  BY <1>1, <1>2, <1>3, <1>4 DEF Next

LEMMA AlwaysTypeInv == Spec => []TypeInv
BY InitTypeInv, NextTypeInv, PTL DEF Spec

\* Every variable of the server, of the table and of the network keeps its
\* type through every interleaving, fault and restart: in particular a price is
\* never negative, end_time is a time, and the database thread's loop stays
\* inside client[].
THEOREM TypeCorrect == Spec => []TypeOK
BY AlwaysTypeInv, PTL DEF TypeInv
-----------------------------------------------------------------------------
(* The mutex.                                                               *)

\* A thread that takes the mutex was outside every critical section, and no
\* other thread was in one,
LEMMA LockKeepsDiscipline ==
    ASSUME TypeInv, MutexDiscipline, NEW i \in Slot, Lock(i)
    PROVE  MutexDiscipline'
<1>1. CriticalSection[pc[i]] \in Critical
  BY LockEnters DEF Lock
<1>2. \A j \in Slot : pc'[j] = IF j = i THEN CriticalSection[pc[i]] ELSE pc[j]
  BY DEF Lock, Goto, TypeInv, TypeOK
<1>3. mutex = Free /\ mutex' = i /\ \A j \in Slot : j # Free
  BY DEF Lock, Slot, Free
<1>4. QED
  BY <1>1, <1>2, <1>3 DEF MutexDiscipline

\* a thread that gives it up leaves its critical section with the same step,
LEMMA UnlockKeepsDiscipline ==
    ASSUME TypeInv, MutexDiscipline, NEW i \in Slot, pc[i] \in Critical,
           NEW l \in PC \ Critical, Unlock(i, l)
    PROVE  MutexDiscipline'
<1>1. \A j \in Slot : pc'[j] = IF j = i THEN l ELSE pc[j]
  BY DEF Unlock, Goto, TypeInv, TypeOK
<1>2. mutex = i /\ mutex' = Free /\ \A j \in Slot : j # Free
  BY DEF Unlock, MutexDiscipline, Slot, Free
<1>3. QED
  BY <1>1, <1>2 DEF MutexDiscipline

\* and every other step stays outside.
LEMMA OutsideKeepsDiscipline ==
    ASSUME TypeInv, MutexDiscipline, NEW i \in Slot, pc[i] \notin Critical,
           NEW l \in PC \ Critical, Goto(i, l), mutex' = mutex
    PROVE  MutexDiscipline'
BY DEF Goto, TypeInv, TypeOK, MutexDiscipline

LEMMA RestartDiscipline ==
    ASSUME Restart
    PROVE  MutexDiscipline'
BY DEF Restart, MutexDiscipline, Slot, Free, Critical

LEMMA ThreadDiscipline ==
    ASSUME TypeInv, MutexDiscipline, NEW i \in Slot, Thread(i)
    PROVE  MutexDiscipline'
<1>a. ASSUME NEW m \in Message \cup {NoMsg}, Process(i, m), pc[i] = "recv", mutex' = mutex
      PROVE  MutexDiscipline'
  <2>1. PICK l \in {"exit", "check", "closeLock"} : Goto(i, l)
    BY <1>a DEF Process
  <2>2. QED
    BY <1>a, <2>1, OutsideKeepsDiscipline DEF PC, Waiting, CriticalSection, Critical
<1>1. CASE Lock(i)
  BY <1>1, LockKeepsDiscipline
<1>2. CASE Recv(i)
  BY <1>2, <1>a DEF Recv, TypeInv, TypeOK
<1>3. CASE RecvError(i)
  BY <1>3, <1>a DEF RecvError, TypeInv, TypeOK
<1>4. CASE RecvLost(i)
  BY <1>4, OutsideKeepsDiscipline DEF RecvLost, PC, Waiting, CriticalSection, Critical
<1>5. CASE Lost(i)
  BY <1>5, UnlockKeepsDiscipline DEF Lost, PC, Critical
<1>6. CASE CheckKnown(i)
  BY <1>6, OutsideKeepsDiscipline DEF CheckKnown, PC, Waiting, CriticalSection, Critical
<1>7. CASE CheckNew(i)
  BY <1>7, OutsideKeepsDiscipline DEF CheckNew, PC, Waiting, CriticalSection, Critical
<1>8. CASE CheckAgain(i)
  BY <1>8, OutsideKeepsDiscipline DEF CheckAgain, PC, Critical
<1>9. CASE Resume(i)
  BY <1>9, UnlockKeepsDiscipline DEF Resume, PC, Critical
<1>10. CASE ResumeError(i)
  BY <1>10, UnlockKeepsDiscipline DEF ResumeError, PC, Critical
<1>11. CASE InsertClient(i)
  BY <1>11, UnlockKeepsDiscipline DEF InsertClient, PC, Critical
<1>12. CASE InsertError(i)
  BY <1>12, UnlockKeepsDiscipline DEF InsertError, PC, Critical
<1>13. CASE SendLocation(i)
  BY <1>13, OutsideKeepsDiscipline DEF SendLocation, PC, Critical
<1>14. CASE SetConnected(i)
  BY <1>14, OutsideKeepsDiscipline DEF SetConnected, PC, Critical
<1>15. CASE CloseApp(i)
  BY <1>15, UnlockKeepsDiscipline DEF CloseApp, PC, Critical
<1>16. CASE SendPayment(i)
  BY <1>16, OutsideKeepsDiscipline DEF SendPayment, PC, Waiting, CriticalSection, Critical
<1>17. CASE RemoveClient(i)
  BY <1>17, UnlockKeepsDiscipline DEF RemoveClient, PC, Critical
<1>18. CASE ExitLost(i)
  BY <1>18, OutsideKeepsDiscipline DEF ExitLost, PC, Waiting, CriticalSection, Critical
<1>19. CASE UpdateLost(i)
  BY <1>19, UnlockKeepsDiscipline DEF UpdateLost, PC, Critical
<1>20. CASE SendError(i)
  BY <1>20, OutsideKeepsDiscipline DEF SendError, PC, Critical
<1>21. CASE ExitSilently(i)
  BY <1>21, OutsideKeepsDiscipline DEF ExitSilently, PC, Critical
<1>22. CASE Finish(i)
  BY <1>22, OutsideKeepsDiscipline DEF Finish, PC, Critical
<1>23. CASE BrokenPipe(i)
  BY <1>23, RestartDiscipline DEF BrokenPipe
<1>24. QED
  BY <1>1, <1>2, <1>3, <1>4, <1>5, <1>6, <1>7, <1>8, <1>9, <1>10, <1>11, <1>12,
     <1>13, <1>14, <1>15, <1>16, <1>17, <1>18, <1>19, <1>20, <1>21, <1>22, <1>23
  DEF Thread

LEMMA EnvironmentDiscipline ==
    ASSUME TypeInv, MutexDiscipline, Environment
    PROVE  MutexDiscipline'
<1>1. ASSUME NEW m \in Device, Connect(m)
      PROVE  MutexDiscipline'
  <2>1. accepted \in Slot /\ accepted >= accepted
    BY <1>1, ConstantsAssumption DEF Connect, TypeInv, TypeOK, Slot
  <2>2. pc[accepted] = "none"
    BY <2>1 DEF TypeInv, Registered
  <2>3. QED
    BY <1>1, <2>1, <2>2, OutsideKeepsDiscipline DEF Connect, Goto, PC, Critical
<1>2. ASSUME NEW i \in Slot, DeviceStep(i) \/ Disconnect(i) \/ Reset(i)
      PROVE  MutexDiscipline'
  <2>1. UNCHANGED serverVars
    BY <1>2 DEF DeviceStep, SendStart, ReceiveLocation, SendClose, ReceivePayment,
                GiveUp, Disconnect, Reset, Leave
  <2>2. QED
    BY <2>1 DEF serverVars, MutexDiscipline
<1>3. CASE Crash
  BY <1>3, RestartDiscipline DEF Crash
<1>4. CASE Tick
  BY <1>4 DEF Tick, serverVars, MutexDiscipline
<1>5. QED
  BY <1>1, <1>2, <1>3, <1>4 DEF Environment

LEMMA DbUpdateThreadDiscipline ==
    ASSUME MutexDiscipline, DbUpdateThread
    PROVE  MutexDiscipline'
<1>1. /\ mutex \in {Free, DbThread} /\ mutex' \in {Free, DbThread}
      /\ pc' = pc
  BY DEF DbUpdateThread, DbLock, DbUpdate, DbUnlock
<1>2. \A j \in Slot : j \notin {Free, DbThread}
  BY DEF Slot, Free, DbThread
<1>3. QED
  BY <1>1, <1>2 DEF MutexDiscipline

LEMMA NextDiscipline ==
    ASSUME TypeInv, MutexDiscipline, [Next]_vars
    PROVE  MutexDiscipline'
<1>1. ASSUME UNCHANGED vars
      PROVE  MutexDiscipline'
  BY <1>1 DEF vars, serverVars, MutexDiscipline
<1>2. QED
  BY <1>1, ThreadDiscipline, DbUpdateThreadDiscipline, EnvironmentDiscipline DEF Next

LEMMA InitDiscipline == Init => MutexDiscipline
BY DEF Init, ServerInit, MutexDiscipline, Slot, Free, Critical

\* Whatever the devices, the network and SQLite do, the mutex is held by the
\* thread that is in a critical section and by no other; so at most one thread
\* is, never while the database thread walks client[], and no thread ends, on
\* an error path or not, with the mutex locked.
THEOREM MutexTheorem == Spec => []MutexDiscipline
<1>1. TypeInv /\ MutexDiscipline /\ [Next]_vars => MutexDiscipline'
  BY NextDiscipline
<1>2. QED
  BY <1>1, InitDiscipline, AlwaysTypeInv, PTL DEF Spec

-----------------------------------------------------------------------------
(* One row per MAC address.                                                 *)

RowInv == OneLive /\ NoRowYet /\ OneRowPerMac

\* What the theorem assumes of the environment: a device connects again only
\* when the thread of its old connection has ended, and SQLite does not fail.
LEMMA NoDbError ==
    ASSUME "dberr" \notin Faults
    PROVE  ~DbError
BY DEF DbError

\* A step of a thread that adds no row, and waits to insert one only if there
\* is none, keeps the invariant.
LEMMA RowFrame ==
    ASSUME TypeInv, RowInv, NEW i \in Slot, NEW l \in PC,
           pc[i] \notin {"none", "done"}, l # "none",
           Goto(i, l), dev' = dev,
           your_table' \in [Device -> Seq(Row)],
           \A d \in Device : Len(your_table'[d]) <= Len(your_table[d]),
           l \in {"insertLock", "insert"} =>
               dev[i] \in Device /\ Len(your_table[dev[i]]) = 0
    PROVE  RowInv'
<1>1. \A j \in Slot : /\ pc'[j] = IF j = i THEN l ELSE pc[j]
                      /\ pc[j] \notin {"none", "finish", "done"} => dev[j] \in Device
  BY DEF Goto, TypeInv, TypeOK, Registered
<1>2. \A d \in Device : Len(your_table[d]) \in Nat /\ Len(your_table'[d]) \in Nat
  BY LenProperties DEF TypeInv, TypeOK
<1>3. OneLive'
  BY <1>1 DEF RowInv, OneLive
<1>4. NoRowYet'
  <2>1. ASSUME NEW j \in Slot, pc'[j] \in {"insertLock", "insert"}
        PROVE  Len(your_table'[dev'[j]]) = 0
    <3>1. Len(your_table[dev[j]]) = 0 /\ dev[j] \in Device
      BY <2>1, <1>1 DEF RowInv, NoRowYet
    <3>2. QED
      BY <3>1, <1>2
  <2>2. QED
    BY <2>1 DEF NoRowYet
<1>5. OneRowPerMac'
  BY <1>2 DEF RowInv, OneRowPerMac
<1>6. QED
  BY <1>3, <1>4, <1>5 DEF RowInv

\* The INSERT of a thread finds no row of its device, and no other thread of
\* the device is there to insert a second one.
LEMMA InsertKeepsRows ==
    ASSUME TypeInv, RowInv, NEW i \in Slot, InsertClient(i)
    PROVE  RowInv'
<1>1. /\ pc[i] = "insert"
      /\ \A j \in Slot : pc'[j] = IF j = i THEN "sendLocation" ELSE pc[j]
      /\ dev' = dev
      /\ your_table' = Insert(dev[i], client[i].location)
  BY DEF InsertClient, Unlock, Goto, netVars, TypeInv, TypeOK, Registered, Served
<1>2. dev[i] \in Device /\ Len(your_table[dev[i]]) = 0
  BY <1>1 DEF TypeInv, Registered, RowInv, NoRowYet
<1>3. /\ your_table' \in [Device -> Seq(Row)]
      /\ \A d \in Device : d # dev[i] => your_table'[d] = your_table[d]
      /\ Len(your_table'[dev[i]]) <= Len(your_table[dev[i]]) + 1
  BY <1>1, <1>2, InsertRow DEF TypeInv, TypeOK, pango_data
<1>4. OneLive'
  BY <1>1 DEF RowInv, OneLive
<1>5. NoRowYet'
  <2>1. ASSUME NEW j \in Slot, pc'[j] \in {"insertLock", "insert"}
        PROVE  Len(your_table'[dev'[j]]) = 0
    <3>1. j # i /\ pc[j] \in {"insertLock", "insert"}
      BY <2>1, <1>1
    <3>2. dev[j] # dev[i]
      BY <3>1, <1>1, <1>2 DEF RowInv, OneLive
    <3>3. QED
      BY <3>1, <3>2, <1>1, <1>3 DEF TypeInv, Registered, RowInv, NoRowYet
  <2>2. QED
    BY <2>1 DEF NoRowYet
<1>6. OneRowPerMac'
  <2>1. ASSUME NEW d \in Device
        PROVE  Len(your_table'[d]) <= 1
    <3>1. CASE d = dev[i]
      <4>1. Len(your_table'[d]) \in Nat
        BY <1>3, LenProperties
      <4>2. QED
        BY <3>1, <4>1, <1>2, <1>3
    <3>2. CASE d # dev[i]
      BY <3>2, <1>3 DEF RowInv, OneRowPerMac
    <3>3. QED
      BY <3>1, <3>2
  <2>2. QED
    BY <2>1 DEF OneRowPerMac
<1>7. QED
  BY <1>4, <1>5, <1>6 DEF RowInv

LEMMA RestartRows ==
    ASSUME RowInv, Restart
    PROVE  RowInv'
BY DEF Restart, RowInv, OneLive, NoRowYet, OneRowPerMac

LEMMA ThreadRows ==
    ASSUME TypeInv, RowInv, "dberr" \notin Faults, NEW i \in Slot, Thread(i)
    PROVE  RowInv'
<1> USE DEF Unlock, netVars
<1>a. /\ your_table \in [Device -> Seq(Row)]
      /\ \A d \in Device : Len(your_table[d]) <= Len(your_table[d])
  BY LenProperties DEF TypeInv, TypeOK
<1>b. ASSUME NEW m \in Message \cup {NoMsg}, Process(i, m), pc[i] = "recv",
             UNCHANGED <<dev, your_table>>
      PROVE  RowInv'
  <2>1. PICK l \in {"exit", "check", "closeLock"} : Goto(i, l)
    BY <1>b DEF Process
  <2>2. QED
    BY <1>a, <1>b, <2>1, RowFrame DEF PC, Waiting, CriticalSection
<1>c. ASSUME NEW used \in Int
      PROVE  /\ Update(client[i].mac_address, used) \in [Device -> Seq(Row)]
             /\ \A d \in Device : Len(Update(client[i].mac_address, used)[d])
                                    <= Len(your_table[d])
  BY <1>a, <1>c, UpdateRows, LenProperties
<1>d. now - client[i].time_start_parking \in Int
  BY DEF TypeInv, TypeOK, pango_data
<1>1. CASE Lock(i)
  <2>1. /\ CriticalSection[pc[i]] \in PC \ {"none", "done"}
        /\ pc[i] \notin {"none", "done"}
        /\ CriticalSection[pc[i]] \in {"insertLock", "insert"} => pc[i] = "insertLock"
    BY <1>1 DEF Lock, Waiting, CriticalSection, PC, Critical
  <2>2. CriticalSection[pc[i]] \in {"insertLock", "insert"} =>
            dev[i] \in Device /\ Len(your_table[dev[i]]) = 0
    BY <2>1 DEF RowInv, NoRowYet, TypeInv, Registered
  <2>3. QED
    BY <1>1, <1>a, <2>1, <2>2, RowFrame DEF Lock
<1>2. CASE Recv(i)
  BY <1>2, <1>b DEF Recv, TypeInv, TypeOK
<1>3. CASE RecvError(i)
  BY <1>3, <1>b DEF RecvError, TypeInv, TypeOK
<1>4. CASE RecvLost(i)
  BY <1>4, <1>a, RowFrame DEF RecvLost, PC, Waiting, CriticalSection
<1>5. CASE Lost(i)
  BY <1>5, <1>a, RowFrame DEF Lost, PC
<1>6. CASE CheckKnown(i)
  BY <1>6, <1>a, RowFrame DEF CheckKnown, PC, Waiting, CriticalSection
<1>7. CASE CheckNew(i)
  <2>1. your_table[dev[i]] = <<>>
    BY <1>7, NoDbError DEF CheckNew, TypeInv, Registered, Served
  <2>2. dev[i] \in Device /\ Len(your_table[dev[i]]) = 0
    BY <1>7, <2>1 DEF CheckNew, TypeInv, Registered
  <2>3. QED
    BY <1>7, <1>a, <2>2, RowFrame DEF CheckNew, PC, Waiting, CriticalSection
<1>8. CASE CheckAgain(i)
  BY <1>8, <1>a, RowFrame DEF CheckAgain, PC
<1>9. CASE Resume(i)
  BY <1>9, <1>a, RowFrame DEF Resume, PC
<1>10. CASE ResumeError(i)
  BY <1>10, <1>a, RowFrame DEF ResumeError, PC
<1>11. CASE InsertClient(i)
  BY <1>11, InsertKeepsRows
<1>12. CASE InsertError(i)
  BY <1>12, <1>a, RowFrame DEF InsertError, PC
<1>13. CASE SendLocation(i)
  BY <1>13, <1>a, RowFrame DEF SendLocation, PC
<1>14. CASE SetConnected(i)
  BY <1>14, <1>a, RowFrame DEF SetConnected, PC
<1>15. CASE CloseApp(i)
  <2>1. /\ your_table' \in [Device -> Seq(Row)]
        /\ \A d \in Device : Len(your_table'[d]) <= Len(your_table[d])
    BY <1>15, <1>a, <1>c, <1>d DEF CloseApp, UpdateClientData
  <2>2. QED
    BY <1>15, <2>1, RowFrame DEF CloseApp, PC
<1>16. CASE SendPayment(i)
  BY <1>16, <1>a, RowFrame DEF SendPayment, PC, Waiting, CriticalSection
<1>17. CASE RemoveClient(i)
  <2>1. your_table' = Delete(client[i].mac_address)
    BY <1>17, NoDbError DEF RemoveClient
  <2>2. Len(<<>>) = 0 /\ \A d \in Device : Len(your_table[d]) \in Nat
    BY <1>a, LenProperties
  <2>3. /\ your_table' \in [Device -> Seq(Row)]
        /\ \A d \in Device : Len(your_table'[d]) <= Len(your_table[d])
    BY <1>a, <2>1, <2>2, DeleteRows
  <2>4. QED
    BY <1>17, <2>3, RowFrame DEF RemoveClient, PC
<1>18. CASE ExitLost(i)
  BY <1>18, <1>a, RowFrame DEF ExitLost, PC, Waiting, CriticalSection
<1>19. CASE UpdateLost(i)
  <2>1. /\ your_table' \in [Device -> Seq(Row)]
        /\ \A d \in Device : Len(your_table'[d]) <= Len(your_table[d])
    BY <1>19, <1>a, <1>c, <1>d DEF UpdateLost, UpdateClientData
  <2>2. QED
    BY <1>19, <2>1, RowFrame DEF UpdateLost, PC
<1>20. CASE SendError(i)
  BY <1>20, <1>a, RowFrame DEF SendError, PC
<1>21. CASE ExitSilently(i)
  BY <1>21, <1>a, RowFrame DEF ExitSilently, PC
<1>22. CASE Finish(i)
  BY <1>22, <1>a, RowFrame DEF Finish, PC
<1>23. CASE BrokenPipe(i)
  BY <1>23, RestartRows DEF BrokenPipe
<1>24. QED
  BY <1>1, <1>2, <1>3, <1>4, <1>5, <1>6, <1>7, <1>8, <1>9, <1>10, <1>11, <1>12,
     <1>13, <1>14, <1>15, <1>16, <1>17, <1>18, <1>19, <1>20, <1>21, <1>22, <1>23
  DEF Thread

\* The database thread changes TIME_USED, never the number of rows.
LEMMA DbUpdateThreadRows ==
    ASSUME TypeInv, RowInv, DbUpdateThread
    PROVE  RowInv'
<1>1. pc' = pc /\ dev' = dev
  BY DEF DbUpdateThread, DbLock, DbUpdate, DbUnlock, netVars
<1>2. \A d \in Device : Len(your_table'[d]) = Len(your_table[d])
  <2>1. CASE DbLock \/ DbUnlock
    BY <2>1 DEF DbLock, DbUnlock
  <2>2. CASE DbUpdate
    <3>1. dbNext \in Slot /\ client[dbNext] \in pango_data /\ now \in Nat
      BY <2>2, ConstantsAssumption DEF DbUpdate, Slot, TypeInv, TypeOK
    <3>2. now - client[dbNext].time_start_parking \in Int
      BY <3>1 DEF pango_data
    <3>3. QED
      BY <2>2, <3>2, UpdateRows DEF DbUpdate, TypeInv, TypeOK
  <2>3. QED
    BY <2>1, <2>2 DEF DbUpdateThread
<1>3. \A j \in Slot : pc[j] \notin {"none", "finish", "done"} => dev[j] \in Device
  BY DEF TypeInv, Registered
<1>4. OneLive'
  BY <1>1 DEF RowInv, OneLive
<1>5. NoRowYet'
  BY <1>1, <1>2, <1>3 DEF RowInv, NoRowYet
<1>6. OneRowPerMac'
  BY <1>2 DEF RowInv, OneRowPerMac
<1>7. QED
  BY <1>4, <1>5, <1>6 DEF RowInv

\* A device that connects has no other thread that has not ended.
LEMMA EnvironmentRows ==
    ASSUME TypeInv, RowInv, "overlap" \notin Faults, Environment
    PROVE  RowInv'
<1> USE DEF RowInv, OneLive, NoRowYet, OneRowPerMac
<1>1. ASSUME NEW m \in Device, Connect(m)
      PROVE  RowInv'
  <2>1. \A j \in Slot : dev[j] = m => pc[j] = "done"
    BY <1>1 DEF Connect
  <2>2. \A j \in Slot : /\ pc'[j] = IF j = accepted THEN "recv" ELSE pc[j]
                        /\ dev'[j] = IF j = accepted THEN m ELSE dev[j]
    BY <1>1 DEF Connect, TypeInv, TypeOK
  <2>3. your_table' = your_table
    BY <1>1 DEF Connect
  <2>4. OneLive'
    BY <2>1, <2>2
  <2>5. NoRowYet' /\ OneRowPerMac'
    BY <2>2, <2>3
  <2>6. QED
    BY <2>4, <2>5
<1>2. ASSUME NEW i \in Slot, DeviceStep(i) \/ Disconnect(i) \/ Reset(i)
      PROVE  RowInv'
  <2>1. UNCHANGED <<pc, dev, your_table>>
    BY <1>2 DEF DeviceStep, SendStart, ReceiveLocation, SendClose, ReceivePayment,
                GiveUp, Disconnect, Reset, Leave, serverVars
  <2>2. QED
    BY <2>1
<1>3. CASE Crash
  BY <1>3, RestartRows DEF Crash
<1>4. CASE Tick
  BY <1>4 DEF Tick, serverVars, netVars
<1>5. QED
  BY <1>1, <1>2, <1>3, <1>4 DEF Environment

LEMMA InitRowInv == Init => RowInv
<1>1. ASSUME Init
      PROVE  /\ \A j \in Slot : pc[j] = "none"
             /\ \A d \in Device : Len(your_table[d]) = 0
  BY <1>1 DEF Init, ServerInit
<1>2. QED
  BY <1>1 DEF RowInv, OneLive, NoRowYet, OneRowPerMac

LEMMA NextRowInv ==
    ASSUME "overlap" \notin Faults, "dberr" \notin Faults, TypeInv, RowInv, [Next]_vars
    PROVE  RowInv'
<1>1. ASSUME UNCHANGED vars
      PROVE  RowInv'
  BY <1>1 DEF vars, serverVars, netVars, RowInv, OneLive, NoRowYet, OneRowPerMac
<1>2. QED
  BY <1>1, ThreadRows, DbUpdateThreadRows, EnvironmentRows DEF Next

LEMMA AlwaysRowInv ==
    ASSUME "overlap" \notin Faults, "dberr" \notin Faults
    PROVE  Spec => []RowInv
<1>1. TypeInv /\ RowInv /\ [Next]_vars => RowInv'
  BY NextRowInv
<1>2. QED
  BY <1>1, InitRowInv, AlwaysTypeInv, PTL DEF Spec

\* If a device stays away until the thread of its old connection has ended,
\* and SQLite does not fail, a device never has two rows: not with any number
\* of connections, losses, resets, wrong CRC-8s and restarts of the server.
\* The runs server_overlap (and a failing SELECT) show that both assumptions
\* are needed.
THEOREM OneRowTheorem ==
    ASSUME "overlap" \notin Faults, "dberr" \notin Faults
    PROVE  Spec => []OneRowPerMac
<1>1. RowInv => OneRowPerMac
  BY DEF RowInv
<1>2. QED
  BY <1>1, AlwaysRowInv, PTL
-----------------------------------------------------------------------------
(* No count without a connection.                                           *)

Right(m) == m # NoMsg /\ m.crc_ok

\* The labels between a message whose CRC-8 was right and the next recv,
Heard == {"check", "resumeLock", "resume", "insertLock", "insert",
          "sendLocation", "setConnected"}
\* and those of a thread that has left the loop.
Left == {"exit", "updateLock", "update", "deleteLock", "delete", "finish", "done"}

\* The buffer matters because a recv that returns -1 processes it again: it
\* holds a right message whenever time is counted.
CountInv ==
    \A i \in Slot :
        /\ inbox[i] # NoMsg => inbox[i].crc_ok
        /\ client[i].connected \/ pc[i] \in Heard => Right(client_data_buff[i])
        /\ pc[i] \in Left => ~client[i].connected

\* A step of a thread outside recv.
LEMMA CountFrame ==
    ASSUME TypeInv, CountInv, NEW i \in Slot, NEW l \in PC,
           Goto(i, l),
           UNCHANGED <<client_data_buff, inbox>>,
           \A j \in Slot : j # i => client'[j] = client[j],
           client'[i].connected => client[i].connected \/ pc[i] \in Heard,
           l \in Heard => pc[i] \in Heard,
           l \in Left => ~client'[i].connected
    PROVE  CountInv'
<1>1. \A j \in Slot : pc'[j] = IF j = i THEN l ELSE pc[j]
  BY DEF Goto, TypeInv, TypeOK
<1>2. ASSUME NEW j \in Slot
      PROVE  /\ inbox'[j] # NoMsg => inbox'[j].crc_ok
             /\ client'[j].connected \/ pc'[j] \in Heard => Right(client_data_buff'[j])
             /\ pc'[j] \in Left => ~client'[j].connected
  <2>1. CASE j = i
    BY <2>1, <1>1 DEF CountInv
  <2>2. CASE j # i
    BY <2>2, <1>1 DEF CountInv
  <2>3. QED
    BY <2>1, <2>2
<1>3. QED
  BY <1>2 DEF CountInv, Right

\* What is processed is a right message, or nothing was ever received and
\* then nothing is counted.
LEMMA CountProcess ==
    ASSUME TypeInv, CountInv, NEW i \in Slot, NEW m \in Message \cup {NoMsg},
           pc[i] = "recv", Process(i, m),
           client[i].connected => Right(m),
           client_data_buff'[i] = m,
           \A j \in Slot : j # i => client_data_buff'[j] = client_data_buff[j],
           \A j \in Slot : inbox'[j] \in {inbox[j], NoMsg}
    PROVE  CountInv'
<1>1. ASSUME NEW j \in Slot, j # i
      PROVE  /\ client'[j] = client[j]
             /\ pc'[j] = pc[j]
  BY <1>1 DEF Process, Goto, TypeInv, TypeOK
<1>2. CASE Right(m)
  <2> DEFINE c == [client[i] EXCEPT !.mac_address = dev[i], !.coords = m.coords]
  <2>1. client'[i] = c /\ pc'[i] \in {"check", "closeLock"}
    BY <1>2 DEF Process, Goto, Right, TypeInv, TypeOK
  <2>2. c.connected = client[i].connected
    BY DEF TypeInv, TypeOK, pango_data
  <2>3. QED
    BY <1>1, <1>2, <2>1, <2>2 DEF CountInv, Left
<1>3. CASE ~Right(m)
  <2>1. client'[i] = client[i] /\ pc'[i] = "exit"
    BY <1>3 DEF Process, Goto, Right, TypeInv, TypeOK
  <2>2. QED
    BY <1>1, <1>3, <2>1 DEF CountInv, Heard
<1>4. QED
  BY <1>2, <1>3

LEMMA RestartCount ==
    ASSUME Restart
    PROVE  CountInv'
<1>1. ~ZeroedData.connected
  BY DEF ZeroedData
<1>2. \A j \in Slot : client'[j] = ZeroedData /\ pc'[j] = "none" /\ inbox'[j] = NoMsg
  BY DEF Restart
<1>3. QED
  BY <1>1, <1>2 DEF CountInv, Heard, Left

LEMMA ThreadCount ==
    ASSUME TypeInv, CountInv, "dberr" \notin Faults, NEW i \in Slot, Thread(i)
    PROVE  CountInv'
<1> USE DEF Unlock, netVars
<1>a. /\ client \in [Slot -> pango_data]
      /\ client_data_buff \in [Slot -> Message \cup {NoMsg}]
      /\ inbox \in [Slot -> Message \cup {NoMsg}]
  BY DEF TypeInv, TypeOK
<1>b. \A c : client' = [client EXCEPT ![i] = c] =>
               client'[i] = c /\ \A j \in Slot : j # i => client'[j] = client[j]
  BY <1>a
<1>c. pc[i] \in Left => ~client[i].connected
  BY DEF CountInv
<1>d. ~[client[i] EXCEPT !.connected = FALSE].connected
  BY <1>a DEF pango_data
<1>1. CASE Lock(i)
  <2> DEFINE l == CriticalSection[pc[i]]
  <2>1. /\ l \in PC
        /\ l \in Heard => pc[i] \in Heard
        /\ l \in Left => pc[i] \in Left
    BY <1>1 DEF Lock, Waiting, CriticalSection, PC, Critical, Heard, Left
  <2>2. Goto(i, l) /\ client' = client /\ UNCHANGED <<client_data_buff, inbox>>
    BY <1>1 DEF Lock
  <2>3. QED
    BY <1>c, <2>1, <2>2, CountFrame
<1>2. CASE Recv(i)
  <2>1. inbox[i] \in Message /\ Right(inbox[i])
    BY <1>2, <1>a DEF Recv, CountInv, Right
  <2>2. /\ client_data_buff'[i] = inbox[i]
        /\ \A j \in Slot : j # i => client_data_buff'[j] = client_data_buff[j]
        /\ \A j \in Slot : inbox'[j] \in {inbox[j], NoMsg}
    BY <1>2, <1>a DEF Recv
  <2>3. QED
    BY <1>2, <2>1, <2>2, CountProcess DEF Recv
<1>3. CASE RecvError(i)
  BY <1>3, <1>a, CountProcess DEF RecvError, CountInv
<1>4. CASE RecvLost(i)
  BY <1>4, CountFrame DEF RecvLost, PC, Waiting, CriticalSection, Heard, Left
<1>5. CASE Lost(i)
  <2>1. client' = [client EXCEPT ![i] = [client[i] EXCEPT !.connected = FALSE]]
    BY <1>5, <1>a DEF Lost
  <2>2. QED
    BY <1>5, <1>b, <1>d, <2>1, CountFrame DEF Lost, PC, Heard, Left
<1>6. CASE CheckKnown(i)
  BY <1>6, CountFrame DEF CheckKnown, PC, Waiting, CriticalSection, Heard, Left
<1>7. CASE CheckNew(i)
  BY <1>7, <1>a, CountFrame DEF CheckNew, PC, Waiting, CriticalSection, Heard, Left
<1>8. CASE CheckAgain(i)
  BY <1>8, CountFrame DEF CheckAgain, PC, Heard, Left
<1>9. CASE Resume(i)
  BY <1>9, <1>a, CountFrame DEF Resume, PC, Heard, Left
<1>10. CASE ResumeError(i)
  BY <1>10, NoDbError DEF ResumeError
<1>11. CASE InsertClient(i)
  BY <1>11, <1>a, CountFrame DEF InsertClient, PC, Heard, Left
<1>12. CASE InsertError(i)
  BY <1>12, NoDbError DEF InsertError
<1>13. CASE SendLocation(i)
  BY <1>13, CountFrame DEF SendLocation, PC, Heard, Left
<1>14. CASE SetConnected(i)
  BY <1>14, <1>a, CountFrame DEF SetConnected, PC, Heard, Left
<1>15. CASE CloseApp(i)
  <2>1. client' = [client EXCEPT ![i] = [client[i] EXCEPT !.connected = FALSE]]
    BY <1>15, <1>a DEF CloseApp
  <2>2. /\ ~client'[i].connected
        /\ \A j \in Slot : j # i => client'[j] = client[j]
    BY <1>b, <1>d, <2>1
  <2>3. Goto(i, "exit") /\ UNCHANGED <<client_data_buff, inbox>>
    BY <1>15 DEF CloseApp
  <2>4. QED
    BY <2>2, <2>3, CountFrame DEF PC, Heard, Left
<1>16. CASE SendPayment(i)
  BY <1>16, <1>c, CountFrame DEF SendPayment, PC, Waiting, CriticalSection, Heard, Left
<1>17. CASE RemoveClient(i)
  BY <1>17, <1>c, CountFrame DEF RemoveClient, PC, Heard, Left
<1>18. CASE ExitLost(i)
  BY <1>18, <1>c, CountFrame DEF ExitLost, PC, Waiting, CriticalSection, Heard, Left
<1>19. CASE UpdateLost(i)
  BY <1>19, <1>c, CountFrame DEF UpdateLost, PC, Heard, Left
<1>20. CASE SendError(i)
  BY <1>20, <1>c, CountFrame DEF SendError, PC, Heard, Left
<1>21. CASE ExitSilently(i)
  BY <1>21, <1>c, CountFrame DEF ExitSilently, PC, Heard, Left
<1>22. CASE Finish(i)
  BY <1>22, <1>c, CountFrame DEF Finish, PC, Heard, Left
<1>23. CASE BrokenPipe(i)
  BY <1>23, RestartCount DEF BrokenPipe
<1>24. QED
  BY <1>1, <1>2, <1>3, <1>4, <1>5, <1>6, <1>7, <1>8, <1>9, <1>10, <1>11, <1>12,
     <1>13, <1>14, <1>15, <1>16, <1>17, <1>18, <1>19, <1>20, <1>21, <1>22, <1>23
  DEF Thread

\* Without "corrupt" every message that is sent arrives right.
LEMMA EnvironmentCount ==
    ASSUME TypeInv, CountInv, "corrupt" \notin Faults, Environment
    PROVE  CountInv'
<1>1. ASSUME NEW m \in Device, Connect(m)
      PROVE  CountInv'
  <2>1. accepted \in Slot
    BY <1>1, ConstantsAssumption DEF Connect, TypeInv, TypeOK, Slot
  <2>2. /\ Goto(accepted, "recv")
        /\ UNCHANGED <<client, client_data_buff, inbox>>
    BY <1>1 DEF Connect, Goto
  <2>3. QED
    BY <2>1, <2>2, CountFrame DEF PC, Heard, Left
<1>2. ASSUME NEW i \in Slot, DeviceStep(i) \/ Disconnect(i) \/ Reset(i)
      PROVE  CountInv'
  <2>1. UNCHANGED <<pc, client, client_data_buff>>
    BY <1>2 DEF DeviceStep, SendStart, ReceiveLocation, SendClose, ReceivePayment,
                GiveUp, Disconnect, Reset, Leave, serverVars
  <2>2. \A j \in Slot : inbox'[j] # NoMsg => inbox'[j].crc_ok
    <3>1. CASE inbox' = inbox
      BY <3>1 DEF CountInv
    <3>2. ASSUME NEW s, Transmit(i, s)
          PROVE  \A j \in Slot : inbox'[j] # NoMsg => inbox'[j].crc_ok
      <4>1. PICK xy \in Coords, ok \in {TRUE, "corrupt" \notin Faults} :
              inbox' = [inbox EXCEPT ![i] = [status |-> s, coords |-> xy, crc_ok |-> ok]]
        BY <3>2 DEF Transmit
      <4>2. ok
        BY Zenon
      <4>3. [status |-> s, coords |-> xy, crc_ok |-> ok].crc_ok
        BY <4>2
      <4>4. QED
        BY <4>1, <4>3 DEF CountInv, TypeInv, TypeOK
    <3>3. inbox' = inbox \/ \E s \in {"START_APP", "CLOSE_APP"} : Transmit(i, s)
      BY <1>2 DEF DeviceStep, SendStart, ReceiveLocation, SendClose, ReceivePayment,
                  GiveUp, Disconnect, Reset, Leave
    <3>4. QED
      BY <3>1, <3>2, <3>3
  <2>3. QED
    BY <2>1, <2>2 DEF CountInv, Right
<1>3. CASE Crash
  BY <1>3, RestartCount DEF Crash
<1>4. CASE Tick
  BY <1>4 DEF Tick, serverVars, netVars, CountInv, Right
<1>5. QED
  BY <1>1, <1>2, <1>3, <1>4 DEF Environment

LEMMA InitCountInv == Init => CountInv
<1>1. ~ZeroedData.connected
  BY DEF ZeroedData
<1>2. ASSUME Init
      PROVE  \A j \in Slot : client[j] = ZeroedData /\ pc[j] = "none" /\ inbox[j] = NoMsg
  BY <1>2 DEF Init, ServerInit, NetInit
<1>3. QED
  BY <1>1, <1>2 DEF CountInv, Heard, Left

LEMMA NextCountInv ==
    ASSUME "corrupt" \notin Faults, "dberr" \notin Faults, TypeInv, CountInv, [Next]_vars
    PROVE  CountInv'
<1>1. ASSUME UNCHANGED <<pc, client, client_data_buff, inbox>>
      PROVE  CountInv'
  BY <1>1 DEF CountInv, Right
<1>2. ASSUME DbUpdateThread \/ UNCHANGED vars
      PROVE  CountInv'
  BY <1>1, <1>2 DEF DbUpdateThread, DbLock, DbUpdate, DbUnlock, vars, serverVars, netVars
<1>3. QED
  BY <1>2, ThreadCount, EnvironmentCount DEF Next

LEMMA AlwaysCountInv ==
    ASSUME "corrupt" \notin Faults, "dberr" \notin Faults
    PROVE  Spec => []CountInv
<1>1. TypeInv /\ CountInv /\ [Next]_vars => CountInv'
  BY NextCountInv
<1>2. QED
  BY <1>1, InitCountInv, AlwaysTypeInv, PTL DEF Spec

\* If no message is corrupted and SQLite does not fail, a connection whose
\* thread has ended is never counted by the database thread: whether it ended
\* by a CLOSE, a loss, a reset in any state, or before its first message.  The
\* run server_corrupt shows the first assumption to be needed.
THEOREM DoneTheorem ==
    ASSUME "corrupt" \notin Faults, "dberr" \notin Faults
    PROVE  Spec => []DoneNotCounting
<1>1. CountInv => DoneNotCounting
  BY DEF CountInv, DoneNotCounting, Left
<1>2. QED
  BY <1>1, AlwaysCountInv, PTL
=============================================================================
