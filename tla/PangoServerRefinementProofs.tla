---------------------- MODULE PangoServerRefinementProofs ----------------------
(***************************************************************************)
(* The server is a parking meter: PangoServer with its histories           *)
(* implements ParkingMeter, step by step, for every number of devices and  *)
(* slots, every period and every bound on the clock.                       *)
(***************************************************************************)
EXTENDS PangoServerMeterProofs

-----------------------------------------------------------------------------
(* The inductive invariant: how the beginning of a row, the count of its    *)
(* thread and the payment belong together.                                  *)

\* A row shows no more time than has passed since it began,
RowBegan ==
    \A m \in Device : HasRow(m) =>
        began[m] \in Nat /\ RowOf(m).TIME_USED <= now - began[m]

\* its thread counts from no earlier,
CountBegan ==
    \A i \in Slot : Begun(i) /\ pc[i] \notin BeforeRow =>
        client[i].time_start_parking >= began[dev[i]]

\* and once the thread has left the loop on a CLOSE, it has what the row
\* shows: the payment is made of it without the mutex.
FinalTime ==
    \A i \in Slot : pc[i] = "exit" /\ status[i] = "CLOSE_APP" =>
        /\ HasRow(dev[i])
        /\ client[i].price = PriceAt(RowOf(dev[i]).LOCATION, 0)
        /\ RowOf(dev[i]).TIME_USED = end_time[i] - client[i].time_start_parking

BeganInv == RowBegan /\ CountBegan /\ FinalTime

-----------------------------------------------------------------------------
(* When a row began.                                                        *)

LEMMA BeganKept ==
    ASSUME Remember, NEW m \in Device, HasRow(m), HasRow(m)'
    PROVE  began'[m] = began[m]
BY DEF Remember, HasRow

LEMMA Uncounted ==
    ASSUME TypeInv, RowInv, NEW i \in Slot, pc[i] \in BeforeRow
    PROVE  /\ dev[i] \in Device
           /\ client[i].mac_address = dev[i]
           /\ ~HasRow(dev[i])
<1>1. dev[i] \in Device /\ client[i].mac_address = dev[i] /\ Len(your_table[dev[i]]) = 0
  BY DEF BeforeRow, TypeInv, Registered, Served, RowInv, NoRowYet
<1>2. your_table[dev[i]] \in Seq(Row)
  BY <1>1 DEF TypeInv, TypeOK
<1>3. QED
  BY <1>1, <1>2, EmptySeq DEF HasRow

LEMMA InsertBegins ==
    ASSUME Known, Remember, NEW i \in Slot, InsertClient(i), NEW m \in Device, m = dev[i]
    PROVE  /\ ~HasRow(m) /\ HasRow(m)'
           /\ RowOf(m)' = [TIME_USED |-> 0, LOCATION |-> client[i].location]
           /\ \A d \in Device \ {m} : your_table'[d] = your_table[d]
           /\ began'[m] = client[i].time_start_parking
<1>0. TypeInv /\ TypeOK /\ RowInv /\ pc[i] = "insert"
  BY DEF Known, TypeInv, InsertClient
<1>1. client[i].mac_address = m /\ ~HasRow(m)
  BY <1>0, Uncounted DEF BeforeRow
<1>2. client[i].location \in Location
  BY <1>0 DEF TypeOK, pango_data
<1>3. /\ HasRow(m)'
      /\ RowOf(m)' = [TIME_USED |-> 0, LOCATION |-> client[i].location]
      /\ \A d \in Device \ {m} : your_table'[d] = your_table[d]
  BY <1>0, <1>1, <1>2, InsertedRow DEF InsertClient
\* Only one thread is about to insert a row of the device.
<1>4. Inserting(m) = i
  <2>1. ASSUME NEW j \in Slot, pc[j] = "insert", client[j].mac_address = m
        PROVE  j = i
    BY <1>0, <2>1, OnlyThread DEF Live, TypeInv, Registered, Served
  <2>2. QED
    BY <1>0, <1>1, <2>1 DEF Inserting
<1>5. QED
  BY <1>1, <1>3, <1>4 DEF Remember, HasRow

-----------------------------------------------------------------------------
(* The invariant is inductive.                                              *)

\* A thread whose time is saved has answered its device's first START.
LEMMA CountedBegun ==
    ASSUME Known, PriceInv, NEW i \in Slot, Counted(i), client[i].mac_address = dev[i]
    PROVE  Begun(i) /\ pc[i] \notin BeforeRow
<1>1. ASSUME pc[i] \in BeforeRow
      PROVE  ~client[i].connected
  BY <1>1, Uncounted DEF Known, PriceInv, Parked
<1>2. QED
  BY <1>1 DEF Counted, Begun, Registers, BeforeRow

LEMMA NextRowBegan ==
    ASSUME Orderly, ServerInv, ServerInv', BeganInv, [Next]_vars, Remember
    PROVE  RowBegan'
<1>0. /\ TypeInv /\ TypeOK /\ "dberr" \notin Faults
      /\ Known /\ TimeInv /\ PriceInv
      /\ now' \in {now, now + 1} /\ now \in Nat
  BY NextSteps, ConnectSlot, NetTypes DEF ServerInv, Known, TypeInv, Orderly, NextStep,
     Alone, NoSlot, Restart
<1>1. SUFFICES ASSUME NEW m \in Device, HasRow(m)'
               PROVE  began'[m] \in Nat /\ RowOf(m)'.TIME_USED <= now' - began'[m]
  BY DEF RowBegan, HasRow, RowOf
<1>2. RowOf(m)'.TIME_USED \in Int
  BY <1>1 DEF ServerInv, TimeInv, HasRow, RowOf
<1>3. CASE HasRow(m) /\ RowOf(m)' = RowOf(m)
  BY <1>0, <1>1, <1>2, <1>3, BeganKept DEF BeganInv, RowBegan
<1>4. ASSUME NEW i \in Slot, InsertClient(i), m = dev[i]
      PROVE  began'[m] \in Nat /\ RowOf(m)'.TIME_USED <= now' - began'[m]
  <2>1. RowOf(m)'.TIME_USED = 0 /\ began'[m] = client[i].time_start_parking
    BY <1>0, <1>4, InsertBegins
  <2>2. client[i].time_start_parking \in 0 .. now
    BY <1>0 DEF TimeInv
  <2>3. QED
    BY <1>0, <2>1, <2>2
<1>5. ASSUME NEW i \in Slot, Counted(i), m = dev[i], m = client[i].mac_address, HasRow(m),
             RowOf(m)' = [RowOf(m) EXCEPT !.TIME_USED = now - client[i].time_start_parking]
      PROVE  began'[m] \in Nat /\ RowOf(m)'.TIME_USED <= now' - began'[m]
  <2>1. began'[m] = began[m] /\ began[m] \in Nat
    BY <1>1, <1>5, BeganKept DEF BeganInv, RowBegan
  <2>2. client[i].time_start_parking >= began[m] /\ client[i].time_start_parking \in 0 .. now
    BY <1>0, <1>5, CountedBegun DEF BeganInv, CountBegan, TimeInv
  <2>3. RowOf(m)'.TIME_USED = now - client[i].time_start_parking
    BY <1>0, <1>5, RowType DEF Row
  <2>4. QED
    BY <1>0, <2>1, <2>2, <2>3
<1>6. QED
  BY <1>0, <1>1, <1>3, <1>4, <1>5, NextRowStep DEF RowStep

LEMMA NextCountBegan ==
    ASSUME Orderly, ServerInv, ServerInv', BeganInv, [Next]_vars, Remember
    PROVE  CountBegan'
<1>0. /\ TypeInv /\ "dberr" \notin Faults
      /\ Known /\ ResumeInv /\ TimeInv /\ PriceInv /\ NetInv /\ RunInv /\ RunInv'
      /\ now \in Nat
  BY NetTypes DEF ServerInv, Known, Orderly
<1>1. SUFFICES ASSUME NEW j \in Slot, Begun(j)', pc'[j] \notin BeforeRow
               PROVE  client'[j].time_start_parking >= began'[dev'[j]]
  BY DEF CountBegan, BeforeRow
<1>2. /\ dev'[j] = dev[j]
      /\ \/ Resume(j) \/ InsertClient(j)
         \/ /\ Begun(j) /\ pc[j] \notin BeforeRow
            /\ client'[j].time_start_parking = client[j].time_start_parking
  BY <1>0, <1>1, BegunFrom, CheckNewLocates DEF BeforeRow
<1>3. dev[j] \in Device
  BY <1>0, <1>2, BegunWaits, InsertStarts, ResumeStarts
<1>4. PICK m \in Device : m = dev[j]
  BY <1>3
<1>5. HasRow(m)'
  BY <1>0, <1>1, <1>2, <1>4 DEF RunInv, HasRow
<1>6. CASE Resume(j)
  <2>1. /\ HasRow(m) /\ RowOf(m).TIME_USED \in Int
        /\ client'[j].time_start_parking = now - RowOf(m).TIME_USED
    BY <1>0, <1>4, <1>6, ResumeStarts
  <2>2. began'[m] = began[m] /\ began[m] \in Nat /\ RowOf(m).TIME_USED <= now - began[m]
    BY <1>5, <2>1, BeganKept DEF BeganInv, RowBegan
  <2>3. QED
    BY <1>0, <1>2, <1>4, <2>1, <2>2
<1>7. CASE InsertClient(j)
  <2>1. client[j].time_start_parking \in Nat
    BY <1>0 DEF TimeInv
  <2>2. QED
    BY <1>0, <1>2, <1>4, <1>7, <2>1, InsertBegins, InsertStarts
<1>8. CASE /\ Begun(j) /\ pc[j] \notin BeforeRow
           /\ client'[j].time_start_parking = client[j].time_start_parking
  <2>1. HasRow(m)
    BY <1>0, <1>4, <1>8 DEF RunInv
  <2>2. began'[m] = began[m]
    BY <1>5, <2>1, BeganKept
  <2>3. QED
    BY <1>2, <1>4, <1>8, <2>2 DEF BeganInv, CountBegan
<1>9. QED
  BY <1>2, <1>6, <1>7, <1>8

\* How a thread comes to the exit on a CLOSE: it has saved the final time.
LEMMA ExitFrom ==
    ASSUME Orderly, TypeInv, Fresh, CountInv, [Next]_vars,
           NEW i \in Slot, pc'[i] = "exit", status'[i] = "CLOSE_APP"
    PROVE  /\ dev'[i] = dev[i]
           /\ \/ CloseApp(i)
              \/ /\ pc[i] = "exit" /\ status[i] = "CLOSE_APP"
                 /\ client'[i] = client[i] /\ end_time'[i] = end_time[i]
<1>0. "dberr" \notin Faults
  BY DEF Orderly
<1> DEFINE Stays == /\ pc[i] = "exit" /\ status[i] = "CLOSE_APP" /\ dev'[i] = dev[i]
                    /\ client'[i] = client[i] /\ end_time'[i] = end_time[i]
<1>1. ASSUME Thread(i), ~Restart
      PROVE  CloseApp(i) /\ dev'[i] = dev[i]
  <2> USE NetTypes DEF Goto, Unlock, netVars
  <2>1. CASE Lock(i)
    BY <1>1, <2>1 DEF Lock, Waiting, CriticalSection
  <2>2. CASE Recv(i) \/ RecvError(i)
    BY <2>2 DEF Recv, RecvError, Process
  <2>3. CASE Lost(i)
    BY <2>3 DEF Lost, TypeInv, Registered
  <2>4. CASE CloseApp(i)
    BY <2>4 DEF CloseApp
  <2>5. CASE ResumeError(i) \/ InsertError(i)
    BY <1>0, <2>5, NoDbError DEF ResumeError, InsertError
  <2>6. CASE RecvLost(i) \/ CheckKnown(i) \/ CheckNew(i) \/ CheckAgain(i) \/ Resume(i)
             \/ InsertClient(i) \/ SendLocation(i) \/ SetConnected(i)
    BY <2>6 DEF RecvLost, CheckKnown, CheckNew, CheckAgain, Resume, InsertClient,
       SendLocation, SetConnected
  <2>7. CASE SendPayment(i) \/ RemoveClient(i) \/ ExitLost(i) \/ UpdateLost(i)
             \/ SendError(i) \/ ExitSilently(i) \/ Finish(i)
    BY <2>7 DEF SendPayment, RemoveClient, ExitLost, UpdateLost, SendError,
       ExitSilently, Finish
  <2>8. QED
    BY <1>1, <2>1, <2>2, <2>3, <2>4, <2>5, <2>6, <2>7 DEF Thread, BrokenPipe
<1>2. ASSUME NEW k \in Slot, k # i, Thread(k), ~Restart
      PROVE  Stays
  BY <1>0, <1>2, ThreadAlone, ThreadFrames DEF Alone, ThreadFrame, BrokenPipe
<1>3. ASSUME UNCHANGED <<client, pc, status, end_time, dev>>
      PROVE  Stays
  BY <1>3
<1>4. CASE Restart
  BY <1>4 DEF Restart
<1>5. ASSUME NEW m \in Device, Connect(m)
      PROVE  Stays
  <2>1. /\ UNCHANGED <<client, status, end_time>>
        /\ \A j \in Slot : /\ pc'[j] = IF j = accepted THEN "recv" ELSE pc[j]
                           /\ dev'[j] = IF j = accepted THEN m ELSE dev[j]
    BY <1>5, ConnectSlot DEF Connect
  <2>2. QED
    BY <2>1
<1>6. CASE DbUpdateThread \/ Tick \/ UNCHANGED vars
  BY <1>3, <1>6 DEF DbUpdateThread, DbLock, DbUpdate, DbUnlock, Tick, vars, serverVars, netVars
<1>7. ASSUME NEW k \in Slot, DeviceStep(k) \/ Disconnect(k) \/ Reset(k)
      PROVE  Stays
  BY <1>3, <1>7, DeviceFrames DEF ServerFrame
<1>8. QED
  BY <1>1, <1>2, <1>4, <1>5, <1>6, <1>7 DEF Next, Environment, Crash

LEMMA NextFinalTime ==
    ASSUME Orderly, ServerInv, ServerInv', BeganInv, [Next]_vars
    PROVE  FinalTime'
<1>0. /\ TypeInv /\ TypeOK /\ Fresh /\ CountInv /\ RowInv /\ "dberr" \notin Faults
      /\ Known /\ PriceInv /\ RunInv
  BY DEF ServerInv, Known, TypeInv, Orderly
<1>1. SUFFICES ASSUME NEW i \in Slot, pc'[i] = "exit", status'[i] = "CLOSE_APP"
               PROVE  /\ your_table'[dev'[i]] # <<>>
                      /\ client'[i].price = PriceAt(your_table'[dev'[i]][1].LOCATION, 0)
                      /\ your_table'[dev'[i]][1].TIME_USED
                            = end_time'[i] - client'[i].time_start_parking
  BY DEF FinalTime, HasRow, RowOf, PriceAt
<1>2. /\ dev'[i] = dev[i]
      /\ \/ CloseApp(i)
         \/ /\ pc[i] = "exit" /\ status[i] = "CLOSE_APP"
            /\ client'[i] = client[i] /\ end_time'[i] = end_time[i]
  BY <1>0, <1>1, ExitFrom
<1>3. dev[i] \in Device /\ Live(i)
  BY <1>0, <1>2 DEF CloseApp, TypeInv, Registered, Live
<1>4. PICK m \in Device : m = dev[i]
  BY <1>3
<1>5. CASE CloseApp(i)
  <2>1. client[i].mac_address = m /\ Begun(i)
    BY <1>0, <1>4, <1>5 DEF CloseApp, TypeInv, Registered, Served, Begun, Registers
  <2>2. client[i].connected
    BY <1>0, <1>5, <2>1 DEF RunInv, InLoop, CloseApp
  <2>3. HasRow(m) /\ client[i].price = PriceAt(RowOf(m).LOCATION, 0)
    BY <1>0, <1>4, <2>2 DEF PriceInv, Parked
  <2>4. your_table' = Update(m, now - client[i].time_start_parking)
    BY <1>0, <1>5, <2>1, NoDbError DEF CloseApp, UpdateClientData
  <2>5. now - client[i].time_start_parking \in Int /\ client[i] \in pango_data
    BY NetTypes, <1>0 DEF pango_data
  <2>6. /\ HasRow(m)'
        /\ RowOf(m)' = [RowOf(m) EXCEPT !.TIME_USED = now - client[i].time_start_parking]
    BY <1>0, <2>3, <2>4, <2>5, UpdatedRow
  <2>7. RowOf(m) \in Row
    BY <1>0, <2>3, RowType
  <2>8. RowOf(m)'.LOCATION = RowOf(m).LOCATION
        /\ RowOf(m)'.TIME_USED = now - client[i].time_start_parking
    BY <2>6, <2>7 DEF Row
  <2>9. /\ client'[i].price = client[i].price
        /\ client'[i].time_start_parking = client[i].time_start_parking
        /\ end_time'[i] = now
    BY <1>0, <1>5, NetTypes DEF CloseApp, UpdateClientData, pango_data
  <2>10. QED
    BY <1>2, <1>4, <2>3, <2>6, <2>8, <2>9 DEF HasRow, RowOf
\* Nobody writes the row of a device while its thread is at the exit.
<1>6. CASE /\ pc[i] = "exit" /\ status[i] = "CLOSE_APP"
           /\ client'[i] = client[i] /\ end_time'[i] = end_time[i]
  <2>1. HasRow(m)
    BY <1>4, <1>6 DEF BeganInv, FinalTime
  <2>2. ASSUME NEW k \in Slot, Live(k), dev[k] = m
        PROVE  k = i
    BY <1>0, <1>3, <1>4, <2>2, OnlyThread
  <2>3. HasRow(m)'
    BY <1>0, <1>6, <2>1, <2>2, RowStays DEF Live
  <2>4. ASSUME NEW k \in Slot, Counted(k)
        PROVE  dev[k] # m
    BY <1>0, <1>6, <2>2, <2>4, CountedLive DEF Counted, CountInv, Left
  <2>5. RowOf(m)' = RowOf(m)
    BY <1>0, <2>1, <2>3, <2>4, NextRowStep DEF RowStep
  <2>6. QED
    BY <1>2, <1>4, <1>6, <2>1, <2>3, <2>5 DEF BeganInv, FinalTime, HasRow, RowOf
<1>7. QED
  BY <1>2, <1>5, <1>6

LEMMA InitBegan == MeterInit => BeganInv
<1>1. ASSUME MeterInit
      PROVE  /\ \A i \in Slot : pc[i] = "none" /\ ~client[i].connected
             /\ \A m \in Device : your_table[m] = <<>>
  BY <1>1 DEF MeterInit, Init, ServerInit, ZeroedData
<1>2. QED
  BY <1>1 DEF BeganInv, RowBegan, CountBegan, FinalTime, Begun, HasRow

LEMMA NextBegan ==
    ASSUME Orderly, ServerInv, ServerInv', BeganInv, [MeterNext]_<<vars, meterVars>>
    PROVE  BeganInv'
<1>1. CASE MeterNext
  BY <1>1, NextRowBegan, NextCountBegan, NextFinalTime DEF MeterNext, BeganInv
<1>2. CASE UNCHANGED <<vars, meterVars>>
  BY <1>2 DEF vars, serverVars, netVars, meterVars, BeganInv, RowBegan, CountBegan,
     FinalTime, Begun, Registers, HasRow, RowOf
<1>3. QED
  BY <1>1, <1>2

LEMMA AlwaysBegan ==
    ASSUME Orderly
    PROVE  MeterSpec => [](ServerInv /\ BeganInv)
<1>1. ServerInv /\ ServerInv' /\ BeganInv /\ [MeterNext]_<<vars, meterVars>> => BeganInv'
  BY NextBegan
<1>2. MeterSpec => []ServerInv
  BY MeterIsServer, AlwaysServerInv, PTL
<1>3. QED
  BY <1>1, <1>2, InitBegan, PTL DEF MeterSpec

-----------------------------------------------------------------------------
(* The variables of the meter.                                              *)

Removing(i) == pc[i] \in {"deleteLock", "delete"}

PaymentOf(i) == [elapsed |-> reply[i].elapsed, price |-> reply[i].price]

Shown(m) == [began |-> began[m], used |-> RowOf(m).TIME_USED, city |-> RowOf(m).LOCATION]

SameMeter(m) == Metered(m)' = Metered(m)
SameBilled(m) == AboutToRemove(m)' = AboutToRemove(m)
SameBill(m) == Outstanding(m)' = Outstanding(m)

LEMMA MeterIs ==
    ASSUME NEW m \in Device
    PROVE  Metered(m) = IF HasRow(m) THEN {Shown(m)} ELSE {}
BY DEF Metered, Shown, HasRow, RowOf

\* The thread that is about to remove a row is that of the row's device.
BilledIs ==
    \A m \in Device : AboutToRemove(m) <=> \E i \in Slot : Removing(i) /\ dev[i] = m

\* The payment a device has not read is on its only open connection.
BillIs ==
    \A m \in Device :
        /\ (\A i \in Slot : HasPayment(i) => dev[i] # m) => Outstanding(m) = {}
        /\ \A i \in Slot : HasPayment(i) /\ dev[i] = m => Outstanding(m) = {PaymentOf(i)}

LEMMA AlwaysBilledIs == TypeInv => BilledIs
BY DEF BilledIs, AboutToRemove, Removing, TypeInv, Registered, Served

LEMMA AlwaysBillIs == NetInv => BillIs
<1> SUFFICES ASSUME NetInv, NEW m \in Device
             PROVE  /\ (\A i \in Slot : HasPayment(i) => dev[i] # m) => Outstanding(m) = {}
                    /\ \A i \in Slot : HasPayment(i) /\ dev[i] = m =>
                          Outstanding(m) = {PaymentOf(i)}
  BY DEF BillIs
<1> DEFINE replies == {reply[i] : i \in {j \in Slot : dev[j] = m}} \ {NoReply}
           payments == {r \in replies : r.kind = "payment"}
<1>1. Outstanding(m) = {[elapsed |-> r.elapsed, price |-> r.price] : r \in payments}
  BY DEF Outstanding
<1>2. \A r \in payments : \E i \in Slot : HasPayment(i) /\ dev[i] = m /\ r = reply[i]
  BY DEF HasPayment
<1>3. ASSUME NEW i \in Slot, HasPayment(i), dev[i] = m
      PROVE  payments = {reply[i]}
  <2>1. reply[i] \in payments
    BY <1>3 DEF HasPayment
  <2>2. ASSUME NEW j \in Slot, HasPayment(j), dev[j] = m
        PROVE  j = i
    BY <1>3, <2>2 DEF NetInv, HasPayment
  <2>3. QED
    BY <1>2, <2>1, <2>2
<1> HIDE DEF payments
<1>4. QED
  BY <1>1, <1>2, <1>3 DEF PaymentOf

LEMMA NextBilledIs == TypeInv' => BilledIs'
BY AlwaysBilledIs, PTL

LEMMA NextBillIs == NetInv' => BillIs'
BY AlwaysBillIs, PTL

LEMMA SameMeterIf ==
    ASSUME Remember, NEW m \in Device, your_table'[m] = your_table[m]
    PROVE  SameMeter(m)
BY DEF Remember, SameMeter, Metered

LEMMA SameBilledIf ==
    ASSUME TypeInv, TypeInv', NEW m \in Device,
           \A i \in Slot : \/ (Removing(i)' <=> Removing(i)) /\ dev'[i] = dev[i]
                           \/ ~Removing(i) /\ ~Removing(i)'
                           \/ dev[i] # m /\ dev'[i] # m
    PROVE  SameBilled(m)
<1>1. AboutToRemove(m) <=> \E i \in Slot : Removing(i) /\ dev[i] = m
  BY AlwaysBilledIs DEF BilledIs
<1>2. AboutToRemove(m)' <=> \E i \in Slot : Removing(i)' /\ dev'[i] = m
  BY NextBilledIs DEF BilledIs
<1>3. AboutToRemove(m)' \in BOOLEAN /\ AboutToRemove(m) \in BOOLEAN
  BY DEF AboutToRemove
<1>4. AboutToRemove(m)' <=> AboutToRemove(m)
  BY <1>1, <1>2
<1>5. QED
  BY <1>3, <1>4 DEF SameBilled

LEMMA SameBillIf ==
    ASSUME NetInv, NetInv', NEW m \in Device,
           \A i \in Slot : HasPayment(i) \/ HasPayment(i)' =>
              \/ HasPayment(i) /\ HasPayment(i)' /\ reply'[i] = reply[i] /\ dev'[i] = dev[i]
              \/ dev[i] # m /\ dev'[i] # m
    PROVE  SameBill(m)
<1>1. /\ (\A i \in Slot : HasPayment(i)' => dev'[i] # m) => Outstanding(m)' = {}
      /\ \A i \in Slot : HasPayment(i)' /\ dev'[i] = m => Outstanding(m)' = {PaymentOf(i)'}
  BY NextBillIs DEF BillIs
<1>2. CASE \E i \in Slot : HasPayment(i) /\ dev[i] = m
  BY <1>1, <1>2, AlwaysBillIs DEF BillIs, SameBill, PaymentOf
<1>3. CASE \A i \in Slot : HasPayment(i) => dev[i] # m
  BY <1>1, <1>3, AlwaysBillIs DEF BillIs, SameBill
<1>4. QED
  BY <1>2, <1>3

-----------------------------------------------------------------------------
(* The steps of the meter, in terms of the server.                          *)

MeterOthers(m) == \A d \in Device \ {m} : SameMeter(d) /\ SameBilled(d) /\ SameBill(d)

LEMMA MeterStutters ==
    ASSUME UNCHANGED <<now, since>>,
           \A m \in Device : SameMeter(m) /\ SameBilled(m) /\ SameBill(m)
    PROVE  UNCHANGED Meter!vars
BY DEF Meter!vars, SameMeter, SameBilled, SameBill

LEMMA MeterAsks ==
    ASSUME NEW m \in Device, now' = now, since[m] = -1, since' = [since EXCEPT ![m] = now],
           \A d \in Device : SameMeter(d) /\ SameBilled(d) /\ SameBill(d)
    PROVE  Meter!Ask(m)
BY DEF Meter!Ask, SameMeter, SameBilled, SameBill

LEMMA MeterStarts ==
    ASSUME NEW m \in Device, UNCHANGED <<now, since>>, MeterOthers(m),
           SameBilled(m), SameBill(m),
           ~HasRow(m), HasRow(m)', since[m] # -1,
           began'[m] \in since[m] .. now,
           RowOf(m)'.TIME_USED = 0, RowOf(m)'.LOCATION \in City
    PROVE  Meter!Start(m)
<1>1. Metered(m) = {}
  BY MeterIs
<1>2. Metered(m)' = {[began |-> began'[m], used |-> 0, city |-> RowOf(m)'.LOCATION]}
  BY DEF Metered, HasRow, RowOf
<1>3. [d \in Device |-> Metered(d)'] =
        [[d \in Device |-> Metered(d)] EXCEPT
           ![m] = {[began |-> began'[m], used |-> 0, city |-> RowOf(m)'.LOCATION]}]
  BY <1>2 DEF MeterOthers, SameMeter
<1>4. RowOf(m)'.LOCATION \in DOMAIN city_parking
  BY DEF city_parking
<1>5. QED
  BY <1>1, <1>3, <1>4 DEF Meter!Start, MeterOthers, SameBilled, SameBill

LEMMA MeterSaves ==
    ASSUME NEW m \in Device, UNCHANGED <<now, since>>, MeterOthers(m),
           SameBilled(m), SameBill(m), ~AboutToRemove(m),
           HasRow(m), HasRow(m)', began'[m] = began[m],
           RowOf(m)'.TIME_USED \in RowOf(m).TIME_USED .. now - began[m],
           RowOf(m)'.LOCATION = RowOf(m).LOCATION
    PROVE  Meter!Save(m)
<1> DEFINE used == RowOf(m)'.TIME_USED
<1>1. Metered(m) = {Shown(m)}
  BY MeterIs
<1>2. Metered(m)' = {[began |-> began[m], used |-> used, city |-> RowOf(m).LOCATION]}
  BY DEF Metered, HasRow, RowOf
<1>3. [Shown(m) EXCEPT !.used = used]
        = [began |-> began[m], used |-> used, city |-> RowOf(m).LOCATION]
  BY DEF Shown
<1>4. [d \in Device |-> Metered(d)'] =
        [[d \in Device |-> Metered(d)] EXCEPT ![m] = {[Shown(m) EXCEPT !.used = used]}]
  BY <1>2, <1>3 DEF MeterOthers, SameMeter
<1>5. used \in Shown(m).used .. now - Shown(m).began
  BY DEF Shown
<1>6. QED
  BY <1>1, <1>4, <1>5 DEF Meter!Save, MeterOthers, SameBilled, SameBill

LEMMA MeterBills ==
    ASSUME NEW m \in Device, UNCHANGED <<now, since>>, MeterOthers(m), SameMeter(m),
           ~AboutToRemove(m), AboutToRemove(m)', HasRow(m),
           \/ SameBill(m)
           \/ Outstanding(m)' =
                 {[elapsed |-> RowOf(m).TIME_USED,
                   price |-> city_parking[RowOf(m).LOCATION] * RowOf(m).TIME_USED]}
    PROVE  Meter!Bill(m)
<1> DEFINE bill == [d \in Device |-> Outstanding(d)]
           due == {[elapsed |-> Shown(m).used,
                    price |-> city_parking[Shown(m).city] * Shown(m).used]}
<1>1. Metered(m) = {Shown(m)}
  BY MeterIs
<1>2. SameBill(m) \/ Outstanding(m)' = due
  BY DEF Shown
<1> HIDE DEF due
<1>3. [d \in Device |-> Outstanding(d)'] \in {bill, [bill EXCEPT ![m] = due]}
  BY <1>2 DEF MeterOthers, SameBill
<1>4. [d \in Device |-> AboutToRemove(d)'] =
        [[d \in Device |-> AboutToRemove(d)] EXCEPT ![m] = TRUE]
  BY DEF MeterOthers, SameBilled, AboutToRemove
<1>5. QED
  BY <1>1, <1>3, <1>4 DEF Meter!Bill, MeterOthers, SameMeter, due

LEMMA MeterRemoves ==
    ASSUME NEW m \in Device, UNCHANGED <<now, since>>, MeterOthers(m), SameBill(m),
           AboutToRemove(m), ~AboutToRemove(m)', ~HasRow(m)'
    PROVE  Meter!Remove(m)
<1>1. Metered(m)' = {}
  BY DEF Metered, HasRow
<1>2. [d \in Device |-> Metered(d)'] = [[d \in Device |-> Metered(d)] EXCEPT ![m] = {}]
  BY <1>1 DEF MeterOthers, SameMeter
<1>3. AboutToRemove(m)' = FALSE
  BY DEF AboutToRemove
<1>4. [d \in Device |-> AboutToRemove(d)'] =
        [[d \in Device |-> AboutToRemove(d)] EXCEPT ![m] = FALSE]
  BY <1>3 DEF MeterOthers, SameBilled
<1>5. QED
  BY <1>2, <1>4 DEF Meter!Remove, MeterOthers, SameBill

LEMMA MeterPays ==
    ASSUME NEW m \in Device, now' = now, since' = [since EXCEPT ![m] = -1], MeterOthers(m),
           SameMeter(m), SameBilled(m), Outstanding(m) # {}, Outstanding(m)' = {}
    PROVE  Meter!Pay(m)
<1>1. [d \in Device |-> Outstanding(d)'] = [[d \in Device |-> Outstanding(d)] EXCEPT ![m] = {}]
  BY DEF MeterOthers, SameBill
<1>2. QED
  BY <1>1 DEF Meter!Pay, MeterOthers, SameMeter, SameBilled

LEMMA MeterLeaves ==
    ASSUME NEW m \in Device, UNCHANGED <<now, since>>, MeterOthers(m),
           SameMeter(m), SameBilled(m), Outstanding(m) # {}, Outstanding(m)' = {}
    PROVE  Meter!Leave(m)
<1>1. [d \in Device |-> Outstanding(d)'] = [[d \in Device |-> Outstanding(d)] EXCEPT ![m] = {}]
  BY DEF MeterOthers, SameBill
<1>2. QED
  BY <1>1 DEF Meter!Leave, MeterOthers, SameMeter, SameBilled

-----------------------------------------------------------------------------
(* The steps of the threads.                                                *)

\* Only the payment and the DELETE make a thread one that is to remove a row,
\* or no longer one.
LEMMA ThreadRemoving ==
    ASSUME TypeInv, "dberr" \notin Faults, NEW i \in Slot, Thread(i), ~Restart,
           ~SendPayment(i), ~RemoveClient(i)
    PROVE  Removing(i)' <=> Removing(i)
<1> USE NetTypes DEF Removing, Goto, Unlock
<1>1. CASE Lock(i)
  BY <1>1 DEF Lock, Waiting, CriticalSection
<1>2. CASE Recv(i) \/ RecvError(i)
  BY <1>2 DEF Recv, RecvError, Process
<1>3. CASE ResumeError(i) \/ InsertError(i)
  BY <1>3, NoDbError DEF ResumeError, InsertError
<1>4. CASE RecvLost(i) \/ Lost(i) \/ CheckKnown(i) \/ CheckNew(i) \/ CheckAgain(i)
           \/ Resume(i) \/ InsertClient(i) \/ SendLocation(i) \/ SetConnected(i)
  BY <1>4 DEF RecvLost, Lost, CheckKnown, CheckNew, CheckAgain, Resume, InsertClient,
     SendLocation, SetConnected
<1>5. CASE CloseApp(i) \/ ExitLost(i) \/ UpdateLost(i) \/ SendError(i)
           \/ ExitSilently(i) \/ Finish(i)
  BY <1>5 DEF CloseApp, ExitLost, UpdateLost, SendError, ExitSilently, Finish
<1>6. QED
  BY <1>1, <1>2, <1>3, <1>4, <1>5 DEF Thread, BrokenPipe

LEMMA ThreadSameBilled ==
    ASSUME TypeInv, TypeInv', "dberr" \notin Faults, NEW i \in Slot, Thread(i), ~Restart,
           ~SendPayment(i), ~RemoveClient(i), NEW m \in Device
    PROVE  SameBilled(m)
<1>1. Alone(i)
  BY ThreadAlone DEF BrokenPipe
<1>2. \A j \in Slot : (Removing(j)' <=> Removing(j)) /\ dev'[j] = dev[j]
  BY <1>1, ThreadRemoving DEF Alone, Removing
<1>3. QED
  BY <1>2, SameBilledIf

\* What a thread sends before its device has closed the connection replaces
\* no payment.
LEMMA ThreadSameBill ==
    ASSUME TypeInv, NetInv, NetInv', "dberr" \notin Faults,
           NEW i \in Slot, Thread(i), ~Restart, ~SendPayment(i), NEW m \in Device
    PROVE  SameBill(m)
<1>1. ThreadFrame(i) /\ ThreadSends(i)
  BY ThreadFrames, ThreadSendsReply
<1>2. HasPayment(i) \/ HasPayment(i)' => reply'[i] = reply[i]
  BY <1>1 DEF ThreadSends, NetInv, HasPayment, Billed, LocationReply, ErrorReply
<1>3. ASSUME NEW j \in Slot, HasPayment(j) \/ HasPayment(j)'
      PROVE  HasPayment(j) /\ HasPayment(j)' /\ reply'[j] = reply[j] /\ dev'[j] = dev[j]
  BY <1>1, <1>2, <1>3 DEF ThreadFrame, HasPayment
<1>4. QED
  BY <1>3, SameBillIf

\* A step that saves the time of slot i and touches no payment.
LEMMA SavingStep ==
    ASSUME ServerInv, BeganInv, Remember, UNCHANGED <<now, since>>,
           \A m \in Device : SameBilled(m) /\ SameBill(m),
           NEW i \in Slot, Counted(i),
           your_table' = Update(client[i].mac_address, now - client[i].time_start_parking)
    PROVE  (\E m \in Device : Meter!Save(m)) \/ UNCHANGED Meter!vars
<1>0. /\ TypeInv /\ TypeOK /\ RowInv /\ CountInv
      /\ Known /\ TimeInv /\ PriceInv /\ RunInv /\ now \in Nat
  BY NetTypes DEF ServerInv, Known, TypeInv
<1> DEFINE used == now - client[i].time_start_parking
<1>1. Live(i) /\ dev[i] \in Device
  BY <1>0, CountedLive
<1>2. PICK m \in Device : m = dev[i]
  BY <1>1
<1>3. CASE client[i].mac_address = m
  <2>1. Begun(i) /\ pc[i] \notin BeforeRow
    BY <1>0, <1>2, <1>3, CountedBegun
  <2>2. HasRow(m)
    BY <1>0, <1>2, <2>1 DEF RunInv
  <2>3. used \in Int
    BY <1>0 DEF TimeInv
  <2>4. /\ HasRow(m)' /\ RowOf(m)' = [RowOf(m) EXCEPT !.TIME_USED = used]
        /\ \A d \in Device \ {m} : your_table'[d] = your_table[d]
    BY <1>0, <1>3, <2>2, <2>3, UpdatedRow DEF Update
  <2>5. RowOf(m)'.TIME_USED = used /\ RowOf(m)'.LOCATION = RowOf(m).LOCATION
    BY <1>0, <2>2, <2>4, RowType DEF Row
  <2>6. began'[m] = began[m]
    BY <2>2, <2>4, BeganKept
  <2>7. used \in RowOf(m).TIME_USED .. now - began[m]
    <3>1. RowOf(m).TIME_USED \in 0 .. now /\ RowOf(m).TIME_USED <= used
      BY <1>0, <1>1, <1>2, <2>2 DEF TimeInv
    <3>2. client[i].time_start_parking >= began[m] /\ began[m] \in Nat
      BY <1>2, <2>1, <2>2 DEF BeganInv, CountBegan, RowBegan
    <3>3. client[i].time_start_parking \in Nat
      BY <1>0 DEF TimeInv
    <3>4. QED
      BY <1>0, <3>1, <3>2, <3>3
  <2>8. ~AboutToRemove(m)
    <3>1. ~Removing(i)
      BY <1>0 DEF Counted, CountInv, Left, Removing
    <3>2. \A k \in Slot : Removing(k) /\ dev[k] = m => k = i
      BY <1>0, <1>1, <1>2, OnlyThread DEF Removing, Live
    <3>3. QED
      BY <1>0, <3>1, <3>2, AlwaysBilledIs DEF BilledIs
  <2>9. MeterOthers(m)
    BY <2>4, SameMeterIf DEF MeterOthers
  <2>10. Meter!Save(m)
    BY <2>2, <2>4, <2>5, <2>6, <2>7, <2>8, <2>9, MeterSaves
  <2>11. QED
    BY <2>10
\* The address of a connection without a message matches no row.
<1>4. CASE client[i].mac_address # m
  <2>1. client[i].mac_address \notin Device
    BY <1>0, <1>2, <1>4, ConstantsAssumption DEF TypeInv, Registered
  <2>2. \A d \in Device : your_table'[d] = your_table[d]
    BY <2>1 DEF Update
  <2>3. QED
    BY <2>2, SameMeterIf, MeterStutters
<1>5. QED
  BY <1>3, <1>4

LEMMA InsertingStep ==
    ASSUME ServerInv, BeganInv, Remember, UNCHANGED <<now, since>>,
           \A m \in Device : SameBilled(m) /\ SameBill(m),
           NEW i \in Slot, InsertClient(i)
    PROVE  \E m \in Device : Meter!Start(m)
<1>0. TypeInv /\ Known /\ TimeInv /\ PriceInv /\ RunInv
  BY DEF ServerInv, Known
<1>1. /\ dev[i] \in Device /\ since[dev[i]] # -1
      /\ client[i].time_start_parking >= since[dev[i]]
  BY <1>0, InsertStarts
<1>2. PICK m \in Device : m = dev[i]
  BY <1>1
<1>3. /\ ~HasRow(m) /\ HasRow(m)'
      /\ RowOf(m)' = [TIME_USED |-> 0, LOCATION |-> client[i].location]
      /\ \A d \in Device \ {m} : your_table'[d] = your_table[d]
      /\ began'[m] = client[i].time_start_parking
  BY <1>0, <1>2, InsertBegins
<1>4. client[i].location \in City
  BY <1>0 DEF PriceInv, InsertClient
<1>5. began'[m] \in since[m] .. now
  <2>1. client[i].time_start_parking \in 0 .. now /\ since[m] \in Int
    BY <1>0, NetTypes DEF TimeInv
  <2>2. QED
    BY <1>1, <1>2, <1>3, <2>1
<1>6. MeterOthers(m)
  BY <1>3, SameMeterIf DEF MeterOthers
<1>7. Meter!Start(m)
  BY <1>1, <1>2, <1>3, <1>4, <1>5, <1>6, MeterStarts
<1>8. QED
  BY <1>7

LEMMA BillingStep ==
    ASSUME "dberr" \notin Faults, ServerInv, ServerInv', BeganInv, Remember,
           NEW i \in Slot, SendPayment(i), Thread(i), ~Restart
    PROVE  \E m \in Device : Meter!Bill(m)
<1>0. /\ TypeInv /\ TypeInv' /\ TypeOK /\ Known /\ PriceInv /\ NetInv /\ NetInv'
      /\ Live(i) /\ dev[i] \in Device
  BY DEF ServerInv, Known, TypeInv, SendPayment, Registered, Live
<1> PICK m \in Device : m = dev[i]
  BY <1>0
<1> DEFINE elapsed == end_time[i] - client[i].time_start_parking
<1>1. /\ UNCHANGED <<now, since, your_table, dev, client>>
      /\ pc[i] = "exit" /\ pc'[i] = "deleteLock" /\ status[i] = "CLOSE_APP"
      /\ \A j \in Slot : j # i => pc'[j] = pc[j] /\ reply'[j] = reply[j]
  <2>1. ThreadFrame(i) /\ Alone(i)
    BY <1>0, ThreadFrames, ThreadAlone DEF BrokenPipe
  <2>2. QED
    BY <1>0, <2>1, NetTypes DEF SendPayment, ThreadFrame, Alone, Goto
<1>2. /\ HasRow(m)
      /\ client[i].price = PriceAt(RowOf(m).LOCATION, 0)
      /\ RowOf(m).TIME_USED = elapsed
  BY <1>1 DEF BeganInv, FinalTime
<1>3. client[i].price = city_parking[RowOf(m).LOCATION]
  BY <1>0, <1>2 DEF PriceInv, PriceAt
<1>4. ~AboutToRemove(m) /\ AboutToRemove(m)'
  <2>1. \A k \in Slot : Removing(k) /\ dev[k] = m => k = i
    BY <1>0, OnlyThread DEF Removing, Live
  <2>2. ~Removing(i) /\ Removing(i)'
    BY <1>1 DEF Removing
  <2>3. QED
    BY <1>0, <1>1, <2>1, <2>2, AlwaysBilledIs, NextBilledIs DEF BilledIs
<1>5. MeterOthers(m)
  <2>1. ASSUME NEW d \in Device \ {m}
        PROVE  SameBilled(d)
    BY <1>0, <1>1, SameBilledIf DEF Removing
  <2>2. ASSUME NEW d \in Device \ {m}
        PROVE  SameBill(d)
    BY <1>0, <1>1, SameBillIf DEF HasPayment
  <2>3. QED
    BY <1>1, <2>1, <2>2, SameMeterIf DEF MeterOthers
<1>6. ~HasPayment(i)
  BY <1>0, <1>1 DEF NetInv, Billed
\* Nobody reads what is sent to a device that has left,
<1>7. CASE reply'[i] = reply[i] \/ reply'[i] = NoReply
  <2>1. SameBill(m)
    BY <1>0, <1>1, <1>6, <1>7, SameBillIf DEF HasPayment
  <2>2. QED
    BY <1>1, <1>2, <1>4, <1>5, <2>1, SameMeterIf, MeterBills
\* and the others get the time and the price of their row.
<1>8. CASE reply'[i] # NoReply /\ reply'[i] = Payment(client[i].price * elapsed, elapsed)
  <2>1. HasPayment(i)'
    BY <1>8 DEF HasPayment, Payment
  <2>2. Outstanding(m)' = {[elapsed |-> elapsed, price |-> client[i].price * elapsed]}
    BY <1>0, <1>1, <1>8, <2>1, NextBillIs DEF BillIs, PaymentOf, Payment
  <2>3. Outstanding(m)' =
          {[elapsed |-> RowOf(m).TIME_USED,
            price |-> city_parking[RowOf(m).LOCATION] * RowOf(m).TIME_USED]}
    BY <1>2, <1>3, <2>2
  <2>4. QED
    BY <1>1, <1>2, <1>4, <1>5, <2>3, SameMeterIf, MeterBills
<1>9. Send(i, Payment(client[i].price * elapsed, elapsed))
  BY DEF SendPayment
<1>10. QED
  BY <1>0, <1>7, <1>8, <1>9, NetTypes DEF Send

LEMMA RemovingStep ==
    ASSUME "dberr" \notin Faults, ServerInv, ServerInv', Remember,
           NEW i \in Slot, RemoveClient(i), Thread(i), ~Restart,
           \A m \in Device : SameBill(m)
    PROVE  \E m \in Device : Meter!Remove(m)
<1>0. /\ TypeInv /\ TypeInv' /\ Known /\ Live(i) /\ dev[i] \in Device
      /\ client[i].mac_address = dev[i]
  BY DEF ServerInv, Known, TypeInv, RemoveClient, Registered, Served, Live
<1> PICK m \in Device : m = dev[i]
  BY <1>0
<1>1. /\ UNCHANGED <<now, since, dev>>
      /\ your_table' = Delete(m)
      /\ pc[i] = "delete" /\ pc'[i] = "finish"
      /\ \A j \in Slot : j # i => pc'[j] = pc[j]
  BY <1>0, NetTypes, NoDbError DEF RemoveClient, Unlock, Goto, netVars
<1>2. ~HasRow(m)' /\ \A d \in Device \ {m} : your_table'[d] = your_table[d]
  BY <1>1, DeletedRow
<1>3. \A k \in Slot : Removing(k) /\ dev[k] = m => k = i
  BY <1>0, OnlyThread DEF Removing, Live
<1>4. Removing(i) /\ ~Removing(i)'
  BY <1>1 DEF Removing
<1>5. \A k \in Slot : k # i => (Removing(k)' <=> Removing(k))
  BY <1>1 DEF Removing
<1>6. AboutToRemove(m) /\ ~AboutToRemove(m)'
  BY <1>0, <1>1, <1>3, <1>4, <1>5, AlwaysBilledIs, NextBilledIs DEF BilledIs
<1>7. MeterOthers(m)
  <2>1. ASSUME NEW d \in Device \ {m}
        PROVE  SameBilled(d)
    BY <1>0, <1>1, <1>5, SameBilledIf
  <2>2. QED
    BY <1>2, <2>1, SameMeterIf DEF MeterOthers
<1>8. QED
  BY <1>1, <1>2, <1>6, <1>7, MeterRemoves

LEMMA ThreadStep ==
    ASSUME "dberr" \notin Faults, ServerInv, ServerInv', BeganInv, Remember,
           NEW i \in Slot, Thread(i), ~Restart
    PROVE  [Meter!Next]_Meter!vars
<1>0. TypeInv /\ TypeInv' /\ NetInv /\ NetInv' /\ RowInv
  BY DEF ServerInv, Known
<1>1. UNCHANGED <<now, since>>
  BY <1>0, ThreadAlone, ThreadFrames DEF Alone, ThreadFrame, BrokenPipe
<1>2. CASE SendPayment(i)
  BY <1>2, BillingStep DEF Meter!Next
<1>3. ASSUME ~SendPayment(i)
      PROVE  \A m \in Device : SameBill(m)
  BY <1>0, <1>3, ThreadSameBill
<1>4. CASE RemoveClient(i)
  <2>1. ~SendPayment(i)
    BY <1>4 DEF RemoveClient, SendPayment
  <2>2. QED
    BY <1>3, <1>4, <2>1, RemovingStep DEF Meter!Next
<1>5. ASSUME ~SendPayment(i), ~RemoveClient(i)
      PROVE  \A m \in Device : SameBilled(m)
  BY <1>0, <1>5, ThreadSameBilled
<1>6. CASE InsertClient(i)
  <2>1. ~SendPayment(i) /\ ~RemoveClient(i)
    BY <1>6 DEF InsertClient, RemoveClient, SendPayment
  <2>2. QED
    BY <1>1, <1>3, <1>5, <1>6, <2>1, InsertingStep DEF Meter!Next
<1>7. CASE CloseApp(i) \/ UpdateLost(i)
  <2>1. ~SendPayment(i) /\ ~RemoveClient(i)
    BY <1>7 DEF CloseApp, UpdateLost, RemoveClient, SendPayment
  <2>2. /\ Counted(i)
        /\ your_table' = Update(client[i].mac_address, now - client[i].time_start_parking)
    BY <1>7, NoDbError DEF CloseApp, UpdateLost, UpdateClientData, Counted
  <2>3. QED
    BY <1>1, <1>3, <1>5, <2>1, <2>2, SavingStep DEF Meter!Next
<1>8. CASE ~(\/ SendPayment(i) \/ RemoveClient(i) \/ InsertClient(i)
             \/ CloseApp(i) \/ UpdateLost(i))
  <2>1. your_table' = your_table
    BY <1>8 DEF Thread, Lock, Recv, RecvError, RecvLost, Lost, CheckKnown, CheckNew,
       CheckAgain, Resume, ResumeError, InsertError, SendLocation, SetConnected,
       ExitLost, SendError, ExitSilently, Finish, BrokenPipe
  <2>2. UNCHANGED Meter!vars
    BY <1>1, <1>3, <1>5, <1>8, <2>1, SameMeterIf, MeterStutters
  <2>3. QED
    BY <2>2
<1>9. QED
  BY <1>2, <1>4, <1>6, <1>7, <1>8

-----------------------------------------------------------------------------
(* The steps of the database thread, the devices and the clock.             *)

\* Nothing of the payments and of the threads that are to remove a row.
LEMMA SameAccounts ==
    ASSUME TypeInv, TypeInv', NetInv, NetInv', UNCHANGED <<pc, dev, reply>>,
           NEW m \in Device
    PROVE  SameBilled(m) /\ SameBill(m)
<1>1. SameBilled(m)
  BY SameBilledIf DEF Removing
<1>2. SameBill(m)
  BY SameBillIf DEF HasPayment
<1>3. QED
  BY <1>1, <1>2

LEMMA DbStep ==
    ASSUME "dberr" \notin Faults, ServerInv, ServerInv', BeganInv, Remember, DbUpdateThread
    PROVE  [Meter!Next]_Meter!vars
<1>0. TypeInv /\ TypeInv' /\ NetInv /\ NetInv'
  BY DEF ServerInv, Known
<1>1. UNCHANGED <<now, since, pc, dev, reply>>
  BY DEF DbUpdateThread, DbLock, DbUpdate, DbUnlock, netVars
<1>2. \A m \in Device : SameBilled(m) /\ SameBill(m)
  BY <1>0, <1>1, SameAccounts
<1>3. CASE your_table' = your_table
  BY <1>1, <1>2, <1>3, SameMeterIf, MeterStutters
<1>4. CASE your_table' # your_table
  <2>1. DbUpdate
    BY <1>4 DEF DbUpdateThread, DbLock, DbUnlock
  <2>2. dbNext \in Slot
    BY <1>0, <2>1, ConstantsAssumption DEF DbUpdate, Slot, TypeInv, TypeOK
  <2>3. /\ Counted(dbNext)
        /\ your_table' = Update(client[dbNext].mac_address,
                                now - client[dbNext].time_start_parking)
    BY <1>4, <2>1 DEF DbUpdate, Counted
  <2>4. QED
    BY <1>1, <1>2, <2>2, <2>3, SavingStep DEF Meter!Next
<1>5. QED
  BY <1>3, <1>4

LEMMA RestartStep ==
    ASSUME ServerInv, ServerInv', Remember, Restart
    PROVE  Meter!Fail
<1>1. UNCHANGED <<now, since, your_table>>
  BY DEF Restart
<1>2. \A i \in Slot : ~Removing(i)' /\ ~HasPayment(i)'
  BY DEF Restart, Removing, HasPayment
<1>3. \A m \in Device : SameMeter(m)
  BY <1>1, SameMeterIf
<1>4. \A m \in Device : AboutToRemove(m)' = FALSE
  <2>1. \A m \in Device : ~AboutToRemove(m)'
    BY <1>2, NextBilledIs DEF BilledIs, ServerInv, Known
  <2>2. QED
    BY <2>1 DEF AboutToRemove
<1>5. \A m \in Device : Outstanding(m)' = {}
  BY <1>2, NextBillIs DEF BillIs, ServerInv
<1>6. QED
  BY <1>1, <1>3, <1>4, <1>5 DEF Meter!Fail, SameMeter

LEMMA ConnectStep ==
    ASSUME ServerInv, ServerInv', Remember, NEW m \in Device, Connect(m)
    PROVE  UNCHANGED Meter!vars
<1>0. TypeInv /\ TypeInv' /\ NetInv /\ NetInv' /\ Fresh
  BY DEF ServerInv, Known
<1>1. UNCHANGED <<now, since, your_table, reply>>
  BY DEF Connect
<1>2. /\ accepted \in Slot /\ pc[accepted] = "none"
      /\ \A j \in Slot : /\ pc'[j] = IF j = accepted THEN "recv" ELSE pc[j]
                         /\ dev'[j] = IF j = accepted THEN m ELSE dev[j]
  BY <1>0, ConnectSlot
<1>3. \A d \in Device : SameMeter(d)
  BY <1>1, SameMeterIf
<1>4. ASSUME NEW d \in Device
      PROVE  SameBilled(d)
  BY <1>0, <1>2, SameBilledIf DEF Removing
<1>5. ASSUME NEW d \in Device
      PROVE  SameBill(d)
  <2>1. ~HasPayment(accepted)
    BY <1>0, <1>2 DEF NetInv, HasPayment
  <2>2. QED
    BY <1>0, <1>1, <1>2, <2>1, SameBillIf DEF HasPayment
<1>6. QED
  BY <1>1, <1>3, <1>4, <1>5, MeterStutters

LEMMA DeviceMeterStep ==
    ASSUME ServerInv, ServerInv', Remember,
           NEW i \in Slot, DeviceStep(i) \/ Disconnect(i) \/ Reset(i)
    PROVE  [Meter!Next]_Meter!vars
<1>0. TypeInv /\ TypeInv' /\ NetInv /\ NetInv'
  BY DEF ServerInv, Known
<1>1. UNCHANGED <<now, your_table, pc, dev>>
  BY DeviceFrames DEF ServerFrame
<1>2. \A m \in Device : SameMeter(m) /\ SameBilled(m)
  BY <1>0, <1>1, SameMeterIf, SameBilledIf DEF Removing
<1>3. \/ since' = since
      \/ /\ SendStart(i) /\ dev[i] \in Device /\ since[dev[i]] = -1
         /\ since' = [since EXCEPT ![dev[i]] = now]
      \/ ReceivePayment(i) /\ since' = [since EXCEPT ![dev[i]] = -1]
  BY <1>0, DeviceSince
<1>4. /\ reply' = reply \/ reply' = [reply EXCEPT ![i] = NoReply]
      /\ SendStart(i) => reply' = reply
  BY DEF DeviceStep, SendStart, ReceiveLocation, SendClose, ReceivePayment, GiveUp,
     Disconnect, Reset, Leave
\* A payment is read, or lost with the connection.
<1>5. CASE HasPayment(i) /\ reply' # reply
  <2>1. dev[i] \in Device
    BY <1>0, <1>5 DEF NetInv, HasPayment
  <2> PICK m \in Device : m = dev[i]
    BY <2>1
  <2>2. ~HasPayment(i)' /\ \A j \in Slot : j # i => reply'[j] = reply[j]
    BY <1>4, <1>5, <1>0, NetTypes DEF HasPayment
  <2>3. \A j \in Slot : HasPayment(j) /\ dev[j] = m => j = i
    BY <1>0, <1>5 DEF NetInv, HasPayment
  <2>4. Outstanding(m) # {}
    BY <1>0, <1>5, AlwaysBillIs DEF BillIs
  <2>5. Outstanding(m)' = {}
    <3>1. \A j \in Slot : HasPayment(j)' => dev'[j] # m
      BY <1>1, <2>2, <2>3 DEF HasPayment
    <3>2. QED
      BY <1>0, <3>1, NextBillIs DEF BillIs
  <2>6. MeterOthers(m)
    <3>1. ASSUME NEW d \in Device \ {m}
          PROVE  SameBill(d)
      BY <1>0, <1>1, <2>2, SameBillIf DEF HasPayment
    <3>2. QED
      BY <1>2, <3>1 DEF MeterOthers
  <2>7. CASE since' = since
    BY <1>1, <1>2, <2>4, <2>5, <2>6, <2>7, MeterLeaves DEF Meter!Next
  <2>8. CASE since' = [since EXCEPT ![m] = -1]
    BY <1>1, <1>2, <2>4, <2>5, <2>6, <2>8, MeterPays DEF Meter!Next
  <2>9. QED
    BY <1>3, <1>4, <1>5, <2>7, <2>8
<1>6. CASE ~HasPayment(i) \/ reply' = reply
  <2>1. \A m \in Device : SameBill(m)
    <3>1. ~HasPayment(i)' \/ reply' = reply
      BY <1>0, <1>4, NetTypes DEF HasPayment
    <3>2. \A j \in Slot : HasPayment(j) \/ HasPayment(j)' =>
            HasPayment(j) /\ HasPayment(j)' /\ reply'[j] = reply[j] /\ dev'[j] = dev[j]
      BY <1>0, <1>1, <1>4, <1>6, <3>1, NetTypes DEF HasPayment
    <3>3. QED
      BY <1>0, <3>2, SameBillIf
  <2>2. ~ReceivePayment(i)
    <3>1. ASSUME ReceivePayment(i)
          PROVE  HasPayment(i) /\ ~HasPayment(i)'
      BY <1>0, <3>1, NetTypes DEF ReceivePayment, HasPayment
    <3>2. QED
      BY <1>6, <3>1 DEF HasPayment
  <2>3. CASE since' = since
    BY <1>1, <1>2, <2>1, <2>3, MeterStutters
  <2>4. ASSUME dev[i] \in Device, since[dev[i]] = -1, since' = [since EXCEPT ![dev[i]] = now]
        PROVE  [Meter!Next]_Meter!vars
    <3>1. PICK m \in Device : m = dev[i]
      BY <2>4
    <3>2. Meter!Ask(m)
      BY <1>1, <1>2, <2>1, <2>4, <3>1, MeterAsks
    <3>3. QED
      BY <3>2 DEF Meter!Next
  <2>5. QED
    BY <1>3, <2>2, <2>3, <2>4
<1>7. QED
  BY <1>5, <1>6

LEMMA TickStep ==
    ASSUME ServerInv, ServerInv', Remember, Tick
    PROVE  Meter!Tick
<1>1. UNCHANGED <<your_table, pc, dev, reply, since>> /\ now' = now + 1
  BY DEF Tick, serverVars, netVars
<1>2. \A m \in Device : SameMeter(m) /\ SameBilled(m) /\ SameBill(m)
  BY <1>1, SameMeterIf, SameAccounts DEF ServerInv, Known
<1>3. QED
  BY <1>1, <1>2 DEF Meter!Tick, SameMeter, SameBilled, SameBill
-----------------------------------------------------------------------------
(* The refinement.                                                          *)

LEMMA InitMeter == MeterInit => Meter!Init
<1>1. ASSUME MeterInit
      PROVE  /\ now = 0 /\ since = [m \in Device |-> -1]
             /\ \A m \in Device : your_table[m] = <<>>
             /\ \A i \in Slot : pc[i] = "none" /\ reply[i] = NoReply
  BY <1>1 DEF MeterInit, Init, ServerInit, NetInit
<1>2. ASSUME MeterInit, NEW m \in Device
      PROVE  /\ Metered(m) = {}
             /\ AboutToRemove(m) = FALSE
             /\ Outstanding(m) = {}
  BY <1>1, <1>2 DEF Metered, AboutToRemove, Outstanding
<1>3. QED
  BY <1>1, <1>2 DEF Meter!Init

LEMMA NextMeter ==
    ASSUME Orderly, ServerInv, ServerInv', BeganInv, [MeterNext]_<<vars, meterVars>>
    PROVE  [Meter!Next]_Meter!vars
<1>1. CASE UNCHANGED <<vars, meterVars>>
  BY <1>1 DEF vars, serverVars, netVars, meterVars, Meter!vars, Metered, AboutToRemove,
     Outstanding
<1>2. CASE Next /\ Remember
  <2>0. Remember /\ "dberr" \notin Faults
    BY <1>2 DEF Orderly
  <2>1. CASE Restart
    BY <2>0, <2>1, RestartStep DEF Meter!Next
  <2>2. ASSUME NEW i \in Slot, Thread(i), ~Restart
        PROVE  [Meter!Next]_Meter!vars
    BY <2>0, <2>2, ThreadStep
  <2>3. CASE DbUpdateThread
    BY <2>0, <2>3, DbStep
  <2>4. ASSUME NEW m \in Device, Connect(m)
        PROVE  [Meter!Next]_Meter!vars
    BY <2>0, <2>4, ConnectStep
  <2>5. ASSUME NEW i \in Slot, DeviceStep(i) \/ Disconnect(i) \/ Reset(i)
        PROVE  [Meter!Next]_Meter!vars
    BY <2>0, <2>5, DeviceMeterStep
  <2>6. CASE Tick
    BY <2>0, <2>6, TickStep DEF Meter!Next
  <2>7. QED
    BY <1>2, <2>1, <2>2, <2>3, <2>4, <2>5, <2>6 DEF Next, Environment, Crash
<1>3. QED
  BY <1>1, <1>2 DEF MeterNext

\* main_server.c, client_thread.c, db_update_thread_func.c: if a device stays
\* away until the thread of its old connection has ended, no message is
\* corrupted and SQLite does not fail, the server with all its threads,
\* resumptions and restarts is a parking meter: a row is made only for a START
\* that was sent, never runs ahead of the clock or back, is billed for what it
\* shows at the price of the city where it began, is not counted once it is
\* billed, and only then removed.
THEOREM RefinementTheorem ==
    ASSUME Orderly
    PROVE  MeterSpec => ImplementsMeter
<1>1. ServerInv /\ ServerInv' /\ BeganInv /\ [MeterNext]_<<vars, meterVars>>
      => [Meter!Next]_Meter!vars
  BY NextMeter
<1>2. QED
  BY <1>1, InitMeter, AlwaysBegan, PTL DEF MeterSpec, ImplementsMeter, Meter!Spec
=============================================================================
