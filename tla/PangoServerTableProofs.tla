------------------------ MODULE PangoServerTableProofs ------------------------
(***************************************************************************)
(* Theorems of PangoServer about the row of a device and the time counted  *)
(* for it, for every number of devices and slots, every period and every   *)
(* bound on the clock.  They rest on the invariants of PangoServerProofs:  *)
(* a device has one thread that has not ended (RowInv), and only such a    *)
(* thread counts time (CountInv).                                          *)
(***************************************************************************)
EXTENDS PangoServerProofs

\* The environment the theorems of this module assume: a device connects again
\* only when the thread of its old connection has ended, SQLite does not fail,
\* and no message is corrupted.  The runs server_overlap and server_corrupt
\* show what happens otherwise.
Orderly == "overlap" \notin Faults /\ "dberr" \notin Faults /\ "corrupt" \notin Faults

-----------------------------------------------------------------------------
(* The inductive invariants.                                                *)

HasRow(m) == your_table[m] # <<>>
RowOf(m) == your_table[m][1]

\* The labels of a thread that has sent the payment.
Billed == {"deleteLock", "delete", "finish", "done"}

Registers(i) == client[i].mac_address = dev[i]

\* The labels of a thread on its way to the INSERT.
BeforeRow == {"insertLock", "insert"}

\* The slot has a device whose thread has not ended.
Live(i) == dev[i] \in Device /\ pc[i] \notin {"none", "done"}

\* The memory of a slot without a connection is zero: a thread that starts on
\* it has counted nothing.
Fresh == \A i \in Slot : pc[i] = "none" => client[i] = ZeroedData

\* No thread, whatever it is doing, counts from later than what its device's
\* row says: the time it would save is at least the time saved.
TimeInv ==
    /\ \A i \in Slot : client[i].time_start_parking \in 0 .. now
    /\ \A m \in Device : HasRow(m) => RowOf(m).TIME_USED \in 0 .. now
    /\ \A i \in Slot : Live(i) /\ HasRow(dev[i]) =>
          RowOf(dev[i]).TIME_USED <= now - client[i].time_start_parking

\* A thread that found a row in the unprotected SELECT will find it again when
\* it has the mutex.
ResumeInv == \A i \in Slot : pc[i] \in {"resumeLock", "resume"} => HasRow(dev[i])

\* The device has its row, and its client thread is past reading or writing it.
Parked(i) == client[i].connected \/ pc[i] \in {"sendLocation", "setConnected"}

\* A row has a city, from the coordinates of the first START on; and from the
\* INSERT or the resumption on, client[i] holds the city and the price of the
\* row.
PriceInv ==
    /\ \A m \in Device : HasRow(m) => RowOf(m).LOCATION \in City
    /\ \A i \in Slot : pc[i] \in {"insertLock", "insert"} => client[i].location \in City
    /\ \A i \in Slot : Parked(i) =>
          /\ client[i].mac_address = dev[i]
          /\ dev[i] \in Device
          /\ HasRow(dev[i])
          /\ client[i].location = RowOf(dev[i]).LOCATION
          /\ client[i].price = PriceAt(RowOf(dev[i]).LOCATION, 0)

Known == TypeInv /\ RowInv /\ CountInv /\ Fresh

-----------------------------------------------------------------------------
(* Lemmas about the rows.                                                   *)

LEMMA RowType ==
    ASSUME TypeOK, NEW d \in Device, HasRow(d)
    PROVE  /\ RowOf(d) \in Row
           /\ DOMAIN your_table[d] = 1 .. Len(your_table[d])
           /\ 1 \in 1 .. Len(your_table[d])
<1>1. your_table[d] \in Seq(Row)
  BY DEF TypeOK
<1>2. Len(your_table[d]) \in Nat \ {0}
  BY <1>1, EmptySeq DEF HasRow
<1>3. DOMAIN your_table[d] = 1 .. Len(your_table[d])
  BY <1>1, LenProperties
<1>4. QED
  BY <1>1, <1>2, <1>3, ElementOfSeq DEF RowOf

\* UPDATE finds the rows that are there and changes their TIME_USED only.
LEMMA UpdatedRow ==
    ASSUME TypeOK, NEW m, NEW used \in Int, your_table' = Update(m, used),
           NEW d \in Device
    PROVE  /\ HasRow(d)' <=> HasRow(d)
           /\ HasRow(d) => RowOf(d)' = IF d = m THEN [RowOf(d) EXCEPT !.TIME_USED = used]
                                       ELSE RowOf(d)
<1>1. CASE d # m
  BY <1>1 DEF Update, HasRow, RowOf
<1>2. CASE d = m
  <2>1. your_table'[d] = [k \in DOMAIN your_table[d] |->
                            [your_table[d][k] EXCEPT !.TIME_USED = used]]
    BY <1>2 DEF Update
  <2>2. Len(your_table'[d]) = Len(your_table[d]) /\ your_table'[d] \in Seq(Row)
    BY UpdateRows DEF TypeOK
  <2>3. HasRow(d)' <=> HasRow(d)
    BY <2>2, EmptySeq DEF HasRow, TypeOK
  <2>4. HasRow(d) => RowOf(d)' = [RowOf(d) EXCEPT !.TIME_USED = used]
    BY <2>1, RowType DEF RowOf
  <2>5. QED
    BY <1>2, <2>3, <2>4
<1>3. QED
  BY <1>1, <1>2

\* INSERT for a device without rows makes one, with nothing used yet.
LEMMA InsertedRow ==
    ASSUME TypeOK, NEW m \in Device, ~HasRow(m), NEW location \in Location,
           your_table' = Insert(m, location), NEW d \in Device
    PROVE  /\ HasRow(d)' <=> HasRow(d) \/ d = m
           /\ d # m => your_table'[d] = your_table[d]
           /\ d = m => RowOf(d)' = [TIME_USED |-> 0, LOCATION |-> location]
<1> DEFINE r == [TIME_USED |-> 0, LOCATION |-> location]
<1>1. your_table'[d] = IF d = m THEN Append(<<>>, r) ELSE your_table[d]
  BY DEF Insert, HasRow
<1>2. Append(<<>>, r) # <<>> /\ Append(<<>>, r)[1] = r
  OBVIOUS
<1>3. QED
  BY <1>1, <1>2 DEF HasRow, RowOf

LEMMA DeletedRow ==
    ASSUME NEW m, your_table' = Delete(m), NEW d \in Device
    PROVE  /\ d = m => ~HasRow(d)'
           /\ d # m => your_table'[d] = your_table[d]
BY DEF Delete, HasRow

\* What a step can do to the table: the INSERT of a thread whose device has
\* no row, the UPDATE of a thread that leaves or of a slot that is counted,
\* the DELETE of a thread that was paid.
Counted(i) == pc[i] \in {"close", "update"} \/ client[i].connected

TableStep ==
    \/ your_table' = your_table
    \/ \E i \in Slot : /\ InsertClient(i)
                       /\ ~HasRow(dev[i])
                       /\ your_table' = Insert(dev[i], client[i].location)
    \/ \E i \in Slot : /\ Counted(i)
                       /\ your_table' = Update(client[i].mac_address,
                                               now - client[i].time_start_parking)
                       /\ now' = now
    \/ \E i \in Slot : pc[i] = "delete" /\ your_table' = Delete(dev[i])

LEMMA NextTableStep ==
    ASSUME "dberr" \notin Faults, TypeInv, RowInv, [Next]_vars
    PROVE  TableStep
<1>1. ASSUME NEW i \in Slot, Thread(i)
      PROVE  TableStep
  <2>1. CASE InsertClient(i)
    <3>1. pc[i] = "insert" /\ client[i].mac_address = dev[i]
      BY <2>1 DEF InsertClient, TypeInv, Registered, Served
    <3>2. ~HasRow(dev[i])
      <4>1. dev[i] \in Device /\ Len(your_table[dev[i]]) = 0
        BY <3>1 DEF TypeInv, Registered, RowInv, NoRowYet
      <4>2. your_table[dev[i]] \in Seq(Row)
        BY <4>1 DEF TypeInv, TypeOK
      <4>3. QED
        BY <4>1, <4>2, EmptySeq DEF HasRow
    <3>3. QED
      BY <2>1, <3>1, <3>2 DEF InsertClient, TableStep
  <2>2. CASE CloseApp(i)
    BY <2>2, NoDbError DEF CloseApp, UpdateClientData, TableStep, Counted
  <2>3. CASE UpdateLost(i)
    BY <2>3, NoDbError DEF UpdateLost, UpdateClientData, TableStep, Counted
  <2>4. CASE RemoveClient(i)
    BY <2>4, NoDbError DEF RemoveClient, TableStep, TypeInv, Registered, Served
  <2>5. CASE ~(InsertClient(i) \/ CloseApp(i) \/ UpdateLost(i) \/ RemoveClient(i))
    <3>1. your_table' = your_table
      BY <1>1, <2>5 DEF Thread, Lock, Recv, RecvError, RecvLost, Lost, CheckKnown,
         CheckNew, CheckAgain, Resume, ResumeError, InsertError, SendLocation,
         SetConnected, SendPayment, ExitLost, SendError, ExitSilently, Finish,
         BrokenPipe, Restart
    <3>2. QED
      BY <3>1 DEF TableStep
  <2>6. QED
    BY <2>1, <2>2, <2>3, <2>4, <2>5
<1>2. CASE DbUpdateThread
  <2>1. CASE DbUpdate
    <3>1. dbNext \in Slot
      BY <2>1, ConstantsAssumption DEF DbUpdate, Slot, TypeInv, TypeOK
    <3>2. QED
      BY <2>1, <3>1, NoDbError DEF DbUpdate, TableStep, Counted
  <2>2. CASE DbLock \/ DbUnlock
    BY <2>2 DEF DbLock, DbUnlock, TableStep
  <2>3. QED
    BY <1>2, <2>1, <2>2 DEF DbUpdateThread
<1>3. CASE Environment
  <2>1. your_table' = your_table
    BY <1>3 DEF Environment, Connect, DeviceStep, SendStart, ReceiveLocation, SendClose,
       ReceivePayment, GiveUp, Disconnect, Reset, Leave, Crash, Restart, Tick
  <2>2. QED
    BY <2>1 DEF TableStep
<1>4. CASE UNCHANGED vars
  BY <1>4 DEF vars, TableStep
<1>5. QED
  BY <1>1, <1>2, <1>3, <1>4 DEF Next

-----------------------------------------------------------------------------
(* Whose step it is.                                                        *)

\* A step of the thread of slot i disturbs no other slot,
Alone(i) ==
    /\ now' = now
    /\ dev' = dev
    /\ pc[i] \notin {"none", "done"}
    /\ pc'[i] # "none"
    /\ \A j \in Slot : j # i => client'[j] = client[j] /\ pc'[j] = pc[j]

\* and the clock, the database thread and a device that is connected disturb
\* none.
NoSlot ==
    /\ UNCHANGED <<client, pc, dev>>
    /\ now' \in {now, now + 1}

NextStep ==
    \/ \E i \in Slot : Thread(i) /\ Alone(i)
    \/ \E m \in Device : Connect(m)
    \/ Restart
    \/ NoSlot

LEMMA ThreadAlone ==
    ASSUME TypeInv, NEW i \in Slot, Thread(i), ~BrokenPipe(i)
    PROVE  Alone(i)
<1> USE DEF Alone, Live, Unlock, Goto, netVars, TypeInv, TypeOK
<1>1. CASE Lock(i)
  BY <1>1 DEF Lock, Waiting, CriticalSection
<1>2. CASE Recv(i) \/ RecvError(i)
  BY <1>2 DEF Recv, RecvError, Process
<1>3. CASE RecvLost(i) \/ Lost(i)
  BY <1>3 DEF RecvLost, Lost
<1>4. CASE CheckKnown(i) \/ CheckNew(i) \/ CheckAgain(i)
  BY <1>4 DEF CheckKnown, CheckNew, CheckAgain
<1>5. CASE Resume(i) \/ ResumeError(i)
  BY <1>5 DEF Resume, ResumeError
<1>6. CASE InsertClient(i) \/ InsertError(i)
  BY <1>6 DEF InsertClient, InsertError
<1>7. CASE SendLocation(i) \/ SetConnected(i)
  BY <1>7 DEF SendLocation, SetConnected
<1>8. CASE CloseApp(i) \/ SendPayment(i) \/ RemoveClient(i)
  BY <1>8 DEF CloseApp, SendPayment, RemoveClient
<1>9. CASE ExitLost(i) \/ UpdateLost(i) \/ SendError(i) \/ ExitSilently(i) \/ Finish(i)
  BY <1>9 DEF ExitLost, UpdateLost, SendError, ExitSilently, Finish
<1>10. QED
  BY <1>1, <1>2, <1>3, <1>4, <1>5, <1>6, <1>7, <1>8, <1>9 DEF Thread

LEMMA NextSteps ==
    ASSUME TypeInv, [Next]_vars
    PROVE  NextStep
<1> USE DEF NextStep, NoSlot
<1>1. ASSUME NEW i \in Slot, Thread(i)
      PROVE  NextStep
  BY <1>1, ThreadAlone DEF BrokenPipe
<1>2. CASE DbUpdateThread \/ UNCHANGED vars
  BY <1>2 DEF DbUpdateThread, DbLock, DbUpdate, DbUnlock, vars, serverVars, netVars
<1>3. CASE Environment
  <2>1. ASSUME NEW i \in Slot, DeviceStep(i) \/ Disconnect(i) \/ Reset(i)
        PROVE  NoSlot
    BY <2>1 DEF DeviceStep, SendStart, ReceiveLocation, SendClose, ReceivePayment,
                GiveUp, Disconnect, Reset, Leave, serverVars
  <2>2. CASE Tick
    BY <2>2 DEF Tick, serverVars, netVars
  <2>3. QED
    BY <1>3, <2>1, <2>2 DEF Environment, Crash
<1>4. QED
  BY <1>1, <1>2, <1>3 DEF Next

\* Accepting a connection puts its thread on a slot that was never used.
LEMMA ConnectSlot ==
    ASSUME TypeInv, Fresh, NEW m \in Device, Connect(m)
    PROVE  /\ accepted \in Slot
           /\ pc[accepted] = "none"
           /\ client[accepted] = ZeroedData
           /\ UNCHANGED <<now, client, your_table>>
           /\ \A j \in Slot : /\ pc'[j] = IF j = accepted THEN "recv" ELSE pc[j]
                              /\ dev'[j] = IF j = accepted THEN m ELSE dev[j]
<1>1. accepted \in Slot
  BY ConstantsAssumption DEF Connect, TypeInv, TypeOK, Slot
<1>2. pc[accepted] = "none"
  BY <1>1, ConstantsAssumption DEF TypeInv, Registered, Slot
<1>3. client[accepted] = ZeroedData
  BY <1>1, <1>2 DEF Fresh
<1>4. UNCHANGED <<now, client, your_table>>
  BY DEF Connect
<1>5. \A j \in Slot : /\ pc'[j] = IF j = accepted THEN "recv" ELSE pc[j]
                      /\ dev'[j] = IF j = accepted THEN m ELSE dev[j]
  BY <1>1 DEF Connect, TypeInv, TypeOK
<1>6. QED
  BY <1>1, <1>2, <1>3, <1>4, <1>5

LEMMA NetTypes ==
    ASSUME TypeInv
    PROVE  /\ client \in [Slot -> pango_data]
           /\ pc \in [Slot -> PC]
           /\ status \in [Slot -> AppStatus]
           /\ checked_database \in [Slot -> BOOLEAN]
           /\ end_time \in [Slot -> Nat]
           /\ client_data_buff \in [Slot -> Message \cup {NoMsg}]
           /\ dev \in [Slot -> Device \cup {NoDevice}]
           /\ phase \in [Slot -> {"closed", "open", "starting", "parked", "closing"}]
           /\ inbox \in [Slot -> Message \cup {NoMsg}]
           /\ reply \in [Slot -> Reply \cup {NoReply}]
           /\ link \in [Slot -> {"none", "up", "fin", "reset", "dead", "closed"}]
           /\ since \in [Device -> Nat \cup {-1}]
           /\ now \in Nat
BY DEF TypeInv, TypeOK

\* A thread that has sent the payment ends, and a MAC address that was stored
\* stays; a right message stores it.
LEMMA ThreadGoesOn ==
    ASSUME TypeInv, CountInv, "dberr" \notin Faults, NEW i \in Slot, Thread(i), ~Restart
    PROVE  /\ pc[i] \in Billed => pc'[i] \in Billed
           /\ SendPayment(i) => pc'[i] \in Billed
           /\ Registers(i) => Registers(i)'
           /\ Recv(i) \/ Resume(i) => Registers(i)'
<1> USE NetTypes DEF netVars, Registers, Billed, Goto, Unlock
<1> DEFINE Goes == /\ pc[i] \in Billed => pc'[i] \in Billed
                   /\ Registers(i) => Registers(i)'
<1>1. ASSUME Recv(i)
      PROVE  Goes /\ Registers(i)'
  <2>1. Right(inbox[i])
    BY <1>1 DEF Recv, CountInv, Right
  <2>2. QED
    BY <1>1, <2>1 DEF Recv, Process, Right, pango_data
<1>2. ASSUME RecvError(i)
      PROVE  Goes
  BY <1>2 DEF RecvError, Process, pango_data
<1>3. ASSUME Resume(i)
      PROVE  Goes /\ Registers(i)'
  <2>1. Registers(i)
    BY <1>3 DEF Resume, TypeInv, Registered, Served
  <2>2. client'[i].mac_address = client[i].mac_address
    BY <1>3 DEF Resume, Priced, Located, Continued, pango_data
  <2>3. QED
    BY <1>3, <2>1, <2>2 DEF Resume
<1>4. ASSUME Lost(i) \/ SetConnected(i)
      PROVE  Goes
  BY <1>4 DEF Lost, SetConnected, pango_data
<1>5. ASSUME CloseApp(i)
      PROVE  Goes
  BY <1>5 DEF CloseApp, pango_data
<1>6. ASSUME CheckNew(i)
      PROVE  Goes
  BY <1>6 DEF CheckNew, pango_data
<1>7. ASSUME InsertClient(i)
      PROVE  Goes
  BY <1>7 DEF InsertClient, Priced, pango_data
<1>8. ASSUME ResumeError(i) \/ InsertError(i)
      PROVE  Goes
  BY <1>8, NoDbError DEF ResumeError, InsertError
<1>9. ASSUME Lock(i)
      PROVE  Goes
  BY <1>9 DEF Lock, Waiting, CriticalSection
<1>10. ASSUME SendPayment(i)
       PROVE  Goes /\ pc'[i] \in Billed
  BY <1>10 DEF SendPayment
<1>11. ASSUME CheckKnown(i) \/ CheckAgain(i) \/ RecvLost(i) \/ RemoveClient(i)
            \/ ExitLost(i) \/ UpdateLost(i) \/ ExitSilently(i) \/ Finish(i)
            \/ SendLocation(i) \/ SendError(i)
      PROVE  Goes
  BY <1>11 DEF CheckKnown, CheckAgain, RecvLost, RemoveClient, ExitLost, UpdateLost,
     ExitSilently, Finish, SendLocation, SendError
<1>12. QED
  <2> HIDE DEF Registers, Billed
  <2>1. Goes
    BY <1>1, <1>2, <1>3, <1>4, <1>5, <1>6, <1>7, <1>8, <1>9, <1>10, <1>11 DEF Thread, BrokenPipe
  <2>2. QED
    BY <1>1, <1>3, <1>10, <2>1

LEMMA InitFresh == Init => Fresh
BY DEF Init, ServerInit, Fresh

LEMMA NextFresh ==
    ASSUME TypeInv, Fresh, [Next]_vars
    PROVE  Fresh'
<1>1. ASSUME NEW i \in Slot, Alone(i)
      PROVE  Fresh'
  BY <1>1 DEF Alone, Fresh
<1>2. ASSUME NEW m \in Device, Connect(m)
      PROVE  Fresh'
  BY <1>2, ConnectSlot DEF Fresh
<1>3. CASE Restart
  BY <1>3 DEF Restart, Fresh
<1>4. CASE NoSlot
  BY <1>4 DEF NoSlot, Fresh
<1>5. QED
  BY <1>1, <1>2, <1>3, <1>4, NextSteps DEF NextStep

\* What the proofs below know of every state.
LEMMA AlwaysKnown ==
    ASSUME Orderly
    PROVE  Spec => []Known
<1>1. TypeInv /\ Fresh /\ [Next]_vars => Fresh'
  BY NextFresh
<1>2. Spec => []Fresh
  BY <1>1, InitFresh, AlwaysTypeInv, PTL DEF Spec
<1>3. Spec => []RowInv /\ []CountInv
  BY AlwaysRowInv, AlwaysCountInv DEF Orderly
<1>4. QED
  BY <1>2, <1>3, AlwaysTypeInv, PTL DEF Known

-----------------------------------------------------------------------------
(* The row of a device, from one state to the next.                         *)

\* Time is only saved for the device of a thread that has not ended.
LEMMA CountedLive ==
    ASSUME Known, NEW i \in Slot, Counted(i)
    PROVE  /\ Live(i)
           /\ dev[i] \in Device
           /\ \A d \in Device : d = client[i].mac_address => d = dev[i]
<1>1. ~ZeroedData.connected
  BY DEF ZeroedData
<1>2. Live(i)
  BY <1>1 DEF Known, TypeInv, Registered, Fresh, CountInv, Counted, Live, Left
<1>3. QED
  BY <1>2, ConstantsAssumption DEF Known, TypeInv, Registered, Live

RowStep(d) ==
    \/ HasRow(d) /\ RowOf(d)' = RowOf(d)
    \/ \E i \in Slot : /\ InsertClient(i)
                       /\ d = dev[i]
                       /\ ~HasRow(d)
                       /\ RowOf(d)' = [TIME_USED |-> 0, LOCATION |-> client[i].location]
    \/ \E i \in Slot : /\ Counted(i)
                       /\ d = dev[i]
                       /\ d = client[i].mac_address
                       /\ HasRow(d)
                       /\ RowOf(d)' = [RowOf(d) EXCEPT !.TIME_USED =
                                         now - client[i].time_start_parking]
                       /\ now' = now

LEMMA NextRowStep ==
    ASSUME "dberr" \notin Faults, Known, [Next]_vars, NEW d \in Device, HasRow(d)'
    PROVE  RowStep(d)
<1>0. TypeOK /\ TypeInv /\ RowInv
  BY DEF Known, TypeInv
<1>1. CASE your_table' = your_table
  BY <1>1 DEF RowStep, HasRow, RowOf
<1>2. ASSUME NEW i \in Slot, InsertClient(i), ~HasRow(dev[i]),
             your_table' = Insert(dev[i], client[i].location)
      PROVE  RowStep(d)
  <2>1. dev[i] \in Device
    BY <1>0, <1>2 DEF InsertClient, TypeInv, Registered
  <2>2. client[i].location \in Location
    BY <1>0 DEF TypeOK, pango_data
  <2>3. QED
    BY <1>0, <1>2, <2>1, <2>2, InsertedRow DEF RowStep, HasRow, RowOf
<1>3. ASSUME NEW i \in Slot, Counted(i), now' = now,
             your_table' = Update(client[i].mac_address,
                                  now - client[i].time_start_parking)
      PROVE  RowStep(d)
  <2>1. now - client[i].time_start_parking \in Int
    BY <1>0 DEF TypeOK, pango_data
  <2>2. /\ HasRow(d)
        /\ RowOf(d)' = IF d = client[i].mac_address
                       THEN [RowOf(d) EXCEPT !.TIME_USED =
                               now - client[i].time_start_parking]
                       ELSE RowOf(d)
    BY <1>0, <1>3, <2>1, UpdatedRow
  <2>3. d = client[i].mac_address => d = dev[i]
    BY <1>3, CountedLive
  <2>4. QED
    BY <1>3, <2>2, <2>3 DEF RowStep
<1>4. ASSUME NEW i \in Slot, your_table' = Delete(dev[i])
      PROVE  RowStep(d)
  BY <1>4, DeletedRow DEF RowStep, HasRow, RowOf
<1>5. QED
  BY <1>0, <1>1, <1>2, <1>3, <1>4, NextTableStep DEF TableStep

\* A row goes only when the thread of its device deletes it.
LEMMA RowStays ==
    ASSUME "dberr" \notin Faults, Known, [Next]_vars, NEW d \in Device, HasRow(d),
           \A i \in Slot : dev[i] = d => pc[i] # "delete"
    PROVE  HasRow(d)'
<1>0. TypeOK /\ TypeInv /\ RowInv
  BY DEF Known, TypeInv
<1>1. ASSUME NEW i \in Slot, InsertClient(i), ~HasRow(dev[i]),
             your_table' = Insert(dev[i], client[i].location)
      PROVE  HasRow(d)'
  <2>1. dev[i] \in Device /\ client[i].location \in Location
    BY <1>0, <1>1 DEF InsertClient, TypeInv, Registered, TypeOK, pango_data
  <2>2. QED
    BY <1>0, <1>1, <2>1, InsertedRow
<1>2. ASSUME NEW i \in Slot,
             your_table' = Update(client[i].mac_address,
                                  now - client[i].time_start_parking)
      PROVE  HasRow(d)'
  <2>1. now - client[i].time_start_parking \in Int
    BY <1>0 DEF TypeOK, pango_data
  <2>2. QED
    BY <1>0, <1>2, <2>1, UpdatedRow
<1>3. ASSUME NEW i \in Slot, pc[i] = "delete", your_table' = Delete(dev[i])
      PROVE  HasRow(d)'
  BY <1>3, DeletedRow DEF HasRow
<1>4. QED
  BY <1>0, <1>1, <1>2, <1>3, NextTableStep DEF TableStep, HasRow

\* Two threads that have not ended are threads of different devices.
LEMMA OnlyThread ==
    ASSUME Known, NEW i \in Slot, NEW j \in Slot, Live(i), Live(j), dev[i] = dev[j]
    PROVE  i = j
BY DEF Known, RowInv, OneLive, Live

LEMMA InitResume == Init => ResumeInv
BY DEF Init, ServerInit, ResumeInv

LEMMA NextResume ==
    ASSUME "dberr" \notin Faults, Known, ResumeInv, [Next]_vars
    PROVE  ResumeInv'
<1>0. TypeInv /\ Fresh
  BY DEF Known
<1> USE DEF ResumeInv
\* The row a thread is going to find stays: the one thread that could delete
\* it is the thread itself.
<1>1. ASSUME NEW j \in Slot, pc[j] \in {"resumeLock", "resume"}
      PROVE  your_table'[dev[j]] # <<>>
  <2>1. Live(j) /\ dev[j] \in Device /\ HasRow(dev[j])
    BY <1>0, <1>1 DEF Live, TypeInv, Registered
  <2>2. ASSUME NEW i \in Slot, dev[i] = dev[j]
        PROVE  pc[i] # "delete"
    BY <2>1, <2>2, <1>1, OnlyThread DEF Live
  <2>3. PICK d \in Device : d = dev[j]
    BY <2>1
  <2>4. HasRow(d)'
    BY <2>1, <2>2, <2>3, RowStays
  <2>5. QED
    BY <2>3, <2>4 DEF HasRow
<1>2. ASSUME NEW i \in Slot, Thread(i), Alone(i), pc'[i] \in {"resumeLock", "resume"},
             pc[i] \notin {"resumeLock", "resume"}
      PROVE  your_table'[dev[i]] # <<>>
  <2>1. CheckKnown(i)
    <3> USE <1>2 DEF Goto, Unlock, TypeInv, TypeOK
    <3>1. ~Lock(i)
      BY <1>0 DEF Lock, Waiting, CriticalSection
    <3>2. ~(Recv(i) \/ RecvError(i))
      BY <1>0 DEF Recv, RecvError, Process
    <3>3. ~(CheckNew(i) \/ CheckAgain(i) \/ RecvLost(i) \/ Lost(i) \/ Resume(i) \/ ResumeError(i))
      BY <1>0 DEF CheckNew, CheckAgain, RecvLost, Lost, Resume, ResumeError
    <3>4. ~(InsertClient(i) \/ InsertError(i) \/ SendLocation(i) \/ SetConnected(i))
      BY <1>0 DEF InsertClient, InsertError, SendLocation, SetConnected
    <3>5. ~(CloseApp(i) \/ SendPayment(i) \/ RemoveClient(i) \/ ExitLost(i) \/ UpdateLost(i))
      BY <1>0 DEF CloseApp, SendPayment, RemoveClient, ExitLost, UpdateLost
    <3>6. ~(SendError(i) \/ ExitSilently(i) \/ Finish(i) \/ BrokenPipe(i))
      BY <1>0 DEF SendError, ExitSilently, Finish, BrokenPipe, Restart
    <3>7. QED
      BY <3>1, <3>2, <3>3, <3>4, <3>5, <3>6 DEF Thread
  <2>2. QED
    BY <1>0, <2>1 DEF CheckKnown, TypeInv, Registered, Served
<1>3. ASSUME NEW i \in Slot, Thread(i), Alone(i)
      PROVE  ResumeInv'
  BY <1>1, <1>2, <1>3 DEF Alone, HasRow
<1>4. ASSUME NEW m \in Device, Connect(m)
      PROVE  ResumeInv'
  BY <1>0, <1>1, <1>4, ConnectSlot DEF HasRow
<1>5. CASE Restart
  BY <1>5 DEF Restart
<1>6. CASE NoSlot
  BY <1>1, <1>6 DEF NoSlot, HasRow
<1>7. QED
  BY <1>0, <1>3, <1>4, <1>5, <1>6, NextSteps DEF NextStep

-----------------------------------------------------------------------------
(* Time that was saved is never lost.                                       *)

\* Only CheckNew and Resume move the start of a count.
LEMMA StartKept ==
    ASSUME TypeInv, "dberr" \notin Faults, NEW i \in Slot, Thread(i), ~Restart,
           ~CheckNew(i), ~Resume(i)
    PROVE  client'[i].time_start_parking = client[i].time_start_parking
<1> USE DEF netVars
<1>1. client \in [Slot -> pango_data]
  BY DEF TypeInv, TypeOK
<1>2. CASE Recv(i) \/ RecvError(i)
  BY <1>1, <1>2 DEF Recv, RecvError, Process, pango_data
<1>3. CASE Lost(i) \/ SetConnected(i) \/ CloseApp(i)
  BY <1>1, <1>3 DEF Lost, SetConnected, CloseApp, pango_data
<1>4. CASE InsertClient(i)
  BY <1>1, <1>4 DEF InsertClient, Priced, pango_data
<1>5. CASE ResumeError(i) \/ InsertError(i)
  BY <1>5, NoDbError DEF ResumeError, InsertError
<1>6. CASE \/ Lock(i) \/ RecvLost(i) \/ CheckKnown(i) \/ CheckAgain(i)
           \/ SendLocation(i) \/ SendPayment(i) \/ RemoveClient(i)
           \/ ExitLost(i) \/ UpdateLost(i) \/ SendError(i) \/ ExitSilently(i)
           \/ Finish(i)
  BY <1>6 DEF Lock, RecvLost, CheckKnown, CheckAgain, SendLocation, SendPayment,
     RemoveClient, ExitLost, UpdateLost, SendError, ExitSilently, Finish
<1>7. QED
  BY <1>2, <1>3, <1>4, <1>5, <1>6 DEF Thread, BrokenPipe

\* A new client has no row, and its count starts now.
LEMMA CheckNewStarts ==
    ASSUME TypeInv, "dberr" \notin Faults, NEW i \in Slot, CheckNew(i)
    PROVE  /\ ~HasRow(dev[i])
           /\ your_table' = your_table
           /\ client'[i].time_start_parking = now
<1>1. client \in [Slot -> pango_data] /\ client[i].mac_address = dev[i]
  BY DEF CheckNew, TypeInv, TypeOK, Registered, Served
<1>2. QED
  BY <1>1, NoDbError DEF CheckNew, HasRow, pango_data

\* What a resumption leaves in client[i]: the count goes on from what the row
\* says was used, at the city and the price of the row.
LEMMA Resumed ==
    ASSUME TypeInv, "dberr" \notin Faults, NEW i \in Slot, Resume(i), HasRow(dev[i])
    PROVE  /\ your_table' = your_table
           /\ dev[i] \in Device
           /\ client'[i] = [client[i] EXCEPT
                !.time_start_parking = now - RowOf(dev[i]).TIME_USED,
                !.connected = TRUE,
                !.location = RowOf(dev[i]).LOCATION,
                !.price = PriceAt(RowOf(dev[i]).LOCATION, client[i].price)]
<1>1. client[i] \in pango_data /\ client[i].mac_address = dev[i] /\ dev[i] \in Device
  BY DEF Resume, TypeInv, TypeOK, Registered, Served
<1>2. client' = [client EXCEPT ![i] = Priced(Located(i, Selects), Selects)]
  BY NoDbError DEF Resume, Got
<1>3. client'[i] = Priced(Located(i, Selects), Selects)
  BY <1>2 DEF TypeInv, TypeOK
<1> DEFINE c == [client[i] EXCEPT
                   !.time_start_parking = now - RowOf(dev[i]).TIME_USED,
                   !.connected = TRUE]
<1>4. Continued(i, Selects) = c
  BY <1>1 DEF Continued, Selects, HasRow, RowOf
<1>5. Located(i, Selects) = [c EXCEPT !.location = RowOf(dev[i]).LOCATION]
  BY <1>1, <1>4 DEF Located, Selects, HasRow, RowOf
<1>6. QED
  BY <1>1, <1>3, <1>5 DEF Priced, Selects, Resume, pango_data

LEMMA InitTime == Init => TimeInv
<1>1. ZeroedData.time_start_parking = 0
  BY DEF ZeroedData
<1>2. ASSUME Init
      PROVE  /\ now = 0
             /\ \A i \in Slot : client[i] = ZeroedData /\ pc[i] = "none"
             /\ \A m \in Device : your_table[m] = <<>>
  BY <1>2 DEF Init, ServerInit
<1>3. QED
  BY <1>1, <1>2 DEF TimeInv, HasRow, Live

\* Only a first START, a resumption and a restart move the start of a count;
\* the rest is the clock and the rows.
LEMMA NextTime ==
    ASSUME "dberr" \notin Faults, Known, ResumeInv, TimeInv, [Next]_vars
    PROVE  TimeInv'
<1>0. TypeInv /\ Fresh /\ now \in Nat
  BY DEF Known, TypeInv, TypeOK
<1>z. ZeroedData.time_start_parking = 0
  BY DEF ZeroedData
<1>n. now' \in {now, now + 1} /\ now' \in Nat
  BY <1>0, NextSteps, ConnectSlot DEF NextStep, Alone, NoSlot, Restart
<1>1. ASSUME NEW i \in Slot, Resume(i)
      PROVE  /\ HasRow(dev[i])
             /\ dev[i] \in Device
             /\ RowOf(dev[i]).TIME_USED \in 0 .. now
             /\ your_table' = your_table
             /\ client'[i].time_start_parking = now - RowOf(dev[i]).TIME_USED
  <2>1. HasRow(dev[i])
    BY <1>1 DEF Resume, ResumeInv
  <2>2. client[i] \in pango_data
    BY <1>0 DEF TypeInv, TypeOK
  <2>3. QED
    BY <1>0, <1>1, <2>1, <2>2, Resumed DEF TimeInv, pango_data
\* The start of a count is in the past.
<1>2. \A j \in Slot : client'[j].time_start_parking \in 0 .. now'
  <2>1. ASSUME NEW i \in Slot, Thread(i), Alone(i), ~Restart
        PROVE  client'[i].time_start_parking \in 0 .. now
    <3>1. CASE CheckNew(i)
      BY <1>0, <3>1, CheckNewStarts
    <3>2. CASE Resume(i)
      BY <1>0, <1>1, <3>2
    <3>3. CASE ~CheckNew(i) /\ ~Resume(i)
      BY <1>0, <2>1, <3>3, StartKept DEF TimeInv
    <3>4. QED
      BY <3>1, <3>2, <3>3
  <2>2. CASE Restart
    BY <1>z, <1>n, <2>2 DEF Restart
  <2>3. QED
    BY <1>0, <1>n, <2>1, <2>2, NextSteps, ConnectSlot DEF NextStep, Alone, NoSlot, TimeInv
\* The time of a row has passed.
<1>3. ASSUME NEW d \in Device, HasRow(d)'
      PROVE  RowOf(d)'.TIME_USED \in 0 .. now'
  <2>1. HasRow(d) => RowOf(d) \in Row /\ RowOf(d).TIME_USED \in 0 .. now
    BY <1>0, RowType DEF TimeInv, TypeInv
  <2>2. \A i \in Slot : now - client[i].time_start_parking \in 0 .. now
    BY <1>0 DEF TimeInv
  <2>3. QED
    BY <1>0, <1>3, <1>n, <2>1, <2>2, NextRowStep DEF RowStep, Row
\* A thread that keeps its count keeps it ahead of the row, whoever writes it.
<1>k. ASSUME NEW j \in Slot, Live(j), NEW d \in Device, d = dev[j], HasRow(d)',
             client'[j].time_start_parking = client[j].time_start_parking
      PROVE  RowOf(d)'.TIME_USED <= now' - client'[j].time_start_parking
  <2> DEFINE start == client[j].time_start_parking
  <2>1. start \in Nat /\ start <= now
    BY <1>0 DEF TimeInv
  <2>2. CASE HasRow(d) /\ RowOf(d)' = RowOf(d)
    <3>1. RowOf(d) \in Row /\ RowOf(d).TIME_USED <= now - start
      BY <1>0, <1>k, <2>2, RowType DEF TimeInv, TypeInv
    <3>2. QED
      BY <1>0, <1>n, <1>k, <2>1, <2>2, <3>1 DEF Row
  <2>3. CASE RowOf(d)'.TIME_USED = 0
    BY <1>0, <1>n, <1>k, <2>1, <2>3
  <2>4. ASSUME NEW i \in Slot, Counted(i), d = dev[i], HasRow(d), now' = now,
               RowOf(d)' = [RowOf(d) EXCEPT !.TIME_USED = now - client[i].time_start_parking]
        PROVE  RowOf(d)'.TIME_USED <= now' - client'[j].time_start_parking
    <3>1. i = j
      BY <1>k, <2>4, CountedLive, OnlyThread
    <3>2. RowOf(d) \in Row
      BY <1>0, <2>4, RowType DEF TypeInv
    <3>3. RowOf(d)'.TIME_USED = now - start
      BY <2>4, <3>1, <3>2 DEF Row
    <3>4. QED
      BY <1>0, <1>k, <2>1, <2>4, <3>3
  <2>5. RowStep(d)
    BY <1>k, NextRowStep
  <2>6. QED
    BY <2>2, <2>3, <2>4, <2>5 DEF RowStep
\* No thread that has not ended counts from later than the row of its device.
<1>4. ASSUME NEW j \in Slot, Live(j)', NEW d \in Device, d = dev'[j], HasRow(d)'
      PROVE  RowOf(d)'.TIME_USED <= now' - client'[j].time_start_parking
  <2>1. ASSUME NEW i \in Slot, Thread(i), Alone(i), ~Restart
        PROVE  RowOf(d)'.TIME_USED <= now' - client'[j].time_start_parking
    <3>1. Live(j) /\ dev[j] = d /\ now' = now
      BY <1>4, <2>1 DEF Alone, Live
    <3>2. CASE CheckNew(j)
      BY <1>4, <3>1, <3>2, CheckNewStarts, <1>0 DEF HasRow
    <3>3. CASE Resume(j)
      <4>1. /\ RowOf(d)'.TIME_USED \in 0 .. now
            /\ client'[j].time_start_parking = now - RowOf(d)'.TIME_USED
        BY <1>1, <3>1, <3>3 DEF RowOf
      <4>2. QED
        BY <1>0, <3>1, <4>1
    <3>4. CASE ~CheckNew(j) /\ ~Resume(j)
      <4>1. client'[j].time_start_parking = client[j].time_start_parking
        BY <1>0, <2>1, <3>4, StartKept DEF Alone
      <4>2. QED
        BY <1>4, <1>k, <3>1, <4>1
    <3>5. QED
      BY <3>2, <3>3, <3>4
  <2>2. CASE Restart
    BY <1>4, <2>2 DEF Restart, Live
  <2>3. ASSUME NEW m \in Device, Connect(m)
        PROVE  RowOf(d)'.TIME_USED <= now' - client'[j].time_start_parking
    <3>1. HasRow(d) /\ RowOf(d)' = RowOf(d) /\ now' = now /\ client' = client
      BY <1>0, <1>4, <2>3, ConnectSlot DEF HasRow, RowOf
    <3>2. CASE j = accepted
      BY <1>0, <1>z, <2>3, <3>1, <3>2, ConnectSlot DEF TimeInv
    <3>3. CASE j # accepted
      BY <1>0, <1>4, <2>3, <3>1, <3>3, ConnectSlot DEF TimeInv, Live
    <3>4. QED
      BY <3>2, <3>3
  <2>4. CASE NoSlot
    BY <1>4, <1>k, <2>4 DEF NoSlot, Live
  <2>5. QED
    BY <1>0, <2>1, <2>2, <2>3, <2>4, NextSteps DEF NextStep
<1>5. \A j \in Slot : Live(j)' => dev'[j] \in Device
  <2>1. TypeInv'
    BY <1>0, NextTypeInv
  <2>2. QED
    BY <2>1 DEF TypeInv, Registered, Live
<1>6. QED
  BY <1>2, <1>3, <1>4, <1>5 DEF TimeInv, HasRow, RowOf

LEMMA AlwaysTimeInv ==
    ASSUME Orderly
    PROVE  Spec => [](ResumeInv /\ TimeInv)
<1>1. ResumeInv /\ Known /\ [Next]_vars => ResumeInv'
  BY NextResume DEF Orderly
<1>2. Spec => []ResumeInv
  BY <1>1, InitResume, AlwaysKnown, PTL DEF Spec
<1>3. TimeInv /\ ResumeInv /\ Known /\ [Next]_vars => TimeInv'
  BY NextTime DEF Orderly
<1>4. QED
  BY <1>2, <1>3, InitTime, AlwaysKnown, PTL DEF Spec

\* A step that leaves a device its row leaves it the time it has.
LEMMA NextUsed ==
    ASSUME Orderly, Known, TimeInv, [Next]_vars,
           NEW m \in Device, HasRow(m), HasRow(m)'
    PROVE  RowOf(m)'.TIME_USED >= RowOf(m).TIME_USED
<1>1. RowOf(m) \in Row /\ RowOf(m).TIME_USED \in Int
  BY RowType DEF Known, TypeInv, Row
<1>2. ASSUME NEW i \in Slot, Counted(i), m = dev[i],
             RowOf(m)' = [RowOf(m) EXCEPT !.TIME_USED = now - client[i].time_start_parking]
      PROVE  RowOf(m)'.TIME_USED >= RowOf(m).TIME_USED
  <2>1. RowOf(m).TIME_USED <= now - client[i].time_start_parking
    BY <1>2, CountedLive DEF TimeInv
  <2>2. RowOf(m)'.TIME_USED = now - client[i].time_start_parking
    BY <1>1, <1>2 DEF Row
  <2>3. QED
    BY <1>1, <2>1, <2>2 DEF TimeInv
<1>3. RowStep(m)
  BY NextRowStep DEF Orderly
<1>4. QED
  BY <1>1, <1>2, <1>3 DEF RowStep

\* If a device stays away until the thread of its old connection has ended,
\* no message is corrupted and SQLite does not fail, the time stored for a
\* device never goes back: not through the backups of the database thread, the
\* UPDATE of a thread that leaves, a resumption, a reset or a restart.
THEOREM UsedTheorem ==
    ASSUME Orderly
    PROVE  Spec => UsedNeverDecreases
<1> DEFINE Kept(m) == your_table[m] # <<>> /\ your_table'[m] # <<>> =>
                        your_table'[m][1].TIME_USED >= your_table[m][1].TIME_USED
<1>1. ASSUME Known, TimeInv, [Next]_vars, NEW m \in Device
      PROVE  Kept(m)
  BY <1>1, NextUsed DEF HasRow, RowOf
<1>2. Known /\ TimeInv /\ [Next]_vars => [\A m \in Device : Kept(m)]_vars
  BY <1>1
<1>3. QED
  BY <1>2, AlwaysKnown, AlwaysTimeInv, PTL DEF Spec, UsedNeverDecreases

-----------------------------------------------------------------------------
(* What is counted will be charged at the price of the row.                 *)

\* A first START, a resumption and an INSERT apart, a step of a thread changes
\* neither the city nor the price of its slot.
LEMMA PriceKept ==
    ASSUME TypeInv, "dberr" \notin Faults, NEW i \in Slot, Thread(i), ~Restart,
           ~CheckNew(i), ~Resume(i), ~InsertClient(i)
    PROVE  /\ client'[i].location = client[i].location
           /\ client'[i].price = client[i].price
           /\ client'[i].mac_address \in {client[i].mac_address, dev[i]}
           /\ Parked(i)' => Parked(i)
           /\ pc'[i] \in {"insertLock", "insert"} => pc[i] \in {"insertLock", "insert"}
<1> USE DEF netVars, Parked, Goto, Unlock
<1>1. client \in [Slot -> pango_data] /\ pc \in [Slot -> PC]
  BY DEF TypeInv, TypeOK
<1>2. CASE Recv(i) \/ RecvError(i)
  BY <1>1, <1>2 DEF Recv, RecvError, Process, pango_data
<1>3. CASE Lost(i) \/ SetConnected(i) \/ CloseApp(i)
  <2>1. ASSUME NEW b \in BOOLEAN, client' = [client EXCEPT ![i].connected = b]
        PROVE  /\ client'[i].location = client[i].location
               /\ client'[i].price = client[i].price
               /\ client'[i].mac_address = client[i].mac_address
               /\ client'[i].connected = b
    BY <1>1, <2>1 DEF pango_data
  <2>2. CASE Lost(i)
    BY <1>1, <2>1, <2>2 DEF Lost
  <2>3. CASE SetConnected(i)
    BY <1>1, <2>1, <2>3 DEF SetConnected
  <2>4. CASE CloseApp(i)
    BY <1>1, <2>1, <2>4 DEF CloseApp
  <2>5. QED
    BY <1>3, <2>2, <2>3, <2>4
<1>4. CASE Lock(i)
  BY <1>1, <1>4 DEF Lock, Waiting, CriticalSection
<1>5. CASE ResumeError(i) \/ InsertError(i)
  BY <1>5, NoDbError DEF ResumeError, InsertError
<1>6. CASE \/ RecvLost(i) \/ CheckKnown(i) \/ CheckAgain(i)
           \/ SendLocation(i) \/ SendPayment(i) \/ RemoveClient(i)
           \/ ExitLost(i) \/ UpdateLost(i) \/ SendError(i) \/ ExitSilently(i)
           \/ Finish(i)
  BY <1>1, <1>6 DEF RecvLost, CheckKnown, CheckAgain, SendLocation, SendPayment,
     RemoveClient, ExitLost, UpdateLost, SendError, ExitSilently, Finish
<1>7. QED
  BY <1>2, <1>3, <1>4, <1>5, <1>6 DEF Thread, BrokenPipe

\* The city of a first START is one with a price.
LEMMA CheckNewLocates ==
    ASSUME TypeInv, NEW i \in Slot, CheckNew(i)
    PROVE  /\ client'[i].location \in City
           /\ client'[i].connected = client[i].connected
           /\ pc'[i] = "insertLock"
<1>1. client \in [Slot -> pango_data] /\ client[i].coords \in Coords \cup {<<0, 0>>}
  BY DEF TypeInv, TypeOK, pango_data
<1> DEFINE location == location_func(client[i].coords[1], client[i].coords[2])
<1>2. location \in City
  BY <1>1, LocationOfCoords
<1>3. client' = [client EXCEPT ![i] =
                   [client[i] EXCEPT !.time_start_parking = now, !.location = location]]
  BY <1>1 DEF CheckNew
<1>4. client'[i].location = location /\ client'[i].connected = client[i].connected
  <2> HIDE DEF location
  <2>1. QED
    BY <1>1, <1>3 DEF pango_data
<1>5. pc'[i] = "insertLock"
  BY DEF CheckNew, Goto, TypeInv, TypeOK
<1>6. QED
  BY <1>2, <1>4, <1>5

\* In a city with a price the SELECT of the price does not depend on what the
\* price was.
LEMMA PriceOfCity ==
    ASSUME NEW city \in City, NEW p
    PROVE  PriceAt(city, p) = PriceAt(city, 0)
BY DEF PriceAt

LEMMA InitPrice == Init => PriceInv
<1>1. ~ZeroedData.connected
  BY DEF ZeroedData
<1>2. QED
  BY <1>1 DEF Init, ServerInit, PriceInv, HasRow, Parked

LEMMA NextPrice ==
    ASSUME "dberr" \notin Faults, Known, Known', ResumeInv, PriceInv, [Next]_vars
    PROVE  PriceInv'
<1>0. TypeInv /\ TypeOK /\ Fresh /\ CountInv
  BY DEF Known, TypeInv
<1>z. ~ZeroedData.connected
  BY DEF ZeroedData
\* A row never moves to another city.
<1>1. ASSUME NEW d \in Device, HasRow(d)'
      PROVE  /\ RowOf(d)'.LOCATION \in City
             /\ HasRow(d) => RowOf(d)'.LOCATION = RowOf(d).LOCATION
  <2>1. ASSUME NEW i \in Slot, InsertClient(i)
        PROVE  client[i].location \in City
    BY <2>1 DEF InsertClient, PriceInv
  <2>2. HasRow(d) => RowOf(d) \in Row /\ RowOf(d).LOCATION \in City
    BY <1>0, RowType DEF PriceInv
  <2>3. QED
    BY <1>1, <2>1, <2>2, NextRowStep DEF RowStep, Row
\* The row of a parked device stays.
<1>2. ASSUME NEW j \in Slot, Parked(j), NEW d \in Device, d = dev[j]
      PROVE  HasRow(d)' /\ RowOf(d)'.LOCATION = RowOf(d).LOCATION
  <2>1. HasRow(d)
    BY <1>2 DEF PriceInv
  <2>2. Live(j) /\ pc[j] # "delete"
    BY <1>0, <1>z, <1>2 DEF Parked, Live, Fresh, CountInv, Left
  <2>3. ASSUME NEW i \in Slot, dev[i] = d
        PROVE  pc[i] # "delete"
    BY <1>2, <2>2, <2>3, OnlyThread DEF Live
  <2>4. HasRow(d)'
    BY <2>1, <2>3, RowStays
  <2>5. QED
    BY <1>1, <2>1, <2>4
\* So what agreed with it and was not touched still does.
<1> DEFINE AsRow(j, d) == /\ client[j].mac_address = d
                          /\ HasRow(d)
                          /\ client[j].location = RowOf(d).LOCATION
                          /\ client[j].price = PriceAt(RowOf(d).LOCATION, 0)
<1>3. ASSUME NEW j \in Slot, Parked(j), NEW d \in Device, d = dev[j],
             client'[j].mac_address \in {client[j].mac_address, d},
             client'[j].location = client[j].location,
             client'[j].price = client[j].price
      PROVE  AsRow(j, d)'
  BY <1>2, <1>3 DEF PriceInv
<1>4. ASSUME NEW i \in Slot, Thread(i), Alone(i), ~Restart,
             Parked(i)', NEW d \in Device, d = dev[i]
      PROVE  AsRow(i, d)'
  <2>1. CASE CheckNew(i)
    <3>1. Parked(i)
      BY <1>0, <1>4, <2>1, CheckNewLocates DEF Parked
    <3>2. QED
      BY <1>0, <1>4, <2>1, <3>1, CheckNewStarts DEF PriceInv
  <2>2. CASE Resume(i)
    <3>1. HasRow(dev[i])
      BY <2>2 DEF Resume, ResumeInv
    <3>2. /\ client[i] \in pango_data
          /\ client[i].mac_address = d
      BY <1>0, <1>4, <2>2 DEF Resume, TypeInv, TypeOK, Registered, Served
    <3>3. RowOf(d).LOCATION \in City
      BY <1>4, <3>1 DEF PriceInv
    <3>4. /\ client'[i].mac_address = d
          /\ client'[i].location = RowOf(d).LOCATION
          /\ client'[i].price = PriceAt(RowOf(d).LOCATION, client[i].price)
          /\ your_table' = your_table
      <4>1. /\ your_table' = your_table
            /\ client'[i] = [client[i] EXCEPT
                 !.time_start_parking = now - RowOf(d).TIME_USED,
                 !.connected = TRUE,
                 !.location = RowOf(d).LOCATION,
                 !.price = PriceAt(RowOf(d).LOCATION, client[i].price)]
        BY <1>0, <1>4, <2>2, <3>1, Resumed
      <4>2. QED
        BY <3>2, <4>1 DEF pango_data
    <3>5. QED
      BY <1>4, <3>1, <3>3, <3>4, PriceOfCity DEF HasRow, RowOf
  <2>3. CASE InsertClient(i)
    <3> DEFINE city == client[i].location
    <3>1. /\ pc[i] = "insert"
          /\ client[i] \in pango_data
          /\ client[i].mac_address = d
          /\ your_table' = Insert(d, city)
      BY <1>0, <1>4, <2>3 DEF InsertClient, TypeInv, TypeOK, Registered, Served
    <3>2. city \in City
      BY <3>1 DEF PriceInv
    <3>3. ~HasRow(d)
      <4>1. Len(your_table[d]) = 0 /\ your_table[d] \in Seq(Row)
        BY <1>0, <1>4, <3>1 DEF Known, RowInv, NoRowYet, TypeOK
      <4>2. QED
        BY <4>1, EmptySeq DEF HasRow
    <3>4. client'[i] = Priced(client[i], Selects)
      BY <1>0, <2>3, NoDbError DEF InsertClient, Got, TypeOK
    <3>5. /\ client'[i].mac_address = d
          /\ client'[i].location = city
          /\ client'[i].price = PriceAt(city, client[i].price)
      BY <3>1, <3>4 DEF Priced, Selects, pango_data
    <3>6. /\ HasRow(d)'
          /\ RowOf(d)'.LOCATION = city
      <4>1. city \in Location
        BY <3>2 DEF Location
      <4>2. HasRow(d)' /\ RowOf(d)' = [TIME_USED |-> 0, LOCATION |-> city]
        BY <1>0, <3>1, <3>3, <4>1, InsertedRow
      <4>3. QED
        BY <4>2
    <3>7. QED
      BY <3>2, <3>5, <3>6, PriceOfCity
  <2>4. CASE ~CheckNew(i) /\ ~Resume(i) /\ ~InsertClient(i)
    BY <1>0, <1>3, <1>4, <2>4, PriceKept
  <2>5. QED
    BY <2>1, <2>2, <2>3, <2>4
\* A slot whose thread waits to insert a row has a city to store in it.
<1>5. ASSUME NEW i \in Slot, Thread(i), Alone(i), ~Restart,
             pc'[i] \in {"insertLock", "insert"}
      PROVE  client'[i].location \in City
  <2>1. CASE CheckNew(i)
    BY <1>0, <2>1, CheckNewLocates
  <2>2. CASE Resume(i) \/ InsertClient(i)
    BY <1>0, <1>5, <2>2 DEF Resume, InsertClient, Unlock, Goto, TypeOK
  <2>3. CASE ~CheckNew(i) /\ ~Resume(i) /\ ~InsertClient(i)
    BY <1>0, <1>5, <2>3, PriceKept DEF PriceInv
  <2>4. QED
    BY <2>1, <2>2, <2>3
<1>6. \A j \in Slot : pc'[j] \in {"insertLock", "insert"} => client'[j].location \in City
  <2>1. CASE Restart
    BY <2>1 DEF Restart
  <2>2. CASE ~Restart
    BY <1>0, <1>5, <2>2, NextSteps, ConnectSlot DEF NextStep, Alone, NoSlot, PriceInv
  <2>3. QED
    BY <2>1, <2>2
<1>7. ASSUME NEW j \in Slot, Parked(j)', NEW d \in Device, d = dev'[j]
      PROVE  AsRow(j, d)'
  <2>1. ASSUME NEW i \in Slot, Thread(i), Alone(i), ~Restart
        PROVE  AsRow(j, d)'
    <3>1. dev[j] = d
      BY <1>7, <2>1 DEF Alone
    <3>2. CASE j = i
      BY <1>4, <1>7, <2>1, <3>1, <3>2
    <3>3. CASE j # i
      BY <1>3, <1>7, <2>1, <3>1, <3>3 DEF Alone, Parked
    <3>4. QED
      BY <3>2, <3>3
  <2>2. CASE Restart
    BY <1>z, <1>7, <2>2 DEF Restart, Parked
  <2>3. ASSUME NEW m \in Device, Connect(m)
        PROVE  AsRow(j, d)'
    <3>1. j # accepted
      BY <1>0, <1>z, <1>7, <2>3, ConnectSlot DEF Parked
    <3>2. Parked(j) /\ dev[j] = d /\ client'[j] = client[j]
      BY <1>0, <1>7, <2>3, <3>1, ConnectSlot DEF Parked
    <3>3. QED
      BY <1>3, <1>7, <3>2
  <2>4. CASE NoSlot
    BY <1>3, <1>7, <2>4 DEF NoSlot, Parked
  <2>5. QED
    BY <1>0, <2>1, <2>2, <2>3, <2>4, NextSteps DEF NextStep
<1>8. ASSUME NEW j \in Slot, Parked(j)'
      PROVE  dev'[j] \in Device
  <2>1. TypeInv' /\ Fresh' /\ CountInv'
    BY DEF Known
  <2>2. pc'[j] \notin {"none", "finish", "done"}
    BY <1>z, <1>8, <2>1 DEF Parked, Fresh, CountInv, Left
  <2>3. QED
    BY <2>1, <2>2 DEF TypeInv, Registered
<1>9. QED
  BY <1>1, <1>6, <1>7, <1>8 DEF PriceInv, HasRow, RowOf

LEMMA AlwaysPriceInv ==
    ASSUME Orderly
    PROVE  Spec => []PriceInv
<1>1. PriceInv /\ ResumeInv /\ Known /\ Known' /\ [Next]_vars => PriceInv'
  BY NextPrice DEF Orderly
<1>2. QED
  BY <1>1, InitPrice, AlwaysKnown, AlwaysTimeInv, PTL DEF Spec

\* Under the assumptions of UsedTheorem, and whatever coordinates the later
\* messages of a device carry, a connection that counts time has a row, and
\* holds the city of that row and its price: what the payment is made of.
THEOREM PriceTheorem ==
    ASSUME Orderly
    PROVE  Spec => []CountsAtPriceOfRow
<1>1. PriceInv => CountsAtPriceOfRow
  BY DEF PriceInv, CountsAtPriceOfRow, Parked, HasRow, RowOf
<1>2. QED
  BY <1>1, AlwaysPriceInv, PTL
=============================================================================
