------------------------ MODULE PangoServerMeterProofs ------------------------
(***************************************************************************)
(* Theorems of PangoServerMeter: that a device is never charged for more   *)
(* time than has passed, and that the backup keeps up with the clock, for  *)
(* every number of devices and slots, every period and every bound on the  *)
(* clock.                                                                  *)
(***************************************************************************)
EXTENDS PangoServerMeter, PangoServerTableProofs

-----------------------------------------------------------------------------
(* The inductive invariants.                                                *)

HasPayment(i) == reply[i] # NoReply /\ reply[i].kind = "payment"
HasLocation(i) == reply[i] # NoReply /\ reply[i].kind = "location"

\* The two ends of a connection: a device talks on one connection at a time,
\* and what it has read or sent says how far the thread at the other end is.
NetInv ==
    \A i \in Slot :
        /\ pc[i] = "none" => /\ phase[i] = "closed" /\ inbox[i] = NoMsg
                             /\ client_data_buff[i] = NoMsg /\ ~checked_database[i]
        /\ reply[i] # NoReply => phase[i] # "closed"
        /\ phase[i] # "closed" =>
              /\ dev[i] \in Device
              /\ \A j \in Slot : j # i /\ dev[j] = dev[i] =>
                    phase[j] = "closed" /\ pc[j] = "done"
        /\ HasPayment(i) => pc[i] \in Billed
        /\ \/ phase[i] = "parked" \/ HasLocation(i) \/ checked_database[i]
           \/ client_data_buff[i] # NoMsg
           \/ inbox[i] # NoMsg /\ inbox[i].status = "CLOSE_APP"
           => pc[i] # "none" /\ Registers(i)

\* The thread has answered a first START and not yet sent the payment or
\* ended: its count has a start.
Begun(i) ==
    /\ Registers(i)
    /\ \/ pc[i] \in {"recv", "lostLock", "lost", "insertLock", "insert", "sendLocation",
                     "setConnected", "closeLock", "close", "exit", "updateLock", "update"}
       \/ pc[i] = "check" /\ checked_database[i]
       \/ client[i].connected

InLoop == {"recv", "check", "closeLock", "close", "lostLock", "lost"}

\* A thread that has a START to answer, or has answered it, has a device that
\* is waiting for the payment; once it has answered, there is a row, and the
\* database thread counts for it until it leaves the loop.
RunInv ==
    /\ \A m \in Device : since[m] <= now
    /\ \A i \in Slot :
        /\ end_time[i] <= now
        /\ /\ Live(i) /\ pc[i] \notin Billed
           /\ Registers(i) \/ inbox[i] # NoMsg
           => since[dev[i]] # -1
        /\ Begun(i) /\ pc[i] \notin BeforeRow => HasRow(dev[i])
        /\ Begun(i) /\ pc[i] \in InLoop => client[i].connected
        /\ pc[i] \in BeforeRow => client[i].time_start_parking >= since[dev[i]]

\* A parking that was not paid for is counted from no earlier than its START,
\* by the thread, by the row and by the payment.
ChargeInv ==
    /\ settled \in [Device -> BOOLEAN]
    /\ \A i \in Slot :
          Begun(i) => settled[dev[i]] \/ client[i].time_start_parking >= since[dev[i]]
    /\ \A m \in Device : HasRow(m) =>
          settled[m] \/ (since[m] # -1 /\ RowOf(m).TIME_USED <= now - since[m])
    /\ \A i \in Slot : HasPayment(i) =>
          \/ settled[dev[i]]
          \/ since[dev[i]] # -1 /\ reply[i].elapsed <= now - since[dev[i]]

-----------------------------------------------------------------------------
(* What a step of a thread does to its connection and its locals.           *)

\* The end of the connection that the thread does not own stays, and so does
\* everything of the other slots.
ThreadFrame(i) ==
    /\ UNCHANGED <<phase, since, dev, dbStart>>
    /\ \A j \in Slot : j # i =>
          /\ inbox'[j] = inbox[j]
          /\ reply'[j] = reply[j]
          /\ client_data_buff'[j] = client_data_buff[j]
          /\ checked_database'[j] = checked_database[j]
          /\ end_time'[j] = end_time[j]
          /\ status'[j] = status[j]
    /\ inbox'[i] \in {inbox[i], NoMsg}
    /\ client_data_buff'[i] = client_data_buff[i] \/ Recv(i)
    /\ checked_database'[i] = checked_database[i] \/ Resume(i)
    /\ end_time'[i] \in {end_time[i], now}

\* What the thread sends is for a device that listens: the location after the
\* resumption or the INSERT, or ERROR or the payment at the exit.
ThreadSends(i) ==
    \/ reply'[i] = reply[i]
    \/ /\ phase[i] # "closed"
       /\ \/ pc[i] \in {"resume", "sendLocation"} /\ reply'[i] = LocationReply
          \/ pc[i] = "exit" /\ reply'[i] = ErrorReply
          \/ /\ SendPayment(i)
             /\ LET elapsed == end_time[i] - client[i].time_start_parking
                IN  reply'[i] = Payment(client[i].price * elapsed, elapsed)

LEMMA ThreadFrames ==
    ASSUME TypeInv, "dberr" \notin Faults, NEW i \in Slot, Thread(i), ~Restart
    PROVE  ThreadFrame(i)
<1> USE NetTypes DEF ThreadFrame, netVars
<1>1. CASE Recv(i)
  BY <1>1 DEF Recv, Process
<1>2. CASE RecvError(i)
  BY <1>2 DEF RecvError, Process
<1>3. CASE Resume(i)
  BY <1>3 DEF Resume, Send
<1>4. CASE CloseApp(i) \/ UpdateLost(i)
  BY <1>4 DEF CloseApp, UpdateLost, UpdateClientData
<1>5. CASE RecvLost(i) \/ Lost(i) \/ SetConnected(i) \/ InsertClient(i) \/ CheckNew(i)
  BY <1>5 DEF RecvLost, Lost, SetConnected, InsertClient, CheckNew
<1>6. CASE ResumeError(i) \/ InsertError(i)
  BY <1>6, NoDbError DEF ResumeError, InsertError
<1>7. CASE Lock(i) \/ CheckKnown(i) \/ CheckAgain(i) \/ RemoveClient(i) \/ ExitLost(i)
           \/ ExitSilently(i) \/ Finish(i)
  BY <1>7 DEF Lock, CheckKnown, CheckAgain, RemoveClient, ExitLost, ExitSilently, Finish
<1>8. CASE SendLocation(i) \/ SendPayment(i) \/ SendError(i)
  BY <1>8 DEF SendLocation, SendPayment, SendError, Send
<1>9. QED
  BY <1>1, <1>2, <1>3, <1>4, <1>5, <1>6, <1>7, <1>8 DEF Thread, BrokenPipe

LEMMA ThreadSendsReply ==
    ASSUME TypeInv, "dberr" \notin Faults, NEW i \in Slot, Thread(i), ~Restart
    PROVE  ThreadSends(i)
<1> USE NetTypes DEF ThreadSends, netVars
<1>1. CASE Resume(i)
  BY <1>1 DEF Resume, Send
<1>2. CASE SendLocation(i)
  BY <1>2 DEF SendLocation, Send
<1>3. CASE SendError(i)
  BY <1>3 DEF SendError, Send
<1>4. CASE SendPayment(i)
  <2> DEFINE elapsed == end_time[i] - client[i].time_start_parking
  <2>1. Send(i, Payment(client[i].price * elapsed, elapsed))
    BY <1>4 DEF SendPayment
  <2>2. QED
    BY <1>4, <2>1 DEF Send
<1>5. CASE Recv(i) \/ RecvError(i)
  BY <1>5 DEF Recv, RecvError
<1>6. CASE ResumeError(i) \/ InsertError(i)
  BY <1>6, NoDbError DEF ResumeError, InsertError
<1>7. CASE Lock(i) \/ CheckKnown(i) \/ CheckNew(i) \/ CheckAgain(i) \/ RecvLost(i) \/ Lost(i)
           \/ InsertClient(i) \/ SetConnected(i) \/ CloseApp(i) \/ RemoveClient(i)
           \/ ExitLost(i) \/ UpdateLost(i) \/ ExitSilently(i) \/ Finish(i)
  BY <1>7 DEF Lock, CheckKnown, CheckNew, CheckAgain, RecvLost, Lost, InsertClient,
     SetConnected, CloseApp, RemoveClient, ExitLost, UpdateLost, ExitSilently, Finish
<1>8. QED
  BY <1>1, <1>2, <1>3, <1>4, <1>5, <1>6, <1>7 DEF Thread, BrokenPipe

-----------------------------------------------------------------------------
(* The two ends of a connection.                                            *)

LEMMA InitNet == Init => NetInv
BY DEF Init, ServerInit, NetInit, NetInv, HasPayment, HasLocation

LEMMA RestartNet ==
    ASSUME Restart
    PROVE  NetInv'
BY DEF Restart, NetInv, HasPayment, HasLocation

LEMMA ThreadNet ==
    ASSUME TypeInv, CountInv, NetInv, "dberr" \notin Faults,
           NEW i \in Slot, Thread(i), ~Restart
    PROVE  NetInv'
<1>1. Alone(i) /\ ThreadFrame(i) /\ ThreadSends(i)
  BY ThreadAlone, ThreadFrames, ThreadSendsReply DEF BrokenPipe
<1>2. /\ pc[i] \in Billed => pc'[i] \in Billed
      /\ SendPayment(i) => pc'[i] \in Billed
      /\ Registers(i) => Registers(i)'
      /\ Recv(i) \/ Resume(i) => Registers(i)'
  BY ThreadGoesOn
<1>3. pc[i] \in {"resume", "sendLocation"} => Registers(i)
  BY DEF TypeInv, Registered, Served, Registers
<1>4. pc[i] = "done" => FALSE
  BY <1>1 DEF Alone, Live
\* Its own slot,
<1>5. /\ reply'[i] # NoReply => phase'[i] # "closed"
      /\ HasPayment(i)' => pc'[i] \in Billed
      /\ HasLocation(i)' => HasLocation(i) \/ pc[i] \in {"resume", "sendLocation"}
  <2>1. CASE reply'[i] = reply[i]
    BY <1>1, <1>2, <2>1 DEF NetInv, ThreadFrame, HasPayment, HasLocation
  <2>2. CASE phase[i] # "closed" /\ (reply'[i] = LocationReply \/ reply'[i] = ErrorReply)
    BY <1>1, <2>2 DEF ThreadFrame, ThreadSends, HasPayment, HasLocation, LocationReply,
       ErrorReply, Payment
  <2>3. CASE phase[i] # "closed" /\ SendPayment(i)
                /\ \E p, e : reply'[i] = Payment(p, e)
    BY <1>1, <1>2, <2>3 DEF ThreadFrame, HasPayment, HasLocation, Payment
  <2>4. QED
    BY <1>1, <2>1, <2>2, <2>3 DEF ThreadSends
<1>6. \/ phase'[i] = "parked" \/ HasLocation(i)' \/ checked_database'[i]
      \/ client_data_buff'[i] # NoMsg
      \/ inbox'[i] # NoMsg /\ inbox'[i].status = "CLOSE_APP"
      => Registers(i)'
  BY <1>1, <1>2, <1>3, <1>5 DEF NetInv, ThreadFrame
<1>7. pc'[i] # "none"
  BY <1>1 DEF Alone
\* and the others.
<1>8. \A j \in Slot : j # i =>
        /\ pc'[j] = pc[j]
        /\ reply'[j] = reply[j] /\ inbox'[j] = inbox[j]
        /\ client_data_buff'[j] = client_data_buff[j]
        /\ checked_database'[j] = checked_database[j]
        /\ HasPayment(j)' = HasPayment(j) /\ HasLocation(j)' = HasLocation(j)
        /\ Registers(j)' = Registers(j)
  BY <1>1 DEF Alone, ThreadFrame, HasPayment, HasLocation, Registers
<1>9. UNCHANGED <<phase, dev>>
  BY <1>1 DEF ThreadFrame
<1>10. ASSUME NEW k \in Slot, phase[k] # "closed"
       PROVE  \A j \in Slot : j # k /\ dev[j] = dev[k] => phase'[j] = "closed" /\ pc'[j] = "done"
  BY <1>4, <1>8, <1>9, <1>10 DEF NetInv
<1>11. QED
  <2> HIDE DEF Billed
  <2>1. ASSUME NEW k \in Slot
        PROVE  /\ pc'[k] = "none" => /\ phase'[k] = "closed" /\ inbox'[k] = NoMsg
                                     /\ client_data_buff'[k] = NoMsg
                                     /\ ~checked_database'[k]
               /\ reply'[k] # NoReply => phase'[k] # "closed"
               /\ HasPayment(k)' => pc'[k] \in Billed
               /\ \/ phase'[k] = "parked" \/ HasLocation(k)' \/ checked_database'[k]
                  \/ client_data_buff'[k] # NoMsg
                  \/ inbox'[k] # NoMsg /\ inbox'[k].status = "CLOSE_APP"
                  => pc'[k] # "none" /\ Registers(k)'
    <3>1. CASE k = i
      BY <1>5, <1>6, <1>7, <3>1
    <3>2. CASE k # i
      BY <1>8, <1>9, <3>2 DEF NetInv
    <3>3. QED
      BY <3>1, <3>2
  <2>2. QED
    BY <1>9, <1>10, <2>1 DEF NetInv, Billed

\* The device and the network do not touch the server.
ServerFrame ==
    UNCHANGED <<now, your_table, accepted, client, pc, status, checked_database,
                end_time, client_data_buff, dbStart, dev>>

LEMMA DeviceFrames ==
    ASSUME NEW i \in Slot, DeviceStep(i) \/ Disconnect(i) \/ Reset(i)
    PROVE  ServerFrame
BY DEF DeviceStep, SendStart, ReceiveLocation, SendClose, ReceivePayment, GiveUp,
   Disconnect, Reset, Leave, serverVars, ServerFrame

\* What the device can send.
LEMMA Transmitted ==
    ASSUME TypeInv, NEW i \in Slot, NEW s \in {"START_APP", "CLOSE_APP"}, Transmit(i, s)
    PROVE  /\ inbox'[i].status = s
           /\ \A j \in Slot : j # i => inbox'[j] = inbox[j]
<1>1. PICK xy \in Coords, ok \in {TRUE, "corrupt" \notin Faults} :
        inbox' = [inbox EXCEPT ![i] = [status |-> s, coords |-> xy, crc_ok |-> ok]]
  BY DEF Transmit
<1>2. [status |-> s, coords |-> xy, crc_ok |-> ok].status = s
  OBVIOUS
<1>3. QED
  BY <1>1, <1>2, NetTypes

LEMMA DeviceNet ==
    ASSUME TypeInv, NetInv, NEW i \in Slot, DeviceStep(i) \/ Disconnect(i) \/ Reset(i)
    PROVE  NetInv'
<1> USE NetTypes DEF NetInv, HasPayment, HasLocation, Registers, Billed
<1>1. UNCHANGED <<client, pc, dev, checked_database, client_data_buff>>
  BY DeviceFrames DEF ServerFrame
<1>2. CASE SendStart(i)
  <2>1. /\ inbox'[i].status = "START_APP"
        /\ \A j \in Slot : j # i => inbox'[j] = inbox[j]
    BY <1>2, Transmitted DEF SendStart
  <2>2. phase' = [phase EXCEPT ![i] = "starting"] /\ phase[i] = "open" /\ reply' = reply
    BY <1>2 DEF SendStart
  <2>3. QED
    BY <1>1, <2>1, <2>2
<1>3. CASE SendClose(i)
  <2>1. /\ inbox'[i].status = "CLOSE_APP"
        /\ \A j \in Slot : j # i => inbox'[j] = inbox[j]
    BY <1>3, Transmitted DEF SendClose
  <2>2. phase' = [phase EXCEPT ![i] = "closing"] /\ phase[i] = "parked" /\ reply' = reply
    BY <1>3 DEF SendClose
  <2>3. QED
    BY <1>1, <2>1, <2>2
<1>4. CASE ReceiveLocation(i)
  <2>1. /\ phase' = [phase EXCEPT ![i] = "parked"] /\ phase[i] = "starting"
        /\ reply' = [reply EXCEPT ![i] = NoReply] /\ HasLocation(i) /\ inbox' = inbox
    BY <1>4 DEF ReceiveLocation
  <2>2. QED
    BY <1>1, <2>1
<1>5. CASE ReceivePayment(i) \/ GiveUp(i) \/ Disconnect(i) \/ Reset(i)
  <2>1. /\ phase' = [phase EXCEPT ![i] = "closed"]
        /\ reply' = [reply EXCEPT ![i] = NoReply] /\ inbox' = inbox
    BY <1>5 DEF ReceivePayment, GiveUp, Disconnect, Reset, Leave
  <2>2. QED
    BY <1>1, <2>1
<1>6. QED
  BY <1>2, <1>3, <1>4, <1>5 DEF DeviceStep

\* A device connects when its other connections are over, at both ends.
LEMMA ConnectNet ==
    ASSUME TypeInv, Fresh, NetInv, "overlap" \notin Faults, NEW m \in Device, Connect(m)
    PROVE  NetInv'
<1> USE DEF HasPayment, HasLocation, Registers, Billed
<1>1. accepted \in Slot /\ pc[accepted] = "none"
  BY ConnectSlot
<1>2. \A j \in Slot : /\ pc'[j] = IF j = accepted THEN "recv" ELSE pc[j]
                      /\ dev'[j] = IF j = accepted THEN m ELSE dev[j]
  BY ConnectSlot
<1>3. \A j \in Slot : dev[j] = m => phase[j] = "closed" /\ pc[j] = "done"
  BY DEF Connect
<1>4. /\ UNCHANGED <<client, reply, inbox, checked_database, client_data_buff>>
      /\ phase' = [phase EXCEPT ![accepted] = "open"]
  BY DEF Connect
<1>5. \A j \in Slot : phase'[j] = IF j = accepted THEN "open" ELSE phase[j]
  BY <1>1, <1>4, NetTypes
<1>6. ~(\/ phase[accepted] = "parked" \/ HasLocation(accepted)
        \/ checked_database[accepted] \/ client_data_buff[accepted] # NoMsg
        \/ inbox[accepted] # NoMsg)
      /\ reply[accepted] = NoReply
  BY <1>1 DEF NetInv
<1>7. ASSUME NEW k \in Slot, NEW j \in Slot, phase'[k] # "closed", j # k, dev'[j] = dev'[k]
      PROVE  phase'[j] = "closed" /\ pc'[j] = "done"
  <2>1. CASE k = accepted
    BY <1>2, <1>3, <1>5, <1>7, <2>1
  <2>2. CASE k # accepted
    <3>1. j # accepted
      BY <1>2, <1>3, <1>5, <1>7, <2>2
    <3>2. QED
      BY <1>2, <1>5, <1>7, <2>2, <3>1 DEF NetInv
  <2>3. QED
    BY <2>1, <2>2
<1>8. QED
  BY <1>1, <1>2, <1>4, <1>5, <1>6, <1>7 DEF NetInv

LEMMA NextNet ==
    ASSUME Orderly, Known, NetInv, [Next]_vars
    PROVE  NetInv'
<1>0. TypeInv /\ CountInv /\ Fresh /\ "dberr" \notin Faults /\ "overlap" \notin Faults
  BY DEF Known, Orderly
<1>1. ASSUME NEW i \in Slot, Thread(i)
      PROVE  NetInv'
  BY <1>0, <1>1, ThreadNet, RestartNet
<1>2. ASSUME UNCHANGED <<pc, client, checked_database, client_data_buff, netVars>>
      PROVE  NetInv'
  BY <1>2 DEF netVars, NetInv, HasPayment, HasLocation, Registers
<1>3. CASE DbUpdateThread \/ Tick \/ UNCHANGED vars
  BY <1>2, <1>3 DEF DbUpdateThread, DbLock, DbUpdate, DbUnlock, Tick, vars, serverVars
<1>4. CASE Environment
  BY <1>0, <1>3, <1>4, DeviceNet, ConnectNet, RestartNet DEF Environment, Crash
<1>5. QED
  BY <1>1, <1>3, <1>4 DEF Next

-----------------------------------------------------------------------------
(* The course of a parking.                                                 *)

\* How a thread comes to have an answered START.
BegunStep(i) ==
    \/ CheckNew(i)
    \/ Resume(i)
    \/ InsertClient(i)
    \/ /\ Begun(i)
       /\ client'[i].time_start_parking = client[i].time_start_parking
       /\ pc'[i] \in BeforeRow <=> pc[i] \in BeforeRow
       /\ pc'[i] \in InLoop => /\ pc[i] \in InLoop \cup {"setConnected"}
                               /\ client[i].connected => client'[i].connected
                               /\ pc[i] = "setConnected" => client'[i].connected

LEMMA BegunSteps ==
    ASSUME TypeInv, CountInv, PriceInv, NetInv, "dberr" \notin Faults,
           NEW i \in Slot, Thread(i), ~Restart, Begun(i)'
    PROVE  BegunStep(i)
<1> USE NetTypes DEF Begun, Registers, BegunStep, BeforeRow, InLoop, Goto, Unlock, netVars
<1>a. CASE CheckNew(i) \/ Resume(i) \/ InsertClient(i)
  BY <1>a
<1> SUFFICES ASSUME ~CheckNew(i), ~Resume(i), ~InsertClient(i)
             PROVE  BegunStep(i)
  BY <1>a
<1>b. client'[i].time_start_parking = client[i].time_start_parking
  BY StartKept
<1>c. client[i].connected => Registers(i)
  BY DEF PriceInv, Parked
<1>1. CASE Recv(i)
  <2>1. Right(inbox[i]) /\ pc[i] = "recv"
    BY <1>1 DEF Recv, CountInv, Right
  <2>2. /\ pc'[i] = IF inbox[i].status = "START_APP" THEN "check" ELSE "closeLock"
        /\ client'[i].connected = client[i].connected
        /\ checked_database' = checked_database
    BY <1>1, <2>1 DEF Recv, Process, Right, pango_data
  <2>3. inbox[i].status \in {"START_APP", "CLOSE_APP"} /\ inbox[i] # NoMsg
    BY <2>1 DEF Right, Message
  <2>4. Registers(i)
    BY <1>c, <2>2, <2>3 DEF NetInv
  <2>5. QED
    BY <1>b, <2>1, <2>2, <2>4
<1>2. CASE RecvError(i)
  <2>1. pc[i] = "recv" /\ checked_database' = checked_database /\ dev' = dev
    BY <1>2 DEF RecvError
  <2>2. CASE client_data_buff[i] = NoMsg
    BY <1>2, <1>b, <2>1, <2>2 DEF RecvError, Process
  <2>3. CASE client_data_buff[i] # NoMsg
    <3>1. Registers(i)
      BY <2>3 DEF NetInv
    <3>2. client'[i].connected = client[i].connected /\ pc'[i] \in {"check", "closeLock", "exit"}
      BY <1>2, <2>1 DEF RecvError, Process, pango_data
    <3>3. QED
      BY <1>b, <2>1, <3>1, <3>2
  <2>4. QED
    BY <2>2, <2>3
<1>3. CASE Lost(i)
  BY <1>3, <1>b, <1>c DEF Lost, pango_data
<1>4. CASE SetConnected(i)
  BY <1>4, <1>b, <1>c DEF SetConnected, pango_data
<1>5. CASE CloseApp(i)
  BY <1>5, <1>b, <1>c DEF CloseApp, pango_data
<1>6. CASE ResumeError(i) \/ InsertError(i)
  BY <1>6, NoDbError DEF ResumeError, InsertError
<1>7. CASE Lock(i)
  BY <1>7, <1>b, <1>c DEF Lock, Waiting, CriticalSection
<1>8. CASE CheckKnown(i) \/ CheckAgain(i) \/ RecvLost(i)
  BY <1>8, <1>b, <1>c DEF CheckKnown, CheckAgain, RecvLost
<1>9. CASE SendLocation(i) \/ SendPayment(i) \/ SendError(i)
  BY <1>9, <1>b, <1>c DEF SendLocation, SendPayment, SendError
<1>10. CASE RemoveClient(i) \/ ExitLost(i) \/ UpdateLost(i) \/ ExitSilently(i) \/ Finish(i)
  BY <1>10, <1>b, <1>c DEF RemoveClient, ExitLost, UpdateLost, ExitSilently, Finish
<1>11. QED
  BY <1>1, <1>2, <1>3, <1>4, <1>5, <1>6, <1>7, <1>8, <1>9, <1>10 DEF Thread, BrokenPipe

\* A MAC address comes from a message.
LEMMA RegistersFrom ==
    ASSUME TypeInv, NetInv, "dberr" \notin Faults,
           NEW i \in Slot, Thread(i), ~Restart, Registers(i)'
    PROVE  Registers(i) \/ inbox[i] # NoMsg
<1> USE NetTypes DEF Registers, netVars
<1>1. CASE Recv(i)
  BY <1>1 DEF Recv
<1>2. CASE RecvError(i)
  <2>1. CASE client_data_buff[i] = NoMsg
    BY <1>2, <2>1 DEF RecvError, Process
  <2>2. CASE client_data_buff[i] # NoMsg
    BY <2>2 DEF NetInv
  <2>3. QED
    BY <2>1, <2>2
<1>3. CASE CheckNew(i) \/ Resume(i) \/ InsertClient(i)
  BY <1>3 DEF CheckNew, Resume, InsertClient, TypeInv, Registered, Served
<1>4. CASE ~(Recv(i) \/ RecvError(i) \/ CheckNew(i) \/ Resume(i) \/ InsertClient(i))
  <2>1. CASE Lost(i) \/ SetConnected(i) \/ CloseApp(i)
    <3>1. CASE Lost(i)
      BY <3>1 DEF Lost, pango_data
    <3>2. CASE SetConnected(i)
      BY <3>2 DEF SetConnected, pango_data
    <3>3. CASE CloseApp(i)
      BY <3>3 DEF CloseApp, pango_data
    <3>4. QED
      BY <2>1, <3>1, <3>2, <3>3
  <2>2. CASE ResumeError(i) \/ InsertError(i)
    BY <2>2, NoDbError DEF ResumeError, InsertError
  <2>3. CASE ~(Lost(i) \/ SetConnected(i) \/ CloseApp(i) \/ ResumeError(i) \/ InsertError(i))
    BY <1>4, <2>3 DEF Thread, BrokenPipe, Lock, CheckKnown, CheckAgain, RecvLost,
       SendLocation, SendPayment, SendError, RemoveClient, ExitLost, UpdateLost,
       ExitSilently, Finish
  <2>4. QED
    BY <2>1, <2>2, <2>3
<1>5. QED
  BY <1>1, <1>2, <1>3, <1>4

\* A row stays while the thread of its device has not billed it.
LEMMA BegunRowStays ==
    ASSUME "dberr" \notin Faults, Known, RunInv, [Next]_vars,
           NEW j \in Slot, Begun(j), pc[j] \notin BeforeRow
    PROVE  /\ dev[j] \in Device
           /\ HasRow(dev[j])
           /\ your_table'[dev[j]] # <<>>
<1>0. ~ZeroedData.connected
  BY DEF ZeroedData
<1>1. Live(j) /\ pc[j] # "delete"
  BY <1>0 DEF Begun, Live, Known, TypeInv, Registered, CountInv, Left, Fresh
<1>2. dev[j] \in Device
  BY <1>1 DEF Known, TypeInv, Registered, Live
<1>3. HasRow(dev[j])
  BY DEF RunInv
<1>4. ASSUME NEW i \in Slot, dev[i] = dev[j]
      PROVE  pc[i] # "delete"
  BY <1>1, <1>4, OnlyThread DEF Live
<1>5. PICK d \in Device : d = dev[j]
  BY <1>2
<1>6. HasRow(d)'
  BY <1>3, <1>4, <1>5, RowStays
<1>7. QED
  BY <1>2, <1>3, <1>5, <1>6 DEF HasRow

\* The device's view of its parking changes when it asks for it and when it
\* has paid.
LEMMA DeviceSince ==
    ASSUME TypeInv, NEW i \in Slot, DeviceStep(i) \/ Disconnect(i) \/ Reset(i)
    PROVE  \/ since' = since
           \/ /\ SendStart(i) /\ dev[i] \in Device /\ since[dev[i]] = -1
              /\ since' = [since EXCEPT ![dev[i]] = now]
           \/ /\ ReceivePayment(i)
              /\ since' = [since EXCEPT ![dev[i]] = -1]
<1> USE NetTypes
<1>1. CASE SendStart(i)
  <2>1. since' = [since EXCEPT ![dev[i]] = IF since[dev[i]] = -1 THEN now ELSE since[dev[i]]]
    BY <1>1 DEF SendStart
  <2>2. CASE dev[i] \in Device
    BY <1>1, <2>1, <2>2
  <2>3. CASE dev[i] \notin Device
    BY <2>1, <2>3
  <2>4. QED
    BY <2>2, <2>3
<1>2. CASE ReceivePayment(i)
  BY <1>2 DEF ReceivePayment
<1>3. CASE ReceiveLocation(i) \/ SendClose(i) \/ GiveUp(i) \/ Disconnect(i) \/ Reset(i)
  BY <1>3 DEF ReceiveLocation, SendClose, GiveUp, Disconnect, Reset, Leave
<1>4. QED
  BY <1>1, <1>2, <1>3 DEF DeviceStep

LEMMA InitRun == Init => RunInv
<1>1. ASSUME Init
      PROVE  /\ \A j \in Slot : pc[j] = "none" /\ end_time[j] = 0 /\ ~client[j].connected
             /\ now = 0 /\ \A m \in Device : since[m] = -1
  BY <1>1 DEF Init, ServerInit, ZeroedData
<1>2. QED
  BY <1>1 DEF RunInv, Begun, BeforeRow, Live

LEMMA RestartRun ==
    ASSUME RunInv, TypeInv, Restart
    PROVE  RunInv'
<1>1. /\ \A j \in Slot : pc'[j] = "none" /\ end_time'[j] = 0 /\ ~client'[j].connected
      /\ now' = now /\ since' = since
  BY DEF Restart, ZeroedData
<1>2. QED
  BY <1>1, NetTypes DEF RunInv, Begun, BeforeRow, Live

LEMMA ThreadRun ==
    ASSUME Orderly, Known, ResumeInv, PriceInv, NetInv, RunInv, NEW i \in Slot, Thread(i), ~Restart
    PROVE  RunInv'
<1>0. TypeInv /\ CountInv /\ "dberr" \notin Faults /\ [Next]_vars
  BY DEF Known, Orderly, Next
<1>1. Alone(i) /\ ThreadFrame(i)
  BY <1>0, ThreadAlone, ThreadFrames DEF BrokenPipe
<1>2. UNCHANGED <<now, since, dev>>
  BY <1>1 DEF Alone, ThreadFrame
<1>3. \A j \in Slot : end_time'[j] <= now
  BY <1>0, <1>1, NetTypes DEF RunInv, ThreadFrame
<1>4. /\ Live(i)' /\ pc'[i] \notin Billed /\ (Registers(i)' \/ inbox'[i] # NoMsg)
      => since'[dev'[i]] # -1
  <2>1. pc[i] \in Billed => pc'[i] \in Billed
    BY <1>0, ThreadGoesOn
  <2>2. Registers(i)' \/ inbox'[i] # NoMsg => Registers(i) \/ inbox[i] # NoMsg
    BY <1>0, <1>1, RegistersFrom DEF ThreadFrame
  <2>3. QED
    BY <1>1, <1>2, <2>1, <2>2 DEF RunInv, Alone, Live
\* The slot of the thread,
<1>5. ASSUME CheckNew(i)
      PROVE  /\ pc'[i] \in BeforeRow /\ pc'[i] \notin InLoop
             /\ client'[i].time_start_parking >= since[dev[i]]
  <2>1. pc[i] = "check" /\ pc'[i] = "insertLock" /\ dev[i] \in Device
    BY <1>0, <1>5, NetTypes DEF CheckNew, Goto, TypeInv, Registered
  <2>2. client'[i].time_start_parking = now /\ since[dev[i]] <= now
    BY <1>0, <1>5, <2>1, CheckNewStarts DEF RunInv
  <2>3. now \in Nat /\ since[dev[i]] \in Int
    BY <1>0, <2>1, NetTypes
  <2>4. QED
    BY <2>1, <2>2, <2>3 DEF BeforeRow, InLoop
<1>6. ASSUME Resume(i)
      PROVE  /\ pc'[i] \notin BeforeRow
             /\ your_table'[dev[i]] # <<>>
             /\ client'[i].connected
  <2>1. HasRow(dev[i]) /\ pc'[i] = "recv"
    BY <1>0, <1>6, NetTypes DEF Resume, ResumeInv, Unlock, Goto
  <2>2. /\ your_table' = your_table
        /\ client'[i] = [client[i] EXCEPT
             !.time_start_parking = now - RowOf(dev[i]).TIME_USED,
             !.connected = TRUE,
             !.location = RowOf(dev[i]).LOCATION,
             !.price = PriceAt(RowOf(dev[i]).LOCATION, client[i].price)]
    BY <1>0, <1>6, <2>1, Resumed
  <2>3. client[i] \in pango_data
    BY <1>0, NetTypes
  <2>4. client'[i].connected
    BY <2>2, <2>3 DEF pango_data
  <2>5. QED
    BY <2>1, <2>2, <2>4 DEF HasRow, BeforeRow
<1>7. ASSUME InsertClient(i)
      PROVE  /\ pc'[i] \notin BeforeRow /\ pc'[i] \notin InLoop
             /\ your_table'[dev[i]] # <<>>
  <2>1. /\ pc'[i] = "sendLocation" /\ dev[i] \in Device
        /\ your_table' = Insert(dev[i], client[i].location)
    BY <1>0, <1>7, NetTypes DEF InsertClient, Unlock, Goto, TypeInv, Registered, Served
  <2>2. your_table[dev[i]] \in Seq(Row)
    BY <1>0, <2>1 DEF TypeInv, TypeOK
  <2>3. \A r : Append(your_table[dev[i]], r) # <<>>
    BY <2>2
  <2>4. QED
    BY <2>1, <2>3 DEF Insert, BeforeRow, InLoop
<1>8. ASSUME Begun(i)'
      PROVE  /\ pc'[i] \notin BeforeRow => your_table'[dev[i]] # <<>>
             /\ pc'[i] \in InLoop => client'[i].connected
  <2>1. ASSUME Begun(i), pc[i] \notin BeforeRow
        PROVE  your_table'[dev[i]] # <<>>
    BY <1>0, <2>1, BegunRowStays
  <2>2. ASSUME Begun(i), pc[i] \in InLoop
        PROVE  client[i].connected
    BY <2>2 DEF RunInv
  <2>3. BegunStep(i)
    BY <1>0, <1>8, BegunSteps
  <2>4. QED
    BY <1>5, <1>6, <1>7, <2>1, <2>2, <2>3 DEF BegunStep
<1>9. pc'[i] \in BeforeRow => client'[i].time_start_parking >= since[dev[i]]
  <2>1. CASE CheckNew(i) \/ Resume(i) \/ InsertClient(i)
    BY <1>5, <1>6, <1>7, <2>1
  <2>2. CASE ~(CheckNew(i) \/ Resume(i) \/ InsertClient(i))
    BY <1>0, <2>2, StartKept, PriceKept DEF RunInv, BeforeRow
  <2>3. QED
    BY <2>1, <2>2
\* and the others.
<1>10. ASSUME NEW j \in Slot, j # i
       PROVE  /\ pc'[j] = pc[j] /\ client'[j] = client[j]
              /\ inbox'[j] = inbox[j]
              /\ Begun(j)' = Begun(j)
              /\ Registers(j)' = Registers(j)
              /\ Live(j)' = Live(j)
              /\ Begun(j) /\ pc[j] \notin BeforeRow => your_table'[dev[j]] # <<>>
  <2>1. /\ pc'[j] = pc[j] /\ client'[j] = client[j] /\ dev' = dev
        /\ inbox'[j] = inbox[j] /\ checked_database'[j] = checked_database[j]
    BY <1>1, <1>10 DEF Alone, ThreadFrame
  <2>2. Begun(j) /\ pc[j] \notin BeforeRow => your_table'[dev[j]] # <<>>
    BY <1>0, BegunRowStays
  <2>3. QED
    BY <2>1, <2>2 DEF Begun, Registers, Live
<1>11. QED
  <2> HIDE DEF Begun, Live, Registers, BeforeRow, InLoop, Billed
  <2>1. ASSUME NEW k \in Slot
        PROVE  /\ Live(k)' /\ pc'[k] \notin Billed /\ (Registers(k)' \/ inbox'[k] # NoMsg)
                  => since[dev[k]] # -1
               /\ Begun(k)' /\ pc'[k] \notin BeforeRow => your_table'[dev[k]] # <<>>
               /\ Begun(k)' /\ pc'[k] \in InLoop => client'[k].connected
               /\ pc'[k] \in BeforeRow => client'[k].time_start_parking >= since[dev[k]]
    <3>1. CASE k = i
      BY <1>2, <1>4, <1>8, <1>9, <3>1
    <3>2. CASE k # i
      BY <1>10, <3>2 DEF RunInv
    <3>3. QED
      BY <3>1, <3>2
  <2>2. QED
    BY <1>2, <1>3, <2>1 DEF RunInv, HasRow

\* The devices, the network and the database thread leave the threads where
\* they are.
LEMMA ElsewhereRun ==
    ASSUME Orderly, Known, RunInv, [Next]_vars,
           UNCHANGED <<client, pc, dev, checked_database, end_time>>,
           now' \in {now, now + 1},
           \A m \in Device : since'[m] <= now,
           \A j \in Slot :
              /\ Live(j) /\ pc[j] \notin Billed /\ (Registers(j) \/ inbox'[j] # NoMsg)
                 => since'[dev[j]] # -1
              /\ pc[j] \in BeforeRow => client[j].time_start_parking >= since'[dev[j]]
    PROVE  RunInv'
<1>1. \A j \in Slot : Begun(j) /\ pc[j] \notin BeforeRow => your_table'[dev[j]] # <<>>
  BY BegunRowStays DEF Orderly
<1>2. now \in Nat /\ end_time \in [Slot -> Nat] /\ since \in [Device -> Nat \cup {-1}]
      /\ since' \in [Device -> Nat \cup {-1}]
  <2>1. TypeInv'
    BY NextTypeInv DEF Known
  <2>2. QED
    BY <2>1 DEF Known, TypeInv, TypeOK
<1>3. \A j \in Slot : Begun(j)' = Begun(j) /\ Registers(j)' = Registers(j) /\ Live(j)' = Live(j)
  BY DEF Begun, Registers, Live
<1>4. /\ \A m \in Device : since'[m] <= now'
      /\ \A j \in Slot : end_time'[j] <= now'
  BY <1>2 DEF RunInv
<1>5. QED
  <2> HIDE DEF Begun, Live, Registers, BeforeRow, InLoop, Billed
  <2>1. QED
    BY <1>1, <1>3, <1>4 DEF RunInv, HasRow

LEMMA DeviceRun ==
    ASSUME Orderly, Known, NetInv, RunInv,
           NEW i \in Slot, DeviceStep(i) \/ Disconnect(i) \/ Reset(i)
    PROVE  RunInv'
<1>0. TypeInv /\ [Next]_vars
  BY DEF Known, Next, Environment
<1>1. ServerFrame
  BY DeviceFrames
<1>2. \A m \in Device : since'[m] <= now
  BY <1>0, DeviceSince, NetTypes DEF RunInv
<1>3. \A j \in Slot : Live(j) => dev[j] \in Device
  BY <1>0 DEF TypeInv, Registered, Live
<1>a. \A j \in Slot : pc[j] \in BeforeRow =>
                         Live(j) /\ pc[j] \notin Billed /\ Registers(j)
  BY <1>0 DEF BeforeRow, Billed, Live, TypeInv, Registered, Served, Registers
<1>b. \A j \in Slot : client[j].time_start_parking \in Int
  BY <1>0, NetTypes DEF pango_data
<1> HIDE DEF Live, Registers, BeforeRow, Billed
\* The START.
<1>4. CASE SendStart(i)
  <2>1. \A j \in Slot : j # i => inbox'[j] = inbox[j]
    BY <1>0, <1>4, Transmitted DEF SendStart
  <2>2. \A m \in Device : /\ since[m] # -1 => since'[m] = since[m]
                          /\ m = dev[i] => since'[m] # -1
    BY <1>0, <1>4, NetTypes DEF SendStart
  <2>3. QED
    BY <1>0, <1>1, <1>2, <1>3, <1>a, <2>1, <2>2, ElsewhereRun DEF RunInv, ServerFrame
\* The CLOSE: the device was parked.
<1>5. CASE SendClose(i)
  <2>1. \A j \in Slot : j # i => inbox'[j] = inbox[j]
    BY <1>0, <1>5, Transmitted DEF SendClose
  <2>2. Registers(i) /\ since' = since
    BY <1>5 DEF SendClose, NetInv
  <2>3. QED
    BY <1>0, <1>1, <1>2, <2>1, <2>2, ElsewhereRun DEF RunInv, ServerFrame
\* The payment: no thread of the device is before it any more.
<1>6. CASE ReceivePayment(i)
  <2>1. pc[i] \in Billed /\ phase[i] # "closed" /\ inbox' = inbox
    BY <1>6 DEF ReceivePayment, NetInv, HasPayment
  <2>2. \A j \in Slot : dev[j] = dev[i] => pc[j] \in Billed
    BY <2>1 DEF NetInv, Billed
  <2>3. \A m \in Device : since'[m] = IF m = dev[i] THEN -1 ELSE since[m]
    BY <1>0, <1>6, NetTypes DEF ReceivePayment
  <2>4. QED
    BY <1>0, <1>1, <1>2, <1>3, <1>a, <2>1, <2>2, <2>3, ElsewhereRun DEF RunInv, ServerFrame
<1>7. CASE ReceiveLocation(i) \/ GiveUp(i) \/ Disconnect(i) \/ Reset(i)
  <2>1. since' = since /\ inbox' = inbox
    BY <1>7 DEF ReceiveLocation, GiveUp, Disconnect, Reset, Leave
  <2>2. QED
    BY <1>0, <1>1, <1>2, <2>1, ElsewhereRun DEF RunInv, ServerFrame
<1>8. QED
  BY <1>4, <1>5, <1>6, <1>7 DEF DeviceStep

LEMMA ConnectRun ==
    ASSUME Orderly, Known, NetInv, RunInv, NEW m \in Device, Connect(m)
    PROVE  RunInv'
<1>0. TypeInv /\ Fresh
  BY DEF Known
<1>a. accepted \in Slot
  BY <1>0, ConnectSlot
<1> PICK a \in Slot : a = accepted
  BY <1>a
<1>1. /\ pc[a] = "none" /\ client[a] = ZeroedData
      /\ UNCHANGED <<now, client, your_table>>
      /\ \A j \in Slot : /\ pc'[j] = IF j = a THEN "recv" ELSE pc[j]
                         /\ dev'[j] = IF j = a THEN m ELSE dev[j]
  BY <1>0, ConnectSlot, a = accepted
<1>2. UNCHANGED <<since, inbox, checked_database, end_time>>
  BY DEF Connect
<1>3. inbox[a] = NoMsg
  BY <1>1 DEF NetInv
<1>4. ~Registers(a)' /\ ~Begun(a)'
  <2>1. ZeroedData.mac_address = NoDevice
    BY DEF ZeroedData
  <2>2. dev'[a] = m /\ NoDevice # m /\ client'[a].mac_address = NoDevice
    BY <1>1, <2>1, ConstantsAssumption
  <2>3. ~Registers(a)'
    BY <2>2 DEF Registers
  <2>4. QED
    BY <2>3 DEF Begun
<1>5. \A j \in Slot : j # a =>
         Begun(j)' = Begun(j) /\ Registers(j)' = Registers(j) /\ Live(j)' = Live(j)
  BY <1>1, <1>2 DEF Begun, Registers, Live
<1>6. "recv" \notin BeforeRow
  BY DEF BeforeRow
<1>7. QED
  <2> HIDE DEF Begun, Live, Registers, BeforeRow, InLoop, Billed
  <2>1. ASSUME NEW k \in Slot
        PROVE  /\ Live(k)' /\ pc'[k] \notin Billed /\ (Registers(k)' \/ inbox'[k] # NoMsg)
                  => since'[dev'[k]] # -1
               /\ Begun(k)' /\ pc'[k] \notin BeforeRow => HasRow(dev[k])
               /\ Begun(k)' /\ pc'[k] \in InLoop => client'[k].connected
               /\ pc'[k] \in BeforeRow => client'[k].time_start_parking >= since'[dev'[k]]
    <3>1. CASE k = a
      BY <1>1, <1>2, <1>3, <1>4, <1>6, <3>1
    <3>2. CASE k # a
      BY <1>1, <1>2, <1>5, <3>2 DEF RunInv
    <3>3. QED
      BY <3>1, <3>2
  <2>2. \A k \in Slot : Begun(k)' => dev'[k] = dev[k]
    BY <1>1, <1>4
  <2>3. QED
    BY <1>1, <1>2, <2>1, <2>2 DEF RunInv, HasRow

LEMMA NextRun ==
    ASSUME Orderly, Known, ResumeInv, PriceInv, NetInv, RunInv, [Next]_vars
    PROVE  RunInv'
<1>0. TypeInv
  BY DEF Known
<1>1. ASSUME NEW i \in Slot, Thread(i)
      PROVE  RunInv'
  BY <1>0, <1>1, ThreadRun, RestartRun
<1>2. CASE DbUpdateThread \/ Tick \/ UNCHANGED vars
  <2>1. /\ UNCHANGED <<client, pc, dev, checked_database, end_time, since, inbox>>
        /\ now' \in {now, now + 1}
    BY <1>2 DEF DbUpdateThread, DbLock, DbUpdate, DbUnlock, Tick, vars, serverVars, netVars
  <2> HIDE DEF Live, Registers, BeforeRow, Billed
  <2>2. QED
    BY <2>1, ElsewhereRun DEF RunInv
<1>3. CASE Environment
  BY <1>0, <1>2, <1>3, DeviceRun, ConnectRun, RestartRun DEF Environment, Crash
<1>4. QED
  BY <1>1, <1>2, <1>3 DEF Next

LEMMA AlwaysRunInv ==
    ASSUME Orderly
    PROVE  Spec => [](ResumeInv /\ TimeInv /\ PriceInv /\ NetInv /\ RunInv)
<1>1. Known /\ NetInv /\ [Next]_vars => NetInv'
  BY NextNet
<1>2. Spec => []NetInv
  BY <1>1, InitNet, AlwaysKnown, PTL DEF Spec
<1>3. Known /\ ResumeInv /\ PriceInv /\ NetInv /\ RunInv /\ [Next]_vars => RunInv'
  BY NextRun
<1>4. QED
  BY <1>2, <1>3, InitRun, AlwaysKnown, AlwaysTimeInv, AlwaysPriceInv, PTL DEF Spec

-----------------------------------------------------------------------------
(* No device is charged for more time than has passed.                      *)

\* A device starts to wait for a payment and has paid, nothing else.
LEMMA NextSince ==
    ASSUME TypeInv, [Next]_vars, NEW m \in Device
    PROVE  since'[m] = since[m] \/ since[m] = -1 \/ since'[m] = -1
<1>1. ASSUME NEW i \in Slot, Thread(i), ~Restart
      PROVE  since' = since
  BY <1>1 DEF Thread, Lock, Recv, RecvError, RecvLost, Lost, CheckKnown, CheckNew,
     CheckAgain, Resume, ResumeError, InsertClient, InsertError, SendLocation,
     SetConnected, CloseApp, SendPayment, RemoveClient, ExitLost, UpdateLost,
     SendError, ExitSilently, Finish, BrokenPipe, netVars
<1>2. ASSUME NEW i \in Slot, DeviceStep(i) \/ Disconnect(i) \/ Reset(i)
      PROVE  since'[m] = since[m] \/ since[m] = -1 \/ since'[m] = -1
  BY <1>2, DeviceSince, NetTypes
<1>3. CASE DbUpdateThread \/ Tick \/ UNCHANGED vars
  BY <1>3 DEF DbUpdateThread, DbLock, DbUpdate, DbUnlock, Tick, vars, netVars
<1>4. ASSUME NEW d \in Device, Connect(d)
      PROVE  since' = since
  BY <1>4 DEF Connect
<1>5. Restart => since' = since
  BY DEF Restart
<1>6. QED
  BY <1>1, <1>2, <1>3, <1>4, <1>5 DEF Next, Environment, Crash

\* That a device has paid is remembered as long as its row or another bill
\* is there to be paid again.
LEMMA SettledStays ==
    ASSUME ChargeInv, Remember, NEW m \in Device,
           HasRow(m)' \/ \E i \in Slot : dev'[i] = m /\ HasPayment(i)',
           settled[m] \/ (since[m] # -1 /\ since'[m] = -1)
    PROVE  settled'[m]
<1>1. your_table'[m] # <<>> \/ Outstanding(m)' # {}
  <2>1. ASSUME NEW i \in Slot, dev'[i] = m, HasPayment(i)'
        PROVE  Outstanding(m)' # {}
    <3>1. reply'[i] \in {reply'[k] : k \in {j \in Slot : dev'[j] = m}} \ {NoReply}
      BY <2>1 DEF HasPayment
    <3>2. [elapsed |-> reply'[i].elapsed, price |-> reply'[i].price] \in Outstanding(m)'
      BY <2>1, <3>1 DEF Outstanding, HasPayment
    <3>3. QED
      BY <3>2
  <2>2. QED
    BY <2>1 DEF HasRow
<1>2. settled'[m] = (/\ your_table'[m] # <<>> \/ Outstanding(m)' # {}
                     /\ settled[m] \/ (since[m] # -1 /\ since'[m] = -1))
  BY DEF Remember
<1>3. QED
  BY <1>1, <1>2

\* Where the count of a thread that has answered a START comes from.
LEMMA BegunFrom ==
    ASSUME Orderly, Known, PriceInv, NetInv, [Next]_vars, NEW j \in Slot, Begun(j)'
    PROVE  /\ dev'[j] = dev[j]
           /\ \/ CheckNew(j) \/ Resume(j) \/ InsertClient(j)
              \/ /\ Begun(j)
                 /\ client'[j].time_start_parking = client[j].time_start_parking
                 /\ pc[j] \in BeforeRow => pc'[j] \in BeforeRow
<1>0. TypeInv /\ CountInv /\ Fresh /\ "dberr" \notin Faults
  BY DEF Known, Orderly
<1>z. ~ZeroedData.connected /\ ZeroedData.mac_address = NoDevice
  BY DEF ZeroedData
<1>1. ASSUME NEW i \in Slot, Thread(i), Alone(i), ~Restart
      PROVE  /\ dev'[j] = dev[j]
             /\ \/ CheckNew(j) \/ Resume(j) \/ InsertClient(j)
                \/ /\ Begun(j)
                   /\ client'[j].time_start_parking = client[j].time_start_parking
                   /\ pc[j] \in BeforeRow => pc'[j] \in BeforeRow
  <2>1. CASE j = i
    BY <1>0, <1>1, <2>1, BegunSteps DEF BegunStep, Alone
  <2>2. CASE j # i
    <3>1. ThreadFrame(i)
      BY <1>0, <1>1, ThreadFrames
    <3>2. /\ pc'[j] = pc[j] /\ client'[j] = client[j] /\ dev'[j] = dev[j]
          /\ checked_database'[j] = checked_database[j]
      BY <1>1, <2>2, <3>1 DEF Alone, ThreadFrame
    <3>3. QED
      BY <3>2 DEF Begun, Registers
  <2>3. QED
    BY <2>1, <2>2
<1>2. ASSUME UNCHANGED <<client, pc, dev, checked_database>>
      PROVE  UNCHANGED <<dev[j], pc[j], client[j]>> /\ Begun(j)
  BY <1>2 DEF Begun, Registers
<1>3. CASE Restart
  BY <1>z, <1>3 DEF Restart, Begun
<1>4. ASSUME NEW m \in Device, Connect(m)
      PROVE  UNCHANGED <<dev[j], pc[j], client[j]>> /\ Begun(j)
  <2>1. /\ client[accepted] = ZeroedData
        /\ UNCHANGED <<client, checked_database>>
        /\ \A k \in Slot : /\ pc'[k] = IF k = accepted THEN "recv" ELSE pc[k]
                           /\ dev'[k] = IF k = accepted THEN m ELSE dev[k]
    BY <1>0, <1>4, ConnectSlot DEF Connect
  <2>2. j # accepted
    BY <1>z, <1>4, <2>1, ConstantsAssumption DEF Begun, Registers
  <2>3. QED
    BY <2>1, <2>2 DEF Begun, Registers
<1>5. CASE DbUpdateThread \/ Tick \/ UNCHANGED vars
  BY <1>2, <1>5 DEF DbUpdateThread, DbLock, DbUpdate, DbUnlock, Tick, vars, serverVars, netVars
<1>6. ASSUME NEW i \in Slot, DeviceStep(i) \/ Disconnect(i) \/ Reset(i)
      PROVE  UNCHANGED <<dev[j], pc[j], client[j]>> /\ Begun(j)
  BY <1>2, <1>6, DeviceFrames DEF ServerFrame
<1>7. QED
  BY <1>0, <1>1, <1>3, <1>4, <1>5, <1>6, ThreadAlone DEF Next, Environment, Crash, BrokenPipe

\* Where a payment comes from.
LEMMA PaymentFrom ==
    ASSUME Orderly, Known, NetInv, [Next]_vars, NEW i \in Slot, HasPayment(i)'
    PROVE  LET elapsed == end_time[i] - client[i].time_start_parking
           IN  /\ dev'[i] = dev[i]
               /\ dev[i] \in Device
               /\ \/ HasPayment(i) /\ reply'[i] = reply[i]
                  \/ SendPayment(i) /\ reply'[i] = Payment(client[i].price * elapsed, elapsed)
<1> DEFINE elapsed == end_time[i] - client[i].time_start_parking
           Sent == /\ SendPayment(i)
                   /\ reply'[i] = Payment(client[i].price * elapsed, elapsed)
<1>0. TypeInv /\ Fresh /\ "dberr" \notin Faults
  BY DEF Known, Orderly
<1>1. ASSUME NEW k \in Slot, Thread(k), ~Restart
      PROVE  dev'[i] = dev[i] /\ (reply'[i] = reply[i] \/ Sent)
  <2>1. ThreadFrame(k) /\ ThreadSends(k)
    BY <1>0, <1>1, ThreadFrames, ThreadSendsReply
  <2>2. CASE k = i
    BY <1>1, <2>1, <2>2, HasPayment(i)' DEF ThreadFrame, ThreadSends, HasPayment,
       LocationReply, ErrorReply
  <2>3. CASE k # i
    BY <2>1, <2>3 DEF ThreadFrame
  <2>4. QED
    BY <2>2, <2>3
<1>2. ASSUME NEW k \in Slot, DeviceStep(k) \/ Disconnect(k) \/ Reset(k)
      PROVE  dev'[i] = dev[i] /\ reply'[i] = reply[i]
  <2>1. reply' = reply \/ reply' = [reply EXCEPT ![k] = NoReply]
    BY <1>2 DEF DeviceStep, SendStart, ReceiveLocation, SendClose, ReceivePayment, GiveUp,
       Disconnect, Reset, Leave
  <2>2. QED
    BY <1>0, <1>2, <2>1, DeviceFrames, NetTypes DEF ServerFrame, HasPayment
<1>3. ASSUME DbUpdateThread \/ Tick \/ UNCHANGED vars
      PROVE  dev'[i] = dev[i] /\ reply'[i] = reply[i]
  BY <1>3 DEF DbUpdateThread, DbLock, DbUpdate, DbUnlock, Tick, vars, netVars
<1>4. ASSUME NEW m \in Device, Connect(m)
      PROVE  dev'[i] = dev[i] /\ reply'[i] = reply[i]
  <2>1. /\ accepted \in Slot /\ pc[accepted] = "none" /\ reply' = reply
        /\ \A j \in Slot : dev'[j] = IF j = accepted THEN m ELSE dev[j]
    BY <1>0, <1>4, ConnectSlot DEF Connect
  <2>2. i # accepted
    BY <2>1 DEF NetInv, HasPayment
  <2>3. QED
    BY <2>1, <2>2
<1>5. ~Restart
  BY DEF Restart, HasPayment
<1>6. dev'[i] = dev[i] /\ (reply'[i] = reply[i] \/ Sent)
  BY <1>1, <1>2, <1>3, <1>4, <1>5 DEF Next, Environment, Crash
<1>7. reply'[i] = reply[i] => HasPayment(i)
  BY DEF HasPayment
<1>8. HasPayment(i) \/ SendPayment(i) => dev[i] \in Device
  BY <1>0 DEF NetInv, HasPayment, SendPayment, TypeInv, Registered
<1>9. QED
  BY <1>6, <1>7, <1>8

\* As long as a thread counts, its device waits for the payment.
LEMMA BegunWaits ==
    ASSUME Known, RunInv, NEW j \in Slot, Begun(j)
    PROVE  dev[j] \in Device /\ since[dev[j]] # -1
<1>0. ~ZeroedData.connected
  BY DEF ZeroedData
<1>1. Live(j) /\ pc[j] \notin Billed
  BY <1>0 DEF Begun, Live, Billed, Known, TypeInv, Registered, CountInv, Left, Fresh
<1>2. Registers(j)
  BY DEF Begun
<1>3. dev[j] \in Device
  BY <1>1 DEF Known, TypeInv, Registered, Live
<1>4. QED
  BY <1>1, <1>2, <1>3 DEF RunInv

LEMMA InsertStarts ==
    ASSUME TypeInv, RunInv, NEW i \in Slot, InsertClient(i)
    PROVE  /\ client'[i].time_start_parking = client[i].time_start_parking
           /\ dev[i] \in Device
           /\ since[dev[i]] # -1
           /\ client[i].time_start_parking >= since[dev[i]]
<1>1. pc[i] = "insert" /\ Registers(i)
  BY DEF InsertClient, TypeInv, Registered, Served, Registers
<1>2. dev[i] \in Device
  BY <1>1 DEF TypeInv, Registered
<1>3. client'[i].time_start_parking = client[i].time_start_parking
  BY NetTypes DEF InsertClient, Priced, pango_data
<1>4. QED
  BY <1>1, <1>2, <1>3 DEF RunInv, BeforeRow, Live, Billed

\* A resumption goes on from what the row says was used.
LEMMA ResumeStarts ==
    ASSUME TypeInv, "dberr" \notin Faults, ResumeInv, NEW i \in Slot, Resume(i)
    PROVE  /\ dev[i] \in Device
           /\ HasRow(dev[i])
           /\ RowOf(dev[i]).TIME_USED \in Int
           /\ client'[i].time_start_parking = now - RowOf(dev[i]).TIME_USED
           /\ your_table' = your_table
<1>1. HasRow(dev[i])
  BY DEF Resume, ResumeInv
<1>2. client[i] \in pango_data
  BY NetTypes
<1>3. /\ your_table' = your_table /\ dev[i] \in Device
      /\ client'[i] = [client[i] EXCEPT
           !.time_start_parking = now - RowOf(dev[i]).TIME_USED,
           !.connected = TRUE,
           !.location = RowOf(dev[i]).LOCATION,
           !.price = PriceAt(RowOf(dev[i]).LOCATION, client[i].price)]
  BY <1>1, Resumed
<1>4. RowOf(dev[i]).TIME_USED \in Int
  BY <1>1, <1>3, RowType DEF TypeInv, Row
<1>5. client'[i].time_start_parking = now - RowOf(dev[i]).TIME_USED
  BY <1>2, <1>3 DEF pango_data
<1>6. QED
  BY <1>1, <1>3, <1>4, <1>5

\* What is known of the server in every state.
ServerInv == Known /\ ResumeInv /\ TimeInv /\ PriceInv /\ NetInv /\ RunInv

LEMMA NextCharge ==
    ASSUME Orderly, ServerInv, ServerInv', ChargeInv, [Next]_vars, Remember
    PROVE  ChargeInv'
<1>0. /\ TypeInv /\ TypeInv' /\ "dberr" \notin Faults
      /\ Known /\ ResumeInv /\ TimeInv /\ PriceInv /\ NetInv /\ RunInv
      /\ RunInv' /\ TimeInv'
  BY DEF ServerInv, Known, Orderly
<1>n. now' \in {now, now + 1} /\ now \in Nat
  BY <1>0, NextSteps, ConnectSlot, NetTypes DEF NextStep, Alone, NoSlot, Restart, Known
<1>s. \A m \in Device : since[m] \in Int /\ since'[m] \in Int
  BY <1>0 DEF TypeInv, TypeOK
<1>t. \A j \in Slot : client[j].time_start_parking \in 0 .. now
                     /\ client'[j].time_start_parking \in 0 .. now'
  BY <1>0 DEF TimeInv
<1>1. settled' \in [Device -> BOOLEAN]
  <2> DEFINE unread(m) == Outstanding(m)' # {}
             seen(m) == /\ your_table'[m] # <<>> \/ unread(m)
                        /\ settled[m] \/ (since[m] # -1 /\ since'[m] = -1)
  <2>1. settled' = [m \in Device |-> seen(m)]
    BY DEF Remember
  <2>2. \A m \in Device : seen(m) \in BOOLEAN
    BY DEF ChargeInv
  <2> HIDE DEF seen
  <2>3. QED
    BY <2>1, <2>2
\* The count of a thread.
<1>2. ASSUME NEW j \in Slot, Begun(j)'
      PROVE  settled'[dev'[j]] \/ client'[j].time_start_parking >= since'[dev'[j]]
  <2>1. CASE pc'[j] \in BeforeRow
    BY <1>0, <2>1 DEF RunInv
  <2>2. CASE pc'[j] \notin BeforeRow
    <3>1. /\ dev'[j] = dev[j]
          /\ \/ CheckNew(j) \/ Resume(j) \/ InsertClient(j)
             \/ Begun(j) /\ client'[j].time_start_parking = client[j].time_start_parking
      BY <1>0, <1>2, BegunFrom
    <3>2. ~CheckNew(j)
      BY <1>0, <2>2, CheckNewLocates DEF BeforeRow
    <3>3. dev[j] \in Device
      BY <1>0, <3>1, <3>2, BegunWaits, InsertStarts, ResumeStarts
    <3>4. PICK m \in Device : m = dev[j]
      BY <3>3
    <3>5. HasRow(m)'
      BY <1>0, <1>2, <2>2, <3>1, <3>4 DEF RunInv, HasRow
    <3>6. CASE settled[m]
      BY <3>1, <3>4, <3>5, <3>6, SettledStays
    <3>7. CASE ~settled[m]
      <4>1. client'[j].time_start_parking >= since[m] /\ since[m] # -1
        <5>1. CASE Resume(j)
          <6>1. since[m] # -1 /\ RowOf(m).TIME_USED <= now - since[m]
            BY <1>0, <3>4, <3>7, <5>1, ResumeStarts DEF ChargeInv
          <6>2. QED
            BY <1>0, <1>n, <1>s, <3>4, <5>1, <6>1, ResumeStarts
        <5>2. CASE InsertClient(j)
          BY <1>0, <3>4, <5>2, InsertStarts
        <5>3. CASE Begun(j) /\ client'[j].time_start_parking = client[j].time_start_parking
          BY <1>0, <3>4, <3>7, <5>3, BegunWaits DEF ChargeInv
        <5>4. QED
          BY <3>1, <3>2, <5>1, <5>2, <5>3
      <4>2. since'[m] = since[m] \/ since'[m] = -1
        BY <1>0, <4>1, NextSince
      <4>3. QED
        BY <1>n, <1>t, <3>1, <3>4, <4>1, <4>2
    <3>8. QED
      BY <3>6, <3>7
  <2>3. QED
    BY <2>1, <2>2
\* The time of a row.
<1>3. ASSUME NEW m \in Device, HasRow(m)'
      PROVE  settled'[m] \/ (since'[m] # -1 /\ RowOf(m)'.TIME_USED <= now' - since'[m])
  <2>1. CASE settled[m] \/ (since[m] # -1 /\ since'[m] = -1)
    BY <1>3, <2>1, SettledStays
  <2>2. CASE ~settled[m] /\ ~(since[m] # -1 /\ since'[m] = -1)
    <3>1. since[m] # -1 /\ RowOf(m)'.TIME_USED <= now - since[m]
      <4>1. CASE HasRow(m) /\ RowOf(m)' = RowOf(m)
        BY <2>2, <4>1 DEF ChargeInv
      <4>2. ASSUME NEW i \in Slot, InsertClient(i), m = dev[i], RowOf(m)'.TIME_USED = 0
            PROVE  since[m] # -1 /\ RowOf(m)'.TIME_USED <= now - since[m]
        BY <1>0, <1>n, <1>s, <1>t, <4>2, InsertStarts
      <4>3. ASSUME NEW i \in Slot, Counted(i), m = dev[i], m = client[i].mac_address, HasRow(m),
                   RowOf(m)' = [RowOf(m) EXCEPT !.TIME_USED = now - client[i].time_start_parking]
            PROVE  since[m] # -1 /\ RowOf(m)'.TIME_USED <= now - since[m]
        <5>1. Begun(i)
          BY <4>3 DEF Counted, Begun, Registers
        <5>2. since[m] # -1 /\ client[i].time_start_parking >= since[m]
          BY <1>0, <2>2, <4>3, <5>1, BegunWaits DEF ChargeInv
        <5>3. RowOf(m)'.TIME_USED = now - client[i].time_start_parking
          BY <1>0, <4>3, RowType DEF TypeInv, Row
        <5>4. QED
          BY <1>n, <1>s, <1>t, <5>2, <5>3
      <4>4. RowStep(m)
        BY <1>0, <1>3, NextRowStep
      <4>5. QED
        BY <4>1, <4>2, <4>3, <4>4 DEF RowStep
    <3>2. since'[m] = since[m]
      BY <1>0, <2>2, <3>1, NextSince
    <3>3. RowOf(m)'.TIME_USED \in Int
      BY <1>0, <1>3 DEF TimeInv
    <3>4. QED
      BY <1>n, <1>s, <3>1, <3>2, <3>3
  <2>3. QED
    BY <2>1, <2>2
\* The payment.
<1>4. ASSUME NEW i \in Slot, HasPayment(i)'
      PROVE  \/ settled'[dev'[i]]
             \/ since'[dev'[i]] # -1 /\ reply'[i].elapsed <= now' - since'[dev'[i]]
  <2> DEFINE elapsed == end_time[i] - client[i].time_start_parking
  <2>1. /\ dev'[i] = dev[i]
        /\ dev[i] \in Device
        /\ \/ HasPayment(i) /\ reply'[i] = reply[i]
           \/ SendPayment(i) /\ reply'[i] = Payment(client[i].price * elapsed, elapsed)
    BY <1>0, <1>4, PaymentFrom
  <2>2. PICK m \in Device : m = dev[i]
    BY <2>1
  <2>3. CASE settled[m] \/ (since[m] # -1 /\ since'[m] = -1)
    BY <1>4, <2>1, <2>2, <2>3, SettledStays
  <2>4. CASE ~settled[m] /\ ~(since[m] # -1 /\ since'[m] = -1)
    <3>1. since[m] # -1 /\ reply'[i].elapsed <= now - since[m]
      <4>1. CASE HasPayment(i) /\ reply'[i] = reply[i]
        BY <2>2, <2>4, <4>1 DEF ChargeInv
      <4>2. CASE SendPayment(i) /\ reply'[i] = Payment(client[i].price * elapsed, elapsed)
        <5>1. Begun(i)
          BY <1>0, <4>2 DEF SendPayment, Begun, Registers, TypeInv, Registered
        <5>2. since[m] # -1 /\ client[i].time_start_parking >= since[m]
          BY <1>0, <2>2, <2>4, <5>1, BegunWaits DEF ChargeInv
        <5>3. end_time[i] <= now /\ end_time[i] \in Nat
          BY <1>0, NetTypes DEF RunInv
        <5>4. reply'[i].elapsed = elapsed
          BY <4>2 DEF Payment
        <5>5. QED
          BY <1>n, <1>s, <1>t, <5>2, <5>3, <5>4
      <4>3. QED
        BY <2>1, <4>1, <4>2
    <3>2. since'[m] = since[m]
      BY <1>0, <2>4, <3>1, NextSince
    <3>3. reply'[i].elapsed \in Int
      BY <1>0, <1>4 DEF HasPayment, TypeInv, TypeOK, Reply
    <3>4. QED
      BY <1>n, <1>s, <2>1, <2>2, <3>1, <3>2, <3>3
  <2>5. QED
    BY <2>3, <2>4
<1>5. QED
  BY <1>1, <1>2, <1>3, <1>4 DEF ChargeInv, HasRow, RowOf

LEMMA StutterCharge ==
    ASSUME ChargeInv, UNCHANGED <<vars, meterVars>>
    PROVE  ChargeInv'
BY DEF vars, serverVars, netVars, meterVars, ChargeInv, Begun, Registers, HasRow, RowOf, HasPayment

LEMMA InitCharge == MeterInit => ChargeInv
<1>1. ASSUME MeterInit
      PROVE  /\ \A i \in Slot : pc[i] = "none" /\ ~client[i].connected /\ reply[i] = NoReply
             /\ \A m \in Device : your_table[m] = <<>>
             /\ settled = [m \in Device |-> FALSE]
  BY <1>1 DEF MeterInit, Init, ServerInit, NetInit, ZeroedData
<1>2. QED
  BY <1>1 DEF ChargeInv, Begun, HasRow, HasPayment

\* The histories add nothing to the server.
LEMMA MeterIsServer == MeterSpec => Spec
<1>1. MeterInit => Init
  BY DEF MeterInit
<1>2. [MeterNext]_<<vars, meterVars>> => [Next]_vars
  BY DEF MeterNext
<1>3. QED
  BY <1>1, <1>2, PTL DEF MeterSpec, Spec

LEMMA AlwaysServerInv ==
    ASSUME Orderly
    PROVE  Spec => []ServerInv
BY AlwaysKnown, AlwaysRunInv, PTL DEF ServerInv

\* If a device stays away until the thread of its old connection has ended, no
\* message is corrupted and SQLite does not fail, a device is never asked to
\* pay for more time than has passed since the START of its parking: whatever
\* number of losses, resets, resumptions, backups and restarts lie between,
\* unless it has received a payment for that row already and the server died
\* before it could remove the row.
THEOREM ChargeTheorem ==
    ASSUME Orderly
    PROVE  MeterSpec => []ChargedOnce
<1>1. ASSUME ServerInv, ServerInv', ChargeInv, [MeterNext]_<<vars, meterVars>>
      PROVE  ChargeInv'
  BY <1>1, NextCharge, StutterCharge DEF MeterNext
<1>2. ChargeInv => ChargedOnce
  BY DEF ChargeInv, ChargedOnce, HasPayment
<1>3. MeterSpec => []ServerInv
  BY MeterIsServer, AlwaysServerInv, PTL
<1>4. QED
  BY <1>1, <1>2, <1>3, InitCharge, PTL DEF MeterSpec
-----------------------------------------------------------------------------
(* The backup keeps up with the clock.                                      *)

\* What the two ends are at while no time, or some time, is counted: a device
\* that has not sent its START is listened to; a START that was not received
\* is a first one; and a connection that is up and counted can only go on to
\* its CLOSE.
TalkInv ==
    \A i \in Slot :
        /\ phase[i] = "open" => /\ pc[i] = "recv" /\ link[i] = "up"
                                /\ inbox[i] = NoMsg /\ ~client[i].connected
        /\ inbox[i] # NoMsg /\ inbox[i].status = "START_APP" =>
              pc[i] = "recv" /\ ~client[i].connected
        /\ client[i].connected /\ link[i] = "up" => pc[i] \in {"recv", "closeLock", "close"}

\* The mutex was taken in this second by the database thread, after the second
\* in which it started, and it has it still; and since the server started, which
\* slot counts since when is known.
TurnInv ==
    /\ dbStart <= now
    /\ turn = "taken" => mutex = DbThread /\ now > dbStart
    /\ \A i \in Slot : punctual /\ client[i].connected => connectedAt[i] \in dbStart .. now

\* The database thread backs up in second t,
Due(t) == t > dbStart /\ (t - dbStart) % Period = 0

\* and has been at slot i in doing so.
Swept(t, i) ==
    \/ t < now
    \/ t = now /\ (turn = "released" \/ (turn = "taken" /\ i < dbNext))

\* Nothing is under way on a connection that is counted.
Idle(i) == client[i].connected /\ pc[i] = "recv" /\ inbox[i] = NoMsg /\ link[i] = "up"

\* The row has the time up to every backup since the connection counts.
SweptInv ==
    \A i \in Slot : punctual /\ Idle(i) =>
        \A t \in Nat : Due(t) /\ connectedAt[i] < t /\ Swept(t, i) =>
            RowOf(dev[i]).TIME_USED >= t - client[i].time_start_parking

BackupInv == TalkInv /\ TurnInv /\ SweptInv

\* What a step of a thread does to its own slot, as far as it is counted.
TalkStep(i) ==
    /\ \A j \in Slot : j # i => link'[j] = link[j]
    /\ link'[i] = "up" => link[i] = "up"
    /\ pc[i] = "recv" /\ (link[i] = "up" \/ inbox[i] # NoMsg) => Recv(i)
    /\ pc[i] = "closeLock" => pc'[i] = "close"
    /\ pc[i] = "close" => ~client'[i].connected
    /\ client[i].connected \/ ~client'[i].connected \/ Resume(i) \/ SetConnected(i)

LEMMA TalkSteps ==
    ASSUME TypeInv, "dberr" \notin Faults, NEW i \in Slot, Thread(i), ~Restart
    PROVE  TalkStep(i)
<1> USE NetTypes DEF TalkStep, Goto, Unlock, netVars
<1>1. CASE Lock(i)
  BY <1>1 DEF Lock, Waiting, CriticalSection
<1>2. CASE Recv(i) \/ RecvError(i)
  <2>1. ASSUME NEW m, Process(i, m)
        PROVE  client'[i].connected = client[i].connected
    BY <2>1 DEF Process, pango_data
  <2>2. client'[i].connected = client[i].connected /\ pc[i] = "recv"
    BY <1>2, <2>1 DEF Recv, RecvError
  <2>3. CASE Recv(i)
    BY <2>2, <2>3 DEF Recv
  <2>4. CASE RecvError(i)
    BY <2>2, <2>4 DEF RecvError
  <2>5. QED
    BY <1>2, <2>3, <2>4
<1>3. CASE RecvLost(i) \/ Lost(i)
  BY <1>3 DEF RecvLost, Lost, pango_data
<1>4. CASE CheckNew(i)
  BY <1>4 DEF CheckNew, pango_data
<1>5. CASE Resume(i)
  BY <1>5 DEF Resume, Send
<1>6. CASE InsertClient(i)
  <2>1. PICK got \in Got : client' = [client EXCEPT ![i] = Priced(@, got)]
    BY <1>6 DEF InsertClient
  <2>2. client'[i].connected = client[i].connected
    BY <2>1 DEF Priced, pango_data
  <2>3. QED
    BY <1>6, <2>2 DEF InsertClient
<1>7. CASE SetConnected(i)
  BY <1>7 DEF SetConnected
<1>8. CASE SendLocation(i) \/ SendPayment(i) \/ SendError(i)
  BY <1>8 DEF SendLocation, SendPayment, SendError, Send
<1>9. CASE CloseApp(i)
  BY <1>9 DEF CloseApp, pango_data
<1>10. CASE CheckKnown(i) \/ CheckAgain(i) \/ RemoveClient(i) \/ ExitLost(i) \/ UpdateLost(i)
            \/ ExitSilently(i) \/ Finish(i)
  BY <1>10 DEF CheckKnown, CheckAgain, RemoveClient, ExitLost, UpdateLost, ExitSilently, Finish
<1>11. CASE ResumeError(i) \/ InsertError(i)
  BY <1>11, NoDbError DEF ResumeError, InsertError
<1>12. QED
  BY <1>1, <1>2, <1>3, <1>4, <1>5, <1>6, <1>7, <1>8, <1>9, <1>10, <1>11 DEF Thread, BrokenPipe

LEMMA ThreadTalk ==
    ASSUME TypeInv, CountInv, TalkInv, "dberr" \notin Faults,
           NEW i \in Slot, Thread(i), ~Restart
    PROVE  TalkInv'
<1>1. Alone(i) /\ ThreadFrame(i) /\ TalkStep(i)
  BY ThreadAlone, ThreadFrames, TalkSteps DEF BrokenPipe
<1>2. phase[i] # "open"
  BY <1>1 DEF TalkInv, TalkStep, Recv
<1>3. inbox'[i] # NoMsg => inbox'[i].status # "START_APP"
  <2>1. ~Recv(i) \/ inbox'[i] = NoMsg
    BY NetTypes DEF Recv
  <2>2. QED
    BY <1>1, <2>1 DEF TalkInv, TalkStep, ThreadFrame
<1>4. ASSUME client'[i].connected, link'[i] = "up"
      PROVE  pc'[i] \in {"recv", "closeLock", "close"}
  <2>1. CASE Resume(i) \/ SetConnected(i)
    BY <2>1, NetTypes DEF Resume, SetConnected, Unlock, Goto
  <2>2. CASE client[i].connected
    <3>1. link[i] = "up" /\ pc[i] \in {"recv", "closeLock"}
      BY <1>1, <1>4, <2>2 DEF TalkInv, TalkStep
    <3>2. CASE Recv(i)
      <4>1. inbox[i] # NoMsg /\ Right(inbox[i])
        BY <3>2 DEF Recv, CountInv, Right
      <4>2. inbox[i].status # "START_APP"
        BY <2>2, <4>1 DEF TalkInv
      <4>3. QED
        BY <3>2, <4>1, <4>2, NetTypes DEF Recv, Process, Right, Goto
    <3>3. CASE pc[i] = "closeLock"
      BY <1>1, <3>3 DEF TalkStep
    <3>4. QED
      BY <1>1, <3>1, <3>2, <3>3 DEF TalkStep
  <2>3. QED
    BY <1>1, <1>4, <2>1, <2>2 DEF TalkStep
<1>5. QED
  BY <1>1, <1>2, <1>3, <1>4 DEF Alone, ThreadFrame, TalkStep, TalkInv

LEMMA DeviceTalk ==
    ASSUME TypeInv, TalkInv, NEW i \in Slot, DeviceStep(i) \/ Disconnect(i) \/ Reset(i)
    PROVE  TalkInv'
<1> USE NetTypes DEF TalkInv
<1>1. UNCHANGED <<client, pc>>
  BY DeviceFrames DEF ServerFrame
<1>2. CASE SendStart(i)
  <2>1. phase' = [phase EXCEPT ![i] = "starting"] /\ phase[i] = "open" /\ link' = link
        /\ \A j \in Slot : j # i => inbox'[j] = inbox[j]
    BY <1>2, Transmitted DEF SendStart
  <2>2. QED
    BY <1>1, <2>1
<1>3. CASE SendClose(i)
  <2>1. /\ inbox'[i].status = "CLOSE_APP"
        /\ \A j \in Slot : j # i => inbox'[j] = inbox[j]
    BY <1>3, Transmitted DEF SendClose
  <2>2. phase' = [phase EXCEPT ![i] = "closing"] /\ link' = link
    BY <1>3 DEF SendClose
  <2>3. QED
    BY <1>1, <2>1, <2>2
<1>4. CASE ReceiveLocation(i)
  BY <1>1, <1>4 DEF ReceiveLocation
<1>5. CASE ReceivePayment(i) \/ GiveUp(i)
  BY <1>1, <1>5 DEF ReceivePayment, GiveUp
<1>6. CASE Disconnect(i) \/ Reset(i)
  BY <1>1, <1>6 DEF Disconnect, Reset, Leave
<1>7. QED
  BY <1>2, <1>3, <1>4, <1>5, <1>6 DEF DeviceStep

LEMMA ConnectTalk ==
    ASSUME TypeInv, Fresh, NetInv, TalkInv, NEW m \in Device, Connect(m)
    PROVE  TalkInv'
<1>1. accepted \in Slot /\ pc[accepted] = "none" /\ ~client[accepted].connected
  <2>1. ~ZeroedData.connected
    BY DEF ZeroedData
  <2>2. QED
    BY <2>1, ConnectSlot
<1>2. inbox[accepted] = NoMsg
  BY <1>1 DEF NetInv
<1>3. QED
  BY <1>1, <1>2, NetTypes DEF Connect, TalkInv

LEMMA NextTalk ==
    ASSUME Orderly, Known, NetInv, TalkInv, [Next]_vars
    PROVE  TalkInv'
<1> USE DEF Known, Orderly
<1>1. CASE Restart
  BY <1>1 DEF Restart, TalkInv, ZeroedData
<1>2. ASSUME NEW i \in Slot, Thread(i), ~Restart
      PROVE  TalkInv'
  BY <1>2, ThreadTalk
<1>3. CASE DbUpdateThread \/ Tick \/ UNCHANGED vars
  <2>1. UNCHANGED <<client, pc, netVars>>
    BY <1>3 DEF DbUpdateThread, DbLock, DbUpdate, DbUnlock, Tick, vars, serverVars
  <2>2. QED
    BY <2>1 DEF TalkInv, netVars
<1>4. ASSUME NEW i \in Slot, DeviceStep(i) \/ Disconnect(i) \/ Reset(i)
      PROVE  TalkInv'
  BY <1>4, DeviceTalk
<1>5. ASSUME NEW m \in Device, Connect(m)
      PROVE  TalkInv'
  BY <1>5, ConnectTalk
<1>6. QED
  BY <1>1, <1>2, <1>3, <1>4, <1>5 DEF Next, Environment, Crash

\* What a step that is not a restart does to the clock and the database thread.
ClockStep ==
    /\ dbStart' = dbStart
    /\ accepted' >= accepted
    /\ now' = now \/ Tick
    /\ dbNext' = dbNext \/ DbLock \/ DbUpdate
    /\ mutex = DbThread => mutex' = DbThread \/ DbUnlock

LEMMA ThreadClock ==
    ASSUME TypeInv, MutexDiscipline, "dberr" \notin Faults,
           NEW i \in Slot, Thread(i), ~Restart
    PROVE  /\ UNCHANGED <<now, accepted, dbStart, dbNext>>
           /\ mutex = DbThread => mutex' = DbThread
<1>1. mutex = DbThread => pc[i] \notin Critical
  BY ConstantsAssumption DEF MutexDiscipline, DbThread, Slot
<1> USE DEF Critical, Unlock, Goto
<1>2. CASE Lock(i)
  BY <1>2 DEF Lock, Free, DbThread
<1>3. CASE Recv(i) \/ RecvError(i) \/ RecvLost(i) \/ Lost(i)
  BY <1>1, <1>3 DEF Recv, RecvError, RecvLost, Lost
<1>4. CASE CheckKnown(i) \/ CheckNew(i) \/ CheckAgain(i) \/ Resume(i) \/ InsertClient(i)
  BY <1>1, <1>4 DEF CheckKnown, CheckNew, CheckAgain, Resume, InsertClient
<1>5. CASE SendLocation(i) \/ SetConnected(i) \/ CloseApp(i) \/ SendPayment(i) \/ RemoveClient(i)
  BY <1>1, <1>5 DEF SendLocation, SetConnected, CloseApp, SendPayment, RemoveClient
<1>6. CASE ExitLost(i) \/ UpdateLost(i) \/ SendError(i) \/ ExitSilently(i) \/ Finish(i)
  BY <1>1, <1>6 DEF ExitLost, UpdateLost, SendError, ExitSilently, Finish
<1>7. CASE ResumeError(i) \/ InsertError(i)
  BY <1>7, NoDbError DEF ResumeError, InsertError
<1>8. QED
  BY <1>2, <1>3, <1>4, <1>5, <1>6, <1>7 DEF Thread, BrokenPipe

LEMMA ClockSteps ==
    ASSUME Orderly, Known, MutexDiscipline, [Next]_vars, ~Restart
    PROVE  ClockStep
<1> USE DEF ClockStep, Known
<1>0. accepted \in Nat
  BY ConstantsAssumption DEF TypeInv, TypeOK
<1>1. ASSUME NEW i \in Slot, Thread(i)
      PROVE  ClockStep
  BY <1>0, <1>1, ThreadClock DEF Orderly
<1>2. CASE DbUpdateThread \/ UNCHANGED vars
  BY <1>0, <1>2 DEF DbUpdateThread, DbLock, DbUpdate, DbUnlock, vars, serverVars
<1>3. CASE Tick
  BY <1>0, <1>3 DEF Tick, serverVars
<1>4. ASSUME NEW i \in Slot, DeviceStep(i) \/ Disconnect(i) \/ Reset(i)
      PROVE  ClockStep
  BY <1>0, <1>4 DEF DeviceStep, SendStart, ReceiveLocation, SendClose, ReceivePayment,
     GiveUp, Disconnect, Reset, Leave, serverVars
<1>5. ASSUME NEW m \in Device, Connect(m)
      PROVE  ClockStep
  BY <1>0, <1>5 DEF Connect
<1>6. QED
  BY <1>1, <1>2, <1>3, <1>4, <1>5 DEF Next, Environment, Crash

\* The turn of the database thread, from one state to the next.
LEMMA TurnStep ==
    ASSUME Remember
    PROVE  /\ turn' = "taken" =>
                /\ now' = now /\ dbStart' = dbStart
                /\ (turn = "none" /\ DbLock) \/ (turn = "taken" /\ ~DbUnlock)
           /\ turn' = "released" =>
                now' = now /\ ((turn = "taken" /\ DbUnlock) \/ turn = "released")
<1> DEFINE gone == ~punctual' \/ now' # now \/ dbStart' # dbStart
<1>0. turn' = IF gone THEN "none"
              ELSE IF turn = "none" /\ DbLock THEN "taken"
              ELSE IF turn = "taken" /\ DbUnlock THEN "released"
              ELSE turn
  BY DEF Remember
<1> HIDE DEF gone
<1>1. CASE gone
  BY <1>0, <1>1
<1>2. CASE ~gone
  <2>1. now' = now /\ dbStart' = dbStart
    BY <1>2 DEF gone
  <2>2. CASE turn = "none" /\ DbLock
    <3>1. turn' = "taken"
      BY <1>0, <1>2, <2>2
    <3>2. turn' # "released"
      BY <3>1
    <3>3. QED
      BY <2>1, <2>2, <3>2
  <2>3. CASE turn = "taken" /\ DbUnlock
    BY <1>0, <1>2, <2>1, <2>3
  <2>4. CASE ~(turn = "none" /\ DbLock) /\ ~(turn = "taken" /\ DbUnlock)
    BY <1>0, <1>2, <2>1, <2>4
  <2>5. QED
    BY <2>2, <2>3, <2>4
<1>3. QED
  BY <1>1, <1>2

\* A slot that goes on counting does so since the same second.
LEMMA SinceStep ==
    ASSUME Remember, NEW i \in Slot, punctual', client'[i].connected
    PROVE  connectedAt'[i] = IF client[i].connected THEN connectedAt[i] ELSE now
BY DEF Remember

LEMMA PunctualStep ==
    ASSUME Remember, ClockStep, accepted \in Nat, accepted' \in Nat, punctual'
    PROVE  punctual /\ (now' # now => turn = "released" \/ now = dbStart)
<1>1. punctual' = \/ dbStart' # dbStart \/ accepted' < accepted
                  \/ punctual /\ (now' # now => turn = "released" \/ now = dbStart)
  BY DEF Remember
<1>2. dbStart' = dbStart /\ ~(accepted' < accepted)
  BY DEF ClockStep
<1>3. QED
  BY <1>1, <1>2

LEMMA NextTurn ==
    ASSUME Orderly, Known, Known', MutexDiscipline, TurnInv, Next, Remember
    PROVE  TurnInv'
<1> USE DEF TurnInv
<1>0. now \in Nat /\ dbStart \in Nat /\ accepted \in Nat /\ accepted' \in Nat
  BY ConstantsAssumption DEF Known, TypeInv, TypeOK
<1>1. CASE Restart
  <2>1. now' = now /\ dbStart' = now /\ \A i \in Slot : ~client'[i].connected
    BY <1>1 DEF Restart, ZeroedData
  <2>2. mutex' = Free
    BY <1>1 DEF Restart
  <2>3. turn' # "taken"
    <3>1. SUFFICES ASSUME turn' = "taken"
                   PROVE  FALSE
      OBVIOUS
    <3>2. dbStart' = dbStart /\ ~DbLock
      BY <2>2, <3>1, TurnStep DEF DbLock, Free, DbThread
    <3>3. turn = "taken"
      BY <3>1, <3>2, TurnStep
    <3>4. QED
      BY <1>0, <2>1, <3>2, <3>3
  <2>4. QED
    BY <1>0, <2>1, <2>3
<1>2. CASE ~Restart
  <2>1. ClockStep
    BY <1>2, ClockSteps
  <2>2. now' \in {now, now + 1} /\ dbStart' = dbStart
    BY <2>1 DEF ClockStep, Tick
  <2>3. ASSUME turn' = "taken"
        PROVE  mutex' = DbThread /\ now' > dbStart'
    <3>1. CASE DbLock
      BY <1>0, <2>2, <3>1 DEF DbLock
    <3>2. CASE ~DbLock
      <4>1. turn = "taken" /\ ~DbUnlock
        BY <2>3, <3>2, TurnStep
      <4>2. QED
        BY <1>0, <2>1, <2>2, <4>1 DEF ClockStep
    <3>3. QED
      BY <3>1, <3>2
  <2>4. ASSUME NEW i \in Slot, punctual', client'[i].connected
        PROVE  connectedAt'[i] \in dbStart' .. now'
    <3>1. punctual
      BY <1>0, <2>1, <2>4, PunctualStep
    <3>2. QED
      BY <1>0, <2>2, <2>4, <3>1, SinceStep
  <2>5. QED
    BY <1>0, <2>2, <2>3, <2>4
<1>3. QED
  BY <1>1, <1>2

\* Who is idle was idle, or has just begun to count.
LEMMA IdleStep ==
    ASSUME Orderly, Known, NetInv, TalkInv, [Next]_vars, ~Restart, NEW i \in Slot, Idle(i)'
    PROVE  /\ dev'[i] = dev[i]
           /\ \/ ~client[i].connected /\ now' = now
              \/ Idle(i) /\ client'[i].time_start_parking = client[i].time_start_parking
<1> USE NetTypes DEF Known, Orderly
<1>1. ASSUME NEW j \in Slot, Thread(j)
      PROVE  /\ dev'[i] = dev[i]
             /\ \/ ~client[i].connected /\ now' = now
                \/ Idle(i) /\ client'[i] = client[i]
  <2>1. Alone(j) /\ ThreadFrame(j) /\ TalkStep(j)
    BY <1>1, ThreadAlone, ThreadFrames, TalkSteps DEF BrokenPipe
  <2>2. dev'[i] = dev[i] /\ now' = now
    BY <2>1 DEF Alone
  <2>3. CASE j # i
    BY <2>1, <2>2, <2>3 DEF Alone, ThreadFrame, TalkStep, Idle
  <2>4. CASE j = i
    <3>1. SUFFICES ASSUME client[i].connected
                   PROVE  FALSE
      BY <2>2
    <3>2. link[i] = "up" /\ pc[i] \in {"recv", "closeLock", "close"}
      BY <2>1, <2>4, <3>1 DEF Idle, TalkInv, TalkStep
    <3>3. Recv(i)
      BY <2>1, <2>4, <3>2 DEF Idle, TalkStep
    <3>4. pc'[i] # "recv"
      BY <3>3 DEF Recv, Process, Goto
    <3>5. QED
      BY <3>4 DEF Idle
  <2>5. QED
    BY <2>3, <2>4
<1>2. CASE DbUpdateThread \/ Tick \/ UNCHANGED vars
  <2>1. UNCHANGED <<client, pc, netVars>>
    BY <1>2 DEF DbUpdateThread, DbLock, DbUpdate, DbUnlock, Tick, vars, serverVars
  <2>2. QED
    BY <2>1 DEF Idle, netVars
<1>3. ASSUME NEW j \in Slot, DeviceStep(j) \/ Disconnect(j) \/ Reset(j)
      PROVE  dev' = dev /\ client' = client /\ Idle(i)
  <2>1. UNCHANGED <<dev, client, pc>>
    BY <1>3, DeviceFrames DEF ServerFrame
  <2>2. CASE SendStart(j) \/ SendClose(j)
    <3>1. link' = link
      BY <2>2 DEF SendStart, SendClose
    <3>2. \A k \in Slot : k # j => inbox'[k] = inbox[k]
      BY <2>2, Transmitted DEF SendStart, SendClose
    <3>3. inbox'[j] # NoMsg
      <4>1. PICK s \in {"START_APP", "CLOSE_APP"} : Transmit(j, s)
        BY <2>2 DEF SendStart, SendClose
      <4>2. PICK xy \in Coords, ok \in {TRUE, "corrupt" \notin Faults} :
              inbox' = [inbox EXCEPT ![j] = [status |-> s, coords |-> xy, crc_ok |-> ok]]
        BY <4>1 DEF Transmit
      <4>3. [status |-> s, coords |-> xy, crc_ok |-> ok] \in Message
        BY DEF Message
      <4>4. QED
        BY <4>2, <4>3, NoMsgAssumption
    <3>4. QED
      BY <2>1, <3>1, <3>2, <3>3 DEF Idle
  <2>3. CASE ReceiveLocation(j) \/ ReceivePayment(j) \/ GiveUp(j)
    BY <2>1, <2>3 DEF ReceiveLocation, ReceivePayment, GiveUp, Idle
  <2>4. CASE Disconnect(j) \/ Reset(j)
    BY <2>1, <2>4 DEF Disconnect, Reset, Leave, Idle
  <2>5. QED
    BY <1>3, <2>2, <2>3, <2>4 DEF DeviceStep
<1>4. ASSUME NEW m \in Device, Connect(m)
      PROVE  i # accepted /\ dev'[i] = dev[i] /\ client' = client /\ Idle(i)
  <2>1. i # accepted
    <3>1. ~ZeroedData.connected
      BY DEF ZeroedData
    <3>2. QED
      BY <1>4, <3>1, ConnectSlot DEF Idle
  <2>2. QED
    BY <1>4, <2>1, ConnectSlot DEF Connect, Idle
<1>5. QED
  BY <1>1, <1>2, <1>3, <1>4 DEF Next, Environment, Crash

\* A counted slot is registered, its device is one, and has a row.
LEMMA IdleRow ==
    ASSUME PriceInv, NEW i \in Slot, Idle(i)
    PROVE  dev[i] \in Device /\ client[i].mac_address = dev[i] /\ HasRow(dev[i])
BY DEF PriceInv, Parked, Idle

\* The database thread has been at one more slot, which it has backed up.
LEMMA BackedUp ==
    ASSUME Orderly, Known, TimeInv, PriceInv, DbUpdate,
           NEW i \in Slot, dbNext = i, Idle(i), NEW m \in Device, m = dev[i]
    PROVE  RowOf(m)'.TIME_USED = now - client[i].time_start_parking
<1> DEFINE used == now - client[i].time_start_parking
<1>1. client[i].mac_address = m /\ HasRow(m)
  BY IdleRow
<1>2. your_table' = Update(m, used)
  BY <1>1, NoDbError DEF DbUpdate, Idle, Rewriting, Orderly
<1>3. TypeOK /\ used \in Int
  <2>1. TypeOK /\ now \in Nat
    BY DEF Known, TypeInv, TypeOK
  <2>2. QED
    BY <2>1 DEF TimeInv
<1> HIDE DEF used
<1>4. RowOf(m)' = [RowOf(m) EXCEPT !.TIME_USED = used]
  BY <1>1, <1>2, <1>3, UpdatedRow
<1>5. QED
  BY <1>1, <1>3, <1>4, RowType DEF Row, used

\* A server that starts counts nothing.
LEMMA RestartNotIdle ==
    ASSUME Restart, NEW i \in Slot
    PROVE  ~Idle(i)'
BY DEF Restart, Idle, ZeroedData

\* What a step adds to the seconds whose backup has been at slot i.
LEMMA SweptFrom ==
    ASSUME Orderly, Known, Known', MutexDiscipline, TurnInv, Next, Remember, ~Restart, punctual',
           NEW i \in Slot, NEW t \in Nat, Due(t)', Swept(t, i)'
    PROVE  Due(t) /\ (Swept(t, i) \/ (DbUpdate /\ dbNext = i /\ t = now /\ now' = now))
<1>0. /\ now \in Nat /\ dbStart \in Nat /\ dbNext \in Nat
      /\ accepted \in Nat /\ accepted' \in Nat
      /\ i < MaxClients
  BY ConstantsAssumption DEF Known, TypeInv, TypeOK, Slot
<1>1. ClockStep
  BY ClockSteps
<1>2. dbStart' = dbStart /\ Due(t) /\ t > dbStart
  BY <1>1 DEF ClockStep, Due
<1>3. CASE now' # now
  <2>1. now' = now + 1 /\ (turn = "released" \/ now = dbStart)
    BY <1>0, <1>1, <1>3, PunctualStep DEF ClockStep, Tick
  <2>2. turn' \notin {"taken", "released"}
    BY <1>3, TurnStep
  <2>3. t <= now
    BY <1>0, <2>1, <2>2 DEF Swept
  <2>4. QED
    BY <1>0, <1>2, <2>1, <2>3 DEF Swept
<1>4. CASE now' = now /\ turn' = "released"
  <2>1. CASE turn = "taken" /\ DbUnlock
    BY <1>0, <1>2, <1>4, <2>1 DEF Swept, DbUnlock
  <2>2. CASE turn = "released"
    BY <1>2, <1>4, <2>2 DEF Swept
  <2>3. QED
    BY <1>4, <2>1, <2>2, TurnStep
<1>5. CASE now' = now /\ turn' = "taken" /\ t = now
  <2>1. i < dbNext'
    BY <1>0, <1>5 DEF Swept
  <2>2. ~DbLock
    <3>1. SUFFICES ASSUME DbLock
                   PROVE  FALSE
      OBVIOUS
    <3>2. (now - dbStart) % Period = 0
      BY <1>2, <1>5 DEF Due
    <3>3. dbNext' = 0
      BY <3>1, <3>2 DEF DbLock
    <3>4. QED
      BY <2>1, <3>3, ConstantsAssumption DEF Slot
  <2>3. turn = "taken"
    BY <1>5, <2>2, TurnStep
  <2>4. CASE i < dbNext
    BY <1>2, <1>5, <2>3, <2>4 DEF Swept
  <2>5. CASE ~(i < dbNext)
    <3>1. DbUpdate
      BY <1>1, <2>1, <2>2, <2>5 DEF ClockStep
    <3>2. dbNext' = dbNext + 1
      BY <3>1 DEF DbUpdate
    <3>3. dbNext = i
      BY <1>0, <2>1, <2>5, <3>2, ConstantsAssumption DEF Slot
    <3>4. QED
      BY <1>2, <1>5, <3>1, <3>3
  <2>6. QED
    BY <2>4, <2>5
<1>6. CASE now' = now /\ t < now
  BY <1>2, <1>6 DEF Swept
<1>7. QED
  BY <1>3, <1>4, <1>5, <1>6 DEF Swept

LEMMA NextSwept ==
    ASSUME Orderly, ServerInv, ServerInv', MutexDiscipline, TalkInv, TurnInv, SweptInv,
           Next, Remember
    PROVE  SweptInv'
<1> USE DEF ServerInv
<1>1. SUFFICES ASSUME NEW i \in Slot, punctual', Idle(i)',
                      NEW t \in Nat, Due(t)', connectedAt'[i] < t, Swept(t, i)'
               PROVE  RowOf(dev[i])'.TIME_USED >= t - client'[i].time_start_parking
  <2>1. \A i \in Slot : Idle(i)' => dev'[i] = dev[i]
    BY IdleStep, RestartNotIdle DEF Known, Orderly
  <2>2. QED
    BY <2>1 DEF SweptInv, RowOf
<1>2. ~Restart
  BY <1>1, RestartNotIdle
<1>3. ClockStep /\ now \in Nat /\ accepted \in Nat /\ accepted' \in Nat
  BY <1>2, ClockSteps, ConstantsAssumption DEF Known, TypeInv, TypeOK
<1>4. punctual
  BY <1>1, <1>3, PunctualStep
<1>5. connectedAt'[i] = IF client[i].connected THEN connectedAt[i] ELSE now
  BY <1>1, SinceStep DEF Idle
<1>6. CASE ~client[i].connected /\ now' = now
  BY <1>1, <1>3, <1>5, <1>6 DEF Swept
<1>7. CASE Idle(i) /\ client'[i].time_start_parking = client[i].time_start_parking
  <2>1. dev[i] \in Device /\ dev'[i] = dev[i] /\ HasRow(dev[i])
    BY <1>1, <1>2, <1>7, IdleRow, IdleStep
  <2>2. PICK m \in Device : m = dev[i] /\ m = dev'[i]
    BY <2>1
  <2>3. HasRow(m)'
    BY <1>1, <2>2 DEF PriceInv, Parked, Idle, HasRow
  <2>4. RowOf(m)'.TIME_USED \in Int /\ RowOf(m).TIME_USED \in Int
    BY <2>1, <2>2, <2>3 DEF TimeInv
  <2>5. client[i].time_start_parking \in Int
    BY DEF TimeInv
  <2>6. Due(t) /\ (Swept(t, i) \/ (DbUpdate /\ dbNext = i /\ t = now /\ now' = now))
    BY <1>1, <1>2, SweptFrom
  <2>7. CASE Swept(t, i)
    <3>1. RowOf(m).TIME_USED >= t - client[i].time_start_parking
      BY <1>1, <1>4, <1>5, <1>7, <2>2, <2>6, <2>7 DEF SweptInv, Idle
    <3>2. RowOf(m)'.TIME_USED >= RowOf(m).TIME_USED
      BY <2>1, <2>2, <2>3, NextUsed
    <3>3. QED
      BY <1>7, <2>2, <2>4, <2>5, <3>1, <3>2 DEF RowOf
  <2>8. CASE DbUpdate /\ dbNext = i /\ t = now
    <3>1. RowOf(m)'.TIME_USED = now - client[i].time_start_parking
      BY <1>7, <2>2, <2>8, BackedUp
    <3>2. QED
      BY <1>3, <1>7, <2>2, <2>5, <2>8, <3>1 DEF RowOf
  <2>9. QED
    BY <2>6, <2>7, <2>8
<1>8. QED
  BY <1>1, <1>2, <1>6, <1>7, IdleStep

LEMMA InitBackup == MeterInit => BackupInv
<1>1. ASSUME MeterInit
      PROVE  /\ \A i \in Slot : pc[i] = "none" /\ phase[i] = "closed" /\ inbox[i] = NoMsg
                                /\ ~client[i].connected
             /\ now = 0 /\ dbStart = 0 /\ turn = "none"
  BY <1>1 DEF MeterInit, Init, ServerInit, NetInit, ZeroedData
<1>2. QED
  BY <1>1 DEF BackupInv, TalkInv, TurnInv, SweptInv, Idle

LEMMA NextBackup ==
    ASSUME Orderly, ServerInv, ServerInv', MutexDiscipline, BackupInv,
           [MeterNext]_<<vars, meterVars>>
    PROVE  BackupInv'
<1>1. CASE MeterNext
  BY <1>1, NextTalk, NextTurn, NextSwept DEF MeterNext, BackupInv, ServerInv
<1>2. CASE UNCHANGED <<vars, meterVars>>
  BY <1>2 DEF vars, serverVars, netVars, meterVars, BackupInv, TalkInv, TurnInv, SweptInv,
     Due, Swept, Idle, RowOf
<1>3. QED
  BY <1>1, <1>2

\* Among any Period seconds there is one with a backup.
LEMMA LastDue ==
    ASSUME NEW start \in Nat, NEW n \in Nat, n >= start + Period
    PROVE  \E t \in Nat : /\ t > start /\ (t - start) % Period = 0
                         /\ t \in (n - Period + 1) .. n
<1>0. Period \in Nat \ {0}
  BY ConstantsAssumption
<1> DEFINE q == (n - start) \div Period
           t == start + Period * q
<1>1. /\ n - start = Period * q + ((n - start) % Period)
      /\ (n - start) % Period \in 0 .. Period - 1
      /\ q \in Int
  <2>1. n - start \in Nat
    BY <1>0
  <2>2. \A a \in Nat : /\ a = Period * (a \div Period) + (a % Period)
                       /\ a % Period \in 0 .. Period - 1
                       /\ a \div Period \in Int
    BY <1>0
  <2>3. QED
    BY <2>1, <2>2
<1>2. (Period * q) % Period = 0
  BY <1>0, <1>1
<1> HIDE DEF q
<1>3. Period * q \in Int
  BY <1>0, <1>1
<1>4. /\ t \in Nat /\ t > start /\ t - start = Period * q
      /\ t \in (n - Period + 1) .. n
  BY <1>0, <1>1, <1>3
<1>5. QED
  BY <1>2, <1>4

LEMMA BackupInvFresh ==
    ASSUME ServerInv, BackupInv
    PROVE  BackupFresh
<1>0. now \in Nat /\ dbStart \in Nat /\ Period \in Nat \ {0}
  BY ConstantsAssumption DEF ServerInv, Known, TypeInv, TypeOK
<1>1. SUFFICES ASSUME NEW i \in Slot, punctual, Idle(i), now - connectedAt[i] > Period
               PROVE  now - client[i].time_start_parking
                        <= your_table[client[i].mac_address][1].TIME_USED + Period
  BY DEF BackupFresh, Idle
<1>2. connectedAt[i] \in dbStart .. now
  BY <1>1 DEF BackupInv, TurnInv, Idle
<1>3. PICK t \in Nat : /\ t > dbStart /\ (t - dbStart) % Period = 0
                       /\ t \in (now - Period) .. (now - 1)
  <2>1. now - 1 \in Nat /\ now - 1 >= dbStart + Period
    BY <1>0, <1>1, <1>2
  <2> DEFINE n == now - 1
  <2>2. PICK t \in Nat : /\ t > dbStart /\ (t - dbStart) % Period = 0
                         /\ t \in (n - Period + 1) .. n
    <3> HIDE DEF n
    <3>1. QED
      BY <1>0, <2>1, LastDue DEF n
  <2>3. QED
    BY <1>0, <2>2
<1>4. Due(t) /\ connectedAt[i] < t /\ Swept(t, i)
  BY <1>0, <1>1, <1>2, <1>3 DEF Due, Swept
<1>5. RowOf(dev[i]).TIME_USED >= t - client[i].time_start_parking
  BY <1>1, <1>4 DEF BackupInv, SweptInv
<1>6. /\ dev[i] \in Device /\ client[i].mac_address = dev[i] /\ HasRow(dev[i])
      /\ client[i].time_start_parking \in Int
  BY <1>1, IdleRow DEF ServerInv, TimeInv
<1>7. RowOf(dev[i]).TIME_USED \in Int
  BY <1>6 DEF ServerInv, TimeInv
<1>8. QED
  BY <1>0, <1>3, <1>5, <1>6, <1>7 DEF RowOf

\* If a device stays away until the thread of its old connection has ended, no
\* message is corrupted and SQLite does not fail: as long as the database
\* thread has the mutex once in every second, a connection that was counted for
\* more than a period, and on which nothing is under way, would lose at most a
\* period of its time if the server died now; whatever the other connections
\* do, and wherever in a backup the database thread is.
THEOREM BackupTheorem ==
    ASSUME Orderly
    PROVE  MeterSpec => []BackupFresh
<1>1. MeterSpec => []ServerInv
  BY MeterIsServer, AlwaysServerInv, PTL
<1>2. MeterSpec => []MutexDiscipline
  BY MeterIsServer, MutexTheorem, PTL
<1>3. ServerInv /\ ServerInv' /\ MutexDiscipline /\ BackupInv
      /\ [MeterNext]_<<vars, meterVars>> => BackupInv'
  BY NextBackup
<1>4. MeterSpec => []BackupInv
  BY <1>1, <1>2, <1>3, InitBackup, PTL DEF MeterSpec
<1>5. ServerInv /\ BackupInv => BackupFresh
  BY BackupInvFresh
<1>6. QED
  BY <1>1, <1>4, <1>5, PTL
=============================================================================
