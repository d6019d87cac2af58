------------------------ MODULE ServerLifecycleProofs ------------------------
(***************************************************************************)
(* What is saved when the server shuts down: ServerLifecycle, with main,   *)
(* its failing accept, the end of the process and the final update.        *)
(***************************************************************************)
EXTENDS ServerLifecycle, PangoServerTableProofs

-----------------------------------------------------------------------------
(* The inductive invariants.                                                *)

\* The invariants of the server, which main does not disturb until it closes a
\* database.
BaseInv == Known /\ ResumeInv /\ TimeInv /\ PriceInv

BothOpen == open = {"prices", "clients"}

\* Main tells the database thread to return only after the last accept; the
\* final update follows, with the mutex held until the thread ends, and the
\* databases are closed after that.
Stages ==
    /\ toSave # {} => return_thread /\ quit_loop
    /\ toSave # {} /\ ~db_done => mutex = DbThread
    /\ return_thread => main_pc \notin {"accepting", "joining"}
    /\ main_pc \in {"closingPrices", "closingClients", "closed"} /\ intact => db_done
    /\ main_pc \in {"accepting", "joining", "returning", "closingPrices"} => BothOpen
    /\ main_pc \in {"accepting", "joining", "returning", "closingPrices", "closingClients",
                    "closed", "ended"}
    /\ main_pc = "ended" => toSave = {}
    /\ open \subseteq {"prices", "clients"}

\* The final update has been at slot i.
Passed(i) == i < dbNext \/ db_done

\* A connection that was counting when the final update began is the only one
\* of its device that still runs.  It does not begin another parking, and keeps
\* its row until it is paid for.  It counts what is due until the update comes
\* to its slot, and unless its address was half written then, the row has it
\* from there on.
ToSaveInv ==
    /\ toSave \subseteq Slot
    /\ \A i \in toSave :
          /\ dev[i] \in Device
          /\ Registers(i)
          /\ pc[i] # "none" /\ pc[i] \notin BeforeRow
          /\ pc[i] \notin Billed => HasRow(dev[i])
          /\ \A j \in Slot : j # i /\ dev[j] = dev[i] => pc[j] = "done"
          /\ due[i] \in Int
          /\ ~Passed(i) => client[i].connected /\ due[i] <= now - client[i].time_start_parking
          /\ Passed(i) /\ i \notin missed /\ HasRow(dev[i]) =>
                RowOf(dev[i]).TIME_USED >= due[i]

\* Once the prices are closed, a thread that fails leaves its slot counting
\* when it ends.  What holds as long as the clients are open: a device has one
\* slot at most that may still write its row, and that one counts no less than
\* the row says.
Writer(i) == dev[i] \in Device /\ (client[i].connected \/ pc[i] \notin {"none", "done"})

WriterInv ==
    /\ \A i \in Slot : client[i].time_start_parking \in 0 .. now
    /\ \A m \in Device : HasRow(m) => RowOf(m).TIME_USED \in 0 .. now
    /\ \A i, j \in Slot : Writer(i) /\ Writer(j) /\ dev[i] = dev[j] => i = j
    /\ \A i \in Slot : Writer(i) /\ HasRow(dev[i]) =>
          RowOf(dev[i]).TIME_USED <= now - client[i].time_start_parking

\* Once the database thread has ended, the rows have what was due.
SavedInv ==
    intact /\ db_done =>
        \A i \in toSave \ missed :
            /\ i \in Slot /\ dev[i] \in Device /\ due[i] \in Int
            /\ HasRow(dev[i]) => RowOf(dev[i]).TIME_USED >= due[i]

LifeInv ==
    /\ TypeInv /\ MutexDiscipline /\ OneRowPerMac
    /\ Stages
    /\ BothOpen => BaseInv /\ ToSaveInv
    /\ "clients" \in open /\ ~BothOpen => WriterInv
    /\ SavedInv

-----------------------------------------------------------------------------
(* The invariants of the server under a server with its main.               *)

LEMMA BaseNext ==
    ASSUME Orderly, BaseInv, [Next]_vars
    PROVE  BaseInv'
<1>1. Known'
  BY NextTypeInv, NextRowInv, NextCountInv, NextFresh DEF Orderly, BaseInv, Known
<1>2. QED
  BY <1>1, NextResume, NextTime, NextPrice DEF Orderly, BaseInv

LEMMA BaseRestart ==
    ASSUME BaseInv, Restart
    PROVE  BaseInv'
<1>1. TypeInv' /\ RowInv'
  BY RestartType, RestartRegistered, RestartRows DEF BaseInv, Known, TypeInv
<1>2. /\ \A j \in Slot : client'[j] = ZeroedData /\ pc'[j] = "none" /\ inbox'[j] = NoMsg
      /\ UNCHANGED <<now, your_table>>
  BY DEF Restart
<1>3. ~ZeroedData.connected /\ ZeroedData.time_start_parking = 0 /\ now \in Nat
  BY DEF ZeroedData, BaseInv, Known, TypeInv, TypeOK
<1>4. CountInv' /\ Fresh'
  BY <1>2, <1>3 DEF CountInv, Fresh, Heard, Left
<1>5. ResumeInv'
  BY <1>2 DEF ResumeInv
<1>6. TimeInv'
  BY <1>2, <1>3 DEF BaseInv, TimeInv, Live, HasRow, RowOf
<1>7. PriceInv'
  BY <1>2, <1>3 DEF BaseInv, PriceInv, Parked, HasRow, RowOf
<1>8. QED
  BY <1>1, <1>4, <1>5, <1>6, <1>7 DEF BaseInv, Known

\* The final update takes the mutex at any second.
LEMMA BaseFinalLock ==
    ASSUME BaseInv, FinalLock
    PROVE  BaseInv'
<1>1. /\ UNCHANGED <<now, accepted, client, pc, status, checked_database, end_time,
                     client_data_buff, dbStart, your_table, netVars>>
      /\ mutex' = DbThread
      /\ dbNext' = 0
  BY DEF FinalLock
<1>2. TypeInv'
  BY <1>1, ConstantsAssumption DEF netVars, BaseInv, Known, TypeInv, TypeOK, Registered
<1>3. RowInv' /\ CountInv' /\ Fresh'
  BY <1>1 DEF netVars, BaseInv, Known, RowInv, OneLive, NoRowYet, OneRowPerMac, CountInv,
              Right, Fresh
<1>4. ResumeInv' /\ TimeInv' /\ PriceInv'
  BY <1>1 DEF netVars, BaseInv, ResumeInv, TimeInv, PriceInv, Parked, Live, HasRow, RowOf
<1>5. QED
  BY <1>2, <1>3, <1>4 DEF BaseInv, Known

\* The thread on descriptor 255 has no device, and is about to end.
LEMMA FailedAcceptSlot ==
    ASSUME TypeInv, Fresh, FailedAccept
    PROVE  /\ accepted \in Slot
           /\ pc[accepted] = "none"
           /\ dev[accepted] = NoDevice
           /\ client[accepted] = ZeroedData
           /\ \A j \in Slot : pc'[j] = IF j = accepted THEN "finish" ELSE pc[j]
           /\ \A j \in Slot : j # accepted => status'[j] = status[j]
<1>1. accepted \in Slot
  BY ConstantsAssumption DEF FailedAccept, TypeInv, TypeOK, Slot
<1>2. pc[accepted] = "none" /\ dev[accepted] = NoDevice
  BY <1>1, ConstantsAssumption DEF TypeInv, Registered, Slot
<1>3. QED
  BY <1>1, <1>2 DEF FailedAccept, Goto, Fresh, TypeInv, TypeOK

LEMMA BaseFailedAccept ==
    ASSUME BaseInv, FailedAccept
    PROVE  BaseInv'
<1>0. TypeInv /\ Fresh
  BY DEF BaseInv, Known
<1>a. /\ accepted \in Slot
      /\ pc[accepted] = "none"
      /\ dev[accepted] = NoDevice
      /\ client[accepted] = ZeroedData
      /\ \A j \in Slot : pc'[j] = IF j = accepted THEN "finish" ELSE pc[j]
      /\ \A j \in Slot : j # accepted => status'[j] = status[j]
  BY <1>0, FailedAcceptSlot
<1>b. /\ UNCHANGED <<now, mutex, client, checked_database, end_time, client_data_buff,
                     dbStart, dbNext, your_table, netVars>>
      /\ accepted' = accepted + 1
  BY DEF FailedAccept
<1>c. ZeroedData.mac_address = NoDevice /\ ~ZeroedData.connected /\ NoDevice \notin Device
  BY ConstantsAssumption DEF ZeroedData
<1>1. TypeOK'
  <2>1. accepted' \in 0 .. MaxClients
    BY <1>a, <1>b, ConstantsAssumption DEF Slot
  <2>2. pc' \in [Slot -> PC] /\ status' \in [Slot -> AppStatus]
    BY <1>0 DEF FailedAccept, Goto, PC, AppStatus, TypeInv, TypeOK
  <2>3. QED
    BY <1>0, <1>b, <2>1, <2>2 DEF netVars, TypeInv, TypeOK
<1>2. Registered'
  <2>1. \A j \in Slot : pc'[j] = "none" <=> j >= accepted'
    BY <1>0, <1>a, <1>b, ConstantsAssumption DEF TypeInv, Registered, Slot
  <2>2. QED
    BY <1>0, <1>a, <1>b, <1>c, <2>1 DEF netVars, TypeInv, Registered, Served
<1>3. RowInv'
  BY <1>a, <1>b, <1>c DEF netVars, BaseInv, Known, RowInv, OneLive, NoRowYet, OneRowPerMac
<1>4. CountInv' /\ Fresh'
  BY <1>a, <1>b, <1>c DEF netVars, BaseInv, Known, CountInv, Right, Heard, Left, Fresh
<1>5. ResumeInv' /\ TimeInv'
  BY <1>a, <1>b, <1>c DEF netVars, BaseInv, ResumeInv, TimeInv, Live, HasRow, RowOf
<1>6. PriceInv'
  BY <1>a, <1>b, <1>c DEF netVars, BaseInv, PriceInv, Parked, HasRow, RowOf
<1>7. QED
  BY <1>1, <1>2, <1>3, <1>4, <1>5, <1>6 DEF BaseInv, Known, TypeInv

-----------------------------------------------------------------------------
(* The connections to save, from one step of the server to the next.        *)

\* A step of one thread with the databases it uses open, or of none, by which
\* no connection is accepted and the process goes on.
Stays ==
    \/ \E k \in Slot : Thread(k) /\ Alone(k) /\ Uses(k) \subseteq open
    \/ NoSlot /\ (your_table' = your_table \/ ("clients" \in open /\ DbUpdate))

LEMMA StaysUp ==
    ASSUME ToSaveInv, Stays, NEW i \in toSave
    PROVE  ~Restart
<1>1. i \in Slot /\ pc[i] # "none"
  BY DEF ToSaveInv
<1>2. pc'[i] # "none"
  BY <1>1 DEF Stays, Alone, NoSlot
<1>3. QED
  BY <1>1, <1>2 DEF Restart

\* Of the device of a connection to save, no other slot has anything to do.
LEMMA OnlyThreadToSave ==
    ASSUME BaseInv, ToSaveInv, NEW i \in toSave, NEW j \in Slot, dev[j] = dev[i],
           pc[j] # "done"
    PROVE  j = i
BY DEF ToSaveInv

\* It starts no new parking,
LEMMA NoNewParking ==
    ASSUME Orderly, BaseInv, ToSaveInv, NEW i \in toSave, i \in Slot
    PROVE  ~CheckNew(i) /\ ~InsertClient(i)
<1>1. ASSUME CheckNew(i)
      PROVE  FALSE
  <2>1. ~HasRow(dev[i])
    BY <1>1, CheckNewStarts DEF Orderly, BaseInv, Known
  <2>2. pc[i] \notin Billed
    BY <1>1 DEF CheckNew, Billed
  <2>3. QED
    BY <2>1, <2>2 DEF ToSaveInv
<1>2. ~InsertClient(i)
  BY DEF InsertClient, ToSaveInv, BeforeRow
<1>3. QED
  BY <1>1, <1>2

\* and keeps its row until it is paid for.
LEMMA RowToSaveStays ==
    ASSUME Orderly, BaseInv, ToSaveInv, [Next]_vars, NEW i \in toSave, i \in Slot,
           pc[i] \notin Billed, NEW d \in Device, d = dev[i]
    PROVE  HasRow(d)'
<1>1. HasRow(d)
  BY DEF ToSaveInv
<1>2. ASSUME NEW j \in Slot, dev[j] = d
      PROVE  pc[j] # "delete"
  BY <1>2, OnlyThreadToSave DEF Billed
<1>3. QED
  BY <1>1, <1>2, RowStays DEF Orderly, BaseInv

\* No other row of its device is inserted.
LEMMA NoRowToSave ==
    ASSUME Orderly, BaseInv, ToSaveInv, [Next]_vars, NEW i \in toSave, i \in Slot,
           NEW d \in Device, d = dev[i], HasRow(d)'
    PROVE  HasRow(d)
<1>1. ASSUME NEW j \in Slot, InsertClient(j), d = dev[j]
      PROVE  FALSE
  BY <1>1, OnlyThreadToSave, NoNewParking DEF InsertClient
<1>2. RowStep(d)
  BY NextRowStep DEF Orderly, BaseInv
<1>3. QED
  BY <1>1, <1>2 DEF RowStep, HasRow, RowOf

\* Until the update comes to its slot the database thread has the mutex, and
\* nobody changes what the slot counts.
LEMMA CountsOn ==
    ASSUME Orderly, BaseInv, ToSaveInv, Stages, MutexDiscipline, Stays,
           NEW i \in toSave, i \in Slot, ~db_done
    PROVE  /\ client[i].connected => client'[i].connected
           /\ client'[i].time_start_parking = client[i].time_start_parking
<1>1. pc[i] \notin Critical
  BY DEF Stages, MutexDiscipline, DbThread, Slot
<1>2. CASE NoSlot
  BY <1>2 DEF NoSlot
<1>3. ASSUME NEW k \in Slot, Thread(k), Alone(k)
      PROVE  /\ client[i].connected => client'[i].connected
             /\ client'[i].time_start_parking = client[i].time_start_parking
  <2>1. CASE k # i
    BY <1>3, <2>1 DEF Alone
  <2>2. CASE k = i
    <3>1. ~Resume(i) /\ ~CheckNew(i)
      BY <1>1, NoNewParking DEF Resume, Critical
    <3>2. TypeInv /\ "dberr" \notin Faults /\ ~Restart
      BY StaysUp DEF Orderly, BaseInv, Known
    <3>3. client'[i].time_start_parking = client[i].time_start_parking
      BY <1>3, <2>2, <3>1, <3>2, StartKept
    <3>4. client[i].connected => client'[i].connected
      <4> USE <1>3, <2>2, <3>2 DEF TypeInv, TypeOK
      <4>1. CASE Lock(i) \/ RecvLost(i) \/ CheckKnown(i) \/ CheckAgain(i) \/ SendLocation(i)
        BY <4>1 DEF Lock, RecvLost, CheckKnown, CheckAgain, SendLocation
      <4>2. CASE SendPayment(i) \/ ExitLost(i) \/ SendError(i) \/ ExitSilently(i) \/ Finish(i)
        BY <4>2 DEF SendPayment, ExitLost, SendError, ExitSilently, Finish
      <4>3. CASE Recv(i) \/ RecvError(i)
        <5>1. \/ client' = client
              \/ \E m, xy : client' = [client EXCEPT ![i].mac_address = m, ![i].coords = xy]
          BY <4>3 DEF Recv, RecvError, Process
        <5>2. client \in [Slot -> pango_data] /\ client[i] \in pango_data
          OBVIOUS
        <5>3. ASSUME NEW m, NEW xy,
                     client' = [client EXCEPT ![i].mac_address = m, ![i].coords = xy]
              PROVE  /\ client'[i].connected = client[i].connected
                     /\ client'[i].time_start_parking = client[i].time_start_parking
          <6>1. client'[i] = [client[i] EXCEPT !.mac_address = m, !.coords = xy]
            BY <5>2, <5>3
          <6>2. QED
            BY <5>2, <6>1 DEF pango_data
        <5>4. QED
          BY <5>1, <5>3
      <4>4. CASE SetConnected(i)
        BY <4>4 DEF SetConnected, pango_data
      <4>5. ~ResumeError(i) /\ ~InsertError(i) /\ ~InsertClient(i) /\ ~Lost(i)
            /\ ~CloseApp(i) /\ ~RemoveClient(i) /\ ~UpdateLost(i)
        BY <1>1 DEF ResumeError, InsertError, InsertClient, Lost, CloseApp, RemoveClient,
           UpdateLost, Critical
      <4>6. QED
        BY <3>1, <4>1, <4>2, <4>3, <4>4, <4>5 DEF Thread, BrokenPipe
    <3>5. QED
      BY <3>3, <3>4
  <2>3. QED
    BY <2>1, <2>2
<1>4. QED
  BY <1>2, <1>3 DEF Stays

\* A step of the server after which no slot counts as passed that was not, or
\* was updated in the step, or is missed.
LEMMA KeepsToSave ==
    ASSUME Orderly, BaseInv, ToSaveInv, Stages, MutexDiscipline, [Next]_vars, Stays,
           UNCHANGED <<toSave, due>>, missed \subseteq missed',
           db_done => db_done',
           ~db_done => dbNext' >= dbNext,
           \A i \in toSave : Passed(i)' =>
              \/ Passed(i) \/ i \in missed'
              \/ /\ your_table' = Update(client[i].mac_address,
                                         now - client[i].time_start_parking)
                 /\ UNCHANGED <<now, client, dev>>
    PROVE  ToSaveInv'
<1>0. /\ TypeInv /\ TypeOK /\ CountInv /\ "dberr" \notin Faults
      /\ now \in Nat
  BY DEF Orderly, BaseInv, Known, TypeInv, TypeOK
<1>1. now' \in {now, now + 1}
  BY <1>0 DEF Stays, Alone, NoSlot
<1>2. ASSUME NEW i \in toSave, NEW d \in Device, d = dev[i]
      PROVE  /\ dev'[i] = d
             /\ Registers(i)'
             /\ pc'[i] # "none" /\ pc'[i] \notin BeforeRow
             /\ pc'[i] \notin Billed => HasRow(d)'
             /\ \A j \in Slot : j # i /\ dev'[j] = d => pc'[j] = "done"
             /\ ~Passed(i)' => client'[i].connected /\ due[i] <= now' - client'[i].time_start_parking
             /\ Passed(i)' /\ i \notin missed' /\ HasRow(d)' => RowOf(d)'.TIME_USED >= due[i]
  <2>1. /\ i \in Slot /\ due[i] \in Int
        /\ Registers(i) /\ pc[i] # "none" /\ pc[i] \notin BeforeRow
        /\ ~Restart
    BY StaysUp DEF ToSaveInv
  <2>2. ASSUME NEW k \in Slot, Thread(k), Alone(k)
        PROVE  /\ dev'[i] = d
               /\ Registers(i)'
               /\ pc'[i] # "none" /\ pc'[i] \notin BeforeRow
               /\ pc[i] \in Billed => pc'[i] \in Billed
               /\ \A j \in Slot : j # i /\ dev'[j] = d => pc'[j] = "done"
    <3>1. dev' = dev
      BY <2>2 DEF Alone
    <3>2. \A j \in Slot : pc[j] = "done" => pc'[j] = "done"
      BY <2>2 DEF Alone
    <3>3. CASE k # i
      BY <1>2, <2>1, <2>2, <3>1, <3>2, <3>3 DEF Alone, Registers, ToSaveInv
    <3>4. CASE k = i
      <4>1. Registers(i)' /\ (pc[i] \in Billed => pc'[i] \in Billed)
        BY <1>0, <2>1, <2>2, <3>4, ThreadGoesOn
      <4>2. pc'[i] \notin BeforeRow
        <5>1. CASE Resume(i)
          BY <1>0, <2>1, <5>1 DEF Resume, Unlock, Goto, BeforeRow, TypeOK
        <5>2. CASE ~Resume(i)
          BY <1>0, <2>1, <2>2, <3>4, <5>2, PriceKept, NoNewParking DEF BeforeRow
        <5>3. QED
          BY <5>1, <5>2
      <4>3. QED
        BY <1>2, <2>1, <2>2, <3>1, <3>2, <3>4, <4>1, <4>2 DEF Alone, ToSaveInv
    <3>5. QED
      BY <3>3, <3>4
  <2>3. /\ dev'[i] = d
        /\ Registers(i)'
        /\ pc'[i] # "none" /\ pc'[i] \notin BeforeRow
        /\ pc[i] \in Billed => pc'[i] \in Billed
        /\ \A j \in Slot : j # i /\ dev'[j] = d => pc'[j] = "done"
    <3>1. NoSlot => /\ dev'[i] = d
                    /\ Registers(i)'
                    /\ pc'[i] # "none" /\ pc'[i] \notin BeforeRow
                    /\ pc[i] \in Billed => pc'[i] \in Billed
                    /\ \A j \in Slot : j # i /\ dev'[j] = d => pc'[j] = "done"
      BY <1>2, <2>1 DEF NoSlot, Registers, ToSaveInv
    <3>2. QED
      BY <2>2, <3>1 DEF Stays
  <2>4. pc'[i] \notin Billed => HasRow(d)'
    BY <1>2, <2>1, <2>3, RowToSaveStays
  <2>5. client[i].time_start_parking \in Nat
    BY <1>0, <2>1 DEF BaseInv, TimeInv
  <2>6. ASSUME ~Passed(i)'
        PROVE  client'[i].connected /\ due[i] <= now' - client'[i].time_start_parking
    <3>1. ~db_done /\ ~Passed(i)
      <4>1. dbNext \in Int /\ dbNext' \in Int /\ i \in Int
        <5>1. TypeInv'
          BY <1>0, NextTypeInv
        <5>2. QED
          BY <1>0, <2>1, <5>1, ConstantsAssumption DEF Slot, TypeInv, TypeOK
      <4>2. QED
        BY <2>6, <4>1 DEF Passed
    <3>2. /\ client'[i].connected
          /\ client'[i].time_start_parking = client[i].time_start_parking
      BY <2>1, <3>1, CountsOn DEF ToSaveInv
    <3>3. due[i] <= now - client[i].time_start_parking
      BY <3>1 DEF ToSaveInv
    <3>4. QED
      BY <1>0, <1>1, <2>1, <2>5, <3>2, <3>3
  <2>7. ASSUME Passed(i)', i \notin missed', HasRow(d)'
        PROVE  RowOf(d)'.TIME_USED >= due[i]
    <3>1. HasRow(d)
      BY <1>2, <2>1, <2>7, NoRowToSave
    <3>2. RowOf(d) \in Row /\ RowOf(d).TIME_USED \in Int
      BY <1>0, <3>1, RowType DEF Row
    <3>3. CASE Passed(i)
      <4>1. RowOf(d).TIME_USED >= due[i]
        BY <1>2, <2>7, <3>1, <3>3 DEF ToSaveInv
      <4>2. RowOf(d)'.TIME_USED >= RowOf(d).TIME_USED
        BY <2>7, <3>1, NextUsed DEF BaseInv
      <4>3. RowOf(d)' \in Row
        <5>1. TypeOK'
          BY <1>0, NextTypeInv DEF TypeInv
        <5>2. your_table'[d] \in Seq(Row) /\ your_table'[d] # <<>>
          BY <2>7, <5>1 DEF TypeOK, HasRow
        <5>3. Len(your_table'[d]) \in Nat \ {0}
          BY <5>2, EmptySeq
        <5>4. QED
          BY <5>2, <5>3, ElementOfSeq DEF RowOf
      <4>4. QED
        BY <2>1, <3>2, <4>1, <4>2, <4>3 DEF Row
    <3>4. CASE ~Passed(i)
      <4>1. /\ your_table' = Update(client[i].mac_address, now - client[i].time_start_parking)
            /\ UNCHANGED <<now, client, dev>>
        BY <2>7, <3>4
      <4>2. client[i].mac_address = d
        BY <1>2, <2>1 DEF Registers
      <4>3. RowOf(d)' = [RowOf(d) EXCEPT !.TIME_USED = now - client[i].time_start_parking]
        BY <1>0, <2>5, <3>1, <4>1, <4>2, UpdatedRow
      <4>4. due[i] <= now - client[i].time_start_parking
        BY <3>4 DEF ToSaveInv
      <4>5. QED
        BY <1>0, <2>1, <2>5, <3>2, <4>3, <4>4 DEF Row
    <3>5. QED
      BY <3>3, <3>4
  <2>8. QED
    BY <2>3, <2>4, <2>6, <2>7
<1>3. QED
  <2>1. \A i \in toSave : dev[i] \in Device
    BY DEF ToSaveInv
  <2>2. toSave' \subseteq Slot /\ \A i \in toSave' : due'[i] \in Int
    BY DEF ToSaveInv
  <2>3. \A i \in toSave' : i \in toSave /\ due'[i] = due[i]
    OBVIOUS
  <2>4. QED
    BY <1>2, <2>1, <2>2, <2>3 DEF ToSaveInv, HasRow, RowOf

-----------------------------------------------------------------------------
(* The table once a database was closed.                                    *)

\* The rows that are still there have lost no time.
TableKept ==
    \A m \in Device : HasRow(m)' =>
        HasRow(m) /\ RowOf(m)'.TIME_USED >= RowOf(m).TIME_USED

LEMMA UnchangedKept ==
    ASSUME TypeOK, your_table' = your_table
    PROVE  TableKept
<1>1. \A m \in Device : HasRow(m) => RowOf(m).TIME_USED \in Int
  BY RowType DEF Row
<1>2. QED
  BY <1>1 DEF TableKept, HasRow, RowOf

\* With the prices closed no row is inserted, and only the writer of a row
\* changes it.
LEMMA WriterStep ==
    ASSUME TypeOK, WriterInv, OneRowPerMac, dev' = dev, now' \in {now, now + 1},
           \A j \in Slot : Writer(j)' => Writer(j),
           \A j \in Slot : client'[j].time_start_parking \in 0 .. now',
           \A j \in Slot : Writer(j) /\ HasRow(dev[j]) =>
              RowOf(dev[j]).TIME_USED <= now' - client'[j].time_start_parking,
           \/ your_table' = your_table
           \/ \E m : your_table' = Delete(m)
           \/ \E j \in Slot :
                 /\ your_table' = Update(client[j].mac_address,
                                         now - client[j].time_start_parking)
                 /\ client'[j].time_start_parking = client[j].time_start_parking
                 /\ client[j].mac_address \in Device =>
                       Writer(j) /\ client[j].mac_address = dev[j]
    PROVE  WriterInv' /\ OneRowPerMac' /\ TableKept
<1>0. now \in Nat /\ now' \in Nat
  BY DEF TypeOK
<1>1. ASSUME NEW d \in Device, HasRow(d)
      PROVE  RowOf(d) \in Row /\ RowOf(d).TIME_USED \in 0 .. now
  BY <1>1, RowType DEF WriterInv
<1>2. \A i, j \in Slot : Writer(i)' /\ Writer(j)' /\ dev'[i] = dev'[j] => i = j
  BY DEF WriterInv
<1>3. ASSUME \A d \in Device : your_table'[d] = your_table[d] \/ ~HasRow(d)'
      PROVE  WriterInv' /\ TableKept
  <2>1. \A d \in Device : HasRow(d)' => HasRow(d) /\ RowOf(d)' = RowOf(d)
    BY <1>3 DEF HasRow, RowOf
  <2>2. \A d \in Device : HasRow(d)' => RowOf(d)'.TIME_USED \in 0 .. now'
    BY <1>0, <1>1, <2>1
  <2>3. \A i \in Slot : Writer(i)' /\ HasRow(dev[i])' =>
           RowOf(dev[i])'.TIME_USED <= now' - client'[i].time_start_parking
    BY <2>1 DEF Writer
  <2>4. TableKept
    BY <1>0, <1>1, <2>1 DEF TableKept
  <2>5. QED
    BY <1>2, <2>2, <2>3, <2>4 DEF WriterInv, HasRow, RowOf
<1>4. CASE your_table' = your_table
  BY <1>3, <1>4 DEF OneRowPerMac
<1>5. ASSUME NEW m, your_table' = Delete(m)
      PROVE  WriterInv' /\ OneRowPerMac' /\ TableKept
  <2>1. \A d \in Device : your_table'[d] = your_table[d] \/ ~HasRow(d)'
    BY <1>5, DeletedRow
  <2>2. OneRowPerMac'
    BY <1>5, DeleteRows, EmptySeq DEF OneRowPerMac, TypeOK
  <2>3. QED
    BY <1>3, <2>1, <2>2
<1>6. ASSUME NEW j \in Slot,
             your_table' = Update(client[j].mac_address, now - client[j].time_start_parking),
             client'[j].time_start_parking = client[j].time_start_parking,
             client[j].mac_address \in Device => Writer(j) /\ client[j].mac_address = dev[j]
      PROVE  WriterInv' /\ OneRowPerMac' /\ TableKept
  <2> DEFINE used == now - client[j].time_start_parking
  <2>1. used \in 0 .. now /\ used \in Int
    BY <1>0 DEF WriterInv
  <2>2. OneRowPerMac'
    BY <1>6, <2>1, UpdateRows DEF OneRowPerMac, TypeOK
  <2>3. ASSUME NEW d \in Device
        PROVE  /\ HasRow(d)' <=> HasRow(d)
               /\ HasRow(d) => RowOf(d)' = IF d = client[j].mac_address
                                           THEN [RowOf(d) EXCEPT !.TIME_USED = used]
                                           ELSE RowOf(d)
    BY <1>6, <2>1, UpdatedRow
  <2>4. ASSUME NEW d \in Device, HasRow(d)'
        PROVE  /\ HasRow(d) /\ RowOf(d)'.TIME_USED \in 0 .. now
               /\ RowOf(d)'.TIME_USED >= RowOf(d).TIME_USED
               /\ d # client[j].mac_address => RowOf(d)'.TIME_USED = RowOf(d).TIME_USED
               /\ d = client[j].mac_address => RowOf(d)'.TIME_USED = used
    <3>1. HasRow(d) /\ RowOf(d) \in Row /\ RowOf(d).TIME_USED \in 0 .. now
      BY <1>1, <2>3, <2>4
    <3>2. CASE d # client[j].mac_address
      BY <1>0, <2>3, <3>1, <3>2
    <3>3. CASE d = client[j].mac_address
      <4>1. RowOf(d)'.TIME_USED = used
        BY <2>3, <3>1, <3>3 DEF Row
      <4>2. RowOf(d).TIME_USED <= used
        BY <1>6, <3>1, <3>3 DEF WriterInv
      <4>3. QED
        BY <1>0, <2>1, <3>1, <3>3, <4>1, <4>2
    <3>4. QED
      BY <3>2, <3>3
  <2>5. ASSUME NEW i \in Slot, NEW d \in Device, d = dev[i], Writer(i)', HasRow(d)'
        PROVE  RowOf(d)'.TIME_USED <= now' - client'[i].time_start_parking
    <3>1. Writer(i)
      BY <2>5
    <3>2. CASE d # client[j].mac_address
      BY <2>4, <2>5, <3>1, <3>2
    <3>3. CASE d = client[j].mac_address
      <4>1. i = j
        BY <1>6, <2>5, <3>1, <3>3 DEF WriterInv
      <4>2. client[j].time_start_parking \in 0 .. now
        BY DEF WriterInv
      <4>3. QED
        BY <1>0, <1>6, <2>4, <2>5, <3>3, <4>1, <4>2
    <3>4. QED
      BY <3>2, <3>3
  <2>6. TableKept
    BY <2>4 DEF TableKept
  <2>7. \A d \in Device : HasRow(d)' => RowOf(d)'.TIME_USED \in 0 .. now'
    BY <1>0, <2>4
  <2>8. \A i \in Slot : Writer(i)' /\ HasRow(dev[i])' =>
           RowOf(dev[i])'.TIME_USED <= now' - client'[i].time_start_parking
    BY <2>5 DEF Writer
  <2>9. QED
    BY <1>2, <2>2, <2>6, <2>7, <2>8 DEF WriterInv, HasRow, RowOf
<1>7. QED
  BY <1>4, <1>5, <1>6

\* Before a database is closed, the writers are the threads that have not
\* ended.
LEMMA BaseWriter ==
    ASSUME BaseInv
    PROVE  WriterInv
<1>1. ASSUME NEW i \in Slot, Writer(i)
      PROVE  Live(i)
  BY <1>1, CountedLive DEF Writer, Live, Counted, BaseInv
<1>2. QED
  BY <1>1 DEF BaseInv, Known, RowInv, OneLive, TimeInv, WriterInv, Live

\* A step of the server with the prices closed and the clients open.
LEMMA StaysWriter ==
    ASSUME Orderly, TypeInv, WriterInv, OneRowPerMac, Stays,
           "clients" \in open, "prices" \notin open
    PROVE  WriterInv' /\ OneRowPerMac' /\ TableKept
<1>0. TypeOK /\ "dberr" \notin Faults /\ now \in Nat /\ ~DbError
  BY NoDbError DEF Orderly, TypeInv, TypeOK
<1>1. ASSUME NEW k \in Slot, Thread(k), Alone(k), Uses(k) \subseteq open
      PROVE  WriterInv' /\ OneRowPerMac' /\ TableKept
  <2>1. /\ now' = now /\ dev' = dev /\ ~Restart
        /\ pc[k] \notin {"none", "done", "resume", "insert"}
        /\ \A j \in Slot : j # k => client'[j] = client[j] /\ pc'[j] = pc[j]
    <3>1. pc[k] \notin {"resume", "insert"}
      BY <1>1 DEF Uses
    <3>2. QED
      BY <1>1, <3>1 DEF Alone, Restart
  <2>2. ~Resume(k) /\ ~InsertClient(k)
    BY <2>1 DEF Resume, InsertClient
  <2>3. \A j \in Slot : Writer(j)' => Writer(j)
    BY <2>1 DEF Writer
  <2>4. ASSUME NEW j \in Slot
        PROVE  /\ client'[j].time_start_parking \in 0 .. now'
               /\ Writer(j) /\ HasRow(dev[j]) =>
                    RowOf(dev[j]).TIME_USED <= now' - client'[j].time_start_parking
    <3>1. CASE CheckNew(k) /\ j = k
      BY <1>0, <2>1, <3>1, CheckNewStarts
    <3>2. CASE ~CheckNew(k) \/ j # k
      <4>1. client'[j].time_start_parking = client[j].time_start_parking
        BY <1>0, <1>1, <2>1, <2>2, <3>2, StartKept
      <4>2. QED
        BY <2>1, <4>1 DEF WriterInv
    <3>3. QED
      BY <3>1, <3>2
  <2>5. CASE CloseApp(k) \/ UpdateLost(k)
    <3>1. your_table' = Update(client[k].mac_address, now - client[k].time_start_parking)
      BY <1>0, <2>5 DEF CloseApp, UpdateLost, UpdateClientData
    <3>2. ~CheckNew(k)
      BY <2>5 DEF CloseApp, UpdateLost, CheckNew
    <3>3. client'[k].time_start_parking = client[k].time_start_parking
      BY <1>0, <1>1, <2>1, <2>2, <3>2, StartKept
    <3>4. client[k].mac_address \in Device => Writer(k) /\ client[k].mac_address = dev[k]
      BY <2>1, ConstantsAssumption DEF Writer, TypeInv, Registered
    <3>5. QED
      BY <1>0, <2>1, <2>3, <2>4, <3>1, <3>3, <3>4, WriterStep
  <2>6. CASE RemoveClient(k)
    BY <1>0, <2>1, <2>3, <2>4, <2>6, WriterStep DEF RemoveClient
  <2>7. CASE ~(CloseApp(k) \/ UpdateLost(k) \/ RemoveClient(k))
    <3>1. your_table' = your_table
      BY <1>1, <2>1, <2>2, <2>7 DEF Thread, Lock, Recv, RecvError, RecvLost, Lost, CheckKnown,
         CheckNew, CheckAgain, ResumeError, InsertError, SendLocation,
         SetConnected, SendPayment, ExitLost, SendError, ExitSilently, Finish,
         BrokenPipe, Restart
    <3>2. QED
      BY <1>0, <2>1, <2>3, <2>4, <3>1, WriterStep
  <2>8. QED
    BY <2>5, <2>6, <2>7
<1>2. ASSUME NoSlot, your_table' = your_table \/ DbUpdate
      PROVE  WriterInv' /\ OneRowPerMac' /\ TableKept
  <2>1. /\ UNCHANGED <<client, pc, dev>>
        /\ now' \in {now, now + 1}
    BY <1>2 DEF NoSlot
  <2>2. \A j \in Slot : Writer(j)' => Writer(j)
    BY <2>1 DEF Writer
  <2>3. ASSUME NEW j \in Slot
        PROVE  /\ client'[j].time_start_parking \in 0 .. now'
               /\ Writer(j) /\ HasRow(dev[j]) =>
                    RowOf(dev[j]).TIME_USED <= now' - client'[j].time_start_parking
    <3>1. /\ client'[j].time_start_parking = client[j].time_start_parking
          /\ client[j].time_start_parking \in 0 .. now
      BY <2>1 DEF WriterInv
    <3>2. ASSUME Writer(j), HasRow(dev[j])
          PROVE  RowOf(dev[j]).TIME_USED <= now' - client'[j].time_start_parking
      <4>1. dev[j] \in Device /\ RowOf(dev[j]).TIME_USED \in 0 .. now
        BY <3>2 DEF Writer, WriterInv
      <4>2. RowOf(dev[j]).TIME_USED <= now - client[j].time_start_parking
        BY <3>2 DEF WriterInv
      <4>3. QED
        BY <1>0, <2>1, <3>1, <4>1, <4>2
    <3>3. QED
      BY <1>0, <2>1, <3>1, <3>2
  <2>4. CASE your_table' = your_table
    BY <1>0, <2>1, <2>2, <2>3, <2>4, WriterStep
  <2>5. CASE DbUpdate /\ your_table' # your_table
    <3>1. dbNext \in Slot
      BY <1>0, <2>5, ConstantsAssumption DEF DbUpdate, Slot, TypeOK
    <3>2. /\ client[dbNext].connected
          /\ your_table' = Update(client[dbNext].mac_address,
                                  now - client[dbNext].time_start_parking)
      BY <1>0, <2>5 DEF DbUpdate
    <3>3. client[dbNext].mac_address \in Device =>
            Writer(dbNext) /\ client[dbNext].mac_address = dev[dbNext]
      BY <3>1, <3>2, ConstantsAssumption DEF Writer, TypeInv, Registered
    <3>4. QED
      BY <1>0, <2>1, <2>2, <2>3, <3>1, <3>2, <3>3, WriterStep
  <2>6. QED
    BY <1>2, <2>4, <2>5
<1>3. QED
  BY <1>1, <1>2 DEF Stays

\* A step of the server with the clients closed.
LEMMA StaysFrozen ==
    ASSUME TypeInv, Stays, "clients" \notin open
    PROVE  your_table' = your_table
<1>1. ASSUME NEW k \in Slot, Thread(k), Alone(k), Uses(k) \subseteq open
      PROVE  your_table' = your_table
  <2>1. pc[k] \notin {"resume", "insert", "close", "delete", "update"}
    BY <1>1 DEF Uses
  <2>2. QED
    BY <1>1, <2>1 DEF Thread, Lock, Recv, RecvError, RecvLost, Lost, CheckKnown,
       CheckNew, CheckAgain, Resume, ResumeError, InsertClient, InsertError, SendLocation,
       SetConnected, CloseApp, SendPayment, RemoveClient, ExitLost, UpdateLost, SendError,
       ExitSilently, Finish, BrokenPipe, Restart
<1>2. QED
  BY <1>1 DEF Stays

-----------------------------------------------------------------------------
(* The calls that fail.                                                     *)

\* What such a call does to the server.
Fails(i) ==
    /\ UNCHANGED <<now, accepted, checked_database, client_data_buff, dbStart, dbNext,
                   your_table, netVars>>
    /\ \/ /\ pc[i] = "check" /\ "clients" \notin open
          /\ client' = [client EXCEPT
                ![i].time_start_parking = now,
                ![i].location = location_func(client[i].coords[1], client[i].coords[2])]
          /\ Goto(i, "insertLock")
          /\ UNCHANGED <<mutex, status, end_time>>
       \/ /\ \/ pc[i] = "resume" /\ client'[i] \in ResumeStops(i)
             \/ pc[i] = "insert" /\ client'[i] \in InsertStops(i)
          /\ client' = [client EXCEPT ![i] = client'[i]]
          /\ \E e \in ErrorStatus : status' = [status EXCEPT ![i] = e]
          /\ Unlock(i, "exit")
          /\ UNCHANGED end_time
       \/ /\ pc[i] = "close" /\ "clients" \notin open
          /\ client' = [client EXCEPT ![i].connected = FALSE]
          /\ status' = [status EXCEPT ![i] = "CLOSE_APP_ERROR"]
          /\ Unlock(i, "exit")
          /\ end_time' = [end_time EXCEPT ![i] = now]
       \/ /\ pc[i] \in {"delete", "update"} /\ "clients" \notin open
          /\ Unlock(i, "finish")
          /\ UNCHANGED <<client, status>>
          /\ end_time' \in {end_time, [end_time EXCEPT ![i] = now]}

LEMMA FailingFails ==
    ASSUME TypeOK, NEW i \in Slot, FailingCall(i)
    PROVE  Fails(i)
<1> USE DEF Failing!netVars, netVars, Failing!Unlock, Unlock, Failing!Goto, Goto,
        Failing!Free, Free, Uses, TypeOK
<1>0. ~(Uses(i) \subseteq open) /\ your_table' = your_table
  BY DEF FailingCall
<1>1. ASSUME Failing!CheckNew(i)
      PROVE  Fails(i)
  BY <1>0, <1>1 DEF Failing!CheckNew, Failing!location_func, location_func, Fails
<1>2. ASSUME Failing!ResumeError(i), client'[i] \in ResumeStops(i)
      PROVE  Fails(i)
  <2>1. client' = [client EXCEPT ![i] = client'[i]]
    <3>1. PICK c : client' = [client EXCEPT ![i] = c]
      BY <1>2 DEF Failing!ResumeError
    <3>2. QED
      BY <3>1
  <2>2. QED
    BY <1>0, <1>2, <2>1 DEF Failing!ResumeError, Fails, ErrorStatus
<1>3. ASSUME Failing!InsertError(i), client'[i] \in InsertStops(i)
      PROVE  Fails(i)
  <2>1. client' = [client EXCEPT ![i] = client'[i]]
    <3>1. PICK c : client' = [client EXCEPT ![i] = c]
      BY <1>3 DEF Failing!InsertError
    <3>2. QED
      BY <3>1
  <2>2. QED
    BY <1>0, <1>3, <2>1 DEF Failing!InsertError, Fails, ErrorStatus
<1>4. ASSUME Failing!CloseApp(i), status'[i] = "CLOSE_APP_ERROR"
      PROVE  Fails(i)
  <2>1. PICK ok \in BOOLEAN : status' = [status EXCEPT ![i] = IF ok THEN @ ELSE "CLOSE_APP_ERROR"]
    BY <1>4 DEF Failing!CloseApp, Failing!DbError
  <2>2. status' = [status EXCEPT ![i] = "CLOSE_APP_ERROR"]
    BY <1>4, <2>1
  <2>3. QED
    BY <1>0, <1>4, <2>2 DEF Failing!CloseApp, Failing!UpdateClientData, Fails
<1>5. ASSUME Failing!RemoveClient(i) \/ Failing!UpdateLost(i)
      PROVE  Fails(i)
  BY <1>0, <1>5 DEF Failing!RemoveClient, Failing!UpdateLost, Failing!UpdateClientData, Fails
<1>6. QED
  BY <1>1, <1>2, <1>3, <1>4, <1>5 DEF FailingCall

\* What client[i] is left with has the type, the address and the start of a
\* count that goes on.
LEMMA StopsType ==
    ASSUME TypeInv, "dberr" \notin Faults, NEW i \in Slot,
           \/ pc[i] = "resume" /\ client'[i] \in ResumeStops(i)
           \/ pc[i] = "insert" /\ client'[i] \in InsertStops(i)
    PROVE  /\ client'[i] \in pango_data
           /\ client'[i].mac_address = client[i].mac_address
<1>1. client[i] \in pango_data /\ Selects \in Got
  BY NoDbError DEF TypeInv, TypeOK, Got
<1>2. CASE pc[i] = "resume" /\ client'[i] \in ResumeStops(i)
  BY <1>1, <1>2, ContinuedType, MacKept DEF ResumeStops
<1>3. CASE pc[i] = "insert" /\ client'[i] \in InsertStops(i)
  BY <1>1, <1>3, PricedType, MacKept DEF InsertStops
<1>4. QED
  BY <1>2, <1>3

LEMMA FailsType ==
    ASSUME TypeInv, "dberr" \notin Faults, NEW i \in Slot, Fails(i)
    PROVE  TypeInv'
<1>0. TypeOK /\ client \in [Slot -> pango_data] /\ now \in Nat
  BY DEF TypeInv, TypeOK
<1>1. PICK l \in {"insertLock", "exit", "finish"} : Goto(i, l) /\ mutex' \in {mutex, Free}
  BY DEF Fails, Unlock
<1>2. /\ pc[i] \in {"check", "resume", "insert", "close", "delete", "update"}
      /\ l = "insertLock" => pc[i] = "check"
      /\ l = "exit" => status'[i] # "CLOSE_APP"
      /\ \A j \in Slot : j # i => status'[j] = status[j]
      /\ status' \in [Slot -> AppStatus]
      /\ end_time' \in [Slot -> Nat]
  <2>1. pc'[i] = l /\ status \in [Slot -> AppStatus] /\ end_time \in [Slot -> Nat]
    BY <1>0, <1>1 DEF Goto, TypeOK
  <2>2. CASE pc[i] = "check"
    BY <1>0, <2>1, <2>2 DEF Fails, Goto, TypeOK
  <2>3. CASE pc[i] \in {"resume", "insert"}
    <3>1. /\ \E e \in ErrorStatus : status' = [status EXCEPT ![i] = e]
          /\ Goto(i, "exit") /\ end_time' = end_time
      BY <2>3 DEF Fails, Unlock
    <3>2. ErrorStatus \subseteq AppStatus /\ "CLOSE_APP" \notin ErrorStatus
      BY DEF ErrorStatus, AppStatus
    <3>3. l = "exit"
      BY <1>0, <2>1, <3>1 DEF Goto, TypeOK
    <3>4. QED
      BY <2>1, <2>3, <3>1, <3>2, <3>3
  <2>4. CASE pc[i] = "close"
    <3>1. /\ status' = [status EXCEPT ![i] = "CLOSE_APP_ERROR"]
          /\ Goto(i, "exit") /\ end_time' = [end_time EXCEPT ![i] = now]
      BY <2>4 DEF Fails, Unlock
    <3>2. "CLOSE_APP_ERROR" \in AppStatus
      BY DEF AppStatus
    <3>3. l = "exit"
      BY <1>0, <2>1, <3>1 DEF Goto, TypeOK
    <3>4. QED
      BY <1>0, <2>1, <2>4, <3>1, <3>2, <3>3
  <2>5. CASE pc[i] \in {"delete", "update"}
    <3>1. /\ status' = status
          /\ Goto(i, "finish") /\ end_time' \in {end_time, [end_time EXCEPT ![i] = now]}
      BY <2>5 DEF Fails, Unlock
    <3>2. l = "finish"
      BY <1>0, <2>1, <3>1 DEF Goto, TypeOK
    <3>3. QED
      BY <1>0, <2>1, <2>5, <3>1, <3>2
  <2>6. QED
    BY <2>2, <2>3, <2>4, <2>5 DEF Fails
<1>3. client' \in [Slot -> pango_data] /\ \A j \in Slot : client'[j].mac_address = client[j].mac_address
  <2>1. CASE pc[i] = "check"
    <3>1. PICK loc \in Location : loc = location_func(client[i].coords[1], client[i].coords[2])
      BY <1>0, LocationOfCoords DEF pango_data, Location
    <3>2. client' = [client EXCEPT
             ![i].time_start_parking = now,
             ![i].location = location_func(client[i].coords[1], client[i].coords[2])]
      BY <2>1 DEF Fails
    <3>3. client'[i] = [client[i] EXCEPT !.time_start_parking = now, !.location = loc]
      BY <1>0, <3>1, <3>2
    <3>4. client'[i] \in pango_data
      <4>1. client[i] \in pango_data /\ now \in Int
        BY <1>0
      <4>2. QED
        BY <3>1, <3>3, <4>1 DEF pango_data
    <3>5. client'[i].mac_address = client[i].mac_address
      BY <3>3, MacKept
    <3>6. \A j \in Slot : j # i => client'[j] = client[j]
      BY <1>0, <3>2
    <3>7. QED
      BY <1>0, <3>2, <3>4, <3>5, <3>6
  <2>2. CASE pc[i] \in {"resume", "insert"}
    <3>1. client' = [client EXCEPT ![i] = client'[i]]
      BY <2>2 DEF Fails
    <3>2. client'[i] \in pango_data /\ client'[i].mac_address = client[i].mac_address
      BY <2>2, StopsType DEF Fails
    <3>3. \A j \in Slot : j # i => client'[j] = client[j]
      BY <1>0, <3>1
    <3>4. QED
      BY <1>0, <3>1, <3>2, <3>3
  <2>3. CASE pc[i] = "close"
    <3>1. client' = [client EXCEPT ![i].connected = FALSE]
      BY <2>3 DEF Fails
    <3>2. client'[i] = [client[i] EXCEPT !.connected = FALSE]
      BY <1>0, <3>1
    <3>3. client'[i] \in pango_data
      BY <1>0, <3>2, FlagType
    <3>4. client'[i].mac_address = client[i].mac_address
      BY <3>2, MacKept
    <3>5. \A j \in Slot : j # i => client'[j] = client[j]
      BY <1>0, <3>1
    <3>6. QED
      BY <1>0, <3>1, <3>3, <3>4, <3>5
  <2>4. CASE pc[i] \in {"delete", "update"}
    BY <1>0, <2>4 DEF Fails
  <2>5. QED
    BY <1>2, <2>1, <2>2, <2>3, <2>4
<1>4. pc' \in [Slot -> PC]
  BY <1>0, <1>1 DEF Goto, PC, Waiting, CriticalSection, TypeOK
<1>5. TypeOK'
  BY <1>0, <1>1, <1>2, <1>3, <1>4 DEF Fails, netVars, TypeOK
<1>6. Registered'
  <2>1. /\ l \in PC /\ l \notin {"none", "lostLock", "lost"}
        /\ l \in Served => pc[i] = "check"
    BY <1>1, <1>2 DEF PC, Waiting, CriticalSection, Served
  <2>2. pc[i] = "check" => client[i].mac_address = dev[i]
    BY DEF TypeInv, Registered, Served
  <2>3. pc' = [pc EXCEPT ![i] = l] /\ accepted' = accepted /\ dev' = dev
    BY <1>1 DEF Fails, netVars, Goto
  <2>4. QED
    <3>1. /\ pc[i] # "none" /\ l # "none"
          /\ pc[i] \notin {"finish", "done"}
          /\ l \in Served \/ (l = "exit" /\ status'[i] = "CLOSE_APP")
                => client[i].mac_address = dev[i]
          /\ l \notin {"lostLock", "lost"}
      BY <1>2, <2>1, <2>2
    <3>2. \A j \in Slot : j # i => status'[j] = status[j]
      BY <1>2
    <3>3. \A j \in Slot : client'[j].mac_address = client[j].mac_address
      BY <1>3
    <3>4. l \in PC
      BY <2>1
    <3>5. QED
      BY <2>3, <3>1, <3>2, <3>3, <3>4, RegisteredFrame
<1>7. QED
  BY <1>5, <1>6 DEF TypeInv

LEMMA FailsDiscipline ==
    ASSUME TypeInv, MutexDiscipline, NEW i \in Slot, Fails(i)
    PROVE  MutexDiscipline'
<1>1. {"insertLock", "exit", "finish"} \subseteq PC \ Critical
  BY DEF PC, Waiting, CriticalSection, Critical
<1>2. CASE pc[i] = "check"
  BY <1>1, <1>2, OutsideKeepsDiscipline DEF Fails, Critical
<1>3. CASE pc[i] \in Critical
  BY <1>1, <1>3, UnlockKeepsDiscipline DEF Fails, Critical
<1>4. QED
  BY <1>2, <1>3 DEF Fails, Critical

\* With the clients open it is the prices that are closed: the thread goes on
\* counting from what the row says, or from where it was.
LEMMA FailsWriter ==
    ASSUME TypeInv, "dberr" \notin Faults, WriterInv, OneRowPerMac, NEW i \in Slot, Fails(i),
           "clients" \in open
    PROVE  WriterInv' /\ OneRowPerMac' /\ TableKept
<1>0. TypeOK /\ client \in [Slot -> pango_data] /\ now \in Nat
  BY DEF TypeInv, TypeOK
<1>1. /\ UNCHANGED <<now, dev, your_table>>
      /\ pc[i] \in {"resume", "insert"}
      /\ client' = [client EXCEPT ![i] = client'[i]]
      /\ pc' = [pc EXCEPT ![i] = "exit"]
      /\ pc[i] = "resume" => client'[i] = Located(i, Selects)
      /\ pc[i] = "insert" => client'[i] = client[i]
  BY DEF Fails, netVars, Unlock, Goto, ResumeStops, InsertStops
<1>2. \A j \in Slot : j # i => client'[j] = client[j] /\ pc'[j] = pc[j]
  BY <1>0, <1>1 DEF TypeOK
<1>3. \A j \in Slot : Writer(j)' => Writer(j)
  BY <1>1, <1>2 DEF Writer
<1>4. dev[i] \in Device /\ client[i].mac_address = dev[i]
  BY <1>1 DEF TypeInv, Registered, Served
<1>5. /\ client'[i].time_start_parking \in 0 .. now
      /\ Writer(i) /\ HasRow(dev[i]) =>
            RowOf(dev[i]).TIME_USED <= now - client'[i].time_start_parking
  <2>1. CASE pc[i] = "insert"
    BY <1>1, <2>1 DEF WriterInv
  <2>2. CASE pc[i] = "resume"
    <3> DEFINE used == IF HasRow(dev[i]) THEN RowOf(dev[i]).TIME_USED
                                         ELSE client[i].time_start_parking
    <3>1. client'[i].time_start_parking = now - used
      <4>1. client[i] \in pango_data
        BY <1>0
      <4>2. Continued(i, Selects).time_start_parking = now - used
        BY <1>4, <4>1 DEF Continued, Selects, HasRow, RowOf, pango_data
      <4>3. Located(i, Selects).time_start_parking = Continued(i, Selects).time_start_parking
        BY <4>1 DEF Located, Continued, pango_data
      <4>4. QED
        BY <1>1, <2>2, <4>2, <4>3
    <3>2. used \in 0 .. now
      BY <1>4 DEF WriterInv
    <3>3. QED
      BY <1>0, <3>1, <3>2
  <2>3. QED
    BY <1>1, <2>1, <2>2
<1>6. \A j \in Slot : /\ client'[j].time_start_parking \in 0 .. now
                      /\ Writer(j) /\ HasRow(dev[j]) =>
                           RowOf(dev[j]).TIME_USED <= now - client'[j].time_start_parking
  BY <1>2, <1>5 DEF WriterInv
<1>7. QED
  BY <1>0, <1>1, <1>3, <1>6, WriterStep

-----------------------------------------------------------------------------
(* The steps of the server with its main.                                   *)

\* The end of the process,
Ends == Restart /\ toSave' = {} /\ open' = open

\* steps of main that leave the server alone, and may close a database,
Closes ==
    /\ UNCHANGED <<vars, toSave, due, missed, db_done>>
    /\ open' \subseteq open
    /\ intact' = intact \/ toSave = {}

\* an UPDATE of the database thread on the closed database,
SaveFails ==
    /\ "clients" \notin open
    /\ dbNext < MaxClients /\ dbNext' = dbNext + 1
    /\ missed \subseteq missed'
    /\ UNCHANGED <<now, accepted, mutex, client, pc, status, checked_database, end_time,
                   client_data_buff, dbStart, your_table, netVars, open, toSave, due,
                   intact, db_done>>

\* the steps FinalLock and FailedAccept that PangoServer does not have, and the
\* others, which are steps of PangoServer.
ServerStep ==
    /\ [Next]_vars
    /\ UNCHANGED <<open, toSave, due, intact>>
    /\ missed \subseteq missed'
    /\ Stays \/ (BothOpen /\ toSave = {})
    /\ db_done => db_done'
    /\ toSave # {} /\ BothOpen =>
          /\ ~db_done => dbNext' >= dbNext
          /\ \A i \in toSave : Passed(i)' =>
                \/ Passed(i) \/ i \in missed'
                \/ /\ your_table' = Update(client[i].mac_address,
                                           now - client[i].time_start_parking)
                   /\ UNCHANGED <<now, client, dev>>

LEMMA ExitEnds == Exit => Ends
BY DEF Exit, Ends

LEMMA ThreadDbNext ==
    ASSUME NEW i \in Slot, Thread(i), ~BrokenPipe(i)
    PROVE  dbNext' = dbNext
<1> USE DEF netVars
<1>1. CASE Lock(i) \/ Recv(i) \/ RecvError(i) \/ RecvLost(i) \/ Lost(i) \/ CheckKnown(i)
           \/ CheckNew(i) \/ CheckAgain(i) \/ Resume(i) \/ ResumeError(i)
  BY <1>1 DEF Lock, Recv, RecvError, RecvLost, Lost, CheckKnown, CheckNew, CheckAgain, Resume,
     ResumeError
<1>2. CASE InsertClient(i) \/ InsertError(i) \/ SendLocation(i) \/ SetConnected(i)
           \/ CloseApp(i) \/ SendPayment(i) \/ RemoveClient(i) \/ ExitLost(i)
           \/ UpdateLost(i) \/ SendError(i) \/ ExitSilently(i) \/ Finish(i)
  BY <1>2 DEF InsertClient, InsertError, SendLocation, SetConnected, CloseApp, SendPayment,
     RemoveClient, ExitLost, UpdateLost, SendError, ExitSilently, Finish
<1>3. QED
  BY <1>1, <1>2 DEF Thread

\* Every step is of one of these kinds.
LEMMA LifeSteps ==
    ASSUME Orderly, TypeInv, Stages, BothOpen => ToSaveInv, [LifeNext]_<<vars, lifeVars>>
    PROVE  \/ Ends \/ FinalLock \/ FailedAccept \/ ServerStep \/ Closes \/ SaveFails
           \/ \E i \in Slot : FailingCall(i)
<1> DEFINE Quiet == UNCHANGED <<open, toSave, due, missed, intact, db_done, dbNext>>
<1> USE DEF closing
<1>q. ASSUME [Next]_vars, Quiet, Stays
      PROVE  ServerStep
  <2>1. dbNext \in Int
    BY ConstantsAssumption DEF TypeInv, TypeOK
  <2>2. QED
    BY <1>q, <2>1 DEF ServerStep, Passed
<1>n. ASSUME NoSlot, your_table' = your_table
      PROVE  Stays
  BY <1>n DEF Stays
<1>2. CASE Accept
  <2>1. PICK m \in Device : Connect(m)
    BY <1>2 DEF Accept
  <2>2. Next /\ toSave = {} /\ BothOpen
    BY <1>2, <2>1 DEF Next, Environment, Accept, Stages
  <2>3. QED
    BY <1>2, <2>2 DEF Accept, lifeVars, ServerStep
<1>3. CASE MainThread
  <2>1. CASE LastAccept
    <3>1. toSave = {}
      BY <2>1 DEF LastAccept, Stages
    <3>2. QED
      BY <2>1, <3>1, ExitEnds DEF LastAccept, Closes
  <2>2. CASE JoinThread \/ JoinDb
    BY <2>2 DEF JoinThread, JoinDb, Closes
  <2>3. CASE ClosePrices \/ CloseClients
    BY <2>3 DEF ClosePrices, CloseClients, Close, Closes
  <2>4. CASE EndMain
    BY <2>4, ExitEnds DEF EndMain
  <2>5. QED
    BY <1>3, <2>1, <2>2, <2>3, <2>4 DEF MainThread
<1>4. CASE DbThreadStep /\ ~FinalLock
  <2>1. CASE PeriodicLock
    <3>1. toSave = {}
      BY <2>1 DEF PeriodicLock, Stages
    <3>2. Next
      BY <2>1 DEF PeriodicLock, Next, DbUpdateThread
    <3>3. NoSlot /\ your_table' = your_table
      BY <2>1 DEF PeriodicLock, DbLock, netVars, NoSlot
    <3>4. Stays
      BY <1>n, <3>3
    <3>5. UNCHANGED <<open, toSave, due, missed, intact, db_done>>
      BY <2>1 DEF PeriodicLock, lifeVars
    <3>6. QED
      BY <3>1, <3>2, <3>4, <3>5 DEF ServerStep
  <2>2. CASE SaveRow /\ "clients" \in open
    <3>1. /\ DbUpdate
          /\ Next
          /\ UNCHANGED <<now, client, pc, dev>>
          /\ dbNext' = dbNext + 1
      BY <2>2 DEF SaveRow, Next, DbUpdateThread, DbUpdate, netVars
    <3>2. Stays
      BY <2>2, <3>1 DEF NoSlot, Stays
    <3>3. /\ UNCHANGED <<open, toSave, due, intact, db_done>>
          /\ missed' = IF /\ quit_loop
                          /\ Rewriting(dbNext)
                          /\ your_table' # Update(client[dbNext].mac_address,
                                                  now - client[dbNext].time_start_parking)
                       THEN missed \cup {dbNext} ELSE missed
      BY <2>2 DEF SaveRow
    <3>4. dbNext \in Int /\ ~DbError
      BY NoDbError, ConstantsAssumption DEF TypeInv, TypeOK, Orderly
    <3>5. ASSUME BothOpen, NEW i \in toSave, Passed(i)', ~Passed(i), i \notin missed'
          PROVE  your_table' = Update(client[i].mac_address,
                                      now - client[i].time_start_parking)
      <4>1. i \in Slot /\ quit_loop /\ client[i].connected
        BY <3>5 DEF ToSaveInv, Stages
      <4>2. i = dbNext
        BY <3>1, <3>3, <3>4, <3>5, <4>1, ConstantsAssumption DEF Passed, Slot
      <4>3. QED
        BY <3>1, <3>3, <3>4, <3>5, <4>1, <4>2 DEF DbUpdate
    <3>6. QED
      BY <3>1, <3>2, <3>3, <3>4, <3>5 DEF ServerStep
  <2>3. CASE SaveRow /\ "clients" \notin open
    BY <2>3 DEF SaveRow, Failing!DbUpdate, Failing!netVars, netVars, SaveFails
  <2>4. CASE PeriodicUnlock
    <3>1. Next
      BY <2>4 DEF PeriodicUnlock, Next, DbUpdateThread
    <3>2. NoSlot /\ your_table' = your_table
      BY <2>4 DEF PeriodicUnlock, DbUnlock, netVars, NoSlot
    <3>3. QED
      BY <1>q, <1>n, <2>4, <3>1, <3>2 DEF PeriodicUnlock, DbUnlock, lifeVars
  <2>5. CASE FinalUnlock
    <3>0. /\ Next
          /\ NoSlot /\ your_table' = your_table
          /\ dbNext = MaxClients /\ dbNext' = dbNext
      <4>1. Next
        BY <2>5 DEF FinalUnlock, Next, DbUpdateThread
      <4>2. QED
        BY <2>5, <4>1 DEF FinalUnlock, DbUnlock, netVars, NoSlot
    <3>1. /\ Next /\ Stays
          /\ dbNext = MaxClients /\ dbNext' = dbNext
      BY <1>n, <3>0
    <3>2. \A i \in Slot : Passed(i)
      BY <3>1, ConstantsAssumption DEF Passed, Slot
    <3>3. UNCHANGED <<open, toSave, due, missed, intact>> /\ db_done'
      BY <2>5 DEF FinalUnlock
    <3>4. dbNext \in Int
      BY ConstantsAssumption DEF TypeInv, TypeOK
    <3>5. QED
      BY <3>1, <3>2, <3>3, <3>4 DEF ServerStep, ToSaveInv
  <2>6. QED
    BY <1>4, <2>1, <2>2, <2>3, <2>4, <2>5 DEF DbThreadStep
<1>5. CASE World
  <2>1. Next /\ Stays /\ UNCHANGED dbNext
    <3>1. ASSUME NEW i \in Slot, DeviceStep(i) \/ Disconnect(i) \/ Reset(i)
          PROVE  Next /\ NoSlot /\ UNCHANGED <<dbNext, your_table>>
      BY <3>1 DEF Next, Environment, DeviceStep, SendStart, ReceiveLocation, SendClose,
         ReceivePayment, GiveUp, Disconnect, Reset, Leave, serverVars, NoSlot
    <3>2. CASE Tick
      <4>1. Next
        BY <3>2 DEF Next, Environment
      <4>2. NoSlot /\ UNCHANGED <<dbNext, your_table>>
        BY <3>2 DEF Tick, serverVars, netVars, NoSlot
      <4>3. QED
        BY <1>n, <4>1, <4>2
    <3>3. QED
      BY <1>5, <1>n, <3>1, <3>2 DEF World
  <2>2. QED
    BY <1>q, <1>5, <2>1 DEF World, lifeVars
<1>6. ASSUME NEW i \in Slot, ClientThread(i)
      PROVE  ServerStep
  <2>1. Next /\ Thread(i) /\ Alone(i)
    BY <1>6, ThreadAlone DEF ClientThread, Next
  <2>2. UNCHANGED dbNext /\ Stays
    BY <2>1, <1>6, ThreadDbNext DEF ClientThread, Stays
  <2>3. QED
    BY <1>q, <1>6, <2>1, <2>2 DEF ClientThread, lifeVars
<1>7. ASSUME NEW i \in Slot, PipeEndsProcess(i)
      PROVE  Ends
  BY <1>7, ExitEnds DEF PipeEndsProcess
<1>8. CASE UseAfterClose
  BY <1>8, ExitEnds DEF UseAfterClose
<1>9. CASE Ended \/ UNCHANGED <<vars, lifeVars>>
  BY <1>9 DEF Ended, lifeVars, Closes
<1>10. QED
  BY <1>2, <1>3, <1>4, <1>5, <1>6, <1>7, <1>8, <1>9 DEF LifeNext, DbThreadStep

-----------------------------------------------------------------------------
(* What each kind of step keeps.                                            *)

\* While the database thread has the mutex nobody takes it or gives it back.
LEMMA MutexStays ==
    ASSUME MutexDiscipline, mutex = DbThread, NEW i \in Slot,
           \/ Thread(i) /\ ~BrokenPipe(i)
           \/ Fails(i)
    PROVE  mutex' = mutex
<1>0. pc[i] \notin Critical /\ DbThread # Free
  BY DEF MutexDiscipline, DbThread, Free, Slot
<1>1. CASE Fails(i)
  BY <1>0, <1>1 DEF Fails, Critical
<1>2. CASE Lock(i) \/ Recv(i) \/ RecvError(i) \/ RecvLost(i) \/ CheckKnown(i) \/ CheckNew(i)
           \/ CheckAgain(i) \/ SendLocation(i) \/ SetConnected(i) \/ SendPayment(i)
           \/ ExitLost(i) \/ SendError(i) \/ ExitSilently(i) \/ Finish(i)
  BY <1>0, <1>2 DEF Lock, Recv, RecvError, RecvLost, CheckKnown, CheckNew, CheckAgain,
     SendLocation, SetConnected, SendPayment, ExitLost, SendError, ExitSilently, Finish
<1>3. CASE Lost(i) \/ Resume(i) \/ ResumeError(i) \/ InsertClient(i) \/ InsertError(i)
           \/ CloseApp(i) \/ RemoveClient(i) \/ UpdateLost(i)
  BY <1>0, <1>3 DEF Lost, Resume, ResumeError, InsertClient, InsertError, CloseApp,
     RemoveClient, UpdateLost, Critical
<1>4. QED
  BY <1>1, <1>2, <1>3 DEF Thread

\* Main goes from one stage to the next.
LEMMA NextStages ==
    ASSUME TypeInv, MutexDiscipline, Stages, [LifeNext]_<<vars, lifeVars>>
    PROVE  Stages'
<1> USE DEF Stages, lifeVars, closing, BothOpen
<1>1. CASE Accept \/ FailedAccept
  BY <1>1 DEF Accept, FailedAccept
<1>2. CASE MainThread
  <2>1. CASE LastAccept
    BY <2>1 DEF LastAccept, Exit, vars, serverVars
  <2>2. CASE JoinThread \/ JoinDb
    BY <2>2 DEF JoinThread, JoinDb, vars, serverVars
  <2>3. CASE ClosePrices \/ CloseClients
    <3>1. /\ UNCHANGED <<mutex, intact, return_thread, quit_loop, db_done, toSave>>
          /\ open' \subseteq open
          /\ main_pc \in {"closingPrices", "closingClients"}
          /\ main_pc' \in {"closingClients", "closed"}
      BY <2>3 DEF ClosePrices, CloseClients, Close, vars, serverVars
    <3>2. return_thread' => main_pc' \notin {"accepting", "joining"}
      BY <3>1
    <3>3. main_pc' \in {"closingPrices", "closingClients", "closed"} /\ intact' => db_done'
      BY <3>1
    <3>4. main_pc' \notin {"accepting", "joining", "returning", "closingPrices", "ended"}
      BY <3>1
    <3>5. /\ toSave' # {} => return_thread' /\ quit_loop'
          /\ toSave' # {} /\ ~db_done' => mutex' = DbThread
      BY <3>1
    <3>6. open' \subseteq {"prices", "clients"}
      BY <3>1
    <3>7. QED
      BY <3>1, <3>2, <3>3, <3>4, <3>5, <3>6
  <2>4. CASE EndMain
    BY <2>4 DEF EndMain, Exit
  <2>5. QED
    BY <1>2, <2>1, <2>2, <2>3, <2>4 DEF MainThread
<1>3. CASE FinalLock
  BY <1>3 DEF FinalLock, Owed, Running
<1>4. CASE PeriodicLock \/ PeriodicUnlock \/ FinalUnlock
  <2>1. CASE PeriodicLock
    BY <2>1 DEF PeriodicLock
  <2>2. CASE PeriodicUnlock
    BY <2>2 DEF PeriodicUnlock
  <2>3. CASE FinalUnlock
    BY <2>3 DEF FinalUnlock
  <2>4. QED
    BY <1>4, <2>1, <2>2, <2>3
<1>5. CASE SaveRow
  BY <1>5 DEF SaveRow, DbUpdate, Failing!DbUpdate
<1>6. CASE World
  <2>1. mutex' = mutex
    BY <1>6 DEF World, DeviceStep, SendStart, ReceiveLocation, SendClose, ReceivePayment,
       GiveUp, Disconnect, Reset, Leave, Tick, serverVars
  <2>2. QED
    BY <1>6, <2>1 DEF World
<1>7. CASE Ended \/ UNCHANGED <<vars, lifeVars>>
  <2>1. UNCHANGED <<mutex, main_pc, intact, return_thread, quit_loop, db_done, open, toSave>>
    BY <1>7 DEF Ended, vars, serverVars
  <2>2. QED
    BY <2>1
<1>8. ASSUME NEW i \in Slot, ClientThread(i) \/ FailingCall(i)
      PROVE  Stages'
  <2>1. mutex = DbThread => mutex' = mutex
    BY <1>8, MutexStays, FailingFails DEF ClientThread, TypeInv
  <2>2. UNCHANGED lifeVars
    <3>1. CASE ClientThread(i)
      BY <3>1 DEF ClientThread
    <3>2. CASE FailingCall(i)
      BY <3>2 DEF FailingCall
    <3>3. QED
      BY <1>8, <3>1, <3>2
  <2>3. UNCHANGED <<main_pc, intact, return_thread, quit_loop, db_done, open, toSave>>
    BY <2>2
  <2>4. QED
    BY <2>1, <2>3
<1>9. CASE UseAfterClose \/ \E i \in Slot : PipeEndsProcess(i)
  BY <1>9 DEF UseAfterClose, PipeEndsProcess, Exit
<1>10. QED
  BY <1>1, <1>2, <1>3, <1>4, <1>5, <1>6, <1>7, <1>8, <1>9 DEF LifeNext, DbThreadStep

\* The connections that are counting when the final update begins.
LEMMA FinalLockToSave ==
    ASSUME BaseInv, FinalLock
    PROVE  ToSaveInv'
<1>0. TypeInv /\ RowInv /\ TypeOK /\ now \in Nat
  BY DEF BaseInv, Known, TypeInv, TypeOK
<1>1. /\ UNCHANGED <<now, client, pc, your_table, dev>>
      /\ dbNext' = 0 /\ db_done' = FALSE
      /\ toSave' = {i \in Slot : client[i].connected}
      /\ due' = [i \in Slot |-> IF client[i].connected
                                THEN now - client[i].time_start_parking ELSE 0]
  BY DEF FinalLock, Owed, netVars
<1>2. ASSUME NEW i \in Slot, client[i].connected
      PROVE  /\ dev[i] \in Device
             /\ Registers(i)
             /\ pc[i] # "none" /\ pc[i] \notin BeforeRow
             /\ HasRow(dev[i])
             /\ \A j \in Slot : j # i /\ dev[j] = dev[i] => pc[j] = "done"
             /\ due'[i] \in Int /\ due'[i] <= now - client[i].time_start_parking
             /\ ~Passed(i)'
  <2>1. Live(i)
    BY <1>2, CountedLive DEF Counted, BaseInv
  <2>2. Registers(i) /\ HasRow(dev[i])
    BY <1>2 DEF BaseInv, PriceInv, Parked, Registers
  <2>3. pc[i] \notin BeforeRow
    <3>1. Len(your_table[dev[i]]) # 0
      BY <1>0, <2>1, <2>2, EmptySeq DEF HasRow, Live, TypeOK
    <3>2. QED
      BY <1>0, <3>1 DEF RowInv, NoRowYet, BeforeRow
  <2>4. ~Passed(i)'
    BY <1>1 DEF Passed, Slot
  <2>5. due'[i] \in Int /\ due'[i] <= now - client[i].time_start_parking
    <3>1. due'[i] = now - client[i].time_start_parking
      BY <1>1, <1>2
    <3>2. client[i].time_start_parking \in Int
      BY <1>0 DEF TypeOK, pango_data
    <3>3. QED
      BY <1>0, <3>1, <3>2
  <2>6. QED
    BY <1>0, <2>1, <2>2, <2>3, <2>4, <2>5 DEF RowInv, OneLive, Live
<1>3. QED
  BY <1>0, <1>1, <1>2 DEF ToSaveInv, Registers, HasRow, RowOf

\* It leaves the server as it is, but for the mutex and where the database
\* thread is.
LEMMA FinalLockKeeps ==
    ASSUME TypeInv, MutexDiscipline, OneRowPerMac, FinalLock
    PROVE  TypeInv' /\ MutexDiscipline' /\ OneRowPerMac' /\ (WriterInv => WriterInv')
<1>1. /\ UNCHANGED <<now, accepted, client, pc, status, checked_database, end_time,
                     client_data_buff, dbStart, your_table, netVars>>
      /\ mutex = Free /\ mutex' = DbThread
      /\ dbNext' = 0
  BY DEF FinalLock
<1>2. TypeInv'
  BY <1>1, ConstantsAssumption DEF netVars, TypeInv, TypeOK, Registered
<1>3. MutexDiscipline'
  BY <1>1 DEF MutexDiscipline, Free, DbThread, Slot
<1>4. OneRowPerMac' /\ (WriterInv => WriterInv')
  BY <1>1 DEF netVars, OneRowPerMac, WriterInv, Writer, HasRow, RowOf
<1>5. QED
  BY <1>2, <1>3, <1>4

\* What was saved stays in the rows.
LEMMA SavedKept ==
    ASSUME SavedInv, TypeOK, TypeOK', TableKept, Stages, ~BothOpen,
           dev' = dev, UNCHANGED <<toSave, due, intact>>, missed \subseteq missed'
    PROVE  SavedInv'
<1>1. ASSUME intact, NEW i \in toSave \ missed, NEW d \in Device, d = dev[i], HasRow(d)'
      PROVE  RowOf(d)'.TIME_USED >= due[i] /\ i \in Slot /\ due[i] \in Int
  <2>1. db_done
    BY <1>1 DEF Stages
  <2>2. /\ HasRow(d) /\ RowOf(d)'.TIME_USED >= RowOf(d).TIME_USED
        /\ RowOf(d).TIME_USED >= due[i] /\ i \in Slot /\ due[i] \in Int
    BY <1>1, <2>1 DEF SavedInv, TableKept
  <2>3. RowOf(d).TIME_USED \in Int
    BY <2>2, RowType DEF Row
  <2>4. RowOf(d)'.TIME_USED \in Int
    <3>1. your_table'[d] \in Seq(Row) /\ your_table'[d] # <<>>
      BY <1>1 DEF TypeOK, HasRow
    <3>2. Len(your_table'[d]) \in Nat \ {0}
      BY <3>1, EmptySeq
    <3>3. RowOf(d)' \in Row
      BY <3>1, <3>2, ElementOfSeq DEF RowOf
    <3>4. QED
      BY <3>3 DEF Row
  <2>5. QED
    BY <2>2, <2>3, <2>4
<1>2. intact /\ toSave # {} => db_done
  BY DEF Stages
<1>3. QED
  BY <1>1, <1>2 DEF SavedInv, HasRow, RowOf

-----------------------------------------------------------------------------
(* Every step keeps the invariant.                                          *)

LEMMA EndsLife ==
    ASSUME LifeInv, Stages', Ends
    PROVE  LifeInv'
<1>1. TypeInv' /\ MutexDiscipline' /\ OneRowPerMac'
  BY RestartType, RestartRegistered, RestartDiscipline
     DEF Ends, Restart, LifeInv, TypeInv, OneRowPerMac
<1>2. BothOpen' => BaseInv' /\ ToSaveInv'
  BY BaseRestart DEF Ends, LifeInv, BothOpen, ToSaveInv
<1>3. "clients" \in open' /\ ~BothOpen' => WriterInv'
  <2>1. ASSUME "clients" \in open', ~BothOpen'
        PROVE  WriterInv
    BY <2>1 DEF Ends, LifeInv, BothOpen
  <2>2. /\ \A j \in Slot : client'[j] = ZeroedData /\ pc'[j] = "none"
        /\ UNCHANGED <<now, your_table>>
    BY DEF Ends, Restart
  <2>3. ~ZeroedData.connected /\ ZeroedData.time_start_parking = 0 /\ now \in Nat
    BY DEF ZeroedData, LifeInv, TypeInv, TypeOK
  <2>4. QED
    BY <2>1, <2>2, <2>3 DEF WriterInv, Writer, HasRow, RowOf
<1>4. SavedInv'
  BY DEF Ends, SavedInv
<1>5. QED
  BY <1>1, <1>2, <1>3, <1>4 DEF LifeInv

LEMMA ClosesLife ==
    ASSUME Orderly, LifeInv, Stages', Closes
    PROVE  LifeInv'
<1>1. /\ UNCHANGED <<now, accepted, mutex, client, pc, status, checked_database, end_time,
                     client_data_buff, dbStart, dbNext, your_table, netVars>>
      /\ UNCHANGED <<toSave, due, missed, db_done>>
      /\ UNCHANGED vars
  BY DEF Closes, vars, serverVars
<1>2. TypeInv' /\ MutexDiscipline' /\ OneRowPerMac'
  BY <1>1, NextTypeInv, NextDiscipline DEF LifeInv, OneRowPerMac
<1>3. ASSUME BothOpen'
      PROVE  BaseInv' /\ ToSaveInv'
  <2>1. BothOpen
    BY <1>3 DEF Closes, LifeInv, Stages, BothOpen
  <2>2. QED
    BY <1>1, <2>1, BaseNext
       DEF LifeInv, netVars, ToSaveInv, Passed, Registers, HasRow, RowOf
<1>4. ASSUME "clients" \in open', ~BothOpen'
      PROVE  WriterInv'
  <2>1. WriterInv
    BY <1>4, BaseWriter DEF Closes, LifeInv
  <2>2. QED
    BY <1>1, <2>1 DEF netVars, WriterInv, Writer, HasRow, RowOf
<1>5. SavedInv'
  <2>1. CASE toSave = {}
    BY <1>1, <2>1 DEF SavedInv
  <2>2. CASE intact' = intact
    BY <1>1, <2>2 DEF LifeInv, netVars, SavedInv, HasRow, RowOf
  <2>3. QED
    BY <2>1, <2>2 DEF Closes
<1>6. QED
  BY <1>2, <1>3, <1>4, <1>5 DEF LifeInv

LEMMA FinalLockLife ==
    ASSUME LifeInv, Stages', FinalLock
    PROVE  LifeInv'
<1>1. open' = open /\ ~db_done'
  BY DEF FinalLock, Owed
<1>2. BothOpen' => BaseInv' /\ ToSaveInv'
  BY <1>1, BaseFinalLock, FinalLockToSave DEF LifeInv, BothOpen
<1>3. QED
  BY <1>1, <1>2, FinalLockKeeps DEF LifeInv, SavedInv, BothOpen

LEMMA FailedAcceptLife ==
    ASSUME LifeInv, Stages', FailedAccept
    PROVE  LifeInv'
<1>1. /\ BothOpen /\ BothOpen' /\ BaseInv
      /\ toSave = {} /\ toSave' = {}
  BY DEF FailedAccept, lifeVars, closing, LifeInv, Stages, BothOpen
<1>2. BaseInv'
  BY <1>1, BaseFailedAccept
<1>3. MutexDiscipline'
  <2>1. /\ accepted \in Slot
        /\ pc[accepted] = "none"
        /\ \A j \in Slot : pc'[j] = IF j = accepted THEN "finish" ELSE pc[j]
    BY <1>1, FailedAcceptSlot DEF BaseInv, Known
  <2>2. mutex' = mutex
    BY DEF FailedAccept
  <2>3. QED
    BY <2>1, <2>2 DEF LifeInv, MutexDiscipline, Critical
<1>4. ToSaveInv' /\ SavedInv'
  BY <1>1 DEF ToSaveInv, SavedInv
<1>5. QED
  BY <1>1, <1>2, <1>3, <1>4 DEF LifeInv, BaseInv, Known, RowInv

\* The table after a step of the server with a database closed.
LEMMA ClosedServerStep ==
    ASSUME Orderly, LifeInv, ~BothOpen, ServerStep
    PROVE  /\ TableKept /\ OneRowPerMac'
           /\ "clients" \in open => WriterInv'
<1>1. Stays /\ TypeInv /\ OneRowPerMac
  BY DEF ServerStep, LifeInv
<1>2. CASE "clients" \in open
  <2>1. "prices" \notin open
    BY <1>2 DEF LifeInv, Stages, BothOpen
  <2>2. QED
    BY <1>1, <1>2, <2>1, StaysWriter DEF LifeInv
<1>3. CASE "clients" \notin open
  BY <1>1, <1>3, StaysFrozen, UnchangedKept DEF TypeInv, OneRowPerMac
<1>4. QED
  BY <1>2, <1>3

LEMMA ServerStepLife ==
    ASSUME Orderly, LifeInv, Stages', ServerStep
    PROVE  LifeInv'
<1>1. TypeInv' /\ MutexDiscipline'
  BY NextTypeInv, NextDiscipline DEF ServerStep, LifeInv
<1>2. UNCHANGED <<open, toSave, due, intact>> /\ missed \subseteq missed'
  BY DEF ServerStep
<1>3. CASE BothOpen
  <2>1. BaseInv' /\ ToSaveInv'
    <3>1. BaseInv /\ ToSaveInv /\ Stages /\ MutexDiscipline /\ [Next]_vars
      BY <1>3 DEF LifeInv, ServerStep
    <3>2. BaseInv'
      BY <3>1, BaseNext
    <3>3. CASE toSave = {}
      BY <1>2, <3>2, <3>3 DEF ToSaveInv
    <3>4. CASE toSave # {}
      BY <1>2, <1>3, <3>1, <3>2, <3>4, KeepsToSave DEF ServerStep
    <3>5. QED
      BY <3>2, <3>3, <3>4
  <2>2. SavedInv'
    BY <2>1 DEF ToSaveInv, SavedInv, Passed
  <2>3. OneRowPerMac' /\ BothOpen'
    BY <1>2, <1>3, <2>1 DEF BaseInv, Known, RowInv, BothOpen
  <2>4. QED
    BY <1>1, <2>1, <2>2, <2>3 DEF LifeInv
<1>4. CASE ~BothOpen
  <2>1. TableKept /\ OneRowPerMac' /\ ("clients" \in open => WriterInv')
    BY <1>4, ClosedServerStep
  <2>2. SavedInv'
    <3>1. dev' = dev
      BY <1>4 DEF ServerStep, Stays, Alone, NoSlot
    <3>2. QED
      BY <1>1, <1>2, <1>4, <2>1, <3>1, SavedKept DEF LifeInv, TypeInv
  <2>3. ~BothOpen'
    BY <1>2, <1>4 DEF BothOpen
  <2>4. QED
    BY <1>1, <1>2, <2>1, <2>2, <2>3 DEF LifeInv
<1>5. QED
  BY <1>3, <1>4

\* An UPDATE of the database thread that fails.
LEMMA SaveFailsLife ==
    ASSUME LifeInv, Stages', SaveFails
    PROVE  LifeInv'
<1>1. /\ UNCHANGED <<now, accepted, mutex, client, pc, status, checked_database, end_time,
                     client_data_buff, dbStart, your_table, netVars, open, toSave, due,
                     intact, db_done>>
      /\ "clients" \notin open /\ dbNext < MaxClients /\ dbNext' = dbNext + 1
      /\ missed \subseteq missed'
  BY DEF SaveFails
<1>2. TypeInv'
  <2>1. dbNext' \in 0 .. MaxClients
    BY <1>1, ConstantsAssumption DEF LifeInv, TypeInv, TypeOK
  <2>2. QED
    BY <1>1, <2>1 DEF netVars, LifeInv, TypeInv, TypeOK, Registered
<1>3. MutexDiscipline' /\ OneRowPerMac'
  BY <1>1 DEF LifeInv, MutexDiscipline, OneRowPerMac
<1>4. "clients" \notin open' /\ ~BothOpen'
  BY <1>1 DEF BothOpen
<1>5. SavedInv'
  BY <1>1 DEF LifeInv, netVars, SavedInv, HasRow, RowOf
<1>6. QED
  BY <1>2, <1>3, <1>4, <1>5 DEF LifeInv

\* A call of a connection thread that fails.
LEMMA FailingCallLife ==
    ASSUME Orderly, LifeInv, Stages', NEW i \in Slot, FailingCall(i)
    PROVE  LifeInv'
<1>1. /\ TypeInv /\ TypeOK /\ MutexDiscipline /\ OneRowPerMac
      /\ "dberr" \notin Faults
      /\ Fails(i)
  BY FailingFails DEF LifeInv, TypeInv, Orderly
<1>2. /\ your_table' = your_table /\ dev' = dev
      /\ UNCHANGED <<open, toSave, due, missed, intact, db_done>>
      /\ ~(Uses(i) \subseteq open)
  BY <1>1 DEF FailingCall, lifeVars, closing, Fails, netVars
<1>3. ~BothOpen /\ ~BothOpen'
  BY <1>2 DEF BothOpen, Uses
<1>4. TypeInv' /\ MutexDiscipline' /\ OneRowPerMac'
  BY <1>1, <1>2, FailsType, FailsDiscipline DEF OneRowPerMac
<1>5. "clients" \in open => WriterInv'
  BY <1>1, <1>3, FailsWriter DEF LifeInv
<1>6. SavedInv'
  BY <1>2 DEF LifeInv, SavedInv, HasRow, RowOf
<1>7. QED
  BY <1>2, <1>3, <1>4, <1>5, <1>6 DEF LifeInv

LEMMA NextLifeInv ==
    ASSUME Orderly, LifeInv, [LifeNext]_<<vars, lifeVars>>
    PROVE  LifeInv'
<1>1. TypeInv /\ MutexDiscipline /\ Stages /\ (BothOpen => ToSaveInv)
  BY DEF LifeInv
<1>2. Stages'
  BY <1>1, NextStages
<1>3. QED
  BY <1>1, <1>2, LifeSteps, EndsLife, ClosesLife, FinalLockLife, FailedAcceptLife,
     ServerStepLife, SaveFailsLife, FailingCallLife

LEMMA InitLifeInv == LifeInit => LifeInv
<1>1. Init => BaseInv /\ MutexDiscipline
  BY InitTypeInv, InitRowInv, InitCountInv, InitFresh, InitResume, InitTime, InitPrice,
     InitDiscipline DEF BaseInv, Known
<1>2. LifeInit => Stages /\ ToSaveInv /\ BothOpen /\ SavedInv
  BY DEF LifeInit, Stages, ToSaveInv, BothOpen, SavedInv
<1>3. QED
  BY <1>1, <1>2 DEF LifeInit, LifeInv, BaseInv, Known, RowInv

-----------------------------------------------------------------------------
(* The theorems.                                                            *)

\* db_update_thread_func.c:108-112: if a device stays away until the thread of
\* its old connection has ended, no message is corrupted and SQLite fails only
\* on a database that main has closed, then once the database thread has ended
\* the rows have, for every connection that was counting when its final update
\* began, the time that was due then, and keep it: whether its thread resumes,
\* is lost, is paid or fails on a closed database, and however many accepts
\* fail.  Left out are the connections whose mac_address was half written when
\* the final UPDATE came to them, which the code does not save, and the runs in
\* which the accept after the last slot has hit what main uses.
THEOREM FinalTimeTheorem ==
    ASSUME Orderly
    PROVE  LifeSpec => []FinalTimeSaved
<1>1. LifeInv => FinalTimeSaved
  <2>1. SUFFICES ASSUME LifeInv, intact, db_done, NEW i \in toSave \ missed,
                        NEW k \in DOMAIN your_table[dev[i]]
                 PROVE  your_table[dev[i]][k].TIME_USED >= due[i]
    BY DEF FinalTimeSaved
  <2>2. PICK d \in Device : d = dev[i]
    BY <2>1 DEF LifeInv, SavedInv
  <2>3. /\ your_table[d] \in Seq(Row) /\ Len(your_table[d]) <= 1
        /\ k \in DOMAIN your_table[d]
    BY <2>1, <2>2 DEF LifeInv, TypeInv, TypeOK, OneRowPerMac
  <2>4. Len(your_table[d]) \in Nat /\ k \in 1 .. Len(your_table[d])
    BY <2>3, LenProperties
  <2>5. k = 1 /\ HasRow(d)
    <3>1. k = 1 /\ Len(your_table[d]) # 0
      BY <2>3, <2>4
    <3>2. QED
      BY <2>3, <3>1, EmptySeq DEF HasRow
  <2>6. QED
    BY <2>1, <2>2, <2>5 DEF LifeInv, SavedInv, RowOf
<1>2. LifeInv /\ [LifeNext]_<<vars, lifeVars>> => LifeInv'
  BY NextLifeInv
<1>3. QED
  BY <1>1, <1>2, InitLifeInv, PTL DEF LifeSpec

\* With accepts that fail, a final update under threads that still run, calls
\* that fail because main has closed the database under them and a process
\* that may end at any of these, the mutex has one owner and a device one row.
\* Until main closes a database it disturbs no invariant of the server: an
\* ended thread counts no time, and what is counted will be charged at the
\* price of the row.
THEOREM LifeServerTheorem ==
    ASSUME Orderly
    PROVE  LifeSpec => []( /\ MutexDiscipline
                           /\ OneRowPerMac
                           /\ open = {"prices", "clients"} =>
                                 DoneNotCounting /\ CountsAtPriceOfRow)
<1>1. LifeInv => /\ MutexDiscipline
                 /\ OneRowPerMac
                 /\ open = {"prices", "clients"} => DoneNotCounting /\ CountsAtPriceOfRow
  <2>1. CountInv => DoneNotCounting
    BY DEF CountInv, DoneNotCounting, Left
  <2>2. PriceInv => CountsAtPriceOfRow
    BY DEF PriceInv, CountsAtPriceOfRow, Parked, HasRow, RowOf
  <2>3. QED
    BY <2>1, <2>2 DEF LifeInv, BaseInv, Known, BothOpen
<1>2. LifeInv /\ [LifeNext]_<<vars, lifeVars>> => LifeInv'
  BY NextLifeInv
<1>3. QED
  BY <1>1, <1>2, InitLifeInv, PTL DEF LifeSpec

\* The time stored for a device never goes back: not by the final update, not
\* by what the threads store after it, and not by a thread that begins to count
\* again although a call it made on a closed database has failed.
THEOREM LifeUsedTheorem ==
    ASSUME Orderly
    PROVE  LifeSpec => UsedNeverDecreases
<1> DEFINE Kept(m) == your_table[m] # <<>> /\ your_table'[m] # <<>> =>
                        your_table'[m][1].TIME_USED >= your_table[m][1].TIME_USED
<1>1. ASSUME LifeInv, LifeNext, NEW m \in Device
      PROVE  Kept(m)
  <2>1. TypeInv /\ TypeOK /\ MutexDiscipline /\ Stages /\ (BothOpen => ToSaveInv)
    BY <1>1 DEF LifeInv, TypeInv
  <2>2. ASSUME TableKept
        PROVE  Kept(m)
    BY <2>2 DEF TableKept, HasRow, RowOf
  <2>3. ASSUME your_table' = your_table
        PROVE  Kept(m)
    BY <2>1, <2>2, <2>3, UnchangedKept
  <2>4. CASE Ends \/ FinalLock \/ FailedAccept \/ Closes \/ SaveFails
    BY <2>3, <2>4 DEF Ends, Restart, FinalLock, FailedAccept, Closes, SaveFails, vars
  <2>5. CASE \E i \in Slot : FailingCall(i)
    BY <2>3, <2>5 DEF FailingCall
  <2>6. CASE ServerStep /\ BothOpen
    BY <1>1, <2>6, NextUsed DEF ServerStep, LifeInv, BaseInv, HasRow, RowOf
  <2>7. CASE ServerStep /\ ~BothOpen
    BY <1>1, <2>2, <2>7, ClosedServerStep
  <2>8. QED
    BY <1>1, <2>1, <2>4, <2>5, <2>6, <2>7, LifeSteps
<1>2. LifeInv /\ [LifeNext]_<<vars, lifeVars>> => [\A m \in Device : Kept(m)]_vars
  BY <1>1
<1>3. LifeInv /\ [LifeNext]_<<vars, lifeVars>> => LifeInv'
  BY NextLifeInv
<1>4. QED
  BY <1>2, <1>3, InitLifeInv, PTL DEF LifeSpec, UsedNeverDecreases
=============================================================================
