----------------------------- MODULE PangoServer -----------------------------
(***************************************************************************)
(* The parking server: one thread per accepted connection (client_thread.c *)
(* and the functions it calls), the database update thread                 *)
(* (db_update_thread.c), the mutex and the array client[] they share, the  *)
(* table your_table of SQLite, and, as the environment, the devices and    *)
(* the TCP connections that drive them.                                    *)
(*                                                                         *)
(* A step of a thread is what it does between two points where another     *)
(* thread, a device or a crash can tell the difference: a recv, an         *)
(* unprotected read of the table, a wait for the mutex, a critical         *)
(* section, a send.  Data is abstract: a device is its MAC address, a      *)
(* message says whether its CRC-8 is right, prices are thousandths.        *)
(***************************************************************************)
EXTENDS Integers, Sequences

CONSTANTS
    Device,     \* the MAC addresses
    Coords,     \* the <<x, y>> coordinates the devices report
    MaxClients, \* SERVER_MAX_NUM_CLIENTS, also UPDATE_THREAD_MAX_NUM_CLIENTS
    Period,     \* NUMBER_OF_SECONDS_BETWEEN_BACKUPS
    MaxTime,    \* bound on the clock, in seconds
    Faults,     \* which faults of the environment can happen
    NoDevice,   \* mac_address before the first message
    NoMsg,      \* an empty inbox; the zeroed client_data_buff
    NoReply     \* nothing sent to the device that it has not read

Fault == {"lost",    \* a device closes its connection at any time (FIN)
          "reset",   \* a connection is reset (RST): recv returns -1
          "overlap", \* a device reconnects before its old thread has ended
          "corrupt", \* a message arrives with a wrong CRC-8
          "dberr",   \* an SQLite call fails
          "crash"}   \* the server process dies and is started again

ASSUME ConstantsAssumption ==
    /\ MaxClients \in Nat \ {0}
    /\ Period \in Nat \ {0}
    /\ MaxTime \in Nat
    /\ Coords \subseteq (0 .. 127) \X (0 .. 127)
    /\ Faults \subseteq Fault
    /\ NoDevice \notin Device

VARIABLES
    now,      \* gettimeofday, in seconds
    accepted, \* i of the accept loop of main: connections accepted so far
    mutex,    \* the owner of the mutex: a slot, DbThread or Free
    client,   \* client[]: struct pango_data of every slot
    pc,       \* where the thread of every slot is
    status,   \* locals of pango_client: status,
    checked_database,
    end_time,
    client_data_buff,
    dbStart,  \* database_backup_start_time of db_update
    dbNext,   \* i of the loop of update_clients
    your_table, \* the rows of every MAC address, on disk
    dev,      \* the device at the other end of the connection
    phase,    \* what that device is doing on it
    link,     \* the state of the connection, seen by the server
    inbox,    \* the message the server has not read
    reply,    \* the message the device has not read
    since     \* history: when the parking a device has not paid for began

serverVars == <<accepted, mutex, client, pc, status, checked_database,
                end_time, client_data_buff, dbStart, dbNext>>
netVars == <<dev, phase, link, inbox, reply, since>>
vars == <<now, your_table, serverVars, netVars>>

-----------------------------------------------------------------------------
(* Data.                                                                    *)

Slot == 0 .. MaxClients - 1
Free == -1
DbThread == -2

City == {"Ashkelon", "Jerusalem", "Petah-Tikva", "Herzliya"}
Location == City \cup {"", "ERROR"}

\* PRICE of every CITY of table city_parking, in thousandths per second.
city_parking ==
    [c \in City |-> CASE c = "Ashkelon"    -> 6
                      [] c = "Jerusalem"   -> 12
                      [] c = "Petah-Tikva" -> 8
                      [] c = "Herzliya"    -> 10]

location_func(x, y) ==
    CASE x > 127 \/ y > 127   -> "ERROR"
      [] x <= 70 /\ y <= 70   -> "Ashkelon"
      [] x <= 70 /\ y > 70    -> "Jerusalem"
      [] x \in 71 .. 127 /\ y <= 70      -> "Petah-Tikva"
      [] x \in 71 .. 127 /\ y \in 71 .. 127 -> "Herzliya"

\* SELECT * FROM city_parking: without a row the price stays what it was.
PriceAt(location, price) ==
    IF location \in City THEN city_parking[location] ELSE price

Message == [status : {"START_APP", "CLOSE_APP"}, coords : Coords, crc_ok : BOOLEAN]

ASSUME NoMsgAssumption == NoMsg \notin Message

Reply == [kind : {"location", "ERROR", "payment"}, price : Int, elapsed : Int]
LocationReply == [kind |-> "location", price |-> 0, elapsed |-> 0]
ErrorReply == [kind |-> "ERROR", price |-> 0, elapsed |-> 0]
Payment(p, e) == [kind |-> "payment", price |-> p, elapsed |-> e]

pango_data == [mac_address : Device \cup {NoDevice},
               coords : Coords \cup {<<0, 0>>},
               location : Location,
               price : Nat,
               time_start_parking : Int,
               connected : BOOLEAN]

\* memset(client, 0, sizeof(client))
ZeroedData == [mac_address |-> NoDevice, coords |-> <<0, 0>>, location |-> "",
               price |-> 0, time_start_parking |-> 0, connected |-> FALSE]

Row == [TIME_USED : Int, LOCATION : Location]

\* INSERT, UPDATE ... WHERE MAC_ADR = m and DELETE ... WHERE MAC_ADR = m: all
\* the rows of m, and none before a first message has set mac_address.
Insert(m, location) ==
    [d \in Device |-> IF d = m
                      THEN Append(your_table[d], [TIME_USED |-> 0, LOCATION |-> location])
                      ELSE your_table[d]]
Update(m, used) ==
    [d \in Device |-> IF d = m
                      THEN [k \in DOMAIN your_table[d] |->
                              [your_table[d][k] EXCEPT !.TIME_USED = used]]
                      ELSE your_table[d]]
Delete(m) == [d \in Device |-> IF d = m THEN <<>> ELSE your_table[d]]

AppStatus == {"START_APP", "CLOSE_APP", "CONNECTION_LOST", "CRC8_TEST_FAILED",
              "ERROR_STATUS_IN_CLIENT_EXIST_SUBFUNCTIONS",
              "ERROR_STATUS_IN_NEW_CLIENT_SUBFUNCTIONS", "CLOSE_APP_ERROR"}
ErrorStatus == {"CRC8_TEST_FAILED",
                "ERROR_STATUS_IN_CLIENT_EXIST_SUBFUNCTIONS",
                "ERROR_STATUS_IN_NEW_CLIENT_SUBFUNCTIONS"}

\* Every wait for the mutex and the critical section it guards.
CriticalSection ==
    [lostLock    |-> "lost",     \* wait_for_data_from_client
     resumeLock  |-> "resume",   \* retriev_client_data
     insertLock  |-> "insert",   \* process_client_data
     closeLock   |-> "close",    \* pango_client, CLOSE_APP of the loop
     deleteLock  |-> "delete",   \* pango_client, CLOSE_APP at the exit
     updateLock  |-> "update"]   \* pango_client, CONNECTION_LOST at the exit
Waiting == DOMAIN CriticalSection
Critical == {"lost", "resume", "insert", "close", "delete", "update"}
PC == {"none", "recv", "check", "sendLocation", "setConnected", "exit",
       "finish", "done"} \cup Waiting \cup Critical

TypeOK ==
    /\ now \in Nat
    /\ accepted \in 0 .. MaxClients
    /\ mutex \in Slot \cup {Free, DbThread}
    /\ client \in [Slot -> pango_data]
    /\ pc \in [Slot -> PC]
    /\ status \in [Slot -> AppStatus]
    /\ checked_database \in [Slot -> BOOLEAN]
    /\ end_time \in [Slot -> Nat]
    /\ client_data_buff \in [Slot -> Message \cup {NoMsg}]
    /\ dbStart \in Nat
    /\ dbNext \in 0 .. MaxClients
    /\ your_table \in [Device -> Seq(Row)]
    /\ dev \in [Slot -> Device \cup {NoDevice}]
    /\ phase \in [Slot -> {"closed", "open", "starting", "parked", "closing"}]
    /\ link \in [Slot -> {"none", "up", "fin", "reset", "dead", "closed"}]
    /\ inbox \in [Slot -> Message \cup {NoMsg}]
    /\ reply \in [Slot -> Reply \cup {NoReply}]
    /\ since \in [Device -> Nat \cup {-1}]

-----------------------------------------------------------------------------
(* The start of the process, for the first time and after a crash.          *)

ServerInit ==
    /\ accepted = 0
    /\ mutex = Free
    /\ client = [i \in Slot |-> ZeroedData]
    /\ pc = [i \in Slot |-> "none"]
    /\ status = [i \in Slot |-> "CLOSE_APP"]   \* STATUS_INITIAL_VALUE
    /\ checked_database = [i \in Slot |-> FALSE]
    /\ end_time = [i \in Slot |-> 0]
    /\ client_data_buff = [i \in Slot |-> NoMsg]
    /\ dbStart = now
    /\ dbNext = MaxClients

NetInit ==
    /\ dev = [i \in Slot |-> NoDevice]
    /\ phase = [i \in Slot |-> "closed"]
    /\ link = [i \in Slot |-> "none"]
    /\ inbox = [i \in Slot |-> NoMsg]
    /\ reply = [i \in Slot |-> NoReply]

Init ==
    /\ now = 0
    /\ ServerInit
    /\ NetInit
    /\ your_table = [m \in Device |-> <<>>]
    /\ since = [m \in Device |-> -1]

\* The process is gone with everything it held in memory, its sockets are
\* closed, and it is started again; the table is on disk.
Restart ==
    /\ accepted' = 0
    /\ mutex' = Free
    /\ client' = [i \in Slot |-> ZeroedData]
    /\ pc' = [i \in Slot |-> "none"]
    /\ status' = [i \in Slot |-> "CLOSE_APP"]
    /\ checked_database' = [i \in Slot |-> FALSE]
    /\ end_time' = [i \in Slot |-> 0]
    /\ client_data_buff' = [i \in Slot |-> NoMsg]
    /\ dbStart' = now
    /\ dbNext' = MaxClients
    /\ dev' = [i \in Slot |-> NoDevice]
    /\ phase' = [i \in Slot |-> "closed"]
    /\ link' = [i \in Slot |-> "none"]
    /\ inbox' = [i \in Slot |-> NoMsg]
    /\ reply' = [i \in Slot |-> NoReply]
    /\ UNCHANGED <<now, your_table, since>>

-----------------------------------------------------------------------------
(* Helpers of the threads' actions.                                         *)

Goto(i, label) == pc' = [pc EXCEPT ![i] = label]

Unlock(i, label) == mutex' = Free /\ Goto(i, label)

DbError == "dberr" \in Faults

\* send() on the connection of slot i.  Nobody reads what is sent to a device
\* that has closed its end; on a reset connection the first send or recv
\* reports the error, and a send after that raises SIGPIPE (BrokenPipe).
Send(i, r) ==
    /\ link[i] # "dead"
    /\ link' = [link EXCEPT ![i] = IF @ = "reset" THEN "dead" ELSE @]
    /\ reply' = [reply EXCEPT ![i] =
                   IF phase[i] = "closed" \/ link[i] = "reset" THEN @ ELSE r]

-----------------------------------------------------------------------------
(* Variants of the actions below with a plausible bug each: none is part of *)
(* the specification, and each breaks a property that the action keeps.     *)

\* The loss of a connection does not stop the count,
LostStillConnected(i) ==
    /\ pc[i] = "lost"
    /\ Unlock(i, "exit")
    /\ UNCHANGED <<now, accepted, client, status, checked_database, end_time,
                   client_data_buff, dbStart, dbNext, your_table, netVars>>

\* or leaves the mutex locked.
LostWithoutUnlock(i) ==
    /\ pc[i] = "lost"
    /\ client' = [client EXCEPT ![i].connected = FALSE]
    /\ Goto(i, "exit")
    /\ UNCHANGED <<now, accepted, mutex, status, checked_database, end_time,
                   client_data_buff, dbStart, dbNext, your_table, netVars>>

\* A known device is left without an answer.
CheckKnownForgets(i) ==
    /\ pc[i] = "check"
    /\ ~checked_database[i]
    /\ your_table[client[i].mac_address] # <<>>
    /\ Goto(i, "recv")
    /\ UNCHANGED <<now, accepted, mutex, client, status, checked_database,
                   end_time, client_data_buff, dbStart, dbNext, your_table, netVars>>

\* Every device is taken for a new one.
CheckNewAlways(i) ==
    /\ pc[i] = "check"
    /\ ~checked_database[i]
    /\ client' = [client EXCEPT
                    ![i].time_start_parking = now,
                    ![i].location = location_func(client[i].coords[1], client[i].coords[2])]
    /\ Goto(i, "insertLock")
    /\ UNCHANGED <<now, accepted, mutex, status, checked_database, end_time,
                   client_data_buff, dbStart, dbNext, your_table, netVars>>

\* A resumption counts from zero,
ContinuedFromZero(i, got) ==
    [client[i] EXCEPT !.time_start_parking = now, !.connected = TRUE]

\* or charges the price of where the device is now.
LocatedWhereItIs(i, got) ==
    LET c == [client[i] EXCEPT !.connected = TRUE,
                !.time_start_parking = now - your_table[client[i].mac_address][1].TIME_USED]
    IN  [c EXCEPT !.location = location_func(c.coords[1], c.coords[2])]

\* The error path of process_client_data returns with the mutex locked.
InsertErrorWithoutUnlock(i) ==
    /\ pc[i] = "insert"
    /\ DbError
    /\ status' = [status EXCEPT ![i] = "ERROR_STATUS_IN_NEW_CLIENT_SUBFUNCTIONS"]
    /\ Goto(i, "exit")
    /\ UNCHANGED <<now, accepted, mutex, client, checked_database, end_time,
                   client_data_buff, dbStart, dbNext, your_table, netVars>>

\* The row of a parking that was paid for stays.
RemoveClientKeepsRow(i) ==
    /\ pc[i] = "delete"
    /\ Unlock(i, "finish")
    /\ UNCHANGED <<now, accepted, client, status, checked_database, end_time,
                   client_data_buff, dbStart, dbNext, your_table, netVars>>

\* A resumption sets the start of the count to what was used.
ContinuedWithoutClock(i, got) ==
    [client[i] EXCEPT !.time_start_parking = your_table[client[i].mac_address][1].TIME_USED,
                      !.connected = TRUE]

\* The payment is for the time until it is sent, not for what was saved.
SendPaymentNow(i) ==
    /\ pc[i] = "exit"
    /\ status[i] = "CLOSE_APP"
    /\ LET elapsed == now - client[i].time_start_parking
       IN  Send(i, Payment(client[i].price * elapsed, elapsed))
    /\ Goto(i, "deleteLock")
    /\ UNCHANGED <<now, accepted, mutex, client, status, checked_database,
                   end_time, client_data_buff, dbStart, dbNext, your_table, dev,
                   phase, inbox, since>>

\* The backup leaves out the first slot.
DbLockFromOne ==
    /\ mutex = Free
    /\ now > dbStart
    /\ mutex' = DbThread
    /\ dbNext' = IF (now - dbStart) % Period = 0 THEN 1 ELSE MaxClients
    /\ UNCHANGED <<now, accepted, client, pc, status, checked_database, end_time,
                   client_data_buff, dbStart, your_table, netVars>>

\* The end of a parking is computed as a duration, the wrong way round.
UpdateClientDataSwapped(i, ok) ==
    /\ end_time' = [end_time EXCEPT ![i] = client[i].time_start_parking - now]
    /\ your_table' = IF ok
                     THEN Update(client[i].mac_address, now - client[i].time_start_parking)
                     ELSE your_table

-----------------------------------------------------------------------------
(* The client thread: the loop.                                             *)

Lock(i) ==
    /\ pc[i] \in Waiting
    /\ mutex = Free
    /\ mutex' = i
    /\ Goto(i, CriticalSection[pc[i]])
    /\ UNCHANGED <<now, accepted, client, status, checked_database, end_time,
                   client_data_buff, dbStart, dbNext, your_table, netVars>>

\* CRC_8_check, store_client_data_in_struct and the switch of the loop, on
\* what client_data_buff holds after recv.
Process(i, m) ==
    IF m # NoMsg /\ m.crc_ok
    THEN /\ status' = [status EXCEPT ![i] = m.status]
         /\ client' = [client EXCEPT ![i].mac_address = dev[i], ![i].coords = m.coords]
         /\ Goto(i, IF m.status = "START_APP" THEN "check" ELSE "closeLock")
    ELSE /\ status' = [status EXCEPT ![i] = "CRC8_TEST_FAILED"]
         /\ Goto(i, "exit")
         /\ UNCHANGED client

Recv(i) ==
    /\ pc[i] = "recv"
    /\ inbox[i] # NoMsg
    /\ inbox' = [inbox EXCEPT ![i] = NoMsg]
    /\ client_data_buff' = [client_data_buff EXCEPT ![i] = inbox[i]]
    /\ Process(i, inbox[i])
    /\ UNCHANGED <<now, accepted, mutex, checked_database, end_time, dbStart,
                   dbNext, your_table, dev, phase, link, reply, since>>

\* recv returns -1: only 0 is taken for a lost connection, so the thread goes
\* on with what the buffer held.  The error is reported once.
RecvError(i) ==
    /\ pc[i] = "recv"
    /\ inbox[i] = NoMsg
    /\ link[i] = "reset"
    /\ link' = [link EXCEPT ![i] = "dead"]
    /\ Process(i, client_data_buff[i])
    /\ UNCHANGED <<now, accepted, mutex, checked_database, end_time,
                   client_data_buff, dbStart, dbNext, your_table, dev, phase,
                   inbox, reply, since>>

\* recv returns 0.
RecvLost(i) ==
    /\ pc[i] = "recv"
    /\ inbox[i] = NoMsg
    /\ link[i] \in {"fin", "dead"}
    /\ status' = [status EXCEPT ![i] = "CONNECTION_LOST"]
    /\ Goto(i, "lostLock")
    /\ UNCHANGED <<now, accepted, mutex, client, checked_database, end_time,
                   client_data_buff, dbStart, dbNext, your_table, netVars>>

Lost(i) ==
    /\ pc[i] = "lost"
    /\ client' = [client EXCEPT ![i].connected = FALSE]
    /\ Unlock(i, "exit")
    /\ UNCHANGED <<now, accepted, status, checked_database, end_time,
                   client_data_buff, dbStart, dbNext, your_table, netVars>>

\* clinet_exist_in_database_check found a row: the mutex is not held.
CheckKnown(i) ==
    /\ pc[i] = "check"
    /\ ~checked_database[i]
    /\ your_table[client[i].mac_address] # <<>>
    /\ Goto(i, "resumeLock")
    /\ UNCHANGED <<now, accepted, mutex, client, status, checked_database,
                   end_time, client_data_buff, dbStart, dbNext, your_table, netVars>>

\* No row, or a SELECT that failed: initialize_and_get_start_time, then
\* process_client_data waits for the mutex.
CheckNew(i) ==
    /\ pc[i] = "check"
    /\ ~checked_database[i]
    /\ your_table[client[i].mac_address] = <<>> \/ DbError
    /\ client' = [client EXCEPT
                    ![i].time_start_parking = now,
                    ![i].location = location_func(client[i].coords[1], client[i].coords[2])]
    /\ Goto(i, "insertLock")
    /\ UNCHANGED <<now, accepted, mutex, status, checked_database, end_time,
                   client_data_buff, dbStart, dbNext, your_table, netVars>>

\* A START on a connection that was resumed does nothing and gets no reply.
CheckAgain(i) ==
    /\ pc[i] = "check"
    /\ checked_database[i]
    /\ Goto(i, "recv")
    /\ UNCHANGED <<now, accepted, mutex, client, status, checked_database,
                   end_time, client_data_buff, dbStart, dbNext, your_table, netVars>>

-----------------------------------------------------------------------------
(* The client thread: retriev_client_data and process_client_data.          *)

\* The SELECTs of retriev_client_data.  "got" is the set of those whose
\* sqlite3_step returned a row: all of them, unless SQLite fails.
Selects == {"TIME_USED", "LOCATION", "PRICE"}
Got == IF DbError THEN SUBSET Selects ELSE {Selects}

\* retrieve_time_start_parking_value_from_database and
\* update_client_and_continue_time up to connected = TRUE.
Continued(i, got) ==
    LET c == client[i]
        rows == your_table[c.mac_address]
        used == IF rows # <<>> /\ "TIME_USED" \in got THEN rows[1].TIME_USED
                                                      ELSE c.time_start_parking
    IN  [c EXCEPT !.time_start_parking = now - used, !.connected = TRUE]

\* ... and the location of the row,
Located(i, got) ==
    LET rows == your_table[client[i].mac_address]
    IN  [Continued(i, got) EXCEPT
           !.location = IF rows # <<>> /\ "LOCATION" \in got THEN rows[1].LOCATION ELSE @]

\* ... and retrieve_parking_price_per_city_from_database.
Priced(c, got) ==
    [c EXCEPT !.price = IF "PRICE" \in got THEN PriceAt(c.location, @) ELSE @]

Resume(i) ==
    /\ pc[i] = "resume"
    /\ \E got \in Got : client' = [client EXCEPT ![i] = Priced(Located(i, got), got)]
    /\ Send(i, LocationReply)
    /\ checked_database' = [checked_database EXCEPT ![i] = TRUE]
    /\ Unlock(i, "recv")
    /\ UNCHANGED <<now, accepted, status, end_time, client_data_buff, dbStart,
                   dbNext, your_table, dev, phase, inbox, since>>

\* One of the three statements cannot be prepared; what the earlier ones
\* stored in client[i] is kept, connected = TRUE included.
ResumeError(i) ==
    /\ pc[i] = "resume"
    /\ DbError
    /\ \E got \in Got :
          \E c \in {client[i], Continued(i, got), Located(i, got)} :
             client' = [client EXCEPT ![i] = c]
    /\ status' = [status EXCEPT ![i] = "ERROR_STATUS_IN_CLIENT_EXIST_SUBFUNCTIONS"]
    /\ Unlock(i, "exit")
    /\ UNCHANGED <<now, accepted, checked_database, end_time, client_data_buff,
                   dbStart, dbNext, your_table, netVars>>

InsertClient(i) ==
    /\ pc[i] = "insert"
    /\ \E got \in Got : client' = [client EXCEPT ![i] = Priced(@, got)]
    /\ your_table' = Insert(client[i].mac_address, client[i].location)
    /\ Unlock(i, "sendLocation")
    /\ UNCHANGED <<now, accepted, status, checked_database, end_time,
                   client_data_buff, dbStart, dbNext, netVars>>

InsertError(i) ==
    /\ pc[i] = "insert"
    /\ DbError
    /\ \E got \in Got : client' = [client EXCEPT ![i] = Priced(@, got)]
    /\ status' = [status EXCEPT ![i] = "ERROR_STATUS_IN_NEW_CLIENT_SUBFUNCTIONS"]
    /\ Unlock(i, "exit")
    /\ UNCHANGED <<now, accepted, checked_database, end_time, client_data_buff,
                   dbStart, dbNext, your_table, netVars>>

SendLocation(i) ==
    /\ pc[i] = "sendLocation"
    /\ Send(i, LocationReply)
    /\ Goto(i, "setConnected")
    /\ UNCHANGED <<now, accepted, mutex, client, status, checked_database,
                   end_time, client_data_buff, dbStart, dbNext, your_table, dev,
                   phase, inbox, since>>

\* Only now is a new client flagged for the database thread, and without the
\* mutex.
SetConnected(i) ==
    /\ pc[i] = "setConnected"
    /\ client' = [client EXCEPT ![i].connected = TRUE]
    /\ Goto(i, "recv")
    /\ UNCHANGED <<now, accepted, mutex, status, checked_database, end_time,
                   client_data_buff, dbStart, dbNext, your_table, netVars>>

-----------------------------------------------------------------------------
(* The client thread: CLOSE_APP, and the exit.                              *)

\* update_client_data: end_time, and the UPDATE if SQLite does not fail.
UpdateClientData(i, ok) ==
    /\ end_time' = [end_time EXCEPT ![i] = now]
    /\ your_table' = IF ok
                     THEN Update(client[i].mac_address, now - client[i].time_start_parking)
                     ELSE your_table

CloseApp(i) ==
    /\ pc[i] = "close"
    /\ \E ok \in {TRUE, ~DbError} :
          /\ UpdateClientData(i, ok)
          /\ status' = [status EXCEPT ![i] = IF ok THEN @ ELSE "CLOSE_APP_ERROR"]
    /\ client' = [client EXCEPT ![i].connected = FALSE]
    /\ Unlock(i, "exit")
    /\ UNCHANGED <<now, accepted, checked_database, client_data_buff, dbStart,
                   dbNext, netVars>>

\* calculate_and_send_payment_data.
SendPayment(i) ==
    /\ pc[i] = "exit"
    /\ status[i] = "CLOSE_APP"
    /\ LET elapsed == end_time[i] - client[i].time_start_parking
       IN  Send(i, Payment(client[i].price * elapsed, elapsed))
    /\ Goto(i, "deleteLock")
    /\ UNCHANGED <<now, accepted, mutex, client, status, checked_database,
                   end_time, client_data_buff, dbStart, dbNext, your_table, dev,
                   phase, inbox, since>>

RemoveClient(i) ==
    /\ pc[i] = "delete"
    /\ your_table' \in {Delete(client[i].mac_address)} \cup
                        (IF DbError THEN {your_table} ELSE {})
    /\ Unlock(i, "finish")
    /\ UNCHANGED <<now, accepted, client, status, checked_database, end_time,
                   client_data_buff, dbStart, dbNext, netVars>>

ExitLost(i) ==
    /\ pc[i] = "exit"
    /\ status[i] = "CONNECTION_LOST"
    /\ Goto(i, "updateLock")
    /\ UNCHANGED <<now, accepted, mutex, client, status, checked_database,
                   end_time, client_data_buff, dbStart, dbNext, your_table, netVars>>

UpdateLost(i) ==
    /\ pc[i] = "update"
    /\ \E ok \in {TRUE, ~DbError} : UpdateClientData(i, ok)
    /\ Unlock(i, "finish")
    /\ UNCHANGED <<now, accepted, client, status, checked_database,
                   client_data_buff, dbStart, dbNext, netVars>>

SendError(i) ==
    /\ pc[i] = "exit"
    /\ status[i] \in ErrorStatus
    /\ Send(i, ErrorReply)
    /\ Goto(i, "finish")
    /\ UNCHANGED <<now, accepted, mutex, client, status, checked_database,
                   end_time, client_data_buff, dbStart, dbNext, your_table, dev,
                   phase, inbox, since>>

\* CLOSE_APP_ERROR: neither a payment nor an error is sent.
ExitSilently(i) ==
    /\ pc[i] = "exit"
    /\ status[i] = "CLOSE_APP_ERROR"
    /\ Goto(i, "finish")
    /\ UNCHANGED <<now, accepted, mutex, client, status, checked_database,
                   end_time, client_data_buff, dbStart, dbNext, your_table, netVars>>

\* close(client_fd) and pthread_exit; client[i] stays as it is.
Finish(i) ==
    /\ pc[i] = "finish"
    /\ link' = [link EXCEPT ![i] = "closed"]
    /\ Goto(i, "done")
    /\ UNCHANGED <<now, accepted, mutex, client, status, checked_database,
                   end_time, client_data_buff, dbStart, dbNext, your_table, dev,
                   phase, inbox, reply, since>>

\* A send on a connection whose error was already reported: SIGPIPE, which
\* the server does not handle.
BrokenPipe(i) ==
    /\ link[i] = "dead"
    /\ \/ pc[i] \in {"resume", "sendLocation"}
       \/ pc[i] = "exit" /\ status[i] \in ErrorStatus \cup {"CLOSE_APP"}
    /\ Restart

Thread(i) ==
    \/ Lock(i)
    \/ Recv(i) \/ RecvError(i) \/ RecvLost(i) \/ Lost(i)
    \/ CheckKnown(i) \/ CheckNew(i) \/ CheckAgain(i)
    \/ Resume(i) \/ ResumeError(i) \/ InsertClient(i) \/ InsertError(i)
    \/ SendLocation(i) \/ SetConnected(i)
    \/ CloseApp(i) \/ SendPayment(i) \/ RemoveClient(i)
    \/ ExitLost(i) \/ UpdateLost(i) \/ SendError(i) \/ ExitSilently(i)
    \/ Finish(i) \/ BrokenPipe(i)

-----------------------------------------------------------------------------
(* The database update thread.  set_start_time is in Restart and Init; the  *)
(* sleep(1) before the loop is the guard now > dbStart.                     *)

DbLock ==
    /\ mutex = Free
    /\ now > dbStart
    /\ mutex' = DbThread
    /\ dbNext' = IF (now - dbStart) % Period = 0 THEN 0 ELSE MaxClients
    /\ UNCHANGED <<now, accepted, client, pc, status, checked_database, end_time,
                   client_data_buff, dbStart, your_table, netVars>>

\* The thread of slot i is about to write mac_address again, which it does
\* without the mutex: the text another thread finds may be cut off.
Rewriting(i) ==
    /\ pc[i] = "recv"
    /\ LET m == IF inbox[i] # NoMsg THEN inbox[i]
                ELSE IF link[i] = "reset" THEN client_data_buff[i] ELSE NoMsg
       IN  m # NoMsg /\ m.crc_ok

\* One iteration of the loop of update_clients.  With an address that is cut
\* off the UPDATE finds no row.
DbUpdate ==
    /\ mutex = DbThread
    /\ dbNext < MaxClients
    /\ LET c == client[dbNext]
       IN  your_table' \in
             IF c.connected
             THEN {Update(c.mac_address, now - c.time_start_parking)} \cup
                  (IF DbError \/ Rewriting(dbNext) THEN {your_table} ELSE {})
             ELSE {your_table}
    /\ dbNext' = dbNext + 1
    /\ UNCHANGED <<now, accepted, mutex, client, pc, status, checked_database,
                   end_time, client_data_buff, dbStart, netVars>>

DbUnlock ==
    /\ mutex = DbThread
    /\ dbNext = MaxClients
    /\ mutex' = Free
    /\ UNCHANGED <<now, accepted, client, pc, status, checked_database, end_time,
                   client_data_buff, dbStart, dbNext, your_table, netVars>>

DbUpdateThread == DbLock \/ DbUpdate \/ DbUnlock

-----------------------------------------------------------------------------
(* The devices (main_client.c) and the network.                             *)

\* connect() of the device, then accept() and pthread_create() of the server.
\* The loop of main accepts one connection more than client[] has slots: what
\* it does with client[MaxClients] is undefined and outside this model, which
\* stops accepting at the last slot.
\* A device that waits for its old thread to end models one that stays away
\* longer than the server needs to notice that it left.
Connect(m) ==
    /\ accepted < MaxClients
    /\ \A i \in Slot : dev[i] = m =>
          phase[i] = "closed" /\ ("overlap" \in Faults \/ pc[i] = "done")
    /\ dev' = [dev EXCEPT ![accepted] = m]
    /\ phase' = [phase EXCEPT ![accepted] = "open"]
    /\ link' = [link EXCEPT ![accepted] = "up"]
    /\ pc' = [pc EXCEPT ![accepted] = "recv"]
    /\ accepted' = accepted + 1
    /\ UNCHANGED <<now, mutex, client, status, checked_database, end_time,
                   client_data_buff, dbStart, dbNext, your_table, inbox, reply, since>>

\* send() of the device.  What came before a reset the server still receives.
Transmit(i, s) ==
    \E xy \in Coords, ok \in {TRUE, "corrupt" \notin Faults} :
       inbox' = [inbox EXCEPT ![i] = [status |-> s, coords |-> xy, crc_ok |-> ok]]

\* The START that follows the connect; a parking begins unless the device
\* was already parked when it lost an earlier connection.
SendStart(i) ==
    /\ phase[i] = "open"
    /\ link[i] = "up"
    /\ Transmit(i, "START_APP")
    /\ phase' = [phase EXCEPT ![i] = "starting"]
    /\ since' = [since EXCEPT ![dev[i]] = IF @ = -1 THEN now ELSE @]
    /\ UNCHANGED <<now, serverVars, your_table, dev, link, reply>>

ReceiveLocation(i) ==
    /\ phase[i] = "starting"
    /\ reply[i] # NoReply
    /\ reply[i].kind = "location"
    /\ reply' = [reply EXCEPT ![i] = NoReply]
    /\ phase' = [phase EXCEPT ![i] = "parked"]
    /\ UNCHANGED <<now, serverVars, your_table, dev, link, inbox, since>>

SendClose(i) ==
    /\ phase[i] = "parked"
    /\ link[i] = "up"
    /\ Transmit(i, "CLOSE_APP")
    /\ phase' = [phase EXCEPT ![i] = "closing"]
    /\ UNCHANGED <<now, serverVars, your_table, dev, link, reply, since>>

\* The device shows the payment and closes; the parking is over for it.
ReceivePayment(i) ==
    /\ phase[i] = "closing"
    /\ reply[i] # NoReply
    /\ reply[i].kind = "payment"
    /\ reply' = [reply EXCEPT ![i] = NoReply]
    /\ phase' = [phase EXCEPT ![i] = "closed"]
    /\ link' = [link EXCEPT ![i] = IF @ = "up" THEN "fin" ELSE @]
    /\ since' = [since EXCEPT ![dev[i]] = -1]
    /\ UNCHANGED <<now, serverVars, your_table, dev, inbox>>

\* The device reads ERROR or the end of the stream where it expected an
\* answer, and leaves the connection.
GiveUp(i) ==
    /\ phase[i] \in {"starting", "closing"}
    /\ \/ reply[i] # NoReply /\ reply[i].kind = "ERROR"
       \/ reply[i] = NoReply /\ link[i] = "closed"
    /\ reply' = [reply EXCEPT ![i] = NoReply]
    /\ phase' = [phase EXCEPT ![i] = "closed"]
    /\ UNCHANGED <<now, serverVars, your_table, dev, link, inbox, since>>

\* The device goes away, and the server sees a FIN or an RST.
Leave(i, how) ==
    /\ phase[i] # "closed"
    /\ link[i] = "up"
    /\ phase' = [phase EXCEPT ![i] = "closed"]
    /\ link' = [link EXCEPT ![i] = how]
    /\ reply' = [reply EXCEPT ![i] = NoReply]
    /\ UNCHANGED <<now, serverVars, your_table, dev, inbox, since>>

Disconnect(i) == "lost" \in Faults /\ Leave(i, "fin")

Reset(i) == "reset" \in Faults /\ Leave(i, "reset")

Crash == "crash" \in Faults /\ Restart

Tick ==
    /\ now < MaxTime
    /\ now' = now + 1
    /\ UNCHANGED <<your_table, serverVars, netVars>>

DeviceStep(i) ==
    \/ SendStart(i) \/ ReceiveLocation(i) \/ SendClose(i)
    \/ ReceivePayment(i) \/ GiveUp(i)

Environment ==
    \/ \E m \in Device : Connect(m)
    \/ \E i \in Slot : DeviceStep(i) \/ Disconnect(i) \/ Reset(i)
    \/ Crash
    \/ Tick

Next == (\E i \in Slot : Thread(i)) \/ DbUpdateThread \/ Environment

Spec == Init /\ [][Next]_vars

\* The kernel runs every thread; a thread that waits for the mutex gets it if
\* it is free again and again (the database thread releases it and takes it
\* back in a loop, so without this it could starve everyone).  The devices,
\* the clock and the faults are free to do nothing.
Fairness ==
    /\ \A i \in Slot : WF_vars(Thread(i)) /\ SF_vars(Lock(i))
    /\ WF_vars(DbUpdateThread)

FairSpec == Spec /\ Fairness
-----------------------------------------------------------------------------
(* Properties.                                                              *)

\* The mutex is held by a thread exactly while it is in a critical section:
\* every path out of one, the error paths of retriev_client_data and
\* process_client_data included, unlocks once, and no thread ends with it.
MutexDiscipline == \A i \in Slot : pc[i] \in Critical <=> mutex = i

\* A device has at most one row, although the SELECT that looks for it and
\* the INSERT are not in the same critical section.
OneRowPerMac == \A m \in Device : Len(your_table[m]) <= 1

\* Once the thread of a connection has ended, the database thread no longer
\* counts time for its slot: nothing would ever stop it.
DoneNotCounting == \A i \in Slot : pc[i] = "done" => ~client[i].connected

\* Whatever coordinates the later messages of a device carry, a connection
\* that counts time has a row, and will be charged the price of the city of
\* that row: the city of the first START, also after a resumption.
CountsAtPriceOfRow ==
    \A i \in Slot : client[i].connected =>
        LET rows == your_table[client[i].mac_address]
        IN  /\ rows # <<>>
            /\ client[i].location = rows[1].LOCATION
            /\ client[i].price = PriceAt(rows[1].LOCATION, 0)

\* The time stored for a parking never goes back, whichever of the two
\* threads writes it: time once backed up is not lost to a resumption.
UsedNeverDecreases ==
    [][\A m \in Device :
          your_table[m] # <<>> /\ your_table'[m] # <<>> =>
              your_table'[m][1].TIME_USED >= your_table[m][1].TIME_USED]_vars

\* A connection the device has left is noticed: its thread stops the count,
\* saves the time and ends, even though the database thread competes for the
\* mutex.  (A SIGPIPE restarts the server: "none".)
LossHandled ==
    \A i \in Slot :
        link[i] \in {"fin", "reset", "dead"} ~> pc[i] \in {"done", "none"}

\* A START the server has accepted is answered, unless the server dies, or
\* the connection was resumed and then reset.
StartAnswered ==
    \A i \in Slot :
        pc[i] = "check" ~> \/ pc[i] \in {"setConnected", "finish", "done", "none"}
                           \/ pc[i] = "recv" /\ checked_database[i]

\* A parking that was paid for is removed from the table.
PaidRowRemoved ==
    \A i \in Slot, m \in Device :
        pc[i] = "deleteLock" /\ client[i].mac_address = m ~> your_table[m] = <<>>

\* client_thread_func.c:12-14: wait_for_data_from_client also handles the case
\* where the client disconnects unexpectedly.  So the disconnection of one
\* device, a reset included, ends no thread but its own.
ClientsSurviveADisconnect ==
    [][\A i \in Slot : pc[i] # "none" => pc'[i] # "none"]_vars
=============================================================================
