-------------------------- MODULE PangoServerMeter --------------------------
(***************************************************************************)
(* PangoServer with history variables, which constrain nothing: what a row *)
(* of the table does not say of its parking, and how the database thread   *)
(* keeps up with the clock.  With them the server implements ParkingMeter. *)
(***************************************************************************)
EXTENDS PangoServer

VARIABLES
    began,       \* from when the first connection of a row counts its time
    settled,     \* the device has already received the payment of its row, or of
                 \* the row of the bill it has not read
    turn,        \* whether the database thread had the mutex in this second:
                 \* "none", "taken", or taken and "released"
    punctual,    \* it was "released" in every second since the server started
    connectedAt  \* since when a slot counts time; -1: it does not, or ~punctual

meterVars == <<began, settled, turn, punctual, connectedAt>>

MeterInit ==
    /\ Init
    /\ began = [m \in Device |-> -1]
    /\ settled = [m \in Device |-> FALSE]
    /\ turn = "none"
    /\ punctual = TRUE
    /\ connectedAt = [i \in Slot |-> -1]

\* The payment the device has not read.
Outstanding(m) ==
    LET replies == {reply[i] : i \in {j \in Slot : dev[j] = m}} \ {NoReply}
    IN  {[elapsed |-> r.elapsed, price |-> r.price] :
            r \in {p \in replies : p.kind = "payment"}}

\* The slot whose InsertClient made the first row of m.
Inserting(m) ==
    CHOOSE i \in Slot : pc[i] = "insert" /\ client[i].mac_address = m

Remember ==
    /\ began' = [m \in Device |->
                   IF your_table'[m] = <<>> THEN -1
                   ELSE IF your_table[m] = <<>> THEN client[Inserting(m)].time_start_parking
                   ELSE began[m]]
    /\ settled' = [m \in Device |->
                     /\ your_table'[m] # <<>> \/ Outstanding(m)' # {}
                     /\ settled[m] \/ (since[m] # -1 /\ since'[m] = -1)]
    \* A server that starts has nothing to back up, and sleeps for a second.
    /\ punctual' = \/ dbStart' # dbStart \/ accepted' < accepted
                   \/ punctual /\ (now' # now => turn = "released" \/ now = dbStart)
    /\ turn' = IF ~punctual' \/ now' # now \/ dbStart' # dbStart THEN "none"
               ELSE IF turn = "none" /\ DbLock THEN "taken"
               ELSE IF turn = "taken" /\ DbUnlock THEN "released"
               ELSE turn
    /\ connectedAt' = [i \in Slot |->
                         IF ~client'[i].connected \/ ~punctual' THEN -1
                         ELSE IF client[i].connected THEN connectedAt[i] ELSE now]

MeterNext == Next /\ Remember

MeterSpec == MeterInit /\ [][MeterNext]_<<vars, meterVars>>
-----------------------------------------------------------------------------
(* The refinement.                                                          *)

\* The parking of a row: how long it was counted, and where it began.
Metered(m) ==
    IF your_table[m] = <<>> THEN {}
    ELSE {[began |-> began[m],
           used |-> your_table[m][1].TIME_USED,
           city |-> your_table[m][1].LOCATION]}

\* The payment was sent, and the row is still to be removed.
AboutToRemove(m) ==
    \E i \in Slot : pc[i] \in {"deleteLock", "delete"} /\ client[i].mac_address = m

Meter == INSTANCE ParkingMeter WITH
    Car    <- Device,
    Price  <- city_parking,
    meter  <- [m \in Device |-> Metered(m)],
    billed <- [m \in Device |-> AboutToRemove(m)],
    bill   <- [m \in Device |-> Outstanding(m)]

-----------------------------------------------------------------------------
(* Properties.                                                              *)

\* main_server.c, client_thread.c: with all its threads, resumptions and
\* restarts the server is a parking meter: a row never runs ahead of the clock
\* or back, its bill is what it shows at the price of the city where it
\* began, nothing counts it once it is billed, and only then it is removed.
ImplementsMeter == Meter!Spec

\* db_update_thread_func.c:40: a backup is due only in a second that is a
\* multiple of the interval.  If the database thread has the mutex once in
\* every second, a connection on which nothing is under way and that was
\* counted for more than a period loses at most a period when the server dies
\* now.
BackupFresh ==
    \A i \in Slot :
        /\ punctual
        /\ client[i].connected
        /\ pc[i] = "recv" /\ inbox[i] = NoMsg /\ link[i] = "up"
        /\ now - connectedAt[i] > Period
        => now - client[i].time_start_parking
              <= your_table[client[i].mac_address][1].TIME_USED + Period

\* client_thread.c:126-128: a device is never asked to pay for more time than
\* has passed since the START of the parking, however often its connection
\* was lost and the server restarted, unless the server died between a payment
\* that the device received and the removal of its row.
ChargedOnce ==
    \A i \in Slot :
        reply[i] # NoReply /\ reply[i].kind = "payment" /\ ~settled[dev[i]] =>
            /\ since[dev[i]] # -1
            /\ reply[i].elapsed <= now - since[dev[i]]
=============================================================================
