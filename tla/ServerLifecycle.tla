--------------------------- MODULE ServerLifecycle ---------------------------
(***************************************************************************)
(* The server with its main (main_server.c) and with the end of the        *)
(* database update thread: PangoServer from the first accept to the last,  *)
(* which is one more than client[] has elements, the join of thread[1],    *)
(* the final update, and the closing of the databases under the threads    *)
(* that still run.                                                         *)
(*                                                                         *)
(* The last accept writes behind client[] and thread[].  What follows from *)
(* that is chosen freely: the process dies, the thread ids main joins are  *)
(* overwritten, or nothing it uses is hit.  The connection itself is one   *)
(* on which nothing is ever sent.                                          *)
(***************************************************************************)
EXTENDS PangoServer

CONSTANT MainFaults  \* subset of {"accept"}: accept fails

ASSUME LifecycleAssumption ==
    /\ MaxClients > 1   \* there is a thread[1]
    /\ MainFaults \subseteq {"accept"}
    /\ "crash" \notin Faults

VARIABLES
    main_pc,       \* where main is
    intact,        \* what main and the database thread use was not overwritten
    return_thread, \* the flag of that name
    quit_loop,     \* quit_loop_flag of db_update
    db_done,       \* the database thread has ended
    open,          \* the databases that are open, of "prices" and "clients"
    toSave,        \* history: the slots that counted when the final update began,
    due,           \* the time that was due to each of them,
    missed         \* and the slots whose UPDATE met an address half written

closing == <<open, toSave, due, missed>>
lifeVars == <<main_pc, intact, return_thread, quit_loop, db_done, closing>>

\* The server as it is when a call of SQLite fails.
Failing == INSTANCE PangoServer WITH Faults <- Faults \cup {"dberr"}

LifeInit ==
    /\ Init
    /\ main_pc = "accepting"
    /\ intact = TRUE
    /\ return_thread = FALSE
    /\ quit_loop = FALSE
    /\ db_done = FALSE
    /\ open = {"prices", "clients"}
    /\ toSave = {}
    /\ due = [i \in Slot |-> 0]
    /\ missed = {}

Running == main_pc # "ended"

\* The process ends, as in a Restart after which nobody has come yet.
Exit ==
    /\ Restart
    /\ main_pc' = "ended"
    /\ toSave' = {}
    /\ due' = [i \in Slot |-> 0]
    /\ missed' = {}
    /\ UNCHANGED <<intact, return_thread, quit_loop, db_done, open>>

\* What the final update is to save.
Owed ==
    /\ toSave' = {i \in Slot : client[i].connected}
    /\ due' = [i \in Slot |-> IF client[i].connected
                              THEN now - client[i].time_start_parking ELSE 0]
    /\ UNCHANGED <<open, missed>>

-----------------------------------------------------------------------------
(* Variants with a plausible bug each, not part of the specification.       *)

\* is_backup_time is not set for the final update.
FinalLockUnlessDue ==
    /\ Running /\ ~db_done
    /\ return_thread
    /\ mutex = Free
    /\ now > dbStart
    /\ mutex' = DbThread
    /\ dbNext' = IF (now - dbStart) % Period = 0 THEN 0 ELSE MaxClients
    /\ quit_loop' = TRUE
    /\ Owed
    /\ UNCHANGED <<now, accepted, client, pc, status, checked_database, end_time,
                   client_data_buff, dbStart, your_table, netVars, main_pc, intact,
                   return_thread, db_done>>

\* quit_loop_flag is looked at before it is set, and reset.
FinalUnlockAgain ==
    /\ Running /\ quit_loop
    /\ DbUnlock
    /\ quit_loop' = FALSE
    /\ UNCHANGED <<main_pc, intact, return_thread, db_done, closing>>

-----------------------------------------------------------------------------
(* The accept loop of main.                                                 *)

Accept ==
    /\ main_pc = "accepting"
    /\ \E m \in Device : Connect(m)
    /\ UNCHANGED lifeVars

\* accept returns -1, which client_fd holds as 255.  The thread that is
\* started on it takes the error of recv for a message with a wrong CRC-8,
\* fails to send ERROR, and ends.
FailedAccept ==
    /\ "accept" \in MainFaults
    /\ main_pc = "accepting"
    /\ accepted < MaxClients
    /\ status' = [status EXCEPT ![accepted] = "CRC8_TEST_FAILED"]
    /\ Goto(accepted, "finish")
    /\ accepted' = accepted + 1
    /\ UNCHANGED <<now, mutex, client, checked_database, end_time, client_data_buff,
                   dbStart, dbNext, your_table, netVars, lifeVars>>

LastAccept ==
    /\ main_pc = "accepting"
    /\ accepted = MaxClients
    /\ \/ Exit
       \/ /\ main_pc' = "joining"
          /\ intact' \in BOOLEAN
          /\ UNCHANGED <<vars, return_thread, quit_loop, db_done, closing>>

-----------------------------------------------------------------------------
(* The end of main.                                                         *)

\* pthread_join(thread[1]); an id that was overwritten is no thread's.
JoinThread ==
    /\ main_pc = "joining"
    /\ intact => pc[1] = "done"
    /\ return_thread' = TRUE
    /\ main_pc' = "returning"
    /\ UNCHANGED <<vars, intact, quit_loop, db_done, closing>>

JoinDb ==
    /\ main_pc = "returning"
    /\ intact => db_done
    /\ main_pc' = "closingPrices"
    /\ UNCHANGED <<vars, intact, return_thread, quit_loop, db_done, closing>>

\* The databases the thread of slot i is reading or writing.
Uses(i) ==
    {db \in {"prices", "clients"} :
        \/ pc[i] \in {"resume", "insert"}
        \/ /\ db = "clients"
           /\ \/ pc[i] \in {"close", "delete", "update"}
              \/ pc[i] = "check" /\ ~checked_database[i]}

SavesRow == mutex = DbThread /\ dbNext < MaxClients /\ client[dbNext].connected

\* sqlite3_close refuses (SQLITE_BUSY) while a statement of another thread is
\* not finalized; main goes on either way.
Close(db) ==
    open' \in {open \ {db}} \cup
              (IF (\E i \in Slot : db \in Uses(i)) \/ (db = "clients" /\ SavesRow)
               THEN {open} ELSE {})

ClosePrices ==
    /\ main_pc = "closingPrices"
    /\ main_pc' = "closingClients"
    /\ Close("prices")
    /\ UNCHANGED <<vars, intact, return_thread, quit_loop, db_done, toSave, due, missed>>

CloseClients ==
    /\ main_pc = "closingClients"
    /\ main_pc' = "closed"
    /\ Close("clients")
    /\ UNCHANGED <<vars, intact, return_thread, quit_loop, db_done, toSave, due, missed>>

\* pthread_mutex_destroy and return: every thread is gone.
EndMain ==
    /\ main_pc = "closed"
    /\ Exit

MainThread ==
    LastAccept \/ JoinThread \/ JoinDb \/ ClosePrices \/ CloseClients \/ EndMain

-----------------------------------------------------------------------------
(* The database update thread until it ends.                                *)

\* return_database_update_thread: the flag is read with the mutex held, and
\* the update is then made whatever the second.
FinalLock ==
    /\ Running /\ ~db_done
    /\ return_thread
    /\ mutex = Free
    /\ now > dbStart
    /\ mutex' = DbThread
    /\ dbNext' = 0
    /\ quit_loop' = TRUE
    /\ Owed
    /\ UNCHANGED <<now, accepted, client, pc, status, checked_database, end_time,
                   client_data_buff, dbStart, your_table, netVars, main_pc, intact,
                   return_thread, db_done>>

PeriodicLock ==
    /\ Running /\ ~db_done
    /\ ~return_thread
    /\ DbLock
    /\ UNCHANGED lifeVars

\* An UPDATE that finds no row, or fails because the database is closed, is not
\* repeated.
SaveRow ==
    /\ Running
    /\ IF "clients" \in open THEN DbUpdate
                             ELSE Failing!DbUpdate /\ your_table' = your_table
    /\ missed' = IF /\ quit_loop
                    /\ Rewriting(dbNext)
                    /\ your_table' # Update(client[dbNext].mac_address,
                                            now - client[dbNext].time_start_parking)
                 THEN missed \cup {dbNext} ELSE missed
    /\ UNCHANGED <<main_pc, intact, return_thread, quit_loop, db_done, open, toSave, due>>

PeriodicUnlock ==
    /\ Running /\ ~quit_loop
    /\ DbUnlock
    /\ UNCHANGED lifeVars

FinalUnlock ==
    /\ Running /\ quit_loop
    /\ DbUnlock
    /\ db_done' = TRUE
    /\ UNCHANGED <<main_pc, intact, return_thread, quit_loop, closing>>

DbThreadStep == FinalLock \/ PeriodicLock \/ SaveRow \/ PeriodicUnlock \/ FinalUnlock

-----------------------------------------------------------------------------
(* The connection threads, whatever main does meanwhile.                    *)

ClientThread(i) ==
    /\ Running
    /\ Uses(i) \subseteq open
    /\ Thread(i)
    /\ ~BrokenPipe(i)
    /\ UNCHANGED lifeVars

\* What is in client[i] when retriev_client_data or process_client_data fails:
\* the statements before the one that met a closed database were executed, so
\* with the prices closed connected is TRUE for a known client.
ResumeStops(i) ==
    (IF "clients" \in open THEN {} ELSE {client[i], Continued(i, Selects)}) \cup
    (IF "prices" \in open THEN {} ELSE {Located(i, Selects)})
InsertStops(i) ==
    (IF "clients" \in open THEN {} ELSE {Priced(client[i], Selects)}) \cup
    (IF "prices" \in open THEN {} ELSE {client[i]})

\* A call on a closed database fails, and the thread goes on as after any
\* failure of SQLite,
FailingCall(i) ==
    /\ Running
    /\ ~(Uses(i) \subseteq open)
    /\ \/ Failing!CheckNew(i)
       \/ Failing!ResumeError(i) /\ client'[i] \in ResumeStops(i)
       \/ Failing!InsertError(i) /\ client'[i] \in InsertStops(i)
       \/ Failing!CloseApp(i) /\ status'[i] = "CLOSE_APP_ERROR"
       \/ Failing!RemoveClient(i) \/ Failing!UpdateLost(i)
    /\ your_table' = your_table
    /\ UNCHANGED lifeVars

\* or the use of what was freed ends the process.
UseAfterClose ==
    /\ Running
    /\ \/ \E i \in Slot : ~(Uses(i) \subseteq open)
       \/ SavesRow /\ "clients" \notin open
    /\ Exit

\* SIGPIPE in a connection thread ends main as well.
PipeEndsProcess(i) ==
    /\ Running
    /\ Uses(i) \subseteq open
    /\ BrokenPipe(i)
    /\ Exit

World ==
    /\ Running
    /\ \/ \E i \in Slot : DeviceStep(i) \/ Disconnect(i) \/ Reset(i)
       \/ Tick
    /\ UNCHANGED lifeVars

Ended == main_pc = "ended" /\ UNCHANGED <<vars, lifeVars>>

LifeNext ==
    \/ Accept \/ FailedAccept \/ MainThread \/ DbThreadStep \/ World
    \/ \E i \in Slot : ClientThread(i) \/ FailingCall(i) \/ PipeEndsProcess(i)
    \/ UseAfterClose
    \/ Ended

LifeSpec == LifeInit /\ [][LifeNext]_<<vars, lifeVars>>

\* As in PangoServer, and main runs; the second for which the database thread
\* sleeps passes.
LifeFairness ==
    /\ WF_<<vars, lifeVars>>(MainThread)
    /\ WF_<<vars, lifeVars>>(DbThreadStep)
    /\ WF_<<vars, lifeVars>>(now = dbStart /\ World /\ Tick)
    /\ \A i \in Slot : WF_<<vars, lifeVars>>(ClientThread(i) \/ FailingCall(i) \/ PipeEndsProcess(i))
    /\ SF_<<vars, lifeVars>>(FinalLock)

FairLifeSpec == LifeSpec /\ LifeFairness
-----------------------------------------------------------------------------
(* Properties.                                                              *)

\* db_update_thread_func.c:108-112: After updating all the data the thread
\* will exit.  Once it has, the row of every connection that was counting when
\* it was told to return has at least the time that was due then, whatever the
\* thread of the connection and main do from there on: it resumes, is lost, or
\* fails on a closed database.  The exception is the connection that was
\* rewriting its mac_address when the final UPDATE came to it: nothing repeats
\* that UPDATE.
FinalTimeSaved ==
    intact /\ db_done =>
        \A i \in toSave \ missed : \A k \in DOMAIN your_table[dev[i]] :
            your_table[dev[i]][k].TIME_USED >= due[i]

\* main_server.c:109-139: once all connections were accepted and the thread
\* it joins has ended, main comes to its end, whatever the other connections
\* do: nobody waits for a mutex or a thread for ever.
ShutDownEnds == main_pc = "joining" /\ pc[1] = "done" ~> main_pc = "ended"
=============================================================================
