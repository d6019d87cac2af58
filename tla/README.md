# PANNGO: a TLA+ model of the parking system

PANNGO simulates a parking application. An STM controller produces a packet
(status, MAC address, coordinates, CRC-8) when it is asked for one; a BeagleBone
Black (BBB) asks for it when a button is pressed and forwards it over TCP to a
server; the server keeps one row per parking car in SQLite, counts the seconds
and answers with the city at the start and with the price at the end. This
directory models that system in TLA+, from the bytes of a packet to the shutdown
of the server, checks it with TLC on small instances, and proves the main invariants and
the refinements with TLAPS for every instance.

All paths below are relative to `src/`.

## 1. Inventory

| Component | State | Operations | Interacts with |
|---|---|---|---|
| Connection thread, one per accepted connection (`server/client/client_thread.c` and the functions it calls) | locals `status`, `checked_database`, `end_time`, `client_data_buff`; its element of `client[]` | `recv`; CRC-8 verdict; START: look up, then resume or insert; CLOSE: stop and pay; the exits for a lost connection and for errors | the device over TCP, the table, the database thread through `client[]` and the mutex |
| Database update thread (`server/database/parking_time_db`) | start second, loop index | every 5th second writes `TIME_USED` of every connected slot | `client[]`, the table, the mutex |
| `client[]`, the mutex, `your_table` | shared memory; SQLite file | read and written by all threads of the server | |
| Main of the server (`server/main_server.c`) | loop index, sockets | opens databases, starts the database thread, accepts connections, shuts down | creates all threads |
| Price database (`server/database/price_db`) | table `city_parking` | created once by a program of its own | read by the connection threads |
| BBB (`client/main_client.c`, `client_func.c`, `bbb/`) | `status`, `connected`, `stm_data_receive_error`, `location`, a socket | wait for the button, ask the STM, check the packet, connect, send START, send CLOSE, show the price | STM over UART1, button over UART4, server over TCP |
| UART set-up of the BBB (`client/stm/uart`) | none | sets terminal attributes, which decide what `read` makes of a byte | BBB |
| STM controller (`STM/PANGO_L/PNG/Src/PNG.c`) | `interrupt_flag`, `wrong_status`, `pango_client_data`, `send_buff` | receive interrupt; main loop: pack, transmit, arm the reception again; reset | BBB over UART |
| CRC-8 (three copies), packing, random coordinates, MAC address | `data_buff`, `send_buff`, `client_data_buff` of their callers | pure computation on bytes | called by the above |
| printf redirection (`Tools.c`) | none | output | |

What is hard here: connection threads and the database thread share `client[]`
and the table, and not every access is under the mutex; a server crash keeps the
table and nothing else; TCP reports a lost connection in different ways (FIN,
RST, not at all) and the code distinguishes them only partly; a device reconnects
while its old thread may still be running; the STM's interrupt preempts its main
loop between any two steps; a packet may be lost, garbled or late. `PROJECT.json`
lists the individual hazards at their lines.

What makes each part correct:

- Table and `client[]`: at most one row for a device; a connection that counts
  time has a row and is charged its city's price; a thread that has ended counts
  no more; stored time never goes back and is never more than a backup period old;
  a payment asks for what was saved, and never for more time than the parking
  lasted. In one sentence: the server is a parking meter (`ParkingMeter`).
- Mutex: held exactly in the critical sections, released once on every path.
- Connection threads: losses are noticed, STARTs answered, paid rows removed.
- BBB: never opens a second connection while a thread still waits for its START or CLOSE;
  the status it asks for next agrees with whether it is connected; every press
  is dealt with; connected only after a city was received.
- STM: always able to hear the next request; the answer echoes the request; every
  request is answered; one that has stopped is noticed by the BBB.
- Main of the server: comes to its end once the thread it joins has ended, and loses
  no time that was counting.
- Packet: what the server stores is what the controller packed, or nothing; a text of
  a MAC address is that of one device only.

## 2. Modules

`PangoServer` is the server with its environment. A step of a thread is what it
does between two points at which somebody else can tell the difference: a `recv`,
the unprotected read of the table, the wait for the mutex (`Lock`), a critical
section, a `send`. A critical section of a connection thread is one action: it
releases the mutex at its end. That is exact for what is accessed under the mutex
only. These accesses are not under it and interleave as actions of their own:
the SELECT of `clinet_exist_in_database_check` (`CheckKnown`, `CheckNew`), the
write of `connected` for a new client (`SetConnected`), and the sends. The
database thread's section is split by slot (`DbLock`, `DbUpdate` per iteration,
`DbUnlock`), so that these accesses fall between its iterations.

| In the model | In the code |
|---|---|
| `client`, `mutex`, `accepted`, `your_table` | the globals and the table; `mutex` is its owner; a device's rows are a sequence, so that two rows can be told from one |
| `pc`, `status`, `checked_database`, `end_time`, `client_data_buff` | where a thread is, and its locals |
| `dbStart`, `dbNext` | locals of `db_update` and `update_clients` |
| `link`, `inbox`, `reply`, `phase`, `dev` | a connection, the message on it in each direction, and what the device at its end is doing |
| `since` | history: when the parking that a device has not paid for began |
| `Recv`, `RecvError`, `RecvLost`, `Lost` | `recv` > 0, -1 and 0 |
| `CheckKnown`, `Resume`, `ResumeError` | `clinet_exist_in_database_check`, `retriev_client_data` |
| `CheckNew`, `InsertClient`, `InsertError`, `SendLocation`, `SetConnected` | `process_client_data` and what follows it |
| `CloseApp`, `SendPayment`, `RemoveClient` | CLOSE_APP in the loop and at the exit |
| `ExitLost`, `UpdateLost`, `SendError`, `ExitSilently`, `Finish` | the other exits |
| `BrokenPipe` | `send` on a connection whose error was already reported: SIGPIPE |

A price is in thousandths per second; a message says whether its CRC-8 is right;
a failing SQLite call is an outcome of the action that makes it (fault `dberr`),
with what the code stored before the failure kept.

`MCPangoServer` gives the coordinates for TLC. The modules whose names end in `Proofs`
hold the theorems and are described in section 4.

The thread of a device writes `client[i].mac_address` again with every message, with
`sprintf` and without the mutex: the one access whose steps are not actions of
`PangoServer` but a choice of the reader's. `Rewriting(i)` says when that is about to happen;
a `DbUpdate` of that slot may then find no row. That it cannot find somebody else's is
`NobodyElsesRow` of `PangoPacket`.

`ParkingMeter` is the abstract specification of the server: one meter per car that is
started after the car has asked, shows at most the time since it was started and never
goes back, is billed exactly for what it shows at the price of the city where it was
started, then stands still, and is removed only then; a failure forgets bills and
touches no meter. `PangoServerMeter` extends `PangoServer` with histories that
constrain nothing and defines the refinement:

| `ParkingMeter` | `PangoServer` |
|---|---|
| `meter` | the row of a device, and the second from which its first connection counts (`began`) |
| `billed` | the payment was sent and its thread is on its way to the DELETE |
| `bill` | a payment the device has not read |
| `Save` | any of the three writers of `TIME_USED`: database thread, CLOSE, lost connection |
| `Bill`, `Remove` | `SendPayment`, `RemoveClient` |
| `Fail` | `Crash` and `BrokenPipe` |

`ServerLifecycle` extends `PangoServer` with main from the first `accept` to the
last, and with the end of the database thread. The accept after the last slot writes
behind `client[]` and `thread[]`, which is undefined; `LastAccept` chooses among what a
build can make of it: the process dies, the ids main joins are overwritten
(`intact` is FALSE and both joins return at once), or nothing main uses is hit.
`client_fd` is a `uint8_t`, so a failed `accept` starts a thread on descriptor 255
(`FailedAccept`). The flag `return_thread` is read with the mutex held (`FinalLock`),
and the final update is made whatever the second.

Main closes the databases one after the other (`ClosePrices`, `CloseClients`) while
connection threads may still run; `open` says which are open. `sqlite3_close` refuses
while a statement of another thread is not finalized, and main goes on either way
(`Close`). `Uses(i)` are the databases thread `i` works on where it is. A thread whose
databases are open goes on as in `PangoServer`, and pays and deletes its row
(`ClientThread`). One that uses a closed database either ends the process
(`UseAfterClose`), or its call fails and it takes the failure branch of the code
(`FailingCall`): the SELECT that finds no device, the exits from a resumption or an
INSERT with what was stored before the call that failed, a CLOSE that could not
save, a DELETE or UPDATE that did nothing. These are the actions of `PangoServer` with the
fault `dberr` (`Failing`), which `ServerLifecycle` therefore has after the closing
whatever `Faults` says, and the reason why an ended thread may be left counting then.
The SIGPIPE of a thread ends main as well (`PipeEndsProcess`).

`PangoClient` is the BBB's loop. The server is reduced to what one connection
makes of START and CLOSE, the STM to a packet, a packet cut short, a broken or a
misread one, or silence. A thread that has sent its payment or its ERROR, or has
noticed that the BBB is gone, is `"leaving"`: the mutex, the DELETE or UPDATE and the
`close` are still to come (`ServeEnd`). The BBB does not sleep after a payment and may
connect meanwhile; its START then meets a server whose old thread of this device may
be about to delete the row. That is the fault `overlap` of `PangoServer`, and the BBB
gives no guarantee against it: what is proved of the table with `overlap` excluded
assumes a driver who pushes the button later than that. The `uint8_t` through which -1 is returned, the missing NUL of ERROR and
the uninitialized `location` are modelled by what they do: an error of `connect` is
not seen, and ERROR is recognised only if the next byte of the buffer happens to
be 0. `updating_status_value` assigns `(++(*status)) % 3` to `*status`, two
unsequenced writes; the model takes the value compilers give it.

`StmController` is the firmware: the main loop step by step, the receive
interrupt between any two steps, the UART's one-byte data register, and the BBB
at the other end. A packet is abstracted to its first byte, the status. RESTART is
the `int` the BBB writes, four bytes, once or twice. The `write` of a status and the
`tcflush` after it are two actions (`Write`, `Flush`): a BBB that is preempted between
them may flush the head of an answer that has already begun to arrive, or all of it.
`cut` says whether what the BBB would read is a whole packet, one that a late flush or
noise has broken (`Garble`), or the rest that a short read has left.

`Device` composes the two over the UART: the byte `Ask` writes is the one the
interrupt sees, the packet `Read` takes is the one `Transmit` sent, the tail of a
short read is flushed or not. The free environments of both modules are gone, and what
each assumed of the other has to hold: `ImplementsClient` (every behaviour is one of
`PangoClient`, where only a broken packet is misread) and `ImplementsSettled` (until a
packet is broken, every behaviour is one of `StmController` with `Settled`, where the
BBB writes only at rest). The history `disturbed` says that a broken packet was read
and none that was right since, `spoilt` that one was ever read.

`PangoPacket` has the bytes and nothing else: `pack_pango_buffer`, `calculate_crc8`,
noise, a short `read` over the old `data_buff`, the conversion of the terminal driver,
the check at both ends, a partial `recv` over the old `client_data_buff`, and
`store_client_data_in_struct` one character at a time. `MCPangoPacket` chooses the
boards, the numbers of the generator and the noise.

## 3. Runs

| Run | Instance | Shows |
|---|---|---|
| `server_persist` | 1 device, 2 connections, 2 cities, 3 s; losses, resets, crashes | `OneRowPerMac`, `DoneNotCounting`, `CountsAtPriceOfRow`, `UsedNeverDecreases` |
| `server_meter` | 1 device, 2 connections per start of the server, 3 s; losses, resets, crashes | `ImplementsMeter`, `ChargedOnce`, `BackupFresh` |
| `server_shared` | 2 devices, 2 connections, 1 s; losses, SQLite failures, wrong CRC-8 | `TypeOK`, `MutexDiscipline` |
| `server_liveness` | 1 device, 2 connections, 1 s; losses, overlapping reconnection | `LossHandled`, `StartAnswered`, `PaidRowRemoved` |
| `server_lifecycle` | 1 device, 2 connections, 2 s; resets, failing accept, databases closed under running threads | `FinalTimeSaved`, `ShutDownEnds` |
| `client_session` | all faults | `TypeOK`, `NoSecondParking`, `InStep`, `PressHandled` |
| `device_session` | all faults of the controller and the line; silent, short, broken, refused on the BBB's side | `TypeOK`, `DeafOnlyIfSpoilt`, `EchoesTheRequest`, `AsksForNext`, `ImplementsClient`, `ImplementsSettled`, `Answered`, `DeadControllerNoticed` |
| `packet` | 3 boards, 2 pairs of coordinates, one bad transfer | `SealedIsMultiple`, `StoredAsPacked`, `NobodyElsesRow` |
| `server_overlap` | reconnection before the old thread has ended | violates `OneRowPerMac` |
| `server_corrupt` | one wrong CRC-8 | violates `DoneNotCounting` |
| `server_reset` | one reset connection | violates `ClientsSurviveADisconnect` |
| `client_error_reply` | server answers ERROR | violates `ConnectedMeansLocated` |

The last four are the places where the code and what its documents and comments
say of it disagree; `findings` in `PROJECT.json` quotes both.

What some properties say with their conditions:

- `ChargedOnce` excepts a device that received the payment of a row which the server,
  because it died, did not remove any more (`settled`): its next parking is taken for
  a resumption of the paid one. The code has no remedy for that.
- `BackupFresh` holds for an idle connection while the database thread has had the mutex
  in every second (`punctual`). A backup is due only in a second divisible by the
  interval, and one that is missed is not made up for; a connection whose message is
  just being stored may be left out of one.
- `StoredAsPacked` excepts a packet that was both converted and disturbed: the check
  finds each alone, but not always both together. `init_uart1` leaves ICRNL as the
  driver sets it by default, so a byte 13 arrives as 10: such a packet is never
  accepted, and a board whose address has a byte 13 could never park.
- `FinalTimeSaved` excepts a connection whose `mac_address` was half written when the
  final UPDATE came to its slot (`missed`): that UPDATE finds no row, nothing repeats it,
  and main closes the databases regardless.
- `AsksForNext` excepts the presses between a broken packet and the next right one. A
  broken packet has a wrong CRC-8, and the BBB asks again for what its first byte says;
  with the head of the packet gone, that is whatever byte comes first.
- `DeafOnlyIfSpoilt` and `ImplementsSettled` rest on `Paced`, see below, and hold until a
  packet is broken. A BBB out of step has nothing to do with the next right packet, so
  it is back at the button without a sleep, and its next request can reach the race
  of `PNG.c:78-85`. TLC found this round when noise towards the BBB was added.
- `NoSecondParking` is about a thread that still waits for a message of the device; a
  thread that is leaving may run beside the new one.

Bounds, and why they suffice for the questions asked:

- Slots. Two let a resumption meet the slot that was left, and a crash in
  `server_meter` starts anew with two more, so that a parking is resumed more than
  once. Slots are never used again by the code, so a run ends when they are used up.
  This is why `CHECK_DEADLOCK FALSE` is set where the clock also has an end.
- Devices. A row belongs to one device, and devices share only the mutex and the
  database thread's loop; two show the sharing, one the rest.
- `Period` 2 and `MaxTime` 3 have a backup second, a second without a backup and
  one after it; with 1 every second is a backup second.
- `OneCity` and `TwoCities`: all invariants about a city compare it with another
  one; two that differ in one coordinate at the boundary 70/71 do.
- `inbox` and `reply` hold one message: the device waits for an answer before it
  sends again.
- `server_lifecycle` has the two slots `thread[1]` needs and one device: main does not
  look at devices, and what a second one adds is in `server_shared`. Of the faults of the
  network it has the reset, whose connection is lost in the end too (`RecvLost`) and may
  raise SIGPIPE before.
- `wrong_status` and all counters of `StmController` and `PangoClient` are bounded
  by the code.
- `packet`: the linearity of the CRC makes what it says of an error independent of the
  packet and of where the error begins, so `OneOrTwoBits` takes every single bit and one
  pair of bits for every distance. `MaxBad` 1 lets one transfer be disturbed or cut,
  while conversions happen at any time. `Boards` are addresses whose texts are
  easily confused: equal without colons, or one the beginning of another. `Numbers`
  includes coordinates that are carriage returns after `% 128`. `Stack` is zero: what an
  uninitialized buffer holds could complete a short packet by chance, with probability
  1/256.

A device stays away until its old thread has ended, unless fault `overlap` is
chosen: with it, what `server_overlap` shows breaks the table's invariants, and
everything that rests on them. Likewise `dberr` is kept apart from the invariants
of the table, since a failing SELECT is taken for an unknown device.

### Fairness

The threads of the server are scheduled by the kernel: weak fairness of each.
The database thread unlocks the mutex and locks it again without a pause, so a
waiting thread finds it free infinitely often but never continuously; `SF_vars(Lock(i))`
says that a thread that finds it free again and again gets it. POSIX does not
promise that for a default mutex; it is an assumption of the liveness run, and
the reason why the hazard of that loop carries a note: starvation itself is assumed
away. Devices,
clock and faults are under no obligation. `LifeFairness` takes the same for
`FinalLock` and the connection threads, adds that main runs, and that the second for
which the database thread sleeps before its loop passes.

In `PangoClient` the program runs and the server answers; nobody has to press the
button. In `Device` both processors run (`Program`, `Main`), a pending interrupt is
taken, the rest of a RESTART is sent, and the network delivers. Nobody has to push the
button, reset the controller or start the program again; `DeadControllerNoticed`
makes pushing its own premise.

`Paced` is the timing assumption of `Device`: once a second has passed since the BBB
read a packet, the controller is back in its loop. The BBB sleeps a second after a START
(`main_client.c:136`) and after a bad packet (`:143`), waits a second in vain for a
silent controller, and the server sleeps a second before it sends a payment
(`client_thread_func.c:283`); the controller needs microseconds. `slept` tracks which of
these happened, so that `ImplementsSettled` fails where none does. Two faults are left
out of `device_session` for that reason: an ERROR answer to a CLOSE, and a server that
dies while the BBB waits for the payment, bring the BBB back to the button without a
sleep. Then the race of `PNG.c:78-85` is reachable: a byte that arrives after the
reception is armed and before the flag is cleared is forgotten, and the controller
never listens again. A packet that is broken leads there too, which is why the properties
about the pace stop at it.

## 4. Proofs

Eight modules hold proofs, for any set of devices, any number of slots, any period
and any bound on the clock. Each inductive invariant was checked with TLC before
it was proved, the server's on 1 device, 2 slots and 3 seconds with losses, resets
and crashes. The induction steps have one case per action.

| Module | Theorem | States | Assumes |
|---|---|---|---|
| `PangoServerProofs` | `TypeCorrect` | `TypeOK` | |
| | `MutexTheorem` | `MutexDiscipline` | |
| | `OneRowTheorem` | `OneRowPerMac` | no `overlap`, no `dberr` |
| | `DoneTheorem` | `DoneNotCounting` | no `corrupt`, no `dberr` |
| `PangoServerTableProofs` | `UsedTheorem` | `UsedNeverDecreases` | `Orderly` |
| | `PriceTheorem` | `CountsAtPriceOfRow` | `Orderly` |
| `PangoServerMeterProofs` | `ChargeTheorem` | `ChargedOnce` | `Orderly` |
| | `BackupTheorem` | `BackupFresh` | `Orderly` |
| `PangoServerRefinementProofs` | `RefinementTheorem` | `ImplementsMeter` | `Orderly` |
| `ServerLifecycleProofs` | `FinalTimeTheorem` | `FinalTimeSaved` | `Orderly` |
| | `LifeServerTheorem` | `MutexDiscipline`, `OneRowPerMac` with main; `DoneNotCounting`, `CountsAtPriceOfRow` until it closes a database | `Orderly` |
| | `LifeUsedTheorem` | `UsedNeverDecreases` with main | `Orderly` |
| `PangoClientProofs` | `ClientInvariant` | `ClientInv` | |
| | `ClientTypeOK`, `ClientNoSecondParking`, `ClientInStep` | `TypeOK`, `NoSecondParking`, `InStep` | |
| | `ClientConnectedMeansLocated` | `ConnectedMeansLocated` | no `error`, no `down` |
| `StmControllerProofs` | `ControllerTypeOK`, `ControllerEchoesTheRequest` | `TypeOK`, `EchoesTheRequest` | |
| | `ControllerNeverDeaf` | `NeverDeaf` | `Settled` |
| `DeviceProofs` | `DeviceInvariant` | `DeviceInv` | |
| | `DeviceTypeOK`, `DeviceEchoesTheRequest`, `DeviceAsksForNext` | `TypeOK`, `EchoesTheRequest`, `AsksForNext` | |
| | `DeviceImplementsClient`, `DeviceNoSecondParking` | `ImplementsClient`, `NoSecondParking` of the BBB | |
| | `DeviceImplementsSettled`, `DeviceDeafOnlyIfSpoilt` | `ImplementsSettled`, `DeafOnlyIfSpoilt` | `ServerAnswers` |

All of them assume what the module's `ASSUME` says of its constants (`NoMsgAssumption`,
that `NoMsg` is no message, is needed for `BackupTheorem` only). The other
assumptions restrict the environment, never the program:

- `Orderly`: a device connects again only when the thread of its old connection has
  ended, SQLite does not fail, and no message has a wrong CRC-8. Each of the three is
  needed: with any one of `overlap`, `dberr`, `corrupt` TLC finds `ImplementsMeter`,
  `CountsAtPriceOfRow` and `UsedNeverDecreases` violated on the instance above.
  `BackupFresh` is violated with `overlap` and with `dberr`; with `corrupt` TLC finds
  no violation there, and the theorem assumes it because it rests on `TimeInv`.
  Losses, resets, broken pipes and crashes of the server at any step are allowed. In
  `ServerLifecycle` SQLite fails nevertheless on a database that main has closed.
- `Settled`: the BBB writes to a controller only when it is at rest. `StmController`
  without it has the race of `PNG.c:78-85`.
- `ServerAnswers`: no ERROR answer to a CLOSE and no server that dies while the BBB
  waits, the two cases in which the BBB does not sleep (see Fairness). With it,
  `Settled` is no longer assumed of the device but proved.

### The server

`TypeOK` alone is not inductive: a thread past its first message indexes the table
with `mac_address`, which must be a device by then. `TypeInv` adds `Registered`,
which says from where on it is, and that it is the device of the connection.

`MutexDiscipline` is inductive on top of typing: the database thread is never in
`Slot`, and every action that enters or leaves a critical section is a `Lock` or
an `Unlock`, for which there is one lemma each.

`OneRowPerMac` needs to know that nobody else is on the way to insert. `RowInv`
adds `OneLive` (a device has one connection whose thread has not ended) and
`NoRowYet` (between the SELECT that found nothing and the INSERT, the device has
no row). `overlap` breaks the first and `dberr` the second, which are exactly
the assumptions.

`DoneNotCounting` is strengthened to `CountInv`: from the point where a thread has
decided to end, except for one that is still waiting to reset it, `connected` is
FALSE; and a `client_data_buff` that could be processed again holds a right message.

That stored time does not go back is about the row, but three writers store it,
each from the start second in its `client[i]`. `TimeInv` says that no live thread of a
device, whatever it is doing, counts from later than what the row says; it needs
`Fresh` (a slot without a connection is zero, so that the loss of a connection that
never sent a START stores nothing false) and `ResumeInv` (the row a thread saw in the
unprotected SELECT is still there when it has the mutex). `PriceInv` relates the
`client[i]` of a thread to the row from the INSERT or the resumption on.

`ChargedOnce` relates the payment a device reads to the START it sent, which only the
two ends of the connection together know. `NetInv` says that a device talks on one
connection at a time and that what it has read or sent tells how far its thread is;
`RunInv`, that a thread which has begun has a row, that the database thread counts for
it as long as it is in the loop, and that the device is waiting for a payment.
`ChargeInv` is then inductive: thread, row and payment all count from the START or
later, unless the server died between a payment and its DELETE (`settled`).

`BackupFresh` relates a row to the clock and to how often the database thread was at a
slot, so its invariant `BackupInv` has three parts. `TalkInv`: a connection that is up
and counted has nothing left to do but to answer a CLOSE, so no other writer is on its
way to the row. `TurnInv`: what the histories `turn`, `punctual` and `connectedAt` say of
the mutex, the loop of the database thread and the second in which it is. `SweptInv`: the
row of an idle connection has at least the time up to the last second in which a backup
was due while the slot counted, unless that second is the present one and the pass has
not yet reached the slot. `LastDue` is the arithmetic that turns the last due second
into "at most a period".

`RefinementTheorem` has one lemma per step of the meter. A step of the server maps to
the meter's step of the same name or to a stutter; what makes a save a `Save` is
`BeganInv`: a row shows no more than the time since it began, its thread counts from no
earlier, and from the CLOSE to the payment, which is made without the mutex, the row
shows what the thread has in `end_time`.

`ServerLifecycleProofs` takes these invariants over to the server with its main. A step
of `ServerLifecycle` is one of `PangoServer`, the end of the process, a `FinalLock`, a
`FailedAccept`, a step of main that leaves the server alone, or a call that fails
(`LifeSteps`). The thread of a failed accept has no device, which is why `Registered` and
`OneLive` say something of a device only before "finish". `LifeInv` has three parts that
follow main:

- As long as both databases are open, the invariants of the server hold (`BaseInv`), and
  `ToSaveInv`: each connection that was counting when the final update began is the only
  running one of its device, begins no other parking, keeps its row until it is paid for,
  counts what is due until the update comes to its slot, and has it in its row afterwards,
  unless it was missed (`KeepsToSave`).
- Once the prices are closed a thread that resumes may fail after it has set `connected`,
  and be left counting when it ends, so `CountInv` and `PriceInv` are lost. What remains is
  `WriterInv`: a device has one slot at most that may still write its row, and that one
  counts no less than the row says. No row is inserted any more.
- Once the clients are closed the table does not change (`StaysFrozen`).

`SavedInv` says that the rows have what was due once the database thread has ended; in the
first part it follows from `ToSaveInv`, in the others from `TableKept`, that a row which is
still there has lost no time. `Stages` orders flag, final update and closing.

### The device

`ClientInv` says that what the connection carries, what the server has answered and
what the program has stored belong to one step of the session, also while the thread is
leaving; `NoSecondParking` and `InStep` follow from it. `ServedInv` says that without ERROR and without a server that
goes away, the thread lives from the connect until its location is read; so the two are
all that can make main connected without a city. With either of them TLC finds
`ConnectedMeansLocated` violated. `EchoInv` follows a request through `wrong_status` and
`send_buff`, with the interrupt between any two steps of the main loop; `SettledInv`
says where the reception is armed, and that a BBB which waits leaves nothing on the
line while it is not. `DeviceInv` joins the two invariants and says that both processors
speak of the same request and that only a broken packet is misread; from it `DeviceImplementsClient` is a case per action.
`PacedInv` says at which points of the BBB's program a second has passed, and is what
`DeviceImplementsSettled` rests on (`DevicePaced`: it holds until a packet is broken).

### What is only model-checked

The invariants of `PangoPacket`. They depend on data: what a CRC-8 detects (and that a
packet received in parts does not pass it by chance, 1 in 256) is a matter of the bytes
of the addresses and coordinates chosen, so that the last two do not hold for every
value of `Mac` and `Random`; and `SealedIsMultiple` is an induction over the bytes with
the bitwise operators, which is out of the prover's reach. Everything under fairness is
out of its reach as well: `LossHandled`, `StartAnswered`, `PaidRowRemoved`, `ShutDownEnds`,
`PressHandled`, `Answered`, `DeadControllerNoticed`.

## 5. Not modelled

- The start of the server up to the accept loop, where every failure ends the process
  before anything is shared; and the second between the creation of the database
  thread and `pthread_mutex_init`, during which that thread sleeps.
- What a thread on the connection past `client[]` would do with messages: nothing is
  sent on it.
- Bytes that complete a wrong CRC-8 by chance: three and more flipped bits, and an
  uninitialized buffer.
- The transmission before the controller halts (`PNG.c:99`), which casts the value to a
  pointer and sends whatever is at that address.
- A UART that cannot be opened, and its speed and parity: set once, with no state.
- `start_end_func`: it writes without pause; the bytes are flushed and never looked at.
- What is displayed on the BBB (the hours modulo 24 among it), `printf` redirection,
  and the creation of the price database, which runs once and alone.

## 6. Plan

The model covers the system, and the invariants, action properties and refinements
whose truth does not depend on particular bytes are proved. What would be worth adding:

- `BackupTheorem` without the assumption on `corrupt`, from an invariant weaker than
  `TimeInv` about the slots that are counted only.
- The detection of errors by the CRC-8 for every packet, by its linearity.
