---------------------------- MODULE ParkingMeter ----------------------------
(***************************************************************************)
(* What the server promises the driver of a car, whatever its threads,     *)
(* connections and restarts: a meter is started once the car has asked for *)
(* it, never runs ahead of the clock or back, is billed exactly for what   *)
(* it shows at the price of the city where it was started, stands still    *)
(* once it is billed, and is removed only then.  A failure forgets bills   *)
(* and which meters were billed; it does not touch a meter.                *)
(***************************************************************************)
EXTENDS Integers

CONSTANTS
    Car,      \* the devices
    Price     \* the price per second of every city

VARIABLES
    now,
    since,    \* when the parking a car has not paid for began, -1: none
    meter,    \* the meter of a car: none, or one that says since when it runs,
              \* what it shows, and where
    billed,   \* the meter of a car is billed and about to be removed
    bill      \* the bill a car has not read, or none

vars == <<now, since, meter, billed, bill>>

Init ==
    /\ now = 0
    /\ since = [m \in Car |-> -1]
    /\ meter = [m \in Car |-> {}]
    /\ billed = [m \in Car |-> FALSE]
    /\ bill = [m \in Car |-> {}]

\* The car asks for a parking.
Ask(m) ==
    /\ since[m] = -1
    /\ since' = [since EXCEPT ![m] = now]
    /\ UNCHANGED <<now, meter, billed, bill>>

Start(m) ==
    /\ meter[m] = {}
    /\ since[m] # -1
    /\ \E t \in since[m] .. now, c \in DOMAIN Price :
          meter' = [meter EXCEPT ![m] = {[began |-> t, used |-> 0, city |-> c]}]
    /\ UNCHANGED <<now, since, billed, bill>>

\* Time is saved, often or seldom: a suspended meter is one that is not.
Save(m) ==
    /\ ~billed[m]
    /\ \E r \in meter[m] : \E used \in r.used .. now - r.began :
          meter' = [meter EXCEPT ![m] = {[r EXCEPT !.used = used]}]
    /\ UNCHANGED <<now, since, billed, bill>>

\* The bill of a car that is gone reaches nobody.
Bill(m) ==
    /\ ~billed[m]
    /\ \E r \in meter[m] :
          bill' \in {bill, [bill EXCEPT ![m] =
                              {[elapsed |-> r.used, price |-> Price[r.city] * r.used]}]}
    /\ billed' = [billed EXCEPT ![m] = TRUE]
    /\ UNCHANGED <<now, since, meter>>

Remove(m) ==
    /\ billed[m]
    /\ meter' = [meter EXCEPT ![m] = {}]
    /\ billed' = [billed EXCEPT ![m] = FALSE]
    /\ UNCHANGED <<now, since, bill>>

Pay(m) ==
    /\ bill[m] # {}
    /\ bill' = [bill EXCEPT ![m] = {}]
    /\ since' = [since EXCEPT ![m] = -1]
    /\ UNCHANGED <<now, meter, billed>>

\* The car leaves without reading its bill.
Leave(m) ==
    /\ bill[m] # {}
    /\ bill' = [bill EXCEPT ![m] = {}]
    /\ UNCHANGED <<now, since, meter, billed>>

Fail ==
    /\ billed' = [m \in Car |-> FALSE]
    /\ bill' = [m \in Car |-> {}]
    /\ UNCHANGED <<now, since, meter>>

Tick ==
    /\ now' = now + 1
    /\ UNCHANGED <<since, meter, billed, bill>>

Next ==
    \/ \E m \in Car : Ask(m) \/ Start(m) \/ Save(m) \/ Bill(m) \/ Remove(m)
                      \/ Pay(m) \/ Leave(m)
    \/ Fail
    \/ Tick

Spec == Init /\ [][Next]_vars
=============================================================================
