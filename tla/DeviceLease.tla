----------------------------- MODULE DeviceLease -----------------------------
(***************************************************************************)
(* What a device lease promises (DeviceScheduler: "each GPU runs at most   *)
(* one heavy inference lease"): a job enters a heavy batch on a device     *)
(* only while nobody is inside one there, and it is taken out by nobody    *)
(* but itself.  Who is inside is read off the threads; there is no lease   *)
(* table here, that is what DeviceScheduler keeps the promise with.        *)
(***************************************************************************)
CONSTANTS Jobs, Devices

VARIABLE inside      \* for each device, the jobs that are in a heavy batch on it

Enter(d, j) == inside[d] = {} /\ inside' = [inside EXCEPT ![d] = {j}]
Exit(d, j) == inside[d] = {j} /\ inside' = [inside EXCEPT ![d] = {}]

Init == inside = [d \in Devices |-> {}]
Next == \E d \in Devices, j \in Jobs : Enter(d, j) \/ Exit(d, j)

Spec == Init /\ [][Next]_inside
==============================================================================
