------------------------------- MODULE MinorLock -------------------------------
(* What exclusive open promises, without saying how: every minor of the driver *)
(* is held by at most one open file at a time.  CharDriver implements this     *)
(* with my_device_data.access, a compare-and-exchange in my_open and a store   *)
(* in my_release.                                                              *)
EXTENDS FiniteSets

CONSTANTS Minors,   \* the minor numbers
          Files     \* the open file descriptions

VARIABLE holders    \* minor -> the files that hold it

Init == holders = [m \in Minors |-> {}]

(* A file takes a minor that nobody holds. *)
Acquire(m, f) ==
    /\ holders[m] = {}
    /\ \A o \in Minors : f \notin holders[o]
    /\ holders' = [holders EXCEPT ![m] = {f}]

(* The holder gives the minor back. *)
Release(m, f) ==
    /\ f \in holders[m]
    /\ holders' = [holders EXCEPT ![m] = @ \ {f}]

Next == \E m \in Minors, f \in Files : Acquire(m, f) \/ Release(m, f)

Spec == Init /\ [][Next]_holders

================================================================================
