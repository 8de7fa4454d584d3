----------------------------- MODULE MCCharDriver -----------------------------
(* Instances of CharDriver for TLC: which threads run and what each one calls. *)
EXTENDS CharDriver, TLC

CONSTANTS A, B, C    \* the threads

(* The threads of one program, which share its descriptors. *)
SharedFds == [t \in Threads |-> Files]

(* Programs that share nothing: each thread has a file of its own. *)
CONSTANTS f1, f2
OwnFds == A :> {f1} @@ B :> {f2}

(* One file, every call that moves size and f_pos, and the error returns. *)
BoundsCalls ==
    A :> {"read", "write", "seek", "fault"}
    @@ B :> {"open", "nonblock", "write", "reset", "setsize", "fault"}

(* Three programs share what one of them opens and two of them close: a        *)
(* reader, a writer on any minor, and a reader who resets.                     *)
WakeupCalls ==
    A :> {"read", "close"} @@ B :> {"open", "close", "write"} @@ C :> {"read", "reset"}

(* SETSIZE in the place of the write. *)
SetSizeCalls == A :> {"open", "read"} @@ B :> {"open", "setsize"}

(* One writer on all minors, and one reader that looks at what it got. *)
BroadcastCalls == A :> {"read", "look"} @@ B :> {"open", "write"}

(* Two writers, each with a file of its own and so each on a minor of its own. *)
TwoWriterCalls == A :> {"open", "write"} @@ B :> {"open", "write"}

FileSymmetry == Permutations(Files)
================================================================================
