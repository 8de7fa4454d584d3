--------------------------- MODULE SocketSupervisor ---------------------------
(* gui_app/app.py around socket_demo: the threads of the GUI's HTTP server run *)
(* action_socket_start and action_socket_stop, each under socket_demo_lock,    *)
(* and the main thread runs action_socket_stop once more when the GUI ends.    *)
(* The processes they start and signal are those of HttpServer.                *)
EXTENDS HttpServer

CONSTANTS Handlers,     \* threads of ThreadingHTTPServer, all daemons
          Main,         \* the main thread
          NoWorker      \* the holder of a lock nobody holds

ASSUME SupervisorAssumption == Main \notin Handlers /\ NoWorker \notin Handlers \cup {Main}

VARIABLES lock,         \* socket_demo_lock: its holder
          process,      \* socket_demo_process: its pid
          h             \* thread -> where it is in its action
gui == <<lock, process, h>>
all == <<vars, gui>>

Workers == Handlers \cup {Main}
SupInit ==
    /\ Init
    /\ lock = NoWorker /\ process = NoPid
    /\ h = [w \in Workers |-> IF w = Main THEN "serving" ELSE "idle"]

(* A Popen whose exit status was collected behaves as None does: every use of  *)
(* it polls first.  Forget is that poll (or wait), and the assignment of None. *)
Running == process # NoPid /\ ~At(process, "zombie")
Forget  ==
    /\ process' = NoPid
    /\ IF process = NoPid THEN UNCHANGED vars ELSE Reap(process) /\ UNCHANGED <<listener, conn>>

To(w, pc) == h' = [h EXCEPT ![w] = pc]
Reply(w)  == To(w, IF w = Main THEN "closing" ELSE "idle")
KeepLock(w) == Reply(w) /\ UNCHANGED lock                            \* variant
Leave(w)  == Reply(w) /\ lock' = NoWorker
Unguarded == TRUE                                                    \* variant
Unlocked  == lock = NoWorker             \* what entering "with socket_demo_lock" waits for

--------------------------------------------------------------------------------
(* do_POST hands a request to its action; there are none after serve_forever.  *)
Request(w) ==
    /\ w \in Handlers /\ h[w] = "idle" /\ h[Main] = "serving"
    /\ \E op \in {"start", "stop"} : To(w, op)
    /\ UNCHANGED <<vars, lock, process>>

(* Ctrl+C in the terminal of the GUI: the finally block calls the stop action. *)
Shutdown == h[Main] = "serving" /\ To(Main, "stop") /\ UNCHANGED <<vars, lock, process>>

(* Main is done, or a second Ctrl+C ends it in the stop action; the daemon     *)
(* threads end with it, wherever they are.                                     *)
Quit ==
    /\ h[Main] \in {"closing", "stop", "kill", "wait", "killed"}
    /\ h' = [w \in Workers |-> "gone"]
    /\ UNCHANGED <<vars, lock, process>>

--------------------------------------------------------------------------------
(* action_socket_start: without the binary it replies at once; else it looks,  *)
(* starts, sleeps and looks again, all under the lock.                         *)
NoBinary(w) == h[w] = "start" /\ Reply(w) /\ UNCHANGED <<vars, lock, process>>

StartCheck(w) ==
    /\ h[w] = "start" /\ Unlocked
    /\ IF Running
       THEN Reply(w) /\ UNCHANGED <<vars, lock, process>>
       ELSE To(w, "popen") /\ lock' = w /\ Forget

Popen(w) ==
    /\ h[w] = "popen"
    /\ \/ Leave(w) /\ UNCHANGED <<vars, process>>           \* OSError leaves the with block
       \/ \E p \in Pids : Start(p) /\ process' = p /\ To(w, "sleep") /\ UNCHANGED lock

StartPoll(w) ==
    /\ h[w] = "sleep" /\ Leave(w)
    /\ IF Running THEN UNCHANGED <<vars, process>> ELSE Forget

--------------------------------------------------------------------------------
(* action_socket_stop: SIGTERM to the group, three seconds, then SIGKILL.  The *)
(* group exists as long as its leader is unreaped, so killpg always finds it.  *)
StopCheck(w) ==
    /\ h[w] = "stop" /\ Unlocked
    /\ IF Running
       THEN To(w, "kill") /\ lock' = w /\ UNCHANGED <<vars, process>>
       ELSE Reply(w) /\ Forget /\ UNCHANGED lock

Kill(w) == h[w] = "kill" /\ SigTerm(process) /\ To(w, "wait") /\ UNCHANGED <<lock, process>>

Wait(w) ==
    /\ h[w] \in {"wait", "killed"} /\ ~Running
    /\ Forget /\ Leave(w)

GiveUp(w) ==                                                         \* variant
    h[w] = "wait" /\ process' = NoPid /\ Leave(w) /\ UNCHANGED vars
NoTimeout(w) == FALSE                                                \* variant
Timeout(w) ==
    h[w] = "wait" /\ SigKill(process) /\ To(w, "killed") /\ UNCHANGED <<lock, process>>

--------------------------------------------------------------------------------
Act(w) == \/ NoBinary(w) \/ StartCheck(w) \/ Popen(w) \/ StartPoll(w)
          \/ StopCheck(w) \/ Kill(w) \/ Wait(w) \/ Timeout(w)

(* Processes run by themselves; what the GUI leaves behind init waits for.     *)
Run(p)   == (ServerStep(p) \/ ChildStep(p)) /\ UNCHANGED gui
Break(p) == Fail(p) /\ UNCHANGED gui
Adopt(p) == h[Main] = "gone" /\ Reap(p) /\ UNCHANGED <<listener, conn, gui>>
Visit(c) == Client(c) /\ UNCHANGED gui

SupNext ==
    \/ \E w \in Workers : Request(w) \/ Act(w)
    \/ Shutdown \/ Quit
    \/ \E p \in Pids : Run(p) \/ Break(p) \/ Adopt(p)
    \/ \E c \in Conns : Visit(c)

(* Threads and processes are scheduled.  Nothing is assumed of who gets a lock *)
(* that several wait for, nor that anybody requests, visits or shuts down.     *)
SupSpec ==
    /\ SupInit /\ [][SupNext]_all
    /\ \A w \in Workers : WF_all(Act(w))
    /\ \A p \in Pids : WF_all(Run(p))

--------------------------------------------------------------------------------
(* Every variable of the GUI has its type, and the lock is held by the thread  *)
(* inside a with block, whichever way the threads before it left theirs.       *)
Inside == {"popen", "sleep", "kill", "wait", "killed"}
SupTypeOK ==
    /\ lock \in Workers \cup {NoWorker} /\ process \in Pids \cup {NoPid}
    /\ h \in [Workers -> Inside \cup {"serving", "idle", "start", "stop", "closing", "gone"}]
    /\ h[Main] # "gone" => \A w \in Workers : lock = w <=> h[w] \in Inside

(* The GUI never loses track of a server: as long as it runs, each one it      *)
(* started and did not wait for is socket_demo_process, so there is never more *)
(* than one and Stop reaches it.                                               *)
Tracked == h[Main] # "gone" => {p \in Pids : Leader(p)} \subseteq {process}

(* When a stop comes to its end there is no server, although it may have been  *)
(* asked in vain with SIGTERM; so what outlives the GUI was started by a       *)
(* request still under way after the stop of the main thread.                  *)
Stopping == {"stop", "kill", "wait", "killed"}
StopStops ==
    [][\A w \in Workers :
         h[w] \in Stopping /\ h[w]' \in {"idle", "closing"}
             => \A p \in Pids : ~(Leader(p) /\ Live(p))]_all

(* The lock does not stay taken: start and stop always come to an end, also    *)
(* when the server misses SIGTERM and stays in accept.                         *)
LockFreed == []<>(lock = NoWorker \/ h[Main] = "gone")

================================================================================
