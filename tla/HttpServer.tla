------------------------------ MODULE HttpServer ------------------------------
(* 02_system_prog/src/socket_demo.c: a server process accepts connections on   *)
(* port 9090 and forks a child for each; SIGINT and SIGTERM ask it to stop.    *)
(* The kernel's part (process table, listening socket, queue of connections,   *)
(* signals that interrupt a blocked call) is modelled as the code uses it.     *)
EXTENDS Integers, FiniteSets

CONSTANTS Pids, NoPid,     \* process numbers
          Conns, NoConn    \* the clients' connections

ASSUME HttpAssumption == NoPid \notin Pids /\ NoConn \notin Conns

VARIABLES proc,        \* pid -> its program counter, running, leader, client_fd
          listener,    \* the processes that hold the listening socket of port 9090
          conn         \* connection -> its state, what the client did, who holds it
vars == <<proc, listener, conn>>

Nobody == [pc |-> "none", running |-> TRUE, leader |-> NoPid, conn |-> NoConn]
Fresh  == [state |-> "new", client |-> "silent", held |-> {}]

Init ==
    /\ proc = [p \in Pids |-> Nobody]
    /\ listener = {}
    /\ conn = [c \in Conns |-> Fresh]

At(p, pc)  == proc[p].pc = pc
Live(p)    == proc[p].pc \notin {"none", "zombie"}
Leader(p)  == proc[p].leader = p
Goto(p, l) == proc' = [proc EXCEPT ![p].pc = l]

(* The processes in P close the listening socket; with its last holder go the  *)
(* connections still in its queue.  Unhold closes their connections as well.   *)
Reset(c, L)  == IF L = {} /\ c.state = "queued" THEN [c EXCEPT !.state = "reset"] ELSE c
Unlisten(P)  == listener' = listener \ P /\ conn' = [c \in Conns |-> Reset(conn[c], listener \ P)]
Close(P)     == /\ listener' = listener \ P
                /\ conn' = [c \in Conns |-> Reset([conn[c] EXCEPT !.held = @ \ P], listener \ P)]

(* A leader that died is a zombie until it is waited for; children are reaped  *)
(* by the kernel (SIGCHLD is ignored with SA_NOCLDWAIT).                       *)
Dead(p) == IF Leader(p) THEN [proc[p] EXCEPT !.pc = "zombie", !.conn = NoConn] ELSE Nobody
Exit(p) == proc' = [proc EXCEPT ![p] = Dead(p)] /\ Close({p})

--------------------------------------------------------------------------------
(* The server.  No process number is given out while a process group has it.   *)
Free(p) == At(p, "none") /\ \A q \in Pids : proc[q].leader # p

Start(p) ==
    /\ Free(p)
    /\ proc' = [proc EXCEPT ![p] = [Nobody EXCEPT !.pc = "exec", !.leader = p]]
    /\ UNCHANGED <<listener, conn>>

Install(p) == At(p, "exec") /\ Goto(p, "listen") /\ UNCHANGED <<listener, conn>>

(* socket, bind and listen: one of them fails when somebody listens already. *)
Listen(p) ==
    /\ At(p, "listen")
    /\ \/ Exit(p)
       \/ /\ listener = {} /\ listener' = {p}
          /\ Goto(p, "loop")
          /\ UNCHANGED conn

Loop(p) ==
    /\ At(p, "loop")
    /\ Goto(p, IF proc[p].running THEN "accept" ELSE "stop")
    /\ UNCHANGED <<listener, conn>>

Queued(c) == conn[c].state = "queued"
Accept(p) ==
    /\ At(p, "accept") \/ At(p, "accepting")
    /\ \E c \in Conns :
          /\ Queued(c)
          /\ conn' = [conn EXCEPT ![c].state = "open", ![c].held = {p}]
          /\ proc' = [proc EXCEPT ![p].pc = "fork", ![p].conn = c]
    /\ UNCHANGED listener

(* accept blocks on an empty queue, or fails with something else than EINTR.   *)
BlockUnchecked(p) ==                                                 \* variant
    /\ At(p, "accept") /\ UNCHANGED <<listener, conn>>
    /\ proc' = [proc EXCEPT ![p].pc = "fork", ![p].conn = -1]
Block(p) ==
    /\ At(p, "accept")
    /\ \/ (\A c \in Conns : ~Queued(c)) /\ Goto(p, "accepting")
       \/ Goto(p, "stop")
    /\ UNCHANGED <<listener, conn>>

(* The error may come while accept is blocked too; no server must run into one. *)
Fail(p) == At(p, "accepting") /\ Goto(p, "stop") /\ UNCHANGED <<listener, conn>>

Fork(p) ==
    /\ At(p, "fork")
    /\ \/ Goto(p, "close") /\ UNCHANGED <<listener, conn>>
       \/ \E q \in Pids :
             /\ Free(q)
             /\ proc' = [proc EXCEPT ![p].pc = "close", ![q] = [proc[p] EXCEPT !.pc = "child"]]
             /\ conn' = [conn EXCEPT ![proc[p].conn].held = @ \cup {q}]
             /\ listener' = listener \cup {q}

KeepConn(p) ==                                                       \* variant
    /\ At(p, "close")
    /\ proc' = [proc EXCEPT ![p].pc = "loop", ![p].conn = NoConn]
    /\ UNCHANGED <<listener, conn>>
CloseConn(p) ==
    /\ At(p, "close")
    /\ proc' = [proc EXCEPT ![p].pc = "loop", ![p].conn = NoConn]
    /\ conn' = [conn EXCEPT ![proc[p].conn].held = @ \ {p}]
    /\ UNCHANGED listener

Stop(p) == At(p, "stop") /\ Exit(p)

ServerStep(p) == \/ Install(p) \/ Listen(p) \/ Loop(p) \/ Accept(p) \/ Block(p)
                 \/ Fork(p) \/ CloseConn(p) \/ Stop(p)

--------------------------------------------------------------------------------
(* The child: handle_client.  send_all retries and then is done; a client that *)
(* is gone ends the child as well.                                             *)
KeepListening(q) == At(q, "child") /\ Goto(q, "recv") /\ UNCHANGED <<listener, conn>>   \* variant
CloseListener(q) == At(q, "child") /\ Goto(q, "recv") /\ Unlisten({q})

Recv(q) ==
    LET client == conn[proc[q].conn].client IN
    /\ \/ At(q, "recv") /\ client = "silent" /\ Goto(q, "recving")
       \/ (At(q, "recv") \/ At(q, "recving")) /\ client = "sent" /\ Goto(q, "send")
       \/ (At(q, "recv") \/ At(q, "recving")) /\ client = "gone" /\ Goto(q, "exit")
    /\ UNCHANGED <<listener, conn>>

Send(q) == At(q, "send") /\ Goto(q, "exit") /\ UNCHANGED <<listener, conn>>

Bye(q) == At(q, "exit") /\ Exit(q)

ChildStep(q) == CloseListener(q) \/ Recv(q) \/ Send(q) \/ Bye(q)

--------------------------------------------------------------------------------
(* Signals to a process group.  SIGINT and SIGTERM end a process that has not  *)
(* installed stop_server yet; after that they clear running, and interrupt     *)
(* accept and recv when blocked (the handler has no SA_RESTART).               *)
Group(g) == {p \in Pids : proc[p].leader = g /\ Live(p)}

Term(r) ==
    CASE r.pc = "exec"      -> [r EXCEPT !.pc = "zombie"]
      [] r.pc = "accepting" -> [r EXCEPT !.pc = "loop", !.running = FALSE]
      [] r.pc = "recving"   -> [r EXCEPT !.pc = "exit", !.running = FALSE]
      [] OTHER              -> [r EXCEPT !.running = FALSE]

SigTerm(g) ==
    /\ proc' = [p \in Pids |-> IF p \in Group(g) THEN Term(proc[p]) ELSE proc[p]]
    /\ UNCHANGED <<listener, conn>>

SigKill(g) ==
    /\ proc' = [p \in Pids |-> IF p \in Group(g) THEN Dead(p) ELSE proc[p]]
    /\ Close(Group(g))

(* The parent of a server waits for it. *)
Reap(p) ==
    /\ At(p, "zombie")
    /\ proc' = [proc EXCEPT ![p] = Nobody]

--------------------------------------------------------------------------------
(* The clients. *)
Gone(c) == conn[c].state = "reset" \/ (conn[c].state = "open" /\ conn[c].held = {})

Client(c) ==
    /\ \/ conn[c].state = "new" /\ listener # {} /\ conn' = [conn EXCEPT ![c].state = "queued"]
       \/ /\ conn[c].state \in {"queued", "open"} /\ conn[c].client = "silent"
          /\ \E what \in {"sent", "gone"} : conn' = [conn EXCEPT ![c].client = what]
       \/ Gone(c) /\ conn' = [conn EXCEPT ![c] = Fresh]
    /\ UNCHANGED <<proc, listener>>

(* A server started in a terminal, where Ctrl+C signals the foreground group.  *)
Terminal(p) ==
    \/ (\A q \in Pids : ~Leader(q)) /\ Start(p)
    \/ Leader(p) /\ Live(p) /\ proc[p].running /\ SigTerm(p)
    \/ Reap(p) /\ UNCHANGED <<listener, conn>>

Next == \/ \E p \in Pids : ServerStep(p) \/ ChildStep(p) \/ Fail(p) \/ Terminal(p)
        \/ \E c \in Conns : Client(c)

(* Every process that can run is scheduled; clients and users need do nothing. *)
Fairness == \A p \in Pids : WF_vars(ServerStep(p) \/ ChildStep(p))
Spec == Init /\ [][Next]_vars /\ Fairness

--------------------------------------------------------------------------------
(* Every variable has its type. *)
TypeOK ==
    /\ proc \in [Pids -> [pc : {"none", "zombie", "exec", "listen", "loop", "accept", "accepting",
                                "fork", "close", "stop", "child", "recv", "recving", "send", "exit"},
                          running : BOOLEAN, leader : Pids \cup {NoPid}, conn : Conns \cup {NoConn}]]
    /\ listener \in SUBSET Pids
    /\ conn \in [Conns -> [state : {"new", "queued", "open", "reset"},
                           client : {"silent", "sent", "gone"}, held : SUBSET Pids]]

(* No descriptor leaks: the only connection a process holds is the one it is   *)
(* serving, so the server waits in accept without any, and no child inherits   *)
(* one of an earlier client.                                                   *)
NoFdLeak == \A p \in Pids, c \in Conns : p \in conn[c].held => proc[p].conn = c

(* A client that was accepted and sent its request, or left, gets its          *)
(* connection closed: by its child, by the parent too, and when fork fails.    *)
ConnectionEnds ==
    \A c \in Conns : conn[c].state = "open" /\ conn[c].client # "silent" ~> conn[c].held = {}

(* The port does not stay taken after the server is gone, whatever clients its *)
(* children still wait for.                                                    *)
PortFreed == []<>(listener = {} \/ \E p \in Pids : Leader(p) /\ Live(p))

(* "press Ctrl+C to stop": a server that got the signal comes to an end. *)
CtrlCStops == \A p \in Pids : Leader(p) /\ Live(p) /\ ~proc[p].running ~> ~Live(p)

================================================================================
