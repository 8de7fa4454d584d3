--------------------------- MODULE HttpServerProofs ---------------------------
(* Proofs about HttpServer: its variables keep their types, and no process     *)
(* holds a connection it does not serve.  Each step is shown to preserve the   *)
(* inductive invariant by a lemma of its own, because SocketSupervisor starts  *)
(* and signals the same processes in an order of its own.                      *)
EXTENDS HttpServer, TLAPS

(* A process at these places serves nobody. *)
Unserving == {"none", "zombie", "exec", "listen", "loop", "accept", "accepting", "stop"}
Unserved  == \A p \in Pids : proc[p].pc \in Unserving => proc[p].conn = NoConn

(* NoFdLeak is not inductive: accept and fork give a descriptor to a process   *)
(* of which it says nothing, and that has none because it serves nobody.       *)
FdInv == TypeOK /\ NoFdLeak /\ Unserved

Process    == [pc : {"none", "zombie", "exec", "listen", "loop", "accept", "accepting",
                     "fork", "close", "stop", "child", "recv", "recving", "send", "exit"},
               running : BOOLEAN, leader : Pids \cup {NoPid}, conn : Conns \cup {NoConn}]
Connection == [state : {"new", "queued", "open", "reset"},
               client : {"silent", "sent", "gone"}, held : SUBSET Pids]

LEMMA Types == TypeOK <=> /\ proc \in [Pids -> Process]
                          /\ listener \in SUBSET Pids
                          /\ conn \in [Conns -> Connection]
BY DEF TypeOK, Process, Connection

(* The invariant after a step that leaves the connections alone: whoever held  *)
(* one serves it still, or nobody lost sight of what it serves.                *)
LEMMA ProcOnly ==
    ASSUME FdInv, UNCHANGED <<listener, conn>>, proc' \in [Pids -> Process],
           \A p \in Pids : \/ proc'[p] = proc[p]
                           \/ proc[p].conn = NoConn /\ proc'[p].conn = NoConn
                           \/ proc'[p].conn = proc[p].conn /\ proc'[p].pc \notin Unserving
    PROVE  FdInv'
<1>1. TypeOK'
  <2>1. listener' \in SUBSET Pids /\ conn' \in [Conns -> Connection]
    BY Types DEF FdInv
  <2>. QED BY <2>1 DEF TypeOK, Process, Connection
<1>2. NoFdLeak' BY HttpAssumption DEF FdInv, NoFdLeak
<1>3. Unserved' BY DEF FdInv, Unserved
<1>. QED BY <1>1, <1>2, <1>3 DEF FdInv

(* Closing the listener resets queued connections and leaves descriptors; a    *)
(* process that ends gives its connections up as well.                         *)
LEMMA Unlistens ==
    ASSUME TypeOK, NEW P \in SUBSET Pids, Unlisten(P)
    PROVE  /\ listener' \in SUBSET Pids /\ conn' \in [Conns -> Connection]
           /\ \A c \in Conns : conn'[c].held = conn[c].held
BY Types DEF Unlisten, Reset, Connection

LEMMA Closes ==
    ASSUME TypeOK, NEW P \in SUBSET Pids, Close(P)
    PROVE  /\ listener' \in SUBSET Pids /\ conn' \in [Conns -> Connection]
           /\ \A c \in Conns : conn'[c].held = conn[c].held \ P
BY Types DEF Close, Reset, Connection

LEMMA Deaths ==
    ASSUME TypeOK, NEW p \in Pids
    PROVE  Dead(p) \in Process /\ Dead(p).conn = NoConn
BY Types DEF Dead, Nobody, Process

(* Processes that die: what they held is closed, the others go on. *)
LEMMA Deadly ==
    ASSUME FdInv, NEW P \in SUBSET Pids, Close(P),
           proc' = [p \in Pids |-> IF p \in P THEN Dead(p) ELSE proc[p]]
    PROVE  FdInv'
<1>. TypeOK BY DEF FdInv
<1>1. /\ listener' \in SUBSET Pids /\ conn' \in [Conns -> Connection]
      /\ \A c \in Conns : conn'[c].held = conn[c].held \ P
  BY Closes
<1>2. proc' \in [Pids -> Process] BY Types, Deaths
<1>3. TypeOK' BY <1>1, <1>2 DEF TypeOK, Process, Connection
<1>4. NoFdLeak' BY <1>1 DEF FdInv, NoFdLeak
<1>5. Unserved' BY Deaths DEF FdInv, Unserved
<1>. QED BY <1>3, <1>4, <1>5 DEF FdInv

LEMMA ExitInv ==
    ASSUME FdInv, NEW p \in Pids, Exit(p)
    PROVE  FdInv'
<1>1. proc' = [q \in Pids |-> IF q \in {p} THEN Dead(q) ELSE proc[q]]
  BY Types DEF FdInv, Exit
<1>. QED BY <1>1, Deadly DEF Exit

--------------------------------------------------------------------------------
LEMMA StartInv ==
    ASSUME FdInv, NEW p \in Pids, Start(p)
    PROVE  FdInv'
BY ProcOnly, Types DEF FdInv, Start, Free, At, Nobody, Process, Unserved, Unserving

LEMMA ReapInv ==
    ASSUME FdInv, NEW p \in Pids, Reap(p), UNCHANGED <<listener, conn>>
    PROVE  FdInv'
BY ProcOnly, Types DEF FdInv, Reap, At, Nobody, Process, Unserved, Unserving

LEMMA SigTermInv ==
    ASSUME FdInv, NEW g, SigTerm(g)
    PROVE  FdInv'
<1>1. \A p \in Pids : /\ Term(proc[p]) \in Process
                      /\ Term(proc[p]).conn = proc[p].conn
                      /\ Term(proc[p]).pc \in Unserving => proc[p].pc \in Unserving
  BY Types, SMTT(20), ZenonT(30) DEF FdInv, Term, Process, Unserving
<1>2. proc' \in [Pids -> Process] BY <1>1, Types DEF FdInv, SigTerm
<1>. QED BY <1>1, <1>2, ProcOnly DEF FdInv, SigTerm, Unserved

LEMMA SigKillInv ==
    ASSUME FdInv, NEW g, SigKill(g)
    PROVE  FdInv'
BY Deadly DEF SigKill, Group

LEMMA ClientInv ==
    ASSUME FdInv, NEW c \in Conns, Client(c)
    PROVE  FdInv'
<1>1. conn' \in [Conns -> Connection] /\ \A d \in Conns : conn'[d].held \subseteq conn[d].held
  BY Types DEF FdInv, Client, Fresh, Connection
<1>2. TypeOK' BY <1>1 DEF FdInv, TypeOK, Client, Connection
<1>. QED BY <1>1, <1>2 DEF FdInv, NoFdLeak, Unserved, Client

--------------------------------------------------------------------------------
LEMMA AcceptInv ==
    ASSUME FdInv, NEW p \in Pids, Accept(p)
    PROVE  FdInv'
<1>. PICK c \in Conns : /\ conn' = [conn EXCEPT ![c].state = "open", ![c].held = {p}]
                        /\ proc' = [proc EXCEPT ![p].pc = "fork", ![p].conn = c]
  BY DEF Accept
<1>1. proc \in [Pids -> Process] /\ conn \in [Conns -> Connection] BY Types DEF FdInv
<1>2. proc' \in [Pids -> Process] /\ conn' \in [Conns -> Connection]
  <2>1. [proc[p] EXCEPT !.pc = "fork", !.conn = c] \in Process BY <1>1 DEF Process
  <2>2. [conn[c] EXCEPT !.state = "open", !.held = {p}] \in Connection BY <1>1 DEF Connection
  <2>3. proc' = [proc EXCEPT ![p] = [proc[p] EXCEPT !.pc = "fork", !.conn = c]] BY <1>1
  <2>4. conn' = [conn EXCEPT ![c] = [conn[c] EXCEPT !.state = "open", !.held = {p}]] BY <1>1
  <2>. QED BY <1>1, <2>1, <2>2, <2>3, <2>4
<1>3. TypeOK' BY <1>2 DEF FdInv, TypeOK, Accept, Process, Connection
<1>4. \A d \in Conns : p \notin conn[d].held
  BY HttpAssumption DEF FdInv, NoFdLeak, Unserved, Unserving, Accept, At
<1>5. NoFdLeak' BY <1>1, <1>4 DEF FdInv, NoFdLeak, Process, Connection
<1>6. Unserved' BY <1>1 DEF FdInv, Unserved, Unserving, Process
<1>. QED BY <1>3, <1>5, <1>6 DEF FdInv

LEMMA ForkInv ==
    ASSUME FdInv, NEW p \in Pids, Fork(p)
    PROVE  FdInv'
<1>1. proc \in [Pids -> Process] /\ conn \in [Conns -> Connection] BY Types DEF FdInv
<1>2. CASE Goto(p, "close") /\ UNCHANGED <<listener, conn>>
  BY <1>1, <1>2, ProcOnly DEF Goto, Process, Unserving
<1>3. ASSUME NEW q \in Pids, Free(q),
             proc' = [proc EXCEPT ![p].pc = "close", ![q] = [proc[p] EXCEPT !.pc = "child"]],
             conn' = [conn EXCEPT ![proc[p].conn].held = @ \cup {q}],
             listener' = listener \cup {q}
      PROVE  FdInv'
  <2>1. p # q BY <1>3 DEF Fork, Free, At
  <2>2. proc' \in [Pids -> Process] /\ conn' \in [Conns -> Connection]
    <3>1. [proc[p] EXCEPT !.pc = "close"] \in Process /\ [proc[p] EXCEPT !.pc = "child"] \in Process
      BY <1>1 DEF Process
    <3>2. proc' \in [Pids -> Process] BY <1>1, <1>3, <3>1
    <3>3. conn' \in [Conns -> Connection] BY <1>1, <1>3 DEF Connection
    <3>. QED BY <3>2, <3>3
  <2>3. TypeOK' BY <1>3, <2>2 DEF FdInv, TypeOK, Process, Connection
  <2>4. \A d \in Conns : q \notin conn[d].held
    BY <1>3, HttpAssumption DEF FdInv, NoFdLeak, Unserved, Unserving, Free, At
  <2>5. \A r \in Pids \ {q} : proc'[r].conn = proc[r].conn
    BY <1>1, <1>3 DEF Process
  <2>6. proc'[q].conn = proc[p].conn BY <1>1, <1>3, <2>1 DEF Process
  <2>7. \A d \in Conns : conn'[d].held = IF d = proc[p].conn THEN conn[d].held \cup {q}
                                                             ELSE conn[d].held
    BY <1>1, <1>3 DEF Connection
  <2>8. NoFdLeak' BY <2>4, <2>5, <2>6, <2>7, SMTT(20), ZenonT(30) DEF FdInv, NoFdLeak
  <2>9. Unserved' BY <1>1, <1>3, <2>1 DEF FdInv, Unserved, Unserving, Process
  <2>. QED BY <2>3, <2>8, <2>9 DEF FdInv
<1>. QED BY <1>2, <1>3 DEF Fork

LEMMA CloseConnInv ==
    ASSUME FdInv, NEW p \in Pids, CloseConn(p)
    PROVE  FdInv'
<1>1. proc \in [Pids -> Process] /\ conn \in [Conns -> Connection] BY Types DEF FdInv
<1>2. proc' \in [Pids -> Process] /\ conn' \in [Conns -> Connection]
  <2>1. [proc[p] EXCEPT !.pc = "loop", !.conn = NoConn] \in Process BY <1>1 DEF Process
  <2>2. proc' = [proc EXCEPT ![p] = [proc[p] EXCEPT !.pc = "loop", !.conn = NoConn]]
    BY <1>1 DEF CloseConn
  <2>3. conn' \in [Conns -> Connection] BY <1>1 DEF CloseConn, Connection
  <2>. QED BY <1>1, <2>1, <2>2, <2>3
<1>3. TypeOK' BY <1>2 DEF FdInv, TypeOK, CloseConn, Process, Connection
<1>4. \A d \in Conns : p \notin conn'[d].held /\ conn'[d].held \subseteq conn[d].held
  BY <1>1 DEF FdInv, NoFdLeak, CloseConn, Connection
<1>5. \A r \in Pids \ {p} : proc'[r] = proc[r] BY <1>1 DEF CloseConn
<1>6. NoFdLeak' BY <1>4, <1>5 DEF FdInv, NoFdLeak
<1>7. Unserved' BY <1>1, <1>5 DEF FdInv, Unserved, CloseConn, Process
<1>. QED BY <1>3, <1>6, <1>7 DEF FdInv

LEMMA ServerInv ==
    ASSUME FdInv, NEW p \in Pids, ServerStep(p)
    PROVE  FdInv'
<1>. proc \in [Pids -> Process] BY Types DEF FdInv
<1>1. CASE Install(p)
  BY <1>1, ProcOnly DEF FdInv, Install, At, Goto, Process, Unserved, Unserving
<1>2. CASE Listen(p)
  <2>1. CASE Exit(p) BY <2>1, ExitInv
  <2>2. CASE listener' = {p} /\ Goto(p, "loop") /\ UNCHANGED conn
    <3>1. proc' \in [Pids -> Process] BY <2>2 DEF Goto, Process
    <3>2. TypeOK' BY <2>2, <3>1 DEF FdInv, TypeOK, Process
    <3>3. \A q \in Pids : proc'[q].conn = proc[q].conn BY <2>2 DEF Goto, Process
    <3>4. NoFdLeak' BY <2>2, <3>3 DEF FdInv, NoFdLeak
    <3>5. Unserved'
      BY <1>2, <2>2 DEF FdInv, Unserved, Unserving, Listen, At, Goto, Process
    <3>. QED BY <3>2, <3>4, <3>5 DEF FdInv
  <2>. QED BY <1>2, <2>1, <2>2 DEF Listen
<1>3. CASE Loop(p)
  BY <1>3, ProcOnly DEF FdInv, Loop, At, Goto, Process, Unserved, Unserving
<1>4. CASE Accept(p) BY <1>4, AcceptInv
<1>5. CASE Block(p)
  BY <1>5, ProcOnly DEF FdInv, Block, At, Goto, Process, Unserved, Unserving
<1>6. CASE Fork(p) BY <1>6, ForkInv
<1>7. CASE CloseConn(p) BY <1>7, CloseConnInv
<1>8. CASE Stop(p) BY <1>8, ExitInv DEF Stop
<1>. QED BY <1>1, <1>2, <1>3, <1>4, <1>5, <1>6, <1>7, <1>8 DEF ServerStep

LEMMA FailInv ==
    ASSUME FdInv, NEW p \in Pids, Fail(p)
    PROVE  FdInv'
<1>. proc \in [Pids -> Process] BY Types DEF FdInv
<1>. QED BY ProcOnly DEF FdInv, Fail, At, Goto, Process, Unserved, Unserving

LEMMA ChildInv ==
    ASSUME FdInv, NEW q \in Pids, ChildStep(q)
    PROVE  FdInv'
<1>. proc \in [Pids -> Process] BY Types DEF FdInv
<1>1. CASE CloseListener(q)
  <2>1. /\ listener' \in SUBSET Pids /\ conn' \in [Conns -> Connection]
        /\ \A c \in Conns : conn'[c].held = conn[c].held
    BY <1>1, Unlistens DEF FdInv, CloseListener
  <2>2. proc' \in [Pids -> Process] BY <1>1 DEF CloseListener, Goto, Process
  <2>3. TypeOK' BY <2>1, <2>2 DEF TypeOK, Process, Connection
  <2>4. \A p \in Pids : proc'[p].conn = proc[p].conn BY <1>1 DEF CloseListener, Goto, Process
  <2>5. NoFdLeak' BY <2>1, <2>4 DEF FdInv, NoFdLeak
  <2>6. Unserved' BY <1>1 DEF FdInv, Unserved, Unserving, CloseListener, Goto, Process
  <2>. QED BY <2>3, <2>5, <2>6 DEF FdInv
<1>2. CASE Recv(q) BY <1>2, ProcOnly DEF Recv, At, Goto, Process, Unserving
<1>3. CASE Send(q) BY <1>3, ProcOnly DEF Send, At, Goto, Process, Unserving
<1>4. CASE Bye(q) BY <1>4, ExitInv DEF Bye
<1>. QED BY <1>1, <1>2, <1>3, <1>4 DEF ChildStep

--------------------------------------------------------------------------------
LEMMA FdInit == Init => FdInv
BY DEF Init, Nobody, Fresh, FdInv, TypeOK, NoFdLeak, Unserved

LEMMA FdNext == FdInv /\ [Next]_vars => FdInv'
<1>. SUFFICES ASSUME FdInv, [Next]_vars PROVE FdInv' OBVIOUS
<1>1. ASSUME NEW p \in Pids, Terminal(p) PROVE FdInv'
  BY <1>1, StartInv, SigTermInv, ReapInv DEF Terminal
<1>2. CASE UNCHANGED vars
  BY <1>2 DEF vars, FdInv, TypeOK, NoFdLeak, Unserved
<1>. QED BY <1>1, <1>2, ServerInv, ChildInv, FailInv, ClientInv DEF Next

(* Every variable of the server demo has its type in every reachable state. *)
THEOREM HttpTypes == Spec => []TypeOK
<1>1. FdInv => TypeOK BY DEF FdInv
<1>. QED BY <1>1, FdInit, FdNext, PTL DEF Spec

(* No descriptor leaks, for any number of processes and clients: accept, fork, *)
(* the parent's close of client_fd and the end of a process, by whatever way,  *)
(* leave each process with the connection it serves and no other.              *)
THEOREM NoLeak == Spec => []NoFdLeak
<1>1. FdInv => NoFdLeak BY DEF FdInv
<1>. QED BY <1>1, FdInit, FdNext, PTL DEF Spec

================================================================================
