------------------------ MODULE SocketSupervisorProofs ------------------------
(* Proofs about SocketSupervisor, for any number of threads, of processes and  *)
(* of clients: the lock is held by the thread in a with block, the GUI does    *)
(* not lose track of a server, and a stop leaves none.                         *)
EXTENDS SocketSupervisor, HttpServerProofs

(* A thread about to start a server has seen to it that there is none. *)
Cleared == h[Main] # "gone" => \A w \in Workers : h[w] = "popen" => process = NoPid

(* The daemon threads end with the main thread. *)
AllGone == h[Main] = "gone" => \A w \in Workers : h[w] = "gone"

(* Tracked is not inductive: Popen overwrites socket_demo_process, which loses *)
(* a server unless Cleared; and Cleared needs the lock of SupTypeOK, for only  *)
(* another thread in the with block could have started a server meanwhile.     *)
SupInv == FdInv /\ SupTypeOK /\ Tracked /\ Cleared /\ AllGone

Places == Inside \cup {"serving", "idle", "start", "stop", "closing", "gone"}

--------------------------------------------------------------------------------
(* Nothing but Start makes a leader: a forked child joins its parent's group,  *)
(* and its number is one no group has.                                         *)
LEMMA ServerLeaders ==
    ASSUME FdInv, NEW p \in Pids, ServerStep(p) \/ ChildStep(p) \/ Fail(p),
           NEW q \in Pids, Leader(q)'
    PROVE  Leader(q)
<1>. proc \in [Pids -> Process] BY Types DEF FdInv
<1>1. CASE Exit(p) BY <1>1, HttpAssumption DEF Exit, Dead, Leader, Nobody, Process
<1>2. ASSUME NEW pc, Goto(p, pc) PROVE Leader(q) BY <1>2 DEF Goto, Leader, Process
<1>3. CASE Accept(p) BY <1>3 DEF Accept, Leader, Process
<1>4. CASE CloseConn(p) BY <1>4 DEF CloseConn, Leader, Process
<1>5. CASE Fork(p)
  <2>1. ASSUME NEW r \in Pids, Free(r),
               proc' = [proc EXCEPT ![p].pc = "close", ![r] = [proc[p] EXCEPT !.pc = "child"]]
        PROVE  Leader(q)
    <3>1. CASE q = r BY <2>1, <3>1 DEF Free, Leader, Process
    <3>2. CASE q # r BY <2>1, <3>2 DEF Leader, Process
    <3>. QED BY <3>1, <3>2
  <2>. QED BY <1>2, <1>5, <2>1 DEF Fork
<1>6. CASE Listen(p) BY <1>1, <1>2, <1>6 DEF Listen
<1>7. CASE Recv(p) BY <1>2, <1>7 DEF Recv
<1>8. CASE Install(p) \/ Loop(p) \/ Block(p) \/ Fail(p) \/ CloseListener(p) \/ Send(p)
  BY <1>2, <1>8 DEF Install, Loop, Block, Fail, CloseListener, Send
<1>9. CASE Stop(p) \/ Bye(p) BY <1>1, <1>9 DEF Stop, Bye
<1>. QED BY <1>3, <1>4, <1>5, <1>6, <1>7, <1>8, <1>9 DEF ServerStep, ChildStep

LEMMA SignalLeaders ==
    ASSUME FdInv, NEW g, SigTerm(g) \/ SigKill(g), NEW q \in Pids, Leader(q)'
    PROVE  Leader(q)
<1>. proc \in [Pids -> Process] BY Types DEF FdInv
<1>1. CASE SigTerm(g)
  <2>1. Term(proc[q]).leader = proc[q].leader BY DEF Term, Process
  <2>. QED BY <1>1, <2>1 DEF SigTerm, Leader
<1>2. CASE SigKill(g) BY <1>2, HttpAssumption DEF SigKill, Dead, Leader, Nobody, Process
<1>. QED BY <1>1, <1>2

(* The poll that finds the server dead, or no server, leaves no leader. *)
LEMMA Forgets ==
    ASSUME FdInv, process \in Pids \cup {NoPid}, {p \in Pids : Leader(p)} \subseteq {process},
           Forget
    PROVE  /\ FdInv' /\ process' = NoPid
           /\ {p \in Pids : Leader(p)'} = {}
<1>. proc \in [Pids -> Process] BY Types DEF FdInv
<1>1. CASE process = NoPid
  <2>1. UNCHANGED vars /\ process' = NoPid BY <1>1 DEF Forget
  <2>2. FdInv' BY <2>1 DEF vars, FdInv, TypeOK, NoFdLeak, Unserved
  <2>. QED BY <1>1, <2>1, <2>2, HttpAssumption DEF vars, Leader
<1>2. CASE process # NoPid
  <2>1. process \in Pids /\ Reap(process) /\ UNCHANGED <<listener, conn>> /\ process' = NoPid
    BY <1>2 DEF Forget
  <2>2. FdInv' BY <2>1, ReapInv
  <2>3. proc' = [proc EXCEPT ![process] = Nobody] BY <2>1 DEF Reap
  <2>4. \A q \in Pids : ~Leader(q)' BY <2>1, <2>3, HttpAssumption DEF Leader, Nobody, Process
  <2>. QED BY <2>1, <2>2, <2>4
<1>. QED BY <1>1, <1>2

--------------------------------------------------------------------------------
(* A thread moves on: within the with block or outside it, into it when the    *)
(* lock is free, or out of it.                                                 *)
LEMMA Turn ==
    ASSUME SupTypeOK, AllGone, NEW w \in Workers, h[w] # "gone",
           NEW pc \in Places \ {"gone"}, To(w, pc), process' \in Pids \cup {NoPid},
           \/ UNCHANGED lock /\ (h[w] \in Inside <=> pc \in Inside)
           \/ lock = NoWorker /\ lock' = w /\ pc \in Inside
           \/ h[w] \in Inside /\ lock' = NoWorker /\ pc \notin Inside
    PROVE  /\ SupTypeOK' /\ AllGone'
           /\ h[Main] # "gone" /\ h'[Main] # "gone"
           /\ h'[w] = pc /\ \A v \in Workers \ {w} : h'[v] = h[v]
<1>1. Main \in Workers /\ NoWorker \notin Workers BY SupervisorAssumption DEF Workers
<1>2. h \in [Workers -> Places] BY DEF SupTypeOK, Places
<1>3. h'[w] = pc /\ \A v \in Workers \ {w} : h'[v] = h[v] BY <1>2 DEF To
<1>4. h' \in [Workers -> Places] BY <1>2 DEF To
<1>5. h[Main] # "gone" /\ h'[Main] # "gone" BY <1>1, <1>3 DEF AllGone
<1>6. \A v \in Workers : lock = v <=> h[v] \in Inside BY <1>5 DEF SupTypeOK
<1>7. \A v \in Workers : lock' = v <=> h'[v] \in Inside BY <1>1, <1>3, <1>6
<1>8. lock' \in Workers \cup {NoWorker} BY DEF SupTypeOK
<1>9. SupTypeOK' BY <1>4, <1>7, <1>8 DEF SupTypeOK, Places
<1>. QED BY <1>3, <1>5, <1>9 DEF AllGone

(* Where an action that replies leads to. *)
LEMMA Replies ==
    ASSUME NEW w \in Workers, Reply(w)
    PROVE  \E pc \in {"idle", "closing"} : To(w, pc)
BY DEF Reply

(* Actions that leave no server to track, and those that start none. *)
LEMMA NoneLeft ==
    ASSUME SupInv, NEW w \in Workers, FdInv', SupTypeOK', AllGone',
           process' = NoPid, {p \in Pids : Leader(p)'} = {}
    PROVE  SupInv'
BY DEF SupInv, Tracked, Cleared

LEMMA NoneAdded ==
    ASSUME SupInv, FdInv', SupTypeOK', AllGone', h[Main] # "gone" \/ h'[Main] = "gone",
           UNCHANGED process, \A q \in Pids : Leader(q)' => Leader(q),
           \A w \in Workers : h'[w] = "popen" => h[w] = "popen"
    PROVE  SupInv'
BY DEF SupInv, Tracked, Cleared

LEMMA VarsSame ==
    ASSUME FdInv, UNCHANGED vars
    PROVE  FdInv' /\ \A q \in Pids : Leader(q)' => Leader(q)
BY DEF vars, FdInv, TypeOK, NoFdLeak, Unserved, Leader

LEMMA GuiSame ==
    ASSUME SupInv, UNCHANGED gui, FdInv', \A q \in Pids : Leader(q)' => Leader(q)
    PROVE  SupInv'
BY DEF gui, SupInv, SupTypeOK, Tracked, Cleared, AllGone

--------------------------------------------------------------------------------
LEMMA ActInv ==
    ASSUME SupInv, NEW w \in Workers, Act(w)
    PROVE  SupInv'
<1>. FdInv /\ SupTypeOK /\ Tracked /\ Cleared /\ AllGone BY DEF SupInv
<1>. Main \in Workers /\ NoWorker \notin Workers BY SupervisorAssumption DEF Workers
<1>0. h[w] # "gone"
  BY DEF Act, NoBinary, StartCheck, Popen, StartPoll, StopCheck, Kill, Wait, Timeout
<1>a. h[Main] # "gone" BY <1>0 DEF AllGone
<1>b. process \in Pids \cup {NoPid} /\ {p \in Pids : Leader(p)} \subseteq {process}
  BY <1>a DEF SupTypeOK, Tracked
<1>1. CASE NoBinary(w)
  <2>1. PICK pc \in {"idle", "closing"} : To(w, pc) BY <1>1, Replies DEF NoBinary
  <2>2. /\ SupTypeOK' /\ AllGone' /\ h'[w] = pc /\ \A v \in Workers \ {w} : h'[v] = h[v]
    BY <1>0, <1>1, <1>b, <2>1, Turn DEF NoBinary, Inside, Places
  <2>. QED BY <1>1, <1>a, <2>2, VarsSame, NoneAdded DEF NoBinary
<1>2. CASE StartCheck(w)
  <2>1. CASE Running /\ Reply(w) /\ UNCHANGED <<vars, lock, process>>
    <3>1. PICK pc \in {"idle", "closing"} : To(w, pc) BY <2>1, Replies
    <3>2. /\ SupTypeOK' /\ AllGone' /\ h'[w] = pc /\ \A v \in Workers \ {w} : h'[v] = h[v]
      BY <1>0, <1>2, <1>b, <2>1, <3>1, Turn DEF StartCheck, Inside, Places
    <3>. QED BY <1>a, <2>1, <3>2, VarsSame, NoneAdded
  <2>2. CASE To(w, "popen") /\ lock' = w /\ Forget
    <3>1. FdInv' /\ process' = NoPid /\ {p \in Pids : Leader(p)'} = {} BY <1>b, <2>2, Forgets
    <3>2. SupTypeOK' /\ AllGone'
      BY <1>0, <1>2, <2>2, <3>1, Turn DEF StartCheck, Unlocked, Inside, Places
    <3>. QED BY <3>1, <3>2, NoneLeft
  <2>. QED BY <1>2, <2>1, <2>2 DEF StartCheck
<1>3. CASE Popen(w)
  <2>1. CASE Leave(w) /\ UNCHANGED <<vars, process>>
    <3>1. PICK pc \in {"idle", "closing"} : To(w, pc) BY <2>1, Replies DEF Leave
    <3>2. /\ SupTypeOK' /\ AllGone' /\ h'[w] = pc /\ \A v \in Workers \ {w} : h'[v] = h[v]
      BY <1>0, <1>3, <1>b, <2>1, <3>1, Turn DEF Popen, Leave, Inside, Places
    <3>. QED BY <1>a, <2>1, <3>2, VarsSame, NoneAdded
  <2>2. ASSUME NEW p \in Pids, Start(p), process' = p, To(w, "sleep"), UNCHANGED lock
        PROVE  SupInv'
    <3>1. FdInv' BY <2>2, StartInv
    <3>2. /\ SupTypeOK' /\ AllGone' /\ h'[w] = "sleep" /\ \A v \in Workers \ {w} : h'[v] = h[v]
      BY <1>0, <1>3, <2>2, Turn DEF Popen, Inside, Places
    <3>3. \A v \in Workers : h'[v] # "popen"
      BY <1>3, <1>a, <3>2 DEF Popen, SupTypeOK, Inside
    <3>4. process = NoPid BY <1>3, <1>a DEF Popen, Cleared
    <3>5. \A q \in Pids : Leader(q)' => q = p
      <4>1. proc \in [Pids -> Process] BY Types DEF FdInv
      <4>2. \A q \in Pids : ~Leader(q) BY <1>b, <3>4, HttpAssumption
      <4>. QED BY <2>2, <4>1, <4>2 DEF Start, Leader
    <3>6. Tracked' /\ Cleared' BY <2>2, <3>3, <3>5 DEF Tracked, Cleared
    <3>. QED BY <3>1, <3>2, <3>6 DEF SupInv
  <2>. QED BY <1>3, <2>1, <2>2 DEF Popen
<1>4. CASE StartPoll(w)
  <2>1. PICK pc \in {"idle", "closing"} : To(w, pc) BY <1>4, Replies DEF StartPoll, Leave
  <2>2. CASE UNCHANGED <<vars, process>>
    <3>1. /\ SupTypeOK' /\ AllGone' /\ h'[w] = pc /\ \A v \in Workers \ {w} : h'[v] = h[v]
      BY <1>0, <1>4, <1>b, <2>1, <2>2, Turn DEF StartPoll, Leave, Inside, Places
    <3>. QED BY <1>a, <2>2, <3>1, VarsSame, NoneAdded
  <2>3. CASE Forget
    <3>1. FdInv' /\ process' = NoPid /\ {p \in Pids : Leader(p)'} = {} BY <1>b, <2>3, Forgets
    <3>2. SupTypeOK' /\ AllGone'
      BY <1>0, <1>4, <2>1, <3>1, Turn DEF StartPoll, Leave, Inside, Places
    <3>. QED BY <3>1, <3>2, NoneLeft
  <2>. QED BY <1>4, <2>2, <2>3 DEF StartPoll
<1>5. CASE StopCheck(w)
  <2>1. CASE To(w, "kill") /\ lock' = w /\ UNCHANGED <<vars, process>>
    <3>1. /\ SupTypeOK' /\ AllGone' /\ h'[w] = "kill" /\ \A v \in Workers \ {w} : h'[v] = h[v]
      BY <1>0, <1>5, <1>b, <2>1, Turn DEF StopCheck, Unlocked, Inside, Places
    <3>. QED BY <1>a, <2>1, <3>1, VarsSame, NoneAdded
  <2>2. CASE Reply(w) /\ Forget /\ UNCHANGED lock
    <3>1. PICK pc \in {"idle", "closing"} : To(w, pc) BY <2>2, Replies
    <3>2. FdInv' /\ process' = NoPid /\ {p \in Pids : Leader(p)'} = {} BY <1>b, <2>2, Forgets
    <3>3. SupTypeOK' /\ AllGone'
      BY <1>0, <1>5, <2>2, <3>1, <3>2, Turn DEF StopCheck, Inside, Places
    <3>. QED BY <3>2, <3>3, NoneLeft
  <2>. QED BY <1>5, <2>1, <2>2 DEF StopCheck
<1>6. CASE Kill(w) \/ Timeout(w)
  <2>1. PICK pc \in {"wait", "killed"} : To(w, pc) BY <1>6 DEF Kill, Timeout
  <2>2. UNCHANGED <<lock, process>> /\ h[w] \in Inside BY <1>6 DEF Kill, Timeout, Inside
  <2>3. /\ SupTypeOK' /\ AllGone' /\ h'[w] = pc /\ \A v \in Workers \ {w} : h'[v] = h[v]
    BY <1>0, <1>b, <2>1, <2>2, Turn DEF Inside, Places
  <2>4. FdInv' /\ \A q \in Pids : Leader(q)' => Leader(q)
    BY <1>6, SigTermInv, SigKillInv, SignalLeaders DEF Kill, Timeout
  <2>. QED BY <1>a, <2>2, <2>3, <2>4, NoneAdded
<1>7. CASE Wait(w)
  <2>1. PICK pc \in {"idle", "closing"} : To(w, pc) BY <1>7, Replies DEF Wait, Leave
  <2>2. FdInv' /\ process' = NoPid /\ {p \in Pids : Leader(p)'} = {}
    BY <1>7, <1>b, Forgets DEF Wait
  <2>3. SupTypeOK' /\ AllGone'
    BY <1>0, <1>7, <2>1, <2>2, Turn DEF Wait, Leave, Inside, Places
  <2>. QED BY <2>2, <2>3, NoneLeft
<1>. QED BY <1>1, <1>2, <1>3, <1>4, <1>5, <1>6, <1>7 DEF Act

--------------------------------------------------------------------------------
LEMMA SupInitInv == SupInit => SupInv
BY FdInit, SupervisorAssumption, HttpAssumption
   DEF SupInit, SupInv, SupTypeOK, Tracked, Cleared, AllGone, Init, Nobody, Leader, Workers, Inside

LEMMA SupNextInv == SupInv /\ [SupNext]_all => SupInv'
<1>. SUFFICES ASSUME SupInv, [SupNext]_all PROVE SupInv' OBVIOUS
<1>. FdInv /\ SupTypeOK /\ Tracked /\ Cleared /\ AllGone BY DEF SupInv
<1>. Main \in Workers BY DEF Workers
<1>1. ASSUME NEW w \in Workers, Request(w) PROVE SupInv'
  <2>1. PICK op \in {"start", "stop"} : To(w, op) BY <1>1 DEF Request
  <2>2. h[w] = "idle" /\ UNCHANGED <<vars, lock, process>> BY <1>1 DEF Request
  <2>3. /\ SupTypeOK' /\ AllGone' /\ h[Main] # "gone"
        /\ h'[w] = op /\ \A v \in Workers \ {w} : h'[v] = h[v]
    BY <2>1, <2>2, Turn DEF SupTypeOK, Inside, Places
  <2>. QED BY <2>2, <2>3, VarsSame, NoneAdded
<1>2. ASSUME NEW w \in Workers, Act(w) PROVE SupInv' BY <1>2, ActInv
<1>3. CASE Shutdown
  <2>1. To(Main, "stop") /\ h[Main] = "serving" /\ UNCHANGED <<vars, lock, process>>
    BY <1>3 DEF Shutdown
  <2>2. /\ SupTypeOK' /\ AllGone' /\ h[Main] # "gone"
        /\ h'[Main] = "stop" /\ \A v \in Workers \ {Main} : h'[v] = h[v]
    BY <2>1, Turn DEF SupTypeOK, Inside, Places
  <2>. QED BY <2>1, <2>2, VarsSame, NoneAdded
<1>4. CASE Quit
  <2>1. UNCHANGED <<vars, lock, process>> /\ \A w \in Workers : h'[w] = "gone" BY <1>4 DEF Quit
  <2>2. SupTypeOK' /\ AllGone' BY <1>4, <2>1 DEF Quit, SupTypeOK, AllGone
  <2>. QED BY <2>1, <2>2, VarsSame, NoneAdded
<1>5. ASSUME NEW p \in Pids, Run(p) \/ Break(p) PROVE SupInv'
  <2>1. FdInv' BY <1>5, ServerInv, ChildInv, FailInv DEF Run, Break
  <2>. QED BY <1>5, <2>1, ServerLeaders, GuiSame DEF Run, Break
<1>6. ASSUME NEW p \in Pids, Adopt(p) PROVE SupInv'
  <2>1. FdInv' BY <1>6, ReapInv DEF Adopt
  <2>2. UNCHANGED gui /\ h[Main] = "gone" BY <1>6 DEF Adopt
  <2>. QED BY <2>1, <2>2 DEF gui, SupInv, SupTypeOK, Tracked, Cleared, AllGone
<1>7. ASSUME NEW c \in Conns, Visit(c) PROVE SupInv'
  <2>1. FdInv' BY <1>7, ClientInv DEF Visit
  <2>2. proc' = proc BY <1>7 DEF Visit, Client
  <2>3. \A q \in Pids : Leader(q)' => Leader(q) BY <2>2 DEF Leader
  <2>. QED BY <1>7, <2>1, <2>3, GuiSame DEF Visit
<1>8. CASE UNCHANGED all BY <1>8, VarsSame, GuiSame DEF all
<1>. QED BY <1>1, <1>2, <1>3, <1>4, <1>5, <1>6, <1>7, <1>8 DEF SupNext

--------------------------------------------------------------------------------
(* The lock is held by the thread inside a with block of action_socket_start   *)
(* or action_socket_stop and by nobody else, whichever way the threads before  *)
(* it left theirs: by a reply, an OSError, a wait or a timeout.                *)
THEOREM SupervisorTypes == SupSpec => []SupTypeOK
<1>1. SupInv => SupTypeOK BY DEF SupInv
<1>. QED BY <1>1, SupInitInv, SupNextInv, PTL DEF SupSpec

(* The GUI tracks the server it started: no interleaving of requests leaves a  *)
(* server behind that socket_demo_process does not name.                       *)
THEOREM ServerTracked == SupSpec => []Tracked
<1>1. SupInv => Tracked BY DEF SupInv
<1>. QED BY <1>1, SupInitInv, SupNextInv, PTL DEF SupSpec

(* A stop that replies leaves no server, whichever way it came to its end. *)
THEOREM StopLeavesNone == SupSpec => StopStops
<1> DEFINE Stops == \A w \in Workers :
                      h[w] \in Stopping /\ h[w]' \in {"idle", "closing"}
                          => \A p \in Pids : ~(Leader(p) /\ Live(p))
<1>1. SupInv /\ [SupNext]_all => [Stops]_all
  <2>. SUFFICES ASSUME SupInv, SupNext, NEW w \in Workers, h[w] \in Stopping,
                       h'[w] \in {"idle", "closing"}, NEW p \in Pids, Leader(p)
                PROVE  ~Live(p)
    OBVIOUS
  <2>1. h[Main] # "gone" BY DEF SupInv, AllGone, Stopping
  <2>2. p = process BY <2>1 DEF SupInv, Tracked
  <2>3. h \in [Workers -> Places] BY DEF SupInv, SupTypeOK, Places
  <2>4. StopCheck(w) \/ Wait(w)
    <3>1. ASSUME NEW v \in Workers, NEW pc, To(v, pc), pc \notin {"idle", "closing"} PROVE FALSE
      BY <2>3, <3>1 DEF To, Stopping
    <3>2. ASSUME NEW v \in Workers, v # w, NEW pc, To(v, pc) PROVE FALSE
      BY <2>3, <3>2 DEF To, Stopping
    <3>3. ASSUME NEW v \in Workers, Reply(v), v # w PROVE FALSE BY <3>2, <3>3 DEF Reply
    <3>4. ASSUME NEW v \in Workers, Act(v) PROVE v = w
      BY <3>1, <3>2, <3>3, <3>4
         DEF Act, NoBinary, StartCheck, Popen, StartPoll, StopCheck, Kill, Wait, Timeout, Leave
    <3>5. ASSUME NEW v \in Workers, Request(v) PROVE FALSE BY <3>1, <3>5 DEF Request
    <3>6. ~Shutdown BY <3>1 DEF Shutdown, Workers
    <3>7. ~Quit BY DEF Quit
    <3>8. UNCHANGED gui => FALSE BY DEF gui, Stopping
    <3>9. Act(w) BY <3>4, <3>5, <3>6, <3>7, <3>8 DEF SupNext, Run, Break, Adopt, Visit
    <3>. QED BY <3>1, <3>9 DEF Act, NoBinary, StartCheck, Popen, StartPoll, Kill, Timeout, Stopping
  <2>5. ~Running
    BY <2>4, <2>3 DEF StopCheck, Wait, To, Stopping
  <2>. QED BY <2>2, <2>5, HttpAssumption DEF Running, At, Live
<1>2. QED BY <1>1, SupInitInv, SupNextInv, PTL DEF SupSpec, StopStops

================================================================================
