--------------------------- MODULE CharDriverProofs ---------------------------
(* What TLAPS proves about CharDriver for any threads, files, minors, buffer   *)
(* size, payloads and calls.                                                   *)
EXTENDS CharDriver, TLAPS

WritePcs == {"w_copy", "w_ready", "w_wake", "w_load", "w_snap", "b_load", "b_copy", "b_size"}

EarlyPcs == {"r_check", "r_wait", "r_prepare", "r_recheck", "r_asleep", "r_load"}

(* What a call in progress knows about its local variables. *)
CallOK(th) ==
    /\ th \in CallType
    /\ th.pc \notin {"idle", "returned"} => th.f \in Files
    /\ th.pc \in WritePcs \cup {"r_copy"} => th.off + th.len <= MY_BUFFER_SIZE
    /\ th.pc \in EarlyPcs => th.k = 0
    /\ th.pc \in {"r_copy", "w_copy"} => th.k <= th.len
    /\ th.pc \in {"w_snap", "b_copy"} => th.k <= th.n
    /\ th.pc \in {"i_clear", "i_size", "i_ready"} => th.len <= MY_BUFFER_SIZE
    /\ th.pc \in {"w_copy", "w_ready", "w_wake", "b_copy", "b_size"} => th.i \in Minors

TypeInv == TypeOK /\ \A t \in Threads : CallOK(thread[t])

(* A thread outside the driver has the type of one inside it. *)
LEMMA RestingType == CallOK(Resting)
BY DriverAssumption DEF CallOK, Resting, CallType, Pcs, WritePcs, EarlyPcs, Minors, Cells, Byte, Blank

LEMMA InitType == Init => TypeInv
<1> SUFFICES ASSUME Init PROVE TypeInv
    OBVIOUS
<1>1. thread \in [Threads -> CallType] /\ \A t \in Threads : CallOK(thread[t])
  BY RestingType DEF Init, CallOK
<1>2. dev \in [Minors -> DevType] /\ file \in [Files -> FileType]
  BY DriverAssumption DEF Init, DevType, FileType, Minors, Cells, Byte, Blank
<1> QED
  BY <1>1, <1>2 DEF TypeInv, TypeOK

(* A step moves one thread to a well-formed record, whatever else it changes. *)
Moves(t) == \E th : CallOK(th) /\ thread' = [thread EXCEPT ![t] = th]

LEMMA OneThread ==
    ASSUME TypeInv, NEW t \in Threads, Moves(t),
           dev' \in [Minors -> DevType], file' \in [Files -> FileType]
    PROVE  TypeInv'
BY DEF TypeInv, TypeOK, CallOK, Moves

(* The ways a step changes a thread's record. *)
LEMMA YieldMoves ==
    ASSUME NEW t \in Threads, NEW r \in Int, NEW b \in [Cells -> Byte], Yield(t, r, b)
    PROVE  Moves(t)
<1> DEFINE th == IF "look" \in Calls[t]
                 THEN [Resting EXCEPT !.pc = "returned", !.ret = r, !.buf = b] ELSE Resting
<1>1. CallOK(th)
  BY RestingType DEF CallOK, CallType, Pcs, WritePcs, EarlyPcs, Resting
<1> QED
  BY <1>1 DEF Yield, Moves

LEMMA ReturnMoves ==
    ASSUME NEW t \in Threads, NEW r \in Int, Return(t, r)
    PROVE  Moves(t)
<1>1. Blank \in [Cells -> Byte]
  BY DEF Blank, Byte
<1> QED
  BY <1>1, YieldMoves DEF Return

LEMMA GotoMoves ==
    ASSUME NEW t \in Threads, NEW p, Goto(t, p), CallOK([thread[t] EXCEPT !.pc = p])
    PROVE  Moves(t)
BY DEF Goto, Moves

LEMMA PutMoves ==
    ASSUME TypeInv, NEW t \in Threads, NEW m, NEW c, NEW b, Put(t, m, c, b),
           thread[t].k < MY_BUFFER_SIZE,
           \/ thread[t].pc = "w_copy" /\ thread[t].k < thread[t].len
           \/ thread[t].pc = "b_copy" /\ thread[t].k # thread[t].n
           \/ thread[t].pc = "i_clear"
    PROVE  Moves(t)
<1> DEFINE th == [thread[t] EXCEPT !.k = @ + 1]
<1>1. CallOK(thread[t]) /\ MY_BUFFER_SIZE \in Nat
  BY DriverAssumption DEF TypeInv
<1>2. CallOK(th)
  BY <1>1 DEF CallOK, CallType, WritePcs, EarlyPcs
<1> QED
  BY <1>2 DEF Put, Moves

LEMMA FetchMoves ==
    ASSUME TypeInv, NEW t \in Threads, NEW c \in Byte, Fetch(t, c),
           \/ thread[t].pc = "r_copy" /\ thread[t].k < thread[t].len
           \/ thread[t].pc = "w_snap" /\ thread[t].k # thread[t].n
    PROVE  Moves(t)
<1> DEFINE k  == thread[t].k
           b  == [thread[t].buf EXCEPT ![k] = c]
           th == [thread[t] EXCEPT !.k = k + 1, !.buf = b]
<1>1. CallOK(thread[t])
  BY DEF TypeInv
<1>2. b \in [Cells -> Byte]
  BY <1>1 DEF CallOK, CallType
<1>3. k + 1 \in 0 .. MY_BUFFER_SIZE
  BY <1>1, DriverAssumption DEF CallOK, CallType, WritePcs
<1>4. thread' = [thread EXCEPT ![t] = th]
  BY <1>1 DEF Fetch, CallOK, CallType
<1> HIDE DEF b
<1>5. th \in CallType
  BY <1>1, <1>2, <1>3 DEF CallOK, CallType
<1>6. th.pc = thread[t].pc /\ th.k = k + 1 /\ th.len = thread[t].len /\ th.n = thread[t].n
      /\ th.off = thread[t].off /\ th.f = thread[t].f
  BY <1>1 DEF CallOK, CallType
<1>7. CallOK(th)
  <2> HIDE DEF th
  <2>1. CASE thread[t].pc = "r_copy"
    BY <1>1, <1>5, <1>6, <2>1 DEF CallOK, CallType, WritePcs, EarlyPcs
  <2>2. CASE thread[t].pc = "w_snap"
    BY <1>1, <1>5, <1>6, <2>2 DEF CallOK, CallType, WritePcs, EarlyPcs
  <2> QED
    BY <2>1, <2>2
<1> QED
  BY <1>4, <1>7 DEF Moves

LEMMA LoadMoves ==
    ASSUME TypeInv, NEW t \in Threads,
           NEW p \in {"w_snap", "b_copy", "b_size"}, LoadSize(t, p),
           thread[t].pc \in WritePcs,
           p # "w_snap" => thread[t].i \in Minors
    PROVE  Moves(t)
<1> DEFINE n  == dev[thread[t].dev].size
           th == [thread[t] EXCEPT !.pc = p, !.k = 0, !.n = n]
<1>1. CallOK(thread[t])
  BY DEF TypeInv
<1>2. n \in 0 .. MY_BUFFER_SIZE
  BY <1>1 DEF TypeInv, TypeOK, DevType, CallOK, CallType
<1>3. thread' = [thread EXCEPT ![t] = th]
  BY DEF LoadSize
<1> HIDE DEF n
<1>4. th \in CallType
  <2>1. p \in Pcs /\ 0 \in 0 .. MY_BUFFER_SIZE
    BY DriverAssumption DEF Pcs
  <2> QED
    BY <1>1, <1>2, <2>1 DEF CallOK, CallType
<1>5. /\ th.pc = p /\ th.k = 0 /\ th.n = n /\ th.i = thread[t].i /\ th.f = thread[t].f
      /\ th.off = thread[t].off /\ th.len = thread[t].len
  BY <1>1 DEF CallOK, CallType
<1>6. CallOK(th)
  <2> HIDE DEF th
  <2> QED
    BY <1>1, <1>2, <1>4, <1>5 DEF CallOK, CallType, WritePcs, EarlyPcs
<1> QED
  BY <1>3, <1>6 DEF Moves

(* The steps that look at shared memory and change only their thread. *)
LEMMA LocalMoves ==
    ASSUME TypeInv, NEW t \in Threads, LocalStep(t)
    PROVE  Moves(t)
<1> DEFINE th == thread[t]
<1>1. CallOK(th)
  BY DEF TypeInv
<1>2. CASE RCheck(t)
  <2>1. CASE Return(t, -EAGAIN)
    BY <2>1, ReturnMoves DEF EAGAIN
  <2>2. CASE Goto(t, "r_wait")
    BY <1>1, <1>2, <2>2, GotoMoves DEF RCheck, At, CallOK, CallType, Pcs, EarlyPcs, WritePcs
  <2> QED
    BY <1>2, <2>1, <2>2 DEF RCheck
<1>3. CASE RWait(t)
  <2>1. CASE Goto(t, "r_load")
    BY <1>1, <1>3, <2>1, GotoMoves DEF RWait, At, CallOK, CallType, Pcs, EarlyPcs, WritePcs
  <2>2. CASE Goto(t, "r_prepare")
    BY <1>1, <1>3, <2>2, GotoMoves DEF RWait, At, CallOK, CallType, Pcs, EarlyPcs, WritePcs
  <2> QED
    BY <1>3, <2>1, <2>2 DEF RWait
<1>4. CASE RAwake(t)
  BY <1>1, <1>4, GotoMoves DEF RAwake, At, CallOK, CallType, Pcs, EarlyPcs, WritePcs
<1>5. CASE RLoad(t)
  <2> DEFINE size == dev[th.dev].size
             len  == Available(th.off, size, th.len)
             new  == [th EXCEPT !.pc = "r_copy", !.len = len]
  <2>1. th.pc = "r_load"
    BY <1>5 DEF RLoad, At
  <2>2. size \in 0 .. MY_BUFFER_SIZE
    BY <1>1 DEF TypeInv, TypeOK, DevType, CallOK, CallType
  <2>3. len \in Nat /\ th.off + len <= MY_BUFFER_SIZE
    BY <1>1, <2>2, DriverAssumption DEF Available, Least, CallOK, CallType
  <2>4. thread' = [thread EXCEPT ![t] = new]
    BY <1>5 DEF RLoad
  <2> HIDE DEF len
  <2>5. new \in CallType
    BY <1>1, <2>3 DEF CallOK, CallType, Pcs
  <2>6. new.pc = "r_copy" /\ new.k = 0 /\ new.len = len /\ new.off = th.off /\ new.f = th.f
    BY <1>1, <2>1 DEF CallOK, CallType, EarlyPcs
  <2>7. th.f \in Files
    BY <1>1, <2>1 DEF CallOK
  <2>8. CallOK(new)
    <3> HIDE DEF new
    <3> QED
      BY <2>3, <2>5, <2>6, <2>7 DEF CallOK, WritePcs, EarlyPcs
  <2> QED
    BY <2>4, <2>8 DEF Moves
<1>6. CASE RCopy(t)
  <2>1. th.pc = "r_copy" /\ th.k < th.len
    BY <1>6 DEF RCopy, At
  <2>2. th.off + th.k \in Cells
    BY <1>1, <2>1, DriverAssumption DEF CallOK, CallType, Cells
  <2>3. dev[th.dev].buffer[th.off + th.k] \in Byte
    BY <1>1, <2>2 DEF TypeInv, TypeOK, DevType, CallOK, CallType
  <2> QED
    BY <1>6, <2>1, <2>3, FetchMoves DEF RCopy
<1>7. CASE RFault(t)
  BY <1>7, ReturnMoves DEF RFault, EFAULT
<1>8. CASE WLoad(t)
  BY <1>8, LoadMoves DEF WLoad, At, WritePcs
<1>9. CASE WSnap(t)
  <2>1. th.pc = "w_snap" /\ th.k # th.n
    BY <1>9 DEF WSnap, At, Copied
  <2>2. th.k \in Cells
    BY <1>1, <2>1, DriverAssumption DEF CallOK, CallType, Cells
  <2>3. dev[th.dev].buffer[th.k] \in Byte
    BY <1>1, <2>2 DEF TypeInv, TypeOK, DevType, CallOK, CallType
  <2> QED
    BY <1>9, <2>1, <2>3, FetchMoves DEF WSnap
<1>10. CASE BLoad(t)
  <2>1. th.pc \in WritePcs /\ th.i \in Minors
    BY <1>1, <1>10, DriverAssumption DEF BLoad, AtLoop, At, WritePcs, CallOK, CallType, Minors
  <2> QED
    BY <1>10, <2>1, LoadMoves DEF BLoad
<1>11. CASE BSize(t)
  <2>1. th.pc \in WritePcs /\ th.i \in Minors
    BY <1>1, <1>11 DEF BSize, At, WritePcs, CallOK
  <2> QED
    BY <1>11, <2>1, LoadMoves DEF BSize
<1> QED
  BY <1>2, <1>3, <1>4, <1>5, <1>6, <1>7, <1>8, <1>9, <1>10, <1>11 DEF LocalStep

(* What the steps store in a device has its type. *)
LEMMA PutDev ==
    ASSUME TypeInv, NEW t \in Threads, NEW m, NEW c, NEW b \in Byte, Put(t, m, c, b)
    PROVE  dev' \in [Minors -> DevType]
<1> DEFINE new == [dev[m] EXCEPT !.buffer = [dev[m].buffer EXCEPT ![c] = b]]
<1>1. CASE m \in Minors
  <2>1. [dev[m].buffer EXCEPT ![c] = b] \in [Cells -> Byte]
    BY <1>1 DEF TypeInv, TypeOK, DevType
  <2>2. new \in DevType
    BY <1>1, <2>1, ZenonT(40) DEF TypeInv, TypeOK, DevType
  <2>3. dev' = [dev EXCEPT ![m] = new]
    BY DEF Put
  <2> QED
    BY <2>2, <2>3 DEF TypeInv, TypeOK
<1>2. CASE m \notin Minors
  BY <1>2 DEF Put, TypeInv, TypeOK
<1> QED
  BY <1>1, <1>2

(* The steps that store into a device. *)
LEMMA StoreMoves ==
    ASSUME TypeInv, NEW t \in Threads, DevStep(t)
    PROVE  Moves(t) /\ dev' \in [Minors -> DevType]
<1> DEFINE th == thread[t]
<1>1. CallOK(th) /\ dev \in [Minors -> DevType]
  BY DEF TypeInv, TypeOK
<1>2. CASE RPrepare(t)
  <2>1. Moves(t)
    BY <1>1, <1>2, GotoMoves DEF RPrepare, At, CallOK, CallType, Pcs, EarlyPcs, WritePcs
  <2>2. dev' \in [Minors -> DevType]
    BY <1>1, <1>2, SMTT(20), ZenonT(30) DEF RPrepare, Enqueue, DevType
  <2> QED
    BY <2>1, <2>2
<1>3. CASE RRecheck(t)
  <2>1. th.pc = "r_recheck"
    BY <1>3 DEF RRecheck, At
  <2>2. CallOK([th EXCEPT !.pc = "r_load"]) /\ CallOK([th EXCEPT !.pc = "r_asleep"])
    BY <1>1, <2>1 DEF CallOK, CallType, Pcs, EarlyPcs, WritePcs
  <2>3. Moves(t)
    BY <1>3, <2>2, GotoMoves DEF RRecheck
  <2>4. dev' \in [Minors -> DevType]
    BY <1>1, <1>3 DEF RRecheck, Dequeue, DevType
  <2> QED
    BY <2>3, <2>4
<1>4. CASE WCopy(t)
  <2>1. th.pc = "w_copy" /\ th.k < th.len /\ th.k < MY_BUFFER_SIZE /\ th.byte \in Byte
    BY <1>1, <1>4, DriverAssumption DEF WCopy, At, CallOK, CallType, WritePcs
  <2> QED
    BY <1>4, <2>1, PutMoves, PutDev DEF WCopy
<1>5. CASE WFault(t)
  <2>1. dev' \in [Minors -> DevType]
    BY <1>1, <1>5, ZenonT(40) DEF WFault, DevType, Byte
  <2> QED
    BY <1>5, <2>1, ReturnMoves DEF WFault, EFAULT
<1>6. CASE WSize(t)
  <2> DEFINE new == [th EXCEPT !.pc = "w_ready", !.byte = 0]
  <2>1. th.pc = "w_copy" /\ th.off + th.len \in 0 .. MY_BUFFER_SIZE
    BY <1>1, <1>6, DriverAssumption DEF WSize, At, CallOK, CallType, WritePcs
  <2>2. CallOK(new)
    BY <1>1, <2>1 DEF CallOK, CallType, WritePcs, EarlyPcs, Pcs, Byte
  <2>3. Moves(t)
    BY <1>6, <2>2 DEF WSize, Moves
  <2>4. dev' \in [Minors -> DevType]
    BY <1>1, <1>6, <2>1, ZenonT(40) DEF WSize, DevType
  <2> QED
    BY <2>3, <2>4
<1>7. CASE WReady(t)
  <2>1. Moves(t)
    BY <1>1, <1>7, GotoMoves DEF WReady, At, CallOK, CallType, Pcs, EarlyPcs, WritePcs
  <2>2. dev' \in [Minors -> DevType]
    BY <1>1, <1>7 DEF WReady, DevType
  <2> QED
    BY <2>1, <2>2
<1>8. CASE WWake(t)
  <2> DEFINE p   == IF th.i = th.dev THEN "w_load" ELSE "b_load"
             j   == IF th.i = th.dev THEN Skip(t, 0) ELSE Skip(t, th.i + 1)
             new == [th EXCEPT !.pc = p, !.i = j]
  <2>1. th.pc = "w_wake"
    BY <1>8 DEF WWake, At
  <2>2. j \in 0 .. MY_MAX_MINORS
    BY <1>1, <2>1, DriverAssumption, SMTT(30) DEF CallOK, CallType, Skip, Minors
  <2>3. thread' = [thread EXCEPT ![t] = new]
    BY <1>8 DEF WWake
  <2> HIDE DEF j
  <2>4. CallOK(new)
    BY <1>1, <2>1, <2>2 DEF CallOK, CallType, WritePcs, EarlyPcs, Pcs
  <2>5. dev' \in [Minors -> DevType]
    BY <1>1, <1>8 DEF WWake, Wake, DevType
  <2> QED
    BY <2>3, <2>4, <2>5 DEF Moves
<1>9. CASE BCopy(t)
  <2>1. th.pc = "b_copy" /\ th.k # th.n /\ th.k \in Cells
    BY <1>1, <1>9, DriverAssumption DEF BCopy, At, Copied, CallOK, CallType, Cells
  <2>2. th.buf[th.k] \in Byte /\ th.k < MY_BUFFER_SIZE
    BY <1>1, <2>1, DriverAssumption DEF CallOK, CallType, Cells
  <2> QED
    BY <1>9, <2>1, <2>2, PutMoves, PutDev DEF BCopy
<1>10. CASE BStore(t)
  <2> DEFINE new == [th EXCEPT !.pc = "w_ready", !.n = 0]
  <2>1. th.pc = "b_size" /\ new \in CallType
    <3>1. "w_ready" \in Pcs /\ 0 \in 0 .. MY_BUFFER_SIZE
      BY DriverAssumption DEF Pcs
    <3>2. th.pc = "b_size"
      BY <1>10 DEF BStore, At
    <3> QED
      BY <1>1, <3>1, <3>2 DEF CallOK, CallType
  <2>2. /\ new.pc = "w_ready" /\ new.i = th.i /\ new.f = th.f /\ new.off = th.off
        /\ new.len = th.len
    BY <1>1 DEF CallOK, CallType
  <2>3. CallOK(new)
    <3> HIDE DEF new
    <3> QED
      BY <1>1, <2>1, <2>2 DEF CallOK, WritePcs, EarlyPcs
  <2>4. Moves(t)
    BY <1>10, <2>3 DEF BStore, Moves
  <2>5. dev' \in [Minors -> DevType]
    BY <1>1, <1>10, ZenonT(40) DEF BStore, DevType, CallOK, CallType
  <2> QED
    BY <2>4, <2>5
<1>11. CASE IClear(t)
  BY <1>11, PutMoves, PutDev DEF IClear, At, Byte
<1>12. CASE ISize(t)
  <2>1. th.pc \in {"i_size", "i_clear"} /\ th.len \in 0 .. MY_BUFFER_SIZE
    BY <1>1, <1>12, DriverAssumption DEF ISize, At, CallOK, CallType
  <2>2. CallOK([th EXCEPT !.pc = "i_ready"])
    BY <1>1, <2>1 DEF CallOK, CallType, WritePcs, EarlyPcs, Pcs
  <2>3. dev' \in [Minors -> DevType]
    BY <1>1, <1>12, <2>1 DEF ISize, DevType
  <2> QED
    BY <1>12, <2>2, <2>3, GotoMoves DEF ISize
<1>13. CASE IReady(t)
  <2>1. dev' \in [Minors -> DevType]
    BY <1>1, <1>13, ZenonT(40) DEF IReady, DevType
  <2> QED
    BY <1>13, <2>1, ReturnMoves DEF IReady
<1> QED
  BY <1>2, <1>3, <1>4, <1>5, <1>6, <1>7, <1>8, <1>9, <1>10, <1>11, <1>12, <1>13 DEF DevStep

(* The steps that store a file position. *)
LEMMA FileMoves ==
    ASSUME TypeInv, NEW t \in Threads, FileStep(t)
    PROVE  Moves(t) /\ file' \in [Files -> FileType]
<1> DEFINE th == thread[t]
<1>1. CallOK(th) /\ file \in [Files -> FileType]
  BY DEF TypeInv, TypeOK
<1>2. CASE RCommit(t)
  <2>1. th.buf \in [Cells -> Byte] /\ th.len \in Int /\ th.off + th.len \in 0 .. MY_BUFFER_SIZE
    BY <1>1, <1>2, DriverAssumption DEF RCommit, At, CallOK, CallType
  <2>2. Moves(t)
    BY <1>2, <2>1, YieldMoves DEF RCommit
  <2>3. file' \in [Files -> FileType]
    BY <1>1, <1>2, <2>1 DEF RCommit, FileType
  <2> QED
    BY <2>2, <2>3
<1>3. CASE WCommit(t)
  <2>1. th.len \in Int /\ th.off + th.len \in 0 .. MY_BUFFER_SIZE
    BY <1>1, <1>3, DriverAssumption DEF WCommit, AtLoop, At, WritePcs, CallOK, CallType
  <2>2. file' \in [Files -> FileType]
    BY <1>1, <1>3, <2>1 DEF WCommit, FileType
  <2> QED
    BY <1>3, <2>1, <2>2, ReturnMoves DEF WCommit
<1>4. CASE SStore(t)
  <2>1. th.off \in 0 .. MY_BUFFER_SIZE
    BY <1>1 DEF CallOK, CallType
  <2>2. file' \in [Files -> FileType]
    BY <1>1, <1>4, <2>1 DEF SStore, FileType
  <2>3. th.off \in Int
    BY <2>1, DriverAssumption
  <2> QED
    BY <1>4, <2>2, <2>3, ReturnMoves DEF SStore
<1> QED
  BY <1>2, <1>3, <1>4 DEF FileStep

(* The calls that enter the driver. *)
LEMMA EnterMoves ==
    ASSUME TypeInv, NEW t \in Threads, NEW f \in Files, NEW p, NEW off, NEW len, NEW b \in Byte,
           Enter(t, f, p, off, len, b), off \in 0 .. MY_BUFFER_SIZE, len \in Nat,
           \/ p = "r_check"
           \/ p = "w_copy" /\ off + len <= MY_BUFFER_SIZE
           \/ p \in {"i_clear", "i_size"} /\ len <= MY_BUFFER_SIZE
           \/ p = "s_store"
    PROVE  Moves(t)
<1> DEFINE m   == file[f].minor
           new == [Resting EXCEPT !.pc = p, !.f = f, !.dev = m, !.off = off, !.len = len,
                                  !.byte = b, !.i = m]
<1>1. m \in Minors /\ m \in 0 .. MY_MAX_MINORS
  BY DriverAssumption DEF TypeInv, TypeOK, FileType, Minors
<1>2. thread' = [thread EXCEPT ![t] = new]
  BY DEF Enter
<1> HIDE DEF m
<1>3. new \in CallType
  BY <1>1, RestingType DEF CallOK, CallType, Pcs
<1>4. /\ new.pc = p /\ new.f = f /\ new.off = off /\ new.len = len /\ new.i = m
      /\ new.k = 0 /\ new.n = 0
  BY DEF Resting
<1>5. CallOK(new)
  <2> HIDE DEF new
  <2> QED
    BY <1>1, <1>3, <1>4 DEF CallOK, WritePcs, EarlyPcs
<1> QED
  BY <1>2, <1>5 DEF Moves

LEMMA CallMoves ==
    ASSUME TypeInv, NEW t \in Threads, Call(t)
    PROVE  Moves(t)
<1>1. PICK f \in Files :
          \/ \E count \in Counts : Read(t, f, count)
          \/ \E count \in Counts, byte \in Bytes : Write(t, f, count, byte)
          \/ Reset(t, f)
          \/ \E v \in -1 .. MY_BUFFER_SIZE + 1 : SetSize(t, f, v)
          \/ \E whence \in {"SEEK_SET", "SEEK_CUR", "SEEK_END"},
                offset \in -MY_BUFFER_SIZE .. MY_BUFFER_SIZE : Seek(t, f, whence, offset)
  BY DEF Call
<1> USE DriverAssumption
<1>2. file[f].pos \in 0 .. MY_BUFFER_SIZE /\ 0 \in Byte
  BY DEF TypeInv, TypeOK, FileType, Byte
<1>3. CASE \E count \in Counts : Read(t, f, count)
  BY <1>2, <1>3, EnterMoves DEF Read
<1>4. ASSUME NEW count \in Counts, NEW byte \in Bytes, Write(t, f, count, byte)
      PROVE  Moves(t)
  <2> DEFINE len == Least(count, Room(file[f].pos))
  <2>1. CASE file[f].pos >= MY_BUFFER_SIZE
    BY <1>4, <2>1, ReturnMoves DEF Write, ENOSPC
  <2>2. CASE file[f].pos < MY_BUFFER_SIZE
    <3>1. len \in Nat /\ file[f].pos + len <= MY_BUFFER_SIZE
      BY <1>2, <2>2 DEF Least, Room
    <3>2. Enter(t, f, "w_copy", file[f].pos, len, byte)
      BY <1>2, <1>4, <2>2 DEF Write
    <3> QED
      BY <1>2, <3>1, <3>2, EnterMoves DEF Byte
  <2> QED
    BY <1>2, <2>1, <2>2
<1>5. CASE Reset(t, f)
  BY <1>2, <1>5, EnterMoves DEF Reset
<1>6. ASSUME NEW v \in -1 .. MY_BUFFER_SIZE + 1, SetSize(t, f, v)
      PROVE  Moves(t)
  <2>1. CASE Return(t, -EFAULT) \/ Return(t, -EINVAL)
    BY <2>1, ReturnMoves DEF EFAULT, EINVAL
  <2>2. CASE SizeOk(v) /\ Enter(t, f, "i_size", 0, v, 0)
    BY <1>2, <2>2, EnterMoves DEF SizeOk
  <2> QED
    BY <1>6, <2>1, <2>2 DEF SetSize
<1>7. ASSUME NEW whence \in {"SEEK_SET", "SEEK_CUR", "SEEK_END"},
             NEW offset \in -MY_BUFFER_SIZE .. MY_BUFFER_SIZE, Seek(t, f, whence, offset)
      PROVE  Moves(t)
  <2> DEFINE new == Base(f, whence) + offset
  <2>1. Base(f, whence) \in Int
    BY DEF Base, TypeInv, TypeOK, FileType, DevType
  <2>2. CASE ~SizeOk(new)
    BY <1>7, <2>2, ReturnMoves DEF Seek, EINVAL
  <2>3. CASE SizeOk(new)
    <3>1. new \in 0 .. MY_BUFFER_SIZE
      BY <2>1, <2>3 DEF SizeOk
    <3>2. Enter(t, f, "s_store", new, 0, 0)
      BY <1>7, <2>3 DEF Seek
    <3> QED
      BY <1>2, <3>1, <3>2, EnterMoves
  <2> QED
    BY <2>2, <2>3
<1> QED
  BY <1>1, <1>3, <1>4, <1>5, <1>6, <1>7

(* Opening and closing. *)
LEMMA DropType ==
    ASSUME TypeInv, NEW f \in Files, Drop(f)
    PROVE  dev' \in [Minors -> DevType] /\ file' \in [Files -> FileType]
<1>1. dev \in [Minors -> DevType] /\ file \in [Files -> FileType]
  BY DEF TypeInv, TypeOK
<1>2. file[f].minor \in Minors
  BY <1>1 DEF FileType
<1>3. [dev[file[f].minor] EXCEPT !.access = 0] \in DevType
  BY <1>1, <1>2 DEF DevType
<1>4. dev' \in [Minors -> DevType]
  BY <1>1, <1>2, <1>3 DEF Drop
<1>5. [file[f] EXCEPT !.state = "closed"] \in FileType
  BY <1>1 DEF FileType
<1>6. file' \in [Files -> FileType]
  BY <1>1, <1>5 DEF Drop
<1> QED
  BY <1>4, <1>6

LEMMA OpenCloseMoves ==
    ASSUME TypeInv, NEW t \in Threads, OpenClose(t)
    PROVE  Moves(t) /\ dev' \in [Minors -> DevType] /\ file' \in [Files -> FileType]
<1>1. ASSUME NEW f \in Files, NEW m \in Minors, NEW nb \in BOOLEAN, Open(t, f, m, nb)
      PROVE  Moves(t) /\ dev' \in [Minors -> DevType] /\ file' \in [Files -> FileType]
  <2>1. Moves(t)
    BY <1>1, ReturnMoves DEF Open, EBUSY
  <2>2. dev' = dev \/ dev' = [dev EXCEPT ![m].access = 1]
    BY <1>1 DEF Open
  <2>3. dev' \in [Minors -> DevType]
    BY <2>2, ZenonT(40) DEF TypeInv, TypeOK, DevType
  <2>4. file' \in [Files -> FileType]
    BY <1>1, DriverAssumption DEF Open, TypeInv, TypeOK, FileType
  <2> QED
    BY <2>1, <2>3, <2>4
<1>2. ASSUME NEW f \in Files, Close(t, f)
      PROVE  Moves(t) /\ dev' \in [Minors -> DevType] /\ file' \in [Files -> FileType]
  <2>1. Moves(t)
    BY <1>2, ReturnMoves DEF Close
  <2>2. CASE Drop(f)
    BY <2>1, <2>2, DropType
  <2>3. CASE file' = [file EXCEPT ![f].state = "closing"] /\ UNCHANGED dev
    BY <2>1, <2>3 DEF TypeInv, TypeOK, FileType
  <2> QED
    BY <1>2, <2>2, <2>3 DEF Close
<1> QED
  BY <1>1, <1>2 DEF OpenClose

LEMMA SignalMoves ==
    ASSUME TypeInv, NEW t \in Threads, Signal(t)
    PROVE  Moves(t) /\ dev' \in [Minors -> DevType]
<1>1. dev' \in [Minors -> DevType]
  BY SMTT(20), ZenonT(30) DEF Signal, Interrupt, Dequeue, TypeInv, TypeOK, DevType
<1>2. CallOK(thread[t]) /\ thread[t].pc = "r_asleep"
  BY DEF Signal, Interrupt, At, TypeInv
<1>3. CallOK([thread[t] EXCEPT !.pc = "r_load"])
  BY <1>2 DEF CallOK, CallType, Pcs, EarlyPcs, WritePcs
<1>4. Moves(t)
  BY <1>3, GotoMoves, ReturnMoves DEF Signal, Interrupt, ERESTARTSYS
<1> QED
  BY <1>1, <1>4

(* Every step keeps the types and the bounds. *)
LEMMA NextType == TypeInv /\ [Next]_vars => TypeInv'
<1> SUFFICES ASSUME TypeInv, [Next]_vars PROVE TypeInv'
    OBVIOUS
<1>1. dev \in [Minors -> DevType] /\ file \in [Files -> FileType]
  BY DEF TypeInv, TypeOK
<1>2. ASSUME NEW t \in Threads, OpenClose(t) PROVE TypeInv'
  BY <1>2, OpenCloseMoves, OneThread
<1>3. ASSUME NEW t \in Threads, Call(t) PROVE TypeInv'
  BY <1>1, <1>3, CallMoves, OneThread DEF Call
<1>4. ASSUME NEW t \in Threads, Back(t) PROVE TypeInv'
  BY <1>1, <1>4, RestingType, OneThread DEF Back, Moves
<1>5. ASSUME NEW t \in Threads, LocalStep(t) PROVE TypeInv'
  BY <1>1, <1>5, LocalMoves, OneThread DEF LocalStep
<1>6. ASSUME NEW t \in Threads, DevStep(t) PROVE TypeInv'
  BY <1>1, <1>6, StoreMoves, OneThread DEF DevStep
<1>7. ASSUME NEW t \in Threads, FileStep(t) PROVE TypeInv'
  BY <1>1, <1>7, FileMoves, OneThread DEF FileStep
<1>8. ASSUME NEW t \in Threads, Signal(t) PROVE TypeInv'
  BY <1>1, <1>8, SignalMoves, OneThread DEF Signal
<1>9. ASSUME NEW f \in Files, Release(f) PROVE TypeInv'
  BY <1>9, DropType DEF Release, TypeInv, TypeOK
<1>10. CASE UNCHANGED vars
  BY <1>10 DEF vars, TypeInv, TypeOK
<1> QED
  BY <1>2, <1>3, <1>4, <1>5, <1>6, <1>7, <1>8, <1>9, <1>10 DEF Next, KernelStep

LEMMA AlwaysTyped == Spec => []TypeInv
<1> QED
  BY InitType, NextType, PTL DEF Spec

(* TypeOK for every number of threads, files and minors and every buffer size: *)
(* sizes and file positions never leave 0..MY_BUFFER_SIZE.                     *)
THEOREM TypeCorrect == Spec => []TypeOK
<1>1. TypeInv => TypeOK
  BY DEF TypeInv
<1> QED
  BY <1>1, AlwaysTyped, PTL

(* No copy of my_read, my_write or its broadcast leaves a device buffer or tmp.*)
THEOREM CopiesInBounds == Spec => []CopyInBounds
<1>1. TypeInv => CopyInBounds
  <2> SUFFICES ASSUME TypeInv, NEW t \in Threads
               PROVE  LET th == thread[t] IN
                      /\ At(t, "r_copy") \/ At(t, "w_copy") => th.off + th.len <= MY_BUFFER_SIZE
                      /\ At(t, "w_snap") \/ At(t, "b_copy")
                            => th.k <= th.n /\ th.n <= MY_BUFFER_SIZE
    BY DEF CopyInBounds
  <2>1. CallOK(thread[t])
    BY DEF TypeInv
  <2> QED
    BY <2>1, DriverAssumption DEF CallOK, CallType, At, WritePcs
<1> QED
  BY <1>1, AlwaysTyped, PTL

--------------------------------------------------------------------------------
(* Exclusive open.  The invariant behind it: an open file has access set on    *)
(* its minor, no two open files share a minor, and a call in the driver holds  *)
(* a file that is not closed and works on that file's minor.                   *)
Holds(f) == file[f].state # "closed"
Exclusive ==
    /\ \A f \in Files : Holds(f) => dev[file[f].minor].access # 0
    /\ \A f, g \in Files : Holds(f) /\ Holds(g) /\ file[f].minor = file[g].minor => f = g
    /\ \A t \in Threads : InCall(t) =>
          Holds(thread[t].f) /\ file[thread[t].f].minor = thread[t].dev

(* A step inside calls: nobody opens or closes, and calls keep their file. *)
SameAccess == \A m \in Minors : dev'[m].access = dev[m].access
SameFiles  == \A f \in Files : file'[f].state = file[f].state /\ file'[f].minor = file[f].minor
SameCall(t) == InCall(t)' => InCall(t) /\ thread'[t].f = thread[t].f
                                       /\ thread'[t].dev = thread[t].dev
SameCalls  == \A t \in Threads : SameCall(t)

LEMMA OneCall ==
    ASSUME TypeInv, NEW t \in Threads, Moves(t), SameCall(t)
    PROVE  SameCalls
BY DEF SameCalls, SameCall, Moves, TypeInv, TypeOK, InCall

LEMMA YieldCall ==
    ASSUME TypeInv, NEW t \in Threads, NEW r, NEW b, Yield(t, r, b)
    PROVE  SameCall(t)
BY DEF Yield, SameCall, InCall, Resting, TypeInv, TypeOK

LEMMA ReturnCall ==
    ASSUME TypeInv, NEW t \in Threads, NEW r, Return(t, r)
    PROVE  SameCall(t)
BY YieldCall DEF Return

LEMMA GotoCall ==
    ASSUME TypeInv, NEW t \in Threads, NEW p, Goto(t, p), InCall(t)
    PROVE  SameCall(t)
BY DEF Goto, SameCall, InCall, TypeInv, TypeOK, CallType

LEMMA CountCall ==
    ASSUME TypeInv, NEW t \in Threads, InCall(t),
           \/ \E c : Fetch(t, c)
           \/ \E m, c, b : Put(t, m, c, b)
           \/ \E p : LoadSize(t, p)
    PROVE  SameCall(t)
<1>1. thread[t] \in CallType
  BY DEF TypeInv, TypeOK
<1>2. CASE \E c : Fetch(t, c)
  BY <1>1, <1>2, ZenonT(40) DEF Fetch, SameCall, InCall, TypeInv, TypeOK, CallType
<1>3. CASE \E m, c, b : Put(t, m, c, b)
  BY <1>1, <1>3 DEF Put, SameCall, InCall, TypeInv, TypeOK, CallType
<1>4. CASE \E p : LoadSize(t, p)
  BY <1>1, <1>4, ZenonT(40) DEF LoadSize, SameCall, InCall, TypeInv, TypeOK, CallType
<1> QED
  BY <1>2, <1>3, <1>4

LEMMA KernelCall ==
    ASSUME TypeInv, NEW t \in Threads, KernelStep(t) \/ Signal(t)
    PROVE  SameCall(t)
<1>1. thread[t] \in CallType
  BY DEF TypeInv, TypeOK
<1>2. InCall(t)
  BY DEF KernelStep, LocalStep, DevStep, FileStep, Signal, InCall, At, AtLoop,
         RCheck, RWait, RAwake, RLoad, RCopy, RFault, WLoad, WSnap, BLoad, BSize,
         RPrepare, RRecheck, WCopy, WFault, WSize, WReady, WWake, BCopy, BStore,
         IClear, ISize, IReady, RCommit, WCommit, SStore, Interrupt
<1>3. CASE RCheck(t) \/ RWait(t) \/ RAwake(t) \/ RPrepare(t) \/ RRecheck(t) \/ Signal(t)
  BY <1>2, <1>3, GotoCall, ReturnCall
     DEF RCheck, RWait, RAwake, RPrepare, RRecheck, Signal, Interrupt
<1>4. CASE RCopy(t) \/ WSnap(t) \/ WLoad(t) \/ BLoad(t) \/ BSize(t)
           \/ WCopy(t) \/ BCopy(t) \/ IClear(t)
  BY <1>2, <1>4, CountCall DEF RCopy, WSnap, WLoad, BLoad, BSize, WCopy, BCopy, IClear
<1>5. CASE RFault(t) \/ WFault(t) \/ IReady(t) \/ RCommit(t) \/ WCommit(t) \/ SStore(t)
  BY <1>5, ReturnCall, YieldCall DEF RFault, WFault, IReady, RCommit, WCommit, SStore
<1>6. CASE WReady(t) \/ ISize(t)
  BY <1>2, <1>6, GotoCall DEF WReady, ISize
<1>7. CASE RLoad(t)
  BY <1>1, <1>2, <1>7 DEF RLoad, SameCall, InCall, TypeInv, TypeOK, CallType
<1>8. CASE WSize(t)
  BY <1>1, <1>2, <1>8 DEF WSize, SameCall, InCall, TypeInv, TypeOK, CallType
<1>9. CASE WWake(t)
  BY <1>1, <1>2, <1>9 DEF WWake, SameCall, InCall, TypeInv, TypeOK, CallType
<1>10. CASE BStore(t)
  BY <1>1, <1>2, <1>10 DEF BStore, SameCall, InCall, TypeInv, TypeOK, CallType
<1> QED
  BY <1>3, <1>4, <1>5, <1>6, <1>7, <1>8, <1>9, <1>10 DEF KernelStep, LocalStep, DevStep, FileStep

LEMMA KernelFrame ==
    ASSUME TypeInv, NEW t \in Threads, KernelStep(t) \/ Signal(t)
    PROVE  SameAccess /\ SameFiles
<1>1. dev \in [Minors -> DevType] /\ file \in [Files -> FileType]
  BY DEF TypeInv, TypeOK
<1>2. CASE LocalStep(t)
  BY <1>2 DEF LocalStep, SameAccess, SameFiles
<1>3. CASE FileStep(t)
  BY <1>1, <1>3 DEF FileStep, RCommit, WCommit, SStore, SameAccess, SameFiles, FileType
<1>4. CASE DevStep(t) \/ Signal(t)
  <2>1. SameFiles
    <3>1. file' = file
      BY <1>4 DEF DevStep, Signal
    <3> QED
      BY <3>1 DEF SameFiles
  <2>2. SameAccess
    <3> SUFFICES ASSUME NEW o \in Minors PROVE dev'[o].access = dev[o].access
      BY DEF SameAccess
    <3>1. dev[o] \in DevType
      BY <1>1
    <3>2. CASE RPrepare(t)
      BY <1>1, <3>1, <3>2 DEF RPrepare, Enqueue, DevType
    <3>3. CASE RRecheck(t)
      BY <1>1, <3>1, <3>3 DEF RRecheck, Dequeue, DevType
    <3>4. CASE Signal(t)
      BY <1>1, <3>1, <3>4 DEF Signal, Interrupt, Dequeue, DevType
    <3>5. CASE WCopy(t)
      BY <1>1, <3>1, <3>5 DEF WCopy, Put, DevType
    <3>6. CASE BCopy(t)
      BY <1>1, <3>1, <3>6 DEF BCopy, Put, DevType
    <3>7. CASE IClear(t)
      BY <1>1, <3>1, <3>7 DEF IClear, Put, DevType
    <3>8. CASE WFault(t)
      BY <1>1, <3>1, <3>8 DEF WFault, DevType
    <3>9. CASE WSize(t)
      BY <1>1, <3>1, <3>9 DEF WSize, DevType
    <3>10. CASE ISize(t)
      BY <1>1, <3>1, <3>10 DEF ISize, DevType
    <3>11. CASE BStore(t)
      BY <1>1, <3>1, <3>11 DEF BStore, DevType
    <3>12. CASE WReady(t)
      BY <1>1, <3>1, <3>12 DEF WReady, DevType
    <3>13. CASE IReady(t)
      BY <1>1, <3>1, <3>13 DEF IReady, DevType
    <3>14. CASE WWake(t)
      BY <1>1, <3>1, <3>14 DEF WWake, Wake, DevType
    <3> QED
      BY <1>4, <3>2, <3>3, <3>4, <3>5, <3>6, <3>7, <3>8, <3>9, <3>10, <3>11, <3>12, <3>13, <3>14 DEF DevStep
  <2> QED
    BY <2>1, <2>2
<1> QED
  BY <1>2, <1>3, <1>4 DEF KernelStep

LEMMA SameExclusive ==
    ASSUME TypeInv, Exclusive, SameAccess, SameFiles, SameCalls
    PROVE  Exclusive'
<1>1. \A f \in Files : file[f].minor \in Minors
  BY DEF TypeInv, TypeOK, FileType
<1>2. \A t \in Threads : InCall(t) => thread[t].f \in Files
  BY DEF TypeInv, CallOK, InCall
<1>3. \A f \in Files : Holds(f)' <=> Holds(f)
  BY DEF SameFiles, Holds
<1>4. (\A f \in Files : Holds(f) => dev[file[f].minor].access # 0)'
  BY <1>1, <1>3 DEF Exclusive, SameAccess, SameFiles
<1>5. (\A f, g \in Files : Holds(f) /\ Holds(g) /\ file[f].minor = file[g].minor => f = g)'
  BY <1>3 DEF Exclusive, SameFiles
<1>6. (\A t \in Threads : InCall(t) =>
          Holds(thread[t].f) /\ file[thread[t].f].minor = thread[t].dev)'
  BY <1>2, <1>3 DEF Exclusive, SameFiles, SameCalls, SameCall
<1> QED
  BY <1>4, <1>5, <1>6 DEF Exclusive

(* The last reference goes: nobody is in a call on the file. *)
LEMMA DropExclusive ==
    ASSUME TypeInv, Exclusive, NEW f \in Files, Holds(f), ~Busy(f), Drop(f), SameCalls
    PROVE  Exclusive'
<1>1. dev \in [Minors -> DevType] /\ file \in [Files -> FileType]
  BY DEF TypeInv, TypeOK
<1>2. \A g \in Files : /\ file'[g].minor = file[g].minor
                       /\ Holds(g)' <=> (Holds(g) /\ g # f)
  BY <1>1 DEF Drop, Holds, FileType
<1>3. \A g \in Files : g # f /\ Holds(g) => file[g].minor # file[f].minor
  BY DEF Exclusive
<1>4. \A m \in Minors : m # file[f].minor => dev'[m].access = dev[m].access
  BY <1>1 DEF Drop
<1>5. \A g \in Files : file[g].minor \in Minors
  BY <1>1 DEF FileType
<1>6. (\A g \in Files : Holds(g) => dev[file[g].minor].access # 0)'
  BY <1>2, <1>3, <1>4, <1>5 DEF Exclusive
<1>7. (\A g, h \in Files : Holds(g) /\ Holds(h) /\ file[g].minor = file[h].minor => g = h)'
  BY <1>2 DEF Exclusive
<1>8. \A t \in Threads : InCall(t) => thread[t].f \in Files /\ thread[t].f # f
  BY DEF TypeInv, CallOK, InCall, Busy
<1>9. (\A t \in Threads : InCall(t) =>
          Holds(thread[t].f) /\ file[thread[t].f].minor = thread[t].dev)'
  BY <1>2, <1>8 DEF Exclusive, SameCalls, SameCall
<1> QED
  BY <1>6, <1>7, <1>9 DEF Exclusive

LEMMA OpenExclusive ==
    ASSUME TypeInv, Exclusive, NEW t \in Threads, NEW f \in Files, NEW m \in Minors,
           NEW nb \in BOOLEAN, Open(t, f, m, nb), SameCalls
    PROVE  Exclusive'
<1>1. dev \in [Minors -> DevType] /\ file \in [Files -> FileType]
  BY DEF TypeInv, TypeOK
<1>2. CASE UNCHANGED <<dev, file>>
  BY <1>2, SameExclusive DEF SameAccess, SameFiles
<1>3. CASE dev[m].access = 0 /\ ~Holds(f) /\ dev' = [dev EXCEPT ![m].access = 1]
           /\ file' = [file EXCEPT ![f] = [state |-> "open", minor |-> m, pos |-> 0,
                                           nonblock |-> nb]]
  <2>1. \A g \in Files : Holds(g) => file[g].minor # m
    BY <1>3 DEF Exclusive
  <2>2. \A g \in Files : g # f => file'[g] = file[g]
    BY <1>1, <1>3
  <2>3. Holds(f)' /\ file'[f].minor = m
    BY <1>1, <1>3 DEF Holds
  <2>4. dev'[m].access = 1 /\ \A o \in Minors : o # m => dev'[o].access = dev[o].access
    BY <1>1, <1>3 DEF DevType
  <2>5. \A g \in Files : file[g].minor \in Minors
    BY <1>1 DEF FileType
  <2>6. (\A g \in Files : Holds(g) => dev[file[g].minor].access # 0)'
    BY <2>1, <2>2, <2>3, <2>4, <2>5 DEF Exclusive, Holds
  <2>7. (\A g, h \in Files : Holds(g) /\ Holds(h) /\ file[g].minor = file[h].minor => g = h)'
    BY <2>1, <2>2, <2>3 DEF Exclusive, Holds
  <2>8. \A u \in Threads : InCall(u) => thread[u].f \in Files /\ thread[u].f # f
    BY <1>3 DEF TypeInv, CallOK, InCall, Exclusive
  <2>9. (\A u \in Threads : InCall(u) =>
            Holds(thread[u].f) /\ file[thread[u].f].minor = thread[u].dev)'
    BY <2>2, <2>8 DEF Exclusive, SameCalls, SameCall, Holds
  <2> QED
    BY <2>6, <2>7, <2>9 DEF Exclusive
<1> QED
  BY <1>2, <1>3 DEF Open, Holds

(* A thread that enters holds an open file and works on its minor. *)
LEMMA EnterExclusive ==
    ASSUME TypeInv, Exclusive, NEW t \in Threads, NEW f \in Files, file[f].state = "open",
           UNCHANGED <<dev, file>>,
           \/ \E p, off, len, b : Enter(t, f, p, off, len, b)
           \/ \E r : Return(t, r)
    PROVE  Exclusive'
<1>1. CASE \E r : Return(t, r)
  <2>1. SameCall(t)
    BY <1>1, ReturnCall
  <2>2. \A u \in Threads : u # t => thread'[u] = thread[u]
    BY <1>1 DEF Return, Yield, TypeInv, TypeOK
  <2>3. SameCalls
    BY <2>1, <2>2 DEF SameCalls, SameCall, InCall
  <2> QED
    BY <2>3, SameExclusive DEF SameAccess, SameFiles
<1>2. CASE \E p, off, len, b : Enter(t, f, p, off, len, b)
  <2>1. thread'[t].f = f /\ thread'[t].dev = file[f].minor
    BY <1>2, ZenonT(40) DEF Enter, Resting, TypeInv, TypeOK
  <2>2. \A u \in Threads : u # t => thread'[u] = thread[u]
    BY <1>2 DEF Enter, TypeInv, TypeOK
  <2>3. (\A u \in Threads : InCall(u) =>
            Holds(thread[u].f) /\ file[thread[u].f].minor = thread[u].dev)'
    BY <2>1, <2>2 DEF Exclusive, Holds, InCall
  <2>4. (\A g \in Files : Holds(g) => dev[file[g].minor].access # 0)'
        /\ (\A g, h \in Files : Holds(g) /\ Holds(h) /\ file[g].minor = file[h].minor => g = h)'
    BY DEF Exclusive, Holds
  <2> QED
    BY <2>3, <2>4 DEF Exclusive
<1> QED
  BY <1>1, <1>2

LEMMA NextExclusive == TypeInv /\ Exclusive /\ [Next]_vars => Exclusive'
<1> SUFFICES ASSUME TypeInv, Exclusive, [Next]_vars PROVE Exclusive'
    OBVIOUS
<1>1. ASSUME NEW t \in Threads, OpenClose(t) PROVE Exclusive'
  <2>1. SameCalls
    <3>1. \E r : Return(t, r)
      BY <1>1 DEF OpenClose, Open, Close
    <3>2. SameCall(t)
      BY <3>1, ReturnCall
    <3> QED
      BY <1>1, <3>2, OneCall, OpenCloseMoves
  <2>2. ASSUME NEW f \in Files, Close(t, f) PROVE Exclusive'
    <3>1. CASE Busy(f)
      <4>1. SameAccess /\ \A g \in Files : Holds(g)' = Holds(g) /\ file'[g].minor = file[g].minor
        BY <2>2, <3>1 DEF Close, CanUse, SameAccess, Holds, TypeInv, TypeOK, FileType
      <4>2. \A u \in Threads : InCall(u) => thread[u].f \in Files
        BY DEF TypeInv, CallOK, InCall
      <4>3. \A g \in Files : file[g].minor \in Minors
        BY DEF TypeInv, TypeOK, FileType
      <4> QED
        BY <2>1, <4>1, <4>2, <4>3 DEF Exclusive, SameAccess, SameCalls, SameCall
    <3>2. CASE ~Busy(f)
      BY <2>1, <2>2, <3>2, DropExclusive DEF Close, CanUse, Holds
    <3> QED
      BY <3>1, <3>2
  <2> QED
    BY <1>1, <2>1, <2>2, OpenExclusive DEF OpenClose
<1>2. ASSUME NEW t \in Threads, Call(t) PROVE Exclusive'
  <2>1. UNCHANGED <<dev, file>>
    BY <1>2 DEF Call
  <2>2. \E f \in Files : /\ file[f].state = "open"
                         /\ \/ \E p, off, len, b : Enter(t, f, p, off, len, b)
                            \/ \E r : Return(t, r)
    BY <1>2 DEF Call, Read, Write, Reset, SetSize, Seek, CanUse
  <2> QED
    BY <2>1, <2>2, EnterExclusive
<1>3. ASSUME NEW t \in Threads, Back(t) PROVE Exclusive'
  <2>1. SameCalls
    BY <1>3 DEF Back, Resting, SameCalls, SameCall, InCall, TypeInv, TypeOK
  <2> QED
    BY <1>3, <2>1, SameExclusive DEF Back, SameAccess, SameFiles
<1>4. ASSUME NEW t \in Threads, KernelStep(t) \/ Signal(t) PROVE Exclusive'
  <2>1. TypeInv'
    BY NextType
  <2>2. SameCall(t) /\ SameAccess /\ SameFiles
    BY <1>4, KernelCall, KernelFrame
  <2>3. Moves(t)
    BY <1>4, SignalMoves, LocalMoves, StoreMoves, FileMoves DEF KernelStep
  <2> QED
    BY <2>2, <2>3, OneCall, SameExclusive
<1>5. ASSUME NEW f \in Files, Release(f) PROVE Exclusive'
  <2>1. SameCalls
    BY <1>5 DEF Release, SameCalls, SameCall, InCall
  <2> QED
    BY <1>5, <2>1, DropExclusive DEF Release, Holds
<1>6. CASE UNCHANGED vars
  BY <1>6 DEF vars, Exclusive, Holds, InCall
<1> QED
  BY <1>1, <1>2, <1>3, <1>4, <1>5, <1>6 DEF Next

LEMMA AlwaysExclusive == Spec => [](TypeInv /\ Exclusive)
<1>1. Init => Exclusive
  BY DEF Init, Exclusive, Holds, InCall, Resting
<1> QED
  BY <1>1, InitType, NextType, NextExclusive, PTL DEF Spec

(* A minor is never in the hands of two files at once: the calls that are in   *)
(* the driver on one minor all use the one file that holds it.                 *)
THEOREM OneFile == Spec => []OneFilePerMinor
<1>1. TypeInv /\ Exclusive => OneFilePerMinor
  BY DEF TypeInv, CallOK, InCall, Exclusive, OneFilePerMinor
<1> QED
  BY <1>1, AlwaysExclusive, PTL

--------------------------------------------------------------------------------
(* The driver implements the exclusive lock of MinorLock. *)
LEMMA SameHolders ==
    ASSUME SameFiles
    PROVE  Holders' = Holders
BY DEF Holders, SameFiles

LEMMA DropHolders ==
    ASSUME TypeInv, Exclusive, NEW f \in Files, Holds(f), Drop(f)
    PROVE  Lock!Next
<1> DEFINE m == file[f].minor
<1>1. file \in [Files -> FileType] /\ m \in Minors
  BY DEF TypeInv, TypeOK, FileType
<1>2. \A g \in Files : /\ file'[g].minor = file[g].minor
                       /\ file'[g].state # "closed" <=> file[g].state # "closed" /\ g # f
  BY <1>1 DEF Drop, FileType, Holds
<1>3. f \in Holders[m]
  BY <1>1 DEF Holders, Holds
<1>4. Holders' = [Holders EXCEPT ![m] = @ \ {f}]
  <2>1. \A o \in Minors : Holders'[o] = IF o = m THEN Holders[m] \ {f} ELSE Holders[o]
    BY <1>2 DEF Holders
  <2>2. \A o \in Minors : [Holders EXCEPT ![m] = @ \ {f}][o]
                            = IF o = m THEN Holders[m] \ {f} ELSE Holders[o]
    BY <1>1 DEF Holders
  <2> QED
    BY <1>1, <2>1, <2>2 DEF Holders
<1> QED
  BY <1>1, <1>3, <1>4 DEF Lock!Next, Lock!Release

LEMMA OpenHolders ==
    ASSUME TypeInv, Exclusive, NEW t \in Threads, NEW f \in Files, NEW m \in Minors,
           NEW nb \in BOOLEAN, Open(t, f, m, nb)
    PROVE  Lock!Next \/ UNCHANGED Holders
<1>1. file \in [Files -> FileType]
  BY DEF TypeInv, TypeOK
<1>2. CASE UNCHANGED file
  BY <1>2 DEF Holders
<1>3. CASE dev[m].access = 0 /\ ~Holds(f)
           /\ file' = [file EXCEPT ![f] = [state |-> "open", minor |-> m, pos |-> 0,
                                           nonblock |-> nb]]
  <2>1. Holders[m] = {}
    BY <1>3 DEF Exclusive, Holders, Holds
  <2>2. \A o \in Minors : f \notin Holders[o]
    BY <1>3 DEF Holders, Holds
  <2>3. \A g \in Files : file'[g] = IF g = f THEN [state |-> "open", minor |-> m, pos |-> 0,
                                                    nonblock |-> nb] ELSE file[g]
    BY <1>1, <1>3
  <2>4. \A o \in Minors : Holders'[o] = IF o = m THEN {f} ELSE Holders[o]
    <3> SUFFICES ASSUME NEW o \in Minors
                 PROVE  Holders'[o] = IF o = m THEN {f} ELSE Holders[o]
        OBVIOUS
    <3>1. Holders'[o] = {g \in Files : file'[g].state # "closed" /\ file'[g].minor = o}
      BY DEF Holders
    <3>2. Holders[o] = {g \in Files : file[g].state # "closed" /\ file[g].minor = o}
      BY DEF Holders
    <3>3. CASE o = m
      BY <2>1, <2>3, <3>1, <3>2, <3>3
    <3>4. CASE o # m
      BY <1>3, <2>3, <3>1, <3>2, <3>4 DEF Holds
    <3> QED
      BY <3>3, <3>4
  <2>5. Holders' = [Holders EXCEPT ![m] = {f}]
    BY <2>4 DEF Holders
  <2> QED
    BY <2>1, <2>2, <2>5 DEF Lock!Next, Lock!Acquire
<1> QED
  BY <1>2, <1>3 DEF Open, Holds

(* access, a compare-and-exchange in my_open and a store in my_release,        *)
(* implements MinorLock: opening is an Acquire, dropping the last reference a  *)
(* Release, and every other step of the driver a stuttering step.              *)
THEOREM ImplementsLock == Spec => LockSpec
<1>1. Init => Lock!Init
  BY DEF Init, Lock!Init, Holders
<1>2. TypeInv /\ Exclusive /\ [Next]_vars => [Lock!Next]_Holders
  <2> SUFFICES ASSUME TypeInv, Exclusive, [Next]_vars
               PROVE  Lock!Next \/ UNCHANGED Holders
      OBVIOUS
  <2>1. ASSUME NEW t \in Threads, OpenClose(t) PROVE Lock!Next \/ UNCHANGED Holders
    <3>1. ASSUME NEW f \in Files, Close(t, f) PROVE Lock!Next \/ UNCHANGED Holders
      <4>1. CASE Busy(f)
        <5>1. \A g \in Files : /\ file'[g].minor = file[g].minor
                               /\ file'[g].state # "closed" <=> file[g].state # "closed"
          BY <3>1, <4>1 DEF Close, CanUse, TypeInv, TypeOK, FileType
        <5> QED
          BY <5>1 DEF Holders
      <4>2. CASE ~Busy(f)
        BY <3>1, <4>2, DropHolders DEF Close, CanUse, Holds
      <4> QED
        BY <4>1, <4>2
    <3> QED
      BY <2>1, <3>1, OpenHolders DEF OpenClose
  <2>2. ASSUME NEW t \in Threads, KernelStep(t) \/ Signal(t) PROVE UNCHANGED Holders
    BY <2>2, KernelFrame, SameHolders
  <2>3. ASSUME NEW t \in Threads, Call(t) \/ Back(t) PROVE UNCHANGED Holders
    BY <2>3 DEF Call, Back, Holders
  <2>4. ASSUME NEW f \in Files, Release(f) PROVE Lock!Next
    BY <2>4, DropHolders DEF Release, Holds
  <2>5. CASE UNCHANGED vars
    BY <2>5 DEF vars, Holders
  <2> QED
    BY <2>1, <2>2, <2>3, <2>4, <2>5 DEF Next
<1> QED
  BY <1>1, <1>2, AlwaysExclusive, PTL DEF Spec, LockSpec, Lock!Spec

--------------------------------------------------------------------------------
(* The wait queue protocol of programs that do not use SETSIZE.                *)
NoSetSize == \A t \in Threads : "setsize" \notin Calls[t]

(* Every ioctl in the driver is then a RESET, and what NoLostWakeup says.      *)
OnlyResets == \A t \in Threads :
    /\ thread[t].pc # "i_size"
    /\ thread[t].pc \in {"i_clear", "i_ready"} => thread[t].len = 0
WakeInv == OnlyResets /\ NoLostWakeup

(* Nobody newly sleeps where data is ready, and no wake-up under way is lost.  *)
Asleep(t) == LET m == thread[t].dev IN
             thread[t].pc = "r_asleep" /\ t \in dev[m].wq /\ dev[m].data_ready # 0
Quiet ==
    /\ \A t \in Threads : Asleep(t)' => Asleep(t) /\ thread'[t].dev = thread[t].dev
    /\ \A t \in Threads : thread[t].pc = "w_wake" =>
          thread'[t].pc = "w_wake" /\ thread'[t].i = thread[t].i

LEMMA QuietKeeps ==
    ASSUME NoLostWakeup, Quiet
    PROVE  NoLostWakeup'
BY DEF NoLostWakeup, Quiet, Asleep, At

Ioctl == {"i_clear", "i_size", "i_ready"}
After(t) ==
    /\ thread'[t].pc = "r_asleep" => ~Ready(t) /\ UNCHANGED dev
                                     /\ thread'[t].dev = thread[t].dev
    /\ thread'[t].pc \in Ioctl =>
          thread[t].pc \in Ioctl /\ thread'[t].pc # "i_size" /\ thread'[t].len = thread[t].len

LEMMA YieldAfter ==
    ASSUME TypeInv, NEW t \in Threads, \E r, b : Yield(t, r, b)
    PROVE  After(t)
BY DEF Yield, Resting, After, Ioctl, TypeInv, TypeOK

LEMMA ReturnAfter ==
    ASSUME TypeInv, NEW t \in Threads, NEW r, Return(t, r)
    PROVE  After(t)
BY YieldAfter DEF Return

LEMMA GotoAfter ==
    ASSUME TypeInv, NEW t \in Threads, NEW p, Goto(t, p),
           p # "r_asleep" /\ p \notin Ioctl
    PROVE  After(t)
BY DEF Goto, After, TypeInv, TypeOK, CallType

LEMMA CopyAfter ==
    ASSUME TypeInv, NEW t \in Threads, thread[t].pc \notin {"r_asleep", "i_size"},
           \/ \E c : Fetch(t, c)
           \/ \E m, c, b : Put(t, m, c, b)
    PROVE  After(t)
<1>1. thread[t] \in CallType
  BY DEF TypeInv, TypeOK
<1>2. CASE \E c : Fetch(t, c)
  BY <1>1, <1>2, ZenonT(40) DEF Fetch, After, Ioctl, TypeInv, TypeOK, CallType
<1>3. CASE \E m, c, b : Put(t, m, c, b)
  BY <1>1, <1>3 DEF Put, After, Ioctl, TypeInv, TypeOK, CallType
<1> QED
  BY <1>2, <1>3

LEMMA LoadAfter ==
    ASSUME TypeInv, NEW t \in Threads, NEW p \in {"w_snap", "b_copy", "b_size"}, LoadSize(t, p)
    PROVE  After(t)
BY DEF LoadSize, After, Ioctl, TypeInv, TypeOK, CallType

LEMMA KernelAfter ==
    ASSUME TypeInv, NEW t \in Threads, KernelStep(t) \/ Signal(t)
    PROVE  After(t)
<1>1. thread[t] \in CallType
  BY DEF TypeInv, TypeOK
<1>2. CASE RCheck(t) \/ RWait(t) \/ RAwake(t) \/ RPrepare(t) \/ Signal(t) \/ WReady(t)
  BY <1>2, GotoAfter, ReturnAfter DEF RCheck, RWait, RAwake, RPrepare, Signal, Interrupt, WReady, Ioctl
<1>3. CASE RCopy(t) \/ WSnap(t) \/ WCopy(t) \/ BCopy(t) \/ IClear(t)
  BY <1>3, CopyAfter DEF RCopy, WSnap, WCopy, BCopy, IClear, At
<1>4. CASE WLoad(t) \/ BLoad(t) \/ BSize(t)
  BY <1>4, LoadAfter DEF WLoad, BLoad, BSize
<1>5. CASE RFault(t) \/ WFault(t) \/ IReady(t) \/ RCommit(t) \/ WCommit(t) \/ SStore(t)
  BY <1>5, ReturnAfter, YieldAfter DEF RFault, WFault, IReady, RCommit, WCommit, SStore
<1>6. CASE RRecheck(t)
  <2>1. CASE Goto(t, "r_load")
    BY <2>1, GotoAfter DEF Ioctl
  <2>2. CASE Goto(t, "r_asleep") /\ ~Ready(t) /\ UNCHANGED dev
    BY <1>1, <2>2 DEF Goto, After, Ioctl, TypeInv, TypeOK, CallType
  <2> QED
    BY <1>6, <2>1, <2>2 DEF RRecheck
<1>7. CASE ISize(t)
  BY <1>1, <1>7 DEF ISize, Goto, At, After, Ioctl, TypeInv, TypeOK, CallType
<1>8. CASE RLoad(t)
  BY <1>1, <1>8 DEF RLoad, After, Ioctl, TypeInv, TypeOK, CallType
<1>9. CASE WSize(t)
  BY <1>1, <1>9 DEF WSize, After, Ioctl, TypeInv, TypeOK, CallType
<1>10. CASE WWake(t)
  BY <1>1, <1>10 DEF WWake, After, Ioctl, TypeInv, TypeOK, CallType
<1>11. CASE BStore(t)
  BY <1>1, <1>11 DEF BStore, After, Ioctl, TypeInv, TypeOK, CallType
<1> QED
  BY <1>2, <1>3, <1>4, <1>5, <1>6, <1>7, <1>8, <1>9, <1>10, <1>11
     DEF KernelStep, LocalStep, DevStep, FileStep

(* Only a queue's own thread joins it, and only WReady makes data ready. *)
Calm(t) == \A m \in Minors : /\ dev'[m].wq \ {t} \subseteq dev[m].wq
                             /\ dev'[m].data_ready # 0 => dev[m].data_ready # 0

LEMMA KernelCalm ==
    ASSUME TypeInv, OnlyResets, NEW t \in Threads, KernelStep(t) \/ Signal(t), ~WReady(t)
    PROVE  Calm(t)
<1> SUFFICES ASSUME NEW m \in Minors
             PROVE  /\ dev'[m].wq \ {t} \subseteq dev[m].wq
                    /\ dev'[m].data_ready # 0 => dev[m].data_ready # 0
    BY DEF Calm
<1>1. dev \in [Minors -> DevType] /\ dev[m] \in DevType
  BY DEF TypeInv, TypeOK
<1>2. CASE LocalStep(t) \/ FileStep(t)
  BY <1>2 DEF LocalStep, FileStep
<1>3. CASE RPrepare(t)
  BY <1>1, <1>3 DEF RPrepare, Enqueue, DevType
<1>4. CASE RRecheck(t)
  BY <1>1, <1>4 DEF RRecheck, Dequeue, DevType
<1>5. CASE Signal(t)
  BY <1>1, <1>5 DEF Signal, Interrupt, Dequeue, DevType
<1>6. CASE WCopy(t)
  BY <1>1, <1>6 DEF WCopy, Put, DevType
<1>7. CASE BCopy(t)
  BY <1>1, <1>7 DEF BCopy, Put, DevType
<1>8. CASE IClear(t)
  BY <1>1, <1>8 DEF IClear, Put, DevType
<1>9. CASE WFault(t)
  BY <1>1, <1>9 DEF WFault, DevType
<1>10. CASE WSize(t)
  BY <1>1, <1>10 DEF WSize, DevType
<1>11. CASE ISize(t)
  BY <1>1, <1>11 DEF ISize, DevType
<1>12. CASE BStore(t)
  BY <1>1, <1>12 DEF BStore, DevType
<1>13. CASE IReady(t)
  BY <1>1, <1>13 DEF IReady, At, OnlyResets, DevType
<1>14. CASE WWake(t)
  BY <1>1, <1>14 DEF WWake, Wake, DevType
<1> QED
  BY <1>2, <1>3, <1>4, <1>5, <1>6, <1>7, <1>8, <1>9, <1>10, <1>11, <1>12, <1>13, <1>14 DEF KernelStep, DevStep

LEMMA CalmQuiet ==
    ASSUME TypeInv, NEW t \in Threads, Moves(t), After(t), Calm(t), thread[t].pc # "w_wake"
    PROVE  Quiet
<1>1. \A u \in Threads : u # t => thread'[u] = thread[u]
  BY DEF Moves, TypeInv, TypeOK
<1>2. \A u \in Threads : thread[u].dev \in Minors
  BY DEF TypeInv, TypeOK, CallType
<1>3. ~Asleep(t)'
  BY DEF After, Asleep, Ready
<1>4. \A u \in Threads : u # t => (Asleep(u)' => Asleep(u) /\ thread'[u].dev = thread[u].dev)
  BY <1>1, <1>2 DEF Calm, Asleep
<1> QED
  BY <1>1, <1>3, <1>4 DEF Quiet

LEMMA WakeWakes ==
    ASSUME TypeInv, NoLostWakeup, NEW t \in Threads, WWake(t), Moves(t), After(t), Calm(t)
    PROVE  NoLostWakeup'
<1> DEFINE i == thread[t].i
<1>1. \A u \in Threads : u # t => thread'[u] = thread[u]
  BY DEF Moves, TypeInv, TypeOK
<1>2. thread[t].pc = "w_wake" /\ i \in Minors
  BY DEF WWake, At, TypeInv, CallOK
<1>3. dev'[i].wq = {}
  BY <1>2 DEF WWake, Wake, TypeInv, TypeOK, DevType
<1>4. ~Asleep(t)'
  BY DEF After, Asleep, Ready
<1>5. ASSUME NEW u \in Threads, Asleep(u)'
      PROVE  \E w \in Threads : thread'[w].pc = "w_wake" /\ thread'[w].i = thread'[u].dev
  <2>1. u # t /\ thread'[u] = thread[u] /\ thread[u].dev \in Minors
    BY <1>1, <1>4, <1>5 DEF TypeInv, TypeOK, CallType
  <2>2. thread[u].dev # i
    BY <1>3, <1>5, <2>1 DEF Asleep
  <2>3. Asleep(u)
    BY <1>5, <2>1 DEF Asleep, Calm
  <2>4. PICK w \in Threads : thread[w].pc = "w_wake" /\ thread[w].i = thread[u].dev
    BY <2>3 DEF NoLostWakeup, Asleep, At
  <2> QED
    BY <1>1, <2>1, <2>2, <2>4
<1> QED
  BY <1>5 DEF NoLostWakeup, Asleep, At

LEMMA ReadyWakes ==
    ASSUME TypeInv, NoLostWakeup, NEW t \in Threads, WReady(t), Moves(t)
    PROVE  NoLostWakeup'
<1> DEFINE i == thread[t].i
<1>1. \A u \in Threads : u # t => thread'[u] = thread[u]
  BY DEF Moves, TypeInv, TypeOK
<1>2. thread[t].pc = "w_ready" /\ thread'[t].pc = "w_wake" /\ thread'[t].i = i
  BY DEF WReady, Goto, At, TypeInv, TypeOK, CallType
<1>3. \A m \in Minors : /\ dev'[m].wq = dev[m].wq
                        /\ m # i => dev'[m].data_ready = dev[m].data_ready
  BY DEF WReady, TypeInv, TypeOK, DevType
<1>4. ASSUME NEW u \in Threads, Asleep(u)'
      PROVE  \E w \in Threads : thread'[w].pc = "w_wake" /\ thread'[w].i = thread'[u].dev
  <2>1. u # t /\ thread'[u] = thread[u] /\ thread[u].dev \in Minors
    BY <1>1, <1>2, <1>4 DEF Asleep, TypeInv, TypeOK, CallType
  <2>2. CASE thread[u].dev = i
    BY <1>2, <2>1, <2>2
  <2>3. CASE thread[u].dev # i
    <3>1. Asleep(u)
      BY <1>3, <1>4, <2>1, <2>3 DEF Asleep
    <3>2. PICK w \in Threads : thread[w].pc = "w_wake" /\ thread[w].i = thread[u].dev
      BY <3>1 DEF NoLostWakeup, Asleep, At
    <3> QED
      BY <1>1, <1>2, <2>1, <3>2
  <2> QED
    BY <2>2, <2>3
<1> QED
  BY <1>4 DEF NoLostWakeup, Asleep, At

LEMMA KernelWake ==
    ASSUME TypeInv, WakeInv, NEW t \in Threads, KernelStep(t) \/ Signal(t)
    PROVE  WakeInv'
<1>1. Moves(t)
  BY SignalMoves, LocalMoves, StoreMoves, FileMoves DEF KernelStep
<1>2. After(t)
  BY KernelAfter
<1>3. \A u \in Threads : u # t => thread'[u] = thread[u]
  BY <1>1 DEF Moves, TypeInv, TypeOK
<1>4. OnlyResets'
  BY <1>2, <1>3 DEF OnlyResets, WakeInv, After, Ioctl
<1>5. CASE WReady(t)
  BY <1>1, <1>4, <1>5, ReadyWakes DEF WakeInv
<1>6. CASE WWake(t)
  <2>1. ~WReady(t)
    BY <1>6 DEF WWake, WReady, At
  <2> QED
    BY <1>1, <1>2, <1>4, <1>6, <2>1, KernelCalm, WakeWakes DEF WakeInv
<1>7. CASE ~WReady(t) /\ ~WWake(t)
  <2>1. thread[t].pc # "w_wake"
    BY <1>7 DEF KernelStep, LocalStep, DevStep, FileStep, Signal, At, AtLoop,
         RCheck, RWait, RAwake, RLoad, RCopy, RFault, WLoad, WSnap, BLoad, BSize,
         RPrepare, RRecheck, WCopy, WFault, WSize, BCopy, BStore,
         IClear, ISize, IReady, RCommit, WCommit, SStore, Interrupt
  <2>2. Quiet
    BY <1>1, <1>2, <1>7, <2>1, KernelCalm, CalmQuiet DEF WakeInv
  <2> QED
    BY <1>4, <2>2, QuietKeeps DEF WakeInv
<1> QED
  BY <1>5, <1>6, <1>7

(* A thread outside the driver neither sleeps nor wakes anybody. *)
LEMMA OutsideWake ==
    ASSUME TypeInv, WakeInv, NEW t \in Threads, ~InCall(t), Moves(t),
           thread'[t].pc \notin {"r_asleep", "i_size", "i_ready"},
           thread'[t].pc = "i_clear" => thread'[t].len = 0,
           \A m \in Minors : dev'[m].wq = dev[m].wq /\ dev'[m].data_ready = dev[m].data_ready
    PROVE  WakeInv'
<1>1. \A u \in Threads : u # t => thread'[u] = thread[u]
  BY DEF Moves, TypeInv, TypeOK
<1>2. \A u \in Threads : thread[u].dev \in Minors
  BY DEF TypeInv, TypeOK, CallType
<1>3. Quiet
  BY <1>1, <1>2 DEF Quiet, Asleep, InCall
<1>4. OnlyResets'
  BY <1>1 DEF OnlyResets, WakeInv
<1> QED
  BY <1>3, <1>4, QuietKeeps DEF WakeInv

LEMMA NextWake == NoSetSize /\ TypeInv /\ WakeInv /\ [Next]_vars => WakeInv'
<1> SUFFICES ASSUME NoSetSize, TypeInv, WakeInv, [Next]_vars PROVE WakeInv'
    OBVIOUS
<1>1. ASSUME NEW t \in Threads, OpenClose(t) PROVE WakeInv'
  <2>1. Moves(t) /\ ~InCall(t)
    BY <1>1, OpenCloseMoves DEF OpenClose, Open, Close, CanUse, CanCall, At, InCall
  <2>2. \E r : Return(t, r)
    BY <1>1 DEF OpenClose, Open, Close
  <2>3. thread'[t].pc \in {"idle", "returned"}
    BY <2>2 DEF Return, Yield, Resting, TypeInv, TypeOK
  <2>4. \A m \in Minors : dev'[m].wq = dev[m].wq /\ dev'[m].data_ready = dev[m].data_ready
    <3>1. \/ UNCHANGED dev
          \/ \E m \in Minors : dev' = [dev EXCEPT ![m].access = 1]
          \/ \E f \in Files : dev' = [dev EXCEPT ![file[f].minor].access = 0]
      BY <1>1 DEF OpenClose, Open, Close, Drop
    <3>2. ASSUME NEW m, NEW a, dev' = [dev EXCEPT ![m].access = a], NEW o \in Minors
          PROVE  dev'[o].wq = dev[o].wq /\ dev'[o].data_ready = dev[o].data_ready
      BY <3>2 DEF TypeInv, TypeOK, DevType
    <3>3. CASE UNCHANGED dev
      BY <3>3
    <3>4. CASE \E m \in Minors : dev' = [dev EXCEPT ![m].access = 1]
      BY <3>2, <3>4
    <3>5. CASE \E f \in Files : dev' = [dev EXCEPT ![file[f].minor].access = 0]
      BY <3>2, <3>5
    <3> QED
      BY <3>1, <3>3, <3>4, <3>5
  <2> QED
    BY <2>1, <2>3, <2>4, OutsideWake
<1>2. ASSUME NEW t \in Threads, Call(t) PROVE WakeInv'
  <2>1. Moves(t) /\ ~InCall(t) /\ UNCHANGED dev
    BY <1>2, CallMoves DEF Call, Read, Write, Reset, SetSize, Seek, CanUse, CanCall, At, InCall
  <2>2. \/ \E r : Return(t, r)
        \/ \E f, p, off, len, b : /\ Enter(t, f, p, off, len, b)
                                  /\ p \in {"r_check", "w_copy", "i_clear", "s_store"}
                                  /\ p = "i_clear" => len = 0
    BY <1>2 DEF Call, Read, Write, Reset, SetSize, Seek, CanUse, CanCall, NoSetSize
  <2>3. /\ thread'[t].pc \notin {"r_asleep", "i_size", "i_ready"}
        /\ thread'[t].pc = "i_clear" => thread'[t].len = 0
    <3>1. CASE \E r : Return(t, r)
      BY <3>1 DEF Return, Yield, Resting, TypeInv, TypeOK
    <3>2. ASSUME NEW f, NEW p \in {"r_check", "w_copy", "i_clear", "s_store"}, NEW off,
                 NEW len, NEW b, Enter(t, f, p, off, len, b), p = "i_clear" => len = 0
          PROVE  thread'[t].pc = p /\ (p = "i_clear" => thread'[t].len = 0)
      BY <3>2 DEF Enter, Resting, TypeInv, TypeOK
    <3> QED
      BY <2>2, <3>1, <3>2
  <2> QED
    BY <2>1, <2>3, OutsideWake
<1>3. ASSUME NEW t \in Threads, Back(t) PROVE WakeInv'
  <2>1. Moves(t) /\ ~InCall(t) /\ UNCHANGED dev /\ thread'[t].pc = "idle"
    BY <1>3, RestingType DEF Back, At, InCall, Moves, Resting, TypeInv, TypeOK
  <2> QED
    BY <2>1, OutsideWake
<1>4. ASSUME NEW t \in Threads, KernelStep(t) \/ Signal(t) PROVE WakeInv'
  BY <1>4, KernelWake
<1>5. ASSUME NEW f \in Files, Release(f) PROVE WakeInv'
  <2>1. \A m \in Minors : dev'[m].wq = dev[m].wq /\ dev'[m].data_ready = dev[m].data_ready
    BY <1>5 DEF Release, Drop, TypeInv, TypeOK, DevType
  <2>2. \A t \in Threads : thread'[t] = thread[t] /\ thread[t].dev \in Minors
    BY <1>5 DEF Release, TypeInv, TypeOK, CallType
  <2>3. Quiet /\ OnlyResets'
    BY <2>1, <2>2 DEF Quiet, Asleep, OnlyResets, WakeInv
  <2> QED
    BY <2>3, QuietKeeps DEF WakeInv
<1>6. CASE UNCHANGED vars
  BY <1>6 DEF vars, WakeInv, OnlyResets, NoLostWakeup, At
<1> QED
  BY <1>1, <1>2, <1>3, <1>4, <1>5, <1>6 DEF Next

(* Where no program uses SETSIZE, a reader asleep on the queue of a minor with *)
(* data has a wake-up coming: prepare_to_wait before the second look, and      *)
(* data_ready before wake_up, lose none, with any number of readers, writers   *)
(* and resets in any interleaving.                                             *)
THEOREM WakeupsArrive ==
    ASSUME NoSetSize
    PROVE  Spec => []NoLostWakeup
<1>1. Init => WakeInv
  BY DEF Init, Resting, WakeInv, OnlyResets, NoLostWakeup, At
<1>2. WakeInv => NoLostWakeup
  BY DEF WakeInv
<1>3. TypeInv /\ WakeInv /\ [Next]_vars => WakeInv'
  BY NextWake
<1> QED
  BY <1>1, <1>2, <1>3, InitType, NextType, PTL DEF Spec
===============================================================================
