--------------------------- MODULE BroadcastProofs ----------------------------
(* The content of the devices: what TLAPS proves of the bytes my_write         *)
(* broadcasts and my_read returns, for any number of minors and of readers,    *)
(* when one program writes.  With two writers it is false (driver_two_writers).*)
EXTENDS CharDriverProofs

(* One thread writes, with good addresses; the others open, close and read,    *)
(* with whatever addresses.  Each exclusion is a way the driver itself makes   *)
(* holes: a faulting copy_from_user clears what it could not copy, lseek moves *)
(* past the size, RESET clears below it and SETSIZE stores a larger one.       *)
OneWriter ==
    /\ \A t, u \in Threads : "write" \in Calls[t] /\ "write" \in Calls[u] => t = u
    /\ \A t \in Threads : /\ Calls[t] \cap {"seek", "reset", "setsize"} = {}
                          /\ "write" \in Calls[t] => "fault" \notin Calls[t]

(* Who looks at what a call returned is a reader: a write returns no bytes.    *)
ReadersLook == \A t \in Threads : ~({"look", "write"} \subseteq Calls[t])

(* The first x bytes of a minor were written by somebody. *)
Filled(m, x) == \A c \in Cells : c < x => dev[m].buffer[c] # 0
Written(b, x) == \A c \in Cells : c < x => b[c] # 0

(* Who is where: only the writer is in my_write, nobody in my_ioctl, my_llseek,*)
(* and a result is kept for those who look at it.                              *)
Placed(t) ==
    /\ thread[t].pc \in WritePcs => "write" \in Calls[t]
    /\ thread[t].pc \notin {"i_clear", "i_size", "i_ready", "s_store"}
    /\ thread[t].pc = "returned" => "look" \in Calls[t]

(* A call starts where bytes were written, and so does the next one after it.  *)
Sound(t) == LET th == thread[t] IN
    /\ th.pc \in EarlyPcs => Filled(th.dev, th.off)
    /\ th.pc = "r_copy" => Filled(th.dev, th.off + th.len) /\ Written(th.buf, th.k)
    /\ th.pc = "returned" /\ "write" \notin Calls[t] => Written(th.buf, th.ret)
    /\ th.pc = "w_copy" => Filled(th.dev, th.off + th.k) /\ th.byte # 0
    /\ th.pc \in WritePcs \ {"w_copy"} => Filled(th.dev, th.off + th.len)

(* Where the broadcast of the writer has got to.                               *)
Alike(m, o)   == /\ dev[m].size = dev[o].size
                 /\ \A c \in Cells : c < dev[o].size => dev[m].buffer[c] = dev[o].buffer[c]
Has(t, m)     == Alike(m, thread[t].dev) /\ dev[m].data_ready = 1
Passed(t)     == LET th == thread[t] IN
                 th.i # th.dev /\ Has(t, th.dev) /\ \A m \in Minors : m < th.i => Has(t, m)
Snapped(t, x) == LET th == thread[t] IN
                 \A c \in Cells : c < x => th.buf[c] = dev[th.dev].buffer[c]
Snapshot(t)   == Snapped(t, dev[thread[t].dev].size)
Given(t, x)   == LET th == thread[t] IN
                 \A c \in Cells : c < x => dev[th.i].buffer[c] = dev[th.dev].buffer[c]
Progress(t) == LET th == thread[t]  size == dev[th.dev].size IN
    /\ th.pc = "w_copy" => th.i = th.dev
    /\ th.pc = "w_ready" /\ th.i # th.dev => Passed(t) /\ Snapshot(t) /\ Alike(th.i, th.dev)
    /\ th.pc = "w_wake" => Has(t, th.i)
    /\ th.pc = "w_wake" /\ th.i # th.dev => Passed(t) /\ Snapshot(t)
    /\ th.pc = "w_load" => Passed(t)
    /\ th.pc = "w_snap" => Passed(t) /\ th.n = size /\ Snapped(t, th.k)
    /\ th.pc = "b_load" => Passed(t) /\ Snapshot(t)
    /\ th.pc = "b_copy" => Passed(t) /\ Snapshot(t) /\ th.n = size /\ Given(t, th.k)
    /\ th.pc = "b_size" => Passed(t) /\ Snapshot(t) /\ th.n = size /\ Given(t, size)

(* A file is never positioned after a hole. *)
FilesSound == \A f \in Files : Filled(file[f].minor, file[f].pos)

DataInv ==
    /\ HoleFree /\ FilesSound
    /\ \A t \in Threads : Placed(t) /\ Sound(t) /\ Progress(t)

--------------------------------------------------------------------------------
(* Steps that leave the content alone, and steps that write no zero. *)
Still == \A m \in Minors : /\ dev'[m].buffer = dev[m].buffer /\ dev'[m].size = dev[m].size
                           /\ dev'[m].data_ready = dev[m].data_ready
Grows == \A m \in Minors, c \in Cells : dev[m].buffer[c] # 0 => dev'[m].buffer[c] # 0

LEMMA GrowsFilled ==
    ASSUME Grows, NEW m \in Minors, NEW x, Filled(m, x)
    PROVE  \A c \in Cells : c < x => dev'[m].buffer[c] # 0
BY DEF Grows, Filled

LEMMA OtherSound ==
    ASSUME TypeInv, Grows, NEW u \in Threads, thread'[u] = thread[u], Sound(u)
    PROVE  Sound(u)'
<1>1. thread[u].dev \in Minors BY DEF TypeInv, TypeOK, CallType
<1>. QED BY <1>1, GrowsFilled DEF Sound, Filled

LEMMA OtherProgress ==
    ASSUME TypeInv, Still, NEW u \in Threads, thread'[u] = thread[u], Progress(u)
    PROVE  Progress(u)'
<1>1. thread[u].dev \in Minors BY DEF TypeInv, TypeOK, CallType
<1>2. thread[u].pc \in {"w_ready", "w_wake", "b_copy", "b_size"} => thread[u].i \in Minors
  BY DEF TypeInv, CallOK
<1>3. Passed(u) => Passed(u)' BY <1>1 DEF Still, Passed, Has, Alike
<1>4. Snapshot(u) => Snapshot(u)' BY <1>1 DEF Still, Snapshot, Snapped
<1>5. \A x : Snapped(u, x) => (\A c \in Cells : c < x => thread'[u].buf[c] = dev'[thread'[u].dev].buffer[c])
  BY <1>1 DEF Still, Snapped
<1>6. ASSUME thread[u].i \in Minors
      PROVE  /\ Has(u, thread[u].i) => Has(u, thread[u].i)'
             /\ Alike(thread[u].i, thread[u].dev) => Alike(thread[u].i, thread[u].dev)'
             /\ \A x : Given(u, x) => (\A c \in Cells : c < x =>
                   dev'[thread'[u].i].buffer[c] = dev'[thread'[u].dev].buffer[c])
  <2> DEFINE i == thread[u].i
             d == thread[u].dev
  <2>1. /\ dev'[i].buffer = dev[i].buffer /\ dev'[i].size = dev[i].size
        /\ dev'[i].data_ready = dev[i].data_ready
        /\ dev'[d].buffer = dev[d].buffer /\ dev'[d].size = dev[d].size
    BY <1>1, <1>6 DEF Still
  <2>2. Alike(i, d) => Alike(i, d)' BY <2>1 DEF Alike
  <2>3. Has(u, i) => Has(u, i)' BY <2>1, <2>2 DEF Has
  <2>4. \A x : Given(u, x) => (\A c \in Cells : c < x =>
              dev'[thread'[u].i].buffer[c] = dev'[thread'[u].dev].buffer[c])
    BY <2>1 DEF Given
  <2>. QED BY <2>2, <2>3, <2>4
<1>7. dev'[thread[u].dev].size = dev[thread[u].dev].size BY <1>1 DEF Still
<1>8. thread[u].pc = "w_snap" => Snapped(u, thread[u].k)' BY <1>5 DEF Progress, Snapped
<1>9. thread[u].pc = "b_copy" => Given(u, thread[u].k)' BY <1>2, <1>6 DEF Progress, Given
<1>10. thread[u].pc = "b_size" => Given(u, dev[thread[u].dev].size)'
  BY <1>2, <1>6, <1>7 DEF Progress, Given
<1>. QED BY <1>2, <1>3, <1>4, <1>6, <1>7, <1>8, <1>9, <1>10 DEF Progress

LEMMA MovesOne ==
    ASSUME TypeInv, NEW t \in Threads, Moves(t)
    PROVE  \A u \in Threads : u # t => thread'[u] = thread[u]
BY DEF Moves, TypeInv, TypeOK

LEMMA StillKeeps ==
    ASSUME Still, HoleFree
    PROVE  HoleFree' /\ Grows
BY DEF Still, HoleFree, Grows

LEMMA QuietData ==
    ASSUME TypeInv, DataInv, NEW t \in Threads, Moves(t), Still, FilesSound',
           Placed(t)', Sound(t)', Progress(t)'
    PROVE  DataInv'
<1>1. HoleFree' /\ Grows BY StillKeeps DEF DataInv
<1>2. ASSUME NEW u \in Threads, u # t PROVE Placed(u)' /\ Sound(u)' /\ Progress(u)'
  <2>1. thread'[u] = thread[u] BY <1>2, MovesOne
  <2>2. Placed(u) /\ Sound(u) /\ Progress(u) BY DEF DataInv
  <2>3. Placed(u)' BY <2>1, <2>2 DEF Placed
  <2>. QED BY <1>1, <2>1, <2>2, <2>3, OtherSound, OtherProgress
<1>. QED BY <1>1, <1>2 DEF DataInv

(* The writer is alone in my_write, so nobody else's broadcast is disturbed. *)
LEMMA WriterData ==
    ASSUME OneWriter, TypeInv, DataInv, NEW t \in Threads, Moves(t), thread[t].pc \in WritePcs,
           UNCHANGED file, Grows, HoleFree', Placed(t)', Sound(t)', Progress(t)'
    PROVE  DataInv'
<1>1. FilesSound'
  BY GrowsFilled DEF DataInv, FilesSound, Filled, TypeInv, TypeOK, FileType
<1>2. ASSUME NEW u \in Threads, u # t PROVE Placed(u)' /\ Sound(u)' /\ Progress(u)'
  <2>1. thread'[u] = thread[u] BY <1>2, MovesOne
  <2>2. Placed(u) /\ Sound(u) /\ Placed(t) BY DEF DataInv
  <2>3. thread[u].pc \notin WritePcs BY <1>2, <2>2 DEF OneWriter, Placed
  <2>4. Placed(u)' BY <2>1, <2>2 DEF Placed
  <2>5. Progress(u)' BY <2>1, <2>3 DEF Progress, WritePcs
  <2>. QED BY <2>1, <2>2, <2>4, <2>5, OtherSound
<1>. QED BY <1>1, <1>2 DEF DataInv

(* A thread outside the driver, with what a call returned to it. *)
LEMMA OutsideData ==
    ASSUME TypeInv, NEW t \in Threads, thread'[t].pc \in {"idle", "returned"},
           thread'[t].pc = "returned" => "look" \in Calls[t],
           thread'[t].pc = "returned" /\ "write" \notin Calls[t] =>
               \A c \in Cells : c < thread'[t].ret => thread'[t].buf[c] # 0
    PROVE  Placed(t)' /\ Sound(t)' /\ Progress(t)'
BY DEF Placed, Sound, Progress, Written, WritePcs, EarlyPcs

LEMMA YieldData ==
    ASSUME TypeInv, NEW t \in Threads, NEW r, NEW b, Yield(t, r, b),
           "look" \in Calls[t] /\ "write" \notin Calls[t] => Written(b, r)
    PROVE  Placed(t)' /\ Sound(t)' /\ Progress(t)'
<1>1. thread'[t] = IF "look" \in Calls[t]
                   THEN [Resting EXCEPT !.pc = "returned", !.ret = r, !.buf = b] ELSE Resting
  BY DEF Yield, TypeInv, TypeOK
<1>2. /\ thread'[t].pc \in {"idle", "returned"}
      /\ thread'[t].pc = "returned" => /\ "look" \in Calls[t]
                                       /\ thread'[t].ret = r /\ thread'[t].buf = b
  BY <1>1 DEF Resting
<1>. QED BY <1>2, OutsideData DEF Written

LEMMA ReturnData ==
    ASSUME TypeInv, NEW t \in Threads, NEW r \in Int, Return(t, r),
           r <= 0 \/ "write" \in Calls[t]
    PROVE  Placed(t)' /\ Sound(t)' /\ Progress(t)'
<1>1. r <= 0 => Written(Blank, r) BY DriverAssumption DEF Written, Cells
<1>. QED BY <1>1, YieldData DEF Return

--------------------------------------------------------------------------------
(* open, close and the release of the last reference do not touch the content. *)
LEMMA AccessStill ==
    ASSUME TypeInv, NEW m \in Minors, NEW a, dev' = [dev EXCEPT ![m].access = a]
    PROVE  Still
BY DEF Still, TypeInv, TypeOK, DevType

LEMMA SameStill ==
    ASSUME UNCHANGED dev
    PROVE  Still
BY DEF Still

LEMMA FilesKeep ==
    ASSUME TypeInv, DataInv, Still,
           \A f \in Files : file'[f].minor = file[f].minor /\ file'[f].pos = file[f].pos
    PROVE  FilesSound'
BY DEF DataInv, FilesSound, Filled, Still, TypeInv, TypeOK, FileType

LEMMA DropData ==
    ASSUME TypeInv, DataInv, NEW f \in Files, Drop(f)
    PROVE  Still /\ FilesSound'
<1>1. file[f].minor \in Minors BY DEF TypeInv, TypeOK, FileType
<1>2. Still BY <1>1, AccessStill DEF Drop
<1>3. \A g \in Files : file'[g].minor = file[g].minor /\ file'[g].pos = file[g].pos
  BY DEF Drop, TypeInv, TypeOK, FileType
<1>. QED BY <1>2, <1>3, FilesKeep

LEMMA OpenCloseData ==
    ASSUME TypeInv, DataInv, NEW t \in Threads, OpenClose(t)
    PROVE  DataInv'
<1>1. Moves(t) BY OpenCloseMoves
<1>2. PICK f \in Files : \/ \E m \in Minors, nb \in BOOLEAN : Open(t, f, m, nb)
                         \/ Close(t, f)
  BY DEF OpenClose
<1>3. ASSUME NEW m \in Minors, NEW nb \in BOOLEAN, Open(t, f, m, nb) PROVE DataInv'
  <2>1. CASE Return(t, -EBUSY) /\ UNCHANGED <<dev, file>>
    <3>1. Still /\ FilesSound' BY <2>1, SameStill, FilesKeep
    <3>. QED BY <1>1, <2>1, <3>1, ReturnData, QuietData DEF EBUSY
  <2>2. CASE /\ dev' = [dev EXCEPT ![m].access = 1] /\ Return(t, 0)
             /\ file' = [file EXCEPT ![f] = [state |-> "open", minor |-> m, pos |-> 0,
                                             nonblock |-> nb]]
    <3>1. Still BY <2>2, AccessStill
    <3>2. \A g \in Files \ {f} : file'[g] = file[g] BY <2>2 DEF TypeInv, TypeOK
    <3>3. file'[f].pos = 0 BY <2>2 DEF TypeInv, TypeOK
    <3>4. FilesSound'
      BY <3>1, <3>2, <3>3, DriverAssumption
         DEF DataInv, FilesSound, Filled, Still, Cells, TypeInv, TypeOK, FileType
    <3>. QED BY <1>1, <2>2, <3>1, <3>4, ReturnData, QuietData
  <2>. QED BY <1>3, <2>1, <2>2 DEF Open
<1>4. ASSUME Close(t, f) PROVE DataInv'
  <2>1. Return(t, 0) BY <1>4 DEF Close
  <2>2. Still /\ FilesSound'
    <3>1. CASE Drop(f) BY <3>1, DropData
    <3>2. CASE file' = [file EXCEPT ![f].state = "closing"] /\ UNCHANGED dev
      <4>1. \A g \in Files : file'[g].minor = file[g].minor /\ file'[g].pos = file[g].pos
        BY <3>2 DEF TypeInv, TypeOK, FileType
      <4>. QED BY <3>2, <4>1, SameStill, FilesKeep
    <3>. QED BY <1>4, <3>1, <3>2 DEF Close
  <2>. QED BY <1>1, <2>1, <2>2, ReturnData, QuietData
<1>. QED BY <1>2, <1>3, <1>4

LEMMA ReleaseData ==
    ASSUME TypeInv, DataInv, NEW f \in Files, Release(f)
    PROVE  DataInv'
<1>1. Still /\ FilesSound' BY DropData DEF Release
<1>2. HoleFree' /\ Grows BY <1>1, StillKeeps DEF DataInv
<1>3. \A u \in Threads : thread'[u] = thread[u] BY DEF Release
<1>4. \A u \in Threads : Placed(u)' BY <1>3 DEF DataInv, Placed
<1>5. \A u \in Threads : Sound(u)' /\ Progress(u)'
  BY <1>1, <1>2, <1>3, OtherSound, OtherProgress DEF DataInv
<1>. QED BY <1>1, <1>2, <1>4, <1>5 DEF DataInv

(* The calls begin where the file is. *)
LEMMA CallData ==
    ASSUME OneWriter, TypeInv, DataInv, NEW t \in Threads, Call(t)
    PROVE  DataInv'
<1>1. Moves(t) BY CallMoves
<1>2. Still /\ FilesSound' BY SameStill, FilesKeep DEF Call
<1>3. ASSUME NEW f \in Files, NEW count \in Counts, Read(t, f, count) PROVE DataInv'
  <2>1. Enter(t, f, "r_check", file[f].pos, count, 0) BY <1>3 DEF Read
  <2>2. /\ thread'[t].pc = "r_check" /\ thread'[t].off = file[f].pos
        /\ thread'[t].dev = file[f].minor
    BY <2>1 DEF Enter, Resting, TypeInv, TypeOK
  <2>3. Filled(file[f].minor, file[f].pos) /\ file[f].minor \in Minors
    BY DEF DataInv, FilesSound, TypeInv, TypeOK, FileType
  <2>4. Placed(t)' /\ Progress(t)' BY <2>2 DEF Placed, Progress, WritePcs
  <2>5. Sound(t)' BY <1>2, <2>2, <2>3 DEF Sound, Filled, Still, WritePcs
  <2>. QED BY <1>1, <1>2, <2>4, <2>5, QuietData
<1>4. ASSUME NEW f \in Files, NEW count \in Counts, NEW byte \in Bytes, Write(t, f, count, byte)
      PROVE  DataInv'
  <2> DEFINE off == file[f].pos
             len == Least(count, Room(off))
  <2>1. CASE Return(t, -ENOSPC) BY <1>1, <1>2, <2>1, ReturnData, QuietData DEF ENOSPC
  <2>2. CASE Enter(t, f, "w_copy", off, len, byte)
    <3>1. /\ thread'[t].pc = "w_copy" /\ thread'[t].off = off /\ thread'[t].dev = file[f].minor
          /\ thread'[t].k = 0 /\ thread'[t].byte = byte /\ thread'[t].i = file[f].minor
      BY <2>2 DEF Enter, Resting, TypeInv, TypeOK
    <3>2. Filled(file[f].minor, off) /\ file[f].minor \in Minors /\ off + 0 = off
      BY DriverAssumption DEF DataInv, FilesSound, TypeInv, TypeOK, FileType
    <3>3. byte # 0 BY DriverAssumption
    <3>4. Placed(t)' BY <1>4, <3>1 DEF Write, CanUse, CanCall, Placed
    <3>5. Sound(t)' BY <1>2, <3>1, <3>2, <3>3 DEF Sound, Filled, Still, WritePcs, EarlyPcs
    <3>6. Progress(t)' BY <3>1 DEF Progress
    <3>. QED BY <1>1, <1>2, <3>4, <3>5, <3>6, QuietData
  <2>. QED BY <1>4, <2>1, <2>2 DEF Write
<1>5. \A f \in Files : /\ ~Reset(t, f)
                       /\ \A v : ~SetSize(t, f, v)
                       /\ \A whence, offset : ~Seek(t, f, whence, offset)
  BY DEF OneWriter, Reset, SetSize, Seek, CanUse, CanCall
<1>. QED BY <1>3, <1>4, <1>5 DEF Call

LEMMA BackData ==
    ASSUME TypeInv, DataInv, NEW t \in Threads, Back(t)
    PROVE  DataInv'
<1>1. thread'[t].pc = "idle" /\ Moves(t)
  BY RestingType DEF Back, Moves, Resting, TypeInv, TypeOK
<1>2. Still /\ FilesSound' BY SameStill, FilesKeep DEF Back
<1>. QED BY <1>1, <1>2, OutsideData, QuietData

--------------------------------------------------------------------------------
(* The steps of my_read.  A thread in the early ones keeps its place. *)
LEMMA EarlyData ==
    ASSUME TypeInv, DataInv, NEW t \in Threads, thread[t].pc \in EarlyPcs,
           NEW p \in EarlyPcs, Goto(t, p), Still
    PROVE  Placed(t)' /\ Sound(t)' /\ Progress(t)'
<1>1. thread'[t].pc = p /\ thread'[t].dev = thread[t].dev /\ thread'[t].off = thread[t].off
  BY DEF Goto, TypeInv, TypeOK, CallType
<1>2. Filled(thread[t].dev, thread[t].off) /\ thread[t].dev \in Minors
  BY DEF DataInv, Sound, TypeInv, TypeOK, CallType
<1>3. Placed(t)' /\ Progress(t)' BY <1>1 DEF Placed, Progress, EarlyPcs, WritePcs
<1>4. Sound(t)' BY <1>1, <1>2 DEF Sound, Filled, Still, EarlyPcs, WritePcs
<1>. QED BY <1>3, <1>4

LEMMA QueueStill ==
    ASSUME TypeInv, NEW m \in Minors, NEW q, dev' = [dev EXCEPT ![m].wq = q]
    PROVE  Still
<1>1. dev \in [Minors -> DevType] BY DEF TypeInv, TypeOK
<1>2. \A o \in Minors : dev'[o] = IF o = m THEN [dev[m] EXCEPT !.wq = q] ELSE dev[o] BY <1>1
<1>3. dev[m] \in DevType BY <1>1
<1>. QED BY <1>2, <1>3 DEF Still, DevType

LEMMA WaitData ==
    ASSUME TypeInv, DataInv, NEW t \in Threads,
           \/ (RCheck(t) \/ RWait(t) \/ RAwake(t)) /\ UNCHANGED dev
           \/ RPrepare(t) \/ RRecheck(t) \/ Interrupt(t),
           Moves(t), UNCHANGED file
    PROVE  DataInv'
<1>1. Still
  <2>1. \/ UNCHANGED dev
        \/ \E q : dev' = [dev EXCEPT ![thread[t].dev].wq = q]
    BY DEF RPrepare, RRecheck, Interrupt, Enqueue, Dequeue
  <2>2. thread[t].dev \in Minors BY DEF TypeInv, TypeOK, CallType
  <2>. QED BY <2>1, <2>2, QueueStill, SameStill
<1>2. FilesSound' BY <1>1, FilesKeep
<1>3. thread[t].pc \in EarlyPcs
  BY DEF RCheck, RWait, RAwake, RPrepare, RRecheck, Interrupt, At, EarlyPcs
<1>4. \/ \E r \in {-EAGAIN, -ERESTARTSYS} : Return(t, r)
      \/ \E p \in {"r_wait", "r_load", "r_prepare", "r_recheck", "r_asleep"} : Goto(t, p)
  BY DEF RCheck, RWait, RAwake, RPrepare, RRecheck, Interrupt
<1>5. CASE \E r \in {-EAGAIN, -ERESTARTSYS} : Return(t, r)
  BY <1>1, <1>2, <1>5, ReturnData, QuietData DEF EAGAIN, ERESTARTSYS
<1>6. CASE \E p \in {"r_wait", "r_load", "r_prepare", "r_recheck", "r_asleep"} : Goto(t, p)
  <2>1. PICK p \in EarlyPcs : Goto(t, p) BY <1>6 DEF EarlyPcs
  <2>. QED BY <1>1, <1>2, <1>3, <2>1, EarlyData, QuietData
<1>. QED BY <1>4, <1>5, <1>6

(* The size a read looks at once bounds what it copies: from there on the      *)
(* bytes it will copy are all written, whatever the writer does.               *)
LEMMA RLoadData ==
    ASSUME TypeInv, DataInv, NEW t \in Threads, RLoad(t), UNCHANGED <<dev, file>>, Moves(t)
    PROVE  DataInv'
<1> DEFINE th   == thread[t]
           size == dev[th.dev].size
           len  == Available(th.off, size, th.len)
<1>1. Still /\ FilesSound' BY SameStill, FilesKeep
<1>2. CallOK(th) /\ th.pc = "r_load" /\ th.dev \in Minors BY DEF TypeInv, CallOK, CallType, RLoad, At
<1>3. /\ thread'[t].pc = "r_copy" /\ thread'[t].dev = th.dev /\ thread'[t].off = th.off
      /\ thread'[t].len = len /\ thread'[t].k = 0
  BY <1>2 DEF RLoad, TypeInv, TypeOK, CallOK, CallType, EarlyPcs
<1>4. Filled(th.dev, th.off) /\ Filled(th.dev, size)
  BY <1>2 DEF DataInv, Sound, EarlyPcs, HoleFree, Filled
<1>5. size \in Nat /\ th.off \in Nat /\ th.len \in Nat
  BY <1>2, DriverAssumption DEF TypeInv, TypeOK, DevType, CallOK, CallType
<1>6. th.off + len <= th.off \/ th.off + len <= size BY <1>5 DEF Available, Least
<1>7. \A c \in Cells : c < th.off + len => dev[th.dev].buffer[c] # 0
  <2>1. len \in Nat BY <1>5 DEF Available, Least
  <2>. HIDE DEF len
  <2>. QED BY <1>4, <1>5, <1>6, <2>1, DriverAssumption DEF Filled, Cells
<1>8. Placed(t)' /\ Progress(t)' BY <1>3 DEF Placed, Progress, WritePcs
<1>9. Sound(t)'
  BY <1>3, <1>7, DriverAssumption DEF Sound, Filled, Written, EarlyPcs, WritePcs, Cells
<1>. QED BY <1>1, <1>8, <1>9, QuietData

LEMMA RCopyData ==
    ASSUME TypeInv, DataInv, NEW t \in Threads, RCopy(t), UNCHANGED <<dev, file>>, Moves(t)
    PROVE  DataInv'
<1> DEFINE th == thread[t]
           b  == dev[th.dev].buffer[th.off + th.k]
<1>1. Still /\ FilesSound' BY SameStill, FilesKeep
<1>2. CallOK(th) /\ th.pc = "r_copy" /\ th.k < th.len BY DEF TypeInv, RCopy, At
<1>3. th.k \in Nat /\ th.off \in Nat /\ th.len \in Nat /\ th.off + th.len <= MY_BUFFER_SIZE
  BY <1>2, DriverAssumption DEF CallOK, CallType
<1>4. th.off + th.k \in Cells /\ th.off + th.k < th.off + th.len
  BY <1>2, <1>3, DriverAssumption DEF Cells
<1>5. Filled(th.dev, th.off + th.len) /\ Written(th.buf, th.k)
  BY <1>2 DEF DataInv, Sound
<1>6. b # 0 BY <1>4, <1>5 DEF Filled
<1>7. /\ thread'[t].pc = "r_copy" /\ thread'[t].dev = th.dev /\ thread'[t].off = th.off
      /\ thread'[t].len = th.len /\ thread'[t].k = th.k + 1
      /\ thread'[t].buf = [th.buf EXCEPT ![th.k] = b]
  BY <1>2 DEF RCopy, Fetch, TypeInv, TypeOK, CallOK, CallType
<1>8. Written(thread'[t].buf, th.k + 1)
  <2>1. th.buf \in [Cells -> Byte] BY <1>2 DEF CallOK, CallType
  <2>2. \A c \in Cells : thread'[t].buf[c] = IF c = th.k THEN b ELSE th.buf[c]
    BY <1>7, <2>1
  <2>. QED BY <1>3, <1>5, <1>6, <2>2, DriverAssumption DEF Written, Cells
<1>9. Placed(t)' /\ Progress(t)' BY <1>7 DEF Placed, Progress, WritePcs
<1>10. Sound(t)' BY <1>5, <1>7, <1>8 DEF Sound, Filled, Written, EarlyPcs, WritePcs
<1>. QED BY <1>1, <1>9, <1>10, QuietData

(* The position the VFS stores after a read or a write. *)
LEMMA PosData ==
    ASSUME TypeInv, Exclusive, DataInv, UNCHANGED dev, NEW t \in Threads, InCall(t),
           NEW pos \in 0 .. MY_BUFFER_SIZE, Filled(thread[t].dev, pos),
           file' = [file EXCEPT ![thread[t].f].pos = pos]
    PROVE  FilesSound'
<1> DEFINE f == thread[t].f
<1>1. f \in Files /\ file[f].minor = thread[t].dev
  BY DEF TypeInv, CallOK, InCall, Exclusive
<1>2. /\ \A g \in Files \ {f} : file'[g] = file[g]
      /\ file'[f].pos = pos /\ file'[f].minor = file[f].minor
  BY <1>1 DEF TypeInv, TypeOK, FileType
<1>. QED BY <1>1, <1>2 DEF DataInv, FilesSound, Filled

LEMMA RCommitData ==
    ASSUME TypeInv, Exclusive, DataInv, NEW t \in Threads, RCommit(t), UNCHANGED dev, Moves(t)
    PROVE  DataInv'
<1> DEFINE th == thread[t]
<1>1. CallOK(th) /\ th.pc = "r_copy" /\ th.k = th.len BY DEF TypeInv, RCommit, At
<1>2. Filled(th.dev, th.off + th.len) /\ Written(th.buf, th.len)
  BY <1>1 DEF DataInv, Sound
<1>3. th.off + th.len \in 0 .. MY_BUFFER_SIZE
  BY <1>1, DriverAssumption DEF CallOK, CallType
<1>4. FilesSound' BY <1>1, <1>2, <1>3, PosData DEF RCommit, InCall
<1>5. Placed(t)' /\ Sound(t)' /\ Progress(t)' BY <1>2, YieldData DEF RCommit
<1>. QED BY <1>4, <1>5, SameStill, QuietData

--------------------------------------------------------------------------------
(* The steps of my_write. *)
LEMMA WCopyData ==
    ASSUME OneWriter, TypeInv, DataInv, NEW t \in Threads, WCopy(t), UNCHANGED file, Moves(t)
    PROVE  DataInv'
<1> DEFINE th == thread[t]
           c0 == th.off + th.k
<1>1. CallOK(th) /\ th.pc = "w_copy" /\ th.k < th.len /\ th.dev \in Minors
  BY DEF TypeInv, CallOK, CallType, WCopy, At
<1>2. th.k \in Nat /\ th.off \in Nat /\ th.len \in Nat /\ th.off + th.len <= MY_BUFFER_SIZE
  BY <1>1, DriverAssumption DEF CallOK, CallType, WritePcs
<1>3. Filled(th.dev, c0) /\ th.byte # 0 /\ th.i = th.dev
  BY <1>1 DEF DataInv, Sound, Progress
<1>4. /\ \A m \in Minors : m # th.dev => dev'[m] = dev[m]
      /\ dev'[th.dev].size = dev[th.dev].size
      /\ \A c \in Cells : dev'[th.dev].buffer[c] = IF c = c0 THEN th.byte ELSE dev[th.dev].buffer[c]
  BY <1>1 DEF WCopy, Put, TypeInv, TypeOK, DevType
<1>5. /\ thread'[t].pc = "w_copy" /\ thread'[t].dev = th.dev /\ thread'[t].off = th.off
      /\ thread'[t].byte = th.byte /\ thread'[t].k = th.k + 1 /\ thread'[t].i = th.i
  BY <1>1 DEF WCopy, Put, TypeInv, TypeOK, CallOK, CallType
<1>6. Grows BY <1>3, <1>4 DEF Grows
<1>7. HoleFree' BY <1>4, <1>6 DEF DataInv, HoleFree, Grows
<1>8. \A c \in Cells : c < th.off + (th.k + 1) => dev'[th.dev].buffer[c] # 0
  BY <1>2, <1>3, <1>4, DriverAssumption DEF Filled, Cells
<1>9. Placed(t)' BY <1>1, <1>5 DEF DataInv, Placed, WritePcs
<1>10. Sound(t)' BY <1>3, <1>5, <1>8 DEF Sound, Filled, EarlyPcs
<1>11. Progress(t)' BY <1>3, <1>5 DEF Progress
<1>. QED BY <1>1, <1>6, <1>7, <1>9, <1>10, <1>11, WriterData DEF WritePcs

LEMMA WSizeData ==
    ASSUME OneWriter, TypeInv, DataInv, NEW t \in Threads, WSize(t), UNCHANGED file, Moves(t)
    PROVE  DataInv'
<1> DEFINE th == thread[t]
<1>1. CallOK(th) /\ th.pc = "w_copy" /\ th.k = th.len /\ th.dev \in Minors
  BY DEF TypeInv, CallOK, CallType, WSize, At
<1>2. Filled(th.dev, th.off + th.len) /\ th.i = th.dev BY <1>1 DEF DataInv, Sound, Progress
<1>3. /\ \A m \in Minors : dev'[m].buffer = dev[m].buffer
      /\ \A m \in Minors : m # th.dev => dev'[m].size = dev[m].size
      /\ dev'[th.dev].size = th.off + th.len
  BY <1>1 DEF WSize, TypeInv, TypeOK, DevType
<1>4. /\ thread'[t].pc = "w_ready" /\ thread'[t].dev = th.dev /\ thread'[t].off = th.off
      /\ thread'[t].len = th.len /\ thread'[t].i = th.i
  BY <1>1 DEF WSize, TypeInv, TypeOK, CallOK, CallType
<1>5. Grows BY <1>3 DEF Grows
<1>6. HoleFree' BY <1>2, <1>3 DEF DataInv, HoleFree, Filled
<1>7. Placed(t)' BY <1>1, <1>4 DEF DataInv, Placed, WritePcs
<1>8. Sound(t)' BY <1>1, <1>2, <1>3, <1>4 DEF Sound, Filled, EarlyPcs, WritePcs
<1>9. Progress(t)' BY <1>2, <1>4 DEF Progress
<1>. QED BY <1>1, <1>5, <1>6, <1>7, <1>8, <1>9, WriterData DEF WritePcs

(* After the copy in, a call of my_write keeps its place, and what it wrote.   *)
LaterPcs == WritePcs \ {"w_copy"}
Keeps(t) == /\ thread[t].pc \in LaterPcs /\ thread'[t].pc \in LaterPcs
            /\ thread'[t].dev = thread[t].dev
            /\ thread'[t].off = thread[t].off /\ thread'[t].len = thread[t].len

LEMMA LaterSound ==
    ASSUME TypeInv, DataInv, Grows, NEW t \in Threads, Keeps(t)
    PROVE  Placed(t)' /\ Sound(t)'
<1> DEFINE th == thread[t]
<1>1. Filled(th.dev, th.off + th.len) /\ th.dev \in Minors
  BY DEF DataInv, Sound, Keeps, LaterPcs, TypeInv, TypeOK, CallType
<1>2. Placed(t)' BY DEF DataInv, Placed, Keeps, LaterPcs, WritePcs
<1>3. \A c \in Cells : c < th.off + th.len => dev'[th.dev].buffer[c] # 0
  BY <1>1, GrowsFilled
<1>4. Sound(t)' BY <1>3 DEF Sound, Filled, Keeps, LaterPcs, EarlyPcs, WritePcs
<1>. QED BY <1>2, <1>4

(* What a minor has got, it keeps while its bytes and the writer's stay.       *)
SameBytes(m) == dev'[m].buffer = dev[m].buffer /\ dev'[m].size = dev[m].size

LEMMA HasKept ==
    ASSUME NEW t \in Threads, NEW m \in Minors, Has(t, m),
           thread'[t].dev = thread[t].dev, SameBytes(m), SameBytes(thread[t].dev),
           dev'[m].data_ready \in {1, dev[m].data_ready}
    PROVE  Has(t, m)'
BY DEF Has, Alike, SameBytes

LEMMA PassedKept ==
    ASSUME TypeInv, NEW t \in Threads, Passed(t), thread[t].i \in Nat,
           thread'[t].dev = thread[t].dev, thread'[t].i = thread[t].i,
           \A m \in Minors : m < thread[t].i \/ m = thread[t].dev =>
               SameBytes(m) /\ dev'[m].data_ready \in {1, dev[m].data_ready}
    PROVE  Passed(t)'
<1>1. thread[t].dev \in Minors BY DEF TypeInv, TypeOK, CallType
<1>2. SameBytes(thread[t].dev) BY <1>1
<1>3. \A m \in Minors : (m < thread[t].i \/ m = thread[t].dev) => Has(t, m)'
  BY <1>1, <1>2, HasKept DEF Passed
<1>4. Has(t, thread[t].dev)' BY <1>1, <1>3 DEF Has, Alike
<1>. QED BY <1>1, <1>3, <1>4 DEF Passed

LEMMA SnapshotKept ==
    ASSUME NEW t \in Threads, Snapshot(t), thread'[t].dev = thread[t].dev,
           thread'[t].buf = thread[t].buf, SameBytes(thread[t].dev)
    PROVE  Snapshot(t)'
BY DEF Snapshot, Snapped, SameBytes

LEMMA WReadyData ==
    ASSUME OneWriter, TypeInv, DataInv, NEW t \in Threads, WReady(t), UNCHANGED file, Moves(t)
    PROVE  DataInv'
<1> DEFINE th == thread[t]
<1>1. CallOK(th) /\ th.pc = "w_ready" /\ th.dev \in Minors /\ th.i \in Minors
  BY DEF TypeInv, CallOK, CallType, WReady, At
<1>2. /\ \A m \in Minors : SameBytes(m) /\ dev'[m].data_ready \in {1, dev[m].data_ready}
      /\ dev'[th.i].data_ready = 1
  BY <1>1 DEF WReady, SameBytes, TypeInv, TypeOK, DevType
<1>3. /\ thread'[t].pc = "w_wake" /\ thread'[t].dev = th.dev /\ thread'[t].off = th.off
      /\ thread'[t].len = th.len /\ thread'[t].i = th.i /\ thread'[t].buf = th.buf
  BY <1>1 DEF WReady, Goto, TypeInv, TypeOK, CallOK, CallType
<1>4. Grows BY <1>2 DEF Grows, SameBytes
<1>5. HoleFree' BY <1>2 DEF DataInv, HoleFree, SameBytes
<1>6. Placed(t)' /\ Sound(t)'
  BY <1>1, <1>3, <1>4, LaterSound DEF Keeps, LaterPcs, WritePcs
<1>7. th.i # th.dev => Passed(t) /\ Snapshot(t) /\ Alike(th.i, th.dev)
  BY <1>1 DEF DataInv, Progress
<1>8. Alike(th.i, th.dev) BY <1>7 DEF Alike
<1>9. Has(t, th.i)' BY <1>1, <1>2, <1>3, <1>8 DEF Has, Alike, SameBytes
<1>10. th.i \in Nat BY <1>1, DriverAssumption DEF Minors
<1>11. th.i # th.dev => Passed(t)' /\ Snapshot(t)'
  BY <1>1, <1>2, <1>3, <1>7, <1>10, PassedKept, SnapshotKept
<1>12. Progress(t)' BY <1>3, <1>9, <1>11 DEF Progress
<1>. QED BY <1>1, <1>4, <1>5, <1>6, <1>12, WriterData DEF WritePcs

(* The wake-up ends one round of the loop: the minors before the next have all *)
(* got the data, the writer's own among them.                                  *)
LEMMA WWakeData ==
    ASSUME OneWriter, TypeInv, DataInv, NEW t \in Threads, WWake(t), UNCHANGED file, Moves(t)
    PROVE  DataInv'
<1> DEFINE th == thread[t]
           j  == IF th.i = th.dev THEN Skip(t, 0) ELSE Skip(t, th.i + 1)
<1>1. CallOK(th) /\ th.pc = "w_wake" /\ th.dev \in Minors /\ th.i \in Minors
  BY DEF TypeInv, CallOK, CallType, WWake, At
<1>2. Still BY <1>1, QueueStill DEF WWake, Wake
<1>3. /\ thread'[t].pc = IF th.i = th.dev THEN "w_load" ELSE "b_load"
      /\ thread'[t].dev = th.dev /\ thread'[t].off = th.off
      /\ thread'[t].len = th.len /\ thread'[t].i = j /\ thread'[t].buf = th.buf
  BY <1>1 DEF WWake, TypeInv, TypeOK, CallOK, CallType
<1>4. HoleFree' /\ Grows BY <1>2, StillKeeps DEF DataInv
<1>5. Placed(t)' /\ Sound(t)'
  BY <1>1, <1>3, <1>4, LaterSound DEF Keeps, LaterPcs, WritePcs
<1>6. Has(t, th.i) /\ (th.i # th.dev => Passed(t) /\ Snapshot(t))
  BY <1>1 DEF DataInv, Progress
<1>7. \A m \in Minors : Has(t, m) => Has(t, m)'
  <2>1. \A m \in Minors : SameBytes(m) /\ dev'[m].data_ready = dev[m].data_ready
    BY <1>2 DEF Still, SameBytes
  <2>. QED BY <1>1, <1>3, <2>1, HasKept
<1>8. j # th.dev /\ \A m \in Minors : m < j => m = th.dev \/ Has(t, m)
  <2>1. CASE th.i = th.dev BY <1>1, <2>1, DriverAssumption DEF Skip, Minors
  <2>2. CASE th.i # th.dev
    <3>1. \A m \in Minors : m < j => m < th.i \/ m = th.i \/ m = th.dev
      BY <1>1, <2>2, DriverAssumption DEF Skip, Minors
    <3>2. j # th.dev BY <1>1, <2>2, DriverAssumption DEF Skip, Minors
    <3>. QED BY <1>6, <2>2, <3>1, <3>2 DEF Passed
  <2>. QED BY <2>1, <2>2
<1>9. Has(t, th.dev) BY <1>6 DEF Passed
<1>10. \A m \in Minors : m < j => Has(t, m)' BY <1>7, <1>8, <1>9
<1>11. Has(t, thread[t].dev)' BY <1>1, <1>3, <1>7, <1>9 DEF Has, Alike
<1> HIDE DEF j
<1>12. Passed(t)' BY <1>3, <1>8, <1>10, <1>11 DEF Passed
<1>13. SameBytes(th.dev) BY <1>1, <1>2 DEF Still, SameBytes
<1>14. th.i # th.dev => Snapshot(t)' BY <1>3, <1>6, <1>13, SnapshotKept
<1>15. Progress(t)' BY <1>3, <1>12, <1>14 DEF Progress
<1>16. FilesSound' BY <1>2, FilesKeep
<1>. QED BY <1>2, <1>5, <1>15, <1>16, QuietData

(* The snapshot tmp[] of the own minor. *)
LEMMA WLoadData ==
    ASSUME OneWriter, TypeInv, DataInv, NEW t \in Threads, WLoad(t), UNCHANGED <<dev, file>>,
           Moves(t)
    PROVE  DataInv'
<1> DEFINE th == thread[t]
<1>1. CallOK(th) /\ th.pc = "w_load" /\ th.dev \in Minors
  BY DEF TypeInv, CallOK, CallType, WLoad, At
<1>2. Still /\ FilesSound' /\ Grows BY SameStill, FilesKeep, StillKeeps DEF DataInv
<1>3. /\ thread'[t].pc = "w_snap" /\ thread'[t].dev = th.dev /\ thread'[t].off = th.off
      /\ thread'[t].len = th.len /\ thread'[t].i = th.i
      /\ thread'[t].k = 0 /\ thread'[t].n = dev[th.dev].size
  BY <1>1 DEF WLoad, LoadSize, TypeInv, TypeOK, CallOK, CallType
<1>4. Placed(t)' /\ Sound(t)'
  BY <1>1, <1>2, <1>3, LaterSound DEF Keeps, LaterPcs, WritePcs
<1>5. Passed(t)' BY <1>1, <1>3, SMTT(20), ZenonT(30) DEF DataInv, Progress, Passed, Has, Alike
<1>6. Progress(t)' BY <1>3, <1>5, DriverAssumption DEF Progress, Snapped, Cells
<1>. QED BY <1>2, <1>4, <1>6, QuietData

LEMMA WSnapData ==
    ASSUME OneWriter, TypeInv, DataInv, NEW t \in Threads, WSnap(t), UNCHANGED <<dev, file>>,
           Moves(t)
    PROVE  DataInv'
<1> DEFINE th == thread[t]
           b  == dev[th.dev].buffer[th.k]
<1>1. CallOK(th) /\ th.pc = "w_snap" /\ th.dev \in Minors /\ th.k # th.n
  BY DEF TypeInv, CallOK, CallType, WSnap, At, Copied
<1>2. Still /\ FilesSound' /\ Grows BY SameStill, FilesKeep, StillKeeps DEF DataInv
<1>3. /\ thread'[t].pc = "w_snap" /\ thread'[t].dev = th.dev /\ thread'[t].off = th.off
      /\ thread'[t].len = th.len /\ thread'[t].i = th.i
      /\ thread'[t].k = th.k + 1 /\ thread'[t].n = th.n
  BY <1>1 DEF WSnap, Fetch, TypeInv, TypeOK, CallOK, CallType
<1>4. th.k \in Cells
  BY <1>1, DriverAssumption DEF CallOK, CallType, Cells, WritePcs
<1>5. \A c \in Cells : thread'[t].buf[c] = IF c = th.k THEN b ELSE th.buf[c]
  BY <1>1, <1>4 DEF WSnap, Fetch, TypeInv, TypeOK, CallOK, CallType
<1>6. Placed(t)' /\ Sound(t)'
  BY <1>1, <1>2, <1>3, LaterSound DEF Keeps, LaterPcs, WritePcs
<1>7. Passed(t) /\ th.n = dev[th.dev].size /\ Snapped(t, th.k)
  BY <1>1 DEF DataInv, Progress
<1>8. Passed(t)' BY <1>3, <1>7 DEF Passed, Has, Alike
<1>9. \A c \in Cells : c < th.k + 1 => thread'[t].buf[c] = dev[th.dev].buffer[c]
  BY <1>4, <1>5, <1>7, DriverAssumption DEF Snapped, Cells
<1>10. Snapped(t, thread[t].k)' BY <1>3, <1>9 DEF Snapped
<1>11. Progress(t)' BY <1>3, <1>7, <1>8, <1>10 DEF Progress
<1>. QED BY <1>2, <1>6, <1>11, QuietData

(* At the head of the loop tmp[] holds the whole content of the own minor.     *)
LEMMA AtLoopData ==
    ASSUME TypeInv, DataInv, NEW t \in Threads, AtLoop(t)
    PROVE  Passed(t) /\ Snapshot(t) /\ thread[t].pc \in {"b_load", "w_snap"}
BY DEF DataInv, Progress, AtLoop, At, Copied, Snapshot

LEMMA BLoadData ==
    ASSUME OneWriter, TypeInv, DataInv, NEW t \in Threads, BLoad(t), UNCHANGED <<dev, file>>,
           Moves(t)
    PROVE  DataInv'
<1> DEFINE th == thread[t]
<1>1. CallOK(th) /\ th.pc \in {"b_load", "w_snap"} /\ th.dev \in Minors
  BY AtLoopData DEF TypeInv, CallOK, CallType, BLoad
<1>2. Still /\ FilesSound' /\ Grows BY SameStill, FilesKeep, StillKeeps DEF DataInv
<1>3. /\ thread'[t].pc = "b_copy" /\ thread'[t].dev = th.dev /\ thread'[t].off = th.off
      /\ thread'[t].len = th.len /\ thread'[t].i = th.i /\ thread'[t].buf = th.buf
      /\ thread'[t].k = 0 /\ thread'[t].n = dev[th.dev].size
  BY <1>1 DEF BLoad, LoadSize, TypeInv, TypeOK, CallOK, CallType
<1>4. Placed(t)' /\ Sound(t)'
  BY <1>1, <1>2, <1>3, LaterSound DEF Keeps, LaterPcs, WritePcs
<1>5. Passed(t) /\ Snapshot(t) BY AtLoopData DEF BLoad
<1>6. Passed(t)' /\ Snapshot(t)' BY <1>3, <1>5 DEF Passed, Has, Alike, Snapshot, Snapped
<1>7. Progress(t)' BY <1>3, <1>6, DriverAssumption DEF Progress, Given, Cells
<1>. QED BY <1>2, <1>4, <1>7, QuietData

(* A broadcast writes no zero: below the size, tmp[] is the own minor's bytes. *)
LEMMA BCopyData ==
    ASSUME OneWriter, TypeInv, DataInv, NEW t \in Threads, BCopy(t), UNCHANGED file, Moves(t)
    PROVE  DataInv'
<1> DEFINE th == thread[t]
           b  == th.buf[th.k]
<1>1. /\ CallOK(th) /\ th.pc = "b_copy" /\ th.dev \in Minors /\ th.i \in Minors
      /\ th.k # th.n
  BY DEF TypeInv, CallOK, CallType, BCopy, At, Copied
<1>2. /\ Passed(t) /\ Snapshot(t) /\ th.n = dev[th.dev].size /\ Given(t, th.k)
      /\ th.i # th.dev
  BY <1>1 DEF DataInv, Progress, Passed
<1>3. th.k \in Cells /\ th.k < dev[th.dev].size
  BY <1>1, <1>2, DriverAssumption DEF CallOK, CallType, Cells
<1>4. b = dev[th.dev].buffer[th.k] /\ b # 0
  BY <1>1, <1>2, <1>3 DEF Snapshot, Snapped, DataInv, HoleFree
<1>5. /\ \A m \in Minors : m # th.i => dev'[m] = dev[m]
      /\ dev'[th.i].size = dev[th.i].size
      /\ \A c \in Cells : dev'[th.i].buffer[c] = IF c = th.k THEN b ELSE dev[th.i].buffer[c]
  BY <1>1 DEF BCopy, Put, TypeInv, TypeOK, DevType
<1>6. /\ thread'[t].pc = "b_copy" /\ thread'[t].dev = th.dev /\ thread'[t].off = th.off
      /\ thread'[t].len = th.len /\ thread'[t].i = th.i /\ thread'[t].buf = th.buf
      /\ thread'[t].k = th.k + 1 /\ thread'[t].n = th.n
  BY <1>1 DEF BCopy, Put, TypeInv, TypeOK, CallOK, CallType
<1>7. Grows BY <1>4, <1>5 DEF Grows
<1>8. HoleFree' BY <1>5, <1>7 DEF DataInv, HoleFree, Grows
<1>9. Placed(t)' /\ Sound(t)'
  BY <1>1, <1>6, <1>7, LaterSound DEF Keeps, LaterPcs, WritePcs
<1>10. \A m \in Minors : m # th.i => SameBytes(m) /\ dev'[m].data_ready = dev[m].data_ready
  BY <1>5 DEF SameBytes
<1>11. th.i \in Nat /\ \A m \in Minors : m < th.i => m # th.i
  BY <1>1, DriverAssumption DEF Minors
<1>12. Passed(t)' BY <1>2, <1>6, <1>10, <1>11, PassedKept
<1>13. Snapshot(t)' BY <1>1, <1>2, <1>6, <1>10, SnapshotKept
<1>14. dev'[th.dev] = dev[th.dev] BY <1>1, <1>2, <1>5
<1>15. \A c \in Cells : c < th.k + 1 => dev'[th.i].buffer[c] = dev[th.dev].buffer[c]
  <2> SUFFICES ASSUME NEW c \in Cells, c < th.k + 1
               PROVE  dev'[th.i].buffer[c] = dev[th.dev].buffer[c]
    OBVIOUS
  <2>1. c = th.k \/ c < th.k
    BY <1>3, DriverAssumption DEF Cells
  <2>2. CASE c = th.k
    BY <1>3, <1>4, <1>5, <2>2
  <2>3. CASE c # th.k
    BY <1>2, <1>5, <2>1, <2>3 DEF Given
  <2> QED
    BY <2>2, <2>3
<1>16. Given(t, thread[t].k)' BY <1>6, <1>14, <1>15 DEF Given
<1>17. Progress(t)' BY <1>2, <1>6, <1>12, <1>13, <1>14, <1>16 DEF Progress
<1>. QED BY <1>1, <1>7, <1>8, <1>9, <1>17, WriterData DEF WritePcs

LEMMA BSizeData ==
    ASSUME OneWriter, TypeInv, DataInv, NEW t \in Threads, BSize(t), UNCHANGED <<dev, file>>,
           Moves(t)
    PROVE  DataInv'
<1> DEFINE th == thread[t]
<1>1. CallOK(th) /\ th.pc = "b_copy" /\ th.dev \in Minors /\ th.k = th.n
  BY DEF TypeInv, CallOK, CallType, BSize, At, Copied
<1>2. Still /\ FilesSound' /\ Grows BY SameStill, FilesKeep, StillKeeps DEF DataInv
<1>3. /\ thread'[t].pc = "b_size" /\ thread'[t].dev = th.dev /\ thread'[t].off = th.off
      /\ thread'[t].len = th.len /\ thread'[t].i = th.i /\ thread'[t].buf = th.buf
      /\ thread'[t].n = dev[th.dev].size
  BY <1>1 DEF BSize, LoadSize, TypeInv, TypeOK, CallOK, CallType
<1>4. Placed(t)' /\ Sound(t)'
  BY <1>1, <1>2, <1>3, LaterSound DEF Keeps, LaterPcs, WritePcs
<1>5. /\ Passed(t) /\ Snapshot(t) /\ Given(t, dev[th.dev].size)
  BY <1>1 DEF DataInv, Progress
<1>6. Passed(t)' /\ Snapshot(t)' BY <1>3, <1>5 DEF Passed, Has, Alike, Snapshot, Snapped
<1>7. Given(t, dev[thread[t].dev].size)' BY <1>3, <1>5 DEF Given
<1>8. Progress(t)' BY <1>3, <1>6, <1>7 DEF Progress
<1>. QED BY <1>2, <1>4, <1>8, QuietData

LEMMA BStoreData ==
    ASSUME OneWriter, TypeInv, DataInv, NEW t \in Threads, BStore(t), UNCHANGED file, Moves(t)
    PROVE  DataInv'
<1> DEFINE th == thread[t]
<1>1. CallOK(th) /\ th.pc = "b_size" /\ th.dev \in Minors /\ th.i \in Minors
  BY DEF TypeInv, CallOK, CallType, BStore, At
<1>2. /\ Passed(t) /\ Snapshot(t) /\ th.n = dev[th.dev].size /\ Given(t, dev[th.dev].size)
      /\ th.i # th.dev
  BY <1>1 DEF DataInv, Progress, Passed
<1>3. /\ \A m \in Minors : m # th.i => dev'[m] = dev[m]
      /\ dev'[th.i].size = th.n /\ dev'[th.i].buffer = dev[th.i].buffer
  BY <1>1 DEF BStore, TypeInv, TypeOK, DevType
<1>4. /\ thread'[t].pc = "w_ready" /\ thread'[t].dev = th.dev /\ thread'[t].off = th.off
      /\ thread'[t].len = th.len /\ thread'[t].i = th.i /\ thread'[t].buf = th.buf
  BY <1>1 DEF BStore, TypeInv, TypeOK, CallOK, CallType
<1>5. Grows BY <1>3 DEF Grows
<1>6. dev'[th.dev] = dev[th.dev] BY <1>1, <1>2, <1>3
<1>7. HoleFree' BY <1>1, <1>2, <1>3 DEF DataInv, HoleFree, Given
<1>8. Placed(t)' /\ Sound(t)'
  BY <1>1, <1>4, <1>5, LaterSound DEF Keeps, LaterPcs, WritePcs
<1>9. \A m \in Minors : m # th.i => SameBytes(m) /\ dev'[m].data_ready = dev[m].data_ready
  BY <1>3 DEF SameBytes
<1>10. th.i \in Nat /\ \A m \in Minors : m < th.i => m # th.i
  BY <1>1, DriverAssumption DEF Minors
<1>11. Passed(t)' BY <1>2, <1>4, <1>9, <1>10, PassedKept
<1>12. Snapshot(t)' BY <1>1, <1>2, <1>4, <1>9, SnapshotKept
<1>13. Alike(thread[t].i, thread[t].dev)' BY <1>2, <1>3, <1>4, <1>6 DEF Alike, Given
<1>14. Progress(t)' BY <1>4, <1>11, <1>12, <1>13 DEF Progress
<1>. QED BY <1>1, <1>5, <1>7, <1>8, <1>14, WriterData DEF WritePcs

LEMMA WCommitData ==
    ASSUME OneWriter, TypeInv, Exclusive, DataInv, NEW t \in Threads, WCommit(t),
           UNCHANGED dev, Moves(t)
    PROVE  DataInv'
<1> DEFINE th == thread[t]
<1>1. CallOK(th) /\ th.pc \in {"b_load", "w_snap"} BY AtLoopData DEF TypeInv, WCommit
<1>2. Filled(th.dev, th.off + th.len) /\ "write" \in Calls[t]
  BY <1>1 DEF DataInv, Sound, Placed, WritePcs
<1>3. th.off + th.len \in 0 .. MY_BUFFER_SIZE /\ th.len \in Int
  BY <1>1, DriverAssumption DEF CallOK, CallType, WritePcs
<1>4. FilesSound' BY <1>1, <1>2, <1>3, PosData DEF WCommit, InCall
<1>5. Placed(t)' /\ Sound(t)' /\ Progress(t)' BY <1>2, <1>3, ReturnData DEF WCommit
<1>. QED BY <1>4, <1>5, SameStill, QuietData

--------------------------------------------------------------------------------
(* The steps together. *)
LEMMA FaultData ==
    ASSUME TypeInv, DataInv, NEW t \in Threads, RFault(t), UNCHANGED <<dev, file>>, Moves(t)
    PROVE  DataInv'
<1>1. Still /\ FilesSound' BY SameStill, FilesKeep
<1>2. Placed(t)' /\ Sound(t)' /\ Progress(t)' BY ReturnData DEF RFault, EFAULT
<1>. QED BY <1>1, <1>2, QuietData

LEMMA NotTaken ==
    ASSUME OneWriter, DataInv, NEW t \in Threads
    PROVE  ~WFault(t) /\ ~IClear(t) /\ ~ISize(t) /\ ~IReady(t) /\ ~SStore(t)
BY DEF OneWriter, DataInv, Placed, WritePcs, WFault, IClear, ISize, IReady, SStore, At

LEMMA KernelData ==
    ASSUME OneWriter, TypeInv, Exclusive, DataInv, NEW t \in Threads,
           KernelStep(t) \/ Signal(t)
    PROVE  DataInv'
<1>1. CASE LocalStep(t)
  <2>1. Moves(t) /\ UNCHANGED <<dev, file>> BY <1>1, LocalMoves DEF LocalStep
  <2>2. CASE RCheck(t) \/ RWait(t) \/ RAwake(t) BY <2>1, <2>2, WaitData
  <2>3. CASE RLoad(t) BY <2>1, <2>3, RLoadData
  <2>4. CASE RCopy(t) BY <2>1, <2>4, RCopyData
  <2>5. CASE RFault(t) BY <2>1, <2>5, FaultData
  <2>6. CASE WLoad(t) BY <2>1, <2>6, WLoadData
  <2>7. CASE WSnap(t) BY <2>1, <2>7, WSnapData
  <2>8. CASE BLoad(t) BY <2>1, <2>8, BLoadData
  <2>9. CASE BSize(t) BY <2>1, <2>9, BSizeData
  <2>. QED BY <1>1, <2>2, <2>3, <2>4, <2>5, <2>6, <2>7, <2>8, <2>9 DEF LocalStep
<1>2. CASE DevStep(t)
  <2>1. Moves(t) /\ UNCHANGED file BY <1>2, StoreMoves DEF DevStep
  <2>2. CASE RPrepare(t) \/ RRecheck(t) BY <2>1, <2>2, WaitData
  <2>3. CASE WCopy(t) BY <2>1, <2>3, WCopyData
  <2>4. CASE WSize(t) BY <2>1, <2>4, WSizeData
  <2>5. CASE WReady(t) BY <2>1, <2>5, WReadyData
  <2>6. CASE WWake(t) BY <2>1, <2>6, WWakeData
  <2>7. CASE BCopy(t) BY <2>1, <2>7, BCopyData
  <2>8. CASE BStore(t) BY <2>1, <2>8, BStoreData
  <2>. QED BY <1>2, <2>2, <2>3, <2>4, <2>5, <2>6, <2>7, <2>8, NotTaken DEF DevStep
<1>3. CASE FileStep(t)
  <2>1. Moves(t) /\ UNCHANGED dev BY <1>3, FileMoves DEF FileStep
  <2>. QED BY <1>3, <2>1, RCommitData, WCommitData, NotTaken DEF FileStep
<1>4. CASE Signal(t) BY <1>4, SignalMoves, WaitData DEF Signal
<1>. QED BY <1>1, <1>2, <1>3, <1>4 DEF KernelStep

LEMMA InitData == Init => DataInv
<1> SUFFICES ASSUME Init PROVE DataInv
    OBVIOUS
<1>1. \A m \in Minors : dev[m].size = 0 BY DEF Init
<1>2. \A c \in Cells : ~(c < 0) BY DriverAssumption DEF Cells
<1>3. HoleFree BY <1>1, <1>2 DEF HoleFree
<1>4. FilesSound BY <1>2 DEF Init, FilesSound, Filled
<1>5. \A t \in Threads : thread[t].pc = "idle" BY DEF Init, Resting
<1>6. \A t \in Threads : Placed(t) /\ Sound(t) /\ Progress(t)
  BY <1>5 DEF Placed, Sound, Progress, EarlyPcs, WritePcs
<1>. QED BY <1>3, <1>4, <1>6 DEF DataInv

LEMMA NextData ==
    ASSUME OneWriter
    PROVE  TypeInv /\ Exclusive /\ DataInv /\ [Next]_vars => DataInv'
<1> SUFFICES ASSUME TypeInv, Exclusive, DataInv, [Next]_vars PROVE DataInv'
    OBVIOUS
<1>1. CASE UNCHANGED vars
  <2>1. UNCHANGED <<dev, file, thread>> BY <1>1 DEF vars
  <2>2. HoleFree' /\ FilesSound' BY <2>1 DEF DataInv, HoleFree, FilesSound, Filled
  <2>3. Still BY <2>1, SameStill
  <2>4. Grows BY <2>3, StillKeeps DEF DataInv
  <2>5. ASSUME NEW u \in Threads PROVE Placed(u)' /\ Sound(u)' /\ Progress(u)'
    <3>1. Placed(u)' BY <2>1 DEF DataInv, Placed
    <3>. QED BY <2>1, <2>3, <2>4, <3>1, OtherSound, OtherProgress DEF DataInv
  <2>. QED BY <2>2, <2>5 DEF DataInv
<1>2. ASSUME NEW t \in Threads, OpenClose(t) \/ Call(t) \/ Back(t) PROVE DataInv'
  BY <1>2, OpenCloseData, CallData, BackData
<1>3. ASSUME NEW t \in Threads, KernelStep(t) \/ Signal(t) PROVE DataInv'
  BY <1>3, KernelData
<1>4. ASSUME NEW f \in Files, Release(f) PROVE DataInv'
  BY <1>4, ReleaseData
<1>. QED BY <1>1, <1>2, <1>3, <1>4 DEF Next

LEMMA AlwaysData ==
    ASSUME OneWriter
    PROVE  Spec => [](TypeInv /\ Exclusive /\ DataInv)
<1>1. TypeInv /\ Exclusive /\ DataInv /\ [Next]_vars => DataInv' BY NextData
<1>. QED BY <1>1, InitData, AlwaysExclusive, PTL DEF Spec

(* Where one program writes and no other tool moves size or f_pos, no minor    *)
(* holds a hole below its size, at any point of a broadcast: tmp[] holds the   *)
(* writer's bytes when it is copied out, and a size is stored after its bytes. *)
THEOREM NoHoles ==
    ASSUME OneWriter
    PROVE  Spec => []HoleFree
<1>1. DataInv => HoleFree BY DEF DataInv
<1>. QED BY <1>1, AlwaysData, PTL

(* Then a read that overtakes the broadcast still returns only bytes that were *)
(* written: the size it loads once bounds what it copies.                      *)
THEOREM ReadersSeeWritten ==
    ASSUME OneWriter, ReadersLook
    PROVE  Spec => []ReadsWritten
<1>1. DataInv => ReadsWritten
  <2>. SUFFICES ASSUME DataInv, NEW t \in Threads, At(t, "returned")
                PROVE  Written(thread[t].buf, thread[t].ret)
       BY DEF ReadsWritten, Written
  <2>1. Placed(t) /\ Sound(t) BY DEF DataInv
  <2>2. "look" \in Calls[t] BY <2>1 DEF Placed, At
  <2>3. "write" \notin Calls[t] BY <2>2 DEF ReadersLook
  <2>. QED BY <2>1, <2>3 DEF Sound, At
<1>. QED BY <1>1, AlwaysData, PTL

(* A thread in the broadcast loop leaves my_write by the end of the loop, and   *)
(* no other step of anybody's takes it out.                                    *)
LEMMA CommitStep ==
    ASSUME TypeInv, [Next]_vars, NEW t \in Threads, AtLoop(t), ~InCall(t)'
    PROVE  WCommit(t) /\ UNCHANGED dev
<1>1. thread[t].pc \in {"b_load", "w_snap"} BY DEF AtLoop, At
<1>2. thread'[t] # thread[t] BY <1>1 DEF InCall
<1>3. /\ thread[t] \in CallType
      /\ Next
  BY <1>2 DEF TypeInv, TypeOK, vars
<1>4. \A u \in Threads : u # t =>
          ~OpenClose(u) /\ ~Call(u) /\ ~Back(u) /\ ~KernelStep(u) /\ ~Signal(u)
  BY <1>2, OpenCloseMoves, CallMoves, LocalMoves, StoreMoves, FileMoves, SignalMoves, MovesOne,
     RestingType DEF KernelStep, Back, Moves
<1>5. ~OpenClose(t) /\ ~Call(t) /\ ~Back(t) /\ ~Signal(t)
  BY <1>1 DEF OpenClose, Open, Close, Call, Read, Write, Reset, SetSize, Seek, CanUse, CanCall,
              At, Back, Signal, Interrupt
<1>6. \A f \in Files : ~Release(f) BY <1>2 DEF Release
<1>7. KernelStep(t) BY <1>3, <1>4, <1>5, <1>6 DEF Next
<1>8. ~LocalStep(t)
  <2>1. WSnap(t) => thread'[t].pc = "w_snap"
    BY <1>3 DEF WSnap, Fetch, At, TypeInv, TypeOK, CallType
  <2>2. BLoad(t) => thread'[t].pc = "b_copy"
    BY <1>3 DEF BLoad, LoadSize, TypeInv, TypeOK, CallType
  <2>. QED
    BY <1>1, <2>1, <2>2
       DEF LocalStep, RCheck, RWait, RAwake, RLoad, RCopy, RFault, WLoad, BSize, At, InCall
<1>9. ~DevStep(t)
  BY <1>1 DEF DevStep, RPrepare, RRecheck, WCopy, WFault, WSize, WReady, WWake, BCopy, BStore,
              IClear, ISize, IReady, At
<1>. QED BY <1>1, <1>7, <1>8, <1>9 DEF KernelStep, FileStep, RCommit, SStore, At

(* And when the write returns, every minor is ready and has its data and size, *)
(* whoever opened, read or closed while the loop ran.                          *)
THEOREM BroadcastsComplete ==
    ASSUME OneWriter
    PROVE  Spec => BroadcastComplete
<1>1. TypeInv /\ DataInv /\ [Next]_vars =>
          [\A t \in Threads : AtLoop(t) /\ ~InCall(t)' => Agree']_vars
  <2> SUFFICES ASSUME TypeInv, DataInv, [Next]_vars, NEW t \in Threads, AtLoop(t), ~InCall(t)'
               PROVE  Agree'
      OBVIOUS
  <2>1. WCommit(t) /\ UNCHANGED dev BY CommitStep
  <2>2. Passed(t) /\ thread[t].i = MY_MAX_MINORS BY <2>1, AtLoopData DEF WCommit
  <2>3. \A m \in Minors : Has(t, m) BY <2>2, DriverAssumption DEF Passed, Minors
  <2>4. thread[t].dev \in Minors BY DEF TypeInv, TypeOK, CallType
  <2>5. Agree BY <2>3, <2>4 DEF Agree, Has, Alike
  <2>. QED BY <2>1, <2>5 DEF Agree
<1>. QED BY <1>1, AlwaysData, PTL DEF BroadcastComplete, Spec
================================================================================
