------------------------------ MODULE CharDriver ------------------------------
(* The character device driver 04_char_driver/mychardev.c: the file operations *)
(* of the minors, called by threads that share open files, with one step per   *)
(* access to shared memory.  A step named R.. belongs to my_read, W.. and B..  *)
(* to my_write and its broadcast loop, I.. to my_ioctl, S.. to my_llseek.      *)
(* Nothing in the driver takes a lock, so every step may interleave.  A        *)
(* definition marked "variant" is a bug the properties are tried against; no   *)
(* action uses one.                                                            *)
EXTENDS Integers

CONSTANTS Threads,          \* the threads that make system calls
          Files, NoFile,    \* open file descriptions; a value that is none
          Fds,              \* thread -> the open files it has descriptors of
          MY_MAX_MINORS, MY_BUFFER_SIZE,
          Bytes,            \* payload bytes; 0 is the byte nobody wrote
          Counts,           \* byte counts the callers pass to read and write
          Calls             \* thread -> the calls it makes

(* Beside the calls: "nonblock" opens with O_NONBLOCK, "fault" passes bad      *)
(* addresses, "look" looks at what a call returned.                            *)
Ops == {"open", "close", "read", "write", "seek", "reset", "setsize",
        "nonblock", "fault", "look"}

ASSUME DriverAssumption ==
    /\ MY_MAX_MINORS \in Nat \ {0} /\ MY_BUFFER_SIZE \in Nat \ {0}
    /\ NoFile \notin Files /\ Fds \in [Threads -> SUBSET Files]
    /\ Bytes \subseteq Nat \ {0}
    /\ Counts \subseteq Nat
    /\ Calls \in [Threads -> SUBSET Ops]

VARIABLES dev,      \* devs[]: minor -> buffer, size, access, data_ready, wq
          file,     \* struct file: state, minor, f_pos, O_NONBLOCK
          thread    \* the call a thread is in, and its local variables

vars == <<dev, file, thread>>

Minors == 0 .. MY_MAX_MINORS - 1
Cells  == 0 .. MY_BUFFER_SIZE - 1
Byte   == Bytes \cup {0}
Blank  == [c \in Cells |-> 0]
Least(a, b) == IF a < b THEN a ELSE b

EBUSY == 16   EAGAIN == 11   EFAULT == 14   EINVAL == 22   ENOSPC == 28
ERESTARTSYS == 512

(* The call a thread is in: f and dev (private_data), off (the VFS's copy of   *)
(* f_pos), len and byte (the request), k (the next byte of a copy), n (the     *)
(* length of a memcpy), i (the minor a write publishes to), buf (the user      *)
(* buffer of a read, tmp[] of a write).                                        *)
Resting == [pc |-> "idle", f |-> NoFile, dev |-> 0, off |-> 0, len |-> 0, byte |-> 0,
            k |-> 0, n |-> 0, i |-> 0, buf |-> Blank, ret |-> 0]

Init ==
    /\ dev = [m \in Minors |-> [buffer |-> Blank, size |-> 0, access |-> 0,
                                data_ready |-> 0, wq |-> {}]]
    /\ file = [f \in Files |-> [state |-> "closed", minor |-> 0, pos |-> 0,
                                nonblock |-> FALSE]]
    /\ thread = [t \in Threads |-> Resting]

At(t, pc)        == thread[t].pc = pc
InCall(t)        == thread[t].pc \notin {"idle", "returned"}
BusyUnlessFlush(f) == FALSE     \* variant: access given back at close()
Busy(f)          == \E t \in Threads : InCall(t) /\ thread[t].f = f
Ready(t)         == dev[thread[t].dev].data_ready # 0
CanCall(t, op)   == At(t, "idle") /\ op \in Calls[t]
CanUse(t, op, f) == CanCall(t, op) /\ f \in Fds[t] /\ file[f].state = "open"

Enter(t, f, pc0, off0, len0, byte0) ==
    thread' = [thread EXCEPT ![t] =
                 [Resting EXCEPT !.pc = pc0, !.f = f, !.dev = file[f].minor, !.off = off0,
                                 !.len = len0, !.byte = byte0, !.i = file[f].minor]]
Goto(t, pc0)     == thread' = [thread EXCEPT ![t].pc = pc0]

(* The call returns r, and bytes to a reader, if the caller looks at all. *)
Yield(t, r, bytes) ==
    thread' = [thread EXCEPT ![t] =
                 IF "look" \in Calls[t]
                 THEN [Resting EXCEPT !.pc = "returned", !.ret = r, !.buf = bytes]
                 ELSE Resting]
Return(t, r) == Yield(t, r, Blank)

(* One byte of a copy: into the thread's buf, or out to a device buffer. *)
Fetch(t, b) == thread' = [thread EXCEPT ![t].k = @ + 1, ![t].buf[thread[t].k] = b]
Put(t, m, c, b) ==
    /\ dev' = [dev EXCEPT ![m].buffer[c] = b]
    /\ thread' = [thread EXCEPT ![t].k = @ + 1]

--------------------------------------------------------------------------------
(* open and close.  The VFS calls my_release once the last reference is gone:  *)
(* a call that is still in the driver holds one.                               *)
Open(t, f, m, nb) ==
    /\ CanCall(t, "open") /\ f \in Fds[t] /\ file[f].state = "closed"
    /\ IF dev[m].access # 0
       THEN Return(t, -EBUSY) /\ UNCHANGED <<dev, file>>
       ELSE /\ dev' = [dev EXCEPT ![m].access = 1]
            /\ file' = [file EXCEPT ![f] = [state |-> "open", minor |-> m, pos |-> 0,
                                            nonblock |-> nb]]
            /\ Return(t, 0)

DropAll(f) ==                   \* variant: the wrong minors' access
    /\ dev' = [m \in Minors |-> [dev[m] EXCEPT !.access = 0]]
    /\ file' = [file EXCEPT ![f].state = "closed"]
Drop(f) ==
    /\ dev' = [dev EXCEPT ![file[f].minor].access = 0]
    /\ file' = [file EXCEPT ![f].state = "closed"]

Close(t, f) ==
    /\ CanUse(t, "close", f)
    /\ IF Busy(f)
       THEN file' = [file EXCEPT ![f].state = "closing"] /\ UNCHANGED dev
       ELSE Drop(f)
    /\ Return(t, 0)

Release(f) == file[f].state = "closing" /\ ~Busy(f) /\ Drop(f) /\ UNCHANGED thread

--------------------------------------------------------------------------------
(* The entries of read, write, ioctl and lseek.  The VFS copies f_pos before   *)
(* read and write; lseek loads its base; they all change only the thread.      *)
Read(t, f, count) ==
    CanUse(t, "read", f) /\ Enter(t, f, "r_check", file[f].pos, count, 0)

Room(off) == MY_BUFFER_SIZE - off
Write(t, f, count, byte) ==
    /\ CanUse(t, "write", f)
    /\ LET off == file[f].pos IN
       IF off >= MY_BUFFER_SIZE
       THEN Return(t, -ENOSPC)
       ELSE Enter(t, f, "w_copy", off, Least(count, Room(off)), byte)

Reset(t, f) == CanUse(t, "reset", f) /\ Enter(t, f, "i_clear", 0, 0, 0)

SizeOffByOne(v) == 0 <= v /\ v <= MY_BUFFER_SIZE + 1     \* variant
SizeOk(v) == 0 <= v /\ v <= MY_BUFFER_SIZE
SetSize(t, f, v) ==
    /\ CanUse(t, "setsize", f)
    /\ \/ "fault" \in Calls[t] /\ Return(t, -EFAULT)
       \/ ~SizeOk(v) /\ Return(t, -EINVAL)
       \/ SizeOk(v) /\ Enter(t, f, "i_size", 0, v, 0)

Base(f, whence) == CASE whence = "SEEK_SET" -> 0
                     [] whence = "SEEK_CUR" -> file[f].pos
                     [] whence = "SEEK_END" -> dev[file[f].minor].size
Seek(t, f, whence, offset) ==
    /\ CanUse(t, "seek", f)
    /\ LET new == Base(f, whence) + offset IN
       IF SizeOk(new) THEN Enter(t, f, "s_store", new, 0, 0) ELSE Return(t, -EINVAL)

--------------------------------------------------------------------------------
(* my_read.  Look at data_ready for O_NONBLOCK, then wait_event_interruptible: *)
(* look without queueing, queue, look again, sleep.                            *)
RCheck(t) ==
    /\ At(t, "r_check")
    /\ IF ~Ready(t) /\ file[thread[t].f].nonblock THEN Return(t, -EAGAIN) ELSE Goto(t, "r_wait")

RWait(t) == At(t, "r_wait") /\ Goto(t, IF Ready(t) THEN "r_load" ELSE "r_prepare")

Enqueue(t) == dev' = [dev EXCEPT ![thread[t].dev].wq = @ \cup {t}]
Dequeue(t) == dev' = [dev EXCEPT ![thread[t].dev].wq = @ \ {t}]

RPrepare(t) == At(t, "r_prepare") /\ Enqueue(t) /\ Goto(t, "r_recheck")

RSleep(t) == At(t, "r_recheck") /\ Goto(t, "r_asleep") /\ UNCHANGED dev     \* variant
RRecheck(t) ==
    /\ At(t, "r_recheck")
    /\ IF Ready(t) THEN Dequeue(t) /\ Goto(t, "r_load") ELSE Goto(t, "r_asleep") /\ UNCHANGED dev

(* schedule() comes back once a wake-up took the thread off the queue, or at a *)
(* signal, which loses to data that is ready.                                  *)
RAwake(t) ==
    At(t, "r_asleep") /\ t \notin dev[thread[t].dev].wq /\ Goto(t, "r_prepare")

Interrupt(t) ==
    /\ At(t, "r_asleep") /\ Dequeue(t)
    /\ IF Ready(t) THEN Goto(t, "r_load") ELSE Return(t, -ERESTARTSYS)

(* The one load of dev->size; a length of 0 stands for the end of file. *)
NoEof(off, size, len)     == Least(size - off, len)                        \* variant
Uncapped(off, size, len)  == IF off >= size THEN 0 ELSE len                \* variant
Available(off, size, len) == IF off >= size THEN 0 ELSE Least(size - off, len)
RLoad(t) ==
    /\ At(t, "r_load")
    /\ thread' = [thread EXCEPT ![t].pc = "r_copy",
                    ![t].len = Available(thread[t].off, dev[thread[t].dev].size, @)]

RCopy(t) ==
    LET th == thread[t] IN
    /\ At(t, "r_copy") /\ th.k < th.len
    /\ Fetch(t, dev[th.dev].buffer[th.off + th.k])

RFault(t) ==
    At(t, "r_copy") /\ "fault" \in Calls[t] /\ thread[t].k < thread[t].len /\ Return(t, -EFAULT)

(* *offset += len, stored by the VFS; the caller has the length and the bytes. *)
RCommit(t) ==
    LET th == thread[t] IN
    /\ At(t, "r_copy") /\ th.k = th.len
    /\ file' = [file EXCEPT ![th.f].pos = th.off + th.len]
    /\ Yield(t, th.len, th.buf)

--------------------------------------------------------------------------------
(* my_write.  Copy in, then publish (size, data_ready, wake_up) on the own     *)
(* minor; a faulting copy_from_user clears what it could not copy.             *)
WCopy(t) ==
    LET th == thread[t] IN
    At(t, "w_copy") /\ th.k < th.len /\ Put(t, th.dev, th.off + th.k, th.byte)

WFault(t) ==
    LET th == thread[t] IN
    /\ At(t, "w_copy") /\ "fault" \in Calls[t] /\ th.k < th.len
    /\ dev' = [dev EXCEPT ![th.dev].buffer =
                 [c \in Cells |-> IF c \in th.off + th.k .. th.off + th.len - 1 THEN 0 ELSE @[c]]]
    /\ Return(t, -EFAULT)

WSize(t) ==
    LET th == thread[t] IN
    /\ At(t, "w_copy") /\ th.k = th.len
    /\ dev' = [dev EXCEPT ![th.dev].size = th.off + th.len]
    /\ thread' = [thread EXCEPT ![t].pc = "w_ready", ![t].byte = 0]

WReady(t) ==
    /\ At(t, "w_ready") /\ Goto(t, "w_wake")
    /\ dev' = [dev EXCEPT ![thread[t].i].data_ready = 1]

(* Skip is the loop's continue; the loop over the other minors starts from 0.  *)
Break(t, i) == IF i = thread[t].dev THEN MY_MAX_MINORS ELSE i     \* variant
Skip(t, i) == IF i = thread[t].dev THEN i + 1 ELSE i
WakeOwn(t, i) == dev' = [dev EXCEPT ![thread[t].dev].wq = {}]     \* variant
Wake(t, i)    == dev' = [dev EXCEPT ![i].wq = {}]
WWake(t) ==
    LET i == thread[t].i IN
    /\ At(t, "w_wake") /\ Wake(t, i)
    /\ thread' = [thread EXCEPT ![t].pc = IF i = thread[t].dev THEN "w_load" ELSE "b_load",
                    ![t].i = IF i = thread[t].dev THEN Skip(t, 0) ELSE Skip(t, i + 1)]

(* memcpy(tmp, dev->buffer, dev->size), then for each other minor the copy of  *)
(* tmp, size and data_ready: dev->size is loaded again for each.               *)
LoadSize(t, pc0) ==
    thread' = [thread EXCEPT ![t].pc = pc0, ![t].k = 0, ![t].n = dev[thread[t].dev].size]
CopiedShort(t) == thread[t].k + 1 >= thread[t].n     \* variant
Copied(t) == thread[t].k = thread[t].n
AtLoop(t) == At(t, "b_load") \/ (At(t, "w_snap") /\ Copied(t))

WLoad(t) == At(t, "w_load") /\ LoadSize(t, "w_snap")

WSnap(t) ==
    LET th == thread[t] IN
    At(t, "w_snap") /\ ~Copied(t) /\ Fetch(t, dev[th.dev].buffer[th.k])

BLoad(t) == AtLoop(t) /\ thread[t].i < MY_MAX_MINORS /\ LoadSize(t, "b_copy")

BCopy(t) ==
    LET th == thread[t] IN
    At(t, "b_copy") /\ ~Copied(t) /\ Put(t, th.i, th.k, th.buf[th.k])

BSize(t) == At(t, "b_copy") /\ Copied(t) /\ LoadSize(t, "b_size")

BStore(t) ==
    /\ At(t, "b_size")
    /\ dev' = [dev EXCEPT ![thread[t].i].size = thread[t].n]
    /\ thread' = [thread EXCEPT ![t].pc = "w_ready", ![t].n = 0]

WCommit(t) ==
    LET th == thread[t] IN
    /\ AtLoop(t) /\ th.i = MY_MAX_MINORS
    /\ file' = [file EXCEPT ![th.f].pos = th.off + th.len]
    /\ Return(t, th.len)

--------------------------------------------------------------------------------
(* my_ioctl and my_llseek.  RESET clears the buffer, then size and data_ready; *)
(* SETSIZE stores size, then data_ready, and wakes nobody.                     *)
IClear(t) ==
    LET th == thread[t] IN
    At(t, "i_clear") /\ th.k < MY_BUFFER_SIZE /\ Put(t, th.dev, th.k, 0)

ISize(t) ==
    /\ At(t, "i_size") \/ (At(t, "i_clear") /\ thread[t].k = MY_BUFFER_SIZE)
    /\ dev' = [dev EXCEPT ![thread[t].dev].size = thread[t].len]
    /\ Goto(t, "i_ready")

IReady(t) ==
    /\ At(t, "i_ready") /\ Return(t, 0)
    /\ dev' = [dev EXCEPT ![thread[t].dev].data_ready = IF thread[t].len > 0 THEN 1 ELSE 0]

SStore(t) ==
    LET th == thread[t] IN
    /\ At(t, "s_store") /\ Return(t, th.off)
    /\ file' = [file EXCEPT ![th.f].pos = th.off]

--------------------------------------------------------------------------------
OpenClose(t) ==
    \E f \in Files : \/ \E m \in Minors, nb \in BOOLEAN :
                           (nb => "nonblock" \in Calls[t]) /\ Open(t, f, m, nb)
                     \/ Close(t, f)

Call(t) ==
    /\ \E f \in Files :
          \/ \E count \in Counts : Read(t, f, count)
          \/ \E count \in Counts, byte \in Bytes : Write(t, f, count, byte)
          \/ Reset(t, f)
          \/ \E v \in -1 .. MY_BUFFER_SIZE + 1 : SetSize(t, f, v)
          \/ \E whence \in {"SEEK_SET", "SEEK_CUR", "SEEK_END"},
                offset \in -MY_BUFFER_SIZE .. MY_BUFFER_SIZE : Seek(t, f, whence, offset)
    /\ UNCHANGED <<dev, file>>

(* The caller has seen the result and is free to call again. *)
Back(t) == At(t, "returned") /\ thread' = [thread EXCEPT ![t] = Resting] /\ UNCHANGED <<dev, file>>

LocalStep(t) ==
    /\ \/ RCheck(t) \/ RWait(t) \/ RAwake(t) \/ RLoad(t) \/ RCopy(t) \/ RFault(t)
       \/ WLoad(t) \/ WSnap(t) \/ BLoad(t) \/ BSize(t)
    /\ UNCHANGED <<dev, file>>

DevStep(t) ==
    /\ \/ RPrepare(t) \/ RRecheck(t)
       \/ WCopy(t) \/ WFault(t) \/ WSize(t) \/ WReady(t) \/ WWake(t) \/ BCopy(t) \/ BStore(t)
       \/ IClear(t) \/ ISize(t) \/ IReady(t)
    /\ UNCHANGED file

FileStep(t) == (RCommit(t) \/ WCommit(t) \/ SStore(t)) /\ UNCHANGED dev

KernelStep(t) == LocalStep(t) \/ DevStep(t) \/ FileStep(t)
Signal(t)     == Interrupt(t) /\ UNCHANGED file

Next ==
    \/ \E t \in Threads : OpenClose(t) \/ Call(t) \/ Back(t) \/ KernelStep(t) \/ Signal(t)
    \/ \E f \in Files : Release(f)

Spec == Init /\ [][Next]_vars

(* The scheduler runs every runnable thread; a thread asleep on a wait queue   *)
(* is not runnable and has no step of its own until it is woken.               *)
FairSpec == Spec /\ \A t \in Threads : WF_vars(KernelStep(t))

--------------------------------------------------------------------------------
(* Every variable has the type its declaration gives it, and sizes, positions  *)
(* and the offsets of calls stay within the buffer.                            *)
Pcs == {"idle", "returned", "i_clear", "i_size", "i_ready", "s_store",
        "r_check", "r_wait", "r_prepare", "r_recheck", "r_asleep", "r_load", "r_copy",
        "w_copy", "w_ready", "w_wake", "w_load", "w_snap", "b_load", "b_copy", "b_size"}

DevType  == [buffer : [Cells -> Byte], size : 0 .. MY_BUFFER_SIZE,
             access : {0, 1}, data_ready : {0, 1}, wq : SUBSET Threads]
FileType == [state : {"closed", "open", "closing"}, minor : Minors,
             pos : 0 .. MY_BUFFER_SIZE, nonblock : BOOLEAN]
CallType == [pc : Pcs, f : Files \cup {NoFile}, dev : Minors, off : 0 .. MY_BUFFER_SIZE,
             len : Nat, byte : Byte, k : 0 .. MY_BUFFER_SIZE, n : 0 .. MY_BUFFER_SIZE,
             i : 0 .. MY_MAX_MINORS, buf : [Cells -> Byte], ret : Int]

TypeOK == /\ dev \in [Minors -> DevType]
          /\ file \in [Files -> FileType]
          /\ thread \in [Threads -> CallType]

(* No copy leaves a buffer: copy_to_user, copy_from_user and the two memcpy    *)
(* calls touch only bytes of devs[].buffer and of tmp[MY_BUFFER_SIZE], however *)
(* SETSIZE, lseek and other writers move size and f_pos meanwhile.             *)
CopyInBounds ==
    \A t \in Threads : LET th == thread[t] IN
        /\ At(t, "r_copy") \/ At(t, "w_copy") => th.off + th.len <= MY_BUFFER_SIZE
        /\ At(t, "w_snap") \/ At(t, "b_copy") => th.k <= th.n /\ th.n <= MY_BUFFER_SIZE

(* The calls inside the driver at the same time on one minor all use one open  *)
(* file: a minor is not handed to another opener while a call of the previous  *)
(* one still reads, writes or sleeps there.                                    *)
OneFilePerMinor ==
    \A t, u \in Threads :
        InCall(t) /\ InCall(u) /\ thread[t].dev = thread[u].dev
            => thread[t].f = thread[u].f

(* access, a compare-and-exchange and a store, implements an exclusive lock.   *)
Holders == [m \in Minors |-> {f \in Files : file[f].state # "closed" /\ file[f].minor = m}]
Lock == INSTANCE MinorLock WITH holders <- Holders
LockSpec == Lock!Spec

(* A reader asleep on the queue of a minor whose data is ready is about to be  *)
(* woken: some writer has set data_ready and not yet called wake_up.  (False   *)
(* as soon as a program uses SETSIZE, which sets data_ready and wakes nobody.) *)
NoLostWakeup ==
    \A t \in Threads : LET m == thread[t].dev IN
        At(t, "r_asleep") /\ t \in dev[m].wq /\ dev[m].data_ready # 0 =>
            \E u \in Threads : At(u, "w_wake") /\ thread[u].i = m

(* Every call comes out of the driver or is a read of a minor with no data.    *)
WaitsForData(t) == At(t, "r_asleep") /\ ~Ready(t)
CallEnds == \A t \in Threads : []<>(~InCall(t) \/ WaitsForData(t))

(* Below size, every minor holds bytes that some write put there: a broadcast  *)
(* gives the other minors the writer's data and not what tmp happened to hold. *)
HoleFree == \A m \in Minors, c \in Cells : c < dev[m].size => dev[m].buffer[c] # 0

(* What a read returns are bytes that some write put there. *)
ReadsWritten ==
    \A t \in Threads : At(t, "returned") =>
        \A c \in Cells : c < thread[t].ret => thread[t].buf[c] # 0

(* When a write returns, every minor has the data, the size and data_ready of  *)
(* the writer's.                                                               *)
Agree ==
    \A m, o \in Minors :
        /\ dev[m].size = dev[o].size /\ dev[m].data_ready = 1
        /\ \A c \in Cells : c < dev[m].size => dev[m].buffer[c] = dev[o].buffer[c]
BroadcastComplete == [][\A t \in Threads : AtLoop(t) /\ ~InCall(t)' => Agree']_vars

================================================================================
