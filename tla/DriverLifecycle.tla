---------------------------- MODULE DriverLifecycle ----------------------------
(* Loading and unloading of the driver (my_init and my_exit of mychardev.c)    *)
(* and its device nodes: action_driver_nodes of gui_app/app.py, run by several *)
(* threads of the GUI's server, while users open the nodes.  What the open     *)
(* files then do is CharDriver's business.                                     *)
EXTENDS Integers

CONSTANTS MY_MAX_MINORS, Handlers      \* the minors; the threads of the GUI

ASSUME LifecycleAssumption == MY_MAX_MINORS \in Nat \ {0}

VARIABLES module,    \* where insmod or rmmod is, and its loop variable i
          region,    \* register_chrdev_region was successful
          minor,     \* minor -> set up (wq, access, size, data_ready), cdev added, open
          node,      \* minor -> /dev/mychardevN: its kind and mode
          h          \* thread -> where action_driver_nodes is
vars == <<module, region, minor, node, h>>

Minors  == 0 .. MY_MAX_MINORS - 1
Blank   == [ready |-> FALSE, cdev |-> FALSE, open |-> FALSE]
NoNode  == [kind |-> "none", rw |-> FALSE]
Absent  == [pc |-> "absent", i |-> 0]
Resting == [pc |-> "idle", k |-> 0]

(* Nodes outlive the module, and something else may be at their path. *)
Init ==
    /\ module = Absent /\ region = FALSE
    /\ minor = [m \in Minors |-> Blank]
    /\ node \in [Minors -> {NoNode, [kind |-> "other", rw |-> FALSE], [kind |-> "ours", rw |-> FALSE]}]
    /\ h = [w \in Handlers |-> Resting]

--------------------------------------------------------------------------------
(* my_init: the region, then each minor's fields and its cdev, which makes the *)
(* minor live at once; when cdev_add fails the earlier ones are taken back.  A *)
(* file opened meanwhile stays with the module that failed to load: it is no   *)
(* reference to the next one.                                                  *)
To(pc, i) == module' = [pc |-> pc, i |-> i]
Unused    == UNCHANGED <<region, minor>>

Insmod ==
    /\ module.pc = "absent" /\ To("region", 0)
    /\ minor' = [m \in Minors |-> [minor[m] EXCEPT !.ready = FALSE]]
    /\ UNCHANGED region

Register ==
    /\ module.pc = "region" /\ UNCHANGED minor
    /\ \/ module' = Absent /\ UNCHANGED region
       \/ To("setup", 0) /\ region' = TRUE

SetupPast ==                                                         \* variant
    /\ module.pc = "setup" /\ module.i <= MY_MAX_MINORS
    /\ minor' = [minor EXCEPT ![module.i].ready = TRUE]
    /\ To("add", module.i) /\ UNCHANGED region
Setup ==
    /\ module.pc = "setup" /\ module.i < MY_MAX_MINORS
    /\ minor' = [minor EXCEPT ![module.i].ready = TRUE]
    /\ To("add", module.i) /\ UNCHANGED region

Add ==
    /\ module.pc = "add"
    /\ \/ To("undo", module.i - 1) /\ Unused
       \/ /\ minor' = [minor EXCEPT ![module.i].cdev = TRUE]
          /\ To("setup", module.i + 1) /\ UNCHANGED region

Loaded == module.pc = "setup" /\ module.i = MY_MAX_MINORS /\ To("live", 0) /\ Unused

DoneEarly(i) == i <= 0                                              \* variant
Done(i)      == i < 0
Undo ==
    /\ module.pc = "undo"
    /\ IF Done(module.i)
       THEN /\ module' = Absent /\ region' = FALSE
            /\ minor' = [m \in Minors |-> [minor[m] EXCEPT !.open = FALSE]]
       ELSE /\ minor' = [minor EXCEPT ![module.i].cdev = FALSE]
            /\ To("undo", module.i - 1) /\ UNCHANGED region

(* rmmod is refused while a file is open (.owner); my_exit undoes every minor. *)
InUse    == \E m \in Minors : minor[m].open
NotInUse == FALSE                                                   \* variant
Busy     == InUse
Rmmod == module.pc = "live" /\ ~Busy /\ To("exit", 0) /\ Unused

Exit ==
    /\ module.pc = "exit"
    /\ IF module.i = MY_MAX_MINORS
       THEN module' = Absent /\ region' = FALSE /\ UNCHANGED minor
       ELSE /\ minor' = [minor EXCEPT ![module.i].cdev = FALSE]
            /\ To("exit", module.i + 1) /\ UNCHANGED region

Kernel == \/ Insmod \/ Register \/ Setup \/ Add \/ Loaded \/ Undo \/ Rmmod \/ Exit

--------------------------------------------------------------------------------
(* The users of the nodes.  Opening takes a reference to the module, which     *)
(* works while it is loading but not while it is going.                        *)
Going == module.pc = "exit"
Open(m) ==
    /\ node[m].kind = "ours" /\ minor[m].cdev /\ ~minor[m].open /\ ~Going
    /\ minor' = [minor EXCEPT ![m].open = TRUE]
    /\ UNCHANGED <<module, region, node, h>>

Close(m) ==
    /\ minor[m].open
    /\ minor' = [minor EXCEPT ![m].open = FALSE]
    /\ UNCHANGED <<module, region, node, h>>

(* mknod in a terminal, and rm, which the guide puts at the end of all tests.  *)
Mknod(m) ==
    /\ node[m].kind = "none"
    /\ node' = [node EXCEPT ![m].kind = "ours"]
    /\ UNCHANGED <<module, region, minor, h>>

Rm(m) ==
    /\ \A w \in Handlers : h[w].pc = "idle"
    /\ node' = [node EXCEPT ![m] = NoNode]
    /\ UNCHANGED <<module, region, minor, h>>

--------------------------------------------------------------------------------
(* action_driver_nodes: look at each node, make it when it is not there, check *)
(* it when it is; then chmod 666 the lot.  A sudo that times out may have had  *)
(* its effect.                                                                 *)
At(w, pc)      == h[w].pc = pc
Goto(w, pc, k) == h' = [h EXCEPT ![w] = [pc |-> pc, k |-> k]]
Answer(w)      == h' = [h EXCEPT ![w] = Resting]
Advance(w)     == Goto(w, "stat", h[w].k + 1)

Request(w) == At(w, "idle") /\ Goto(w, "stat", 0) /\ UNCHANGED node

StatUnchecked(w) ==                                                 \* variant
    /\ At(w, "stat") /\ h[w].k < MY_MAX_MINORS /\ UNCHANGED node
    /\ IF node[h[w].k].kind = "none" THEN Goto(w, "mknod", h[w].k) ELSE Advance(w)
Stat(w) ==
    /\ At(w, "stat") /\ h[w].k < MY_MAX_MINORS /\ UNCHANGED node
    /\ CASE node[h[w].k].kind = "none" -> Goto(w, "mknod", h[w].k)
         [] node[h[w].k].kind = "ours" -> Advance(w)
         [] node[h[w].k].kind = "other" -> Answer(w)

Make(w) ==
    LET made == [node EXCEPT ![h[w].k] = [kind |-> "ours", rw |-> TRUE]] IN
    /\ At(w, "mknod")
    /\ \/ node[h[w].k].kind = "none" /\ node' = made /\ (Advance(w) \/ Answer(w))
       \/ Answer(w) /\ UNCHANGED node

Stats(w) == At(w, "stat") /\ h[w].k = MY_MAX_MINORS /\ Goto(w, "chmod", 0) /\ UNCHANGED node

Chmod(w) ==
    /\ At(w, "chmod") /\ h[w].k < MY_MAX_MINORS
    /\ \/ /\ node[h[w].k].kind # "none"
          /\ node' = [node EXCEPT ![h[w].k].rw = TRUE]
          /\ Goto(w, "chmod", h[w].k + 1)
       \/ Answer(w) /\ UNCHANGED node

ReplyOk(w) == At(w, "chmod") /\ h[w].k = MY_MAX_MINORS /\ Answer(w) /\ UNCHANGED node

Gui(w) == Request(w) \/ Stat(w) \/ Make(w) \/ Stats(w) \/ Chmod(w) \/ ReplyOk(w)

Next ==
    \/ Kernel /\ UNCHANGED <<node, h>>
    \/ \E m \in Minors : Open(m) \/ Close(m) \/ Mknod(m) \/ Rm(m)
    \/ \E w \in Handlers : Gui(w) /\ UNCHANGED <<module, region, minor>>

Spec == Init /\ [][Next]_vars

--------------------------------------------------------------------------------
(* Every variable has its type; a loop variable is where its loop can be. *)
TypeOK ==
    /\ module \in [pc : {"absent", "region", "setup", "add", "undo", "live", "exit"},
                   i : -1 .. MY_MAX_MINORS]
    /\ region \in BOOLEAN
    /\ minor \in [Minors -> [ready : BOOLEAN, cdev : BOOLEAN, open : BOOLEAN]]
    /\ node \in [Minors -> [kind : {"none", "other", "ours"}, rw : BOOLEAN]]
    /\ h \in [Handlers -> [pc : {"idle", "stat", "mknod", "chmod"}, k : 0 .. MY_MAX_MINORS]]

(* my_init leaves nothing behind when it fails, wherever that is, and my_exit  *)
(* takes back everything: without the module there is no region and no cdev.   *)
Unwound == module.pc \in {"absent", "region"} => ~region /\ \A m \in Minors : ~minor[m].cdev

(* Once the module is loaded, it stays complete for whoever has a file open:   *)
(* region, cdevs and fields of all minors, the ones a broadcast writes to.     *)
Complete == region /\ \A m \in Minors : minor[m].ready /\ minor[m].cdev
OpenServed == [][module.pc = "live" /\ InUse => module'.pc = "live" /\ Complete']_vars

(* "Da cap quyen rw-rw-rw- cho ca hai device node": when the GUI says so, both *)
(* nodes are there, with the driver's numbers and everybody's permission, also *)
(* when others made them meanwhile.                                            *)
NodesReady ==
    [][\A w \in Handlers :
         ReplyOk(w) => \A m \in Minors : node[m] = [kind |-> "ours", rw |-> TRUE]]_vars

================================================================================
