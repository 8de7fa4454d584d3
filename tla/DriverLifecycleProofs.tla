------------------------- MODULE DriverLifecycleProofs -------------------------
(* Proofs about DriverLifecycle for any number of minors and of threads of the *)
(* GUI: loading and unloading leave nothing behind, an open file keeps the     *)
(* driver, and the GUI reports only nodes that are ready.                      *)
EXTENDS DriverLifecycle, TLAPS

(* The loops of my_init and my_exit: which minors are set up, and which have   *)
(* their cdev, at each position of the loop variable.                          *)
SetUpTo(i) == \A m \in Minors : m < i => minor[m].ready /\ minor[m].cdev
NoneFrom(i) == \A m \in Minors : m >= i => ~minor[m].cdev
NoneBelow(i) == \A m \in Minors : m < i => ~minor[m].cdev

Loops ==
    LET i == module.i IN
    /\ module.pc \in {"absent", "region"} => ~region /\ NoneFrom(0)
    /\ module.pc = "setup" => region /\ i >= 0 /\ SetUpTo(i) /\ NoneFrom(i)
    /\ module.pc = "add" => /\ region /\ i \in Minors /\ minor[i].ready
                            /\ SetUpTo(i) /\ NoneFrom(i)
    /\ module.pc = "undo" => i < MY_MAX_MINORS /\ NoneFrom(i + 1)
    /\ module.pc = "live" => Complete
    /\ module.pc = "exit" => i >= 0 /\ NoneBelow(i)

(* The loops of action_driver_nodes: which nodes it has seen to, while there   *)
(* is a thread in it nobody removes a node.                                    *)
Ours(i) == \A m \in Minors : m < i => node[m].kind = "ours"
Open666(i) == \A m \in Minors : m < i => node[m].rw
Seen ==
    \A w \in Handlers :
        LET k == h[w].k IN
        /\ h[w].pc = "stat" => Ours(k)
        /\ h[w].pc = "mknod" => Ours(k) /\ k < MY_MAX_MINORS
        /\ h[w].pc = "chmod" => Ours(MY_MAX_MINORS) /\ Open666(k)

MinorType == [ready : BOOLEAN, cdev : BOOLEAN, open : BOOLEAN]
NodeType  == [kind : {"none", "other", "ours"}, rw : BOOLEAN]

--------------------------------------------------------------------------------
(* One step of the kernel keeps the types and the loop invariants. *)
LEMMA KernelStep ==
    ASSUME TypeOK, Loops, Kernel
    PROVE  Loops' /\ module' \in [pc : {"absent", "region", "setup", "add", "undo", "live", "exit"},
                                  i : -1 .. MY_MAX_MINORS]
                  /\ region' \in BOOLEAN /\ minor' \in [Minors -> MinorType]
<1>1. MY_MAX_MINORS \in Nat \ {0} BY LifecycleAssumption
<1>2. minor \in [Minors -> MinorType] BY DEF TypeOK, MinorType
<1> DEFINE Types == /\ module' \in [pc : {"absent", "region", "setup", "add", "undo", "live", "exit"},
                                    i : -1 .. MY_MAX_MINORS]
                    /\ region' \in BOOLEAN /\ minor' \in [Minors -> MinorType]
<1> DEFINE Goal == Loops' /\ Types
<1>3. CASE Insmod
  <2>1. \A m \in Minors : minor'[m] = [minor[m] EXCEPT !.ready = FALSE] BY <1>3 DEF Insmod
  <2>2. \A m \in Minors : minor'[m] \in MinorType /\ minor'[m].cdev = minor[m].cdev
    BY <2>1, <1>2 DEF MinorType
  <2>3. Types BY <2>2, <1>1, <1>3 DEF Insmod, To, TypeOK
  <2>4. Loops' BY <2>2, <1>1, <1>3 DEF Insmod, To, Loops, NoneFrom
  <2> QED BY <2>3, <2>4
<1>4. CASE Register
  <2>1. ~region /\ NoneFrom(0) BY <1>4 DEF Register, Loops
  <2>2. CASE module' = Absent /\ UNCHANGED region
    <3>1. Types BY <2>2, <1>1, <1>2, <1>4 DEF Register, Absent, TypeOK
    <3>2. Loops' BY <2>1, <2>2, <1>4 DEF Register, Absent, Loops, NoneFrom
    <3> QED BY <3>1, <3>2
  <2>3. CASE To("setup", 0) /\ region' = TRUE
    <3>1. Types BY <2>3, <1>1, <1>2, <1>4 DEF Register, To
    <3>2. Loops' BY <2>1, <2>3, <1>1, <1>4 DEF Register, To, Loops, NoneFrom, SetUpTo, Minors
    <3> QED BY <3>1, <3>2
  <2> QED BY <2>2, <2>3, <1>4 DEF Register
<1>5. CASE Setup
  <2> DEFINE i == module.i
  <2>1. i \in Minors /\ region BY <1>1, <1>5 DEF Setup, TypeOK, Loops, Minors
  <2>2. \A m \in Minors : minor'[m] = IF m = i THEN [minor[m] EXCEPT !.ready = TRUE] ELSE minor[m]
    BY <1>2, <1>5 DEF Setup
  <2>3. \A m \in Minors : /\ minor'[m] \in MinorType /\ minor'[m].cdev = minor[m].cdev
                          /\ m # i => minor'[m].ready = minor[m].ready
    BY <2>2, <1>2 DEF MinorType
  <2>4. minor'[i].ready BY <2>1, <2>2, <1>2 DEF MinorType
  <2>5. Types
    <3>1. minor' \in [Minors -> MinorType] BY <2>3, <1>2, <1>5 DEF Setup
    <3> QED BY <3>1, <2>1, <1>1, <1>5 DEF Setup, To, TypeOK, Minors
  <2>6. Loops'
    <3>1. module' = [pc |-> "add", i |-> i] /\ region' = region BY <1>5 DEF Setup, To
    <3>2. SetUpTo(i) /\ NoneFrom(i) BY <1>5 DEF Setup, Loops
    <3>3. \A m \in Minors : m < i => minor'[m].ready /\ minor'[m].cdev
      BY <3>2, <2>1, <2>3 DEF SetUpTo, Minors
    <3>4. \A m \in Minors : m >= i => ~minor'[m].cdev BY <3>2, <2>3 DEF NoneFrom
    <3> QED BY <3>1, <3>3, <3>4, <2>1, <2>4 DEF Loops, SetUpTo, NoneFrom
  <2> QED BY <2>5, <2>6
<1>6. CASE Add
  <2> DEFINE i == module.i
  <2>1. i \in Minors /\ region /\ minor[i].ready /\ SetUpTo(i) /\ NoneFrom(i)
    BY <1>6 DEF Add, Loops
  <2>2. CASE To("undo", i - 1) /\ Unused
    BY <2>1, <2>2, <1>1, <1>2 DEF To, Unused, Loops, NoneFrom, Minors, TypeOK
  <2>3. CASE /\ minor' = [minor EXCEPT ![i].cdev = TRUE]
             /\ To("setup", i + 1) /\ UNCHANGED region
    <3>1. \A m \in Minors : minor'[m] = IF m = i THEN [minor[m] EXCEPT !.cdev = TRUE] ELSE minor[m]
      BY <1>2, <2>3
    <3>2. \A m \in Minors : /\ minor'[m] \in MinorType /\ minor'[m].ready = minor[m].ready
                            /\ m # i => minor'[m].cdev = minor[m].cdev
      BY <3>1, <1>2 DEF MinorType
    <3>3. minor'[i].cdev BY <3>1, <2>1, <1>2 DEF MinorType
    <3>4. Types
      <4>1. minor' \in [Minors -> MinorType] BY <3>2, <1>2, <2>3
      <4> QED BY <4>1, <2>1, <2>3, <1>1 DEF To, TypeOK, Minors
    <3>5. \A m \in Minors : m < i + 1 => minor'[m].ready /\ minor'[m].cdev
      BY <3>2, <3>3, <2>1 DEF SetUpTo, Minors
    <3>6. \A m \in Minors : m >= i + 1 => ~minor'[m].cdev
      BY <3>2, <2>1 DEF NoneFrom, Minors
    <3>7. Loops' BY <3>5, <3>6, <2>1, <2>3 DEF To, Loops, SetUpTo, NoneFrom, Minors
    <3> QED BY <3>4, <3>7
  <2> QED BY <2>2, <2>3, <1>6 DEF Add
<1>7. CASE Loaded
  BY <1>1, <1>2, <1>7 DEF Loaded, To, Unused, TypeOK, Loops, Complete, SetUpTo, Minors
<1>8. CASE Undo
  <2> DEFINE i == module.i
  <2>1. i \in -1 .. MY_MAX_MINORS - 1 /\ NoneFrom(i + 1)
    BY <1>1, <1>8 DEF Undo, TypeOK, Loops
  <2>2. CASE Done(i)
    <3>1. /\ module' = Absent /\ region' = FALSE
          /\ minor' = [m \in Minors |-> [minor[m] EXCEPT !.open = FALSE]]
      BY <2>2, <1>8 DEF Undo
    <3>2. \A m \in Minors : m >= i + 1 BY <2>1, <2>2, <1>1 DEF Done, Minors
    <3>3. \A m \in Minors : minor'[m] \in MinorType /\ ~minor'[m].cdev
      BY <3>1, <3>2, <2>1, <1>2 DEF NoneFrom, MinorType
    <3>4. Types
      <4>1. 0 \in -1 .. MY_MAX_MINORS BY <1>1
      <4>2. minor' \in [Minors -> MinorType] BY <3>1, <3>3
      <4> QED BY <4>1, <4>2, <3>1 DEF Absent
    <3>5. Loops' BY <3>1, <3>3 DEF Absent, Loops, NoneFrom
    <3> QED BY <3>4, <3>5
  <2>3. CASE ~Done(i)
    <3>1. /\ i \in Minors /\ module' = [pc |-> "undo", i |-> i - 1] /\ region' = region
          /\ minor' = [minor EXCEPT ![i].cdev = FALSE]
      BY <2>1, <2>3, <1>1, <1>8 DEF Undo, Done, To, Minors
    <3>2. \A m \in Minors : minor'[m] = IF m = i THEN [minor[m] EXCEPT !.cdev = FALSE] ELSE minor[m]
      BY <3>1, <1>2
    <3>3. \A m \in Minors : minor'[m] \in MinorType /\ (m >= i => ~minor'[m].cdev)
      <4>1. \A m \in Minors : minor'[m] \in MinorType BY <3>2, <1>2 DEF MinorType
      <4>2. ~minor'[i].cdev BY <3>1, <3>2, <1>2 DEF MinorType
      <4>3. ASSUME NEW m \in Minors, m # i, m >= i PROVE ~minor'[m].cdev
        <5>1. m >= i + 1 BY <4>3, <2>1, <1>1 DEF Minors
        <5>2. minor'[m] = minor[m] BY <4>3, <3>2
        <5>3. ~minor[m].cdev BY <5>1, <2>1 DEF NoneFrom
        <5> QED BY <5>2, <5>3
      <4> QED BY <4>1, <4>2, <4>3
    <3>4. Types
      <4>1. minor' \in [Minors -> MinorType] BY <3>1, <3>3, <1>2
      <4> QED BY <4>1, <3>1, <1>1 DEF TypeOK, Minors
    <3>5. Loops' BY <3>1, <3>3, <1>1 DEF Loops, NoneFrom, Minors
    <3> QED BY <3>4, <3>5
  <2> QED BY <2>2, <2>3
<1>9. CASE Rmmod
  BY <1>1, <1>2, <1>9 DEF Rmmod, To, Unused, TypeOK, Loops, NoneBelow, Minors
<1>10. CASE Exit
  <2> DEFINE i == module.i
  <2>1. i \in 0 .. MY_MAX_MINORS /\ NoneBelow(i) BY <1>1, <1>10 DEF Exit, TypeOK, Loops
  <2>2. CASE i = MY_MAX_MINORS
    <3>1. module' = Absent /\ region' = FALSE /\ minor' = minor BY <2>2, <1>10 DEF Exit
    <3>2. \A m \in Minors : m < i BY <2>2, <1>1 DEF Minors
    <3>3. \A m \in Minors : ~minor[m].cdev BY <3>2, <2>1 DEF NoneBelow
    <3>4. Types
      <4>1. 0 \in -1 .. MY_MAX_MINORS BY <1>1
      <4>2. minor' \in [Minors -> MinorType] BY <3>1, <1>2
      <4> QED BY <4>1, <4>2, <3>1 DEF Absent
    <3>5. Loops' BY <3>1, <3>3 DEF Absent, Loops, NoneFrom
    <3> QED BY <3>4, <3>5
  <2>3. CASE i # MY_MAX_MINORS
    <3>1. /\ i \in Minors /\ module' = [pc |-> "exit", i |-> i + 1] /\ region' = region
          /\ minor' = [minor EXCEPT ![i].cdev = FALSE]
      BY <2>1, <2>3, <1>1, <1>10 DEF Exit, To, Minors
    <3>2. \A m \in Minors : minor'[m] = IF m = i THEN [minor[m] EXCEPT !.cdev = FALSE] ELSE minor[m]
      BY <3>1, <1>2
    <3>3. \A m \in Minors : minor'[m] \in MinorType /\ (m < i + 1 => ~minor'[m].cdev)
      <4>1. \A m \in Minors : minor'[m] \in MinorType BY <3>2, <1>2 DEF MinorType
      <4>2. ~minor'[i].cdev BY <3>1, <3>2, <1>2 DEF MinorType
      <4>3. ASSUME NEW m \in Minors, m # i, m < i + 1 PROVE ~minor'[m].cdev
        <5>1. m < i BY <4>3, <2>1, <1>1 DEF Minors
        <5>2. minor'[m] = minor[m] BY <4>3, <3>2
        <5>3. ~minor[m].cdev BY <5>1, <2>1 DEF NoneBelow
        <5> QED BY <5>2, <5>3
      <4> QED BY <4>1, <4>2, <4>3
    <3>4. Types
      <4>1. minor' \in [Minors -> MinorType] BY <3>1, <3>3, <1>2
      <4> QED BY <4>1, <3>1, <1>1 DEF TypeOK, Minors
    <3>5. Loops' BY <3>1, <3>3, <1>1 DEF Loops, NoneBelow, Minors
    <3> QED BY <3>4, <3>5
  <2> QED BY <2>2, <2>3
<1> QED BY <1>3, <1>4, <1>5, <1>6, <1>7, <1>8, <1>9, <1>10 DEF Kernel

(* The users of the nodes neither add nor delete a cdev, and open only those   *)
(* of a module that is not going.                                              *)
LEMMA UserStep ==
    ASSUME TypeOK, Loops, NEW m \in Minors, Open(m) \/ Close(m)
    PROVE  Loops' /\ minor' \in [Minors -> MinorType]
<1>1. minor \in [Minors -> MinorType] BY DEF TypeOK, MinorType
<1>2. \A o \in Minors : \/ minor'[o] = minor[o]
                         \/ \E b \in BOOLEAN : minor'[o] = [minor[o] EXCEPT !.open = b]
  BY <1>1 DEF Open, Close
<1>3. \A o \in Minors : /\ minor'[o] \in MinorType
                        /\ minor'[o].ready = minor[o].ready /\ minor'[o].cdev = minor[o].cdev
  <2> TAKE o \in Minors
  <2>1. minor[o] \in MinorType BY <1>1
  <2>2. CASE minor'[o] = minor[o] BY <2>1, <2>2
  <2>3. ASSUME NEW b \in BOOLEAN, minor'[o] = [minor[o] EXCEPT !.open = b]
        PROVE  /\ minor'[o] \in MinorType
               /\ minor'[o].ready = minor[o].ready /\ minor'[o].cdev = minor[o].cdev
    BY <2>1, <2>3 DEF MinorType
  <2> QED BY <1>2, <2>2, <2>3
<1>4. DOMAIN minor' = Minors /\ minor' = [o \in Minors |-> minor'[o]]
  BY <1>1 DEF Open, Close
<1>5. minor' \in [Minors -> MinorType] BY <1>3, <1>4
<1>6. module' = module /\ region' = region BY DEF Open, Close
<1>7. Loops'
  BY <1>3, <1>6 DEF Loops, SetUpTo, NoneFrom, NoneBelow, Complete
<1> QED BY <1>5, <1>7

--------------------------------------------------------------------------------
(* A change of one thread's position, to one that Seen allows, with nodes that *)
(* only become ours and writable, keeps Seen.                                  *)
SeenAt(r, n) ==
    /\ r.pc = "stat" => \A m \in Minors : m < r.k => n[m].kind = "ours"
    /\ r.pc = "mknod" => r.k < MY_MAX_MINORS /\ \A m \in Minors : m < r.k => n[m].kind = "ours"
    /\ r.pc = "chmod" => \A m \in Minors : n[m].kind = "ours" /\ (m < r.k => n[m].rw)
PosType == [pc : {"idle", "stat", "mknod", "chmod"}, k : 0 .. MY_MAX_MINORS]

LEMMA SeenIs == TypeOK => (Seen <=> \A w \in Handlers : SeenAt(h[w], node))
<1>1. \A m \in Minors : m < MY_MAX_MINORS BY LifecycleAssumption DEF Minors
<1> QED BY <1>1 DEF Seen, SeenAt, Ours, Open666

NodesOnlyGrow ==
    /\ node' \in [Minors -> NodeType]
    /\ \A m \in Minors : (node[m].kind = "ours" => node'[m].kind = "ours")
                        /\ (node[m].rw => node'[m].rw)

LEMMA ThreadMoves ==
    ASSUME NEW w \in Handlers, NEW r \in PosType, h \in [Handlers -> PosType],
           h' = [h EXCEPT ![w] = r], \A v \in Handlers : SeenAt(h[v], node),
           SeenAt(r, node'), NodesOnlyGrow
    PROVE  h' \in [Handlers -> PosType] /\ \A v \in Handlers : SeenAt(h'[v], node')
<1>1. h' \in [Handlers -> PosType] OBVIOUS
<1>2. \A v \in Handlers : h'[v] = IF v = w THEN r ELSE h[v] OBVIOUS
<1>3. \A v \in Handlers : SeenAt(h[v], node')
  <2> SUFFICES ASSUME NEW v \in Handlers PROVE SeenAt(h[v], node') OBVIOUS
  <2>1. SeenAt(h[v], node) OBVIOUS
  <2>2. \A m \in Minors : (node[m].kind = "ours" => node'[m].kind = "ours")
                         /\ (node[m].rw => node'[m].rw)
    BY DEF NodesOnlyGrow
  <2> QED BY <2>1, <2>2 DEF SeenAt
<1> QED BY <1>1, <1>2, <1>3

(* A step of a thread in action_driver_nodes keeps what Seen says of it.       *)
LEMMA ThreadStep ==
    ASSUME TypeOK, NEW w \in Handlers, SeenAt(h[w], node), Gui(w)
    PROVE  /\ NodesOnlyGrow
           /\ \E r \in PosType : h' = [h EXCEPT ![w] = r] /\ SeenAt(r, node')
<1> DEFINE k == h[w].k
<1>1. MY_MAX_MINORS \in Nat \ {0} BY LifecycleAssumption
<1>2. node \in [Minors -> NodeType] /\ h[w] \in PosType BY DEF TypeOK, NodeType, PosType
<1>3. k \in 0 .. MY_MAX_MINORS BY <1>2 DEF PosType
<1>4. ASSUME node' = node PROVE NodesOnlyGrow BY <1>2, <1>4 DEF NodesOnlyGrow
<1>5. Resting \in PosType /\ SeenAt(Resting, node') BY <1>1 DEF Resting, PosType, SeenAt
<1>6. ASSUME NEW pc \in {"idle", "stat", "mknod", "chmod"}, NEW i \in 0 .. MY_MAX_MINORS
      PROVE  [pc |-> pc, k |-> i] \in PosType
  BY DEF PosType
<1>7. CASE Request(w)
  <2>1. h' = [h EXCEPT ![w] = [pc |-> "stat", k |-> 0]] /\ node' = node
    BY <1>7 DEF Request, Goto
  <2>2. SeenAt([pc |-> "stat", k |-> 0], node') BY <1>1 DEF SeenAt, Minors
  <2>3. [pc |-> "stat", k |-> 0] \in PosType BY <1>1, <1>6
  <2> QED BY <2>1, <2>2, <2>3, <1>4
<1>8. CASE Stat(w)
  <2>1. k \in Minors /\ node' = node BY <1>1, <1>3, <1>8 DEF Stat, Minors
  <2>2. \A m \in Minors : m < k => node[m].kind = "ours" BY <1>8 DEF Stat, At, SeenAt
  <2>3. \/ h' = [h EXCEPT ![w] = [pc |-> "mknod", k |-> k]]
        \/ /\ h' = [h EXCEPT ![w] = [pc |-> "stat", k |-> k + 1]]
           /\ node[k].kind = "ours"
        \/ h' = [h EXCEPT ![w] = Resting]
    <3>1. node[k].kind \in {"none", "other", "ours"} BY <2>1, <1>2 DEF NodeType
    <3> QED BY <3>1, <1>8 DEF Stat, Goto, Advance, Answer
  <2>4. CASE h' = [h EXCEPT ![w] = [pc |-> "mknod", k |-> k]]
    <3>1. SeenAt([pc |-> "mknod", k |-> k], node') BY <2>1, <2>2, <1>1 DEF SeenAt, Minors
    <3>2. [pc |-> "mknod", k |-> k] \in PosType BY <1>3, <1>6
    <3> QED BY <2>1, <2>4, <3>1, <3>2, <1>4
  <2>5. CASE /\ h' = [h EXCEPT ![w] = [pc |-> "stat", k |-> k + 1]]
             /\ node[k].kind = "ours"
    <3>1. \A m \in Minors : m < k + 1 => m < k \/ m = k BY <1>1, <1>3 DEF Minors
    <3>2. SeenAt([pc |-> "stat", k |-> k + 1], node') BY <2>1, <2>2, <2>5, <3>1 DEF SeenAt
    <3>3. k + 1 \in 0 .. MY_MAX_MINORS BY <2>1, <1>1 DEF Minors
    <3>4. [pc |-> "stat", k |-> k + 1] \in PosType BY <3>3, <1>6
    <3> QED BY <2>1, <2>5, <3>2, <3>4, <1>4
  <2> QED BY <2>1, <2>3, <2>4, <2>5, <1>4, <1>5
<1>9. CASE Make(w)
  <2>1. k \in Minors /\ \A m \in Minors : m < k => node[m].kind = "ours"
    BY <1>1, <1>3, <1>9 DEF Make, At, SeenAt, Minors
  <2>2. CASE node' = node /\ h' = [h EXCEPT ![w] = Resting] BY <2>2, <1>4, <1>5
  <2>3. CASE /\ node' = [node EXCEPT ![k] = [kind |-> "ours", rw |-> TRUE]]
             /\ Advance(w) \/ Answer(w)
    <3>1. \A m \in Minors : node'[m] = IF m = k THEN [kind |-> "ours", rw |-> TRUE] ELSE node[m]
      BY <2>3, <1>2
    <3>2. [kind |-> "ours", rw |-> TRUE] \in NodeType BY DEF NodeType
    <3>3. NodesOnlyGrow BY <2>3, <3>1, <3>2, <1>2 DEF NodesOnlyGrow
    <3>4. \A m \in Minors : m < k + 1 => m < k \/ m = k BY <1>1, <1>3 DEF Minors
    <3>5. SeenAt([pc |-> "stat", k |-> k + 1], node') BY <2>1, <3>1, <3>4 DEF SeenAt
    <3>6. k + 1 \in 0 .. MY_MAX_MINORS BY <2>1, <1>1 DEF Minors
    <3>7. [pc |-> "stat", k |-> k + 1] \in PosType BY <3>6, <1>6
    <3> QED BY <2>3, <3>3, <3>5, <3>7, <1>5 DEF Advance, Goto, Answer
  <2> QED BY <2>2, <2>3, <1>9 DEF Make, Answer
<1>10. CASE Stats(w)
  <2>1. /\ h' = [h EXCEPT ![w] = [pc |-> "chmod", k |-> 0]] /\ node' = node
        /\ h[w].pc = "stat" /\ k = MY_MAX_MINORS
    BY <1>10 DEF Stats, Goto, At
  <2>2. \A m \in Minors : m < MY_MAX_MINORS /\ ~(m < 0) BY <1>1 DEF Minors
  <2>3. SeenAt([pc |-> "chmod", k |-> 0], node') BY <2>1, <2>2 DEF SeenAt
  <2>4. [pc |-> "chmod", k |-> 0] \in PosType BY <1>1, <1>6
  <2> QED BY <2>1, <2>3, <2>4, <1>4
<1>11. CASE Chmod(w)
  <2>1. /\ k \in Minors /\ \A m \in Minors : node[m].kind = "ours"
        /\ \A m \in Minors : m < k => node[m].rw
    BY <1>1, <1>3, <1>11 DEF Chmod, At, SeenAt, Minors
  <2>2. CASE node' = node /\ h' = [h EXCEPT ![w] = Resting] BY <2>2, <1>4, <1>5
  <2>3. CASE /\ node' = [node EXCEPT ![k].rw = TRUE]
             /\ h' = [h EXCEPT ![w] = [pc |-> "chmod", k |-> k + 1]]
    <3>1. \A m \in Minors : node'[m] = IF m = k THEN [node[m] EXCEPT !.rw = TRUE] ELSE node[m]
      BY <2>3, <1>2
    <3>2. \A m \in Minors : /\ node'[m] \in NodeType /\ node'[m].kind = node[m].kind
                            /\ node[m].rw \/ m = k => node'[m].rw
      BY <3>1, <1>2 DEF NodeType
    <3>3. node' \in [Minors -> NodeType] BY <3>2, <2>3, <1>2
    <3>4. NodesOnlyGrow BY <3>2, <3>3 DEF NodesOnlyGrow
    <3>5. \A m \in Minors : m < k + 1 => m < k \/ m = k BY <1>1, <1>3 DEF Minors
    <3>6. SeenAt([pc |-> "chmod", k |-> k + 1], node') BY <2>1, <3>2, <3>5 DEF SeenAt
    <3>7. k + 1 \in 0 .. MY_MAX_MINORS BY <2>1, <1>1 DEF Minors
    <3>8. [pc |-> "chmod", k |-> k + 1] \in PosType BY <3>7, <1>6
    <3> QED BY <2>3, <3>4, <3>6, <3>8
  <2> QED BY <2>2, <2>3, <1>11 DEF Chmod, Goto, Answer
<1>12. CASE ReplyOk(w)
  BY <1>4, <1>5, <1>12 DEF ReplyOk, Answer
<1> QED BY <1>7, <1>8, <1>9, <1>10, <1>11, <1>12 DEF Gui

--------------------------------------------------------------------------------
(* The inductive invariant, and the theorems. *)
LInv == TypeOK /\ Loops /\ Seen

LEMMA InitInv == Init => LInv
<1> SUFFICES ASSUME Init PROVE LInv OBVIOUS
<1>1. MY_MAX_MINORS \in Nat \ {0} BY LifecycleAssumption
<1>2. Absent \in [pc : {"absent", "region", "setup", "add", "undo", "live", "exit"},
                  i : -1 .. MY_MAX_MINORS]
  BY <1>1 DEF Absent
<1>3. Resting \in PosType BY <1>1 DEF Resting, PosType
<1>4. TypeOK
  <2>1. minor \in [Minors -> [ready : BOOLEAN, cdev : BOOLEAN, open : BOOLEAN]]
    BY DEF Init, Blank
  <2>2. node \in [Minors -> NodeType]
    <3>1. {NoNode, [kind |-> "other", rw |-> FALSE], [kind |-> "ours", rw |-> FALSE]}
             \subseteq NodeType
      BY DEF NoNode, NodeType
    <3> QED BY <3>1 DEF Init
  <2>3. h \in [Handlers -> PosType] BY <1>3 DEF Init
  <2> QED BY <2>1, <2>2, <2>3, <1>2 DEF Init, TypeOK, NodeType, PosType
<1>5. Loops BY DEF Init, Loops, Absent, Blank, NoneFrom
<1>6. Seen BY DEF Init, Seen, Resting
<1> QED BY <1>4, <1>5, <1>6 DEF LInv

LEMMA NextInv == LInv /\ [Next]_vars => LInv'
<1> SUFFICES ASSUME LInv, [Next]_vars PROVE LInv' OBVIOUS
<1>1. TypeOK /\ \A w \in Handlers : SeenAt(h[w], node) BY SeenIs DEF LInv
<1>2. Loops BY DEF LInv
<1>3. ASSUME UNCHANGED <<node, h>> PROVE Seen' BY <1>3 DEF LInv, Seen, Ours, Open666
<1>4. ASSUME UNCHANGED <<module, region, minor>> PROVE Loops'
  BY <1>2, <1>4 DEF Loops, Complete, SetUpTo, NoneFrom, NoneBelow
<1>5. CASE Kernel /\ UNCHANGED <<node, h>>
  <2>1. Loops' /\ TypeOK' BY <1>1, <1>2, <1>5, KernelStep DEF TypeOK, MinorType
  <2> QED BY <2>1, <1>3, <1>5 DEF LInv
<1>6. ASSUME NEW m \in Minors, Open(m) \/ Close(m) PROVE LInv'
  <2>1. Loops' /\ minor' \in [Minors -> MinorType] BY <1>1, <1>2, <1>6, UserStep
  <2>2. UNCHANGED <<module, region, node, h>> BY <1>6 DEF Open, Close
  <2>3. TypeOK' BY <2>1, <2>2, <1>1 DEF TypeOK, MinorType
  <2> QED BY <2>1, <2>2, <2>3, <1>3 DEF LInv
<1>7. ASSUME NEW m \in Minors, Mknod(m) PROVE LInv'
  <2>1. /\ UNCHANGED <<module, region, minor, h>> /\ node \in [Minors -> NodeType]
        /\ node' = [node EXCEPT ![m].kind = "ours"]
    BY <1>1, <1>7 DEF Mknod, TypeOK, NodeType
  <2>2. \A o \in Minors : node'[o] = IF o = m THEN [node[o] EXCEPT !.kind = "ours"] ELSE node[o]
    BY <2>1
  <2>3. \A o \in Minors : /\ node'[o] \in NodeType /\ node'[o].rw = node[o].rw
                          /\ node[o].kind = "ours" => node'[o].kind = "ours"
    BY <2>1, <2>2 DEF NodeType
  <2>4. node' \in [Minors -> NodeType] BY <2>1, <2>3
  <2>5. TypeOK' BY <2>1, <2>4, <1>1 DEF TypeOK, NodeType
  <2>6. Seen' BY <2>1, <2>3 DEF LInv, Seen, Ours, Open666
  <2> QED BY <2>1, <2>5, <2>6, <1>4 DEF LInv
<1>8. ASSUME NEW m \in Minors, Rm(m) PROVE LInv'
  <2>1. /\ UNCHANGED <<module, region, minor, h>> /\ node' = [node EXCEPT ![m] = NoNode]
        /\ \A w \in Handlers : h[w].pc = "idle"
    BY <1>8 DEF Rm
  <2>2. TypeOK' BY <2>1, <1>1 DEF TypeOK, NoNode
  <2>3. Seen' BY <2>1 DEF Seen
  <2> QED BY <2>1, <2>2, <2>3, <1>4 DEF LInv
<1>9. ASSUME NEW w \in Handlers, Gui(w), UNCHANGED <<module, region, minor>> PROVE LInv'
  <2>1. NodesOnlyGrow /\ \E r \in PosType : h' = [h EXCEPT ![w] = r] /\ SeenAt(r, node')
    BY <1>1, <1>9, ThreadStep
  <2>2. PICK r \in PosType : h' = [h EXCEPT ![w] = r] /\ SeenAt(r, node') BY <2>1
  <2>3. h \in [Handlers -> PosType] BY <1>1 DEF TypeOK, PosType
  <2>4. h' \in [Handlers -> PosType] /\ \A v \in Handlers : SeenAt(h'[v], node')
    BY <2>1, <2>2, <2>3, <1>1, ThreadMoves
  <2>5. TypeOK' BY <2>1, <2>4, <1>1, <1>9 DEF TypeOK, NodesOnlyGrow, NodeType, PosType
  <2>6. \A m \in Minors : m < MY_MAX_MINORS BY LifecycleAssumption DEF Minors
  <2>7. Seen' BY <2>4, <2>6 DEF Seen, SeenAt, Ours, Open666
  <2> QED BY <2>5, <2>7, <1>4, <1>9 DEF LInv
<1>10. CASE UNCHANGED vars
  <2>1. TypeOK' BY <1>1, <1>10 DEF vars, TypeOK
  <2> QED BY <2>1, <1>3, <1>4, <1>10 DEF LInv, vars
<1> QED BY <1>5, <1>6, <1>7, <1>8, <1>9, <1>10 DEF Next

LEMMA AlwaysInv == Spec => []LInv
BY InitInv, NextInv, PTL DEF Spec

(* Every variable has its type, and each loop variable is where its loop can   *)
(* be, for any number of minors (my_init, my_exit, action_driver_nodes).       *)
THEOREM LifecycleTypes == Spec => []TypeOK
<1>1. LInv => TypeOK BY DEF LInv
<1> QED BY <1>1, AlwaysInv, PTL

(* However my_init ends, and after my_exit, no region and no cdev is left.     *)
THEOREM LeavesNothing == Spec => []Unwound
<1>1. \A m \in Minors : m >= 0 BY DEF Minors
<1>2. LInv => Unwound BY <1>1 DEF LInv, Loops, NoneFrom, Unwound
<1> QED BY <1>2, AlwaysInv, PTL

(* While a file is open, a loaded driver stays loaded, with all its minors.    *)
THEOREM OpenKeepsDriver == Spec => OpenServed
<1>1. LInv /\ LInv' /\ [Next]_vars => (module.pc = "live" /\ InUse => module'.pc = "live" /\ Complete')
  <2> SUFFICES ASSUME LInv, LInv', [Next]_vars, module.pc = "live", InUse
               PROVE  module'.pc = "live" /\ Complete'
    OBVIOUS
  <2>1. ~Kernel
    BY DEF Kernel, Insmod, Register, Setup, Add, Loaded, Undo, Rmmod, Busy, Exit
  <2>2. module' = module
    BY <2>1 DEF Next, vars, Open, Close, Mknod, Rm
  <2> QED BY <2>2 DEF LInv, Loops
<1>2. LInv /\ LInv' /\ [Next]_vars
        => [module.pc = "live" /\ InUse => module'.pc = "live" /\ Complete']_vars
  BY <1>1
<1> QED BY <1>2, AlwaysInv, PTL DEF Spec, OpenServed

(* When action_driver_nodes reports success, all nodes are the driver's and    *)
(* everybody may read and write them, whoever else made nodes meanwhile.       *)
THEOREM ReportsReadyNodes == Spec => NodesReady
<1> DEFINE Reported == \A w \in Handlers :
              ReplyOk(w) => \A m \in Minors : node[m] = [kind |-> "ours", rw |-> TRUE]
<1>1. LInv => Reported
  <2> SUFFICES ASSUME LInv, NEW w \in Handlers, ReplyOk(w), NEW m \in Minors
               PROVE  node[m] = [kind |-> "ours", rw |-> TRUE]
    OBVIOUS
  <2>1. m < MY_MAX_MINORS BY LifecycleAssumption DEF Minors
  <2>2. node[m].kind = "ours" /\ node[m].rw
    BY <2>1 DEF LInv, Seen, ReplyOk, At, Ours, Open666
  <2>3. node[m] \in NodeType BY DEF LInv, TypeOK, NodeType
  <2> QED BY <2>2, <2>3 DEF NodeType
<1>2. LInv => [Reported]_vars BY <1>1
<1> QED BY <1>2, AlwaysInv, PTL DEF NodesReady

================================================================================
