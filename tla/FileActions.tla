------------------------------ MODULE FileActions ------------------------------
(* The file actions of gui_app/app.py on a tree of two levels.  Each looks     *)
(* first and acts later: the tests and calls of an action are steps of their   *)
(* own, and what pathlib and shutil do to many files is one step that may fail *)
(* half-way.                                                                   *)
EXTENDS SequencesExt

CONSTANTS Names,      \* the names in a directory
          Mounts,     \* the top-level names that are file systems of their own
          Values,     \* the contents of files
          Workers     \* the threads that run actions

ASSUME FilesAssumption == Mounts \subseteq Names /\ Values \cap {"none", "dir", "torn", "empty"} = {}

VARIABLES fs,     \* path -> "none", "dir", or the content of the file there
          job     \* thread -> its request and where it is in it
files == <<fs, job>>

Places    == BoundedSeq(Names, 2)      \* <<>> is the directory all paths start from
IsDir(p)  == fs[p] = "dir"
IsFile(p) == fs[p] \notin {"none", "dir"}
Up(p)     == IF p = <<>> THEN p ELSE Front(p)
Items(p)  == {q \in Places : IsPrefix(p, q) /\ fs[q] # "none"}
WellFormed(t) == t[<<>>] = "dir" /\ \A p \in Places : t[p] # "none" => t[Up(p)] = "dir"
IsTree(t) == t \in [Places -> {"none", "dir", "torn", "empty"} \cup Values] /\ WellFormed(t)

(* A request names a path, and a second one when it copies or moves; shared    *)
(* tells the properties that another action worked on the same paths.          *)
Idler   == [pc |-> "free", op |-> "none", path |-> <<>>, dst |-> <<>>, shared |-> FALSE]
Results == {"ok", "refused", "raised"}      \* "raised": an exception that do_POST lets pass

FilesInit(Trees) == fs \in Trees /\ job = [w \in Workers |-> Idler]

In(w, pc)    == job[w].pc = pc
Acting(w)    == job[w].pc \notin Results \cup {"free"}
Step(w, pc)  == job' = [job EXCEPT ![w].pc = pc]
Result(w, r) == job' = [job EXCEPT ![w] = [Idler EXCEPT !.pc = r]]
Raise(w)     == Result(w, "raised")

Entry == [create_dir |-> "parent", create_file |-> "parent", delete |-> "check", copy |-> "check",
          move |-> "check", find |-> "find", command |-> "command"]
Reading == {"find", "command"}
Related(p, q) == IsPrefix(p, q) \/ IsPrefix(q, p)
Meet(r, s) == \E p \in {r.path, r.dst}, q \in {s.path, s.dst} : Related(p, q)
Submit(w, r) ==
    LET met(u) == Acting(u) /\ {job[u].op, r.op} \cap Reading = {} /\ Meet(job[u], r) IN
    /\ In(w, "free") /\ UNCHANGED fs
    /\ job' = [u \in Workers |->
                 IF u = w THEN [pc |-> Entry[r.op], op |-> r.op, path |-> r.path, dst |-> r.dst,
                                shared |-> \E o \in Workers : met(o)]
                 ELSE [job[u] EXCEPT !.shared = @ \/ met(u)]]

--------------------------------------------------------------------------------
(* exists() and is_dir(). *)
Check(w) ==
    LET j == job[w]  dir == IsDir(j.path) IN
    /\ In(w, "check") /\ UNCHANGED fs
    /\ CASE fs[j.path] = "none" -> Result(w, "refused")
         [] dir /\ j.op = "delete" -> Step(w, "rmtree")
         [] dir /\ j.op = "copy" -> Step(w, "copytree")
         [] ~dir /\ fs[j.path] # "none" /\ j.op = "delete" -> Step(w, "unlink")
         [] OTHER -> Step(w, "parent")

(* mkdir(parents=True, exist_ok=True) of the directory the new path is in. *)
NoFile(p)   == \A q \in Places : IsPrefix(q, p) => ~IsFile(q)
AfterParent == [create_dir |-> "make", create_file |-> "make", copy |-> "copyfile", move |-> "aim"]
Parent(w) ==
    LET up == Up(job[w].dst) IN
    /\ In(w, "parent")
    /\ \/ /\ NoFile(up) /\ Step(w, AfterParent[job[w].op])
          /\ fs' = [q \in Places |-> IF IsPrefix(q, up) THEN "dir" ELSE fs[q]]
       \/ Raise(w) /\ UNCHANGED fs

(* mkdir, which is content with a directory, and touch, with anything. *)
Make(w) ==
    LET p == job[w].path  mkdir == job[w].op = "create_dir" IN
    /\ In(w, "make")
    /\ \/ /\ fs[p] = "none" /\ IsDir(Up(p)) /\ Result(w, "ok")
          /\ fs' = [fs EXCEPT ![p] = IF mkdir THEN "dir" ELSE "empty"]
       \/ fs[p] # "none" /\ (mkdir => IsDir(p)) /\ Result(w, "ok") /\ UNCHANGED fs
       \/ Raise(w) /\ UNCHANGED fs

(* unlink and rmtree: all of it goes, or what was done before an error.  A     *)
(* mount point stays.                                                          *)
Gone(p, gone) == IF p \in gone THEN "ok" ELSE "raised"
Discard(w) ==
    LET p == job[w].path IN
    /\ job[w].pc \in {"unlink", "rmtree"}
    /\ \E gone \in SUBSET Items(p) :
          /\ gone # {} => (In(w, "rmtree") <=> IsDir(p))
          /\ p \in gone => gone = Items(p) /\ p \notin {<<m>> : m \in Mounts}
          /\ fs' = [q \in Places |-> IF q \in gone THEN "none" ELSE fs[q]]
          /\ Result(w, Gone(p, gone))

--------------------------------------------------------------------------------
(* copy2, into dst when it is a directory, and copytree.  What may come of     *)
(* copying src to the path to: some files arrive, some cut short, and it is    *)
(* whole when all arrived.                                                     *)
Target(src, dst)   == IF IsDir(dst) THEN Append(dst, Last(src)) ELSE dst
Onto(i, src, to)   == to \o SubSeq(i, Len(src) + 1, Len(i))
Holds(i, q)        == q \in Places /\ q # i /\ IF IsDir(i) THEN ~IsFile(q) ELSE ~IsDir(q)
WholeAnyway(all, d, cut) == d # {}                                   \* variant
WholeTorn(all, d, cut) == all # {} /\ d = all                         \* variant
Whole(all, d, cut) == all # {} /\ d = all /\ cut = {}
Sent(src, to) ==
    {d \in SUBSET Items(src) : /\ d # {} => src \in d /\ NoFile(Up(to))
                               /\ \A i \in d : Holds(i, Onto(i, src, to))}
AfterCopy(src, to, d, cut) ==
    [q \in Places |->
       IF \E i \in d : q = Onto(i, src, to)
       THEN LET from == CHOOSE i \in d : q = Onto(i, src, to)
            IN IF from \in cut THEN "torn" ELSE fs[from]
       ELSE IF d # {} /\ IsPrefix(q, Up(to)) THEN "dir" ELSE fs[q]]
Copies(src, to) ==
    UNION {{[tree |-> AfterCopy(src, to, d, cut), arrived |-> d \ cut,
             whole |-> Whole(Items(src), d, cut)] : cut \in SUBSET {i \in d : IsFile(i)}} :
           d \in Sent(src, to)}

(* A move wants a new directory for a tree; the source goes when all arrived.  *)
Begun(w) ==
    LET j == job[w] IN
    /\ In(w, "copytree") <=> IsDir(j.path)
    /\ IF In(w, "copytree") THEN j.op = "move" => fs[j.dst] = "none" ELSE IsDir(Up(j.dst))
Copy(w) ==
    LET j == job[w]  tree == In(w, "copytree") IN
    /\ j.pc \in {"copytree", "copyfile"}
    /\ \/ Raise(w) /\ UNCHANGED fs
       \/ /\ Begun(w)
          /\ \E c \in Copies(j.path, IF tree THEN j.dst ELSE Target(j.path, j.dst)) :
                /\ fs' = c.tree
                /\ CASE ~c.whole -> Raise(w)
                     [] c.whole /\ j.op = "copy" -> Result(w, "ok")
                     [] OTHER -> Step(w, IF tree THEN "rmtree" ELSE "unlink")

--------------------------------------------------------------------------------
(* shutil.move: into dst when it is a directory, where nothing may have the    *)
(* name yet; by rename or, whatever error that ends with, by copy and delete.  *)
Aim(w) ==
    LET j == job[w]  real == Target(j.path, j.dst) IN
    /\ In(w, "aim") /\ UNCHANGED fs
    /\ CASE ~IsDir(j.dst) -> Step(w, "rename")
         [] IsDir(j.dst) /\ j.dst = j.path -> Result(w, "ok")
         [] IsDir(j.dst) /\ j.dst # j.path /\ real \in Places /\ fs[real] = "none" ->
              job' = [job EXCEPT ![w].dst = real, ![w].pc = "rename"]
         [] OTHER -> Raise(w)

Device(p) == {m \in Mounts : p # <<>> /\ Head(p) = m}
CanRename(src, dst) ==
    /\ IsDir(Up(dst)) /\ Device(src) = Device(dst)
    /\ src # dst => ~IsPrefix(src, dst)
    /\ \/ src = dst /\ fs[src] # "none"
       \/ IsFile(src) /\ ~IsDir(dst)
       \/ IsDir(src) /\ (fs[dst] = "none" \/ (IsDir(dst) /\ Items(dst) = {dst}))
    /\ \A i \in Items(src) : Onto(i, src, dst) \in Places
Moved(src, dst) ==
    LET from(q) == Onto(q, dst, src) IN
    [q \in Places |-> CASE IsPrefix(dst, q) -> IF from(q) \in Places THEN fs[from(q)] ELSE "none"
                        [] ~IsPrefix(dst, q) /\ IsPrefix(src, q) -> "none"
                        [] OTHER -> fs[q]]
Rename(w) ==
    LET src == job[w].path  dst == job[w].dst IN
    /\ In(w, "rename")
    /\ \/ CanRename(src, dst) /\ fs' = Moved(src, dst) /\ Result(w, "ok")
       \/ /\ UNCHANGED fs
          /\ CASE IsFile(src) -> Step(w, "copyfile")
               [] IsDir(src) /\ ~IsPrefix(src, dst) -> Step(w, "copytree")
               [] OTHER -> Raise(w)

--------------------------------------------------------------------------------
(* find_name and find_content read, and fail when a directory vanishes while   *)
(* they walk; all other actions are one command, which ends or is killed when  *)
(* its time is over.                                                           *)
Find(w)    == In(w, "find") /\ UNCHANGED fs /\ \E r \in Results : Result(w, r)
Command(w) == In(w, "command") /\ UNCHANGED fs /\ \E r \in Results : Result(w, r)

FileStep(w) == \/ Check(w) \/ Parent(w) \/ Make(w) \/ Discard(w) \/ Copy(w) \/ Aim(w) \/ Rename(w)
               \/ Find(w) \/ Command(w)

--------------------------------------------------------------------------------
(* The tree is a tree: whatever the threads do to it between each other's      *)
(* steps, what exists is in a directory.                                       *)
FilesTypeOK ==
    /\ IsTree(fs)
    /\ job \in [Workers -> [pc : Results \cup {"free", "check", "parent", "make", "unlink", "rmtree",
                                 "copytree", "copyfile", "aim", "rename", "find", "command"},
                            op : DOMAIN Entry \cup {"none"}, path : Places, dst : Places,
                            shared : BOOLEAN]]

(* No content is lost that nobody wanted gone: only what is under a deleted    *)
(* path, or at the place somebody copies or moves to.  A move whose copy fails *)
(* keeps its source.  Only actions that met on related paths are excused.      *)
Held(v) == {p \in Places : fs[p] = v}
Asked(j, p) ==
    \/ j.op = "delete" /\ IsPrefix(j.path, p)
    \/ j.op = "copy" /\ IF j.pc = "copytree" THEN IsPrefix(j.dst, p) ELSE p = Target(j.path, j.dst)
    \/ j.op = "move" /\ p = j.dst
FilesKept ==
    [][\A v \in Values : Held(v) # {} /\ Held(v)' = {} =>
         \E w \in Workers : /\ job[w] # job'[w]
                            /\ job[w].shared \/ \A p \in Held(v) : Asked(job[w], p)]_files

(* An action that answers ok did all it was asked for: "Da xoa", "Da copy" and *)
(* "Da move" are true when they are sent, if nobody else worked on the paths.  *)
(* A copy or move has brought every item its source had before the last step   *)
(* to its place, whole; a move leaves no source.  Only create_file is let off  *)
(* where a directory was: there touch makes nothing.                           *)
Achieved(t, j) ==
    CASE j.op = "create_dir"  -> t[j.path] = "dir"
      [] j.op = "create_file" -> t[j.path] \notin {"none", "dir"} \/ IsDir(j.path)
      [] j.op = "delete"      -> t[j.path] = "none"
      [] j.op = "copy" ->
           LET to == IF j.pc = "copyfile" THEN Target(j.path, j.dst) ELSE j.dst
           IN \A i \in Items(j.path) : t[i] = fs[i] /\ t[Onto(i, j.path, to)] = fs[i]
      [] j.op = "move" ->
           \/ j.path = j.dst
           \/ /\ t[j.path] = "none" /\ Items(j.path) # {}
              /\ \A i \in Items(j.path) : /\ Onto(i, j.path, j.dst) \in Places
                                          /\ t[Onto(i, j.path, j.dst)] = fs[i]
      [] OTHER -> TRUE
OkMeansDone ==
    [][\A w \in Workers : Acting(w) /\ job[w].pc' = "ok" /\ ~job[w].shared
                              => Achieved(fs', job[w])]_files

================================================================================
