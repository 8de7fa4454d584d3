------------------------------- MODULE FileMenu -------------------------------
(* Copy and Move of the shell's file menu: copy_move of                        *)
(* 01_shell_manager/modules/file_manager.sh, on the tree of FileActions.  The  *)
(* commands it runs may fail half-way, or be ended by Ctrl+C, which rsync      *)
(* reports as a failure to the shell.                                          *)
EXTENDS FileActions

CONSTANTS Trees,     \* the trees to start from
          User,      \* the one who is at the menu: the only one of Workers
          Rsync      \* TRUE: rsync is installed

MenuInit == FilesInit(Trees)

(* read, read, and the test that the source exists.                            *)
Prompt ==
    /\ In(User, "free") /\ UNCHANGED fs
    /\ \E op \in {"copy", "move"}, src, dst \in Places \ {<<>>} :
          /\ fs[src] # "none"
          /\ job' = [job EXCEPT ![User].pc = op, ![User].op = op,
                                ![User].path = src, ![User].dst = dst]

(* rsync -a and cp -r: `[[ copy ]] && copy || move`, so what follows a copy    *)
(* that fails is the move.  rsync puts a directory into dst in any case.       *)
Src == job[User].path
Place ==
    LET dst == job[User].dst IN
    IF Rsync /\ IsDir(Src) THEN Append(dst, Last(Src)) ELSE Target(Src, dst)
CopyCommand ==
    /\ In(User, "copy")
    /\ \E c \in Copies(Src, Place) :
          /\ fs' = c.tree
          /\ IF c.whole THEN job' = [job EXCEPT ![User] = Idler] ELSE Step(User, "move")

(* rsync --remove-source-files removes each file that arrived and leaves the   *)
(* directories; mv renames, or else copies and removes.                        *)
Without(t, gone) == [q \in Places |-> IF q \in gone THEN "none" ELSE t[q]]
MoveCommand ==
    /\ In(User, "move") /\ job' = [job EXCEPT ![User] = Idler]
    /\ \/ /\ Rsync
          /\ \E c \in Copies(Src, Place) : fs' = Without(c.tree, {i \in c.arrived : IsFile(i)})
       \/ ~Rsync /\ Place \in Places /\ CanRename(Src, Place) /\ fs' = Moved(Src, Place)
       \/ /\ ~Rsync
          /\ \E c \in Copies(Src, Place) :
                fs' = IF c.whole THEN Without(c.tree, Items(Src)) ELSE c.tree

MenuNext == Prompt \/ CopyCommand \/ MoveCommand
MenuSpec == MenuInit /\ [][MenuNext]_files

--------------------------------------------------------------------------------
(* "4) Copy" copies: whatever it comes to, the files it was to copy are still  *)
(* where they were.                                                            *)
CopyKeepsSource ==
    [][job[User].op = "copy" =>
         \A i \in Items(Src) : IsFile(i) => fs'[i] # "none"]_files

================================================================================
