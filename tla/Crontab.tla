-------------------------------- MODULE Crontab --------------------------------
(* The editors of the user's crontab: the cron actions of gui_app/app.py and   *)
(* the menu of 01_shell_manager/modules/scheduler.sh.  Each reads all of it    *)
(* with crontab -l, edits what it read and installs the result; nobody locks.  *)
EXTENDS SequencesExt

CONSTANTS Gui, Shell,      \* threads of the GUI's server, running menus
          Flaky,           \* the menus whose crontab -l may fail
          Jobs, Blank,     \* cron lines; an empty line
          MaxLines         \* the bound on the jobs in the crontab

Editors == Gui \cup Shell
ASSUME CrontabAssumption ==
    /\ Gui \cap Shell = {} /\ Flaky \subseteq Shell
    /\ Blank \notin Jobs /\ MaxLines \in Nat

VARIABLES tab,     \* the lines of the crontab; absent is the same as empty
          ed       \* editor -> where it is, what it was asked for, the lines it read
vars == <<tab, ed>>

Nothing == [op |-> "none"]
Wishes  == [op : {"add"}, job : Jobs] \cup [op : {"delete"}, index : 1 .. MaxLines]
Idle    == [pc |-> "idle", wish |-> Nothing, lines |-> <<>>]

Init ==
    /\ tab \in {<<>>} \cup {<<Blank, j>> : j \in Jobs}
    /\ ed = [e \in Editors |-> Idle]

At(e, pc)  == ed[e].pc = pc
Back(e)    == ed' = [ed EXCEPT ![e] = Idle]
Finish(e, r) == ed' = [ed EXCEPT ![e] = [Idle EXCEPT !.pc = IF e \in Gui THEN r ELSE "idle"]]
Found(e, ls) == ed' = [ed EXCEPT ![e].pc = "write", ![e].lines = ls]

(* The lines that are not empty: what the listings number. *)
Strip(ls) ==
    LET kept[n \in 0 .. Len(ls)] ==
          IF n = 0 THEN <<>>
          ELSE IF ls[n] = Blank THEN kept[n - 1] ELSE Append(kept[n - 1], ls[n])
    IN  kept[Len(ls)]

(* Somebody asks for a job, or for the removal of the job with some number. *)
Ask(e) ==
    /\ At(e, "idle")
    /\ \E w \in Wishes :
          /\ w.op = "add" => Len(Strip(tab)) < MaxLines
          /\ ed' = [ed EXCEPT ![e].pc = "read", ![e].wish = w]
    /\ UNCHANGED tab

(* The GUI looks at the fields first.  An exception ends an action without an  *)
(* answer.                                                                     *)
Refuse(e) ==
    /\ e \in Gui /\ At(e, "read") /\ UNCHANGED tab
    /\ \E r \in {"refused", "raised"} : Finish(e, r)

(* read_crontab_lines: "no crontab for" is an empty list, any other failure    *)
(* ends the action; so does a number that is not in the list.                  *)
ReadsRaw == {tab}                                                  \* variant
ReadsUnchecked == {Strip(tab), <<>>}                               \* variant
Reads == {Strip(tab)}
GuiRead(e) ==
    /\ e \in Gui /\ At(e, "read") /\ UNCHANGED tab
    /\ \/ Finish(e, "refused")
       \/ \E ls \in Reads : /\ ed[e].wish.op = "delete" => ed[e].wish.index <= Len(ls)
                            /\ Found(e, ls)

(* The menu drops what crontab -l has to say and takes a failure for an empty  *)
(* list.                                                                       *)
ShellRead(e) ==
    /\ e \in Shell /\ At(e, "read") /\ UNCHANGED tab
    /\ \/ e \in Flaky /\ Found(e, <<>>)
       \/ Found(e, tab)

(* The edit of what was read.  The menu adds below the lines as they are, and  *)
(* deletes with awk NR != idx, which lets everything pass when there is no     *)
(* such line.                                                                  *)
GuiLines(ls, w) == IF w.op = "add" THEN Append(ls, w.job) ELSE RemoveAt(ls, w.index)
ShellLines(ls, w) ==
    CASE w.op = "add" -> Append(ls, w.job)
      [] w.op = "delete" /\ w.index <= Len(Strip(ls)) -> RemoveAt(Strip(ls), w.index)
      [] OTHER -> Strip(ls)

(* crontab installs all of it, or refuses it and the crontab stays (the menu   *)
(* asks the user first, with the same two outcomes).                           *)
Write(e) ==
    /\ At(e, "write")
    /\ \/ /\ Finish(e, "ok")
          /\ tab' = IF e \in Gui THEN GuiLines(ed[e].lines, ed[e].wish)
                                ELSE ShellLines(ed[e].lines, ed[e].wish)
       \/ Finish(e, "refused") /\ UNCHANGED tab

(* The GUI's answer has been sent. *)
Answered(e) == ed[e].pc \in {"ok", "refused", "raised"}
Reply(e)    == Answered(e) /\ Back(e) /\ UNCHANGED tab

Edit(e) == Refuse(e) \/ GuiRead(e) \/ ShellRead(e) \/ Write(e)
Next == \E e \in Editors : Ask(e) \/ Edit(e) \/ Reply(e)
Spec == Init /\ [][Next]_vars

--------------------------------------------------------------------------------
(* Every variable has its type; what the GUI works on has no empty lines, so   *)
(* the table it shows and the numbers it takes are of the same list.           *)
TypeOK ==
    /\ tab \in Seq(Jobs \cup {Blank})
    /\ ed \in [Editors -> [pc : {"idle", "read", "write", "ok", "refused", "raised"},
                           wish : Wishes \cup {Nothing},
                           lines : Seq(Jobs \cup {Blank})]]
    /\ \A e \in Gui : ed[e].lines \in Seq(Jobs)

(* The crontab changes only by whole edits: each is one that somebody asked    *)
(* for, is applied at most once, to a list of jobs the crontab held since it   *)
(* was asked for, and the number of a deletion counts what the listing counts. *)
(* A menu whose crontab -l failed may start from nothing, the GUI may not.     *)
View(e) == IF At(e, "write") THEN {Strip(ed[e].lines)} ELSE {}
List == INSTANCE JobList WITH jobs <- Strip(tab), wish <- [e \in Editors |-> ed[e].wish],
                              view <- [e \in Editors |-> View(e)], Forgetful <- Flaky
EditsApply == List!Spec

(* "Da them", "Da xoa", "Crontab hien tai": what an editor installs is the     *)
(* crontab as it is with its own edit done, so no edit of another is undone.   *)
(* (False when two editors overlap: JobList allows that, nothing prevents it.) *)
EditsKept ==
    [][\A e \in Editors : At(e, "write") /\ ~At(e, "write")' =>
          tab' = tab \/ Strip(tab)' = List!Edited(Strip(tab), ed[e].wish)]_vars

================================================================================
