-------------------------------- MODULE JobList --------------------------------
(* What the cron editors promise, without saying how: each edit somebody asked *)
(* for is applied once, whole, to the list as its editor saw it, or not at     *)
(* all.  Two editors who looked before either was done undo each other's work. *)
EXTENDS SequencesExt

CONSTANTS Editors, Jobs,      \* who edits; the jobs
          Wishes, Nothing,    \* what one may ask for; no wish
          Forgetful           \* the editors that may take the list for empty

VARIABLES jobs,      \* the lines of the crontab
          wish,      \* editor -> the edit it was asked for
          view       \* editor -> the list it saw, in a set: empty until it looks

Init ==
    /\ jobs \in Seq(Jobs)
    /\ wish = [e \in Editors |-> Nothing] /\ view = [e \in Editors |-> {}]

(* A new job goes to the end; a deletion names a job by its number in the list. *)
Edited(lines, w) ==
    CASE w.op = "add" -> Append(lines, w.job)
      [] w.op = "delete" /\ w.index <= Len(lines) -> RemoveAt(lines, w.index)
      [] OTHER -> lines

Ask(e) ==
    /\ wish[e] = Nothing /\ \E w \in Wishes : wish' = [wish EXCEPT ![e] = w]
    /\ UNCHANGED <<jobs, view>>

Look(e) ==
    /\ wish[e] # Nothing /\ view[e] = {}
    /\ \/ view' = [view EXCEPT ![e] = {jobs}]
       \/ e \in Forgetful /\ view' = [view EXCEPT ![e] = {<<>>}]
    /\ UNCHANGED <<jobs, wish>>

(* Editors are done, or give up. *)
Rest(E) ==
    /\ wish' = [e \in Editors |-> IF e \in E THEN Nothing ELSE wish[e]]
    /\ view' = [e \in Editors |-> IF e \in E THEN {} ELSE view[e]]

Do(e)   == \E lines \in view[e] : jobs' = Edited(lines, wish[e]) /\ Rest({e})
Drop(E) == Rest(E) /\ UNCHANGED jobs

Next == \/ \E e \in Editors : Ask(e) \/ Look(e) \/ Do(e)
        \/ \E E \in SUBSET Editors : Drop(E)
Spec == Init /\ [][Next]_<<jobs, wish, view>>

================================================================================
