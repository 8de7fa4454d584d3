----------------------------- MODULE ControlCenter -----------------------------
(* gui_app/app.py as a whole: pages in browsers send the requests their        *)
(* buttons stand for, the server runs each on a thread of its own, and Ctrl+C  *)
(* ends it at any time.  The file actions and commands are those of            *)
(* FileActions, the cron actions those of Crontab, whose other editor is the   *)
(* same user in a shell.  SocketSupervisor has what else happens at the end.   *)
EXTENDS Crontab, FileActions

CONSTANTS Pages, Ready,     \* pages; the state of one whose buttons are enabled
          Trees,            \* the trees to start from
          Starts,           \* page -> the section the user works in
          Wanted,           \* page -> what its user presses and types
          MaxRequests       \* the bound on the changes asked for in one behaviour

ASSUME CenterAssumption ==
    /\ Workers = Gui /\ Ready \notin Gui /\ MaxRequests \in Nat
    /\ \A t \in Trees : IsTree(t)

VARIABLES gui,       \* "serving"; "closing" after Ctrl+C; "down"
          section,   \* page -> the section shown
          page,      \* page -> Ready, or the thread whose answer its fetch waits for
          sent       \* the file actions and edits of the crontab asked for so far
center == <<gui, section, page, sent>>
all    == <<vars, files, center>>

CenterInit ==
    /\ Init /\ FilesInit(Trees)
    /\ gui = "serving" /\ section \in Starts /\ page = [p \in Pages |-> Ready] /\ sent = 0

(* What the buttons send (data-action, and data-fields with what was typed);   *)
(* cron.add and cron.delete are Crontab's.                                     *)
FileButtons ==
    {[op |-> o, path |-> x, dst |-> x] :
       o \in {"create_dir", "create_file", "delete", "find"}, x \in Places \ {<<>>}}
    \cup [op : {"copy", "move"}, path : Places \ {<<>>}, dst : Places]
Commands == [op : {"command"}, path : {<<>>}, dst : {<<>>}]
Buttons(p) == IF section[p] = "files" THEN Wanted[p] \cap FileButtons ELSE Commands

--------------------------------------------------------------------------------
(* run() of the page: all its buttons are disabled until the answer, or the    *)
(* failure, of the request; do_POST is called on a thread of its own.          *)
Enabled(p) == page[p] = Ready
Idling(w)  == In(w, "free") /\ At(w, "idle")
Count      == sent < MaxRequests /\ sent' = sent + 1
Click(p) ==
    /\ gui = "serving" /\ Enabled(p) /\ \E w \in Gui : Idling(w)
    /\ LET w == CHOOSE w \in Gui : Idling(w) IN
          /\ page' = [page EXCEPT ![p] = w]
          /\ \/ /\ IF section[p] = "files" THEN Count ELSE UNCHANGED sent
                /\ \E r \in Buttons(p) : Submit(w, r)
                /\ UNCHANGED vars
             \/ section[p] = "cron" /\ Count /\ Ask(w) /\ UNCHANGED files
    /\ UNCHANGED <<gui, section>>

(* The answer, or the end of the connection after an exception, gets to the    *)
(* page that waits for it, if it is still there.                               *)
Done(w)  == job[w].pc \in Results \/ Answered(w)
FreedByAnswer(w) ==                                                  \* variant
    [p \in Pages |-> IF page[p] = w /\ ~In(w, "raised") /\ ~At(w, "raised") THEN Ready
                     ELSE page[p]]
Freed(w) == [p \in Pages |-> IF page[p] = w THEN Ready ELSE page[p]]
Serve(w) ==
    /\ Done(w)
    /\ job' = [job EXCEPT ![w] = Idler] /\ Back(w)
    /\ page' = Freed(w)
    /\ UNCHANGED <<fs, tab, gui, section, sent>>

(* Reloading a page makes its buttons work again; the action goes on, and the  *)
(* next one runs beside it.                                                    *)
Reload(p) ==
    /\ ~Enabled(p) /\ page' = [page EXCEPT ![p] = Ready]
    /\ UNCHANGED <<vars, files, gui, section, sent>>

(* The same user at a shell, at any time. *)
ShellAsk(e) == e \in Shell /\ Count /\ Ask(e) /\ UNCHANGED <<files, gui, section, page>>

(* Ctrl+C: no request is taken any more; then main ends, and the daemon        *)
(* threads with it, wherever they are, their crontab as well (a step that is   *)
(* cut short is one that fails first).  A port is found for the next start.    *)
Interrupt == gui = "serving" /\ gui' = "closing" /\ UNCHANGED <<vars, files, section, page, sent>>
Quit ==
    /\ gui = "closing" /\ gui' = "down"
    /\ job' = [w \in Gui |-> Idler]
    /\ ed' = [e \in Editors |-> IF e \in Gui THEN Idle ELSE ed[e]]
    /\ page' = [p \in Pages |-> Ready]
    /\ UNCHANGED <<fs, tab, section, sent>>
Launch == gui = "down" /\ gui' = "serving" /\ UNCHANGED <<vars, files, section, page, sent>>

Act(w) == \/ FileStep(w) /\ UNCHANGED <<vars, center>>
          \/ Edit(w) /\ UNCHANGED <<files, center>>
          \/ Serve(w)
Menu(e) == e \in Shell /\ Edit(e) /\ UNCHANGED <<files, center>>

CenterNext ==
    \/ \E p \in Pages : Click(p) \/ Reload(p)
    \/ \E w \in Gui : Act(w)
    \/ \E e \in Shell : ShellAsk(e) \/ Menu(e)
    \/ Interrupt \/ Quit \/ Launch

(* Threads are scheduled, and what they call comes to an end: commands have a  *)
(* timeout, and crontab reads all of its input.  Users need do nothing.        *)
CenterSpec == CenterInit /\ [][CenterNext]_all /\ \A w \in Gui : WF_all(Act(w))

--------------------------------------------------------------------------------
(* Every variable has its type; a page waits for a thread that is at work, and *)
(* no thread has two requests in hand or answers two pages.                    *)
CenterTypeOK ==
    /\ TypeOK /\ FilesTypeOK
    /\ gui \in {"serving", "closing", "down"} /\ section \in Starts /\ sent \in 0 .. MaxRequests
    /\ page \in [Pages -> Gui \cup {Ready}]
    /\ \A w \in Gui : In(w, "free") \/ At(w, "idle")
    /\ \A p \in Pages : ~Enabled(p) => /\ ~Idling(page[p])
                                       /\ \A q \in Pages : page[q] = page[p] => q = p

(* The buttons never stay disabled: whatever becomes of a request, also when   *)
(* its action raises or the GUI ends, the page can be used again.              *)
PageFreed == \A p \in Pages : ~Enabled(p) ~> Enabled(p)

================================================================================
