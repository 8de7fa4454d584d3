-------------------------- MODULE ControlCenterProofs --------------------------
(* What TLAPS proves about the GUI as a whole, for any number of pages,        *)
(* threads, files, mounts and cron lines, and any tree to start from.          *)
EXTENDS ControlCenter, CrontabProofs, FileActionsProofs

--------------------------------------------------------------------------------
(* No thread has two requests in hand, and a page waits for a thread of its    *)
(* own that is at work.                                                        *)
Fetches ==
    /\ page \in [Pages -> Gui \cup {Ready}]
    /\ \A w \in Gui : In(w, "free") \/ At(w, "idle")
    /\ \A p \in Pages : ~Enabled(p) => /\ ~Idling(page[p])
                                       /\ \A q \in Pages : page[q] = page[p] => q = p
Counts == gui \in {"serving", "closing", "down"} /\ section \in Starts /\ sent \in 0 .. MaxRequests
CenterInv == CronTyped /\ FilesInv /\ Counts /\ Fetches

LEMMA CenterInvType == CenterInv => CenterTypeOK
BY FilesInvType DEF CenterInv, CronTyped, Counts, Fetches, CenterTypeOK

LEMMA GuiEditors == Gui \subseteq Editors /\ Shell \subseteq Editors
                    /\ \A e \in Shell, w \in Gui : e # w
BY CrontabAssumption DEF Editors

LEMMA InitCenter == CenterInit => CenterInv
<1> SUFFICES ASSUME CenterInit PROVE CenterInv
    OBVIOUS
<1>1. CronTyped BY InitCron DEF CenterInit
<1>2. FilesInv
  <2>1. IsTree(fs) BY CenterAssumption DEF CenterInit, FilesInit
  <2>2. JobOK(Idler)
    <3>1. [Idler EXCEPT !.pc = "free"] = Idler BY DEF Idler
    <3>. QED BY <3>1, IdlerOK
  <2>. QED BY <2>1, <2>2 DEF CenterInit, FilesInit, FilesInv, JobOK
<1>3. Counts BY CenterAssumption DEF CenterInit, Counts
<1>4. Fetches
  <2>1. \A w \in Gui : At(w, "idle") BY GuiEditors DEF CenterInit, Init, At, Idle
  <2>. QED BY <2>1 DEF CenterInit, Fetches, Enabled
<1>. QED BY <1>1, <1>2, <1>3, <1>4 DEF CenterInv

(* Steps in which no thread takes a request or is free again.                  *)
SameHands == \A w \in Gui : /\ job'[w].pc = "free" <=> job[w].pc = "free"
                            /\ ed'[w].pc = "idle" <=> ed[w].pc = "idle"
LEMMA SameFetches ==
    ASSUME Fetches, SameHands,
           page' = page \/ \E p \in Pages : page' = [page EXCEPT ![p] = Ready]
    PROVE  Fetches'
<1>1. page' \in [Pages -> Gui \cup {Ready}] BY DEF Fetches
<1>2. \A p \in Pages : page'[p] # Ready => page'[p] = page[p] /\ page[p] \in Gui
  BY DEF Fetches
<1>3. \A w \in Gui : job'[w].pc = "free" \/ ed'[w].pc = "idle"
  BY DEF Fetches, SameHands, In, At
<1>4. ASSUME NEW p \in Pages, page'[p] # Ready
      PROVE  /\ ~(job'[page'[p]].pc = "free" /\ ed'[page'[p]].pc = "idle")
             /\ \A q \in Pages : page'[q] = page'[p] => q = p
  <2>1. page'[p] = page[p] /\ page[p] \in Gui /\ ~Enabled(p) BY <1>2, <1>4 DEF Enabled
  <2>2. /\ ~(job[page[p]].pc = "free" /\ ed[page[p]].pc = "idle")
        /\ \A q \in Pages : page[q] = page[p] => q = p
    BY <2>1 DEF Fetches, Idling, In, At
  <2>3. \A q \in Pages : page'[q] = page'[p] => page[q] = page[p] BY <1>2, <1>4, <2>1
  <2>. QED BY <2>1, <2>2, <2>3 DEF SameHands
<1>. QED BY <1>1, <1>3, <1>4 DEF Fetches, Enabled, Idling, In, At

--------------------------------------------------------------------------------
(* Each step of the GUI, its pages and the shell.                              *)
LEMMA ButtonType ==
    ASSUME NEW p, NEW r \in Buttons(p)
    PROVE  /\ r.op \in DOMAIN Entry /\ r.path \in Places /\ r.dst \in Places
           /\ r.op \notin Reading => r.path # <<>>
<1>1. r \in FileButtons \/ r \in Commands BY DEF Buttons
<1>2. CASE r \in FileButtons
  <2>1. CASE r \in [op : {"copy", "move"}, path : Places \ {<<>>}, dst : Places]
    BY <2>1 DEF Entry
  <2>2. CASE \E o \in {"create_dir", "create_file", "delete", "find"}, x \in Places \ {<<>>} :
                r = [op |-> o, path |-> x, dst |-> x]
    BY <2>2 DEF Entry
  <2>. QED BY <1>2, <2>1, <2>2 DEF FileButtons
<1>3. CASE r \in Commands BY <1>3, RootPlace DEF Commands, Entry, Reading
<1>. QED BY <1>1, <1>2, <1>3

(* A click hands the request to a thread that is idle, and nobody else waits   *)
(* for that thread.                                                            *)
LEMMA TakenFetches ==
    ASSUME Fetches, NEW p \in Pages, NEW w \in Gui, Idling(w),
           page' = [page EXCEPT ![p] = w],
           job'[w].pc = "free" \/ ed'[w].pc = "idle",
           ~(job'[w].pc = "free" /\ ed'[w].pc = "idle"),
           \A u \in Gui : u # w => /\ job'[u].pc = job[u].pc
                                   /\ ed'[u].pc = ed[u].pc
    PROVE  Fetches'
<1>1. page' \in [Pages -> Gui \cup {Ready}] BY DEF Fetches
<1>2. \A q \in Pages : page'[q] = IF q = p THEN w ELSE page[q] BY DEF Fetches
<1>3. \A q \in Pages : page[q] # w
  BY CenterAssumption DEF Fetches, Enabled
<1>4. \A u \in Gui : job'[u].pc = "free" \/ ed'[u].pc = "idle" BY DEF Fetches, In, At
<1>5. ASSUME NEW q \in Pages, page'[q] # Ready
      PROVE  /\ ~(job'[page'[q]].pc = "free" /\ ed'[page'[q]].pc = "idle")
             /\ \A r \in Pages : page'[r] = page'[q] => r = q
  <2>1. CASE q = p BY <1>2, <1>3, <2>1
  <2>2. CASE q # p
    <3>1. page'[q] = page[q] /\ page[q] \in Gui /\ page[q] # w /\ ~Enabled(q)
      BY <1>2, <1>3, <1>5, <2>2 DEF Fetches, Enabled
    <3>2. /\ ~(job[page[q]].pc = "free" /\ ed[page[q]].pc = "idle")
          /\ \A r \in Pages : page[r] = page[q] => r = q
      BY <3>1 DEF Fetches, Idling, In, At
    <3>3. \A r \in Pages : page'[r] = page'[q] => r # p /\ page[r] = page[q]
      BY <1>2, <3>1
    <3>. QED BY <3>1, <3>2, <3>3
  <2>. QED BY <2>1, <2>2
<1>. QED BY <1>1, <1>4, <1>5 DEF Fetches, Enabled, Idling, In, At

LEMMA AskOnly ==
    ASSUME CronTyped, NEW e \in Editors, Ask(e)
    PROVE  ed'[e].pc = "read" /\ \A f \in Editors : f # e => ed'[f] = ed[f]
BY DEF Ask, CronTyped, TypeOK

LEMMA SameFiles == ASSUME FilesInv, UNCHANGED files PROVE FilesInv'
BY DEF FilesInv, files

LEMMA SameCron == ASSUME CronTyped, UNCHANGED vars PROVE CronTyped'
BY DEF CronTyped, TypeOK, vars

LEMMA CountsUp == ASSUME CenterInv, Count PROVE sent' \in 0 .. MaxRequests
BY CenterAssumption DEF CenterInv, Counts, Count

LEMMA ClickInv == ASSUME CenterInv, NEW p \in Pages, Click(p) PROVE CenterInv'
<1> DEFINE w == CHOOSE v \in Gui : Idling(v)
<1>1. w \in Gui /\ Idling(w) /\ page' = [page EXCEPT ![p] = w] BY DEF Click
<1>2. \/ (\E r \in Buttons(p) : Submit(w, r)) /\ UNCHANGED vars
      \/ Ask(w) /\ UNCHANGED files
  BY DEF Click
<1>3. w \in Workers /\ w \in Editors BY <1>1, CenterAssumption, GuiEditors
<1>4. Counts'
  <2>1. Count \/ UNCHANGED sent BY DEF Click
  <2>. QED BY <2>1, CountsUp DEF CenterInv, Counts, Click
<1> HIDE DEF w
<1>5. CASE \E r \in Buttons(p) : Submit(w, r) /\ UNCHANGED vars
  <2>1. PICK r \in Buttons(p) : Submit(w, r) BY <1>5
  <2>2. FilesInv' /\ job'[w].pc # "free" /\ \A u \in Workers : u # w => job'[u].pc = job[u].pc
    BY <1>3, <2>1, ButtonType, SubmitJob DEF CenterInv
  <2>3. CronTyped' BY <1>5, SameCron DEF CenterInv
  <2>4. Fetches'
    BY <1>1, <1>5, <2>2, TakenFetches, CenterAssumption DEF CenterInv, Idling, At, vars
  <2>. QED BY <1>4, <2>2, <2>3, <2>4 DEF CenterInv
<1>6. CASE Ask(w) /\ UNCHANGED files
  <2>1. CronTyped' BY <1>3, <1>6, AskTyped DEF CenterInv
  <2>2. FilesInv' BY <1>6, SameFiles DEF CenterInv
  <2>3. ed'[w].pc = "read" /\ \A f \in Editors : f # w => ed'[f] = ed[f]
    BY <1>3, <1>6, AskOnly DEF CenterInv
  <2>4. Fetches'
    <3>1. job'[w].pc = "free" /\ job' = job BY <1>1, <1>6 DEF Idling, In, files
    <3>2. \A u \in Gui : u # w => ed'[u].pc = ed[u].pc BY <2>3, GuiEditors
    <3>. QED BY <1>1, <2>3, <3>1, <3>2, TakenFetches DEF CenterInv
  <2>. QED BY <1>4, <2>1, <2>2, <2>4 DEF CenterInv
<1>. QED BY <1>2, <1>5, <1>6

LEMMA ReloadInv == ASSUME CenterInv, NEW p \in Pages, Reload(p) PROVE CenterInv'
<1>1. CronTyped' /\ FilesInv' BY SameCron, SameFiles DEF CenterInv, Reload
<1>2. Counts' BY DEF CenterInv, Counts, Reload
<1>3. SameHands BY DEF SameHands, Reload, vars, files
<1>4. Fetches' BY <1>3, SameFetches DEF CenterInv, Reload
<1>. QED BY <1>1, <1>2, <1>4 DEF CenterInv

LEMMA FileStepInv ==
    ASSUME CenterInv, NEW w \in Gui, FileStep(w), UNCHANGED <<vars, center>>
    PROVE  CenterInv'
<1>1. Worked(w) BY FileStepWorked, CenterAssumption DEF CenterInv
<1>2. FilesInv' /\ CronTyped' BY <1>1, SameCron DEF Worked, CenterInv
<1>3. Counts' BY DEF CenterInv, Counts, center
<1>4. SameHands BY <1>1, CenterAssumption DEF SameHands, Worked, vars
<1>5. Fetches' BY <1>4, SameFetches DEF CenterInv, center
<1>. QED BY <1>2, <1>3, <1>5 DEF CenterInv

LEMMA EditInv ==
    ASSUME CenterInv, NEW e \in Editors, Edit(e), UNCHANGED <<files, center>>
    PROVE  CenterInv'
<1>1. FilesInv' /\ CronTyped' BY EditTyped, SameFiles DEF CenterInv
<1>2. Counts' BY DEF CenterInv, Counts, center
<1>3. /\ ~At(e, "idle") /\ (e \in Gui => ed'[e].pc # "idle")
      /\ \A f \in Editors : f # e => ed'[f] = ed[f]
  BY EditOthers DEF CenterInv, At
<1>4. SameHands BY <1>3, GuiEditors DEF SameHands, At, files
<1>5. Fetches' BY <1>4, SameFetches DEF CenterInv, center
<1>. QED BY <1>1, <1>2, <1>5 DEF CenterInv

LEMMA ShellAskInv == ASSUME CenterInv, NEW e \in Shell, ShellAsk(e) PROVE CenterInv'
<1>1. /\ e \in Editors /\ e \notin Gui /\ Count /\ Ask(e)
      /\ UNCHANGED <<files, gui, section, page>>
  BY GuiEditors DEF ShellAsk
<1>2. FilesInv' /\ CronTyped' BY <1>1, AskTyped, SameFiles DEF CenterInv
<1>3. Counts' BY <1>1, CountsUp DEF CenterInv, Counts
<1>4. SameHands BY <1>1, AskOnly, GuiEditors DEF SameHands, CenterInv, files
<1>5. Fetches' BY <1>1, <1>4, SameFetches DEF CenterInv
<1>. QED BY <1>2, <1>3, <1>5 DEF CenterInv

LEMMA ServeInv == ASSUME CenterInv, NEW w \in Gui, Serve(w) PROVE CenterInv'
<1>1. w \in Workers /\ w \in Editors BY CenterAssumption, GuiEditors
<1>2. CronTyped' BY <1>1, BackTyped DEF Serve, CenterInv
<1>3. FilesInv' /\ job'[w] = Idler /\ \A u \in Workers : u # w => job'[u] = job[u]
  <2>1. JobOK(Idler)
    <3>1. [Idler EXCEPT !.pc = "free"] = Idler BY DEF Idler
    <3>. QED BY <3>1, IdlerOK
  <2>2. IsTree(fs') BY DEF Serve, CenterInv, FilesInv
  <2>. QED BY <1>1, <2>1, <2>2, OneJob DEF Serve, CenterInv
<1>4. ed'[w] = Idle /\ \A f \in Editors : f # w => ed'[f] = ed[f]
  BY <1>1 DEF Serve, Back, CenterInv, CronTyped, TypeOK
<1>5. Counts' BY DEF CenterInv, Counts, Serve
<1>6. Fetches'
  <2>1. \A p \in Pages : page'[p] = IF page[p] = w THEN Ready ELSE page[p]
    BY DEF Serve, Freed
  <2>2. page' \in [Pages -> Gui \cup {Ready}]
    BY DEF Serve, Freed, CenterInv, Fetches
  <2>3. \A u \in Gui : job'[u].pc = "free" \/ ed'[u].pc = "idle"
    BY <1>3, <1>4, GuiEditors, CenterAssumption DEF CenterInv, Fetches, In, At, Idler
  <2>4. ASSUME NEW q \in Pages, page'[q] # Ready
        PROVE  /\ ~(job'[page'[q]].pc = "free" /\ ed'[page'[q]].pc = "idle")
               /\ \A r \in Pages : page'[r] = page'[q] => r = q
    <3>1. page'[q] = page[q] /\ page[q] \in Gui /\ page[q] # w /\ ~Enabled(q)
      BY <2>1, <2>4 DEF CenterInv, Fetches, Enabled
    <3>2. /\ ~(job[page[q]].pc = "free" /\ ed[page[q]].pc = "idle")
          /\ \A r \in Pages : page[r] = page[q] => r = q
      BY <3>1 DEF CenterInv, Fetches, Idling, In, At
    <3>3. job'[page[q]] = job[page[q]] /\ ed'[page[q]] = ed[page[q]]
      BY <1>3, <1>4, <3>1, GuiEditors, CenterAssumption
    <3>4. \A r \in Pages : page'[r] = page'[q] => page[r] = page[q]
      BY <2>1, <2>4, <3>1
    <3>. QED BY <3>1, <3>2, <3>3, <3>4
  <2>. QED BY <2>2, <2>3, <2>4 DEF Fetches, Enabled, Idling, In, At
<1>. QED BY <1>2, <1>3, <1>5, <1>6 DEF CenterInv

LEMMA QuitInv == ASSUME CenterInv, Quit PROVE CenterInv'
<1>1. \A e \in Editors : ed'[e] = IF e \in Gui THEN Idle ELSE ed[e] BY DEF Quit
<1>2. \A e \in Editors : EdOK(e, Idle)
  <2>1. [Idle EXCEPT !.pc = "idle"] = Idle BY DEF Idle
  <2>. QED BY <2>1, IdleOK
<1>3. CronTyped'
  <2>1. \A e \in Editors : EdOK(e, ed'[e]) BY <1>1, <1>2 DEF CenterInv, CronTyped
  <2>2. ed' = [e \in Editors |-> ed'[e]] BY DEF Quit
  <2>3. tab' \in Seq(Jobs \cup {Blank}) BY DEF Quit, CenterInv, CronTyped, TypeOK
  <2>4. TypeOK' BY <2>1, <2>2, <2>3, GuiEditors DEF TypeOK, EdOK
  <2>. QED BY <2>1, <2>4 DEF CronTyped
<1>4. FilesInv'
  <2>1. JobOK(Idler)
    <3>1. [Idler EXCEPT !.pc = "free"] = Idler BY DEF Idler
    <3>. QED BY <3>1, IdlerOK
  <2>. QED BY <2>1, CenterAssumption DEF Quit, CenterInv, FilesInv, JobOK
<1>5. Counts' BY DEF Quit, CenterInv, Counts
<1>6. Fetches'
  <2>1. \A w \in Gui : ed'[w].pc = "idle" BY <1>1, GuiEditors DEF Idle
  <2>2. page' \in [Pages -> Gui \cup {Ready}] /\ \A p \in Pages : page'[p] = Ready BY DEF Quit
  <2>. QED BY <2>1, <2>2 DEF Fetches, Enabled, At
<1>. QED BY <1>3, <1>4, <1>5, <1>6 DEF CenterInv

LEMMA SwitchInv == ASSUME CenterInv, Interrupt \/ Launch PROVE CenterInv'
<1>1. UNCHANGED <<vars, files, section, page, sent>> BY DEF Interrupt, Launch
<1>2. CronTyped' /\ FilesInv' BY <1>1, SameCron, SameFiles DEF CenterInv
<1>3. Counts' BY DEF CenterInv, Counts, Interrupt, Launch
<1>4. SameHands BY <1>1 DEF SameHands, vars, files
<1>5. Fetches' BY <1>1, <1>4, SameFetches DEF CenterInv
<1>. QED BY <1>2, <1>3, <1>5 DEF CenterInv

LEMMA StutterInv == ASSUME CenterInv, UNCHANGED all PROVE CenterInv'
<1>1. CronTyped' /\ FilesInv' BY SameCron, SameFiles DEF CenterInv, all
<1>2. Counts' BY DEF CenterInv, Counts, all, center
<1>3. SameHands BY DEF SameHands, all, vars, files
<1>4. Fetches' BY <1>3, SameFetches DEF CenterInv, all, center
<1>. QED BY <1>1, <1>2, <1>4 DEF CenterInv

LEMMA NextInv == CenterInv /\ [CenterNext]_all => CenterInv'
<1>1. ASSUME CenterInv, NEW w \in Gui, Act(w) PROVE CenterInv'
  BY <1>1, FileStepInv, EditInv, ServeInv, GuiEditors DEF Act
<1>2. ASSUME CenterInv, NEW e \in Shell, ShellAsk(e) \/ Menu(e) PROVE CenterInv'
  BY <1>2, ShellAskInv, EditInv, GuiEditors DEF Menu
<1>. QED BY <1>1, <1>2, ClickInv, ReloadInv, SwitchInv, QuitInv, StutterInv DEF CenterNext

(* Types of the whole GUI: in particular what exists is in a directory,        *)
(* whatever threads do to the tree between each other's steps, the GUI         *)
(* installs no empty lines, no thread has two requests in hand and no two      *)
(* pages wait for one thread.                                                  *)
THEOREM CenterTypes == CenterSpec => []CenterTypeOK
<1>1. CenterSpec => []CenterInv BY InitCenter, NextInv, PTL DEF CenterSpec
<1>. QED BY <1>1, CenterInvType, PTL

--------------------------------------------------------------------------------
(* For the crontab a step of the GUI is one of JobList: an editor is asked,    *)
(* looks, edits or gives up, and when main ends all of the GUI's give up; pages *)
(* and files change nothing.                                                   *)
LEMMA QuitList == ASSUME CenterInv, Quit PROVE List!Next
<1>1. \A e \in Editors : ed'[e] = IF e \in Gui THEN Idle ELSE ed[e] BY DEF Quit
<1>2. Idle.wish = Nothing /\ Idle.pc = "idle" BY DEF Idle
<1>3. \A e \in Editors : ed'[e].wish = IF e \in Gui THEN Nothing ELSE ed[e].wish
  BY <1>1, <1>2
<1>4. \A e \in Editors : View(e)' = IF e \in Gui THEN {} ELSE View(e)
  BY <1>1, <1>2 DEF View, At
<1>5. List!Rest(Gui) BY <1>3, <1>4 DEF List!Rest
<1>6. Strip(tab)' = Strip(tab) BY DEF Quit
<1>7. List!Drop(Gui) BY <1>5, <1>6 DEF List!Drop
<1>. QED BY <1>7, GuiEditors DEF List!Next

LEMMA ServeList == ASSUME CenterInv, NEW w \in Gui, Serve(w) PROVE List!Next
<1>1. w \in Editors /\ Back(w) /\ UNCHANGED tab BY GuiEditors DEF Serve
<1>2. ed' = [ed EXCEPT ![w] = [Idle EXCEPT !.pc = "idle"]]
  <2>1. [Idle EXCEPT !.pc = "idle"] = Idle BY DEF Idle
  <2>. QED BY <1>1, <2>1 DEF Back
<1>. QED BY <1>1, <1>2, FinishList DEF CenterInv

LEMMA SameList == ASSUME UNCHANGED vars PROVE UNCHANGED ListVars
<1>1. Strip(tab)' = Strip(tab) BY DEF vars
<1>2. \A e \in Editors : View(e)' = View(e) BY DEF vars, View, At
<1>3. ed' = ed BY DEF vars
<1>. QED BY <1>1, <1>2, <1>3 DEF ListVars, WishOf, ViewOf

LEMMA NextList == ASSUME CenterInv, [CenterNext]_all PROVE [List!Next]_ListVars
<1>1. CronTyped BY DEF CenterInv
<1>2. ASSUME NEW e \in Editors, Ask(e) \/ Edit(e) PROVE List!Next
  <2>1. Ask(e) => List!Next BY <1>1, AskList DEF List!Next
  <2>. QED BY <1>1, <1>2, <2>1, EditList
<1>3. ASSUME NEW p \in Pages, Click(p) PROVE [List!Next]_ListVars
  <2>1. (\E w \in Gui : Ask(w)) \/ UNCHANGED vars BY <1>3 DEF Click
  <2>. QED BY <1>2, <2>1, SameList, GuiEditors
<1>4. ASSUME NEW w \in Gui, Act(w) PROVE [List!Next]_ListVars
  BY <1>2, <1>4, ServeList, SameList, GuiEditors DEF Act
<1>5. ASSUME NEW e \in Shell, ShellAsk(e) \/ Menu(e) PROVE [List!Next]_ListVars
  BY <1>2, <1>5, GuiEditors DEF ShellAsk, Menu
<1>6. (\E p \in Pages : Reload(p)) \/ Interrupt \/ Launch \/ UNCHANGED all => UNCHANGED vars
  BY DEF Reload, Interrupt, Launch, all
<1>. QED BY <1>3, <1>4, <1>5, <1>6, QuitList, SameList DEF CenterNext

(* The whole GUI, with any number of cron pages, request threads and menus at  *)
(* work at once, implements JobList: the crontab changes only by whole edits,  *)
(* each one that somebody asked for and that is applied at most once, to a     *)
(* list the crontab held since then, or not at all, also when the GUI ends in  *)
(* the middle of it.  It does not say that edits that overlap do not undo one  *)
(* another: they do.                                                           *)
THEOREM CronEditsApply == CenterSpec => EditsApply
<1>1. CenterInit => CenterInv /\ List!Init BY InitCenter, InitList DEF CenterInit, CenterInv
<1>2. CenterInv /\ [CenterNext]_all => [List!Next]_ListVars BY NextList
<1>3. [List!Next]_ListVars
      => [List!Next]_<<Strip(tab), [e \in Editors |-> ed[e].wish], [e \in Editors |-> View(e)]>>
  BY DEF ListVars, WishOf, ViewOf
<1>. QED BY <1>1, <1>2, <1>3, NextInv, PTL DEF CenterSpec, EditsApply, List!Spec

--------------------------------------------------------------------------------
(* For the files a step of the GUI is a step of one thread, a new request, or  *)
(* nothing but the end of some.                                                *)
Calm == fs' = fs /\ \A u \in Workers : job'[u] \in {job[u], Idler}
FilesStep ==
    \/ Calm
    \/ \E w \in Workers : \E r : Submit(w, r) /\ r.op \in DOMAIN Entry
    \/ \E w \in Workers : FileStep(w)

LEMMA CenterFiles == ASSUME CenterInv, [CenterNext]_all PROVE FilesStep
<1>1. UNCHANGED files => Calm BY DEF files, Calm
<1>2. ASSUME NEW p \in Pages, Click(p) PROVE FilesStep
  <2> DEFINE w == CHOOSE v \in Gui : Idling(v)
  <2>1. w \in Workers BY <1>2, CenterAssumption DEF Click
  <2>2. (\E r \in Buttons(p) : Submit(w, r)) \/ UNCHANGED files BY <1>2 DEF Click, files
  <2> HIDE DEF w
  <2>. QED BY <1>1, <2>1, <2>2, ButtonType DEF FilesStep
<1>3. ASSUME NEW w \in Gui, Act(w) PROVE FilesStep
  <2>1. Serve(w) => Calm BY CenterAssumption DEF Serve, Calm, CenterInv, FilesInv
  <2>. QED BY <1>1, <1>3, <2>1, CenterAssumption DEF Act, FilesStep
<1>4. ASSUME NEW e \in Shell, ShellAsk(e) \/ Menu(e) PROVE FilesStep
  BY <1>1, <1>4 DEF ShellAsk, Menu, FilesStep
<1>5. Quit => Calm BY CenterAssumption DEF Quit, Calm
<1>6. (\E p \in Pages : Reload(p)) \/ Interrupt \/ Launch \/ UNCHANGED all => UNCHANGED files
  BY DEF Reload, Interrupt, Launch, all
<1>. QED BY <1>1, <1>2, <1>3, <1>4, <1>5, <1>6 DEF CenterNext, FilesStep

(* Actions that met know it, and a move that is not shared has copied what it  *)
(* removes: what the two properties of the files rest on.                      *)
FilesInvariant == CenterInv /\ Apart /\ MovesOK

LEMMA CalmFiles == ASSUME Apart, MovesOK, Calm PROVE Apart' /\ MovesOK'
<1>1. Idler.pc = "free" /\ Idler.op = "none" BY DEF Idler
<1>2. \A u \in Workers : job'[u].pc # "free" => job'[u] = job[u] BY <1>1 DEF Calm
<1>3. Apart' BY <1>2 DEF Apart, Acting
<1>4. ASSUME NEW u \in Workers PROVE Moving(job[u])'
  <2>1. CASE job'[u] = Idler BY <1>1, <2>1 DEF Moving
  <2>2. CASE job'[u] = job[u]
    <3> DEFINE j == job[u]
    <3>1. Moving(j) /\ fs' = fs BY DEF MovesOK, Calm
    <3> HIDE DEF j
    <3>2. job'[u] = j BY <2>2 DEF j
    <3>. QED BY <3>1, <3>2 DEF Moving, IsDir, Items
  <2>. QED BY <2>1, <2>2 DEF Calm
<1>. QED BY <1>3, <1>4 DEF MovesOK

LEMMA InitFiles == CenterInit => FilesInvariant
<1> SUFFICES ASSUME CenterInit PROVE FilesInvariant
    OBVIOUS
<1>1. \A w \in Workers : job[w].pc = "free" /\ job[w].op = "none"
  BY DEF CenterInit, FilesInit, Idler
<1>2. Apart BY <1>1 DEF Apart, Acting
<1>3. MovesOK BY <1>1 DEF MovesOK, Moving
<1>. QED BY <1>2, <1>3, InitCenter DEF FilesInvariant

LEMMA NextFiles == FilesInvariant /\ [CenterNext]_all => FilesInvariant'
<1> SUFFICES ASSUME FilesInvariant, [CenterNext]_all PROVE FilesInvariant'
    OBVIOUS
<1>1. CenterInv' BY NextInv DEF FilesInvariant
<1>2. FilesInv /\ Apart /\ MovesOK BY DEF FilesInvariant, CenterInv
<1>3. ASSUME NEW w \in Workers, FileStep(w) PROVE Apart' /\ MovesOK'
  <2>1. Apart' BY <1>2, <1>3, StepApart
  <2>2. \A u \in Workers : Moving(job[u])' BY <1>2, <1>3, OthersMove, OwnMove
  <2>. QED BY <2>1, <2>2 DEF MovesOK
<1>4. Apart' /\ MovesOK'
  BY <1>2, <1>3, CenterFiles, CalmFiles, SubmitApart, SubmitMoves DEF FilesInvariant, FilesStep
<1>. QED BY <1>1, <1>4 DEF FilesInvariant

KeepStep ==
    \A v \in Values : Held(v) # {} /\ Held(v)' = {} =>
        \E w \in Workers : /\ job[w] # job'[w]
                           /\ job[w].shared \/ \A p \in Held(v) : Asked(job[w], p)

LEMMA NextKeeps == ASSUME FilesInvariant, [CenterNext]_all PROVE KeepStep
<1>. SUFFICES ASSUME NEW v \in Values, Held(v) # {}, Held(v)' = {}
              PROVE  \E w \in Workers : /\ job[w] # job'[w]
                                        /\ job[w].shared \/ \A p \in Held(v) : Asked(job[w], p)
     BY DEF KeepStep
<1>1. FilesInv /\ MovesOK BY DEF FilesInvariant, CenterInv
<1>2. \A q \in Places : fs'[q] # v BY DEF Held
<1>3. fs' # fs BY DEF Held
<1>4. PICK w \in Workers : FileStep(w)
  BY <1>3, CenterFiles DEF FilesInvariant, FilesStep, Calm, Submit
<1>5. job[w] # job'[w] BY <1>1, <1>4, StepChanges
<1>6. ASSUME ~job[w].shared, NEW p \in Held(v) PROVE Asked(job[w], p)
  <2>1. p \in Places /\ fs[p] = v BY DEF Held
  <2>. QED BY <1>1, <1>2, <1>4, <1>6, <2>1, StepKeeps
<1>. QED BY <1>5, <1>6

(* No content of a file is lost that nobody wanted gone: what a step of the    *)
(* GUI removes was under a deleted path or at the place somebody copies or     *)
(* moves to, unless actions met on related paths.  In particular a move        *)
(* between file systems loses nothing, also when its copy fails.               *)
THEOREM NothingLost == CenterSpec => FilesKept
<1>1. FilesInvariant /\ [CenterNext]_all => KeepStep BY NextKeeps
<1>2. KeepStep => [\A v \in Values : Held(v) # {} /\ Held(v)' = {} =>
         \E w \in Workers : /\ job[w] # job'[w]
                            /\ job[w].shared \/ \A p \in Held(v) : Asked(job[w], p)]_files
  BY DEF KeepStep
<1>. QED BY <1>1, <1>2, InitFiles, NextFiles, PTL DEF CenterSpec, FilesKept

DoneStep ==
    \A w \in Workers : Acting(w) /\ job'[w].pc = "ok" /\ ~job[w].shared => Achieved(fs', job[w])

LEMMA NextDone == ASSUME FilesInvariant, [CenterNext]_all PROVE DoneStep
<1>. SUFFICES ASSUME NEW w \in Workers, Acting(w), job'[w].pc = "ok", ~job[w].shared
              PROVE  Achieved(fs', job[w])
     BY DEF DoneStep
<1>1. FilesInv /\ MovesOK BY DEF FilesInvariant, CenterInv
<1>2. job'[w].pc # job[w].pc /\ "ok" # "free" BY DEF Acting, Results
<1>3. ~Calm BY <1>2 DEF Calm, Idler
<1>4. ~\E u \in Workers : \E r : Submit(u, r) /\ r.op \in DOMAIN Entry
  <2>. SUFFICES ASSUME NEW u \in Workers, NEW r, Submit(u, r), r.op \in DOMAIN Entry
                PROVE  job'[w].pc # "ok" \/ job'[w].pc = job[w].pc
       BY <1>2
  <2>1. CASE w = u BY <2>1 DEF Submit, Entry
  <2>2. CASE w # u
    <3> DEFINE met == Acting(w) /\ {job[w].op, r.op} \cap Reading = {} /\ Meet(job[w], r)
    <3>1. job'[w] = [job[w] EXCEPT !.shared = @ \/ met] BY <2>2 DEF Submit
    <3> HIDE DEF met
    <3>2. job[w] \in JobType BY <1>1 DEF FilesInv
    <3>. QED BY <3>1, <3>2 DEF JobType
  <2>. QED BY <2>1, <2>2
<1>5. PICK u \in Workers : FileStep(u) BY <1>3, <1>4, CenterFiles DEF FilesInvariant, FilesStep
<1>6. w = u BY <1>1, <1>2, <1>5, FileStepWorked DEF Worked
<1>. QED BY <1>1, <1>5, <1>6, StepAchieves

(* The answer ok is true when it is sent, whatever the other threads do        *)
(* meanwhile: what was to be made is there, what was to be removed is gone,    *)
(* and every item of what was to be copied or moved is at its place with its   *)
(* content, if nobody else worked on the paths.  create_file is excused where  *)
(* a directory was.                                                            *)
THEOREM OkIsDone == CenterSpec => OkMeansDone
<1>1. FilesInvariant /\ [CenterNext]_all => DoneStep BY NextDone
<1>2. DoneStep => [\A w \in Workers : Acting(w) /\ job[w].pc' = "ok" /\ ~job[w].shared
                              => Achieved(fs', job[w])]_files
  BY DEF DoneStep
<1>. QED BY <1>1, <1>2, InitFiles, NextFiles, PTL DEF CenterSpec, OkMeansDone

================================================================================
