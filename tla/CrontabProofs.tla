----------------------------- MODULE CrontabProofs -----------------------------
(* What TLAPS proves about the editors of the crontab, for any number of jobs, *)
(* lines and request threads.                                                  *)
EXTENDS Crontab, SequenceTheorems, NaturalsInduction, WellFoundedInduction, TLAPS

--------------------------------------------------------------------------------
(* Induction over the naturals, for a set: the form without an operator.       *)
LEMMA NatSet ==
    ASSUME NEW S, 0 \in S, \A n \in Nat : n \in S => n + 1 \in S
    PROVE  Nat \subseteq S
<1> DEFINE R == OpToRel(<, Nat)
           T == Nat \ S
<1>1. IsWellFoundedOn(R, Nat) BY NatLessThanWellFounded
<1>2. \A x, y \in Nat : x < y => <<x, y>> \in R BY DEF OpToRel
<1> HIDE DEF R
<1>. SUFFICES ASSUME T # {} PROVE FALSE
     OBVIOUS
<1>3. PICK x \in T : \A y \in T : ~(<<y, x>> \in R) BY <1>1, WFMin
<1>4. x \in Nat /\ x # 0 /\ x - 1 \in Nat /\ x - 1 < x OBVIOUS
<1>5. x - 1 \in S BY <1>2, <1>3, <1>4
<1>. QED BY <1>4, <1>5

Lines == Jobs \cup {Blank}

--------------------------------------------------------------------------------
(* Strip.  Its function exists, so that its values are what its definition     *)
(* says, and what it does to a crontab follows line by line.                   *)
Kept(f, ls, n) ==
    IF n = 0 THEN <<>>
    ELSE IF ls[n] = Blank THEN f[n - 1] ELSE Append(f[n - 1], ls[n])
KeptOf(ls) == CHOOSE f : f = [n \in 0 .. Len(ls) |-> Kept(f, ls, n)]

LEMMA KeptExists ==
    ASSUME NEW ls, NEW m \in Nat
    PROVE  \E f : f = [n \in 0 .. m |-> Kept(f, ls, n)]
<1> DEFINE S == {k \in Nat : \E f : f = [n \in 0 .. k |-> Kept(f, ls, n)]}
<1>1. 0 \in S
  <2> DEFINE f == [n \in 0 .. 0 |-> <<>>]
  <2>1. f = [n \in 0 .. 0 |-> Kept(f, ls, n)] BY DEF Kept
  <2>. QED BY <2>1
<1>2. ASSUME NEW k \in Nat, k \in S PROVE k + 1 \in S
  <2>1. PICK f : f = [n \in 0 .. k |-> Kept(f, ls, n)] BY <1>2
  <2> DEFINE g == [n \in 0 .. k + 1 |-> IF n = k + 1 THEN Kept(f, ls, n) ELSE f[n]]
  <2>2. \A n \in 0 .. k : g[n] = f[n] OBVIOUS
  <2>3. \A n \in 0 .. k + 1 : Kept(g, ls, n) = Kept(f, ls, n) BY <2>2 DEF Kept
  <2>4. \A n \in 0 .. k : f[n] = Kept(f, ls, n) BY <2>1
  <2>5. \A n \in 0 .. k + 1 : (IF n = k + 1 THEN Kept(f, ls, n) ELSE f[n]) = Kept(g, ls, n)
    BY <2>3, <2>4
  <2>6. g = [n \in 0 .. k + 1 |-> Kept(g, ls, n)] BY <2>5
  <2> HIDE DEF g
  <2>7. \E h : h = [n \in 0 .. k + 1 |-> Kept(h, ls, n)] BY <2>6
  <2>. QED BY <2>7
<1> HIDE DEF S
<1>3. Nat \subseteq S BY <1>1, <1>2, NatSet
<1>. QED BY <1>3 DEF S

LEMMA KeptValue ==
    ASSUME NEW ls, Len(ls) \in Nat
    PROVE  /\ Strip(ls) = KeptOf(ls)[Len(ls)]
           /\ \A n \in 0 .. Len(ls) : KeptOf(ls)[n] = Kept(KeptOf(ls), ls, n)
<1>1. Strip(ls) = KeptOf(ls)[Len(ls)] BY DEF Strip, KeptOf, Kept
<1>2. \E f : f = [n \in 0 .. Len(ls) |-> Kept(f, ls, n)] BY KeptExists
<1>3. KeptOf(ls) = [n \in 0 .. Len(ls) |-> Kept(KeptOf(ls), ls, n)] BY <1>2 DEF KeptOf
<1>. QED BY <1>1, <1>3

LEMMA KeptStep ==
    ASSUME NEW ls, Len(ls) \in Nat
    PROVE  /\ KeptOf(ls)[0] = <<>>
           /\ \A n \in 0 .. Len(ls) - 1 :
                 KeptOf(ls)[n + 1] = IF ls[n + 1] = Blank THEN KeptOf(ls)[n]
                                     ELSE Append(KeptOf(ls)[n], ls[n + 1])
<1> DEFINE f == KeptOf(ls)
<1>1. \A n \in 0 .. Len(ls) : f[n] = Kept(f, ls, n) BY KeptValue
<1> HIDE DEF f
<1>2. f[0] = <<>> BY <1>1 DEF Kept
<1>3. ASSUME NEW n \in 0 .. Len(ls) - 1
      PROVE  f[n + 1] = IF ls[n + 1] = Blank THEN f[n] ELSE Append(f[n], ls[n + 1])
  <2>1. n + 1 \in 0 .. Len(ls) /\ n + 1 # 0 /\ (n + 1) - 1 = n BY <1>3
  <2>2. f[n + 1] = Kept(f, ls, n + 1) BY <1>1, <2>1
  <2>. QED BY <2>1, <2>2 DEF Kept
<1>. QED BY <1>2, <1>3 DEF f

LEMMA KeptType ==
    ASSUME NEW ls \in Seq(Lines)
    PROVE  \A n \in 0 .. Len(ls) : KeptOf(ls)[n] \in Seq(Jobs)
<1> DEFINE f == KeptOf(ls)
           S == {n \in Nat : n <= Len(ls) => f[n] \in Seq(Jobs)}
<1> HIDE DEF f
<1>1. Len(ls) \in Nat BY LenProperties
<1>2. f[0] = <<>> BY <1>1, KeptStep DEF f
<1>3. 0 \in S BY <1>2, EmptySeq
<1>4. ASSUME NEW n \in Nat, n \in S PROVE n + 1 \in S
  <2>. SUFFICES ASSUME n + 1 <= Len(ls) PROVE f[n + 1] \in Seq(Jobs)
       BY <1>4
  <2>1. f[n] \in Seq(Jobs) BY <1>1, <1>4
  <2>2. ls[n + 1] \in Lines BY <1>1, ElementOfSeq
  <2>3. f[n + 1] = IF ls[n + 1] = Blank THEN f[n] ELSE Append(f[n], ls[n + 1])
    BY <1>1, KeptStep DEF f
  <2>4. ls[n + 1] # Blank => Append(f[n], ls[n + 1]) \in Seq(Jobs)
    BY <2>1, <2>2, AppendProperties DEF Lines
  <2>. QED BY <2>1, <2>3, <2>4
<1> HIDE DEF S
<1>5. Nat \subseteq S BY <1>3, <1>4, NatSet
<1>. QED BY <1>1, <1>5 DEF S, f

LEMMA KeptSame ==
    ASSUME NEW ls, NEW ms, Len(ls) \in Nat, Len(ms) \in Nat, Len(ls) <= Len(ms),
           \A i \in 1 .. Len(ls) : ls[i] = ms[i]
    PROVE  KeptOf(ls)[Len(ls)] = KeptOf(ms)[Len(ls)]
<1> DEFINE f == KeptOf(ls)
           g == KeptOf(ms)
           S == {n \in Nat : n <= Len(ls) => f[n] = g[n]}
<1> HIDE DEF f, g
<1>1. f[0] = <<>> /\ g[0] = <<>> BY KeptStep DEF f, g
<1>2. \A n \in 0 .. Len(ls) - 1 :
          /\ f[n + 1] = IF ls[n + 1] = Blank THEN f[n] ELSE Append(f[n], ls[n + 1])
          /\ g[n + 1] = IF ms[n + 1] = Blank THEN g[n] ELSE Append(g[n], ms[n + 1])
  BY KeptStep DEF f, g
<1>3. 0 \in S BY <1>1
<1>4. ASSUME NEW n \in Nat, n \in S PROVE n + 1 \in S
  <2>. SUFFICES ASSUME n + 1 <= Len(ls) PROVE f[n + 1] = g[n + 1]
       BY <1>4
  <2>1. f[n] = g[n] /\ ls[n + 1] = ms[n + 1] BY <1>4
  <2>. QED BY <1>2, <2>1
<1> HIDE DEF S
<1>5. Nat \subseteq S BY <1>3, <1>4, NatSet
<1>. QED BY <1>5 DEF S, f, g

(* What is left after Strip are jobs; a list of jobs stays as it is; a job at  *)
(* the end stays there.                                                        *)
LEMMA StripType ==
    ASSUME NEW ls \in Seq(Lines)
    PROVE  Strip(ls) \in Seq(Jobs)
<1>1. Len(ls) \in Nat BY LenProperties
<1>. QED BY <1>1, KeptValue, KeptType

LEMMA StripAppend ==
    ASSUME NEW ls \in Seq(Lines), NEW j \in Jobs
    PROVE  Strip(Append(ls, j)) = Append(Strip(ls), j)
<1> DEFINE ms == Append(ls, j)
<1>1. /\ Len(ls) \in Nat /\ Len(ms) = Len(ls) + 1 /\ ms[Len(ls) + 1] = j
      /\ \A i \in 1 .. Len(ls) : ls[i] = ms[i]
  BY LenProperties, AppendProperties DEF Lines
<1> HIDE DEF ms
<1>2. KeptOf(ms)[Len(ls) + 1] = Append(KeptOf(ms)[Len(ls)], j)
  <2>1. Len(ms) \in Nat /\ Len(ls) \in 0 .. Len(ms) - 1 /\ j # Blank
    BY <1>1, CrontabAssumption
  <2>. QED BY <1>1, <2>1, KeptStep
<1>3. KeptOf(ms)[Len(ls)] = KeptOf(ls)[Len(ls)] BY <1>1, KeptSame
<1>4. Strip(ms) = KeptOf(ms)[Len(ms)] /\ Strip(ls) = KeptOf(ls)[Len(ls)]
  BY <1>1, KeptValue
<1>. QED BY <1>1, <1>2, <1>3, <1>4 DEF ms

LEMMA StripJobs ==
    ASSUME NEW ls \in Seq(Jobs)
    PROVE  Strip(ls) = ls
<1> DEFINE f == KeptOf(ls)
           S == {n \in Nat : n <= Len(ls) => f[n] = SubSeq(ls, 1, n)}
<1> HIDE DEF f
<1>1. Len(ls) \in Nat BY LenProperties
<1>2. f[0] = <<>> BY <1>1, KeptStep DEF f
<1>3. 0 \in S
  <2>1. SubSeq(ls, 1, 0) = <<>> BY SubSeqEmpty
  <2>. QED BY <1>2, <2>1
<1>4. ASSUME NEW n \in Nat, n \in S PROVE n + 1 \in S
  <2>. SUFFICES ASSUME n + 1 <= Len(ls) PROVE f[n + 1] = SubSeq(ls, 1, n + 1)
       BY <1>4
  <2>1. f[n] = SubSeq(ls, 1, n) BY <1>1, <1>4
  <2>2. \A i \in 1 .. Len(ls) : ls[i] \in Jobs BY ElementOfSeq
  <2>3. ls[n + 1] \in Jobs /\ ls[n + 1] # Blank BY <1>1, <2>2, CrontabAssumption
  <2>4. f[n + 1] = Append(f[n], ls[n + 1])
    <3>1. n \in 0 .. Len(ls) - 1 BY <1>1
    <3>. QED BY <1>1, <2>3, <3>1, KeptStep DEF f
  <2>5. SubSeq(ls, 1, n) \in Seq(Jobs) BY <1>1, <2>2, SubSeqProperties
  <2>6. SubSeq(ls, 1, n + 1) = SubSeq(ls, 1, n) \o <<ls[n + 1]>>
    <3>1. n + 1 \in 1 .. Len(ls) /\ 1 \in 1 .. Len(ls) /\ n + 1 \in 1 .. Len(ls)
          /\ (n + 1) - 1 = n
      BY <1>1
    <3>. QED BY <3>1, SubSeqRecursiveSecond
  <2>7. Append(SubSeq(ls, 1, n), ls[n + 1]) = SubSeq(ls, 1, n) \o <<ls[n + 1]>>
    BY <2>3, <2>5, AppendIsConcat
  <2>. QED BY <2>1, <2>4, <2>6, <2>7
<1> HIDE DEF S
<1>5. Nat \subseteq S BY <1>3, <1>4, NatSet
<1>6. f[Len(ls)] = SubSeq(ls, 1, Len(ls)) BY <1>1, <1>5 DEF S
<1>. QED BY <1>1, <1>6, SubSeqFull, KeptValue DEF f

LEMMA RemoveType ==
    ASSUME NEW s \in Seq(Jobs), NEW i \in 1 .. Len(s)
    PROVE  RemoveAt(s, i) \in Seq(Jobs)
<1>1. Len(s) \in Nat /\ \A k \in 1 .. Len(s) : s[k] \in Jobs
  BY LenProperties, ElementOfSeq
<1>2. SubSeq(s, 1, i - 1) \in Seq(Jobs) /\ SubSeq(s, i + 1, Len(s)) \in Seq(Jobs)
  <2>1. \A k \in 1 .. i - 1 : s[k] \in Jobs BY <1>1
  <2>2. \A k \in i + 1 .. Len(s) : s[k] \in Jobs BY <1>1
  <2>. QED BY <1>1, <2>1, <2>2, SubSeqProperties
<1>. QED BY <1>2, ConcatProperties DEF RemoveAt

--------------------------------------------------------------------------------
(* The types of the crontab and of an editor, who has a wish while at work; a  *)
(* number the GUI is going to delete is in the list it read.                   *)
Active(r) == r.pc \in {"read", "write"}
EdOK(e, r) ==
    /\ r \in [pc : {"idle", "read", "write", "ok", "refused", "raised"},
              wish : Wishes \cup {Nothing}, lines : Seq(Jobs \cup {Blank})]
    /\ e \in Gui => r.lines \in Seq(Jobs)
    /\ r.wish # Nothing <=> Active(r)
    /\ e \in Gui /\ r.pc = "write" /\ r.wish.op = "delete" => r.wish.index <= Len(r.lines)
CronTyped == TypeOK /\ \A e \in Editors : EdOK(e, ed[e])

LEMMA WishOps ==
    ASSUME NEW w \in Wishes
    PROVE  /\ w # Nothing
           /\ \/ w.op = "add" /\ w.job \in Jobs
              \/ w.op = "delete" /\ w.index \in 1 .. MaxLines
BY DEF Wishes, Nothing

LEMMA OneEditor ==
    ASSUME CronTyped, NEW e \in Editors, NEW r, EdOK(e, r), ed' = [ed EXCEPT ![e] = r],
           tab' \in Seq(Lines)
    PROVE  CronTyped'
<1>1. \A f \in Editors : ed'[f] = IF f = e THEN r ELSE ed[f] BY DEF CronTyped, TypeOK
<1>2. \A f \in Editors : EdOK(f, ed'[f]) BY <1>1 DEF CronTyped
<1>3. DOMAIN ed' = Editors /\ ed' = [f \in Editors |-> ed'[f]] BY DEF CronTyped, TypeOK
<1>4. TypeOK' BY <1>2, <1>3 DEF TypeOK, EdOK, Editors, Lines
<1>. QED BY <1>2, <1>4 DEF CronTyped

LEMMA IdleOK ==
    ASSUME NEW e \in Editors, NEW p \in {"idle", "ok", "refused", "raised"}
    PROVE  EdOK(e, [Idle EXCEPT !.pc = p])
<1>1. <<>> \in Seq(Jobs) /\ <<>> \in Seq(Jobs \cup {Blank}) BY EmptySeq
<1>. QED BY <1>1 DEF EdOK, Idle, Active

LEMMA InitCron == Init => CronTyped
<1> SUFFICES ASSUME Init PROVE CronTyped
    OBVIOUS
<1>1. \A e \in Editors : EdOK(e, Idle)
  <2>1. Idle = [Idle EXCEPT !.pc = "idle"] BY DEF Idle
  <2>. QED BY <2>1, IdleOK
<1>2. tab \in Seq(Jobs \cup {Blank})
  <2>1. <<>> \in Seq(Lines) BY EmptySeq
  <2>2. \A j \in Jobs : <<Blank, j>> \in Seq(Lines) BY DEF Lines
  <2>. QED BY <2>1, <2>2 DEF Init, Lines
<1>3. \A e \in Editors : ed[e] = Idle BY DEF Init
<1>4. TypeOK BY <1>1, <1>2 DEF Init, TypeOK, EdOK, Editors
<1>. QED BY <1>1, <1>3, <1>4 DEF CronTyped

LEMMA AskTyped ==
    ASSUME CronTyped, NEW e \in Editors, Ask(e)
    PROVE  CronTyped'
<1>1. PICK w \in Wishes : ed' = [ed EXCEPT ![e].pc = "read", ![e].wish = w] BY DEF Ask
<1>2. EdOK(e, ed[e]) BY DEF CronTyped
<1>3. EdOK(e, [ed[e] EXCEPT !.pc = "read", !.wish = w])
  BY <1>2, WishOps DEF EdOK, Active
<1>4. ed' = [ed EXCEPT ![e] = [ed[e] EXCEPT !.pc = "read", !.wish = w]]
  BY <1>1 DEF CronTyped, TypeOK
<1>. QED BY <1>3, <1>4, OneEditor DEF Ask, CronTyped, TypeOK, Lines

LEMMA FinishTyped ==
    ASSUME CronTyped, NEW e \in Editors, NEW p \in {"ok", "refused", "raised"}, Finish(e, p),
           tab' \in Seq(Lines)
    PROVE  CronTyped'
<1>. QED BY IdleOK, OneEditor DEF Finish

LEMMA BackTyped ==
    ASSUME CronTyped, NEW e \in Editors, Back(e), UNCHANGED tab
    PROVE  CronTyped'
<1>1. EdOK(e, Idle)
  <2>1. Idle = [Idle EXCEPT !.pc = "idle"] BY DEF Idle
  <2>. QED BY <2>1, IdleOK
<1>. QED BY <1>1, OneEditor DEF Back, CronTyped, TypeOK, Lines

LEMMA FoundTyped ==
    ASSUME CronTyped, NEW e \in Editors, At(e, "read"), NEW ls \in Seq(Lines),
           e \in Gui => /\ ls \in Seq(Jobs)
                        /\ ed[e].wish.op = "delete" => ed[e].wish.index <= Len(ls),
           Found(e, ls), UNCHANGED tab
    PROVE  CronTyped'
<1>1. EdOK(e, ed[e]) BY DEF CronTyped
<1>2. EdOK(e, [ed[e] EXCEPT !.pc = "write", !.lines = ls])
  BY <1>1 DEF EdOK, Active, At, Lines
<1>3. ed' = [ed EXCEPT ![e] = [ed[e] EXCEPT !.pc = "write", !.lines = ls]]
  BY DEF Found, CronTyped, TypeOK
<1>. QED BY <1>2, <1>3, OneEditor DEF CronTyped, TypeOK, Lines

(* What the GUI is going to install are jobs; what the menu is, are lines. *)
LEMMA JobsAreLines == Seq(Jobs) \subseteq Seq(Lines)
BY SeqMonotonic DEF Lines

LEMMA GuiLinesType ==
    ASSUME NEW ls \in Seq(Jobs), NEW w \in Wishes, w.op = "delete" => w.index <= Len(ls)
    PROVE  GuiLines(ls, w) \in Seq(Jobs)
<1>1. Len(ls) \in Nat BY LenProperties
<1>2. CASE w.op = "add" /\ w.job \in Jobs
  BY <1>2, AppendProperties DEF GuiLines
<1>3. CASE w.op = "delete" /\ w.index \in 1 .. MaxLines
  <2>1. w.index \in 1 .. Len(ls) BY <1>1, <1>3, CrontabAssumption
  <2>. QED BY <1>3, <2>1, RemoveType DEF GuiLines
<1>. QED BY <1>2, <1>3, WishOps

LEMMA ShellLinesType ==
    ASSUME NEW ls \in Seq(Lines), NEW w \in Wishes
    PROVE  ShellLines(ls, w) \in Seq(Lines)
<1>1. Strip(ls) \in Seq(Jobs) BY StripType
<1>2. Len(Strip(ls)) \in Nat BY <1>1, LenProperties
<1>3. CASE w.op = "add" /\ w.job \in Jobs
  <2>1. w.job \in Lines BY <1>3 DEF Lines
  <2>. QED BY <1>3, <2>1, AppendProperties DEF ShellLines
<1>4. CASE w.op = "delete" /\ w.index \in 1 .. MaxLines /\ w.index <= Len(Strip(ls))
  <2>1. w.index \in 1 .. Len(Strip(ls)) BY <1>2, <1>4, CrontabAssumption
  <2>. QED BY <1>1, <1>4, <2>1, RemoveType, JobsAreLines DEF ShellLines
<1>5. CASE w.op = "delete" /\ ~(w.index <= Len(Strip(ls)))
  BY <1>1, <1>5, JobsAreLines DEF ShellLines
<1>. QED BY <1>3, <1>4, <1>5, WishOps

(* What an editor at "write" has read and was asked for. *)
LEMMA AtWrite ==
    ASSUME CronTyped, NEW e \in Editors, At(e, "write")
    PROVE  /\ ed[e].wish \in Wishes /\ ed[e].lines \in Seq(Lines)
           /\ e \in Gui => /\ ed[e].lines \in Seq(Jobs)
                           /\ ed[e].wish.op = "delete" => ed[e].wish.index <= Len(ed[e].lines)
<1>1. EdOK(e, ed[e]) BY DEF CronTyped
<1>. QED BY <1>1 DEF EdOK, Active, At, Lines

LEMMA EditTyped ==
    ASSUME CronTyped, NEW e \in Editors, Edit(e)
    PROVE  CronTyped'
<1>1. tab \in Seq(Lines) BY DEF CronTyped, TypeOK, Lines
<1>2. CASE Refuse(e) BY <1>1, <1>2, FinishTyped DEF Refuse
<1>3. CASE GuiRead(e)
  <2>1. CASE Finish(e, "refused") BY <1>1, <1>3, <2>1, FinishTyped DEF GuiRead
  <2>2. CASE \E ls \in Reads : /\ ed[e].wish.op = "delete" => ed[e].wish.index <= Len(ls)
                               /\ Found(e, ls)
    <3>1. Strip(tab) \in Seq(Jobs) /\ Strip(tab) \in Seq(Lines)
      BY <1>1, StripType, JobsAreLines
    <3>. QED BY <1>3, <2>2, <3>1, FoundTyped DEF GuiRead, Reads
  <2>. QED BY <1>3, <2>1, <2>2 DEF GuiRead
<1>4. CASE ShellRead(e)
  <2>1. e \notin Gui /\ At(e, "read") /\ UNCHANGED tab
    BY <1>4, CrontabAssumption DEF ShellRead
  <2>2. PICK ls \in {<<>>, tab} : Found(e, ls) BY <1>4 DEF ShellRead
  <2>3. ls \in Seq(Lines) BY <1>1, EmptySeq
  <2>. QED BY <2>1, <2>2, <2>3, FoundTyped
<1>5. CASE Write(e)
  <2>1. At(e, "write") BY <1>5 DEF Write
  <2>2. tab' \in Seq(Lines)
    BY <1>1, <1>5, <2>1, AtWrite, GuiLinesType, ShellLinesType, JobsAreLines DEF Write
  <2>. QED BY <1>5, <2>2, FinishTyped DEF Write
<1>. QED BY <1>2, <1>3, <1>4, <1>5 DEF Edit

--------------------------------------------------------------------------------
(* The edits: what an editor installs is the edit it was asked for, of the     *)
(* jobs it read.                                                               *)
LEMMA GuiEdits ==
    ASSUME NEW ls \in Seq(Jobs), NEW w \in Wishes, w.op = "delete" => w.index <= Len(ls)
    PROVE  Strip(GuiLines(ls, w)) = List!Edited(Strip(ls), w)
<1>1. Strip(GuiLines(ls, w)) = GuiLines(ls, w) BY GuiLinesType, StripJobs
<1>2. Strip(ls) = ls BY StripJobs
<1>. QED BY <1>1, <1>2, WishOps DEF GuiLines, List!Edited, List!RemoveAt, RemoveAt

LEMMA ShellEdits ==
    ASSUME NEW ls \in Seq(Lines), NEW w \in Wishes
    PROVE  Strip(ShellLines(ls, w)) = List!Edited(Strip(ls), w)
<1>1. Strip(ls) \in Seq(Jobs) /\ Strip(Strip(ls)) = Strip(ls) BY StripType, StripJobs
<1>2. Len(Strip(ls)) \in Nat BY <1>1, LenProperties
<1>3. CASE w.op = "add" /\ w.job \in Jobs
  BY <1>3, StripAppend DEF ShellLines, List!Edited
<1>4. CASE w.op = "delete" /\ w.index \in 1 .. MaxLines /\ w.index <= Len(Strip(ls))
  <2>1. w.index \in 1 .. Len(Strip(ls)) BY <1>2, <1>4, CrontabAssumption
  <2>2. RemoveAt(Strip(ls), w.index) \in Seq(Jobs) BY <1>1, <2>1, RemoveType
  <2>. QED BY <1>4, <2>2, StripJobs DEF ShellLines, List!Edited, List!RemoveAt, RemoveAt
<1>5. CASE w.op = "delete" /\ ~(w.index <= Len(Strip(ls)))
  BY <1>1, <1>5 DEF ShellLines, List!Edited
<1>. QED BY <1>3, <1>4, <1>5, WishOps

(* How a step of an editor changes the wishes and what the editors have seen.  *)
WishOf   == [e \in Editors |-> ed[e].wish]
ViewOf   == [e \in Editors |-> View(e)]
Saw(r)   == IF r.pc = "write" THEN {Strip(r.lines)} ELSE {}
ListVars == <<Strip(tab), WishOf, ViewOf>>

LEMMA ViewStep ==
    ASSUME CronTyped, NEW e \in Editors, NEW r, ed' = [ed EXCEPT ![e] = r]
    PROVE  /\ WishOf' = [WishOf EXCEPT ![e] = r.wish]
           /\ ViewOf' = [ViewOf EXCEPT ![e] = Saw(r)]
<1>1. \A f \in Editors : ed'[f] = IF f = e THEN r ELSE ed[f] BY DEF CronTyped, TypeOK
<1>2. \A f \in Editors : ed'[f].wish = IF f = e THEN r.wish ELSE ed[f].wish BY <1>1
<1>3. \A f \in Editors : View(f)' = IF f = e THEN Saw(r) ELSE View(f)
  BY <1>1 DEF View, Saw, At
<1>. QED BY <1>2, <1>3 DEF WishOf, ViewOf

LEMMA AskList ==
    ASSUME CronTyped, NEW e \in Editors, Ask(e)
    PROVE  List!Ask(e)
<1>1. PICK w \in Wishes : ed' = [ed EXCEPT ![e].pc = "read", ![e].wish = w] BY DEF Ask
<1> DEFINE r == [ed[e] EXCEPT !.pc = "read", !.wish = w]
<1>2. ed' = [ed EXCEPT ![e] = r] BY <1>1 DEF CronTyped, TypeOK
<1>3. r.wish = w /\ r.pc = "read" /\ ed[e].wish = Nothing /\ ~At(e, "write")
  BY DEF CronTyped, EdOK, Active, Ask, At
<1>4. Saw(r) = {} /\ View(e) = {} BY <1>3 DEF Saw, View
<1> HIDE DEF r
<1>5. WishOf' = [WishOf EXCEPT ![e] = w] BY <1>2, <1>3, ViewStep
<1>6. ViewOf' = ViewOf BY <1>2, <1>4, ViewStep DEF ViewOf
<1>7. Strip(tab)' = Strip(tab) BY DEF Ask
<1>. QED BY <1>3, <1>5, <1>6, <1>7 DEF List!Ask, WishOf, ViewOf

(* Whoever ends has neither a wish nor a list any more. *)
LEMMA FinishRests ==
    ASSUME CronTyped, NEW e \in Editors, NEW p, p # "write",
           ed' = [ed EXCEPT ![e] = [Idle EXCEPT !.pc = p]]
    PROVE  List!Rest({e})
<1> DEFINE r == [Idle EXCEPT !.pc = p]
<1>1. r.wish = Nothing /\ Saw(r) = {} BY DEF Idle, Saw
<1> HIDE DEF r
<1>2. WishOf' = [WishOf EXCEPT ![e] = Nothing] /\ ViewOf' = [ViewOf EXCEPT ![e] = {}]
  BY <1>1, ViewStep, SMTT(20), ZenonT(30) DEF r
<1>. QED BY <1>2 DEF List!Rest, WishOf, ViewOf

LEMMA FinishList ==
    ASSUME CronTyped, NEW e \in Editors, NEW p, p # "write",
           ed' = [ed EXCEPT ![e] = [Idle EXCEPT !.pc = p]], UNCHANGED tab
    PROVE  List!Next
<1>1. List!Rest({e}) BY FinishRests
<1>2. Strip(tab)' = Strip(tab) OBVIOUS
<1>3. List!Drop({e}) BY <1>1, <1>2 DEF List!Drop
<1>. QED BY <1>3 DEF List!Next

LEMMA FoundList ==
    ASSUME CronTyped, NEW e \in Editors, At(e, "read"), NEW ls, Found(e, ls), UNCHANGED tab,
           Strip(ls) = Strip(tab) \/ (e \in Flaky /\ Strip(ls) = <<>>)
    PROVE  List!Next
<1> DEFINE r == [ed[e] EXCEPT !.pc = "write", !.lines = ls]
<1>1. ed' = [ed EXCEPT ![e] = r] BY DEF Found, CronTyped, TypeOK
<1>2. r.wish = ed[e].wish /\ r.pc = "write" /\ r.lines = ls
  BY DEF CronTyped, EdOK
<1>3. Saw(r) = {Strip(ls)} BY <1>2 DEF Saw
<1> HIDE DEF r
<1>4. WishOf' = WishOf BY <1>1, <1>2, ViewStep DEF WishOf
<1>5. ViewOf' = [ViewOf EXCEPT ![e] = {Strip(ls)}]
  <2>1. ViewOf' = [ViewOf EXCEPT ![e] = Saw(r)] BY <1>1, ViewStep
  <2>. QED BY <1>3, <2>1
<1>6. WishOf[e] # Nothing /\ ViewOf[e] = {}
  BY DEF WishOf, ViewOf, View, CronTyped, EdOK, Active, At
<1>7. Strip(tab)' = Strip(tab) OBVIOUS
<1>8. List!Look(e) BY <1>4, <1>5, <1>6, <1>7 DEF List!Look, WishOf, ViewOf
<1>. QED BY <1>8 DEF List!Next

LEMMA EditList ==
    ASSUME CronTyped, NEW e \in Editors, Edit(e)
    PROVE  List!Next
<1>1. ASSUME NEW p \in {"ok", "refused", "raised"}, Finish(e, p)
      PROVE  \E q : q # "write" /\ ed' = [ed EXCEPT ![e] = [Idle EXCEPT !.pc = q]]
  BY <1>1 DEF Finish
<1>2. ASSUME NEW p \in {"ok", "refused", "raised"}, Finish(e, p), UNCHANGED tab PROVE List!Next
  BY <1>1, <1>2, FinishList
<1>3. tab \in Seq(Lines) BY DEF CronTyped, TypeOK, Lines
<1>4. CASE Refuse(e) BY <1>2, <1>4 DEF Refuse
<1>5. CASE GuiRead(e)
  <2>1. Strip(Strip(tab)) = Strip(tab) BY <1>3, StripType, StripJobs
  <2>. QED BY <1>2, <1>5, <2>1, FoundList DEF GuiRead, Reads
<1>6. CASE ShellRead(e)
  <2>1. Strip(<<>>) = <<>> BY EmptySeq, StripJobs
  <2>. QED BY <1>6, <2>1, FoundList DEF ShellRead
<1>7. CASE Write(e)
  <2>1. CASE Finish(e, "refused") /\ UNCHANGED tab BY <1>2, <2>1
  <2>2. CASE /\ Finish(e, "ok")
             /\ tab' = IF e \in Gui THEN GuiLines(ed[e].lines, ed[e].wish)
                                   ELSE ShellLines(ed[e].lines, ed[e].wish)
    <3>1. List!Rest({e}) BY <1>1, <2>2, FinishRests
    <3>2. Strip(tab)' = List!Edited(Strip(ed[e].lines), ed[e].wish)
      <4>1. Strip(tab') = Strip(tab)' OBVIOUS
      <4>. QED BY <1>7, <2>2, <4>1, AtWrite, GuiEdits, ShellEdits DEF Write
    <3>3. View(e) = {Strip(ed[e].lines)} BY <1>7 DEF Write, View
    <3>4. List!Do(e) BY <3>1, <3>2, <3>3 DEF List!Do
    <3>. QED BY <3>4 DEF List!Next
  <2>. QED BY <1>7, <2>1, <2>2 DEF Write
<1>. QED BY <1>4, <1>5, <1>6, <1>7 DEF Edit

LEMMA InitList == CronTyped /\ Init => List!Init
<1> SUFFICES ASSUME CronTyped, Init PROVE List!Init
    OBVIOUS
<1>1. \A e \in Editors : ed[e] = Idle BY DEF Init
<1>2. Strip(tab) \in Seq(Jobs) BY StripType DEF CronTyped, TypeOK, Lines
<1>3. \A e \in Editors : ed[e].wish = Nothing /\ View(e) = {}
  BY <1>1 DEF Idle, View, At
<1>. QED BY <1>2, <1>3 DEF List!Init

(* An editor at work is alone in changing what it is at, and the GUI's is not  *)
(* idle before it has answered.                                                *)
LEMMA EditOthers ==
    ASSUME CronTyped, NEW e \in Editors, Edit(e)
    PROVE  /\ ~At(e, "idle") /\ (e \in Gui => ~At(e, "idle")')
           /\ \A f \in Editors : f # e => ed'[f] = ed[f]
<1>1. ~At(e, "idle") BY DEF Edit, Refuse, GuiRead, ShellRead, Write, At
<1>2. ASSUME NEW p \in {"ok", "refused", "raised"}, Finish(e, p)
      PROVE  /\ e \in Gui => ed'[e].pc # "idle"
             /\ \A f \in Editors : f # e => ed'[f] = ed[f]
  BY <1>2 DEF Finish, Idle, CronTyped, TypeOK
<1>3. ASSUME NEW ls, Found(e, ls)
      PROVE  ed'[e].pc # "idle" /\ \A f \in Editors : f # e => ed'[f] = ed[f]
  BY <1>3 DEF Found, CronTyped, TypeOK
<1>4. \/ \E p \in {"ok", "refused", "raised"} : Finish(e, p)
      \/ \E ls : Found(e, ls)
  BY DEF Edit, Refuse, GuiRead, ShellRead, Write
<1>. QED BY <1>1, <1>2, <1>3, <1>4 DEF At
================================================================================
