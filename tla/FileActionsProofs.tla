--------------------------- MODULE FileActionsProofs ---------------------------
(* What TLAPS proves about the file actions, for any names, contents, mounts   *)
(* and threads.                                                                *)
EXTENDS FileActions, SequenceTheorems, TLAPS

--------------------------------------------------------------------------------
(* The places of a tree of two levels, what is above what, and where a copy    *)
(* puts things.                                                                *)
LEMMA PlaceType == \A p : p \in Places <=> p \in Seq(Names) /\ Len(p) <= 2
<1>1. Seq(Names) = UNION {[1 .. n -> Names] : n \in Nat} BY SeqDef
<1>2. Places = UNION {[1 .. m -> Names] : m \in 0 .. 2} BY DEF Places, BoundedSeq, SeqOf
<1>3. ASSUME NEW p \in Places PROVE p \in Seq(Names) /\ Len(p) <= 2
  <2>1. PICK m \in 0 .. 2 : p \in [1 .. m -> Names] BY <1>2
  <2>2. p \in Seq(Names) BY <1>1, <2>1
  <2>3. Len(p) \in Nat /\ DOMAIN p = 1 .. Len(p) BY <2>2, LenProperties
  <2>4. 1 .. m = 1 .. Len(p) BY <2>1, <2>3
  <2>5. Len(p) <= 2 BY <2>1, <2>3, <2>4
  <2>. QED BY <2>2, <2>5
<1>4. ASSUME NEW p \in Seq(Names), Len(p) <= 2 PROVE p \in Places
  <2>1. Len(p) \in Nat /\ p \in [1 .. Len(p) -> Names] BY LenProperties
  <2>2. Len(p) \in 0 .. 2 BY <1>4, <2>1
  <2>. QED BY <1>2, <2>1, <2>2
<1>. QED BY <1>3, <1>4

LEMMA PlaceLen ==
    ASSUME NEW p \in Places
    PROVE  /\ p \in Seq(Names) /\ Len(p) \in 0 .. 2 /\ \A i \in 1 .. Len(p) : p[i] \in Names
           /\ p = <<>> <=> Len(p) = 0
<1>1. p \in Seq(Names) BY PlaceType
<1>2. Len(p) \in Nat BY <1>1, LenProperties
<1>6. Len(p) <= 2 BY PlaceType
<1>3. \A i \in 1 .. Len(p) : p[i] \in Names BY <1>1, ElementOfSeq
<1>4. p = <<>> <=> Len(p) = 0 BY <1>1, EmptySeq
<1>5. Len(p) \in 0 .. 2
  <2> DEFINE n == Len(p)
  <2>1. n \in Nat /\ n <= 2 BY <1>2, <1>6
  <2> HIDE DEF n
  <2>2. n \in 0 .. 2 BY <2>1
  <2>. QED BY <2>2 DEF n
<1>. QED BY <1>1, <1>3, <1>4, <1>5

LEMMA RootPlace == <<>> \in Places /\ Up(<<>>) = <<>> /\ Len(<<>>) = 0
<1>1. <<>> \in Seq(Names) /\ Len(<<>>) = 0 BY EmptySeq
<1>2. Len(<<>>) <= 2 BY <1>1
<1>3. <<>> \in Places BY <1>1, <1>2, PlaceType
<1>4. Up(<<>>) = <<>> BY DEF Up
<1>. QED BY <1>1, <1>3, <1>4

LEMMA UpPlace ==
    ASSUME NEW p \in Places, p # <<>>
    PROVE  /\ Up(p) \in Places /\ Len(Up(p)) = Len(p) - 1 /\ Up(p) # p
           /\ \A i \in 1 .. Len(p) - 1 : Up(p)[i] = p[i]
<1>1. p \in Seq(Names) /\ Len(p) \in 1 .. 2 /\ \A i \in 1 .. Len(p) - 1 : p[i] \in Names
  BY PlaceLen
<1>2. Up(p) = SubSeq(p, 1, Len(p) - 1) BY DEF Up, Front
<1>3. /\ Up(p) \in Seq(Names) /\ Len(Up(p)) = Len(p) - 1
      /\ \A i \in 1 .. Len(p) - 1 : Up(p)[i] = p[i]
  <2> DEFINE n == Len(p) - 1
             u == SubSeq(p, 1, n)
  <2>1. n \in Int /\ \A i \in 1 .. n : p[i] \in Names BY <1>1
  <2> HIDE DEF n
  <2>2. /\ u \in Seq(Names) /\ Len(u) = IF 1 <= n THEN n - 1 + 1 ELSE 0
        /\ \A i \in 1 .. n - 1 + 1 : u[i] = p[1 + i - 1]
    BY <2>1, SubSeqProperties
  <2>3. n \in 0 .. 1 BY <1>1 DEF n
  <2>4. Len(u) = n /\ \A i \in 1 .. n : u[i] = p[i]
    <3>1. Len(u) = n BY <2>2, <2>3
    <3>2. ASSUME NEW i \in 1 .. n PROVE u[i] = p[i]
      <4>1. i \in 1 .. n - 1 + 1 /\ 1 + i - 1 = i BY <2>3
      <4>. QED BY <2>2, <4>1
    <3>. QED BY <3>1, <3>2
  <2>. QED BY <1>2, <2>2, <2>4 DEF n
<1>4. Up(p) \in Places /\ Up(p) # p BY <1>1, <1>3, PlaceType
<1>. QED BY <1>3, <1>4

LEMMA PrefixPlace ==
    ASSUME NEW p \in Seq(Names), NEW q \in Seq(Names)
    PROVE  IsPrefix(p, q) <=> Len(p) <= Len(q) /\ \A i \in 1 .. Len(p) : p[i] = q[i]
<1>1. /\ Len(p) \in Nat /\ Len(q) \in Nat
      /\ \A i \in 1 .. Len(p) : p[i] \in Names
      /\ \A i \in 1 .. Len(q) : q[i] \in Names
  BY LenProperties, ElementOfSeq
<1>2. SubSeq(p, 1, Len(p)) = p BY SubSeqFull
<1>3. ASSUME Len(p) <= Len(q)
      PROVE  /\ SubSeq(q, 1, Len(p)) \in Seq(Names) /\ Len(SubSeq(q, 1, Len(p))) = Len(p)
             /\ \A i \in 1 .. Len(p) : SubSeq(q, 1, Len(p))[i] = q[i]
  <2>1. \A i \in 1 .. Len(p) : q[i] \in Names BY <1>1, <1>3
  <2>. QED BY <1>1, <2>1, SubSeqProperties
<1>4. ASSUME Len(p) <= Len(q)
      PROVE  p = SubSeq(q, 1, Len(p)) <=> \A i \in 1 .. Len(p) : p[i] = q[i]
  <2>1. (\A i \in 1 .. Len(p) : p[i] = q[i]) => p = SubSeq(q, 1, Len(p))
    BY <1>3, <1>4, SeqEqual
  <2>. QED BY <1>3, <1>4, <2>1
<1>. QED BY <1>2, <1>4 DEF IsPrefix

LEMMA SamePlace ==
    ASSUME NEW p \in Places, NEW q \in Places, Len(p) = Len(q),
           \A i \in 1 .. Len(p) : p[i] = q[i]
    PROVE  p = q
BY PlaceLen, SeqEqual

(* What is above a place: itself and what is above its directory.              *)
LEMMA PrefixUp ==
    ASSUME NEW p \in Places, NEW q \in Places
    PROVE  /\ IsPrefix(p, p) /\ IsPrefix(<<>>, p)
           /\ IsPrefix(p, <<>>) => p = <<>>
           /\ q # <<>> => (IsPrefix(p, q) <=> p = q \/ IsPrefix(p, Up(q)))
           /\ IsPrefix(p, q) /\ IsPrefix(q, p) => p = q
           /\ IsPrefix(p, q) => Len(p) <= Len(q)
           /\ IsPrefix(p, q) => IsPrefix(Up(p), q) /\ IsPrefix(Up(p), Up(q))
<1> USE PlaceLen
<1>1. \A r, s \in Places :
         IsPrefix(r, s) <=> Len(r) <= Len(s) /\ \A i \in 1 .. Len(r) : r[i] = s[i]
  BY PrefixPlace
<1>2. IsPrefix(p, p) BY <1>1
<1>3. IsPrefix(<<>>, p) BY <1>1, RootPlace
<1>4. IsPrefix(p, <<>>) => p = <<>> BY <1>1, RootPlace
<1>5. ASSUME q # <<>> PROVE IsPrefix(p, q) <=> p = q \/ IsPrefix(p, Up(q))
  <2>1. Up(q) \in Places /\ Len(Up(q)) = Len(q) - 1 /\ \A i \in 1 .. Len(q) - 1 : Up(q)[i] = q[i]
    BY <1>5, UpPlace
  <2>2. IsPrefix(p, Up(q)) => IsPrefix(p, q) BY <1>1, <2>1
  <2>3. IsPrefix(p, q) /\ Len(p) = Len(q) => p = q BY <1>1, SamePlace
  <2>4. IsPrefix(p, q) /\ Len(p) < Len(q) => IsPrefix(p, Up(q)) BY <1>1, <2>1
  <2>5. IsPrefix(p, q) => Len(p) = Len(q) \/ Len(p) < Len(q) BY <1>1
  <2>. QED BY <1>2, <2>2, <2>3, <2>4, <2>5
<1>6. IsPrefix(p, q) /\ IsPrefix(q, p) => p = q BY <1>1, SamePlace
<1>7. IsPrefix(p, q) => Len(p) <= Len(q) BY <1>1
<1>8. ASSUME IsPrefix(p, q) PROVE IsPrefix(Up(p), q) /\ IsPrefix(Up(p), Up(q))
  <2>1. CASE p = <<>> BY <1>1, <2>1, <1>8, RootPlace, UpPlace
  <2>2. CASE p # <<>>
    <3>1. q # <<>> BY <1>4, <1>8, <2>2
    <3>2. /\ Up(p) \in Places /\ Len(Up(p)) = Len(p) - 1 /\ \A i \in 1 .. Len(p) - 1 : Up(p)[i] = p[i]
          /\ Up(q) \in Places /\ Len(Up(q)) = Len(q) - 1 /\ \A i \in 1 .. Len(q) - 1 : Up(q)[i] = q[i]
      BY <2>2, <3>1, UpPlace
    <3>. QED BY <1>1, <1>8, <3>2
  <2>. QED BY <2>1, <2>2
<1>. QED BY <1>2, <1>3, <1>4, <1>5, <1>6, <1>7, <1>8

(* Below a top-level place there is nothing but what is in it.                 *)
LEMMA ChildOnly ==
    ASSUME NEW p \in Places, p # <<>>, NEW q \in Places, IsPrefix(p, q), q # p
    PROVE  Up(q) = p /\ q # <<>>
<1>1. q # <<>> BY PrefixUp
<1>2. IsPrefix(p, Up(q)) /\ Up(q) \in Places /\ Len(Up(q)) = Len(q) - 1
  BY <1>1, PrefixUp, UpPlace
<1>3. Len(p) = 1 /\ Len(Up(q)) = 1 BY <1>2, PrefixUp, PlaceLen
<1>4. \A i \in 1 .. Len(p) : p[i] = Up(q)[i] BY <1>2, PlaceLen, PrefixPlace
<1>. QED BY <1>1, <1>2, <1>3, <1>4, SamePlace

(* The place below `to` that corresponds to i below src. *)
LEMMA OntoSeq ==
    ASSUME NEW i \in Seq(Names), NEW src \in Seq(Names), NEW to \in Seq(Names),
           Len(src) <= Len(i)
    PROVE  /\ Onto(i, src, to) \in Seq(Names)
           /\ Len(Onto(i, src, to)) = Len(to) + (Len(i) - Len(src))
           /\ \A k \in 1 .. Len(to) : Onto(i, src, to)[k] = to[k]
           /\ \A k \in 1 .. Len(i) - Len(src) :
                 Onto(i, src, to)[Len(to) + k] = i[Len(src) + k]
<1> DEFINE a == Len(src)
           b == Len(i)
           c == Len(to)
           rest == SubSeq(i, a + 1, b)
<1>1. a \in Nat /\ b \in Nat /\ c \in Nat /\ a <= b BY LenProperties
<1>2. \A k \in 1 .. b : i[k] \in Names BY ElementOfSeq
<1>3. Onto(i, src, to) = to \o rest BY DEF Onto
<1> HIDE DEF a, b, c
<1>4. /\ rest \in Seq(Names) /\ Len(rest) = b - a
      /\ \A k \in 1 .. b - a : rest[k] = i[a + k]
  <2>1. a + 1 \in Int /\ b \in Int /\ \A k \in a + 1 .. b : i[k] \in Names BY <1>1, <1>2
  <2>2. /\ rest \in Seq(Names)
        /\ Len(rest) = IF a + 1 <= b THEN b - (a + 1) + 1 ELSE 0
        /\ \A k \in 1 .. b - (a + 1) + 1 : rest[k] = i[(a + 1) + k - 1]
    BY <2>1, SubSeqProperties
  <2>3. Len(rest) = b - a BY <1>1, <2>2
  <2>4. ASSUME NEW k \in 1 .. b - a PROVE rest[k] = i[a + k]
    <3>1. k \in 1 .. b - (a + 1) + 1 /\ (a + 1) + k - 1 = a + k BY <1>1
    <3>. QED BY <2>2, <3>1
  <2>. QED BY <2>2, <2>3, <2>4
<1> HIDE DEF rest
<1>5. /\ to \o rest \in Seq(Names) /\ Len(to \o rest) = c + (b - a)
      /\ \A k \in 1 .. c + (b - a) : (to \o rest)[k] = IF k <= c THEN to[k] ELSE rest[k - c]
  <2>1. /\ to \o rest \in Seq(Names) /\ Len(to \o rest) = Len(to) + Len(rest)
        /\ \A k \in 1 .. Len(to) + Len(rest) :
              (to \o rest)[k] = IF k <= Len(to) THEN to[k] ELSE rest[k - Len(to)]
    BY <1>4, ConcatProperties
  <2>. QED BY <1>4, <2>1 DEF c
<1>6. \A k \in 1 .. c : (to \o rest)[k] = to[k] BY <1>1, <1>5
<1>7. ASSUME NEW k \in 1 .. b - a PROVE (to \o rest)[c + k] = i[a + k]
  <2>1. c + k \in 1 .. c + (b - a) /\ ~(c + k <= c) /\ (c + k) - c = k BY <1>1
  <2>. QED BY <1>4, <1>5, <2>1
<1>. QED BY <1>3, <1>5, <1>6, <1>7 DEF a, b, c

LEMMA OntoSelf ==
    ASSUME NEW src \in Places, NEW to \in Seq(Names)
    PROVE  Onto(src, src, to) = to
<1>1. src \in Seq(Names) /\ Len(src) \in Nat /\ Len(to) \in Nat BY PlaceLen, LenProperties
<1>2. /\ Onto(src, src, to) \in Seq(Names)
      /\ Len(Onto(src, src, to)) = Len(to) + (Len(src) - Len(src))
      /\ \A k \in 1 .. Len(to) : Onto(src, src, to)[k] = to[k]
  <2>1. Len(src) <= Len(src) BY <1>1
  <2>. QED BY <1>1, <2>1, OntoSeq
<1>3. Len(Onto(src, src, to)) = Len(to) BY <1>1, <1>2
<1>. QED BY <1>2, <1>3, SeqEqual

LEMMA OntoId ==
    ASSUME NEW src \in Places, NEW q \in Places, IsPrefix(src, q)
    PROVE  Onto(q, src, src) = q
<1>1. src \in Seq(Names) /\ q \in Seq(Names) /\ Len(src) \in 0 .. 2 /\ Len(q) \in 0 .. 2
  BY PlaceLen
<1>2. Len(src) <= Len(q) /\ \A k \in 1 .. Len(src) : src[k] = q[k] BY <1>1, PrefixPlace
<1> DEFINE o == Onto(q, src, src)
<1>3. /\ o \in Seq(Names) /\ Len(o) = Len(src) + (Len(q) - Len(src))
      /\ \A k \in 1 .. Len(src) : o[k] = src[k]
      /\ \A k \in 1 .. Len(q) - Len(src) : o[Len(src) + k] = q[Len(src) + k]
  BY <1>1, <1>2, OntoSeq
<1> HIDE DEF o
<1>4. Len(o) = Len(q) BY <1>1, <1>3
<1>5. ASSUME NEW k \in 1 .. Len(q) PROVE o[k] = q[k]
  <2>1. CASE k <= Len(src) BY <1>1, <1>2, <1>3, <2>1
  <2>2. CASE k > Len(src)
    <3>1. k - Len(src) \in 1 .. Len(q) - Len(src) /\ Len(src) + (k - Len(src)) = k
      BY <1>1, <2>2
    <3>. QED BY <1>3, <3>1
  <2>. QED BY <1>1, <2>1, <2>2
<1>. QED BY <1>1, <1>3, <1>4, <1>5, SeqEqual DEF o

LEMMA OntoInjective ==
    ASSUME NEW src \in Places, NEW to \in Seq(Names), NEW i \in Places, NEW j \in Places,
           IsPrefix(src, i), IsPrefix(src, j), Onto(i, src, to) = Onto(j, src, to)
    PROVE  i = j
<1>1. /\ src \in Seq(Names) /\ i \in Seq(Names) /\ j \in Seq(Names)
      /\ Len(src) \in 0 .. 2 /\ Len(i) \in 0 .. 2 /\ Len(j) \in 0 .. 2 /\ Len(to) \in Nat
  BY PlaceLen, LenProperties
<1>2. /\ Len(src) <= Len(i) /\ \A k \in 1 .. Len(src) : src[k] = i[k]
      /\ Len(src) <= Len(j) /\ \A k \in 1 .. Len(src) : src[k] = j[k]
  BY <1>1, PrefixPlace
<1> DEFINE o == Onto(i, src, to)
<1>3. /\ Len(o) = Len(to) + (Len(i) - Len(src))
      /\ \A k \in 1 .. Len(i) - Len(src) : o[Len(to) + k] = i[Len(src) + k]
  BY <1>1, <1>2, OntoSeq
<1>4. /\ Len(o) = Len(to) + (Len(j) - Len(src))
      /\ \A k \in 1 .. Len(j) - Len(src) : o[Len(to) + k] = j[Len(src) + k]
  <2>1. /\ Len(Onto(j, src, to)) = Len(to) + (Len(j) - Len(src))
        /\ \A k \in 1 .. Len(j) - Len(src) : Onto(j, src, to)[Len(to) + k] = j[Len(src) + k]
    BY <1>1, <1>2, OntoSeq
  <2>2. o = Onto(j, src, to) OBVIOUS
  <2> HIDE DEF o
  <2>. QED BY <2>1, <2>2
<1> HIDE DEF o
<1>5. Len(i) = Len(j) BY <1>1, <1>3, <1>4
<1>6. ASSUME NEW k \in 1 .. Len(i) PROVE i[k] = j[k]
  <2>1. CASE k <= Len(src) BY <1>1, <1>2, <2>1
  <2>2. CASE k > Len(src)
    <3>1. k - Len(src) \in 1 .. Len(i) - Len(src) /\ Len(src) + (k - Len(src)) = k
      BY <1>1, <2>2
    <3>. QED BY <1>3, <1>4, <1>5, <3>1
  <2>. QED BY <1>1, <2>1, <2>2
<1>. QED BY <1>1, <1>5, <1>6, SamePlace

(* What is in a directory comes to be in the directory it is copied to.        *)
LEMMA OntoChild ==
    ASSUME NEW src \in Places, src # <<>>, NEW to \in Places, NEW i \in Places,
           IsPrefix(src, i), i # src, Onto(i, src, to) \in Places
    PROVE  /\ Onto(i, src, to) # <<>> /\ Onto(i, src, to) # to /\ Up(Onto(i, src, to)) = to
           /\ IsPrefix(to, Onto(i, src, to)) /\ Up(i) = src
<1> DEFINE o == Onto(i, src, to)
<1>1. /\ src \in Seq(Names) /\ i \in Seq(Names) /\ to \in Seq(Names)
      /\ Len(src) \in 0 .. 2 /\ Len(i) \in 0 .. 2 /\ Len(to) \in 0 .. 2
  BY PlaceLen
<1>2. Up(i) = src /\ i # <<>> BY ChildOnly
<1>3. Len(src) = Len(i) - 1 BY <1>2, UpPlace
<1>4. /\ Len(o) = Len(to) + (Len(i) - Len(src)) /\ \A k \in 1 .. Len(to) : o[k] = to[k]
  <2>1. Len(src) <= Len(i) BY <1>1, <1>3
  <2>. QED BY <1>1, <2>1, OntoSeq
<1>5. o \in Places OBVIOUS
<1> HIDE DEF o
<1>6. Len(o) = Len(to) + 1 BY <1>1, <1>3, <1>4
<1>7. o # <<>> /\ o # to BY <1>1, <1>5, <1>6, PlaceLen
<1>8. /\ Up(o) \in Places /\ Len(Up(o)) = Len(to)
      /\ \A k \in 1 .. Len(to) : Up(o)[k] = to[k]
  <2>1. /\ Up(o) \in Places /\ Len(Up(o)) = Len(o) - 1
        /\ \A k \in 1 .. Len(o) - 1 : Up(o)[k] = o[k]
    BY <1>5, <1>7, UpPlace
  <2>2. Len(o) - 1 = Len(to) BY <1>1, <1>6
  <2>. QED BY <1>4, <2>1, <2>2
<1>9. Up(o) = to BY <1>8, SamePlace
<1>10. IsPrefix(to, o) BY <1>5, <1>7, <1>9, PrefixUp
<1>. QED BY <1>2, <1>7, <1>9, <1>10 DEF o

--------------------------------------------------------------------------------
(* What exists is in a directory, and so is what is above it.  Each change of  *)
(* the tree leaves it a tree.                                                  *)
Contents == {"none", "dir", "torn", "empty"} \cup Values

LEMMA TreeFacts ==
    ASSUME IsTree(fs)
    PROVE  /\ fs \in [Places -> Contents] /\ fs[<<>>] = "dir"
           /\ \A p \in Places : fs[p] # "none" => fs[Up(p)] = "dir"
BY DEF IsTree, WellFormed, Contents

LEMMA TreeMade ==
    ASSUME NEW t, t \in [Places -> Contents], t[<<>>] = "dir",
           \A p \in Places : p # <<>> /\ t[p] # "none" => t[Up(p)] = "dir"
    PROVE  IsTree(t)
BY RootPlace DEF IsTree, WellFormed, Contents

LEMMA ParentTree ==
    ASSUME IsTree(fs), NEW up \in Places,
           fs' = [q \in Places |-> IF IsPrefix(q, up) THEN "dir" ELSE fs[q]]
    PROVE  IsTree(fs')
<1>1. fs' \in [Places -> Contents] BY TreeFacts DEF Contents
<1>2. fs'[<<>>] = "dir" BY RootPlace, PrefixUp
<1>3. ASSUME NEW p \in Places, p # <<>>, fs'[p] # "none" PROVE fs'[Up(p)] = "dir"
  <2>1. Up(p) \in Places BY <1>3, UpPlace
  <2>2. CASE IsPrefix(p, up) BY <2>1, <2>2, PrefixUp
  <2>3. CASE ~IsPrefix(p, up) BY <1>3, <2>1, <2>3, TreeFacts
  <2>. QED BY <2>2, <2>3
<1>. QED BY <1>1, <1>2, <1>3, TreeMade

LEMMA MakeTree ==
    ASSUME IsTree(fs), NEW p \in Places, fs[p] = "none", IsDir(Up(p)),
           NEW v \in {"dir", "empty"}, fs' = [fs EXCEPT ![p] = v]
    PROVE  IsTree(fs')
<1>1. fs' \in [Places -> Contents] BY TreeFacts DEF Contents
<1>2. p # <<>> BY TreeFacts
<1>3. \A q \in Places : fs'[q] = IF q = p THEN v ELSE fs[q] BY TreeFacts
<1>4. fs'[<<>>] = "dir" BY <1>2, <1>3, RootPlace, TreeFacts
<1>5. ASSUME NEW q \in Places, q # <<>>, fs'[q] # "none" PROVE fs'[Up(q)] = "dir"
  <2>1. Up(q) \in Places /\ Up(q) # q BY <1>5, UpPlace
  <2>2. fs[Up(q)] = "dir" BY <1>3, <1>5, TreeFacts DEF IsDir
  <2>. QED BY <1>3, <2>1, <2>2
<1>. QED BY <1>1, <1>4, <1>5, TreeMade

LEMMA DiscardTree ==
    ASSUME IsTree(fs), NEW p \in Places, p # <<>>, NEW gone \in SUBSET Items(p),
           p \in gone => gone = Items(p),
           fs' = [q \in Places |-> IF q \in gone THEN "none" ELSE fs[q]]
    PROVE  IsTree(fs')
<1>1. fs' \in [Places -> Contents] BY TreeFacts DEF Contents
<1>2. \A q \in gone : q \in Places /\ IsPrefix(p, q) BY DEF Items
<1>3. <<>> \notin gone BY <1>2, PrefixUp
<1>4. fs'[<<>>] = "dir" BY <1>3, RootPlace, TreeFacts
<1>5. ASSUME NEW q \in Places, q # <<>>, fs'[q] # "none" PROVE fs'[Up(q)] = "dir"
  <2>1. q \notin gone /\ fs[q] # "none" /\ fs[Up(q)] = "dir" /\ Up(q) \in Places /\ Up(q) # q
    BY <1>5, TreeFacts, UpPlace
  <2>2. ASSUME Up(q) \in gone PROVE FALSE
    <3>1. IsPrefix(p, Up(q)) BY <1>2, <2>2
    <3>2. IsPrefix(p, q) BY <1>5, <2>1, <3>1, PrefixUp
    <3>3. CASE p \in gone BY <2>1, <3>2, <3>3 DEF Items
    <3>4. CASE p \notin gone
      <4>1. Up(q) # p BY <2>2, <3>4
      <4>2. q # p BY <2>1, <3>1, PrefixUp, UpPlace, PlaceLen
      <4>. QED BY <3>2, <4>1, <4>2, ChildOnly
    <3>. QED BY <3>3, <3>4
  <2>. QED BY <2>1, <2>2
<1>. QED BY <1>1, <1>4, <1>5, TreeMade

(* Where a copy puts what it has sent: no two things come to the same place,   *)
(* and nothing comes above the place the copy is made at.                      *)
LEMMA CopyPlaces ==
    ASSUME IsTree(fs), NEW src \in Places, src # <<>>, NEW to \in Seq(Names),
           NEW d \in Sent(src, to), d # {}
    PROVE  /\ to \in Places /\ src \in d /\ Onto(src, src, to) = to
           /\ \A i \in d : /\ i \in Places /\ IsPrefix(src, i) /\ fs[i] # "none"
                           /\ Holds(i, Onto(i, src, to)) /\ Onto(i, src, to) \in Places
                           /\ IsPrefix(to, Onto(i, src, to))
           /\ \A i, j \in d : Onto(i, src, to) = Onto(j, src, to) => i = j
           /\ to # <<>> => \A q \in Places, i \in d :
                                IsPrefix(q, Up(to)) => q # Onto(i, src, to)
<1>1. Onto(src, src, to) = to BY OntoSelf
<1>2. src \in d /\ \A i \in d : /\ i \in Places /\ IsPrefix(src, i) /\ fs[i] # "none"
                               /\ Holds(i, Onto(i, src, to)) /\ Onto(i, src, to) \in Places
  BY DEF Sent, Items, Holds
<1>3. to \in Places BY <1>1, <1>2
<1>4. ASSUME NEW i \in d PROVE IsPrefix(to, Onto(i, src, to))
  <2>1. CASE i = src BY <1>1, <1>3, <2>1, PrefixUp
  <2>2. CASE i # src BY <1>2, <1>3, <2>2, OntoChild
  <2>. QED BY <2>1, <2>2
<1>5. \A i, j \in d : Onto(i, src, to) = Onto(j, src, to) => i = j
  BY <1>2, OntoInjective
<1>6. ASSUME to # <<>>, NEW q \in Places, NEW i \in d, IsPrefix(q, Up(to)),
             q = Onto(i, src, to)
      PROVE  FALSE
  <2>1. Up(to) \in Places /\ Len(Up(to)) = Len(to) - 1 BY <1>3, <1>6, UpPlace
  <2>2. Len(to) <= Len(q) /\ Len(q) <= Len(Up(to)) BY <1>3, <1>4, <1>6, <2>1, PrefixUp
  <2>. QED BY <1>3, <2>1, <2>2, PlaceLen
<1>. QED BY <1>1, <1>2, <1>3, <1>4, <1>5, <1>6

LEMMA CopyTree ==
    ASSUME IsTree(fs), NEW src \in Places, src # <<>>, NEW to \in Seq(Names),
           NEW d \in Sent(src, to), NEW cut \in SUBSET {i \in d : IsFile(i)}
    PROVE  IsTree(AfterCopy(src, to, d, cut))
<1> DEFINE t == AfterCopy(src, to, d, cut)
           o(i) == Onto(i, src, to)
<1>1. CASE d = {}
  <2>1. \A q \in Places : t[q] = fs[q] BY <1>1 DEF AfterCopy
  <2>2. t = fs
    <3>1. t = [q \in Places |-> t[q]] BY DEF AfterCopy
    <3>2. fs = [q \in Places |-> fs[q]] BY TreeFacts
    <3>. QED BY <2>1, <3>1, <3>2
  <2>. QED BY <2>2
<1>2. CASE d # {}
  <2>1. /\ to \in Places /\ src \in d /\ o(src) = to
        /\ \A i \in d : /\ i \in Places /\ IsPrefix(src, i) /\ fs[i] # "none"
                        /\ Holds(i, o(i)) /\ o(i) \in Places /\ IsPrefix(to, o(i))
        /\ \A i, j \in d : o(i) = o(j) => i = j
        /\ to # <<>> => \A q \in Places, i \in d : IsPrefix(q, Up(to)) => q # o(i)
    BY <1>2, CopyPlaces
  <2>2. ASSUME NEW i \in d PROVE t[o(i)] = IF i \in cut THEN "torn" ELSE fs[i]
    <3>1. (CHOOSE j \in d : o(i) = o(j)) = i BY <2>1
    <3>2. o(i) \in Places BY <2>1
    <3>. QED BY <3>1, <3>2 DEF AfterCopy
  <2>3. ASSUME NEW q \in Places, ~\E i \in d : q = o(i)
        PROVE  t[q] = IF IsPrefix(q, Up(to)) THEN "dir" ELSE fs[q]
    BY <1>2, <2>3 DEF AfterCopy
  <2>4. \A i \in d : IsDir(i) => i \notin cut BY DEF IsDir, IsFile
  <2> HIDE DEF o
  <2>5. DOMAIN t = Places /\ t = [q \in Places |-> t[q]] BY DEF AfterCopy
  <2> HIDE DEF t
  <2>6. \A q \in Places : t[q] \in Contents
    <3>. SUFFICES ASSUME NEW q \in Places PROVE t[q] \in Contents
         OBVIOUS
    <3>1. CASE \E i \in d : q = o(i) BY <2>1, <2>2, <3>1, TreeFacts DEF Contents
    <3>2. CASE ~\E i \in d : q = o(i) BY <2>3, <3>2, TreeFacts DEF Contents
    <3>. QED BY <3>1, <3>2
  <2>7. t \in [Places -> Contents] BY <2>5, <2>6
  <2>8. t[<<>>] = "dir"
    <3>1. CASE \E i \in d : <<>> = o(i)
      <4>1. PICK i \in d : <<>> = o(i) BY <3>1
      <4>2. to = <<>> BY <2>1, <4>1, PrefixUp
      <4>3. i = src BY <2>1, <4>1, <4>2
      <4>4. IsDir(src) BY <2>1, <4>1, <4>3, TreeFacts DEF Holds, IsDir
      <4>. QED BY <2>2, <2>4, <4>1, <4>3, <4>4 DEF IsDir
    <3>2. CASE ~\E i \in d : <<>> = o(i)
      <4>1. IsPrefix(<<>>, Up(to)) BY <2>1, RootPlace, UpPlace, PrefixUp
      <4>. QED BY <2>3, <3>2, <4>1, RootPlace
    <3>. QED BY <3>1, <3>2
  <2>9. ASSUME NEW q \in Places, q # <<>>, t[q] # "none" PROVE t[Up(q)] = "dir"
    <3>1. Up(q) \in Places /\ Up(q) # q BY <2>9, UpPlace
    <3>2. CASE q = to
      <4>1. IsPrefix(Up(q), Up(to)) BY <3>1, <3>2, PrefixUp
      <4>2. ~\E i \in d : Up(q) = o(i) BY <2>1, <2>9, <3>1, <3>2, <4>1
      <4>. QED BY <2>3, <3>1, <4>1, <4>2
    <3>3. CASE q # to /\ \E i \in d : q = o(i)
      <4>1. PICK i \in d : q = o(i) BY <3>3
      <4>2. i # src BY <2>1, <3>3, <4>1
      <4>3. Up(q) = to /\ Up(i) = src BY <2>1, <4>1, <4>2, OntoChild DEF o
      <4>4. IsDir(src) BY <2>1, <4>3, TreeFacts DEF IsDir
      <4>. QED BY <2>1, <2>2, <2>4, <4>3, <4>4 DEF IsDir
    <3>4. CASE (~\E i \in d : q = o(i)) /\ IsPrefix(q, Up(to))
      <4>1. to # <<>> BY <2>9, <3>4, RootPlace, PrefixUp
      <4>2. Up(to) \in Places BY <2>1, <4>1, UpPlace
      <4>3. IsPrefix(Up(q), Up(to)) BY <3>4, <4>2, PrefixUp
      <4>4. ~\E i \in d : Up(q) = o(i) BY <2>1, <3>1, <4>1, <4>3
      <4>. QED BY <2>3, <3>1, <4>3, <4>4
    <3>5. CASE (~\E i \in d : q = o(i)) /\ ~IsPrefix(q, Up(to))
      <4>1. fs[q] # "none" /\ fs[Up(q)] = "dir" BY <2>3, <2>9, <3>5, TreeFacts
      <4>2. CASE \E i \in d : Up(q) = o(i)
        <5>1. PICK i \in d : Up(q) = o(i) BY <4>2
        <5>2. IsDir(i) BY <2>1, <4>1, <5>1 DEF Holds, IsDir
        <5>. QED BY <2>2, <2>4, <5>1, <5>2 DEF IsDir
      <4>3. CASE ~\E i \in d : Up(q) = o(i) BY <2>3, <3>1, <4>1, <4>3
      <4>. QED BY <4>2, <4>3
    <3>. QED BY <3>2, <3>3, <3>4, <3>5
  <2>. QED BY <2>7, <2>8, <2>9, TreeMade DEF t
<1>. QED BY <1>1, <1>2

LEMMA MovedTree ==
    ASSUME IsTree(fs), NEW src \in Places, src # <<>>, NEW dst \in Places, CanRename(src, dst)
    PROVE  IsTree(Moved(src, dst))
<1> DEFINE t == Moved(src, dst)
           from(q) == Onto(q, dst, src)
<1>1. CASE src = dst
  <2>1. \A q \in Places : IsPrefix(dst, q) => from(q) = q BY <1>1, OntoId
  <2>2. \A q \in Places : t[q] = fs[q] BY <1>1, <2>1 DEF Moved
  <2>3. t = fs
    <3>1. t = [q \in Places |-> t[q]] BY DEF Moved
    <3>2. fs = [q \in Places |-> fs[q]] BY TreeFacts
    <3>. QED BY <2>2, <3>1, <3>2
  <2>. QED BY <2>3
<1>2. CASE src # dst
  <2>1. ~IsPrefix(src, dst) /\ fs[Up(dst)] = "dir" BY <1>2 DEF CanRename, IsDir
  <2>2. dst # <<>>
    <3>. SUFFICES ASSUME dst = <<>> PROVE FALSE
         OBVIOUS
    <3>1. IsDir(src) /\ Items(dst) = {dst} BY <1>2, TreeFacts DEF CanRename, IsDir
    <3>2. src \in Items(dst) BY <3>1, PrefixUp DEF Items, IsDir
    <3>. QED BY <1>2, <3>1, <3>2
  <2>4. \A q \in Places :
           /\ IsPrefix(dst, q) => t[q] = IF from(q) \in Places THEN fs[from(q)] ELSE "none"
           /\ ~IsPrefix(dst, q) => t[q] = IF IsPrefix(src, q) THEN "none" ELSE fs[q]
    BY DEF Moved
  <2>5. from(dst) = src BY OntoSelf, PlaceLen
  <2>6. \A q \in Places : IsPrefix(dst, q) /\ q # dst /\ from(q) \in Places =>
                              Up(q) = dst /\ Up(from(q)) = src
    BY <2>2, OntoChild
  <2>7. t = [q \in Places |-> t[q]] BY DEF Moved
  <2> HIDE DEF t, from
  <2>8. \A q \in Places : t[q] \in Contents
    BY <2>4, TreeFacts DEF Contents
  <2>9. t \in [Places -> Contents] BY <2>7, <2>8
  <2>10. t[<<>>] = "dir" BY <2>2, <2>4, RootPlace, PrefixUp, TreeFacts
  <2>11. ASSUME NEW q \in Places, q # <<>>, t[q] # "none" PROVE t[Up(q)] = "dir"
    <3>1. Up(q) \in Places /\ Len(Up(q)) = Len(q) - 1 /\ Up(q) # q BY <2>11, UpPlace
    <3>2. CASE q = dst
      <4>1. ~IsPrefix(dst, Up(q)) BY <3>1, <3>2, PrefixUp
      <4>2. ~IsPrefix(src, Up(q)) BY <2>1, <2>11, <3>1, <3>2, PrefixUp
      <4>. QED BY <2>1, <2>4, <3>1, <3>2, <4>1, <4>2
    <3>3. CASE q # dst /\ IsPrefix(dst, q)
      <4>1. from(q) \in Places /\ fs[from(q)] # "none" BY <2>4, <2>11, <3>3
      <4>2. Up(q) = dst /\ Up(from(q)) = src BY <2>6, <3>3, <4>1
      <4>3. fs[src] = "dir" BY <4>1, <4>2, TreeFacts
      <4>4. IsPrefix(dst, dst) BY PrefixUp
      <4>. QED BY <2>4, <2>5, <4>2, <4>3, <4>4
    <3>4. CASE ~IsPrefix(dst, q)
      <4>1. ~IsPrefix(src, q) /\ fs[q] # "none" BY <2>4, <2>11, <3>4
      <4>2. fs[Up(q)] = "dir" BY <4>1, TreeFacts
      <4>3. ~IsPrefix(dst, Up(q)) /\ ~IsPrefix(src, Up(q))
        BY <2>11, <3>1, <3>4, <4>1, PrefixUp
      <4>. QED BY <2>4, <3>1, <4>2, <4>3
    <3>. QED BY <3>2, <3>3, <3>4
  <2>. QED BY <2>9, <2>10, <2>11, TreeMade DEF t
<1>. QED BY <1>1, <1>2

--------------------------------------------------------------------------------
(* The jobs.  Only a request to copy or move may name the directory all paths  *)
(* start from, and only as the second path: what is removed, made or renamed   *)
(* is never that directory.                                                    *)
JobType == [pc : Results \cup {"free", "check", "parent", "make", "unlink", "rmtree",
                               "copytree", "copyfile", "aim", "rename", "find", "command"},
            op : DOMAIN Entry \cup {"none"}, path : Places, dst : Places, shared : BOOLEAN]
Duty == [check |-> {"delete", "copy", "move"}, parent |-> {"create_dir", "create_file", "copy", "move"},
         make |-> {"create_dir", "create_file"}, unlink |-> {"delete", "move"},
         rmtree |-> {"delete", "move"}, copytree |-> {"copy", "move"}, copyfile |-> {"copy", "move"},
         aim |-> {"move"}, rename |-> {"move"}, find |-> {"find"}, command |-> {"command"}]
JobOK(j) ==
    /\ j \in JobType
    /\ j.pc \in DOMAIN Duty => j.op \in Duty[j.pc]
    /\ j.pc \in DOMAIN Duty \ {"find", "command"} => j.path # <<>>
FilesInv ==
    /\ IsTree(fs)
    /\ job \in [Workers -> JobType] /\ \A w \in Workers : JobOK(job[w])

LEMMA FilesInvType == FilesInv => FilesTypeOK
BY DEF FilesInv, FilesTypeOK, JobType

LEMMA IdlerOK == ASSUME NEW r \in Results \cup {"free"} PROVE JobOK([Idler EXCEPT !.pc = r])
<1>1. <<>> \in Places BY RootPlace
<1> DEFINE i == [Idler EXCEPT !.pc = r]
<1>2. i \in JobType BY <1>1 DEF Idler, JobType
<1>3. i.pc = r BY DEF Idler
<1> HIDE DEF i
<1>4. i.pc \notin DOMAIN Duty BY <1>3 DEF Results, Duty
<1>5. JobOK(i) BY <1>2, <1>4 DEF JobOK
<1>. QED BY <1>5 DEF i

LEMMA OneJob ==
    ASSUME FilesInv, NEW w \in Workers, NEW r, JobOK(r), job' = [job EXCEPT ![w] = r], IsTree(fs')
    PROVE  /\ FilesInv' /\ job'[w] = r
           /\ \A u \in Workers : u # w => job'[u] = job[u]
<1>1. \A u \in Workers : job'[u] = IF u = w THEN r ELSE job[u] BY DEF FilesInv
<1>2. r \in JobType BY DEF JobOK
<1>3. job' \in [Workers -> JobType] BY <1>2 DEF FilesInv
<1>4. \A u \in Workers : JobOK(job'[u]) BY <1>1 DEF FilesInv
<1>5. FilesInv' BY <1>3, <1>4 DEF FilesInv
<1>. QED BY <1>1, <1>5

LEMMA ResultJob ==
    ASSUME FilesInv, NEW w \in Workers, NEW r \in Results, Result(w, r), IsTree(fs')
    PROVE  /\ FilesInv' /\ job'[w].pc = r
           /\ \A u \in Workers : u # w => job'[u] = job[u]
<1>1. JobOK([Idler EXCEPT !.pc = r]) /\ [Idler EXCEPT !.pc = r].pc = r BY IdlerOK DEF Idler
<1>. QED BY <1>1, OneJob DEF Result

LEMMA StepJob ==
    ASSUME FilesInv, NEW w \in Workers, job[w].path # <<>>, IsTree(fs'),
           NEW pc \in DOMAIN Duty \ {"find", "command"}, job[w].op \in Duty[pc], Step(w, pc)
    PROVE  /\ FilesInv' /\ job'[w].pc = pc
           /\ \A u \in Workers : u # w => job'[u] = job[u]
<1> DEFINE r == [job[w] EXCEPT !.pc = pc]
<1>1. job[w] \in JobType BY DEF FilesInv
<1>2. r.pc = pc /\ r.path = job[w].path /\ r.op = job[w].op BY <1>1 DEF JobType
<1>3. r \in JobType BY <1>1 DEF JobType, Duty
<1>4. job' = [job EXCEPT ![w] = r] BY DEF Step, FilesInv
<1> HIDE DEF r
<1>5. JobOK(r) BY <1>2, <1>3 DEF JobOK
<1>. QED BY <1>2, <1>4, <1>5, OneJob

LEMMA SubmitJob ==
    ASSUME FilesInv, NEW w \in Workers, NEW r, Submit(w, r), r.op \in DOMAIN Entry,
           r.path \in Places, r.dst \in Places, r.op \notin Reading => r.path # <<>>
    PROVE  /\ FilesInv' /\ job'[w].pc # "free"
           /\ \A u \in Workers : u # w => job'[u].pc = job[u].pc
<1> DEFINE met(u) == Acting(u) /\ {job[u].op, r.op} \cap Reading = {} /\ Meet(job[u], r)
           new == [pc |-> Entry[r.op], op |-> r.op, path |-> r.path, dst |-> r.dst,
                   shared |-> \E o \in Workers : met(o)]
           old(u) == [job[u] EXCEPT !.shared = @ \/ met(u)]
<1>1. /\ In(w, "free") /\ fs' = fs
      /\ job' = [u \in Workers |-> IF u = w THEN new ELSE old(u)]
  BY DEF Submit
<1>2. JobOK(new) /\ new.pc # "free"
  <2>1. (\E o \in Workers : met(o)) \in BOOLEAN OBVIOUS
  <2> HIDE DEF met
  <2>2. Entry[r.op] \in {"parent", "check", "find", "command"} BY DEF Entry
  <2>3. Entry[r.op] \in DOMAIN Duty /\ r.op \in Duty[Entry[r.op]]
    BY DEF Entry, Duty
  <2>4. r.op \in Reading => Entry[r.op] \in {"find", "command"} BY DEF Entry, Reading
  <2>5. new \in JobType BY <2>1, <2>2 DEF JobType
  <2>6. new.pc = Entry[r.op] /\ new.op = r.op /\ new.path = r.path OBVIOUS
  <2> HIDE DEF new
  <2>. QED BY <2>2, <2>3, <2>4, <2>5, <2>6 DEF JobOK
<1>3. ASSUME NEW u \in Workers PROVE JobOK(old(u)) /\ old(u).pc = job[u].pc
  <2>1. JobOK(job[u]) /\ job[u] \in JobType BY DEF FilesInv
  <2>2. (job[u].shared \/ met(u)) \in BOOLEAN OBVIOUS
  <2> HIDE DEF met
  <2>3. old(u) = [job[u] EXCEPT !.shared = job[u].shared \/ met(u)] OBVIOUS
  <2>4. /\ old(u).pc = job[u].pc /\ old(u).path = job[u].path /\ old(u).op = job[u].op
    BY <2>1, <2>3 DEF JobType
  <2>5. old(u) \in JobType BY <2>1, <2>2, <2>3 DEF JobType
  <2> HIDE DEF old
  <2>. QED BY <2>1, <2>4, <2>5 DEF JobOK
<1> HIDE DEF new, old
<1>4. \A u \in Workers : job'[u] = IF u = w THEN new ELSE old(u) BY <1>1
<1>5. \A u \in Workers : JobOK(job'[u]) BY <1>2, <1>3, <1>4
<1>6. job' = [u \in Workers |-> job'[u]] BY <1>1
<1>7. job' \in [Workers -> JobType] BY <1>5, <1>6 DEF JobOK
<1>8. FilesInv' BY <1>1, <1>5, <1>7 DEF FilesInv
<1>. QED BY <1>2, <1>3, <1>4, <1>8

(* A step of a thread at work leaves the types right, the thread with its      *)
(* request or with the answer, and the other threads alone.                    *)
Worked(w) ==
    /\ FilesInv' /\ job[w].pc # "free" /\ job'[w].pc # "free"
    /\ \A u \in Workers : u # w => job'[u] = job[u]

LEMMA ResultWorked ==
    ASSUME FilesInv, NEW w \in Workers, job[w].pc # "free", NEW r \in Results, Result(w, r),
           IsTree(fs')
    PROVE  Worked(w)
BY ResultJob DEF Worked, Results

LEMMA RaiseWorked ==
    ASSUME FilesInv, NEW w \in Workers, job[w].pc # "free", Raise(w), IsTree(fs')
    PROVE  Worked(w)
BY ResultWorked DEF Raise, Results

LEMMA StepWorked ==
    ASSUME FilesInv, NEW w \in Workers, job[w].pc # "free", job[w].path # <<>>, IsTree(fs'),
           NEW pc \in DOMAIN Duty \ {"find", "command"}, job[w].op \in Duty[pc], Step(w, pc)
    PROVE  Worked(w)
<1>1. pc # "free" BY DEF Duty
<1>. QED BY <1>1, StepJob DEF Worked

(* What a thread is at tells what it was asked for. *)
LEMMA DutyOf ==
    ASSUME FilesInv, NEW w \in Workers
    PROVE  /\ job[w] \in JobType
           /\ job[w].pc = "check" => job[w].op \in {"delete", "copy", "move"} /\ job[w].path # <<>>
           /\ job[w].pc = "parent" => job[w].op \in DOMAIN AfterParent /\ job[w].path # <<>>
           /\ job[w].pc = "make" => job[w].op \in {"create_dir", "create_file"} /\ job[w].path # <<>>
           /\ job[w].pc \in {"unlink", "rmtree"} => job[w].op \in {"delete", "move"} /\ job[w].path # <<>>
           /\ job[w].pc \in {"copytree", "copyfile"} => job[w].op \in {"copy", "move"} /\ job[w].path # <<>>
           /\ job[w].pc \in {"aim", "rename"} => job[w].op = "move" /\ job[w].path # <<>>
           /\ job[w].pc \in {"find", "command"} => job[w].op \in Reading
<1>1. JobOK(job[w]) /\ job[w] \in JobType BY DEF FilesInv
<1>2. job[w].pc \in DOMAIN Duty \ {"find", "command"} => job[w].path # <<>> BY <1>1 DEF JobOK
<1>3. job[w].pc \in DOMAIN Duty => job[w].op \in Duty[job[w].pc] BY <1>1 DEF JobOK
<1>. QED BY <1>1, <1>2, <1>3 DEF Duty, AfterParent, Reading

LEMMA CheckWorked == ASSUME FilesInv, NEW w \in Workers, Check(w) PROVE Worked(w)
<1> DEFINE j == job[w]
<1>1. /\ j.pc = "check" /\ j.path # <<>> /\ j.op \in {"delete", "copy", "move"} /\ IsTree(fs')
  BY DutyOf DEF FilesInv, Check, In
<1>2. CASE Result(w, "refused") BY <1>1, <1>2, ResultWorked DEF Results
<1>3. CASE \/ j.op = "delete" /\ \E pc \in {"rmtree", "unlink"} : Step(w, pc)
           \/ j.op = "copy" /\ Step(w, "copytree")
           \/ j.op # "delete" /\ Step(w, "parent")
  <2>1. /\ "delete" \in Duty["rmtree"] /\ "delete" \in Duty["unlink"] /\ "copy" \in Duty["copytree"]
        /\ "copy" \in Duty["parent"] /\ "move" \in Duty["parent"]
        /\ {"rmtree", "unlink", "copytree", "parent"} \subseteq DOMAIN Duty \ {"find", "command"}
    BY DEF Duty
  <2>. QED BY <1>1, <1>3, <2>1, StepWorked
<1>4. \/ Result(w, "refused")
      \/ j.op = "delete" /\ \E pc \in {"rmtree", "unlink"} : Step(w, pc)
      \/ j.op = "copy" /\ Step(w, "copytree")
      \/ j.op # "delete" /\ Step(w, "parent")
  <2>1. CASE fs[j.path] = "none" BY <2>1 DEF Check, IsDir
  <2>2. CASE IsDir(j.path) /\ j.op = "delete" BY <2>2 DEF Check, IsDir
  <2>3. CASE IsDir(j.path) /\ j.op = "copy" BY <2>3 DEF Check, IsDir
  <2>4. CASE ~IsDir(j.path) /\ fs[j.path] # "none" /\ j.op = "delete" BY <2>4 DEF Check, IsDir
  <2>5. CASE fs[j.path] # "none" /\ j.op # "delete" /\ ~(IsDir(j.path) /\ j.op = "copy")
    BY <2>5 DEF Check, IsDir
  <2>. QED BY <1>1, <2>1, <2>2, <2>3, <2>4, <2>5
<1>. QED BY <1>2, <1>3, <1>4

LEMMA ParentWorked == ASSUME FilesInv, NEW w \in Workers, Parent(w) PROVE Worked(w)
<1> DEFINE j == job[w]
<1>1. /\ j.pc = "parent" /\ j.path # <<>> /\ j.op \in DOMAIN AfterParent /\ j \in JobType
      /\ IsTree(fs)
  BY DutyOf DEF FilesInv, Parent, In
<1>2. Up(j.dst) \in Places
  <2>1. j.dst \in Places BY <1>1 DEF JobType
  <2>. QED BY <2>1, RootPlace, UpPlace
<1>3. CASE Raise(w) /\ UNCHANGED fs BY <1>1, <1>3, RaiseWorked
<1>4. CASE /\ Step(w, AfterParent[j.op])
           /\ fs' = [q \in Places |-> IF IsPrefix(q, Up(j.dst)) THEN "dir" ELSE fs[q]]
  <2>1. IsTree(fs') BY <1>1, <1>2, <1>4, ParentTree
  <2>2. /\ AfterParent[j.op] \in DOMAIN Duty \ {"find", "command"}
        /\ j.op \in Duty[AfterParent[j.op]]
    BY <1>1 DEF AfterParent, Duty
  <2>. QED BY <1>1, <1>4, <2>1, <2>2, StepWorked
<1>. QED BY <1>3, <1>4 DEF Parent

LEMMA MakeWorked == ASSUME FilesInv, NEW w \in Workers, Make(w) PROVE Worked(w)
<1> DEFINE p == job[w].path
           v == IF job[w].op = "create_dir" THEN "dir" ELSE "empty"
<1>1. job[w].pc = "make" /\ p \in Places /\ IsTree(fs) BY DutyOf DEF FilesInv, JobType, Make, In
<1>2. CASE Raise(w) /\ UNCHANGED fs BY <1>1, <1>2, RaiseWorked
<1>3. CASE Result(w, "ok") /\ UNCHANGED fs BY <1>1, <1>3, ResultWorked DEF Results
<1>4. CASE fs[p] = "none" /\ IsDir(Up(p)) /\ Result(w, "ok") /\ fs' = [fs EXCEPT ![p] = v]
  <2>1. v \in {"dir", "empty"} OBVIOUS
  <2> HIDE DEF v, p
  <2>2. IsTree(fs') BY <1>1, <1>4, <2>1, MakeTree
  <2>. QED BY <1>1, <1>4, <2>2, ResultWorked DEF Results
<1>. QED BY <1>2, <1>3, <1>4 DEF Make

LEMMA DiscardWorked == ASSUME FilesInv, NEW w \in Workers, Discard(w) PROVE Worked(w)
<1> DEFINE p == job[w].path
<1>1. p # <<>> /\ p \in Places /\ IsTree(fs) /\ job[w].pc # "free"
  BY DutyOf DEF FilesInv, JobType, Discard
<1>2. PICK gone \in SUBSET Items(p) :
         /\ p \in gone => gone = Items(p)
         /\ fs' = [q \in Places |-> IF q \in gone THEN "none" ELSE fs[q]]
         /\ Result(w, Gone(p, gone))
  BY DEF Discard
<1>3. IsTree(fs') BY <1>1, <1>2, DiscardTree
<1>4. Gone(p, gone) \in Results BY DEF Gone, Results
<1>. QED BY <1>1, <1>2, <1>3, <1>4, ResultWorked

(* A step of a copy ends it, or does what one of the outcomes of Copies says.  *)
CopyDone(w, to, d, cut) ==
    LET all == Items(job[w].path)  whole == Whole(all, d, cut) IN
    /\ d \in Sent(job[w].path, to) /\ cut \in SUBSET {i \in d : IsFile(i)}
    /\ fs' = AfterCopy(job[w].path, to, d, cut)
    /\ \/ ~whole /\ Raise(w)
       \/ whole /\ job[w].op = "copy" /\ Result(w, "ok")
       \/ whole /\ job[w].op # "copy" /\ In(w, "copytree") /\ Step(w, "rmtree")
       \/ whole /\ job[w].op # "copy" /\ ~In(w, "copytree") /\ Step(w, "unlink")
GoesTo(w) == IF In(w, "copytree") THEN job[w].dst ELSE Target(job[w].path, job[w].dst)

LEMMA CopyCases ==
    ASSUME FilesInv, NEW w \in Workers, Copy(w)
    PROVE  /\ GoesTo(w) \in Seq(Names)
           /\ \/ Raise(w) /\ UNCHANGED fs
              \/ Begun(w) /\ \E d, cut : CopyDone(w, GoesTo(w), d, cut)
<1> DEFINE j == job[w]
           to == GoesTo(w)
<1>1. j.path # <<>> /\ j.path \in Places /\ j.dst \in Places
  BY DutyOf DEF JobType, Copy
<1>2. to \in Seq(Names)
  <2>1. j.dst \in Seq(Names) /\ j.path \in Seq(Names) BY <1>1, PlaceLen
  <2>2. Last(j.path) \in Names
    <3>1. Len(j.path) \in 1 .. Len(j.path) BY <1>1, PlaceLen
    <3>. QED BY <1>1, <3>1, PlaceLen DEF Last
  <2>3. Append(j.dst, Last(j.path)) \in Seq(Names) BY <2>1, <2>2, AppendProperties
  <2>. QED BY <2>1, <2>3 DEF GoesTo, Target
<1>3. ASSUME ~(Raise(w) /\ UNCHANGED fs) PROVE Begun(w) /\ \E d, cut : CopyDone(w, to, d, cut)
  <2>1. PICK c \in Copies(j.path, to) :
          /\ Begun(w) /\ fs' = c.tree
          /\ CASE ~c.whole -> Raise(w)
               [] c.whole /\ j.op = "copy" -> Result(w, "ok")
               [] OTHER -> Step(w, IF In(w, "copytree") THEN "rmtree" ELSE "unlink")
    BY <1>3 DEF Copy, GoesTo
  <2> HIDE DEF to
  <2>2. PICK d \in Sent(j.path, to) : \E cut \in SUBSET {i \in d : IsFile(i)} :
              c = [tree |-> AfterCopy(j.path, to, d, cut), arrived |-> d \ cut,
                   whole |-> Whole(Items(j.path), d, cut)]
    BY DEF Copies
  <2>3. PICK cut \in SUBSET {i \in d : IsFile(i)} :
              c = [tree |-> AfterCopy(j.path, to, d, cut), arrived |-> d \ cut,
                   whole |-> Whole(Items(j.path), d, cut)]
    BY <2>2
  <2>4. c.tree = AfterCopy(j.path, to, d, cut) /\ c.whole = Whole(Items(j.path), d, cut)
    BY <2>3
  <2>5. \/ ~c.whole /\ Raise(w)
        \/ c.whole /\ j.op = "copy" /\ Result(w, "ok")
        \/ c.whole /\ j.op # "copy" /\ In(w, "copytree") /\ Step(w, "rmtree")
        \/ c.whole /\ j.op # "copy" /\ ~In(w, "copytree") /\ Step(w, "unlink")
    <3>1. c.whole \in BOOLEAN BY <2>4 DEF Whole
    <3>. QED BY <2>1, <3>1
  <2>6. CopyDone(w, to, d, cut) BY <2>1, <2>4, <2>5 DEF CopyDone
  <2>. QED BY <2>1, <2>6
<1>. QED BY <1>2, <1>3

LEMMA CopyWorked == ASSUME FilesInv, NEW w \in Workers, Copy(w) PROVE Worked(w)
<1>1. /\ job[w].path # <<>> /\ job[w].path \in Places /\ IsTree(fs) /\ job[w].pc # "free"
      /\ job[w].op \in {"copy", "move"}
  BY DutyOf DEF FilesInv, JobType, Copy
<1>2. CASE Raise(w) /\ UNCHANGED fs BY <1>1, <1>2, RaiseWorked
<1>3. ASSUME NEW d, NEW cut, CopyDone(w, GoesTo(w), d, cut) PROVE Worked(w)
  <2>1. IsTree(fs') BY <1>1, <1>3, CopyCases, CopyTree DEF CopyDone
  <2>2. /\ "move" \in Duty["rmtree"] /\ "move" \in Duty["unlink"]
        /\ {"rmtree", "unlink"} \subseteq DOMAIN Duty \ {"find", "command"}
    BY DEF Duty
  <2>3. \/ Raise(w) \/ Result(w, "ok")
        \/ job[w].op = "move" /\ \E pc \in {"rmtree", "unlink"} : Step(w, pc)
    BY <1>1, <1>3 DEF CopyDone
  <2>. QED BY <1>1, <2>1, <2>2, <2>3, RaiseWorked, ResultWorked, StepWorked DEF Results
<1>. QED BY <1>2, <1>3, CopyCases

LEMMA AimWorked == ASSUME FilesInv, NEW w \in Workers, Aim(w) PROVE Worked(w)
<1> DEFINE j == job[w]
           real == Target(j.path, j.dst)
<1>1. j \in JobType /\ j.path # <<>> /\ j.pc = "aim" /\ j.op = "move" /\ IsTree(fs')
  BY DutyOf DEF FilesInv, Aim, In
<1>7. "rename" \in DOMAIN Duty \ {"find", "command"} /\ "move" \in Duty["rename"] BY DEF Duty
<1>2. CASE Step(w, "rename") BY <1>1, <1>2, <1>7, StepWorked
<1>3. CASE Result(w, "ok") BY <1>1, <1>3, ResultWorked DEF Results
<1>4. CASE Raise(w) BY <1>1, <1>4, RaiseWorked
<1>5. CASE real \in Places /\ job' = [job EXCEPT ![w].dst = real, ![w].pc = "rename"]
  <2> DEFINE r == [j EXCEPT !.dst = real, !.pc = "rename"]
  <2> HIDE DEF real
  <2>1. r \in JobType BY <1>1, <1>5 DEF JobType
  <2>2. r.pc = "rename" /\ r.path = j.path /\ r.op = "move" BY <1>1 DEF JobType
  <2>3. job' = [job EXCEPT ![w] = r] BY <1>5 DEF FilesInv
  <2> HIDE DEF r
  <2>4. JobOK(r) BY <1>1, <1>7, <2>1, <2>2 DEF JobOK
  <2>. QED BY <1>1, <2>2, <2>3, <2>4, OneJob DEF Worked
<1>6. \/ Step(w, "rename") \/ Result(w, "ok") \/ Raise(w)
      \/ real \in Places /\ job' = [job EXCEPT ![w].dst = real, ![w].pc = "rename"]
  <2> HIDE DEF real
  <2>1. CASE ~IsDir(j.dst) BY <2>1 DEF Aim
  <2>2. CASE IsDir(j.dst) /\ j.dst = j.path BY <2>2 DEF Aim
  <2>3. CASE IsDir(j.dst) /\ j.dst # j.path /\ real \in Places /\ fs[real] = "none"
    BY <2>3 DEF Aim, real
  <2>4. CASE IsDir(j.dst) /\ j.dst # j.path /\ ~(real \in Places /\ fs[real] = "none")
    BY <2>4 DEF Aim, real
  <2>. QED BY <2>1, <2>2, <2>3, <2>4
<1>. QED BY <1>2, <1>3, <1>4, <1>5, <1>6

LEMMA RenameWorked == ASSUME FilesInv, NEW w \in Workers, Rename(w) PROVE Worked(w)
<1> DEFINE j == job[w]
<1>1. /\ j.path \in Places /\ j.dst \in Places /\ j.path # <<>> /\ j.pc = "rename" /\ IsTree(fs)
      /\ j.op = "move"
  BY DutyOf DEF FilesInv, JobType, Rename, In
<1>2. CASE CanRename(j.path, j.dst) /\ fs' = Moved(j.path, j.dst) /\ Result(w, "ok")
  <2>1. IsTree(fs') BY <1>1, <1>2, MovedTree
  <2>. QED BY <1>1, <1>2, <2>1, ResultWorked DEF Results
<1>3. CASE UNCHANGED fs /\ (Raise(w) \/ \E pc \in {"copyfile", "copytree"} : Step(w, pc))
  <2>2. /\ "move" \in Duty["copyfile"] /\ "move" \in Duty["copytree"]
        /\ {"copyfile", "copytree"} \subseteq DOMAIN Duty \ {"find", "command"}
    BY DEF Duty
  <2>. QED BY <1>1, <1>3, <2>2, RaiseWorked, StepWorked
<1>. QED BY <1>2, <1>3 DEF Rename

LEMMA FileStepWorked == ASSUME FilesInv, NEW w \in Workers, FileStep(w) PROVE Worked(w)
<1>1. CASE Find(w) \/ Command(w)
  BY <1>1, ResultWorked DEF Find, Command, In, FilesInv
<1>. QED BY <1>1, CheckWorked, ParentWorked, MakeWorked, DiscardWorked, CopyWorked, AimWorked,
            RenameWorked DEF FileStep

--------------------------------------------------------------------------------
(* Paths that are related, and where a step changes the tree: at, below or     *)
(* above a path of its request.                                                *)
LEMMA PrefixTrans ==
    ASSUME NEW p \in Places, NEW q \in Places, NEW r \in Places
    PROVE  /\ IsPrefix(p, q) /\ IsPrefix(q, r) => IsPrefix(p, r)
           /\ IsPrefix(p, r) /\ IsPrefix(q, r) => Related(p, q)
<1>1. \A x, y \in Places :
         IsPrefix(x, y) <=> Len(x) <= Len(y) /\ \A i \in 1 .. Len(x) : x[i] = y[i]
  BY PlaceLen, PrefixPlace
<1>2. Len(p) \in 0 .. 2 /\ Len(q) \in 0 .. 2 /\ Len(r) \in 0 .. 2 BY PlaceLen
<1>3. IsPrefix(p, q) /\ IsPrefix(q, r) => IsPrefix(p, r) BY <1>1, <1>2
<1>4. ASSUME IsPrefix(p, r), IsPrefix(q, r) PROVE Related(p, q)
  <2>1. CASE Len(p) <= Len(q)
    <3>1. \A i \in 1 .. Len(p) : p[i] = q[i] BY <1>1, <1>2, <1>4, <2>1
    <3>. QED BY <1>1, <2>1, <3>1 DEF Related
  <2>2. CASE Len(q) <= Len(p)
    <3>1. \A i \in 1 .. Len(q) : q[i] = p[i] BY <1>1, <1>2, <1>4, <2>2
    <3>. QED BY <1>1, <2>2, <3>1 DEF Related
  <2>. QED BY <1>2, <2>1, <2>2
<1>. QED BY <1>3, <1>4

LEMMA RelatedBelow ==
    ASSUME NEW p \in Places, NEW q \in Places, NEW r \in Places, IsPrefix(p, q), Related(q, r)
    PROVE  Related(p, r)
BY PrefixTrans DEF Related

LEMMA OntoBelow ==
    ASSUME NEW src \in Places, src # <<>>, NEW to \in Places, NEW i \in Places, IsPrefix(src, i),
           Onto(i, src, to) \in Places
    PROVE  IsPrefix(to, Onto(i, src, to))
<1>1. CASE i = src
  <2>1. Onto(i, src, to) = to BY <1>1, OntoSelf, PlaceLen
  <2>. QED BY <2>1, PrefixUp
<1>2. CASE i # src BY <1>2, OntoChild
<1>. QED BY <1>1, <1>2

LEMMA UpPrefix ==
    ASSUME NEW p \in Places
    PROVE  Up(p) \in Places /\ \A q \in Places : IsPrefix(q, Up(p)) => IsPrefix(q, p)
<1>1. Up(p) \in Places BY RootPlace, UpPlace
<1>2. IsPrefix(Up(p), p) BY PrefixUp
<1>. QED BY <1>1, <1>2, PrefixTrans

(* A path with one name more. *)
LEMMA ExtendPlace ==
    ASSUME NEW p \in Places, NEW x, Append(p, x) \in Places
    PROVE  Append(p, x) # <<>> /\ Up(Append(p, x)) = p /\ IsPrefix(p, Append(p, x))
<1> DEFINE a == Append(p, x)
<1>1. p \in Seq(Names) /\ Len(p) \in 0 .. 2 BY PlaceLen
<1>2. p \in Seq(Names \cup {x}) BY <1>1, SeqMonotonic
<1>3. Len(a) = Len(p) + 1 /\ \A i \in 1 .. Len(p) : a[i] = p[i]
  BY <1>2, AppendProperties
<1>4. a \in Places OBVIOUS
<1> HIDE DEF a
<1>5. a # <<>> BY <1>1, <1>3, <1>4, PlaceLen
<1>6. Up(a) \in Places /\ Len(Up(a)) = Len(a) - 1 /\ \A i \in 1 .. Len(a) - 1 : Up(a)[i] = a[i]
  BY <1>4, <1>5, UpPlace
<1>7. Len(a) - 1 = Len(p) BY <1>1, <1>3
<1>8. Up(a) = p BY <1>3, <1>6, <1>7, SamePlace
<1>9. IsPrefix(p, a) BY <1>4, <1>5, <1>8, PrefixUp
<1>. QED BY <1>5, <1>8, <1>9 DEF a

Near(j, q) == Related(j.path, q) \/ Related(j.dst, q)

LEMMA TargetPlace ==
    ASSUME NEW src \in Places, NEW dst \in Places, Target(src, dst) \in Places
    PROVE  /\ IsPrefix(dst, Target(src, dst))
           /\ \A q \in Places : IsPrefix(Target(src, dst), q) => IsPrefix(dst, q)
           /\ \A q \in Places : IsPrefix(q, Up(Target(src, dst))) => IsPrefix(q, dst)
<1>1. CASE Target(src, dst) = dst BY <1>1, PrefixUp, UpPrefix
<1>2. CASE Target(src, dst) = Append(dst, Last(src))
  <2>1. IsPrefix(dst, Target(src, dst)) /\ Up(Target(src, dst)) = dst BY <1>2, ExtendPlace
  <2>. QED BY <2>1, PrefixTrans
<1>. QED BY <1>1, <1>2 DEF Target

LEMMA CopyValue ==
    ASSUME IsTree(fs), NEW src \in Places, src # <<>>, NEW to \in Seq(Names),
           NEW d \in Sent(src, to), d # {}, NEW cut \in SUBSET {i \in d : IsFile(i)}
    PROVE  /\ \A i \in d : AfterCopy(src, to, d, cut)[Onto(i, src, to)] =
                               IF i \in cut THEN "torn" ELSE fs[i]
           /\ \A q \in Places : (~\E i \in d : q = Onto(i, src, to)) =>
                  AfterCopy(src, to, d, cut)[q] = IF IsPrefix(q, Up(to)) THEN "dir" ELSE fs[q]
<1> DEFINE o(i) == Onto(i, src, to)
<1>1. /\ \A i, j \in d : o(i) = o(j) => i = j
      /\ \A i \in d : o(i) \in Places
  BY CopyPlaces
<1>2. ASSUME NEW i \in d PROVE AfterCopy(src, to, d, cut)[o(i)] = IF i \in cut THEN "torn" ELSE fs[i]
  <2>1. (CHOOSE j \in d : o(i) = o(j)) = i BY <1>1
  <2>. QED BY <1>1, <2>1 DEF AfterCopy
<1>. QED BY <1>2 DEF AfterCopy

LEMMA CopyNone ==
    ASSUME IsTree(fs), NEW src, NEW to, NEW cut
    PROVE  AfterCopy(src, to, {}, cut) = fs
<1> DEFINE t == AfterCopy(src, to, {}, cut)
<1>1. \A q \in Places : t[q] = fs[q] BY DEF AfterCopy
<1>2. t = [q \in Places |-> t[q]] BY DEF AfterCopy
<1>3. fs = [q \in Places |-> fs[q]] BY TreeFacts
<1>. QED BY <1>1, <1>2, <1>3

LEMMA StepNear ==
    ASSUME FilesInv, NEW w \in Workers, FileStep(w), NEW q \in Places, fs'[q] # fs[q]
    PROVE  Near(job[w], q) /\ job[w].op \notin Reading
<1> DEFINE j == job[w]
<1>1. j.path \in Places /\ j.dst \in Places /\ IsTree(fs) BY DutyOf DEF JobType, FilesInv
<1>2. CASE Parent(w)
  <2>1. IsPrefix(q, Up(j.dst)) BY <1>2 DEF Parent
  <2>2. IsPrefix(q, j.dst) BY <1>1, <2>1, UpPrefix
  <2>3. j.op \notin Reading BY <1>2, DutyOf DEF Parent, In, AfterParent, Reading
  <2>. QED BY <2>2, <2>3 DEF Near, Related
<1>3. CASE Make(w)
  <2>1. q = j.path BY <1>1, <1>3, TreeFacts DEF Make
  <2>2. j.op \notin Reading BY <1>3, DutyOf DEF Make, In, Reading
  <2>. QED BY <1>1, <2>1, <2>2, PrefixUp DEF Near, Related
<1>4. CASE Discard(w)
  <2>1. IsPrefix(j.path, q) BY <1>4 DEF Discard, Items
  <2>2. j.op \notin Reading BY <1>4, DutyOf DEF Discard, Reading
  <2>. QED BY <2>1, <2>2 DEF Near, Related
<1>5. CASE Copy(w)
  <2>1. /\ j.path # <<>> /\ j.op \notin Reading /\ GoesTo(w) \in Seq(Names)
    BY <1>5, DutyOf, CopyCases DEF Copy, Reading
  <2>2. PICK d, cut : CopyDone(w, GoesTo(w), d, cut) BY <1>5, CopyCases
  <2>3. d # {} BY <1>1, <2>2, CopyNone DEF CopyDone
  <2>4. GoesTo(w) \in Places BY <1>1, <2>1, <2>2, <2>3, CopyPlaces DEF CopyDone
  <2>5. IsPrefix(GoesTo(w), q) \/ IsPrefix(q, Up(GoesTo(w)))
    <3>1. CASE \E i \in d : q = Onto(i, j.path, GoesTo(w))
      BY <1>1, <2>1, <2>2, <2>3, <3>1, CopyPlaces DEF CopyDone
    <3>2. CASE ~\E i \in d : q = Onto(i, j.path, GoesTo(w))
      BY <1>1, <2>1, <2>2, <2>3, <3>2, CopyValue DEF CopyDone
    <3>. QED BY <3>1, <3>2
  <2>6. IsPrefix(j.dst, q) \/ IsPrefix(q, j.dst)
    <3>1. CASE In(w, "copytree") BY <1>1, <2>5, <3>1, UpPrefix DEF GoesTo
    <3>2. CASE ~In(w, "copytree") BY <1>1, <2>4, <2>5, <3>2, TargetPlace DEF GoesTo
    <3>. QED BY <3>1, <3>2
  <2>. QED BY <2>1, <2>6 DEF Near, Related
<1>6. CASE Rename(w)
  <2>1. fs' = Moved(j.path, j.dst) BY <1>6 DEF Rename
  <2>2. IsPrefix(j.path, q) \/ IsPrefix(j.dst, q) BY <2>1 DEF Moved
  <2>3. j.op \notin Reading BY <1>6, DutyOf DEF Rename, In, Reading
  <2>. QED BY <2>2, <2>3 DEF Near, Related
<1>7. ~(Check(w) \/ Aim(w) \/ Find(w) \/ Command(w)) BY DEF Check, Aim, Find, Command
<1>. QED BY <1>2, <1>3, <1>4, <1>5, <1>6, <1>7 DEF FileStep

--------------------------------------------------------------------------------
(* What `shared` is for: an action that is not shared has its paths to itself. *)
(* Whoever starts on related paths while another is at work marks both.        *)
Apt(j, k) == {j.op, k.op} \cap Reading = {} /\ ~(j.shared /\ k.shared) => ~Meet(j, k)
Apart == \A u, w \in Workers : u # w /\ Acting(u) /\ Acting(w) => Apt(job[u], job[w])

LEMMA MeetNear == ASSUME NEW j, NEW k PROVE Meet(j, k) <=> Near(j, k.path) \/ Near(j, k.dst)
BY DEF Meet, Near, Related

LEMMA AptSymmetric == ASSUME NEW j, NEW k, Apt(j, k) PROVE Apt(k, j)
<1>1. Meet(k, j) => Meet(j, k) BY DEF Meet, Related
<1>. QED BY <1>1 DEF Apt

LEMMA ResultPc ==
    ASSUME FilesInv, NEW w \in Workers, NEW r \in Results, Result(w, r)
    PROVE  job'[w].pc \in Results
BY DEF Result, Idler, FilesInv

LEMMA RaisePc ==
    ASSUME FilesInv, NEW w \in Workers, Raise(w)
    PROVE  job'[w].pc \in Results /\ job'[w].pc = "raised"
<1>1. job'[w].pc = "raised" BY DEF Raise, Result, Idler, FilesInv
<1>. QED BY <1>1 DEF Results

LEMMA StepPc ==
    ASSUME FilesInv, NEW w \in Workers, NEW pc, Step(w, pc)
    PROVE  /\ job'[w].pc = pc /\ job'[w].op = job[w].op /\ job'[w].path = job[w].path
           /\ job'[w].dst = job[w].dst /\ job'[w].shared = job[w].shared
BY DEF Step, FilesInv, JobType

LEMMA AimCases ==
    ASSUME FilesInv, NEW w \in Workers, Aim(w)
    PROVE  LET j == job[w]  real == Target(j.path, j.dst) IN
           /\ fs' = fs /\ j.op = "move"
           /\ \/ ~IsDir(j.dst) /\ Step(w, "rename")
              \/ IsDir(j.dst) /\ j.dst = j.path /\ Result(w, "ok")
              \/ /\ IsDir(j.dst) /\ real \in Places /\ fs[real] = "none" /\ IsPrefix(j.dst, real)
                 /\ job'[w] = [j EXCEPT !.dst = real, !.pc = "rename"]
                 /\ job'[w].dst = real /\ job'[w].pc = "rename" /\ job'[w].op = j.op
                 /\ job'[w].path = j.path /\ job'[w].shared = j.shared
              \/ Raise(w)
<1> DEFINE j == job[w]
           real == Target(j.path, j.dst)
<1>1. fs' = fs /\ j.op = "move" /\ j \in JobType BY DutyOf DEF Aim, In
<1>2. CASE ~IsDir(j.dst) BY <1>1, <1>2 DEF Aim
<1>3. CASE IsDir(j.dst) /\ j.dst = j.path BY <1>1, <1>3 DEF Aim
<1>4. CASE IsDir(j.dst) /\ j.dst # j.path /\ real \in Places /\ fs[real] = "none"
  <2>1. job' = [job EXCEPT ![w].dst = real, ![w].pc = "rename"] BY <1>4 DEF Aim
  <2>2. IsPrefix(j.dst, real) BY <1>1, <1>4, TargetPlace DEF JobType
  <2> HIDE DEF real
  <2>3. job'[w] = [j EXCEPT !.dst = real, !.pc = "rename"] BY <2>1 DEF FilesInv
  <2>4. /\ job'[w].dst = real /\ job'[w].pc = "rename" /\ job'[w].op = j.op
        /\ job'[w].path = j.path /\ job'[w].shared = j.shared
    BY <1>1, <2>3 DEF JobType
  <2>. QED BY <1>1, <1>4, <2>2, <2>3, <2>4 DEF real
<1>5. CASE IsDir(j.dst) /\ j.dst # j.path /\ ~(real \in Places /\ fs[real] = "none")
  <2>1. Raise(w)
    <3> HIDE DEF real
    <3>. QED BY <1>5 DEF Aim, real
  <2>. QED BY <1>1, <2>1
<1>. QED BY <1>2, <1>3, <1>4, <1>5

(* A thread that goes on is still at the same request, with at most its second *)
(* path extended.                                                              *)
LEMMA StepSame ==
    ASSUME FilesInv, NEW w \in Workers, FileStep(w), job'[w].pc \notin Results
    PROVE  /\ job'[w].op = job[w].op /\ job'[w].path = job[w].path
           /\ job'[w].shared = job[w].shared
           /\ job'[w].dst \in Places /\ IsPrefix(job[w].dst, job'[w].dst)
<1> DEFINE j == job[w]
<1>1. j.dst \in Places BY DutyOf DEF JobType
<1>2. ASSUME NEW pc, Step(w, pc)
      PROVE  /\ job'[w].op = j.op /\ job'[w].path = j.path /\ job'[w].shared = j.shared
             /\ job'[w].dst \in Places /\ IsPrefix(j.dst, job'[w].dst)
  BY <1>1, <1>2, StepPc, PrefixUp
<1>3. \A r \in Results : ~Result(w, r) BY ResultPc
<1>4. ~Raise(w) BY RaisePc
<1>5. \/ \E pc : Step(w, pc)
      \/ Aim(w)
  <2>1. CASE Check(w)
    <3>1. Result(w, "refused") \/ \E pc : Step(w, pc) BY <2>1 DEF Check
    <3>. QED BY <1>3, <3>1 DEF Results
  <2>2. CASE Parent(w) BY <1>4, <2>2 DEF Parent
  <2>3. CASE Make(w) BY <1>3, <1>4, <2>3 DEF Make, Results
  <2>4. CASE Discard(w)
    <3>1. \E gone : Result(w, Gone(j.path, gone)) BY <2>4 DEF Discard
    <3>2. \A gone : Gone(j.path, gone) \in Results BY DEF Gone, Results
    <3>. QED BY <1>3, <3>1, <3>2
  <2>5. CASE Copy(w) BY <1>3, <1>4, <2>5, CopyCases DEF CopyDone, Results
  <2>6. CASE Rename(w)
    <3>1. Result(w, "ok") \/ Raise(w) \/ \E pc : Step(w, pc) BY <2>6 DEF Rename
    <3>. QED BY <1>3, <1>4, <3>1 DEF Results
  <2>7. ~Find(w) /\ ~Command(w) BY <1>3 DEF Find, Command
  <2>. QED BY <2>1, <2>2, <2>3, <2>4, <2>5, <2>6, <2>7 DEF FileStep
<1>6. CASE Aim(w)
  <2>1. \/ Step(w, "rename")
        \/ /\ job'[w].dst \in Places /\ IsPrefix(j.dst, job'[w].dst)
           /\ job'[w].op = j.op /\ job'[w].path = j.path /\ job'[w].shared = j.shared
    BY <1>3, <1>4, <1>6, AimCases DEF Results
  <2>. QED BY <1>2, <2>1
<1>. QED BY <1>2, <1>5, <1>6

LEMMA StepApart ==
    ASSUME FilesInv, Apart, NEW w \in Workers, FileStep(w)
    PROVE  Apart'
<1>1. /\ \A u \in Workers : u # w => job'[u] = job[u]
      /\ job[w].pc # "free"
  BY FileStepWorked DEF Worked
<1>2. Acting(w)
  BY DEF FileStep, Check, Parent, Make, Discard, Copy, Aim, Rename, Find, Command, In, Acting, Results
<1>3. ASSUME NEW u \in Workers, u # w, Acting(u), job'[w].pc \notin Results
      PROVE  Apt(job'[w], job[u])
  <2>. SUFFICES ASSUME {job'[w].op, job[u].op} \cap Reading = {}, ~(job'[w].shared /\ job[u].shared),
                       Meet(job'[w], job[u])
                PROVE  FALSE
       BY DEF Apt
  <2>1. /\ job'[w].op = job[w].op /\ job'[w].path = job[w].path /\ job'[w].shared = job[w].shared
        /\ job'[w].dst \in Places /\ IsPrefix(job[w].dst, job'[w].dst)
    BY <1>3, StepSame
  <2>2. Apt(job[w], job[u]) BY <1>2, <1>3 DEF Apart
  <2>3. ~Meet(job[w], job[u]) BY <2>1, <2>2 DEF Apt
  <2>4. PICK q \in {job[u].path, job[u].dst} : Near(job'[w], q) BY MeetNear
  <2>5. q \in Places /\ job[w].dst \in Places BY DutyOf DEF JobType
  <2>6. ~Near(job[w], q) BY <2>3, <2>4, MeetNear
  <2>7. Related(job'[w].dst, q) BY <2>1, <2>4, <2>6 DEF Near
  <2>8. Related(job[w].dst, q) BY <2>1, <2>5, <2>7, RelatedBelow
  <2>. QED BY <2>6, <2>8 DEF Near
<1>4. ASSUME NEW u \in Workers, NEW v \in Workers, u # v,
             job'[u].pc \notin Results \cup {"free"}, job'[v].pc \notin Results \cup {"free"}
      PROVE  Apt(job'[u], job'[v])
  <2>1. CASE u = w BY <1>1, <1>3, <1>4, <2>1 DEF Acting
  <2>2. CASE v = w
    <3>1. Apt(job'[v], job'[u]) BY <1>1, <1>3, <1>4, <2>2 DEF Acting
    <3>. QED BY <3>1, AptSymmetric
  <2>3. CASE u # w /\ v # w BY <1>1, <1>4, <2>3 DEF Apart, Acting
  <2>. QED BY <2>1, <2>2, <2>3
<1>. QED BY <1>4 DEF Apart, Acting

LEMMA SubmitApart ==
    ASSUME FilesInv, Apart, NEW w \in Workers, NEW r, Submit(w, r), r.op \in DOMAIN Entry
    PROVE  Apart'
<1> DEFINE met(u) == Acting(u) /\ {job[u].op, r.op} \cap Reading = {} /\ Meet(job[u], r)
           new == [pc |-> Entry[r.op], op |-> r.op, path |-> r.path, dst |-> r.dst,
                   shared |-> \E o \in Workers : met(o)]
           old(u) == [job[u] EXCEPT !.shared = @ \/ met(u)]
<1>1. \A u \in Workers : job'[u] = IF u = w THEN new ELSE old(u) BY DEF Submit
<1>2. \A u \in Workers : job[u] \in JobType BY DEF FilesInv
<1>3. ASSUME NEW u \in Workers
      PROVE  /\ old(u).pc = job[u].pc /\ old(u).op = job[u].op /\ old(u).path = job[u].path
             /\ old(u).dst = job[u].dst /\ old(u).shared = (job[u].shared \/ met(u))
  <2>1. job[u] \in JobType BY <1>2
  <2> HIDE DEF met
  <2>. QED BY <2>1 DEF JobType
<1>4. /\ new.op = r.op /\ new.path = r.path /\ new.dst = r.dst
      /\ new.shared = \E o \in Workers : met(o)
  OBVIOUS
<1> HIDE DEF old, new
<1>5. ASSUME NEW u \in Workers, u # w, job[u].pc \notin Results \cup {"free"}
      PROVE  Apt(old(u), new)
  <2>. SUFFICES ASSUME {old(u).op, new.op} \cap Reading = {}, ~(old(u).shared /\ new.shared),
                       Meet(old(u), new)
                PROVE  FALSE
       BY DEF Apt
  <2>1. Meet(job[u], r) BY <1>3, <1>4 DEF Meet
  <2>2. met(u) BY <1>3, <1>4, <1>5, <2>1 DEF Acting
  <2> HIDE DEF met
  <2>. QED BY <1>3, <1>4, <2>2
<1> HIDE DEF met
<1>6. ASSUME NEW u \in Workers, NEW v \in Workers, u # v,
             job'[u].pc \notin Results \cup {"free"}, job'[v].pc \notin Results \cup {"free"}
      PROVE  Apt(job'[u], job'[v])
  <2>1. CASE v = w BY <1>1, <1>3, <1>5, <1>6, <2>1
  <2>2. CASE u = w
    <3>1. Apt(old(v), new) BY <1>1, <1>3, <1>5, <1>6, <2>2
    <3>. QED BY <1>1, <1>6, <2>2, <3>1, AptSymmetric
  <2>3. CASE u # w /\ v # w
    <3>1. Apt(job[u], job[v]) BY <1>1, <1>3, <1>6, <2>3 DEF Apart, Acting
    <3>2. Meet(old(u), old(v)) <=> Meet(job[u], job[v]) BY <1>3 DEF Meet
    <3>3. Apt(old(u), old(v)) BY <1>3, <3>1, <3>2 DEF Apt
    <3>. QED BY <1>1, <2>3, <3>3
  <2>. QED BY <2>1, <2>2, <2>3
<1>. QED BY <1>6 DEF Apart, Acting

--------------------------------------------------------------------------------
(* A move by copy and delete: what it is about to remove has arrived, if       *)
(* nobody else works on its paths.                                             *)
Moving(j) ==
    j.op = "move" =>
       /\ j.pc = "copytree" => ~IsPrefix(j.path, j.dst)
       /\ ~j.shared /\ j.pc \in {"rename", "copyfile"} => ~IsDir(j.dst)
       /\ ~j.shared /\ j.pc \in {"rmtree", "unlink"} =>
             /\ ~Related(j.path, j.dst)
             /\ \A i \in Items(j.path) : /\ Onto(i, j.path, j.dst) \in Places
                                         /\ fs[Onto(i, j.path, j.dst)] = fs[i]
MovesOK == \A w \in Workers : Moving(job[w])

LEMMA AboveIsDir ==
    ASSUME IsTree(fs), NEW p \in Places, NEW q \in Places, IsPrefix(p, q), fs[q] # "none"
    PROVE  p = q \/ fs[p] = "dir"
<1>1. CASE p = <<>> BY <1>1, TreeFacts
<1>2. CASE p # <<>> /\ p # q
  <2>1. Up(q) = p BY <1>2, ChildOnly
  <2>. QED BY <2>1, TreeFacts
<1>. QED BY <1>1, <1>2

(* While somebody else does a step, what is at and below the paths of an       *)
(* action that is not shared stays as it is.                                   *)
LEMMA OthersStay ==
    ASSUME FilesInv, Apart, NEW w \in Workers, FileStep(w), NEW v \in Workers, v # w, Acting(v),
           ~job[v].shared, job[v].op \notin Reading, NEW q \in Places,
           IsPrefix(job[v].path, q) \/ IsPrefix(job[v].dst, q)
    PROVE  fs'[q] = fs[q]
<1>. SUFFICES ASSUME fs'[q] # fs[q] PROVE FALSE
     OBVIOUS
<1>1. Near(job[w], q) /\ job[w].op \notin Reading BY StepNear
<1>2. Acting(w)
  BY DEF FileStep, Check, Parent, Make, Discard, Copy, Aim, Rename, Find, Command, In, Acting, Results
<1>3. ~Meet(job[v], job[w]) BY <1>1, <1>2 DEF Apart, Apt
<1>4. /\ job[v].path \in Places /\ job[v].dst \in Places
      /\ job[w].path \in Places /\ job[w].dst \in Places
  BY DutyOf DEF JobType
<1>5. PICK p \in {job[v].path, job[v].dst} : IsPrefix(p, q) OBVIOUS
<1>6. PICK r \in {job[w].path, job[w].dst} : Related(q, r) BY <1>1 DEF Near, Related
<1>7. Related(p, r) BY <1>4, <1>5, <1>6, RelatedBelow
<1>. QED BY <1>3, <1>7 DEF Meet

LEMMA OthersMove ==
    ASSUME FilesInv, Apart, MovesOK, NEW w \in Workers, FileStep(w), NEW v \in Workers, v # w
    PROVE  Moving(job[v])'
<1> DEFINE j == job[v]
<1>1. job'[v] = j BY FileStepWorked DEF Worked
<1>2. Moving(j) BY DEF MovesOK
<1>3. j.path \in Places /\ j.dst \in Places BY DutyOf DEF JobType
<1>4. ASSUME j.op = "move", ~j.shared, j.pc \in {"rename", "copyfile", "rmtree", "unlink"}
      PROVE  /\ \A q \in Places : IsPrefix(j.path, q) \/ IsPrefix(j.dst, q) => fs'[q] = fs[q]
             /\ j.path # <<>>
  <2>1. Acting(v) /\ j.op \notin Reading BY <1>4 DEF Acting, Results, Reading
  <2>. QED BY <1>4, <2>1, OthersStay, DutyOf
<1>5. ASSUME j.op = "move", ~j.shared, j.pc \in {"rename", "copyfile"}
      PROVE  fs'[j.dst] # "dir"
  <2>1. fs'[j.dst] = fs[j.dst] BY <1>3, <1>4, <1>5, PrefixUp
  <2>. QED BY <1>2, <1>5, <2>1 DEF Moving, IsDir
<1>6. ASSUME j.op = "move", ~j.shared, j.pc \in {"rmtree", "unlink"},
             NEW i \in Places, IsPrefix(j.path, i), fs'[i] # "none"
      PROVE  /\ Onto(i, j.path, j.dst) \in Places
             /\ fs'[Onto(i, j.path, j.dst)] = fs'[i]
  <2>1. fs'[i] = fs[i] BY <1>4, <1>6
  <2>2. i \in Items(j.path) BY <1>6, <2>1 DEF Items
  <2>3. Onto(i, j.path, j.dst) \in Places /\ fs[Onto(i, j.path, j.dst)] = fs[i]
    BY <1>2, <1>6, <2>2 DEF Moving
  <2>4. IsPrefix(j.dst, Onto(i, j.path, j.dst)) BY <1>3, <1>4, <1>6, <2>3, OntoBelow
  <2>. QED BY <1>4, <1>6, <2>1, <2>3, <2>4
<1> HIDE DEF j
<1>. QED BY <1>1, <1>2, <1>5, <1>6 DEF Moving, IsDir, Items

(* The copy of a move. *)
LEMMA CopiedAway ==
    ASSUME FilesInv, MovesOK, NEW w \in Workers, Copy(w), job[w].op = "move", ~job[w].shared,
           Begun(w), NEW d, NEW cut, CopyDone(w, GoesTo(w), d, cut),
           Whole(Items(job[w].path), d, cut)
    PROVE  LET j == job[w] IN
           /\ ~Related(j.path, j.dst)
           /\ \A i \in Places : IsPrefix(j.path, i) /\ fs'[i] # "none" =>
                  /\ Onto(i, j.path, j.dst) \in Places
                  /\ fs'[Onto(i, j.path, j.dst)] = fs'[i]
<1> DEFINE src == job[w].path
           dst == job[w].dst
<1>1. /\ src \in Places /\ dst \in Places /\ src # <<>> /\ IsTree(fs)
      /\ job[w].pc \in {"copytree", "copyfile"}
  BY DutyOf DEF JobType, FilesInv, Copy
<1>2. Moving(job[w]) BY DEF MovesOK
<1>3. ~IsDir(dst)
  <2>1. CASE In(w, "copytree") BY <2>1 DEF Begun, IsDir
  <2>2. CASE job[w].pc = "copyfile" BY <1>2, <2>2 DEF Moving
  <2>. QED BY <1>1, <2>1, <2>2 DEF In
<1>4. GoesTo(w) = dst BY <1>3 DEF GoesTo, Target
<1>5. d = Items(src) /\ d # {} /\ cut = {} BY DEF Whole
<1>6. fs' = AfterCopy(src, dst, d, cut) /\ d \in Sent(src, dst) BY <1>4 DEF CopyDone
<1>7. dst \in Seq(Names) BY <1>1, PlaceLen
<1>8. cut \in SUBSET {i \in d : IsFile(i)} BY <1>5
<1>9. /\ src \in d /\ Onto(src, src, dst) = dst /\ Holds(src, dst)
      /\ \A i \in d : /\ i \in Places /\ Onto(i, src, dst) \in Places
                      /\ IsPrefix(dst, Onto(i, src, dst))
  BY <1>1, <1>5, <1>6, <1>7, CopyPlaces
<1>10. src # dst /\ fs[src] # "none" BY <1>5, <1>9 DEF Holds, Items
<1>11. ~IsPrefix(dst, src) BY <1>1, <1>3, <1>10, AboveIsDir DEF IsDir
<1>12. ~IsPrefix(src, dst)
  <2>1. CASE In(w, "copytree") BY <1>2, <2>1 DEF Moving, In
  <2>2. CASE ~In(w, "copytree")
    <3>1. IsDir(Up(dst)) /\ ~IsDir(src) BY <2>2 DEF Begun
    <3>. QED BY <1>1, <1>10, <3>1, ChildOnly
  <2>. QED BY <2>1, <2>2
<1>13. ~Related(src, dst) BY <1>11, <1>12 DEF Related
<1>14. \A i \in d : fs'[Onto(i, src, dst)] = fs[i]
  BY <1>1, <1>5, <1>6, <1>7, <1>8, CopyValue
<1>15. ASSUME NEW q \in Places, IsPrefix(src, q) PROVE fs'[q] = fs[q]
  <2>1. ~\E i \in d : q = Onto(i, src, dst) BY <1>1, <1>9, <1>13, <1>15, PrefixTrans
  <2>2. ~IsPrefix(q, Up(dst))
    <3>1. IsPrefix(q, Up(dst)) => IsPrefix(q, dst) BY <1>1, UpPrefix
    <3>. QED BY <1>1, <1>12, <1>15, <3>1, PrefixTrans
  <2>. QED BY <1>1, <1>5, <1>6, <1>7, <1>8, <2>1, <2>2, CopyValue
<1>16. ASSUME NEW i \in Places, IsPrefix(src, i), fs'[i] # "none"
       PROVE  Onto(i, src, dst) \in Places /\ fs'[Onto(i, src, dst)] = fs'[i]
  <2>1. fs'[i] = fs[i] BY <1>15, <1>16
  <2>2. i \in d BY <1>5, <1>16, <2>1 DEF Items
  <2>. QED BY <1>9, <1>14, <2>1, <2>2
<1>. QED BY <1>13, <1>16

LEMMA OwnMove ==
    ASSUME FilesInv, MovesOK, NEW w \in Workers, FileStep(w)
    PROVE  Moving(job[w])'
<1> DEFINE j == job[w]
<1>1. Moving(j) BY DEF MovesOK
<1>2. ASSUME job'[w].pc \in Results \cup {"aim", "make", "parent"} PROVE Moving(job[w])'
  BY <1>2 DEF Moving, Results
<1>3. ASSUME job[w].op # "move", job'[w].pc \notin Results PROVE Moving(job[w])'
  <2>1. job'[w].op # "move" BY <1>3, StepSame
  <2>. QED BY <2>1 DEF Moving
<1>. SUFFICES ASSUME job'[w].pc \notin Results \cup {"aim", "make", "parent"}, job[w].op = "move"
              PROVE  Moving(job[w])'
     BY <1>2, <1>3
<1>4. \A r \in Results : ~Result(w, r) BY ResultPc
<1>5. ~Raise(w) BY RaisePc
<1>6. CASE Check(w)
  <2>1. j.op = "move" => Result(w, "refused") \/ Step(w, "parent")
    BY <1>6 DEF Check, IsDir
  <2>. QED BY <1>4, <2>1, StepPc DEF Results
<1>7. CASE Parent(w)
  <2>1. Step(w, "aim") BY <1>5, <1>7 DEF Parent, AfterParent
  <2>. QED BY <2>1, StepPc
<1>8. CASE Copy(w)
  <2>1. PICK d, cut : Begun(w) /\ CopyDone(w, GoesTo(w), d, cut) BY <1>5, <1>8, CopyCases
  <2>2. /\ Whole(Items(j.path), d, cut)
        /\ \E pc \in {"rmtree", "unlink"} : Step(w, pc)
    BY <1>4, <1>5, <2>1 DEF CopyDone, Results
  <2>3. /\ job'[w].pc \in {"rmtree", "unlink"} /\ job'[w].op = j.op /\ job'[w].path = j.path
        /\ job'[w].dst = j.dst /\ job'[w].shared = j.shared
    BY <2>2, StepPc
  <2>4. CASE j.shared BY <2>3, <2>4 DEF Moving
  <2>5. CASE ~j.shared
    <3>1. /\ ~Related(j.path, j.dst)
          /\ \A i \in Places : IsPrefix(j.path, i) /\ fs'[i] # "none" =>
                 /\ Onto(i, j.path, j.dst) \in Places
                 /\ fs'[Onto(i, j.path, j.dst)] = fs'[i]
      BY <1>8, <2>1, <2>2, <2>5, CopiedAway
    <3> HIDE DEF j
    <3>. QED BY <2>3, <3>1 DEF Moving, Items
  <2>. QED BY <2>4, <2>5
<1>9. CASE Aim(w)
  <2>1. fs' = fs BY <1>9, AimCases
  <2>2. job'[w].pc = "rename" /\ ~IsDir(job'[w].dst)
    <3>1. CASE Step(w, "rename") /\ ~IsDir(j.dst) BY <3>1, StepPc
    <3>2. CASE job'[w].pc = "rename" /\ fs[job'[w].dst] = "none" BY <3>2 DEF IsDir
    <3>. QED BY <1>4, <1>5, <1>9, <3>1, <3>2, AimCases DEF Results
  <2>. QED BY <2>1, <2>2 DEF Moving, IsDir
<1>10. CASE Rename(w)
  <2>1. ~Result(w, "ok") BY <1>4 DEF Results
  <2>2. /\ fs' = fs
        /\ \/ Step(w, "copyfile")
           \/ ~IsPrefix(j.path, j.dst) /\ Step(w, "copytree")
    BY <1>5, <1>10, <2>1 DEF Rename
  <2>3. ~j.shared => ~IsDir(j.dst) BY <1>1, <1>10 DEF Moving, Rename, In
  <2>4. /\ job'[w].op = j.op /\ job'[w].path = j.path
        /\ job'[w].dst = j.dst /\ job'[w].shared = j.shared
        /\ \/ job'[w].pc = "copyfile"
           \/ job'[w].pc = "copytree" /\ ~IsPrefix(j.path, j.dst)
    BY <2>2, StepPc
  <2> HIDE DEF j
  <2>. QED BY <2>2, <2>3, <2>4 DEF Moving, IsDir
<1>11. ~Make(w) BY <1>4, <1>5 DEF Make, Results
<1>12. ~Discard(w)
  <2>1. \A gone : Gone(j.path, gone) \in Results BY DEF Gone, Results
  <2>. QED BY <1>4, <2>1 DEF Discard
<1>13. ~Find(w) /\ ~Command(w) BY <1>4 DEF Find, Command
<1>. QED BY <1>6, <1>7, <1>8, <1>9, <1>10, <1>11, <1>12, <1>13 DEF FileStep

LEMMA SubmitMoves ==
    ASSUME FilesInv, MovesOK, NEW w \in Workers, NEW r, Submit(w, r), r.op \in DOMAIN Entry
    PROVE  MovesOK'
<1>1. fs' = fs /\ job'[w].pc \in {"parent", "check", "find", "command"}
  BY DEF Submit, Entry
<1>2. Moving(job[w])' BY <1>1 DEF Moving
<1>3. ASSUME NEW u \in Workers, u # w PROVE Moving(job[u])'
  <2> DEFINE j == job[u]
             met == Acting(u) /\ {job[u].op, r.op} \cap Reading = {} /\ Meet(job[u], r)
  <2>1. job'[u] = [j EXCEPT !.shared = @ \/ met] BY <1>3 DEF Submit
  <2>2. j \in JobType BY DEF FilesInv
  <2> HIDE DEF met
  <2>3. /\ job'[u].pc = j.pc /\ job'[u].op = j.op /\ job'[u].path = j.path
        /\ job'[u].dst = j.dst /\ (j.shared => job'[u].shared)
    BY <2>1, <2>2 DEF JobType
  <2>4. Moving(j) BY DEF MovesOK
  <2> HIDE DEF j
  <2>. QED BY <1>1, <2>3, <2>4 DEF Moving, IsDir, Items
<1>. QED BY <1>2, <1>3 DEF MovesOK

--------------------------------------------------------------------------------
(* What a step may remove, and what it has done when it answers ok.            *)
LEMMA OntoBack ==
    ASSUME NEW src \in Places, NEW dst \in Places, NEW i \in Places, IsPrefix(src, i),
           Onto(i, src, dst) \in Places
    PROVE  Onto(Onto(i, src, dst), dst, src) = i
<1> DEFINE o == Onto(i, src, dst)
           b == Onto(o, dst, src)
           m == Len(i) - Len(src)
<1>1. /\ src \in Seq(Names) /\ dst \in Seq(Names) /\ i \in Seq(Names) /\ o \in Seq(Names)
      /\ Len(src) \in 0 .. 2 /\ Len(dst) \in 0 .. 2 /\ Len(i) \in 0 .. 2
  BY PlaceLen
<1>2. Len(src) <= Len(i) /\ \A k \in 1 .. Len(src) : src[k] = i[k] BY <1>1, PrefixPlace
<1>3. Len(o) = Len(dst) + m /\ \A k \in 1 .. m : o[Len(dst) + k] = i[Len(src) + k]
  BY <1>1, <1>2, OntoSeq
<1>4. Len(dst) <= Len(o) BY <1>1, <1>2, <1>3
<1> HIDE DEF o
<1>5. /\ b \in Seq(Names) /\ Len(b) = Len(src) + (Len(o) - Len(dst))
      /\ \A k \in 1 .. Len(src) : b[k] = src[k]
      /\ \A k \in 1 .. Len(o) - Len(dst) : b[Len(src) + k] = o[Len(dst) + k]
  BY <1>1, <1>4, OntoSeq
<1> HIDE DEF b
<1>6. Len(o) - Len(dst) = m /\ Len(b) = Len(i) BY <1>1, <1>3, <1>5
<1>7. \A k \in 1 .. m : b[Len(src) + k] = i[Len(src) + k] BY <1>3, <1>5, <1>6
<1>8. ASSUME NEW k \in 1 .. Len(i) PROVE b[k] = i[k]
  <2>1. CASE k <= Len(src) BY <1>1, <1>2, <1>5, <2>1
  <2>2. CASE k > Len(src)
    <3>1. k - Len(src) \in 1 .. m /\ Len(src) + (k - Len(src)) = k BY <1>1, <2>2
    <3>. QED BY <1>7, <3>1
  <2>. QED BY <1>1, <2>1, <2>2
<1>9. b \in Places /\ b = i
  <2>1. b = i BY <1>1, <1>5, <1>6, <1>8, SeqEqual
  <2>. QED BY <2>1
<1>. QED BY <1>9 DEF b, o

LEMMA FileAlone ==
    ASSUME IsTree(fs), NEW p \in Places, ~IsDir(p), NEW i \in Items(p)
    PROVE  i = p
BY AboveIsDir DEF Items, IsDir

LEMMA DiscardKeeps ==
    ASSUME FilesInv, MovesOK, NEW w \in Workers, Discard(w), ~job[w].shared, NEW p \in Places,
           NEW v \in Values, fs[p] = v, \A q \in Places : fs'[q] # v
    PROVE  Asked(job[w], p)
<1> DEFINE j == job[w]
<1>1. /\ j.path \in Places /\ j.dst \in Places /\ j.path # <<>> /\ j.op \in {"delete", "move"}
      /\ j.pc \in {"rmtree", "unlink"}
  BY DutyOf DEF JobType, Discard
<1>2. PICK gone \in SUBSET Items(j.path) : \A q \in Places : fs'[q] = IF q \in gone THEN "none" ELSE fs[q]
  BY DEF Discard
<1>3. p \in Items(j.path) /\ IsPrefix(j.path, p) BY <1>2 DEF Items
<1>4. j.op # "move"
  <2>. SUFFICES ASSUME j.op = "move" PROVE FALSE
       OBVIOUS
  <2> DEFINE q == Onto(p, j.path, j.dst)
  <2>1. ~Related(j.path, j.dst) /\ q \in Places /\ fs[q] = fs[p]
    BY <1>1, <1>3 DEF MovesOK, Moving
  <2>2. IsPrefix(j.dst, q) BY <1>1, <1>3, <2>1, OntoBelow
  <2> HIDE DEF q
  <2>3. q \in gone BY <1>2, <2>1
  <2>4. IsPrefix(j.path, q) BY <2>3 DEF Items
  <2>. QED BY <1>1, <2>1, <2>2, <2>4, PrefixTrans
<1>. QED BY <1>1, <1>3, <1>4 DEF Asked

LEMMA CopyKeeps ==
    ASSUME FilesInv, MovesOK, NEW w \in Workers, Copy(w), ~job[w].shared, NEW p \in Places,
           NEW v \in Values, fs[p] = v, \A q \in Places : fs'[q] # v
    PROVE  Asked(job[w], p)
<1> DEFINE j == job[w]
           to == GoesTo(w)
<1>1. /\ j.path \in Places /\ j.dst \in Places /\ j.path # <<>> /\ j.op \in {"copy", "move"}
      /\ j.pc \in {"copytree", "copyfile"} /\ IsTree(fs) /\ to \in Seq(Names)
  BY DutyOf, CopyCases DEF JobType, Copy, FilesInv
<1>2. v \notin {"none", "dir"} BY FilesAssumption
<1>3. PICK d, cut : Begun(w) /\ CopyDone(w, to, d, cut) BY CopyCases
<1> HIDE DEF to
<1>4. d \in Sent(j.path, to) /\ cut \in SUBSET {i \in d : IsFile(i)} /\ fs' = AfterCopy(j.path, to, d, cut)
  BY <1>3 DEF CopyDone
<1>5. d # {} BY <1>1, <1>4, CopyNone
<1>6. PICK i \in d : p = Onto(i, j.path, to)
  <2>. SUFFICES ASSUME ~\E i \in d : p = Onto(i, j.path, to) PROVE FALSE
       OBVIOUS
  <2>1. IsPrefix(p, Up(to)) BY <1>1, <1>4, <1>5, CopyValue
  <2>2. ~IsFile(p) BY <1>4, <1>5, <2>1 DEF Sent, NoFile
  <2>. QED BY <1>2, <2>2 DEF IsFile
<1>7. i \in Items(j.path) /\ to \in Places /\ IsPrefix(to, p)
  BY <1>1, <1>4, <1>5, <1>6, CopyPlaces DEF Sent
<1>8. CASE j.pc = "copytree"
  <2>1. to = j.dst BY <1>8 DEF to, GoesTo, In
  <2>2. j.op # "move"
    <3>. SUFFICES ASSUME j.op = "move" PROVE FALSE
         OBVIOUS
    <3>1. fs[j.dst] = "none" BY <1>3, <1>8 DEF Begun, In
    <3>. QED BY <1>1, <1>2, <1>7, <2>1, <3>1, AboveIsDir
  <2>. QED BY <1>1, <1>7, <1>8, <2>1, <2>2 DEF Asked
<1>9. CASE j.pc = "copyfile"
  <2>1. to = Target(j.path, j.dst) BY <1>9 DEF to, GoesTo, In
  <2>2. i = j.path
    <3>1. ~IsDir(j.path) BY <1>3, <1>9 DEF Begun, In
    <3>. QED BY <1>1, <1>7, <3>1, FileAlone
  <2>3. p = to BY <1>1, <1>6, <2>2, OntoSelf
  <2>4. j.op = "move" => to = j.dst BY <1>9, <2>1 DEF MovesOK, Moving, Target
  <2>. QED BY <1>1, <1>9, <2>1, <2>3, <2>4 DEF Asked
<1>. QED BY <1>1, <1>8, <1>9

LEMMA RenameKeeps ==
    ASSUME FilesInv, NEW w \in Workers, Rename(w), NEW p \in Places,
           NEW v \in Values, fs[p] = v, \A q \in Places : fs'[q] # v
    PROVE  Asked(job[w], p)
<1> DEFINE src == job[w].path
           dst == job[w].dst
           from(q) == Onto(q, dst, src)
<1>1. src \in Places /\ dst \in Places /\ src # <<>> /\ IsTree(fs) /\ job[w].op = "move"
  BY DutyOf DEF JobType, Rename, In, FilesInv
<1>2. v # "none" BY FilesAssumption
<1>3. CanRename(src, dst) /\ fs' = Moved(src, dst) BY DEF Rename
<1>4. \A q \in Places :
         /\ IsPrefix(dst, q) => fs'[q] = IF from(q) \in Places THEN fs[from(q)] ELSE "none"
         /\ ~IsPrefix(dst, q) => fs'[q] = IF IsPrefix(src, q) THEN "none" ELSE fs[q]
  BY <1>3 DEF Moved
<1>5. IsPrefix(dst, p)
  <2>. SUFFICES ASSUME ~IsPrefix(dst, p) PROVE FALSE
       OBVIOUS
  <2> DEFINE q == Onto(p, src, dst)
  <2>1. IsPrefix(src, p) BY <1>4
  <2>2. p \in Items(src) BY <1>2, <2>1 DEF Items
  <2>3. q \in Places BY <1>3, <2>2 DEF CanRename
  <2>4. IsPrefix(dst, q) /\ from(q) = p BY <1>1, <2>1, <2>3, OntoBelow, OntoBack
  <2> HIDE DEF q, from
  <2>. QED BY <1>4, <2>3, <2>4
<1>6. src # dst
  <2>. SUFFICES ASSUME src = dst PROVE FALSE
       OBVIOUS
  <2>1. from(p) = p BY <1>1, <1>5, OntoId
  <2>. QED BY <1>4, <1>5, <2>1
<1>7. p = dst
  <2>1. p \in Items(dst) BY <1>2, <1>5 DEF Items
  <2>2. fs[dst] # "none" BY <1>1, <1>2, <1>5, AboveIsDir
  <2>3. ~IsDir(dst) \/ Items(dst) = {dst} BY <1>3, <1>6, <2>2 DEF CanRename
  <2>. QED BY <1>1, <2>1, <2>3, FileAlone
<1>. QED BY <1>1, <1>7 DEF Asked

LEMMA StepKeeps ==
    ASSUME FilesInv, MovesOK, NEW w \in Workers, FileStep(w), ~job[w].shared, NEW p \in Places,
           NEW v \in Values, fs[p] = v, \A q \in Places : fs'[q] # v
    PROVE  Asked(job[w], p)
<1>1. v \notin {"none", "dir"} /\ fs'[p] # fs[p] BY FilesAssumption
<1>2. ~Parent(w) BY <1>1 DEF Parent, NoFile, IsFile
<1>3. ~Make(w)
  <2>1. job[w].path \in Places /\ fs \in [Places -> Contents]
    BY DutyOf, TreeFacts DEF JobType, FilesInv
  <2>. QED BY <1>1, <2>1 DEF Make
<1>4. ~(Check(w) \/ Aim(w) \/ Find(w) \/ Command(w)) BY <1>1 DEF Check, Aim, Find, Command
<1>. QED BY <1>2, <1>3, <1>4, DiscardKeeps, CopyKeeps, RenameKeeps DEF FileStep

LEMMA StepChanges == ASSUME FilesInv, NEW w \in Workers, FileStep(w) PROVE job'[w].pc # job[w].pc
<1>1. Acting(w)
  BY DEF FileStep, Check, Parent, Make, Discard, Copy, Aim, Rename, Find, Command, In, Acting, Results
<1>2. ASSUME job'[w].pc \in Results PROVE job'[w].pc # job[w].pc BY <1>1, <1>2 DEF Acting
<1>. SUFFICES ASSUME job'[w].pc \notin Results PROVE job'[w].pc # job[w].pc
     BY <1>2
<1>3. \A r \in Results : ~Result(w, r) BY ResultPc
<1>4. ~Raise(w) BY RaisePc
<1>5. CASE Check(w)
  <2>1. \E pc \in {"rmtree", "copytree", "unlink", "parent"} : Step(w, pc)
    BY <1>3, <1>5 DEF Check, Results
  <2>. QED BY <1>5, <2>1, StepPc DEF Check, In
<1>6. CASE Parent(w)
  <2>1. \E pc \in {"make", "copyfile", "aim"} : Step(w, pc)
    BY <1>4, <1>6, DutyOf DEF Parent, In, AfterParent
  <2>. QED BY <1>6, <2>1, StepPc DEF Parent, In
<1>7. CASE Copy(w)
  <2>1. \E pc \in {"rmtree", "unlink"} : Step(w, pc) BY <1>3, <1>4, <1>7, CopyCases DEF CopyDone, Results
  <2>. QED BY <1>7, <2>1, StepPc DEF Copy
<1>8. CASE Aim(w)
  <2>1. job'[w].pc = "rename" BY <1>3, <1>4, <1>8, AimCases, StepPc DEF Results
  <2>. QED BY <1>8, <2>1 DEF Aim, In
<1>9. CASE Rename(w)
  <2>1. \E pc \in {"copyfile", "copytree"} : Step(w, pc) BY <1>3, <1>4, <1>9 DEF Rename, Results
  <2>. QED BY <1>9, <2>1, StepPc DEF Rename, In
<1>10. ~Make(w) BY <1>3, <1>4 DEF Make, Results
<1>11. ~Discard(w)
  <2>1. \A gone : Gone(job[w].path, gone) \in Results BY DEF Gone, Results
  <2>. QED BY <1>3, <2>1 DEF Discard
<1>12. ~Find(w) /\ ~Command(w) BY <1>3 DEF Find, Command
<1>. QED BY <1>5, <1>6, <1>7, <1>8, <1>9, <1>10, <1>11, <1>12 DEF FileStep

LEMMA DiscardAchieves ==
    ASSUME FilesInv, MovesOK, NEW w \in Workers, Discard(w), ~job[w].shared, job'[w].pc = "ok"
    PROVE  Achieved(fs', job[w])
<1> DEFINE j == job[w]
           p == job[w].path
<1>1. /\ p \in Places /\ j.dst \in Places /\ p # <<>> /\ j.op \in {"delete", "move"}
      /\ j.pc \in {"rmtree", "unlink"}
  BY DutyOf DEF JobType, Discard
<1>2. PICK gone \in SUBSET Items(p) :
         /\ p \in gone => gone = Items(p)
         /\ \A q \in Places : fs'[q] = IF q \in gone THEN "none" ELSE fs[q]
         /\ Result(w, Gone(p, gone))
  BY DEF Discard
<1>3. job'[w].pc = Gone(p, gone) BY <1>2 DEF Result, Idler, FilesInv
<1>4. p \in gone /\ gone = Items(p) BY <1>2, <1>3 DEF Gone
<1>5. fs'[p] = "none" BY <1>1, <1>2, <1>4
<1>6. CASE j.op = "delete" BY <1>5, <1>6 DEF Achieved
<1>7. CASE j.op = "move"
  <2>1. /\ ~Related(p, j.dst)
        /\ \A i \in Items(p) : Onto(i, p, j.dst) \in Places /\ fs[Onto(i, p, j.dst)] = fs[i]
    BY <1>1, <1>7 DEF MovesOK, Moving
  <2>2. ASSUME NEW i \in Items(p) PROVE fs'[Onto(i, p, j.dst)] = fs[i]
    <3> DEFINE o == Onto(i, p, j.dst)
    <3>1. o \in Places /\ fs[o] = fs[i] /\ i \in Places /\ IsPrefix(p, i)
      BY <2>1, <2>2 DEF Items
    <3>2. IsPrefix(j.dst, o) BY <1>1, <3>1, OntoBelow
    <3> HIDE DEF o
    <3>3. o \notin gone
      <4>1. o \in gone => IsPrefix(p, o) BY DEF Items
      <4>. QED BY <1>1, <2>1, <3>1, <3>2, <4>1, PrefixTrans
    <3>4. fs'[o] = fs[i] BY <1>2, <3>1, <3>3
    <3>. QED BY <3>4 DEF o
  <2>3. Items(p) # {} BY <1>4
  <2>. QED BY <1>5, <1>7, <2>1, <2>2, <2>3 DEF Achieved
<1>. QED BY <1>1, <1>6, <1>7

LEMMA CopyAchieves ==
    ASSUME FilesInv, NEW w \in Workers, Copy(w), job'[w].pc = "ok"
    PROVE  Achieved(fs', job[w])
<1> DEFINE j == job[w]
           src == job[w].path
           to == GoesTo(w)
<1>1. /\ src \in Places /\ j.dst \in Places /\ src # <<>> /\ IsTree(fs) /\ to \in Seq(Names)
      /\ j.pc \in {"copytree", "copyfile"}
  BY DutyOf, CopyCases DEF JobType, Copy, FilesInv
<1>2. PICK d, cut : Begun(w) /\ CopyDone(w, to, d, cut)
  <2>1. ~Raise(w) BY RaisePc
  <2>. QED BY <2>1, CopyCases
<1>3. Whole(Items(src), d, cut) /\ j.op = "copy"
  <2>1. ~Raise(w) /\ ~Step(w, "rmtree") /\ ~Step(w, "unlink") BY RaisePc, StepPc
  <2>. QED BY <1>2, <2>1 DEF CopyDone
<1>4. /\ to = IF j.pc = "copyfile" THEN Target(src, j.dst) ELSE j.dst
      /\ j.pc = "copytree" <=> IsDir(src)
  BY <1>1, <1>2 DEF GoesTo, Begun, In
<1> HIDE DEF to
<1>5. d = Items(src) /\ d # {} /\ cut = {} BY <1>3 DEF Whole
<1>6. d \in Sent(src, to) /\ fs' = AfterCopy(src, to, d, cut) BY <1>2 DEF CopyDone
<1>7. cut \in SUBSET {i \in d : IsFile(i)} BY <1>5
<1>8. /\ \A i \in d : fs'[Onto(i, src, to)] = fs[i]
      /\ \A q \in Places : (~\E i \in d : q = Onto(i, src, to)) =>
            fs'[q] = IF IsPrefix(q, Up(to)) THEN "dir" ELSE fs[q]
  BY <1>1, <1>5, <1>6, <1>7, CopyValue
<1>9. to \in Places /\ \A k \in d : k \in Places /\ IsPrefix(src, k) /\ fs[k] # "none"
                                    /\ Holds(k, Onto(k, src, to)) /\ Onto(k, src, to) \in Places
  BY <1>1, <1>5, <1>6, CopyPlaces
<1>10. ASSUME NEW i \in d PROVE fs'[i] = fs[i]
  <2>1. i \in Places /\ IsPrefix(src, i) /\ fs[i] # "none" BY <1>9
  <2>2. CASE ~\E k \in d : i = Onto(k, src, to)
    <3>1. IsPrefix(i, Up(to)) => ~IsFile(i) BY <1>6, <2>1 DEF Sent, NoFile
    <3>. QED BY <1>8, <2>1, <2>2, <3>1 DEF IsFile
  <2>3. ASSUME NEW k \in d, i = Onto(k, src, to) PROVE fs'[i] = fs[i]
    <3>1. fs'[i] = fs[k] /\ Holds(k, i) /\ i # k BY <1>8, <1>9, <2>3 DEF Holds
    <3>2. CASE IsDir(k) BY <2>1, <3>1, <3>2 DEF Holds, IsDir, IsFile
    <3>3. CASE ~IsDir(k)
      <4>1. ~IsDir(i) BY <3>1, <3>3 DEF Holds
      <4>2. IsDir(src) BY <1>1, <1>5, <3>1, FileAlone
      <4>3. k # src /\ i # src BY <3>3, <4>1, <4>2
      <4>4. Up(i) = src BY <1>1, <2>1, <4>3, ChildOnly
      <4>5. Up(i) = to BY <1>1, <1>9, <2>3, <4>3, OntoChild
      <4>6. Onto(k, src, src) = k BY <1>1, <1>9, OntoId
      <4>. QED BY <2>3, <3>1, <4>4, <4>5, <4>6
    <3>. QED BY <3>2, <3>3
  <2>. QED BY <2>2, <2>3
<1>. QED BY <1>3, <1>4, <1>5, <1>8, <1>10 DEF Achieved

LEMMA RenameAchieves ==
    ASSUME FilesInv, NEW w \in Workers, Rename(w), job'[w].pc = "ok"
    PROVE  Achieved(fs', job[w])
<1> DEFINE src == job[w].path
           dst == job[w].dst
<1>1. src \in Places /\ dst \in Places /\ src # <<>> /\ IsTree(fs) /\ job[w].op = "move"
  BY DutyOf DEF JobType, Rename, In, FilesInv
<1>2. CanRename(src, dst) /\ fs' = Moved(src, dst)
  <2>1. ~Raise(w) /\ ~Step(w, "copyfile") /\ ~Step(w, "copytree") BY RaisePc, StepPc
  <2>. QED BY <2>1 DEF Rename
<1>3. ASSUME src # dst
      PROVE  /\ fs'[src] = "none" /\ Items(src) # {}
             /\ \A i \in Items(src) : /\ Onto(i, src, dst) \in Places
                                      /\ fs'[Onto(i, src, dst)] = fs[i]
  <2>1. fs[src] # "none" BY <1>2, <1>3 DEF CanRename, IsFile, IsDir
  <2>2. ~IsPrefix(dst, src)
    <3>. SUFFICES ASSUME IsPrefix(dst, src) PROVE FALSE
         OBVIOUS
    <3>1. IsDir(dst) BY <1>1, <1>3, <2>1, AboveIsDir DEF IsDir
    <3>2. Items(dst) = {dst} BY <1>2, <1>3, <3>1 DEF CanRename, IsDir
    <3>3. src \in Items(dst) BY <1>1, <2>1 DEF Items
    <3>. QED BY <1>3, <3>2, <3>3
  <2>3. IsPrefix(src, src) BY <1>1, PrefixUp
  <2>4. fs'[src] = "none" /\ src \in Items(src)
    BY <1>1, <1>2, <2>1, <2>2, <2>3 DEF Moved, Items
  <2>5. ASSUME NEW i \in Items(src)
        PROVE  Onto(i, src, dst) \in Places /\ fs'[Onto(i, src, dst)] = fs[i]
    <3> DEFINE o == Onto(i, src, dst)
    <3>1. o \in Places BY <1>2, <2>5 DEF CanRename
    <3>2. i \in Places /\ IsPrefix(src, i) BY DEF Items
    <3>3. IsPrefix(dst, o) /\ Onto(o, dst, src) = i BY <1>1, <3>1, <3>2, OntoBelow, OntoBack
    <3> HIDE DEF o
    <3>4. fs'[o] = fs[i] BY <1>2, <3>1, <3>2, <3>3 DEF Moved
    <3>. QED BY <3>1, <3>4 DEF o
  <2>. QED BY <2>4, <2>5
<1>. QED BY <1>1, <1>3 DEF Achieved

LEMMA StepAchieves ==
    ASSUME FilesInv, MovesOK, NEW w \in Workers, FileStep(w), ~job[w].shared, job'[w].pc = "ok"
    PROVE  Achieved(fs', job[w])
<1> DEFINE j == job[w]
<1>1. ~Raise(w) /\ \A pc : Step(w, pc) => pc = "ok" BY RaisePc, StepPc
<1>2. j.path \in Places /\ j.dst \in Places /\ fs \in [Places -> Contents]
  BY DutyOf, TreeFacts DEF JobType, FilesInv
<1>3. ~Check(w)
  <2>1. ~Result(w, "refused") BY DEF Result, Idler, FilesInv
  <2>. QED BY <1>1, <2>1 DEF Check
<1>4. ~Parent(w) BY <1>1, DutyOf DEF Parent, In, AfterParent
<1>5. CASE Make(w)
  <2>1. j.op \in {"create_dir", "create_file"} BY <1>5, DutyOf DEF Make, In
  <2>2. \/ fs[j.path] = "none" /\ fs' = [fs EXCEPT ![j.path] = IF j.op = "create_dir" THEN "dir" ELSE "empty"]
        \/ fs[j.path] # "none" /\ (j.op = "create_dir" => IsDir(j.path)) /\ fs' = fs
    BY <1>1, <1>5 DEF Make
  <2>3. /\ j.op = "create_dir" => fs'[j.path] = "dir"
        /\ fs'[j.path] \notin {"none", "dir"} \/ IsDir(j.path) \/ j.op = "create_dir"
    BY <1>2, <2>2 DEF IsDir
  <2>. QED BY <2>1, <2>3 DEF Achieved
<1>6. CASE Aim(w)
  <2>1. j.op = "move" /\ j.path = j.dst BY <1>1, <1>6, AimCases
  <2>. QED BY <2>1 DEF Achieved
<1>7. CASE Find(w) \/ Command(w)
  <2>1. j.op \in {"find", "command"}
    <3>1. JobOK(j) /\ j.pc \in {"find", "command"} BY <1>7 DEF FilesInv, Find, Command, In
    <3>. QED BY <3>1 DEF JobOK, Duty
  <2>. QED BY <2>1 DEF Achieved
<1>. QED BY <1>3, <1>4, <1>5, <1>6, <1>7, DiscardAchieves, CopyAchieves, RenameAchieves DEF FileStep
================================================================================
