---------------------------- MODULE TreeTaskProofs -----------------------------
(***************************************************************************)
(* Proofs about TreeTask, for every file system, request, interference of  *)
(* an unregistered request, and failure or cancel at any call.             *)
(*                                                                         *)
(* That copying and moving lose nothing is not inductive: a removal needs  *)
(* the copy to be whole, and the copy is the work of a recursion that has  *)
(* seen some entries of some directories.  The invariant says what that    *)
(* recursion owes: a file of the source has its copy, or a call in         *)
(* progress has still to meet it (Pending); and that a file nobody agreed  *)
(* to overwrite stands where no source at work or to come will be put.     *)
(***************************************************************************)
EXTENDS TreeTask, SequenceTheorems, TLAPS

Contents == {"none", "dir", "special", Late} \cup { t[p] : t \in Trees, p \in Paths }

IsTree(t) ==
  /\ t \in [Paths -> Contents]
  /\ \A p, q \in Paths : t[q] # "none" /\ Inside(p, q) /\ p # q => t[p] = "dir"

Frame ==
  [fn : {"copy", "remove"}, from : Paths, to : Paths, open : BOOLEAN,
   todo : SUBSET Paths, seen : SUBSET Paths]
Frames(s) == { s[k] : k \in DOMAIN s }

Active == {"prepare", "pick", "copying", "removing"}

TypeOK ==
  /\ before \in Trees /\ req \in Requests /\ IsTree(fs)
  /\ step \in Active \cup {"request", "over"}
  /\ nth \in Nat \ {0}
  /\ calls \in Seq(Frame)
  /\ cancel \in BOOLEAN /\ misread \in BOOLEAN
  /\ outcome \in {"", "refused", "done", "failed", "canceled"}

\* What the request was admitted on.
Admitted ==
  /\ Len(req.srcs) > 1 => before[req.dst] = "dir"
  /\ \A i \in Sources :
       LET s == req.srcs[i]
           t == Target(i)
       IN /\ s # t /\ before[s] # "none"
          /\ before[s] = "dir" => ~Inside(s, t)
          /\ before[t] # "none" => req.overwrite

PhaseInv ==
  /\ step = "request" => fs = before /\ nth = 1 /\ outcome = ""
  /\ step \in {"request", "prepare", "pick"} => calls = <<>>
  /\ step \in Active /\ req.op # "delete" => Admitted
  /\ step \in {"copying", "removing"} => nth \in Sources
  /\ step = "copying" => req.op # "delete"

\* The calls in progress work inside the source, and copy to its target.
CallsInv ==
  \A c \in Frames(calls) :
    /\ Inside(Source, c.from)
    /\ step = "copying" => c.fn = "copy" /\ c.to = Moved(c.from, Source, Target(nth))
    /\ step = "removing" => c.fn = "remove"
    /\ ~c.open => c.seen = {}

\* A file is not its own directory: a source whose target is below it stays.
StuckInv ==
  /\ step \in Active /\ req.op # "delete" =>
       \A i \in Sources :
         Inside(req.srcs[i], Target(i)) => fs[req.srcs[i]] \notin {"none", "dir"}
  /\ step = "copying" /\ Inside(Source, Target(nth)) =>
       Frames(calls) = {NewCall("copy", Source, Target(nth))}
  /\ step = "removing" /\ req.op # "delete" => ~Inside(Source, Target(nth))

BaseInv == TypeOK /\ PhaseInv /\ CallsInv /\ StuckInv

-------------------------------------------------------------------------------
(* Nothing is lost.                                                        *)

\* A call in progress has still to meet q.
Pending(q) ==
  \E c \in Frames(calls) :
    /\ Inside(c.from, q)
    /\ ~c.open \/ \E e \in c.todo \ c.seen : Inside(e, q)

\* No source from the nth on will stand over q.
Clear(q, n) == \A k \in Sources : k >= n => ~Inside(Target(k), q)

HasCopy(q) ==
  LET m == Moved(q, Source, Target(nth)) IN m \in Paths /\ fs[m] = fs[q]

CopyInv ==
  step = "copying" =>
    \A q \in Paths :
      /\ Inside(Source, q) /\ ~Inside(Target(nth), q)
      /\ IsFile(fs[q]) /\ fs[q] # Late
      => Pending(q) \/ HasCopy(q)

\* What must not be lost.
Kept == { before[p] : p \in { p \in Paths : IsFile(before[p]) /\ ~Overwritable(p) } }

\* Neither the source at work nor one to come will stand over q.
Safe(q) ==
  /\ step \in {"prepare", "pick", "copying"} => Clear(q, nth)
  /\ step = "removing" => Clear(q, nth + 1) /\ ~Inside(Source, q)

KeptInv == \A c \in Kept : \E q \in Paths : fs[q] = c /\ Safe(q)

LossInv == req.op # "delete" /\ OneTargetEach /\ ~misread => CopyInv /\ KeptInv

-------------------------------------------------------------------------------
(* Done means whole.                                                       *)

\* What stood at p is the i-th source's alone.
Own(p, i) == before[p] # "none" /\ \A j \in Sources : Inside(req.srcs[j], p) <=> j = i

\* The i-th source is still to be moved or copied; or all of it was.
Waiting(i) == step \in Active /\ i >= nth /\ (step = "removing" => i > nth)
Served(i)  == step \in Active /\ i <= nth /\ (i = nth => step = "removing")

\* A source whose turn has not come is as it was.
WaitInv == \A i \in Sources : \A p \in Paths : Own(p, i) /\ Waiting(i) => fs[p] = before[p]

\* p has its copy at the target of its source.
Arrived(p, i) ==
  LET m == Moved(p, req.srcs[i], Target(i)) IN m \in Paths /\ fs[m] = before[p]

\* What is copied is at its target, and the rest of it is still to be met.
ThereInv ==
  \A i \in Sources : \A p \in Paths :
    Own(p, i) => /\ Served(i) => Arrived(p, i)
                 /\ step = "copying" /\ i = nth => Pending(p) \/ Arrived(p, i)

\* What is moved or deleted is gone.
GoneInv ==
  /\ step \in Active => \A i \in Sources : i < nth => fs[req.srcs[i]] \in {"none", Late}
  /\ step = "removing" => IF calls = <<>> THEN fs[Source] \in {"none", Late}
                          ELSE calls[1].from = Source

WholeInv ==
  /\ req.op # "delete" /\ Apart /\ ~misread => WaitInv /\ ThereInv
  /\ req.op = "delete" \/ (req.op # "copy" /\ Apart) => GoneInv
  /\ step # "over" => outcome = ""
  /\ DoneIsWhole

-------------------------------------------------------------------------------
(* Paths.                                                                  *)

\* A prefix, name by name.
LEMMA InsideDef ==
  ASSUME NEW p \in Seq(Names), NEW q \in Seq(Names)
  PROVE  Inside(p, q) <=> Len(p) <= Len(q) /\ \A i \in 1 .. Len(p) : p[i] = q[i]
<1>1. Len(p) \in Nat /\ Len(q) \in Nat
  OBVIOUS
<1>2. SubSeq(p, 1, Len(p)) = p
  BY SubSeqFull
<1>3. ASSUME Len(p) <= Len(q)
      PROVE  p = SubSeq(q, 1, Len(p)) <=> \A i \in 1 .. Len(p) : p[i] = q[i]
  <2>1. /\ SubSeq(q, 1, Len(p)) \in Seq(Names) /\ Len(SubSeq(q, 1, Len(p))) = Len(p)
        /\ \A i \in 1 .. Len(p) : SubSeq(q, 1, Len(p))[i] = q[i]
    BY <1>1, <1>3, SubSeqProperties
  <2> DEFINE s == SubSeq(q, 1, Len(p))
  <2> HIDE DEF s
  <2>2. s \in Seq(Names) /\ Len(s) = Len(p) /\ \A i \in 1 .. Len(p) : s[i] = q[i]
    BY <2>1 DEF s
  <2>3. p = s <=> \A i \in 1 .. Len(p) : p[i] = s[i]
    BY <1>1, <2>2, SeqEqual
  <2> QED  BY <2>2, <2>3 DEF s
<1> QED  BY <1>2, <1>3 DEF Inside, IsPrefix

\* The order of the paths.
LEMMA InsideOrder ==
  ASSUME NEW p \in Seq(Names), NEW q \in Seq(Names), NEW r \in Seq(Names)
  PROVE  /\ Inside(p, p)
         /\ Inside(p, q) /\ Inside(q, r) => Inside(p, r)
         /\ Inside(p, q) /\ Len(p) = Len(q) => p = q
         /\ Inside(p, r) /\ Inside(q, r) => Inside(p, q) \/ Inside(q, p)
         /\ Inside(p, r) /\ Inside(q, r) /\ Len(p) <= Len(q) => Inside(p, q)
<1>1. Len(p) \in Nat /\ Len(q) \in Nat /\ Len(r) \in Nat
  OBVIOUS
<1>2. Inside(p, p) /\ (Inside(p, q) /\ Inside(q, r) => Inside(p, r))
  BY <1>1, InsideDef
<1>3. Inside(p, q) /\ Len(p) = Len(q) => p = q
  BY <1>1, InsideDef, SeqEqual
<1>4. Inside(p, r) /\ Inside(q, r) => Inside(p, q) \/ Inside(q, p)
  BY <1>1, InsideDef
<1>5. Inside(p, r) /\ Inside(q, r) /\ Len(p) <= Len(q) => Inside(p, q)
  BY <1>1, InsideDef
<1> QED  BY <1>2, <1>3, <1>4, <1>5

LEMMA PathFacts == Paths \subseteq Seq(Names) /\ \A p \in Paths : p # <<>> /\ Len(p) \in Nat \ {0}
<1> SUFFICES ASSUME NEW p \in Paths PROVE p \in Seq(Names) /\ p # <<>> /\ Len(p) \in Nat \ {0}
  OBVIOUS
<1>1. p \in Seq(Names) /\ p # <<>>
  BY PathsAssumption
<1> QED  BY <1>1, EmptySeq

\* The part of q down to a depth n is a path above it.
LEMMA CutFacts ==
  ASSUME NEW q \in Paths, NEW n \in 1 .. Len(q)
  PROVE  /\ SubSeq(q, 1, n) \in Paths /\ Len(SubSeq(q, 1, n)) = n
         /\ Inside(SubSeq(q, 1, n), q)
<1>1. q \in Seq(Names) /\ Len(q) \in Nat /\ n \in Nat
  BY PathFacts
<1>2. SubSeq(q, 1, n) \in Paths
  BY PathsAssumption
<1>3. Len(SubSeq(q, 1, n)) = n /\ \A i \in 1 .. n : SubSeq(q, 1, n)[i] = q[i]
  BY <1>1, SubSeqProperties
<1>4. Inside(SubSeq(q, 1, n), q)
  <2> DEFINE s == SubSeq(q, 1, n)
  <2>1. s \in Seq(Names) /\ Len(s) = n /\ \A i \in 1 .. n : s[i] = q[i]
    BY <1>2, <1>3, PathFacts
  <2> HIDE DEF s
  <2>2. Inside(s, q)
    BY <1>1, <2>1, InsideDef
  <2> QED  BY <2>2 DEF s
<1> QED  BY <1>2, <1>3, <1>4

\* What is above a path is a path.
LEMMA AboveIsPath ==
  ASSUME NEW q \in Paths, NEW p \in Seq(Names), p # <<>>, Inside(p, q)
  PROVE  p \in Paths
<1>1. q \in Seq(Names) /\ Len(q) \in Nat /\ Len(p) \in Nat \ {0}
  BY PathFacts, EmptySeq
<1>2. Len(p) \in 1 .. Len(q)
  BY <1>1, InsideDef
<1>3. SubSeq(q, 1, Len(p)) \in Paths /\ Len(SubSeq(q, 1, Len(p))) = Len(p)
      /\ Inside(SubSeq(q, 1, Len(p)), q)
  BY <1>2, CutFacts
<1>4. Inside(p, SubSeq(q, 1, Len(p)))
  BY <1>1, <1>3, InsideOrder, PathFacts
<1> QED  BY <1>3, <1>4, InsideOrder, PathFacts

\* What is above a path is its parent or above it.
LEMMA ParentFacts ==
  ASSUME NEW p \in Paths, NEW q \in Paths, Inside(p, q), p # q
  PROVE  /\ Parent(q) \in Paths /\ Inside(p, Parent(q)) /\ Inside(Parent(q), q)
         /\ Parent(q) # q /\ Len(p) < Len(q)
<1>1. p \in Seq(Names) /\ q \in Seq(Names) /\ Len(p) \in Nat \ {0} /\ Len(q) \in Nat
  BY PathFacts
<1>2. Len(p) < Len(q)
  BY <1>1, InsideDef, InsideOrder
<1>3. Len(q) - 1 \in 1 .. Len(q)
  BY <1>1, <1>2
<1>4. /\ Parent(q) \in Paths /\ Len(Parent(q)) = Len(q) - 1 /\ Inside(Parent(q), q)
  BY <1>3, CutFacts DEF Parent
<1>5. Inside(p, Parent(q))
  BY <1>1, <1>2, <1>4, InsideOrder, PathFacts
<1> QED  BY <1>1, <1>2, <1>4, <1>5

\* The entry of a directory that leads to q.
LEMMA StepDown ==
  ASSUME NEW p \in Paths, NEW q \in Paths, Inside(p, q), p # q
  PROVE  \E e \in Paths : Len(e) = Len(p) + 1 /\ Inside(p, e) /\ Inside(e, q) /\ p # e
<1> DEFINE e == SubSeq(q, 1, Len(p) + 1)
<1>1. p \in Seq(Names) /\ q \in Seq(Names) /\ Len(p) \in Nat \ {0} /\ Len(q) \in Nat
      /\ Len(p) < Len(q)
  BY PathFacts, ParentFacts
<1>2. Len(p) + 1 \in 1 .. Len(q)
  BY <1>1
<1>3. e \in Paths /\ Len(e) = Len(p) + 1 /\ Inside(e, q)
  BY <1>2, CutFacts
<1> HIDE DEF e
<1>4. Inside(p, e)
  BY <1>1, <1>3, InsideOrder, PathFacts
<1> QED  BY <1>1, <1>3, <1>4

\* Below another directory a path keeps the rest of its names.
LEMMA MovedFacts ==
  ASSUME NEW from \in Seq(Names), NEW to \in Seq(Names), NEW q \in Seq(Names), Inside(from, q)
  PROVE  /\ Moved(q, from, to) \in Seq(Names)
         /\ Len(Moved(q, from, to)) = Len(to) + Len(q) - Len(from)
         /\ \A i \in 1 .. Len(to) : Moved(q, from, to)[i] = to[i]
         /\ \A i \in 1 .. Len(q) - Len(from) :
              Moved(q, from, to)[Len(to) + i] = q[Len(from) + i]
<1>1. Len(from) \in Nat /\ Len(to) \in Nat /\ Len(q) \in Nat /\ Len(from) <= Len(q)
  BY InsideDef
<1> DEFINE s == SubSeq(q, Len(from) + 1, Len(q))
<1>2. CASE Len(from) = Len(q)
  <2>1. s = <<>>
    BY <1>1, <1>2, SubSeqEmpty
  <2>2. to \o <<>> = to
    BY ConcatEmptySeq
  <2>3. Moved(q, from, to) = to
    BY <2>1, <2>2 DEF Moved
  <2> QED  BY <1>1, <1>2, <2>3
<1>3. CASE Len(from) < Len(q)
  <2>1. /\ s \in Seq(Names) /\ Len(s) = Len(q) - Len(from)
        /\ \A i \in 1 .. Len(q) - Len(from) : s[i] = q[Len(from) + i]
    BY <1>1, <1>3, SubSeqProperties
  <2> HIDE DEF s
  <2>2. /\ to \o s \in Seq(Names) /\ Len(to \o s) = Len(to) + Len(s)
        /\ \A i \in 1 .. Len(to) : (to \o s)[i] = to[i]
        /\ \A i \in 1 .. Len(s) : (to \o s)[Len(to) + i] = s[i]
    <3>1. to \o s \in Seq(Names) /\ Len(to \o s) = Len(to) + Len(s)
      BY <2>1, ConcatProperties
    <3>2. \A i \in 1 .. Len(to) + Len(s) :
            (to \o s)[i] = IF i <= Len(to) THEN to[i] ELSE s[i - Len(to)]
      BY <2>1, ConcatProperties
    <3>3. Len(s) \in Nat /\ Len(to) \in Nat
      BY <1>1, <1>3, <2>1
    <3>4. ASSUME NEW i \in 1 .. Len(to) PROVE (to \o s)[i] = to[i]
      BY <3>2, <3>3
    <3>5. ASSUME NEW i \in 1 .. Len(s) PROVE (to \o s)[Len(to) + i] = s[i]
      <4>1. Len(to) + i \in 1 .. Len(to) + Len(s) /\ ~(Len(to) + i <= Len(to))
            /\ Len(to) + i - Len(to) = i
        BY <3>3
      <4> QED  BY <3>2, <4>1
    <3> QED  BY <3>1, <3>4, <3>5
  <2>3. Moved(q, from, to) = to \o s
    BY DEF Moved, s
  <2> QED  BY <1>1, <2>1, <2>2, <2>3
<1> QED  BY <1>1, <1>2, <1>3

LEMMA MovedPath ==
  ASSUME NEW from \in Seq(Names), NEW to \in Seq(Names), NEW q \in Seq(Names), Inside(from, q)
  PROVE  /\ Moved(q, from, to) \in Seq(Names)
         /\ Inside(to, Moved(q, from, to))
         /\ Moved(Moved(q, from, to), to, from) = q
         /\ q = from => Moved(q, from, to) = to
         /\ from = to => Moved(q, from, to) = q
<1> DEFINE m == Moved(q, from, to)
<1>1. Len(from) \in Nat /\ Len(to) \in Nat /\ Len(q) \in Nat /\ Len(from) <= Len(q)
      /\ \A i \in 1 .. Len(from) : from[i] = q[i]
  BY InsideDef
<1>2. /\ m \in Seq(Names) /\ Len(m) = Len(to) + Len(q) - Len(from)
      /\ \A i \in 1 .. Len(to) : m[i] = to[i]
      /\ \A i \in 1 .. Len(q) - Len(from) : m[Len(to) + i] = q[Len(from) + i]
  BY MovedFacts
<1> HIDE DEF m
<1>3. Inside(to, m)
  <2>1. Len(to) <= Len(m)
    BY <1>1, <1>2
  <2> QED  BY <1>2, <2>1, InsideDef
<1>4. Moved(m, to, from) = q
  <2> DEFINE r == Moved(m, to, from)
  <2>1. /\ r \in Seq(Names) /\ Len(r) = Len(from) + Len(m) - Len(to)
        /\ \A i \in 1 .. Len(from) : r[i] = from[i]
        /\ \A i \in 1 .. Len(m) - Len(to) : r[Len(from) + i] = m[Len(to) + i]
    BY <1>2, <1>3, MovedFacts
  <2> HIDE DEF r
  <2>2. Len(r) = Len(q)
    BY <1>1, <1>2, <2>1
  <2>3. ASSUME NEW i \in 1 .. Len(q) PROVE r[i] = q[i]
    <3>1. CASE i <= Len(from)
      BY <1>1, <2>1, <3>1
    <3>2. CASE i > Len(from)
      <4>1. i - Len(from) \in 1 .. Len(q) - Len(from) /\ Len(from) + (i - Len(from)) = i
            /\ Len(m) - Len(to) = Len(q) - Len(from)
        BY <1>1, <1>2, <3>2
      <4> QED  BY <1>2, <2>1, <4>1
    <3> QED  BY <1>1, <3>1, <3>2
  <2>4. r = q
    BY <2>1, <2>2, <2>3, SeqEqual
  <2> QED  BY <2>4 DEF r
<1>5. q = from => m = to
  BY <1>1, <1>2, SeqEqual
<1>6. from = to => m = q
  <2> SUFFICES ASSUME from = to PROVE m = q
    OBVIOUS
  <2>1. Len(m) = Len(q)
    BY <1>1, <1>2
  <2>2. ASSUME NEW i \in 1 .. Len(q) PROVE m[i] = q[i]
    <3>1. CASE i <= Len(from)
      BY <1>1, <1>2, <3>1
    <3>2. CASE i > Len(from)
      <4>1. i - Len(from) \in 1 .. Len(q) - Len(from) /\ Len(from) + (i - Len(from)) = i
        BY <1>1, <3>2
      <4> QED  BY <1>2, <4>1
    <3> QED  BY <1>1, <3>1, <3>2
  <2> QED  BY <1>2, <2>1, <2>2, SeqEqual
<1> QED  BY <1>2, <1>3, <1>4, <1>5, <1>6 DEF m

\* What is between the two directories and the path moves along.
LEMMA MovedBetween ==
  ASSUME NEW from \in Seq(Names), NEW to \in Seq(Names), NEW d \in Seq(Names),
         NEW q \in Seq(Names), Inside(from, d), Inside(d, q)
  PROVE  /\ Inside(from, q)
         /\ Inside(Moved(d, from, to), Moved(q, from, to))
         /\ Moved(q, d, Moved(d, from, to)) = Moved(q, from, to)
<1>1. /\ Len(from) \in Nat /\ Len(to) \in Nat /\ Len(d) \in Nat /\ Len(q) \in Nat
      /\ Len(from) <= Len(d) /\ Len(d) <= Len(q)
      /\ \A i \in 1 .. Len(d) : d[i] = q[i]
  BY InsideDef
<1>2. Inside(from, q)
  BY InsideOrder
<1> DEFINE e == Moved(d, from, to)
           m == Moved(q, from, to)
           n == Moved(q, d, e)
<1>3. /\ e \in Seq(Names) /\ Len(e) = Len(to) + Len(d) - Len(from)
      /\ \A i \in 1 .. Len(to) : e[i] = to[i]
      /\ \A i \in 1 .. Len(d) - Len(from) : e[Len(to) + i] = d[Len(from) + i]
  BY MovedFacts, ZenonT(30)
<1>4. /\ m \in Seq(Names) /\ Len(m) = Len(to) + Len(q) - Len(from)
      /\ \A i \in 1 .. Len(to) : m[i] = to[i]
      /\ \A i \in 1 .. Len(q) - Len(from) : m[Len(to) + i] = q[Len(from) + i]
  BY <1>2, MovedFacts, ZenonT(30)
<1> HIDE DEF e
<1>5. /\ n \in Seq(Names) /\ Len(n) = Len(e) + Len(q) - Len(d)
      /\ \A i \in 1 .. Len(e) : n[i] = e[i]
      /\ \A i \in 1 .. Len(q) - Len(d) : n[Len(e) + i] = q[Len(d) + i]
  BY <1>3, MovedFacts, ZenonT(30)
<1> HIDE DEF m, n
<1>6. ASSUME NEW i \in 1 .. Len(e) PROVE e[i] = m[i]
  <2>1. CASE i <= Len(to)
    BY <1>1, <1>3, <1>4, <2>1
  <2>2. CASE i > Len(to)
    <3> DEFINE k == i - Len(to)
    <3>1. k \in 1 .. Len(d) - Len(from) /\ Len(to) + k = i /\ Len(from) + k \in 1 .. Len(d)
          /\ k \in 1 .. Len(q) - Len(from)
      BY <1>1, <1>3, <2>2
    <3> HIDE DEF k
    <3>2. e[Len(to) + k] = d[Len(from) + k] /\ m[Len(to) + k] = q[Len(from) + k]
      BY <1>3, <1>4, <3>1
    <3> QED  BY <1>1, <3>1, <3>2
  <2> QED  BY <1>1, <1>3, <2>1, <2>2
<1>7. Inside(e, m)
  <2>1. Len(e) <= Len(m)
    BY <1>1, <1>3, <1>4
  <2> QED  BY <1>3, <1>4, <1>6, <2>1, InsideDef
<1>8. Len(n) = Len(m)
  BY <1>1, <1>3, <1>4, <1>5
<1>9. ASSUME NEW i \in 1 .. Len(m) PROVE n[i] = m[i]
  <2>1. CASE i <= Len(e)
    <3>1. i \in 1 .. Len(e)
      BY <1>1, <1>3, <1>4, <2>1
    <3> QED  BY <1>5, <1>6, <3>1
  <2>2. CASE i > Len(e)
    <3> DEFINE k == i - Len(e)
    <3>1. k \in 1 .. Len(q) - Len(d) /\ Len(e) + k = i /\ Len(d) - Len(from) \in Nat
          /\ Len(to) + (Len(d) - Len(from) + k) = i
          /\ Len(from) + (Len(d) - Len(from) + k) = Len(d) + k
          /\ Len(d) - Len(from) + k \in 1 .. Len(q) - Len(from)
      BY <1>1, <1>3, <1>4, <2>2
    <3> HIDE DEF k
    <3>2. n[Len(e) + k] = q[Len(d) + k] /\ m[i] = q[Len(d) + k]
      BY <1>4, <1>5, <3>1
    <3> QED  BY <3>1, <3>2
  <2> QED  BY <1>1, <1>3, <1>4, <2>1, <2>2
<1>10. n = m
  BY <1>4, <1>5, <1>8, <1>9, SeqEqual
<1> QED  BY <1>2, <1>7, <1>10 DEF e, m, n

-------------------------------------------------------------------------------
(* The file system.                                                        *)

\* A directory that holds an entry stands in directories itself.
LEMMA AboveDirs ==
  ASSUME NEW t, IsTree(t), NEW q \in Paths, t[Parent(q)] = "dir",
         NEW p \in Paths, Inside(p, q), p # q
  PROVE  t[p] = "dir"
<1>1. Parent(q) \in Paths /\ Inside(p, Parent(q))
  BY ParentFacts
<1> QED  BY <1>1 DEF IsTree

\* Nothing stands below an empty directory.
LEMMA BelowEmpty ==
  ASSUME NEW t, IsTree(t), NEW p \in Paths, DirEntries(t, p) = {},
         NEW q \in Paths, Inside(p, q), p # q
  PROVE  t[q] = "none"
<1>1. PICK e \in Paths : Len(e) = Len(p) + 1 /\ Inside(p, e) /\ Inside(e, q)
  BY StepDown
<1>2. t[e] = "none"
  BY <1>1 DEF DirEntries
<1> QED  BY <1>1, <1>2 DEF IsTree

\* Changing what stands at one path.
LEMMA WriteTree ==
  ASSUME NEW t, IsTree(t), NEW to \in Paths, NEW x \in Contents,
         x # "none" => \A p \in Paths : Inside(p, to) /\ p # to => t[p] = "dir",
         x # "dir" => \A q \in Paths : Inside(to, q) /\ q # to => t[q] = "none"
  PROVE  IsTree([t EXCEPT ![to] = x])
<1> DEFINE u == [t EXCEPT ![to] = x]
<1>1. /\ u \in [Paths -> Contents] /\ u[to] = x
      /\ \A p \in Paths : p # to => u[p] = t[p]
  BY DEF IsTree
<1> HIDE DEF u
<1>2. ASSUME NEW p \in Paths, NEW q \in Paths, u[q] # "none", Inside(p, q), p # q
      PROVE  u[p] = "dir"
  <2>1. CASE q = to
    BY <1>1, <1>2, <2>1
  <2>2. CASE q # to /\ p = to
    BY <1>1, <1>2, <2>2
  <2>3. CASE q # to /\ p # to
    BY <1>1, <1>2, <2>3 DEF IsTree
  <2> QED  BY <2>1, <2>2, <2>3
<1>3. IsTree(u)
  BY <1>1, <1>2 DEF IsTree
<1> QED  BY <1>3 DEF u

\* rename() of a tree keeps it a tree.
LEMMA RenameTree ==
  ASSUME NEW t, IsTree(t), NEW from \in Paths, NEW to \in Paths,
         ~Inside(from, to), t[Parent(to)] = "dir", t[to] # "dir"
  PROVE  IsTree([p \in Paths |->
             IF Inside(from, p) THEN "none"
             ELSE IF Inside(to, p) /\ Moved(p, to, from) \in Paths
             THEN t[Moved(p, to, from)] ELSE t[p]])
<1> DEFINE u == [p \in Paths |->
             IF Inside(from, p) THEN "none"
             ELSE IF Inside(to, p) /\ Moved(p, to, from) \in Paths
             THEN t[Moved(p, to, from)] ELSE t[p]]
<1>1. u \in [Paths -> Contents]
  BY DEF IsTree, Contents
<1>2. \A p \in Paths :
        /\ Inside(from, p) => u[p] = "none"
        /\ ~Inside(from, p) /\ Inside(to, p) /\ Moved(p, to, from) \in Paths
             => u[p] = t[Moved(p, to, from)]
        /\ ~Inside(from, p) /\ ~Inside(to, p) => u[p] = t[p]
        /\ ~Inside(from, p) /\ Moved(p, to, from) \notin Paths => u[p] = t[p]
  OBVIOUS
<1> HIDE DEF u
<1>3. ASSUME NEW p \in Paths, NEW q \in Paths, u[q] # "none", Inside(p, q), p # q
      PROVE  u[p] = "dir"
  <2>1. p \in Seq(Names) /\ q \in Seq(Names) /\ from \in Seq(Names) /\ to \in Seq(Names)
    BY PathFacts
  <2>2. ~Inside(from, q) /\ ~Inside(from, p)
    BY <1>2, <1>3, <2>1, InsideOrder
  <2>3. CASE Inside(to, q) /\ Moved(q, to, from) \in Paths /\ Inside(to, p)
    <3>1. /\ Moved(p, to, from) \in Seq(Names) /\ Inside(from, Moved(p, to, from))
          /\ Moved(Moved(p, to, from), from, to) = p
      BY <2>1, <2>3, MovedPath
    <3>2. Moved(Moved(q, to, from), from, to) = q
      BY <2>1, <2>3, MovedPath
    <3>3. Inside(Moved(p, to, from), Moved(q, to, from))
      BY <1>3, <2>1, <2>3, MovedBetween
    <3>4. Moved(p, to, from) \in Paths
      <4>1. Moved(p, to, from) # <<>>
        <5>1. Len(from) \in Nat \ {0}
          BY PathFacts
        <5>2. Len(from) <= Len(Moved(p, to, from))
          BY <2>1, <3>1, InsideDef
        <5> QED  BY <5>1, <5>2, EmptySeq
      <4> QED  BY <2>3, <3>1, <3>3, <4>1, AboveIsPath
    <3>5. t[Moved(q, to, from)] # "none"
      BY <1>2, <1>3, <2>2, <2>3
    <3>6. t[Moved(p, to, from)] = "dir"
      BY <1>3, <2>3, <3>1, <3>2, <3>3, <3>4, <3>5 DEF IsTree
    <3> QED  BY <1>2, <2>2, <2>3, <3>4, <3>6
  <2>4. CASE Inside(to, q) /\ ~Inside(to, p)
    <3>1. Inside(p, to) /\ p # to
      BY <1>3, <2>1, <2>4, InsideOrder
    <3>2. t[p] = "dir"
      BY <3>1, AboveDirs
    <3> QED  BY <1>2, <2>2, <2>4, <3>2
  <2>5. CASE Inside(to, q) /\ Moved(q, to, from) \notin Paths /\ Inside(to, p)
    <3>1. u[q] = t[q] /\ t[q] # "none"
      BY <1>2, <1>3, <2>2, <2>5
    <3>2. q # to
      <4>1. Moved(to, to, from) = from
        BY <2>1, MovedPath, InsideOrder
      <4> QED  BY <2>5, <4>1
    <3> QED  BY <2>5, <3>1, <3>2 DEF IsTree
  <2>6. CASE ~Inside(to, q)
    <3>1. ~Inside(to, p)
      BY <1>3, <2>1, <2>6, InsideOrder
    <3>2. t[p] = "dir"
      BY <1>2, <1>3, <2>2, <2>6 DEF IsTree
    <3> QED  BY <1>2, <2>2, <3>1, <3>2
  <2> QED  BY <2>3, <2>4, <2>5, <2>6
<1>4. IsTree(u)
  BY <1>1, <1>3 DEF IsTree
<1> QED  BY <1>4 DEF u

-------------------------------------------------------------------------------
(* The request.                                                            *)

LEMMA RequestFacts ==
  ASSUME before \in Trees, req \in Requests
  PROVE  /\ IsTree(before) /\ \A p \in Paths : before[p] # Late
         /\ Len(req.srcs) \in Nat /\ Sources = 1 .. Len(req.srcs) /\ req.dst \in Paths
         /\ \A i \in Sources : req.srcs[i] \in Paths /\ Target(i) \in Paths
         /\ Len(req.srcs) > 1 \/ before[req.dst] = "dir" =>
              \A i \in Sources : Target(i) = Append(req.dst, Last(req.srcs[i]))
         /\ Late \notin {"none", "dir", "special"}
<1>1. /\ before = [p \in Paths |-> before[p]]
      /\ \A p, q \in Paths : before[q] # "none" /\ Inside(p, q) /\ p # q => before[p] = "dir"
  BY TreesAssumption
<1>2. \A p \in Paths : before[p] \in Contents
  BY DEF Contents
<1>3. IsTree(before)
  BY <1>1, <1>2 DEF IsTree
<1>4. /\ req.srcs \in Seq(Paths) /\ req.dst \in Paths
      /\ Len(req.srcs) > 1 \/ before[req.dst] = "dir" =>
           \A i \in DOMAIN req.srcs : Append(req.dst, Last(req.srcs[i])) \in Paths
  BY RequestsAssumption
<1>5. Len(req.srcs) \in Nat /\ Sources = 1 .. Len(req.srcs) /\ \A i \in Sources : req.srcs[i] \in Paths
  BY <1>4 DEF Sources
<1>6. \A i \in Sources : Target(i) \in Paths
  BY <1>4 DEF Target, Sources
<1>7. Len(req.srcs) > 1 \/ before[req.dst] = "dir" =>
        \A i \in Sources : Target(i) = Append(req.dst, Last(req.srcs[i]))
  BY DEF Target
<1> QED  BY <1>3, <1>4, <1>5, <1>6, <1>7, LateAssumption DEF IsFile

\* A target among several, or in a directory, is an entry of dst.
LEMMA TargetInDst ==
  ASSUME before \in Trees, req \in Requests, NEW i \in Sources,
         Len(req.srcs) > 1 \/ before[req.dst] = "dir"
  PROVE  /\ Len(Target(i)) = Len(req.dst) + 1 /\ Inside(req.dst, Target(i))
         /\ req.dst # Target(i) /\ Parent(Target(i)) = req.dst
<1>1. Target(i) \in Paths /\ Target(i) = Append(req.dst, Last(req.srcs[i])) /\ req.dst \in Paths
  BY RequestFacts
<1>2. Target(i) \in Seq(Names) /\ req.dst \in Seq(Names)
  BY <1>1, PathFacts
<1>3. Len(Target(i)) = Len(req.dst) + 1 /\ Len(req.dst) \in Nat
  BY <1>1, <1>2
<1>4. \A k \in 1 .. Len(req.dst) : req.dst[k] = Target(i)[k]
  BY <1>1, <1>2
<1>5. Inside(req.dst, Target(i))
  BY <1>2, <1>3, <1>4, InsideDef
<1>6. req.dst # Target(i)
  BY <1>3
<1>7. Parent(Target(i)) = req.dst
  <2>1. Parent(Target(i)) \in Paths /\ Inside(req.dst, Parent(Target(i)))
    BY <1>1, <1>5, <1>6, ParentFacts
  <2>2. Len(Target(i)) - 1 \in 1 .. Len(Target(i)) /\ Len(Target(i)) - 1 = Len(req.dst)
    BY <1>1, <1>3, PathFacts
  <2>3. Len(Parent(Target(i))) = Len(req.dst)
    BY <1>1, <2>2, CutFacts DEF Parent
  <2> QED  BY <1>2, <2>1, <2>3, InsideOrder, PathFacts
<1> QED  BY <1>3, <1>5, <1>6, <1>7

\* Different targets have nothing in common below them.
LEMMA TargetsApart ==
  ASSUME before \in Trees, req \in Requests, OneTargetEach,
         NEW i \in Sources, NEW j \in Sources, i # j,
         NEW q \in Paths, Inside(Target(i), q), Inside(Target(j), q)
  PROVE  FALSE
<1>1. Len(req.srcs) > 1
  BY RequestFacts
<1>2. Len(Target(i)) = Len(Target(j))
  BY <1>1, TargetInDst
<1>3. Target(i) \in Seq(Names) /\ Target(j) \in Seq(Names) /\ q \in Seq(Names)
  BY RequestFacts, PathFacts
<1>4. Target(i) = Target(j)
  BY <1>2, <1>3, InsideOrder
<1> QED  BY <1>4 DEF OneTargetEach

\* Only a request for a single source can ask to put it below itself.
LEMMA StuckAlone ==
  ASSUME before \in Trees, req \in Requests, Admitted,
         NEW i \in Sources, Inside(req.srcs[i], Target(i)), NEW j \in Sources
  PROVE  i = j /\ ~(Len(req.srcs) > 1 \/ before[req.dst] = "dir")
<1>1. SUFFICES ASSUME Len(req.srcs) > 1 \/ before[req.dst] = "dir" PROVE FALSE
  BY RequestFacts
<1>2. before[req.dst] = "dir" /\ req.dst \in Paths /\ req.srcs[i] \in Paths /\ Target(i) \in Paths
  BY <1>1, RequestFacts DEF Admitted
<1>3. req.srcs[i] # Target(i) /\ ~(before[req.srcs[i]] = "dir")
  BY DEF Admitted
<1>4. Inside(req.srcs[i], req.dst)
  BY <1>1, <1>2, <1>3, ParentFacts, TargetInDst
<1>5. IsTree(before)
  BY RequestFacts
<1> QED  BY <1>2, <1>3, <1>4, <1>5 DEF IsTree

\* A request and what it was made on do not change.
LEMMA SameRequest ==
  ASSUME UNCHANGED <<before, req>>
  PROVE  /\ Sources' = Sources /\ Admitted' = Admitted /\ \A i : Target(i)' = Target(i)
         /\ OneTargetEach' = OneTargetEach /\ Apart' = Apart /\ Kept' = Kept
         /\ \A p, i : Own(p, i)' = Own(p, i)
<1>1. Sources' = Sources /\ \A i : Target(i)' = Target(i)
  BY DEF Sources, Target
<1>2. Admitted' = Admitted
  BY <1>1 DEF Admitted
<1>3. OneTargetEach' = OneTargetEach
  BY <1>1 DEF OneTargetEach
<1>4. Apart' = Apart
  BY <1>1, <1>3 DEF Apart
<1>5. Kept' = Kept
  BY <1>1 DEF Kept, Overwritable
<1>6. \A p, i : Own(p, i)' = Own(p, i)
  BY <1>1 DEF Own
<1> QED  BY <1>1, <1>2, <1>3, <1>4, <1>5, <1>6

-------------------------------------------------------------------------------
(* The calls in progress.                                                  *)

LEMMA CallFacts ==
  ASSUME calls \in Seq(Frame), calls # <<>>
  PROVE  /\ Inner \in Frame /\ Outer \in Seq(Frame)
         /\ Frames(calls) = Frames(Outer) \cup {Inner}
         /\ Outer # <<>> => Outer[1] = calls[1]
         /\ Outer = <<>> => Inner = calls[1]
<1>1. Len(calls) \in Nat \ {0} /\ DOMAIN calls = 1 .. Len(calls)
  BY EmptySeq
<1>2. Inner \in Frame
  BY <1>1, ElementOfSeq DEF Inner
<1>3. /\ Outer \in Seq(Frame) /\ Len(Outer) = Len(calls) - 1
      /\ \A k \in 1 .. Len(calls) - 1 : Outer[k] = calls[k]
  <2>1. \A k \in 1 .. Len(calls) - 1 : calls[k] \in Frame
    BY <1>1, ElementOfSeq
  <2> QED  BY <1>1, <2>1, SubSeqProperties DEF Outer
<1> DEFINE s == Outer
<1> HIDE DEF s
<1>4. s \in Seq(Frame) /\ Len(s) = Len(calls) - 1 /\ \A k \in 1 .. Len(calls) - 1 : s[k] = calls[k]
  BY <1>3 DEF s
<1>5. DOMAIN s = 1 .. Len(calls) - 1
  BY <1>4
<1>6. Frames(calls) = Frames(s) \cup {calls[Len(calls)]}
  BY <1>1, <1>4, <1>5 DEF Frames
<1>7. s # <<>> => s[1] = calls[1]
  BY <1>1, <1>4, EmptySeq
<1>8. s = <<>> => Len(calls) = 1
  <2> SUFFICES ASSUME s = <<>> PROVE Len(calls) = 1
    OBVIOUS
  <2>1. Len(s) = 0
    BY EmptySeq
  <2>2. Len(s) = Len(calls) - 1 /\ Len(calls) \in Nat
    BY <1>1, <1>4
  <2> DEFINE n == Len(s)
             k == Len(calls)
  <2> HIDE DEF n, k
  <2>3. n = 0 /\ n = k - 1 /\ k \in Nat
    BY <2>1, <2>2 DEF n, k
  <2>4. k = 1
    BY <2>3
  <2> QED  BY <2>4 DEF k
<1> QED  BY <1>2, <1>3, <1>6, <1>7, <1>8 DEF s, Inner

LEMMA PushFacts ==
  ASSUME NEW s \in Seq(Frame), NEW x \in Frame
  PROVE  /\ Append(s, x) \in Seq(Frame) /\ Append(s, x) # <<>>
         /\ Frames(Append(s, x)) = Frames(s) \cup {x}
         /\ Append(s, x)[1] = IF s = <<>> THEN x ELSE s[1]
<1>1. Len(s) \in Nat /\ DOMAIN s = 1 .. Len(s)
  OBVIOUS
<1>2. /\ Append(s, x) \in Seq(Frame) /\ Len(Append(s, x)) = Len(s) + 1
      /\ \A k \in 1 .. Len(s) : Append(s, x)[k] = s[k]
      /\ Append(s, x)[Len(s) + 1] = x
  OBVIOUS
<1> DEFINE u == Append(s, x)
<1> HIDE DEF u
<1>3. /\ u \in Seq(Frame) /\ Len(u) = Len(s) + 1 /\ u[Len(s) + 1] = x
      /\ \A k \in 1 .. Len(s) : u[k] = s[k]
  BY <1>2 DEF u
<1>4. DOMAIN u = 1 .. Len(s) + 1
  BY <1>3
<1>5. Frames(u) = Frames(s) \cup {x}
  BY <1>1, <1>3, <1>4 DEF Frames
<1>6. u # <<>>
  BY <1>1, <1>3
<1>7. u[1] = IF s = <<>> THEN x ELSE s[1]
  <2>1. CASE s = <<>>
    BY <1>1, <1>3, <2>1
  <2>2. CASE s # <<>>
    <3>1. 1 \in 1 .. Len(s)
      BY <1>1, <2>2, EmptySeq
    <3> QED  BY <1>3, <2>2, <3>1
  <2> QED  BY <2>1, <2>2
<1> QED  BY <1>3, <1>5, <1>6, <1>7 DEF u

LEMMA OneCall ==
  /\ Frames(<<>>) = {}
  /\ \A x \in Frame : <<x>> \in Seq(Frame) /\ <<x>> # <<>> /\ Frames(<<x>>) = {x} /\ <<x>>[1] = x
BY DEF Frames

LEMMA FrameFields ==
  ASSUME NEW c \in Frame
  PROVE  /\ c.fn \in {"copy", "remove"} /\ c.from \in Paths /\ c.to \in Paths
         /\ c.open \in BOOLEAN /\ c.todo \subseteq Paths /\ c.seen \subseteq Paths
BY DEF Frame

LEMMA NewCallFields ==
  ASSUME NEW fn \in {"copy", "remove"}, NEW from \in Paths, NEW to \in Paths
  PROVE  LET c == NewCall(fn, from, to)
         IN c \in Frame /\ c.fn = fn /\ c.from = from /\ c.to = to /\ ~c.open /\ c.seen = {}
BY DEF NewCall, Frame

\* The frame after opendir(), and after an entry was taken.
LEMMA OpenedFields ==
  ASSUME NEW c \in Frame, NEW T \in SUBSET Paths
  PROVE  LET d == [c EXCEPT !.open = TRUE, !.todo = T]
         IN /\ d \in Frame /\ d.fn = c.fn /\ d.from = c.from /\ d.to = c.to
            /\ d.open /\ d.todo = T /\ d.seen = c.seen
BY DEF Frame

LEMMA SeenFields ==
  ASSUME NEW c \in Frame, NEW q \in Paths
  PROVE  LET d == [c EXCEPT !.seen = @ \union {q}]
         IN /\ d \in Frame /\ d.fn = c.fn /\ d.from = c.from /\ d.to = c.to
            /\ d.open = c.open /\ d.todo = c.todo /\ d.seen = c.seen \cup {q}
BY DEF Frame

\* Where the innermost call is.
LEMMA CopyAt ==
  ASSUME BaseInv, Working("copy")
  PROVE  /\ step = "copying" /\ req.op # "delete" /\ Admitted /\ nth \in Sources
         /\ Source \in Paths /\ Target(nth) \in Paths
         /\ calls # <<>> /\ Inner \in Frame /\ Inner \in Frames(calls) /\ Inner.fn = "copy"
         /\ Inner.from \in Paths /\ Inner.to \in Paths /\ Inside(Source, Inner.from)
         /\ Inner.to = Moved(Inner.from, Source, Target(nth)) /\ Inside(Target(nth), Inner.to)
         /\ ~Inner.open => Inner.seen = {}
<1>1. calls # <<>> /\ calls \in Seq(Frame) /\ Inner.fn = "copy" /\ step \in {"copying", "removing"}
  BY DEF BaseInv, TypeOK, Working
<1>2. Inner \in Frame /\ Inner \in Frames(calls)
  BY <1>1, CallFacts
<1>3. step = "copying"
  BY <1>1, <1>2 DEF BaseInv, CallsInv
<1>4. nth \in Sources /\ req.op # "delete" /\ Admitted
  BY <1>3 DEF BaseInv, PhaseInv, Active
<1>5. Source \in Paths /\ Target(nth) \in Paths
  BY <1>4, RequestFacts DEF BaseInv, TypeOK, Source
<1>6. Inner.from \in Paths /\ Inner.to \in Paths
  BY <1>2, FrameFields
<1>7. /\ Inside(Source, Inner.from) /\ Inner.to = Moved(Inner.from, Source, Target(nth))
      /\ ~Inner.open => Inner.seen = {}
  BY <1>2, <1>3 DEF BaseInv, CallsInv
<1>8. Inside(Target(nth), Inner.to)
  BY <1>5, <1>6, <1>7, MovedPath, PathFacts
<1> QED  BY <1>1, <1>2, <1>3, <1>4, <1>5, <1>6, <1>7, <1>8

LEMMA RemovalAt ==
  ASSUME BaseInv, Working("remove")
  PROVE  /\ step = "removing" /\ nth \in Sources /\ Source \in Paths
         /\ calls # <<>> /\ Inner \in Frame /\ Inner \in Frames(calls) /\ Inner.fn = "remove"
         /\ Inner.from \in Paths /\ Inside(Source, Inner.from)
         /\ ~Inner.open => Inner.seen = {}
         /\ req.op # "delete" =>
              Admitted /\ Target(nth) \in Paths /\ ~Inside(Source, Target(nth))
<1>1. calls # <<>> /\ calls \in Seq(Frame) /\ Inner.fn = "remove" /\ step \in {"copying", "removing"}
  BY DEF BaseInv, TypeOK, Working
<1>2. Inner \in Frame /\ Inner \in Frames(calls)
  BY <1>1, CallFacts
<1>3. step = "removing"
  BY <1>1, <1>2 DEF BaseInv, CallsInv
<1>4. nth \in Sources
  BY <1>3 DEF BaseInv, PhaseInv
<1>5. Source \in Paths /\ Target(nth) \in Paths
  BY <1>4, RequestFacts DEF BaseInv, TypeOK, Source
<1>6. Inner.from \in Paths
  BY <1>2, FrameFields
<1>7. Inside(Source, Inner.from) /\ (~Inner.open => Inner.seen = {})
  BY <1>2 DEF BaseInv, CallsInv
<1>8. ASSUME req.op # "delete"
      PROVE  Admitted /\ Target(nth) \in Paths /\ ~Inside(Source, Target(nth))
  BY <1>3, <1>5, <1>8 DEF BaseInv, PhaseInv, StuckInv, Active
<1> QED  BY <1>1, <1>2, <1>3, <1>4, <1>5, <1>6, <1>7, <1>8

\* What is copied is not put below itself.
LEMMA CopyGoesElsewhere ==
  ASSUME BaseInv, Working("copy"), fs[Parent(Inner.to)] = "dir"
  PROVE  ~Inside(Source, Target(nth))
<1> SUFFICES ASSUME Inside(Source, Target(nth)) PROVE FALSE
  OBVIOUS
<1>1. /\ step = "copying" /\ req.op # "delete" /\ Admitted /\ nth \in Sources
      /\ Source \in Paths /\ Target(nth) \in Paths /\ Inner.to \in Paths
      /\ Inside(Target(nth), Inner.to)
  BY CopyAt
<1>2. Source # Target(nth)
  BY <1>1 DEF Admitted, Source
<1>3. Inside(Source, Inner.to)
  BY <1>1, InsideOrder, PathFacts
<1>4. Source # Inner.to
  <2>1. Inner.to = Source => Source = Target(nth)
    <3> SUFFICES ASSUME Inner.to = Source PROVE Source = Target(nth)
      OBVIOUS
    <3>1. Len(Source) = Len(Target(nth))
      BY <1>1, InsideDef, PathFacts
    <3> QED  BY <1>1, <3>1, InsideOrder, PathFacts
  <2> QED  BY <1>2, <2>1
<1>5. IsTree(fs) /\ fs[Source] = "dir"
  BY <1>1, <1>3, <1>4, AboveDirs DEF BaseInv, TypeOK
<1> QED  BY <1>1, <1>5 DEF BaseInv, StuckInv, Active, Source

LEMMA SourceNumbers ==
  ASSUME BaseInv
  PROVE  nth \in Nat /\ \A i \in Sources : i \in Nat \ {0}
<1>1. nth \in Nat \ {0} /\ before \in Trees /\ req \in Requests
  BY DEF BaseInv, TypeOK
<1>2. Len(req.srcs) \in Nat /\ Sources = 1 .. Len(req.srcs)
  BY <1>1, RequestFacts
<1>3. \A i \in 1 .. Len(req.srcs) : i \in Nat \ {0}
  BY <1>2
<1> QED  BY <1>1, <1>2, <1>3

LEMMA ClearOfTheRest ==
  ASSUME BaseInv, NEW q, Clear(q, nth)
  PROVE  Clear(q, nth + 1)
<1>1. nth \in Nat /\ \A k \in Sources : k \in Nat
  BY SourceNumbers
<1>2. \A k \in Sources : k >= nth + 1 => k >= nth
  BY <1>1
<1> QED  BY <1>2 DEF Clear

-------------------------------------------------------------------------------
(* The steps keep BaseInv.                                                 *)

LEMMA InitBase == TreeInit => BaseInv
<1> SUFFICES ASSUME TreeInit PROVE BaseInv
  OBVIOUS
<1>1. IsTree(fs) /\ fs = before
  BY RequestFacts DEF TreeInit
<1>2. calls = <<>> /\ calls \in Seq(Frame) /\ Frames(calls) = {}
  BY OneCall, EmptySeq DEF TreeInit
<1>3. TypeOK
  <2>1. /\ before \in Trees /\ req \in Requests /\ step = "request" /\ nth = 1
        /\ cancel = FALSE /\ misread = FALSE /\ outcome = ""
    BY DEF TreeInit
  <2>2. IsTree(fs) /\ calls \in Seq(Frame)
    BY <1>1, <1>2
  <2>3. nth \in Nat \ {0}
    <3>1. nth = 1
      BY <2>1
    <3> QED  BY <3>1
  <2>6. cancel \in BOOLEAN
    BY <2>1
  <2>7. misread \in BOOLEAN
    BY <2>1
  <2>5. step \in Active \cup {"request", "over"}
    BY <2>1 DEF Active
  <2>4. outcome \in {"", "refused", "done", "failed", "canceled"}
    BY <2>1
  <2> QED  BY <2>1, <2>2, <2>3, <2>4, <2>5, <2>6, <2>7 DEF TypeOK
<1>4. PhaseInv /\ CallsInv /\ StuckInv
  BY <1>1, <1>2 DEF TreeInit, PhaseInv, CallsInv, StuckInv, Active
<1> QED  BY <1>3, <1>4 DEF BaseInv

\* A step inside a source, whose calls do what they should.
LEMMA BaseWork ==
  ASSUME BaseInv, UNCHANGED <<before, req, step, nth, cancel, outcome>>, misread' \in BOOLEAN,
         step \in {"copying", "removing"}, IsTree(fs'), calls' \in Seq(Frame), CallsInv',
         req.op # "delete" => ~Inside(Source, Target(nth))
  PROVE  BaseInv'
<1>1. TypeOK'
  BY DEF BaseInv, TypeOK, IsTree
<1>2. Sources' = Sources /\ Admitted' = Admitted /\ \A i : Target(i)' = Target(i)
  BY SameRequest
<1>3. PhaseInv'
  BY <1>2 DEF BaseInv, PhaseInv, Active
<1>4. StuckInv'
  <2>1. ASSUME req.op # "delete", NEW i \in Sources
        PROVE  ~Inside(req.srcs[i], Target(i))
    <3>1. Admitted /\ nth \in Sources
      BY <2>1 DEF BaseInv, PhaseInv, Active
    <3>2. Inside(req.srcs[i], Target(i)) => i = nth
      BY <3>1, StuckAlone DEF BaseInv, TypeOK
    <3> QED  BY <2>1, <3>2 DEF Source
  <2>2. Source' = Source /\ Target(nth)' = Target(nth)
    BY <1>2 DEF Source
  <2>3. step = "copying" => req.op # "delete"
    BY DEF BaseInv, PhaseInv
  <2> QED  BY <1>2, <2>1, <2>2, <2>3 DEF StuckInv
<1> QED  BY <1>1, <1>3, <1>4 DEF BaseInv

\* The calls that are left, and the ones that go on with what they worked on.
LEMMA CallsKept ==
  ASSUME BaseInv, UNCHANGED <<before, req, step, nth>>,
         \A c \in Frames(calls') :
           \/ c \in Frames(calls)
           \/ \E d \in Frames(calls) :
                c.fn = d.fn /\ c.from = d.from /\ c.to = d.to /\ c.open
  PROVE  CallsInv'
<1>1. Source' = Source /\ Target(nth)' = Target(nth)
  BY SameRequest DEF Source
<1> QED  BY <1>1 DEF BaseInv, CallsInv

\* A call that returns.
LEMMA BaseReturn ==
  ASSUME BaseInv, UNCHANGED <<before, req, step, nth, cancel, outcome>>, misread' \in BOOLEAN,
         Working("copy") \/ Working("remove"), IsTree(fs'), calls' = Outer,
         req.op # "delete" => ~Inside(Source, Target(nth))
  PROVE  BaseInv'
<1>1. calls \in Seq(Frame) /\ calls # <<>> /\ step \in {"copying", "removing"}
  BY DEF BaseInv, TypeOK, Working
<1>2. Outer \in Seq(Frame) /\ Frames(Outer) \subseteq Frames(calls)
  BY <1>1, CallFacts
<1>3. CallsInv'
  BY <1>2, CallsKept
<1> QED  BY <1>1, <1>2, <1>3, BaseWork

\* A call that opens its directory.
LEMMA BaseOpen ==
  ASSUME BaseInv, UNCHANGED <<before, req, step, nth, cancel, outcome>>, misread' \in BOOLEAN,
         Working("copy") \/ Working("remove"), IsTree(fs'), calls' = Opened,
         req.op # "delete" => ~Inside(Source, Target(nth))
  PROVE  BaseInv'
<1> DEFINE d == [Inner EXCEPT !.open = TRUE, !.todo = DirEntries(fs, Inner.from)]
<1>1. calls \in Seq(Frame) /\ calls # <<>> /\ step \in {"copying", "removing"}
  BY DEF BaseInv, TypeOK, Working
<1>2. /\ Inner \in Frame /\ Outer \in Seq(Frame) /\ Inner \in Frames(calls)
      /\ Frames(Outer) \subseteq Frames(calls)
  BY <1>1, CallFacts
<1>3. /\ d \in Frame /\ d.fn = Inner.fn /\ d.from = Inner.from /\ d.to = Inner.to /\ d.open
  BY <1>2, OpenedFields DEF DirEntries
<1> HIDE DEF d
<1>4. calls' = Append(Outer, d)
  BY DEF Opened, d
<1>5. calls' \in Seq(Frame) /\ Frames(calls') = Frames(Outer) \cup {d}
  BY <1>2, <1>3, <1>4, PushFacts
<1>6. CallsInv'
  BY <1>2, <1>3, <1>5, CallsKept
<1> QED  BY <1>1, <1>5, <1>6, BaseWork

LEMMA CopyFileBase ==
  ASSUME BaseInv, UNCHANGED <<before, req>>, CopyFile
  PROVE  BaseInv' /\ IsTree(fs')
<1>1. /\ Working("copy") /\ IsFile(fs[Inner.from]) /\ fs[Inner.to] # "dir"
      /\ fs[Parent(Inner.to)] = "dir" /\ fs' = [fs EXCEPT ![Inner.to] = fs[Inner.from]]
      /\ calls' = Outer /\ UNCHANGED <<step, nth, cancel, outcome, misread>>
  BY DEF CopyFile, SameTask
<1>2. IsTree(fs) /\ misread \in BOOLEAN
  BY DEF BaseInv, TypeOK
<1>3. Inner.to \in Paths /\ Inner.from \in Paths
  BY <1>1, CopyAt
<1>4. IsTree(fs')
  <2>1. fs[Inner.from] \in Contents
    BY <1>2, <1>3 DEF IsTree
  <2>2. \A p \in Paths : Inside(p, Inner.to) /\ p # Inner.to => fs[p] = "dir"
    BY <1>1, <1>2, <1>3, AboveDirs
  <2>3. \A q \in Paths : Inside(Inner.to, q) /\ q # Inner.to => fs[q] = "none"
    BY <1>1, <1>2, <1>3 DEF IsTree
  <2> QED  BY <1>1, <1>2, <1>3, <2>1, <2>2, <2>3, WriteTree
<1>5. ~Inside(Source, Target(nth))
  BY <1>1, CopyGoesElsewhere
<1> QED  BY <1>1, <1>2, <1>4, <1>5, BaseReturn

LEMMA CopyDirBase ==
  ASSUME BaseInv, UNCHANGED <<before, req>>, CopyDir
  PROVE  BaseInv' /\ IsTree(fs')
<1>1. /\ Working("copy") /\ fs[Inner.to] \in {"none", "dir"}
      /\ fs[Parent(Inner.to)] = "dir" /\ fs' = [fs EXCEPT ![Inner.to] = "dir"]
      /\ calls' = Opened /\ UNCHANGED <<step, nth, cancel, outcome, misread>>
  BY DEF CopyDir, SameTask
<1>2. IsTree(fs) /\ misread \in BOOLEAN
  BY DEF BaseInv, TypeOK
<1>3. Inner.to \in Paths /\ Inner.from \in Paths
  BY <1>1, CopyAt
<1>4. IsTree(fs')
  <2>1. "dir" \in Contents
    BY DEF Contents
  <2>2. \A p \in Paths : Inside(p, Inner.to) /\ p # Inner.to => fs[p] = "dir"
    BY <1>1, <1>2, <1>3, AboveDirs
  <2> QED  BY <1>1, <1>2, <1>3, <2>1, <2>2, WriteTree
<1>5. ~Inside(Source, Target(nth))
  BY <1>1, CopyGoesElsewhere
<1> QED  BY <1>1, <1>2, <1>4, <1>5, BaseOpen

\* A call that has met an entry is not the first, unopened one.
LEMMA OpenedCopy ==
  ASSUME BaseInv, Working("copy") \/ Working("remove"), Inner.open, req.op # "delete"
  PROVE  ~Inside(Source, Target(nth))
<1>1. CASE Working("remove")
  BY <1>1, RemovalAt
<1>2. CASE Working("copy")
  <2>1. step = "copying" /\ Inner \in Frames(calls)
    BY <1>2, CopyAt
  <2>2. ~NewCall("copy", Source, Target(nth)).open
    BY DEF NewCall
  <2> QED  BY <2>1, <2>2 DEF BaseInv, StuckInv
<1> QED  BY <1>1, <1>2

LEMMA NextEntryBase ==
  ASSUME BaseInv, UNCHANGED <<before, req>>, NextEntry
  PROVE  BaseInv'
<1>1. /\ Working("copy") \/ Working("remove")
      /\ Inner.open /\ UNCHANGED <<fs, step, nth, cancel, outcome, misread>>
  BY DEF NextEntry, SameTask
<1>2. PICK q \in DirEntries(fs, Inner.from) \ Inner.seen :
        /\ Moved(q, Inner.from, Inner.to) \in Paths
        /\ calls' = Append(Append(Outer, [Inner EXCEPT !.seen = @ \union {q}]),
                           NewCall(Inner.fn, q, Moved(q, Inner.from, Inner.to)))
  BY DEF NextEntry
<1> DEFINE d == [Inner EXCEPT !.seen = @ \union {q}]
           n == NewCall(Inner.fn, q, Moved(q, Inner.from, Inner.to))
<1>3. calls \in Seq(Frame) /\ calls # <<>> /\ step \in {"copying", "removing"} /\ IsTree(fs)
      /\ misread \in BOOLEAN
  BY <1>1 DEF BaseInv, TypeOK, Working
<1>4. /\ Inner \in Frame /\ Outer \in Seq(Frame) /\ Inner \in Frames(calls)
      /\ Frames(Outer) \subseteq Frames(calls)
  BY <1>3, CallFacts
<1>5. q \in Paths /\ Inside(Inner.from, q) /\ Inner.from \in Paths /\ Inner.to \in Paths
  BY <1>4, FrameFields DEF DirEntries
<1>6. /\ d \in Frame /\ d.fn = Inner.fn /\ d.from = Inner.from /\ d.to = Inner.to /\ d.open
  BY <1>1, <1>4, <1>5, SeenFields
<1>7. /\ n \in Frame /\ n.fn = Inner.fn /\ n.from = q /\ n.to = Moved(q, Inner.from, Inner.to)
      /\ n.seen = {}
  BY <1>2, <1>4, <1>5, FrameFields, NewCallFields
<1> HIDE DEF d, n
<1>8. calls' = Append(Append(Outer, d), n)
  BY <1>2 DEF d, n
<1>9. calls' \in Seq(Frame) /\ Frames(calls') = Frames(Outer) \cup {d, n}
  <2>1. Append(Outer, d) \in Seq(Frame) /\ Frames(Append(Outer, d)) = Frames(Outer) \cup {d}
    BY <1>4, <1>6, PushFacts
  <2> DEFINE s == Append(Outer, d)
  <2> HIDE DEF s
  <2>2. s \in Seq(Frame) /\ Frames(s) = Frames(Outer) \cup {d} /\ calls' = Append(s, n)
    BY <1>8, <2>1 DEF s
  <2>3. Append(s, n) \in Seq(Frame) /\ Frames(Append(s, n)) = Frames(s) \cup {n}
    BY <1>7, <2>2, PushFacts
  <2> QED  BY <2>2, <2>3
<1>10. CallsInv'
  <2>1. Source' = Source /\ Target(nth)' = Target(nth) /\ step' = step
    BY <1>1, SameRequest DEF Source
  <2>2. nth \in Sources /\ Source \in Paths /\ Target(nth) \in Paths
    <3>1. nth \in Sources
      BY <1>3 DEF BaseInv, PhaseInv
    <3> QED  BY <3>1, RequestFacts DEF BaseInv, TypeOK, Source
  <2>3. /\ Inside(Source, Inner.from)
        /\ step = "copying" =>
             Inner.fn = "copy" /\ Inner.to = Moved(Inner.from, Source, Target(nth))
        /\ step = "removing" => Inner.fn = "remove"
    BY <1>4 DEF BaseInv, CallsInv
  <2>4. Inside(Source, q)
    BY <1>5, <2>2, <2>3, InsideOrder, PathFacts
  <2>5. step = "copying" => n.to = Moved(q, Source, Target(nth))
    BY <1>5, <1>7, <2>2, <2>3, MovedBetween, PathFacts
  <2>6. ASSUME NEW c \in Frames(calls')
        PROVE  /\ Inside(Source, c.from)
               /\ step = "copying" => c.fn = "copy" /\ c.to = Moved(c.from, Source, Target(nth))
               /\ step = "removing" => c.fn = "remove"
               /\ ~c.open => c.seen = {}
    <3>1. CASE c \in Frames(Outer)
      BY <1>4, <3>1 DEF BaseInv, CallsInv
    <3>2. CASE c = d
      BY <1>6, <2>3, <3>2
    <3>3. CASE c = n
      BY <1>7, <2>3, <2>4, <2>5, <3>3
    <3> QED  BY <1>9, <2>6, <3>1, <3>2, <3>3
  <2> QED  BY <2>1, <2>6 DEF CallsInv
<1>11. IsTree(fs')
  BY <1>1, <1>3 DEF IsTree
<1> QED  BY <1>1, <1>3, <1>9, <1>10, <1>11, OpenedCopy, BaseWork

LEMMA CopyDirEndBase ==
  ASSUME BaseInv, UNCHANGED <<before, req>>, CopyDirEnd
  PROVE  BaseInv'
<1>1. /\ Working("copy") /\ Inner.open /\ calls' = Outer
      /\ misread' = (misread \/ ~(Inner.todo \subseteq Inner.seen))
      /\ UNCHANGED <<fs, step, nth, cancel, outcome>>
  BY DEF CopyDirEnd, SameTask
<1>2. IsTree(fs') /\ misread' \in BOOLEAN
  BY <1>1 DEF BaseInv, TypeOK, IsTree
<1> QED  BY <1>1, <1>2, OpenedCopy, BaseReturn

LEMMA RemoveBase ==
  ASSUME BaseInv, UNCHANGED <<before, req>>, RemoveFile \/ RemoveDirEnd
  PROVE  BaseInv' /\ IsTree(fs')
<1>1. /\ Working("remove") /\ fs' = [fs EXCEPT ![Inner.from] = "none"]
      /\ calls' = Outer /\ UNCHANGED <<step, nth, cancel, outcome, misread>>
      /\ fs[Inner.from] # "dir" \/ DirEntries(fs, Inner.from) = {}
  BY DEF RemoveFile, RemoveDirEnd, SameTask
<1>2. IsTree(fs) /\ misread \in BOOLEAN
  BY DEF BaseInv, TypeOK
<1>3. Inner.from \in Paths
  BY <1>1, RemovalAt
<1>4. IsTree(fs')
  <2>1. "none" \in Contents
    BY DEF Contents
  <2>2. \A q \in Paths : Inside(Inner.from, q) /\ q # Inner.from => fs[q] = "none"
    <3>1. CASE fs[Inner.from] # "dir"
      BY <1>2, <1>3, <3>1 DEF IsTree
    <3>2. CASE DirEntries(fs, Inner.from) = {}
      BY <1>2, <1>3, <3>2, BelowEmpty
    <3> QED  BY <1>1, <3>1, <3>2
  <2> QED  BY <1>1, <1>2, <1>3, <2>1, <2>2, WriteTree
<1>5. req.op # "delete" => ~Inside(Source, Target(nth))
  BY <1>1, RemovalAt
<1> QED  BY <1>1, <1>2, <1>4, <1>5, BaseReturn

LEMMA RemoveDirBase ==
  ASSUME BaseInv, UNCHANGED <<before, req>>, RemoveDir
  PROVE  BaseInv'
<1>1. Working("remove") /\ calls' = Opened /\ UNCHANGED <<fs, step, nth, cancel, outcome, misread>>
  BY DEF RemoveDir, SameTask
<1>2. IsTree(fs') /\ misread' \in BOOLEAN
  BY <1>1 DEF BaseInv, TypeOK, IsTree
<1>3. req.op # "delete" => ~Inside(Source, Target(nth))
  BY <1>1, RemovalAt
<1> QED  BY <1>1, <1>2, <1>3, BaseOpen

LEMMA AcceptBase ==
  ASSUME BaseInv, UNCHANGED <<before, req>>, Accept
  PROVE  BaseInv' /\ (req.op # "delete" => Admitted)
<1>1. /\ step = "request" /\ step' = "prepare" /\ fs = before /\ nth = 1 /\ outcome = ""
      /\ calls = <<>> /\ Acceptable /\ UNCHANGED <<fs, nth, calls, cancel, misread, outcome>>
  BY DEF Accept, BaseInv, PhaseInv
<1>2. ASSUME req.op # "delete" PROVE Admitted
  BY <1>1, <1>2 DEF Acceptable, ValidTarget, Admitted
<1>3. Sources' = Sources /\ Admitted' = Admitted /\ \A i : Target(i)' = Target(i)
  BY SameRequest
<1>4. TypeOK'
  BY <1>1 DEF BaseInv, TypeOK, Active, IsTree
<1>5. PhaseInv'
  BY <1>1, <1>2, <1>3 DEF PhaseInv
<1>6. Frames(calls') = {}
  BY <1>1, OneCall
<1>7. StuckInv'
  <2>1. ASSUME req.op # "delete", NEW i \in Sources, Inside(req.srcs[i], Target(i))
        PROVE  fs[req.srcs[i]] \notin {"none", "dir"}
    BY <1>1, <1>2, <2>1 DEF Admitted
  <2> QED  BY <1>1, <1>3, <2>1 DEF StuckInv
<1> QED  BY <1>2, <1>4, <1>5, <1>6, <1>7 DEF BaseInv, CallsInv

\* The end of the task.
LEMMA OverBase ==
  ASSUME BaseInv, UNCHANGED <<before, req, fs, nth, cancel, misread>>, step' = "over",
         calls' = <<>>, outcome' \in {"", "refused", "done", "failed", "canceled"}
  PROVE  BaseInv'
<1>1. Frames(calls') = {} /\ calls' \in Seq(Frame)
  BY OneCall, EmptySeq
<1>2. TypeOK'
  <2>1. before' \in Trees /\ req' \in Requests /\ nth' \in Nat \ {0} /\ cancel' \in BOOLEAN
        /\ misread' \in BOOLEAN
    BY DEF BaseInv, TypeOK
  <2>2. IsTree(fs')
    BY DEF BaseInv, TypeOK, IsTree
  <2> QED  BY <1>1, <2>1, <2>2 DEF TypeOK
<1>3. PhaseInv' /\ CallsInv' /\ StuckInv'
  BY <1>1 DEF PhaseInv, CallsInv, StuckInv, Active
<1> QED  BY <1>2, <1>3 DEF BaseInv

LEMMA CreateLateBase ==
  ASSUME BaseInv, UNCHANGED <<before, req>>, CreateLate
  PROVE  BaseInv'
<1>1. /\ step \notin {"request", "over"}
      /\ UNCHANGED <<step, nth, calls, cancel, misread, outcome>>
  BY DEF CreateLate
<1>2. PICK p \in Paths : fs[p] = "none" /\ fs[Parent(p)] = "dir" /\ fs' = [fs EXCEPT ![p] = Late]
  BY DEF CreateLate
<1>3. IsTree(fs) /\ Late \notin {"none", "dir", "special"} /\ fs \in [Paths -> Contents]
  BY RequestFacts DEF BaseInv, TypeOK, IsTree
<1>4. IsTree(fs')
  <2>1. Late \in Contents
    BY DEF Contents
  <2>2. \A r \in Paths : Inside(r, p) /\ r # p => fs[r] = "dir"
    BY <1>2, <1>3, AboveDirs
  <2>3. \A q \in Paths : Inside(p, q) /\ q # p => fs[q] = "none"
    BY <1>2, <1>3 DEF IsTree
  <2> QED  BY <1>2, <1>3, <2>1, <2>2, <2>3, WriteTree
<1>5. TypeOK'
  BY <1>1, <1>4 DEF BaseInv, TypeOK
<1>6. Sources' = Sources /\ Admitted' = Admitted /\ \A i : Target(i)' = Target(i)
  BY SameRequest
<1>7. Source' = Source /\ Target(nth)' = Target(nth) /\ Frames(calls') = Frames(calls)
  BY <1>1, <1>6 DEF Source
<1>8. PhaseInv' /\ CallsInv'
  BY <1>1, <1>6, <1>7 DEF BaseInv, PhaseInv, CallsInv, Active
<1>9. StuckInv'
  <2>1. ASSUME req.op # "delete", NEW i \in Sources, Inside(req.srcs[i], Target(i)),
               step \in Active
        PROVE  fs'[req.srcs[i]] \notin {"none", "dir"}
    <3>1. fs[req.srcs[i]] \notin {"none", "dir"} /\ req.srcs[i] \in Paths
      BY <2>1, RequestFacts DEF BaseInv, StuckInv, TypeOK
    <3> QED  BY <1>2, <1>3, <3>1
  <2> QED  BY <1>1, <1>6, <1>7, <2>1 DEF BaseInv, StuckInv
<1> QED  BY <1>5, <1>8, <1>9 DEF BaseInv

\* Steps between the sources, and a cancel, which leave the file system alone.
LEMMA BaseTurn ==
  ASSUME BaseInv, UNCHANGED <<before, req, fs, misread, outcome>>,
         step \in Active, step' \in Active, nth' \in Nat \ {0}, cancel' \in BOOLEAN,
         calls' \in Seq(Frame), CallsInv',
         step' \in {"prepare", "pick"} => calls' = <<>>,
         step' \in {"copying", "removing"} => nth' \in Sources,
         step' = "copying" => req.op # "delete" /\
           (Inside(req.srcs[nth'], Target(nth')) =>
              Frames(calls') = {NewCall("copy", req.srcs[nth'], Target(nth'))}),
         step' = "removing" /\ req.op # "delete" => ~Inside(req.srcs[nth'], Target(nth'))
  PROVE  BaseInv'
<1>1. Sources' = Sources /\ Admitted' = Admitted /\ \A i : Target(i)' = Target(i)
  BY SameRequest
<1>2. TypeOK'
  BY DEF BaseInv, TypeOK, IsTree
<1>3. PhaseInv'
  BY <1>1 DEF BaseInv, PhaseInv, Active
<1>4. Target(nth)' = Target(nth') /\ Source' = req.srcs[nth']
  BY DEF Target, Source
<1>5. StuckInv'
  BY <1>1, <1>4 DEF BaseInv, StuckInv
<1> QED  BY <1>2, <1>3, <1>5 DEF BaseInv

LEMMA TurnBase ==
  ASSUME BaseInv, UNCHANGED <<before, req>>,
         CancelTask \/ Prepare \/ CopySource \/ DeleteSource \/ Copied \/ SourceDone
  PROVE  BaseInv'
<1>1. UNCHANGED <<fs, misread, outcome>> /\ step \in Active
  BY DEF CancelTask, Prepare, CopySource, DeleteSource, Copied, SourceDone, BaseInv, TypeOK, Active
<1>2. nth \in Nat \ {0} /\ calls \in Seq(Frame) /\ cancel \in BOOLEAN
  BY DEF BaseInv, TypeOK
<1>3. CASE CancelTask
  <2>1. cancel' = TRUE /\ UNCHANGED <<step, nth, calls>>
    BY <1>3 DEF CancelTask
  <2>2. Source' = Source /\ Target(nth)' = Target(nth) /\ Frames(calls') = Frames(calls)
    BY <2>1, SameRequest DEF Source
  <2>3. CallsInv'
    BY <2>1, <2>2 DEF BaseInv, CallsInv
  <2>4. /\ step \in {"prepare", "pick"} => calls = <<>>
        /\ step \in {"copying", "removing"} => nth \in Sources
        /\ step = "copying" => req.op # "delete"
    BY DEF BaseInv, PhaseInv
  <2>5. /\ step = "copying" => (Inside(Source, Target(nth)) =>
             Frames(calls) = {NewCall("copy", Source, Target(nth))})
        /\ step = "removing" /\ req.op # "delete" => ~Inside(Source, Target(nth))
    BY DEF BaseInv, StuckInv
  <2> QED  BY <1>1, <1>2, <2>1, <2>3, <2>4, <2>5, BaseTurn DEF Source
<1>4. CASE Prepare \/ SourceDone
  <2>1. /\ step' = "pick" /\ nth' \in Nat \ {0} /\ calls = <<>> /\ UNCHANGED <<calls, cancel>>
    <3>1. CASE Prepare
      <4>1. step = "prepare" /\ step' = "pick" /\ UNCHANGED <<nth, calls, cancel>>
        BY <3>1 DEF Prepare
      <4> QED  BY <1>2, <4>1 DEF BaseInv, PhaseInv
    <3>2. CASE SourceDone
      <4>1. calls = <<>> /\ step' = "pick" /\ nth' = nth + 1 /\ UNCHANGED <<calls, cancel>>
        BY <3>2 DEF SourceDone
      <4> QED  BY <1>2, <4>1
    <3> QED  BY <1>4, <3>1, <3>2
  <2>2. Frames(calls') = {}
    BY <2>1, OneCall
  <2>3. CallsInv'
    BY <2>2 DEF CallsInv
  <2> QED  BY <1>1, <1>2, <2>1, <2>3, BaseTurn DEF Active
<1>5. ASSUME NEW fn \in {"copy", "remove"}, NEW to \in Paths, nth \in Sources,
             calls' = <<NewCall(fn, Source, to)>>, UNCHANGED <<nth, cancel>>,
             \/ step' = "copying" /\ fn = "copy" /\ to = Target(nth)
             \/ step' = "removing" /\ fn = "remove"
      PROVE  calls' \in Seq(Frame) /\ CallsInv' /\ Frames(calls') = {NewCall(fn, Source, to)}
  <2>1. Source \in Paths /\ Target(nth) \in Paths
    BY <1>5, RequestFacts DEF BaseInv, TypeOK, Source
  <2> DEFINE c == NewCall(fn, Source, to)
  <2>2. c \in Frame /\ c.fn = fn /\ c.from = Source /\ c.to = to /\ ~c.open /\ c.seen = {}
    BY <2>1, NewCallFields
  <2> HIDE DEF c
  <2>3. calls' = <<c>>
    BY <1>5 DEF c
  <2>4. calls' \in Seq(Frame) /\ Frames(calls') = {c}
    BY <2>2, <2>3, OneCall
  <2>5. Source' = Source /\ Target(nth)' = Target(nth)
    BY <1>5, SameRequest DEF Source
  <2>6. Inside(Source, Source) /\ Moved(Source, Source, Target(nth)) = Target(nth)
    BY <2>1, InsideOrder, MovedPath, PathFacts
  <2>7. CallsInv'
    BY <1>5, <2>2, <2>4, <2>5, <2>6 DEF CallsInv
  <2> QED  BY <2>4, <2>7 DEF c
<1>6. CASE CopySource
  <2>1. /\ nth \in Sources /\ step' = "copying" /\ calls' = <<NewCall("copy", Source, Target(nth))>>
        /\ UNCHANGED <<nth, cancel>> /\ req.op # "delete"
    BY <1>6 DEF CopySource
  <2>2. Target(nth) \in Paths
    BY <2>1, RequestFacts DEF BaseInv, TypeOK
  <2>3. calls' \in Seq(Frame) /\ CallsInv' /\ Frames(calls') = {NewCall("copy", Source, Target(nth))}
    BY <1>5, <2>1, <2>2
  <2> QED  BY <1>1, <1>2, <2>1, <2>3, BaseTurn DEF Active, Source
<1>7. CASE DeleteSource \/ Copied
  <2>1. /\ nth \in Sources /\ step' = "removing" /\ calls' = <<NewCall("remove", Source, Source)>>
        /\ UNCHANGED <<nth, cancel>>
    BY <1>7 DEF DeleteSource, Copied, BaseInv, PhaseInv
  <2>2. Source \in Paths
    BY <2>1, RequestFacts DEF BaseInv, TypeOK, Source
  <2>3. calls' \in Seq(Frame) /\ CallsInv'
    BY <1>5, <2>1, <2>2
  <2>4. req.op # "delete" => ~Inside(Source, Target(nth))
    <3>1. CASE DeleteSource
      BY <3>1 DEF DeleteSource
    <3>2. CASE Copied
      <4>1. step = "copying" /\ Frames(calls) = {}
        BY <3>2, OneCall DEF Copied
      <4> QED  BY <4>1 DEF BaseInv, StuckInv
    <3> QED  BY <1>7, <3>1, <3>2
  <2> QED  BY <1>1, <1>2, <2>1, <2>3, <2>4, BaseTurn DEF Active, Source
<1> QED  BY <1>3, <1>4, <1>6, <1>7

\* What rename() does to the tree.
LEMMA RenameFacts ==
  ASSUME BaseInv, RenameSource
  PROVE  LET from == Source
             to == Target(nth)
         IN /\ step = "pick" /\ nth \in Sources /\ req.op # "delete" /\ Admitted
            /\ from \in Paths /\ to \in Paths /\ ~Inside(from, to) /\ fs[to] # "dir"
            /\ fs[Parent(to)] = "dir"
            /\ \A p \in Paths :
                 /\ Inside(from, p) => fs'[p] = "none"
                 /\ ~Inside(from, p) /\ ~Inside(to, p) => fs'[p] = fs[p]
            /\ \A q \in Paths : Inside(from, q) /\ fs[q] # "none" =>
                 /\ Moved(q, from, to) \in Paths
                 /\ ~Inside(from, Moved(q, from, to)) => fs'[Moved(q, from, to)] = fs[q]
<1> DEFINE from == Source
           to == Target(nth)
<1>1. /\ step = "pick" /\ nth \in Sources /\ req.op = "move"
      /\ fs[from] # "none" /\ fs[Parent(to)] = "dir" /\ ~Inside(from, to)
      /\ \A p \in Paths : Inside(from, p) /\ fs[p] # "none" => Moved(p, from, to) \in Paths
      /\ IF fs[from] = "dir" THEN fs[to] = "none" ELSE fs[to] # "dir"
      /\ fs' = [p \in Paths |->
             IF Inside(from, p) THEN "none"
             ELSE IF Inside(to, p) /\ Moved(p, to, from) \in Paths
             THEN fs[Moved(p, to, from)] ELSE fs[p]]
  BY DEF RenameSource
<1>2. from \in Paths /\ to \in Paths
  BY <1>1, RequestFacts DEF BaseInv, TypeOK, Source
<1>3. Admitted
  BY <1>1 DEF BaseInv, PhaseInv, Active
<1>4. fs[to] # "dir"
  BY <1>1
<1>5. ASSUME NEW p \in Paths
      PROVE  /\ Inside(from, p) => fs'[p] = "none"
             /\ ~Inside(from, p) /\ ~Inside(to, p) => fs'[p] = fs[p]
             /\ ~Inside(from, p) /\ Inside(to, p) /\ Moved(p, to, from) \in Paths
                  => fs'[p] = fs[Moved(p, to, from)]
  BY <1>1
<1>6. ASSUME NEW q \in Paths, Inside(from, q), fs[q] # "none"
      PROVE  /\ Moved(q, from, to) \in Paths
             /\ ~Inside(from, Moved(q, from, to)) => fs'[Moved(q, from, to)] = fs[q]
  <2>1. Moved(q, from, to) \in Paths
    BY <1>1, <1>6
  <2>2. Inside(to, Moved(q, from, to)) /\ Moved(Moved(q, from, to), to, from) = q
    BY <1>2, <1>6, MovedPath, PathFacts
  <2> QED  BY <1>5, <2>1, <2>2
<1> QED  BY <1>1, <1>2, <1>3, <1>4, <1>5, <1>6

LEMMA RenameBase ==
  ASSUME BaseInv, UNCHANGED <<before, req>>, RenameSource
  PROVE  BaseInv'
<1>1. /\ step = "pick" /\ nth \in Sources /\ req.op # "delete" /\ Admitted
      /\ Source \in Paths /\ Target(nth) \in Paths /\ ~Inside(Source, Target(nth))
      /\ fs[Target(nth)] # "dir" /\ fs[Parent(Target(nth))] = "dir"
  BY RenameFacts
<1>2. nth' = nth + 1 /\ UNCHANGED <<step, calls, cancel, misread, outcome>>
  BY DEF RenameSource
<1>3. IsTree(fs')
  <2>1. IsTree(fs)
    BY DEF BaseInv, TypeOK
  <2>2. fs' = [p \in Paths |->
             IF Inside(Source, p) THEN "none"
             ELSE IF Inside(Target(nth), p) /\ Moved(p, Target(nth), Source) \in Paths
             THEN fs[Moved(p, Target(nth), Source)] ELSE fs[p]]
    BY DEF RenameSource
  <2> QED  BY <1>1, <2>1, <2>2, RenameTree
<1>4. TypeOK'
  <2>1. nth' \in Nat \ {0}
    <3>1. nth \in Nat \ {0} /\ nth' = nth + 1
      BY <1>2 DEF BaseInv, TypeOK
    <3> QED  BY <3>1
  <2> QED  BY <1>2, <1>3, <2>1 DEF BaseInv, TypeOK
<1>5. Sources' = Sources /\ Admitted' = Admitted /\ \A i : Target(i)' = Target(i)
  BY SameRequest
<1>6. calls' = <<>> /\ Frames(calls') = {}
  BY <1>1, <1>2, OneCall DEF BaseInv, PhaseInv
<1>7. PhaseInv' /\ CallsInv'
  BY <1>1, <1>2, <1>5, <1>6 DEF PhaseInv, CallsInv
<1>8. StuckInv'
  <2>1. ASSUME NEW i \in Sources, Inside(req.srcs[i], Target(i)) PROVE FALSE
    BY <1>1, <2>1, StuckAlone DEF BaseInv, TypeOK, Source
  <2> QED  BY <1>1, <1>2, <1>5, <2>1 DEF StuckInv
<1> QED  BY <1>4, <1>7, <1>8 DEF BaseInv

LEMMA BaseStep == BaseInv /\ [TreeNext]_treeVars => BaseInv'
<1> SUFFICES ASSUME BaseInv, [TreeNext]_treeVars PROVE BaseInv'
  OBVIOUS
<1>1. CASE UNCHANGED treeVars
  <2>1. UNCHANGED <<before, fs, req, step, nth, calls, cancel, misread, outcome>>
    BY <1>1 DEF treeVars
  <2>2. Sources' = Sources /\ Admitted' = Admitted /\ \A i : Target(i)' = Target(i)
    BY <2>1, SameRequest
  <2>3. Source' = Source /\ Target(nth)' = Target(nth) /\ Frames(calls') = Frames(calls)
    BY <2>1, <2>2 DEF Source
  <2> QED  BY <2>1, <2>2, <2>3, ZenonT(30)
           DEF BaseInv, TypeOK, IsTree, PhaseInv, CallsInv, StuckInv, Active
<1>2. CASE TreeNext
  <2>1. UNCHANGED <<before, req>>
    BY <1>2 DEF TreeNext
  <2>2. CASE Reject \/ TaskDone \/ Fails
    <3>1. /\ UNCHANGED <<fs, nth, cancel, misread>> /\ step' = "over" /\ calls' = <<>>
          /\ outcome' \in {"", "refused", "done", "failed", "canceled"}
      BY <2>2 DEF Reject, TaskDone, Fails, BaseInv, PhaseInv
    <3> QED  BY <2>1, <3>1, OverBase
  <2> QED  BY <1>2, <2>1, <2>2, AcceptBase, CreateLateBase, TurnBase, CopyFileBase, CopyDirBase,
              NextEntryBase, CopyDirEndBase, RemoveBase, RemoveDirBase, RenameBase DEF TreeNext
<1> QED  BY <1>1, <1>2

\* The shape of the work (copy_path, remove_path and their recursion): the file
\* system stays a tree, each call in progress works inside its source and copies
\* to the place that its path has below the target, and a source whose target
\* is below it is never copied.
THEOREM BaseInvariance == TreeSpec => []BaseInv
BY InitBase, BaseStep, PTL DEF TreeSpec

-------------------------------------------------------------------------------
(* The steps keep LossInv.                                                 *)

LEMMA KeptFacts ==
  ASSUME before \in Trees, req \in Requests, NEW c \in Kept
  PROVE  c \notin {"none", "dir", Late}
<1>1. PICK p \in Paths : c = before[p] /\ IsFile(before[p])
  BY DEF Kept
<1> QED  BY <1>1, RequestFacts DEF IsFile

\* A copied file of a source may stand for the one that goes.
LEMMA MovedAway ==
  ASSUME before \in Trees, req \in Requests, OneTargetEach, nth \in Nat, nth \in Sources,
         ~Inside(Source, Target(nth)), NEW q \in Paths, Clear(q, nth), Inside(Source, q),
         Moved(q, Source, Target(nth)) \in Paths
  PROVE  LET m == Moved(q, Source, Target(nth)) IN Clear(m, nth + 1) /\ ~Inside(Source, m)
<1> DEFINE m == Moved(q, Source, Target(nth))
<1>1. Source \in Paths /\ Target(nth) \in Paths /\ \A k \in Sources : Target(k) \in Paths
  BY RequestFacts DEF Source
<1>2. Source \in Seq(Names) /\ Target(nth) \in Seq(Names) /\ q \in Seq(Names)
  BY <1>1, PathFacts
<1>3. Inside(Target(nth), m)
  BY <1>2, MovedPath
<1>4. ~Inside(Target(nth), q)
  BY DEF Clear
<1>5. m \in Paths
  OBVIOUS
<1> HIDE DEF m
<1>6. ~Inside(Source, m)
  <2>1. ~Inside(Target(nth), Source)
    BY <1>2, <1>4, InsideOrder
  <2> QED  BY <1>2, <1>3, <1>5, <2>1, InsideOrder, PathFacts
<1>7. ASSUME NEW k \in Sources, k >= nth + 1 PROVE ~Inside(Target(k), m)
  <2>1. k # nth
    BY <1>7, RequestFacts
  <2> QED  BY <1>3, <1>5, <2>1, TargetsApart
<1> QED  BY <1>6, <1>7 DEF Clear, m

LEMMA AcceptLoss ==
  ASSUME BaseInv, UNCHANGED <<before, req>>, Accept, req.op # "delete"
  PROVE  CopyInv' /\ KeptInv'
<1>1. step = "request" /\ step' = "prepare" /\ fs = before /\ nth = 1 /\ fs' = fs /\ nth' = nth
  BY DEF Accept, BaseInv, PhaseInv
<1>2. Admitted
  BY AcceptBase
<1>3. /\ IsTree(before) /\ \A i \in Sources : Target(i) \in Paths
  BY RequestFacts DEF BaseInv, TypeOK
<1>4. ASSUME NEW p \in Paths, IsFile(before[p]), ~Overwritable(p), NEW k \in Sources
      PROVE  ~Inside(Target(k), p)
  <2> SUFFICES ASSUME Inside(Target(k), p) PROVE FALSE
    OBVIOUS
  <2>1. ~req.overwrite
    BY <1>4 DEF Overwritable
  <2>2. before[Target(k)] = "none"
    BY <1>2, <2>1 DEF Admitted
  <2>3. p # Target(k) /\ before[p] # "none"
    BY <1>4, <2>2 DEF IsFile
  <2> QED  BY <1>3, <2>2, <2>3 DEF IsTree
<1>5. Kept' = Kept /\ Sources' = Sources /\ \A i : Target(i)' = Target(i)
  BY SameRequest
<1>6. ASSUME NEW c \in Kept PROVE \E q \in Paths : fs'[q] = c /\ Safe(q)'
  <2>1. PICK p \in Paths : c = before[p] /\ IsFile(before[p]) /\ ~Overwritable(p)
    BY DEF Kept
  <2>2. Safe(p)'
    BY <1>1, <1>4, <1>5, <2>1 DEF Safe, Clear
  <2> QED  BY <1>1, <2>1, <2>2
<1> QED  BY <1>1, <1>5, <1>6 DEF CopyInv, KeptInv

\* A step that leaves what is kept where it is.
LEMMA KeptStays ==
  ASSUME KeptInv, UNCHANGED <<before, req>>,
         \A q \in Paths : fs[q] \in Kept /\ Safe(q) => fs'[q] = fs[q] /\ Safe(q)'
  PROVE  KeptInv'
<1>1. Kept' = Kept
  BY SameRequest
<1>2. ASSUME NEW c \in Kept PROVE \E q \in Paths : fs'[q] = c /\ Safe(q)'
  BY <1>2 DEF KeptInv
<1> QED  BY <1>1, <1>2 DEF KeptInv

LEMMA SafeStays ==
  ASSUME UNCHANGED <<before, req, step, nth>>
  PROVE  /\ \A q : Safe(q)' = Safe(q)
         /\ Source' = Source /\ \A i : Target(i)' = Target(i)
<1>1. Sources' = Sources /\ \A i : Target(i)' = Target(i)
  BY SameRequest
<1>2. Source' = Source
  BY DEF Source
<1>3. \A q : Clear(q, nth)' = Clear(q, nth) /\ Clear(q, nth + 1)' = Clear(q, nth + 1)
  BY <1>1 DEF Clear
<1>4. \A q : Safe(q)' = Safe(q)
  BY <1>2, <1>3 DEF Safe
<1> QED  BY <1>1, <1>2, <1>4

\* The copies of files stay, if what is written is not written over one.
LEMMA CopyStays ==
  ASSUME BaseInv, CopyInv, step = "copying", UNCHANGED <<before, req, step, nth>>,
         NEW to \in Paths, NEW x, Inside(Target(nth), to), fs' = [fs EXCEPT ![to] = x],
         \A q \in Paths : Inside(Source, q) /\ fs[q] = fs[to] /\ IsFile(fs[q])
             /\ to = Moved(q, Source, Target(nth)) => x = fs[q],
         \A q \in Paths : /\ Inside(Source, q) /\ ~Inside(Target(nth), q)
                          /\ IsFile(fs[q]) /\ fs[q] # Late /\ Pending(q)
                          => Pending(q)' \/ HasCopy(q)'
  PROVE  CopyInv'
<1>1. Source' = Source /\ Target(nth)' = Target(nth)
  BY SafeStays
<1>2. fs \in [Paths -> Contents]
  BY DEF BaseInv, TypeOK, IsTree
<1>3. ASSUME NEW q \in Paths, Inside(Source, q), ~Inside(Target(nth), q), IsFile(fs'[q]), fs'[q] # Late
      PROVE  Pending(q)' \/ HasCopy(q)'
  <2>1. q # to /\ fs'[q] = fs[q]
    BY <1>2, <1>3
  <2>2. Pending(q) \/ HasCopy(q)
    BY <1>3, <2>1 DEF CopyInv
  <2>3. CASE HasCopy(q)
    <3> DEFINE m == Moved(q, Source, Target(nth))
    <3>1. m \in Paths /\ fs[m] = fs[q]
      BY <2>3 DEF HasCopy
    <3>2. fs'[m] = fs[q]
      <4>1. CASE m = to
        BY <1>2, <1>3, <2>1, <3>1, <4>1
      <4>2. CASE m # to
        BY <1>2, <3>1, <4>2
      <4> QED  BY <4>1, <4>2
    <3> QED  BY <1>1, <2>1, <3>1, <3>2 DEF HasCopy
  <2> QED  BY <1>3, <2>1, <2>2, <2>3
<1> QED  BY <1>1, <1>3 DEF CopyInv

\* What is written while copying is written to the target, where nothing safe stands.
LEMMA KeptByCopy ==
  ASSUME BaseInv, KeptInv, Working("copy"), UNCHANGED <<before, req, step, nth>>,
         NEW x, fs' = [fs EXCEPT ![Inner.to] = x]
  PROVE  KeptInv'
<1>1. step = "copying" /\ nth \in Sources /\ Inner.to \in Paths /\ Inside(Target(nth), Inner.to)
  BY CopyAt
<1>2. fs \in [Paths -> Contents] /\ nth \in Nat
  BY DEF BaseInv, TypeOK, IsTree
<1>3. ASSUME NEW q \in Paths, Safe(q) PROVE fs'[q] = fs[q] /\ Safe(q)'
  <2>1. ~Inside(Target(nth), q)
    BY <1>1, <1>2, <1>3 DEF Safe, Clear
  <2>2. q # Inner.to
    BY <1>1, <2>1
  <2> QED  BY <1>1, <1>2, <1>3, <2>2, SafeStays
<1> QED  BY <1>3, KeptStays

LEMMA CopyFileLoss ==
  ASSUME BaseInv, CopyInv, KeptInv, UNCHANGED <<before, req>>, CopyFile
  PROVE  CopyInv' /\ KeptInv'
<1>1. /\ Working("copy") /\ ~Inner.open /\ IsFile(fs[Inner.from])
      /\ fs' = [fs EXCEPT ![Inner.to] = fs[Inner.from]]
      /\ calls' = Outer /\ UNCHANGED <<step, nth>>
  BY DEF CopyFile, SameTask
<1>2. /\ step = "copying" /\ nth \in Sources /\ Source \in Paths /\ Target(nth) \in Paths
      /\ Inner.from \in Paths /\ Inner.to \in Paths /\ Inside(Source, Inner.from)
      /\ Inner.to = Moved(Inner.from, Source, Target(nth)) /\ Inside(Target(nth), Inner.to)
      /\ calls # <<>>
  BY <1>1, CopyAt
<1>3. /\ IsTree(fs) /\ fs \in [Paths -> Contents] /\ calls \in Seq(Frame)
  BY DEF BaseInv, TypeOK, IsTree
<1>4. Source' = Source /\ Target(nth)' = Target(nth)
  BY <1>1, SafeStays
<1>5. ASSUME NEW q \in Paths, Inside(Source, q), Inner.to = Moved(q, Source, Target(nth))
      PROVE  q = Inner.from
  <2>1. Source \in Seq(Names) /\ Target(nth) \in Seq(Names) /\ q \in Seq(Names)
        /\ Inner.from \in Seq(Names)
    BY <1>2, PathFacts
  <2>2. Moved(Inner.to, Target(nth), Source) = q
    BY <1>5, <2>1, MovedPath
  <2>3. Moved(Inner.to, Target(nth), Source) = Inner.from
    BY <1>2, <2>1, MovedPath
  <2> QED  BY <2>2, <2>3
<1>6. ASSUME NEW q \in Paths, Inside(Source, q), ~Inside(Target(nth), q), IsFile(fs[q]), Pending(q)
      PROVE  Pending(q)' \/ HasCopy(q)'
  <2>1. PICK c \in Frames(calls) :
          Inside(c.from, q) /\ (~c.open \/ \E e \in c.todo \ c.seen : Inside(e, q))
    BY <1>6 DEF Pending
  <2>2. CASE c \in Frames(Outer)
    BY <1>1, <2>1, <2>2 DEF Pending
  <2>3. CASE c = Inner
    <3>1. q = Inner.from
      BY <1>1, <1>2, <1>3, <1>6, <2>1, <2>3 DEF IsTree, IsFile
    <3>2. q # Inner.to
      BY <1>2, <1>6
    <3>3. fs'[Inner.to] = fs'[q]
      BY <1>1, <1>2, <1>3, <3>1, <3>2
    <3> QED  BY <1>2, <1>4, <3>1, <3>3 DEF HasCopy
  <2> QED  BY <1>2, <1>3, <2>1, <2>2, <2>3, CallFacts
<1>7. CopyInv'
  BY <1>1, <1>2, <1>5, <1>6, CopyStays, ZenonT(30)
<1> QED  BY <1>1, <1>7, KeptByCopy

\* copy_dir owes what it found in the directory.
LEMMA CopyDirPending ==
  ASSUME BaseInv, CopyDir, NEW q \in Paths, Pending(q), q # Inner.from, fs[q] # "none"
  PROVE  Pending(q)'
<1>1. /\ calls # <<>> /\ Inner \in Frame /\ Inner.from \in Paths /\ Inner.seen = {}
      /\ calls' = Opened
  BY CopyAt DEF CopyDir
<1>2. IsTree(fs) /\ calls \in Seq(Frame)
  BY DEF BaseInv, TypeOK
<1> DEFINE T == DirEntries(fs, Inner.from)
           d == [Inner EXCEPT !.open = TRUE, !.todo = T]
<1>3. T \in SUBSET Paths
  BY DEF DirEntries
<1>4. d \in Frame /\ d.from = Inner.from /\ d.todo = T /\ d.seen = {}
  BY <1>1, <1>3, OpenedFields, ZenonT(30)
<1>5. calls' = Append(Outer, d)
  BY <1>1 DEF Opened
<1> HIDE DEF d
<1>6. Frames(calls') = Frames(Outer) \cup {d} /\ Frames(calls) = Frames(Outer) \cup {Inner}
  BY <1>1, <1>2, <1>4, <1>5, CallFacts, PushFacts
<1>7. PICK c \in Frames(calls) :
        Inside(c.from, q) /\ (~c.open \/ \E e \in c.todo \ c.seen : Inside(e, q))
  BY DEF Pending
<1>8. CASE c \in Frames(Outer)
  BY <1>6, <1>7, <1>8 DEF Pending
<1>9. CASE c = Inner
  <2>1. PICK e \in Paths :
          Len(e) = Len(Inner.from) + 1 /\ Inside(Inner.from, e) /\ Inside(e, q)
    BY <1>1, <1>7, <1>9, StepDown
  <2>2. fs[e] # "none"
    BY <1>2, <2>1 DEF IsTree
  <2>3. e \in d.todo \ d.seen
    BY <1>4, <2>1, <2>2 DEF DirEntries
  <2> QED  BY <1>4, <1>6, <1>7, <1>9, <2>1, <2>3 DEF Pending
<1> QED  BY <1>6, <1>7, <1>8, <1>9

LEMMA CopyDirLoss ==
  ASSUME BaseInv, CopyInv, KeptInv, UNCHANGED <<before, req>>, CopyDir
  PROVE  CopyInv' /\ KeptInv'
<1>1. /\ Working("copy") /\ fs[Inner.from] = "dir" /\ fs[Inner.to] \in {"none", "dir"}
      /\ fs' = [fs EXCEPT ![Inner.to] = "dir"] /\ UNCHANGED <<step, nth>>
  BY DEF CopyDir, SameTask
<1>2. step = "copying" /\ Inner.to \in Paths /\ Inside(Target(nth), Inner.to)
  BY <1>1, CopyAt
<1>3. \A q \in Paths : IsFile(fs[q]) /\ Pending(q) => Pending(q)'
  BY <1>1, CopyDirPending DEF IsFile
<1>4. ~IsFile(fs[Inner.to])
  BY <1>1 DEF IsFile
<1>5. CopyInv'
  BY <1>1, <1>2, <1>3, <1>4, CopyStays
<1> QED  BY <1>1, <1>5, KeptByCopy

\* Steps of a call that change nothing but the calls.
LEMMA CallsLoss ==
  ASSUME BaseInv, CopyInv, KeptInv, UNCHANGED <<before, req, fs, step, nth>>,
         \A q \in Paths : step = "copying" /\ Pending(q) => Pending(q)'
  PROVE  CopyInv' /\ KeptInv'
<1>1. Source' = Source /\ Target(nth)' = Target(nth) /\ \A q : Safe(q)' = Safe(q)
  BY SafeStays
<1>2. \A q : HasCopy(q)' = HasCopy(q)
  BY <1>1 DEF HasCopy
<1>3. CopyInv'
  BY <1>1, <1>2 DEF CopyInv
<1>4. KeptInv'
  BY <1>1, KeptStays
<1> QED  BY <1>3, <1>4

LEMMA NextEntryPending ==
  ASSUME BaseInv, NextEntry, NEW q \in Paths, Pending(q)
  PROVE  Pending(q)'
<1>1. Inner.open
  BY DEF NextEntry
<1>2. PICK x \in DirEntries(fs, Inner.from) \ Inner.seen :
        /\ Moved(x, Inner.from, Inner.to) \in Paths
        /\ calls' = Append(Append(Outer, [Inner EXCEPT !.seen = @ \union {x}]),
                           NewCall(Inner.fn, x, Moved(x, Inner.from, Inner.to)))
  BY DEF NextEntry
<1>3. calls \in Seq(Frame) /\ calls # <<>>
  BY DEF BaseInv, TypeOK, NextEntry, Working
<1>4. /\ Inner \in Frame /\ Outer \in Seq(Frame) /\ Frames(calls) = Frames(Outer) \cup {Inner}
  BY <1>3, CallFacts
<1>5. x \in Paths
  BY <1>2 DEF DirEntries
<1> DEFINE d == [Inner EXCEPT !.seen = @ \union {x}]
           n == NewCall(Inner.fn, x, Moved(x, Inner.from, Inner.to))
<1>6. d \in Frame /\ d.from = Inner.from /\ d.todo = Inner.todo /\ d.seen = Inner.seen \cup {x}
  BY <1>4, <1>5, SeenFields
<1>7. n \in Frame /\ n.from = x /\ ~n.open
  <2>1. Inner.fn \in {"copy", "remove"} /\ Moved(x, Inner.from, Inner.to) \in Paths
    BY <1>2, <1>4, FrameFields
  <2> QED  BY <1>5, <2>1, NewCallFields
<1> HIDE DEF d, n
<1>8. Frames(calls') = Frames(Outer) \cup {d, n}
  <2> DEFINE s == Append(Outer, d)
  <2>1. s \in Seq(Frame) /\ Frames(s) = Frames(Outer) \cup {d}
    BY <1>4, <1>6, PushFacts
  <2>2. calls' = Append(s, n)
    BY <1>2 DEF d, n
  <2> HIDE DEF s
  <2>3. Append(s, n) \in Seq(Frame) /\ Frames(Append(s, n)) = Frames(s) \cup {n}
    BY <1>7, <2>1, PushFacts
  <2> QED  BY <2>1, <2>2, <2>3
<1>9. PICK c \in Frames(calls) :
        Inside(c.from, q) /\ (~c.open \/ \E e \in c.todo \ c.seen : Inside(e, q))
  BY DEF Pending
<1>10. CASE c \in Frames(Outer)
  BY <1>8, <1>9, <1>10 DEF Pending
<1>11. CASE c = Inner
  <2>1. PICK e \in Inner.todo \ Inner.seen : Inside(e, q)
    BY <1>1, <1>9, <1>11
  <2>2. CASE e = x
    BY <1>7, <1>8, <2>1, <2>2 DEF Pending
  <2>3. CASE e # x
    BY <1>6, <1>8, <1>9, <1>11, <2>1, <2>3 DEF Pending
  <2> QED  BY <2>2, <2>3
<1> QED  BY <1>4, <1>9, <1>10, <1>11

\* A directory that was read to its end owes nothing.
LEMMA CopyDirEndPending ==
  ASSUME BaseInv, CopyDirEnd, ~misread', NEW q \in Paths, Pending(q)
  PROVE  Pending(q)'
<1>1. /\ calls # <<>> /\ Inner.open /\ calls' = Outer /\ Inner.todo \subseteq Inner.seen
  BY DEF CopyDirEnd, Working
<1>2. Frames(calls) = Frames(Outer) \cup {Inner}
  BY <1>1, CallFacts DEF BaseInv, TypeOK
<1> QED  BY <1>1, <1>2 DEF Pending

LEMMA RemoveLoss ==
  ASSUME BaseInv, KeptInv, UNCHANGED <<before, req>>, RemoveFile \/ RemoveDirEnd
  PROVE  CopyInv' /\ KeptInv'
<1>1. /\ Working("remove") /\ fs' = [fs EXCEPT ![Inner.from] = "none"]
      /\ UNCHANGED <<step, nth>>
  BY DEF RemoveFile, RemoveDirEnd, SameTask
<1>2. step = "removing" /\ Inner.from \in Paths /\ Inside(Source, Inner.from)
  BY <1>1, RemovalAt
<1>3. fs \in [Paths -> Contents]
  BY DEF BaseInv, TypeOK, IsTree
<1>4. ASSUME NEW q \in Paths, Safe(q) PROVE fs'[q] = fs[q] /\ Safe(q)'
  <2>1. q # Inner.from
    BY <1>2, <1>4 DEF Safe
  <2> QED  BY <1>1, <1>2, <1>3, <1>4, <2>1, SafeStays
<1>5. KeptInv'
  BY <1>4, KeptStays
<1> QED  BY <1>1, <1>2, <1>5 DEF CopyInv

LEMMA CreateLateLoss ==
  ASSUME BaseInv, CopyInv, KeptInv, UNCHANGED <<before, req>>, CreateLate
  PROVE  CopyInv' /\ KeptInv'
<1>1. UNCHANGED <<step, nth, calls>>
  BY DEF CreateLate
<1>2. PICK p \in Paths : fs[p] = "none" /\ fs' = [fs EXCEPT ![p] = Late]
  BY DEF CreateLate
<1>3. fs \in [Paths -> Contents]
  BY DEF BaseInv, TypeOK, IsTree
<1>4. Source' = Source /\ Target(nth)' = Target(nth) /\ \A q : Safe(q)' = Safe(q)
  BY <1>1, SafeStays
<1>5. \A q : Pending(q)' = Pending(q)
  BY <1>1 DEF Pending
<1>6. \A q \in Paths : q # p => fs'[q] = fs[q]
  BY <1>2, <1>3
<1>7. CopyInv'
  <2>1. ASSUME NEW q \in Paths, IsFile(fs'[q]), fs'[q] # Late
        PROVE  IsFile(fs[q]) /\ fs[q] # Late /\ (HasCopy(q) => HasCopy(q)')
    <3>1. fs'[q] = fs[q]
      BY <1>2, <1>3, <2>1
    <3>2. ASSUME NEW m \in Paths, fs[m] = fs[q] PROVE fs'[m] = fs'[q]
      BY <1>2, <1>6, <2>1, <3>1, <3>2 DEF IsFile
    <3> QED  BY <1>4, <2>1, <3>1, <3>2 DEF HasCopy
  <2> QED  BY <1>1, <1>4, <1>5, <2>1 DEF CopyInv
<1>8. KeptInv'
  <2>1. \A q \in Paths : fs[q] \in Kept => fs[q] # "none"
    BY KeptFacts DEF BaseInv, TypeOK
  <2> QED  BY <1>2, <1>4, <1>6, <2>1, KeptStays
<1> QED  BY <1>7, <1>8

LEMMA RenameLoss ==
  ASSUME BaseInv, KeptInv, UNCHANGED <<before, req>>, RenameSource, OneTargetEach
  PROVE  CopyInv' /\ KeptInv'
<1> DEFINE from == Source
           to == Target(nth)
<1>1. /\ step = "pick" /\ nth \in Sources /\ from \in Paths /\ to \in Paths /\ ~Inside(from, to)
      /\ \A p \in Paths : ~Inside(from, p) /\ ~Inside(to, p) => fs'[p] = fs[p]
      /\ \A q \in Paths : Inside(from, q) /\ fs[q] # "none" =>
           /\ Moved(q, from, to) \in Paths
           /\ ~Inside(from, Moved(q, from, to)) => fs'[Moved(q, from, to)] = fs[q]
  BY RenameFacts
<1>2. nth' = nth + 1 /\ step' = "pick" /\ nth \in Nat
  BY <1>1 DEF RenameSource, BaseInv, TypeOK
<1>3. Kept' = Kept /\ Sources' = Sources /\ \A i : Target(i)' = Target(i)
  BY SameRequest
<1>4. ASSUME NEW c \in Kept PROVE \E q \in Paths : fs'[q] = c /\ Safe(q)'
  <2>1. PICK q \in Paths : fs[q] = c /\ Clear(q, nth)
    BY <1>1 DEF KeptInv, Safe
  <2>2. c # "none"
    BY KeptFacts DEF BaseInv, TypeOK
  <2>3. ASSUME NEW m \in Paths, Clear(m, nth + 1) PROVE Safe(m)'
    BY <1>2, <1>3, <2>3 DEF Safe, Clear
  <2>4. CASE ~Inside(from, q)
    <3>1. ~Inside(to, q) /\ Clear(q, nth + 1)
      BY <1>1, <1>2, <2>1, ClearOfTheRest DEF Clear
    <3> QED  BY <1>1, <2>1, <2>3, <2>4, <3>1
  <2>5. CASE Inside(from, q)
    <3> DEFINE m == Moved(q, from, to)
    <3>1. m \in Paths /\ (~Inside(from, m) => fs'[m] = fs[q])
      BY <1>1, <2>1, <2>2, <2>5
    <3>2. Clear(m, nth + 1) /\ ~Inside(from, m)
      BY <1>1, <1>2, <2>1, <2>5, <3>1, MovedAway DEF BaseInv, TypeOK
    <3> HIDE DEF m
    <3> QED  BY <2>1, <2>3, <3>1, <3>2
  <2> QED  BY <2>4, <2>5
<1> QED  BY <1>2, <1>3, <1>4 DEF CopyInv, KeptInv

\* The copy is whole when the last call has returned: the source may go.
LEMMA CopiedLoss ==
  ASSUME BaseInv, CopyInv, KeptInv, UNCHANGED <<before, req>>, Copied, OneTargetEach
  PROVE  CopyInv' /\ KeptInv'
<1>1. /\ step = "copying" /\ calls = <<>> /\ step' = "removing" /\ nth' = nth /\ fs' = fs
      /\ nth \in Sources /\ nth \in Nat
  BY DEF Copied, BaseInv, TypeOK, PhaseInv
<1>2. Frames(calls) = {}
  BY <1>1, OneCall
<1>3. ~Inside(Source, Target(nth))
  BY <1>1, <1>2 DEF BaseInv, StuckInv
<1>4. Kept' = Kept /\ Sources' = Sources /\ Source' = Source /\ \A i : Target(i)' = Target(i)
  BY <1>1, SameRequest DEF Source
<1>5. ASSUME NEW c \in Kept PROVE \E q \in Paths : fs'[q] = c /\ Safe(q)'
  <2>1. PICK q \in Paths : fs[q] = c /\ Clear(q, nth)
    BY <1>1 DEF KeptInv, Safe
  <2>2. ASSUME NEW m \in Paths, Clear(m, nth + 1), ~Inside(Source, m) PROVE Safe(m)'
    BY <1>1, <1>4, <2>2 DEF Safe, Clear
  <2>3. CASE ~Inside(Source, q)
    <3>1. Clear(q, nth + 1)
      BY <2>1, ClearOfTheRest
    <3> QED  BY <1>1, <2>1, <2>2, <2>3, <3>1
  <2>4. CASE Inside(Source, q)
    <3> DEFINE m == Moved(q, Source, Target(nth))
    <3>1. ~Inside(Target(nth), q)
      BY <1>1, <2>1 DEF Clear
    <3>2. IsFile(fs[q]) /\ fs[q] # Late
      <4>1. PICK p \in Paths : c = before[p] /\ IsFile(before[p])
        BY DEF Kept
      <4> QED  BY <2>1, <4>1, RequestFacts DEF BaseInv, TypeOK
    <3>3. ~Pending(q)
      BY <1>2 DEF Pending
    <3>4. m \in Paths /\ fs[m] = fs[q]
      BY <1>1, <2>4, <3>1, <3>2, <3>3 DEF CopyInv, HasCopy
    <3>5. Clear(m, nth + 1) /\ ~Inside(Source, m)
      BY <1>1, <1>3, <2>1, <2>4, <3>4, MovedAway DEF BaseInv, TypeOK
    <3> HIDE DEF m
    <3> QED  BY <1>1, <2>1, <2>2, <3>4, <3>5
  <2> QED  BY <2>3, <2>4
<1> QED  BY <1>1, <1>4, <1>5 DEF CopyInv, KeptInv

\* Steps between the sources.
LEMMA TurnLoss ==
  ASSUME BaseInv, KeptInv, UNCHANGED <<before, req>>, req.op # "delete",
         Prepare \/ CopySource \/ SourceDone \/ Reject \/ TaskDone \/ Fails
  PROVE  CopyInv' /\ KeptInv'
<1>1. fs' = fs
  BY DEF Prepare, CopySource, SourceDone, Reject, TaskDone, Fails
<1>2. Sources' = Sources /\ \A i : Target(i)' = Target(i)
  BY SameRequest
<1>3. KeptInv'
  <2>1. ASSUME NEW q \in Paths, Safe(q) PROVE Safe(q)'
    <3>1. CASE Prepare \/ CopySource
      <4>1. step \in {"prepare", "pick"} /\ step' \in {"pick", "copying"} /\ nth' = nth
        BY <3>1 DEF Prepare, CopySource
      <4> QED  BY <1>2, <2>1, <4>1 DEF Safe, Clear
    <3>2. CASE SourceDone
      <4>1. step \in {"copying", "removing"} /\ step' = "pick" /\ nth' = nth + 1
        BY <3>2 DEF SourceDone
      <4>2. Clear(q, nth + 1)
        BY <2>1, <4>1, ClearOfTheRest DEF Safe
      <4> QED  BY <1>2, <4>1, <4>2 DEF Safe, Clear
    <3>3. CASE Reject \/ TaskDone \/ Fails
      <4>1. step' = "over"
        BY <3>3 DEF Reject, TaskDone, Fails
      <4> QED  BY <4>1 DEF Safe
    <3> QED  BY <3>1, <3>2, <3>3
  <2> QED  BY <1>1, <2>1, KeptStays
<1>4. CopyInv'
  <2>1. CASE CopySource
    <3>1. nth \in Sources /\ calls' = <<NewCall("copy", Source, Target(nth))>> /\ nth' = nth
      BY <2>1 DEF CopySource
    <3>2. Source \in Paths /\ Target(nth) \in Paths /\ Source' = Source
      BY <3>1, RequestFacts DEF Source, BaseInv, TypeOK
    <3> DEFINE c == NewCall("copy", Source, Target(nth))
    <3>3. c \in Frame /\ c.from = Source /\ ~c.open
      BY <3>2, NewCallFields
    <3> HIDE DEF c
    <3>4. Frames(calls') = {c}
      BY <3>1, <3>3, OneCall DEF c
    <3>5. \A q \in Paths : Inside(Source, q) => Pending(q)'
      BY <3>3, <3>4 DEF Pending
    <3> QED  BY <3>2, <3>5 DEF CopyInv
  <2>2. CASE Prepare \/ SourceDone \/ Reject \/ TaskDone \/ Fails
    <3>1. step' # "copying"
      BY <2>2 DEF Prepare, SourceDone, Reject, TaskDone, Fails
    <3> QED  BY <3>1 DEF CopyInv
  <2> QED  BY <2>1, <2>2
<1> QED  BY <1>3, <1>4

LEMMA LossStep == BaseInv /\ LossInv /\ [TreeNext]_treeVars => LossInv'
<1> SUFFICES ASSUME BaseInv, LossInv, [TreeNext]_treeVars,
                    req'.op # "delete", OneTargetEach', ~misread'
             PROVE  CopyInv' /\ KeptInv'
  BY DEF LossInv
<1>1. UNCHANGED <<before, req>>
  BY DEF TreeNext, treeVars
<1>2. req.op # "delete" /\ OneTargetEach
  BY <1>1, SameRequest
<1>3. ~misread
  <2>1. misread' = misread \/ (misread' = (misread \/ ~(Inner.todo \subseteq Inner.seen)))
    BY DEF TreeNext, treeVars, Accept, Reject, CreateLate, CancelTask, Prepare, CopyFile, CopyDir,
           NextEntry, CopyDirEnd, RemoveFile, RemoveDir, RemoveDirEnd, CopySource, RenameSource,
           DeleteSource, Copied, SourceDone, TaskDone, Fails
  <2> QED  BY <2>1
<1>4. CopyInv /\ KeptInv
  BY <1>2, <1>3 DEF LossInv
<1>5. CASE CancelTask \/ RemoveDir \/ NextEntry \/ CopyDirEnd \/ UNCHANGED treeVars
  <2>1. UNCHANGED <<fs, step, nth>>
    BY <1>5 DEF CancelTask, RemoveDir, NextEntry, CopyDirEnd, SameTask, treeVars
  <2>2. ASSUME NEW q \in Paths, step = "copying", Pending(q) PROVE Pending(q)'
    <3>1. CASE CancelTask \/ UNCHANGED treeVars
      <4>1. calls' = calls
        BY <3>1 DEF CancelTask, treeVars
      <4> QED  BY <2>2, <4>1 DEF Pending
    <3>2. CASE RemoveDir
      <4>1. step = "removing"
        BY <3>2, RemovalAt DEF RemoveDir
      <4> QED  BY <2>2, <4>1
    <3> QED  BY <1>5, <2>2, <3>1, <3>2, NextEntryPending, CopyDirEndPending
  <2> QED  BY <1>1, <1>4, <2>1, <2>2, CallsLoss
<1>6. CASE DeleteSource
  BY <1>2, <1>6 DEF DeleteSource
<1>7. CASE Prepare \/ CopySource \/ SourceDone \/ Reject \/ TaskDone \/ Fails
  BY <1>1, <1>2, <1>4, <1>7, TurnLoss
<1> QED  BY <1>1, <1>2, <1>4, <1>5, <1>6, <1>7, AcceptLoss, CreateLateLoss, CopyFileLoss,
            CopyDirLoss, RemoveLoss, RenameLoss, CopiedLoss DEF TreeNext

\* Copying and moving lose no file, wherever they fail or are canceled
\* (copy_path, remove_path, finish_copied_move and move_path): what the user did
\* not agree to overwrite is in its old place or in the new one, for requests
\* whose sources have different names, and as long as readdir() does not fail.
THEOREM LosesNothing == TreeSpec => []NothingLost
<1>1. TreeInit => LossInv
  <2> SUFFICES ASSUME TreeInit PROVE CopyInv /\ KeptInv
    BY DEF LossInv
  <2>1. fs = before /\ step = "request"
    BY DEF TreeInit
  <2> QED  BY <2>1 DEF CopyInv, KeptInv, Kept, Safe
<1>2. LossInv => NothingLost
  <2> SUFFICES ASSUME KeptInv PROVE AllThere
    BY DEF LossInv, NothingLost
  <2> QED  BY DEF KeptInv, Kept, AllThere
<1> QED  BY <1>1, <1>2, LossStep, BaseInvariance, PTL DEF TreeSpec

-------------------------------------------------------------------------------
(* The steps keep WholeInv.                                                *)

\* Of sources and targets that are apart no source is above another's target:
\* it would be above dst, and above its own target.
LEMMA SourceElsewhere ==
  ASSUME before \in Trees, req \in Requests, Admitted, Apart,
         NEW i \in Sources, NEW k \in Sources, i = k => ~Inside(req.srcs[i], Target(i)),
         NEW p \in Paths, Inside(req.srcs[i], p)
  PROVE  ~Inside(Target(k), p)
<1> DEFINE s == req.srcs[i]
<1>1. s \in Paths /\ req.dst \in Paths /\ \A j \in Sources : Target(j) \in Paths
  BY RequestFacts
<1>2. /\ s \in Seq(Names) /\ p \in Seq(Names) /\ req.dst \in Seq(Names)
      /\ \A j \in Sources : Target(j) \in Seq(Names)
  BY <1>1, PathFacts
<1>3. ~Inside(Target(k), s)
  BY DEF Apart
<1> HIDE DEF s
<1>4. ~Inside(s, Target(k))
  <2> SUFFICES ASSUME Inside(s, Target(k)) PROVE FALSE
    OBVIOUS
  <2>1. i # k /\ Len(req.srcs) > 1
    BY RequestFacts DEF s
  <2>2. before[req.dst] = "dir"
    BY <2>1 DEF Admitted
  <2>3. /\ Inside(req.dst, Target(k)) /\ req.dst = Parent(Target(k)) /\ Inside(req.dst, Target(i))
    BY <2>1, TargetInDst
  <2>4. s # Target(k)
    BY <1>2, <1>3, InsideOrder
  <2>5. Inside(s, req.dst)
    BY <1>1, <2>3, <2>4, ParentFacts
  <2>6. before[s] = "dir"
    BY <1>1, <2>2, <2>5, RequestFacts DEF IsTree
  <2>7. Inside(s, Target(i))
    BY <1>2, <2>3, <2>5, InsideOrder
  <2> QED  BY <2>6, <2>7 DEF Admitted, s
<1>5. Inside(s, p)
  BY DEF s
<1> QED  BY <1>2, <1>3, <1>4, <1>5, InsideOrder

\* What a step must leave alone for what waits and what has arrived.
LEMMA WholeStays ==
  ASSUME UNCHANGED <<before, req>>,
         \A i \in Sources, p \in Paths : Own(p, i) =>
           /\ Waiting(i)' => fs'[p] = before[p]
           /\ LET m == Moved(p, req.srcs[i], Target(i))
              IN /\ Served(i)' => m \in Paths /\ fs'[m] = before[p]
                 /\ step' = "copying" /\ i = nth' =>
                      Pending(p)' \/ (m \in Paths /\ fs'[m] = before[p])
  PROVE  WaitInv' /\ ThereInv'
<1>1. /\ Sources' = Sources /\ \A i : Target(i)' = Target(i)
      /\ \A p, i : Own(p, i)' = Own(p, i)
  BY SameRequest
<1>2. \A p, i : Arrived(p, i)' <=>
        LET m == Moved(p, req.srcs[i], Target(i)) IN m \in Paths /\ fs'[m] = before[p]
  BY <1>1 DEF Arrived
<1>3. WaitInv'
  BY <1>1 DEF WaitInv
<1>4. ThereInv'
  BY <1>1, <1>2 DEF ThereInv
<1> QED  BY <1>3, <1>4

LEMMA OwnFacts ==
  ASSUME NEW i \in Sources, NEW p, Own(p, i)
  PROVE  /\ before[p] # "none" /\ Inside(req.srcs[i], p)
         /\ \A j \in Sources : Inside(req.srcs[j], p) => j = i
BY DEF Own

\* A file or a directory that is copied as it is.
LEMMA CopyWhole ==
  ASSUME BaseInv, WaitInv, ThereInv, Apart, UNCHANGED <<before, req, step, nth>>,
         Working("copy"), fs[Parent(Inner.to)] = "dir",
         fs' = [fs EXCEPT ![Inner.to] = fs[Inner.from]],
         \A p \in Paths : p # Inner.from /\ fs[p] # "none" /\ Pending(p) => Pending(p)'
  PROVE  WaitInv' /\ ThereInv'
<1>1. /\ step = "copying" /\ Admitted /\ nth \in Sources /\ nth \in Nat
      /\ Source \in Paths /\ Target(nth) \in Paths
      /\ Inner.from \in Paths /\ Inner.to \in Paths /\ Inside(Source, Inner.from)
      /\ Inner.to = Moved(Inner.from, Source, Target(nth)) /\ Inside(Target(nth), Inner.to)
  BY CopyAt DEF BaseInv, TypeOK
<1>2. ~Inside(Source, Target(nth))
  BY CopyGoesElsewhere
<1>3. before \in Trees /\ req \in Requests /\ fs \in [Paths -> Contents] /\ OneTargetEach
  BY DEF BaseInv, TypeOK, IsTree, Apart
<1>4. fs'[Inner.to] = fs[Inner.from] /\ \A q \in Paths : q # Inner.to => fs'[q] = fs[q]
  BY <1>1, <1>3
<1>5. Moved(Inner.to, Target(nth), Source) = Inner.from
  <2>1. Source \in Seq(Names) /\ Target(nth) \in Seq(Names) /\ Inner.from \in Seq(Names)
    BY <1>1, PathFacts
  <2>2. Moved(Moved(Inner.from, Source, Target(nth)), Target(nth), Source) = Inner.from
    BY <1>1, <2>1, MovedPath
  <2> QED  BY <1>1, <2>2
<1>6. ASSUME NEW i \in Sources, NEW p \in Paths, Own(p, i)
      PROVE  /\ Waiting(i)' => fs'[p] = before[p]
             /\ LET m == Moved(p, req.srcs[i], Target(i))
                IN /\ Served(i)' => m \in Paths /\ fs'[m] = before[p]
                   /\ step' = "copying" /\ i = nth' =>
                        Pending(p)' \/ (m \in Paths /\ fs'[m] = before[p])
  <2>1. before[p] # "none" /\ Inside(req.srcs[i], p)
    BY <1>6, OwnFacts
  <2>2. Waiting(i)' = Waiting(i) /\ Served(i)' = Served(i)
    BY DEF Waiting, Served
  <2>3. p # Inner.to
    BY <1>1, <1>2, <1>3, <2>1, SourceElsewhere DEF Source
  <2>4. Waiting(i) => fs[p] = before[p]
    BY <1>6 DEF WaitInv
  <2> DEFINE m == Moved(p, req.srcs[i], Target(i))
  <2>5. Served(i) => m \in Paths /\ fs'[m] = before[p]
    <3> SUFFICES ASSUME Served(i) PROVE m \in Paths /\ fs'[m] = before[p]
      OBVIOUS
    <3>1. m \in Paths /\ fs[m] = before[p]
      BY <1>6 DEF ThereInv, Arrived
    <3>2. i # nth
      BY <1>1 DEF Served
    <3>3. Inside(Target(i), m)
      BY <1>3, <2>1, MovedPath, PathFacts, RequestFacts
    <3> HIDE DEF m
    <3>4. m # Inner.to
      BY <1>1, <1>3, <3>1, <3>2, <3>3, TargetsApart
    <3> QED  BY <1>4, <3>1, <3>4
  <2>6. ASSUME i = nth PROVE Pending(p)' \/ (m \in Paths /\ fs'[m] = before[p])
    <3>1. fs[p] = before[p]
      BY <1>1, <2>4, <2>6 DEF Waiting, Active
    <3>2. m = Moved(p, Source, Target(nth))
      BY <2>6 DEF Source
    <3>3. m = Inner.to => p = Inner.from
      <4>1. /\ Source \in Seq(Names) /\ Target(nth) \in Seq(Names) /\ p \in Seq(Names)
            /\ Inner.from \in Seq(Names) /\ Inside(Source, p)
        BY <1>1, <2>1, <2>6, PathFacts DEF Source
      <4>2. Moved(m, Target(nth), Source) = p
        BY <3>2, <4>1, MovedPath
      <4> HIDE DEF m
      <4> QED  BY <1>5, <4>2
    <3>4. p = Inner.from => m = Inner.to
      BY <1>1, <3>2
    <3>5. Pending(p) \/ (m \in Paths /\ fs[m] = before[p])
      BY <1>1, <1>6, <2>6 DEF ThereInv, Arrived
    <3> HIDE DEF m
    <3>6. CASE p = Inner.from
      BY <1>1, <1>4, <3>1, <3>4, <3>6
    <3>7. CASE p # Inner.from
      BY <1>4, <2>1, <3>1, <3>3, <3>5, <3>7
    <3> QED  BY <3>6, <3>7
  <2> HIDE DEF m
  <2>7. Waiting(i)' => fs'[p] = before[p]
    BY <1>4, <2>2, <2>3, <2>4
  <2>8. Served(i)' => m \in Paths /\ fs'[m] = before[p]
    BY <2>2, <2>5
  <2>9. i = nth' => Pending(p)' \/ (m \in Paths /\ fs'[m] = before[p])
    BY <2>6
  <2> QED  BY <2>7, <2>8, <2>9 DEF m
<1> QED  BY <1>6, WholeStays

LEMMA CopyFileWhole ==
  ASSUME BaseInv, WaitInv, ThereInv, Apart, UNCHANGED <<before, req>>, CopyFile
  PROVE  WaitInv' /\ ThereInv'
<1>1. /\ Working("copy") /\ ~Inner.open /\ IsFile(fs[Inner.from]) /\ fs[Parent(Inner.to)] = "dir"
      /\ fs' = [fs EXCEPT ![Inner.to] = fs[Inner.from]]
      /\ calls' = Outer /\ UNCHANGED <<step, nth>>
  BY DEF CopyFile, SameTask
<1>2. IsTree(fs) /\ Inner.from \in Paths /\ calls # <<>> /\ calls \in Seq(Frame)
  BY <1>1, CopyAt DEF BaseInv, TypeOK
<1>3. Frames(calls) = Frames(Outer) \cup {Inner}
  BY <1>2, CallFacts
<1>4. ASSUME NEW p \in Paths, p # Inner.from, fs[p] # "none", Pending(p) PROVE Pending(p)'
  <2>1. ~Inside(Inner.from, p)
    BY <1>1, <1>2, <1>4 DEF IsTree, IsFile
  <2> QED  BY <1>1, <1>3, <1>4, <2>1 DEF Pending
<1> QED  BY <1>1, <1>4, CopyWhole

LEMMA CopyDirWhole ==
  ASSUME BaseInv, WaitInv, ThereInv, Apart, UNCHANGED <<before, req>>, CopyDir
  PROVE  WaitInv' /\ ThereInv'
<1>1. /\ Working("copy") /\ fs[Inner.from] = "dir" /\ fs[Parent(Inner.to)] = "dir"
      /\ fs' = [fs EXCEPT ![Inner.to] = "dir"] /\ UNCHANGED <<step, nth>>
  BY DEF CopyDir, SameTask
<1>2. fs' = [fs EXCEPT ![Inner.to] = fs[Inner.from]]
  BY <1>1
<1>3. \A p \in Paths : p # Inner.from /\ fs[p] # "none" /\ Pending(p) => Pending(p)'
  BY CopyDirPending
<1> QED  BY <1>1, <1>2, <1>3, CopyWhole

\* Steps that change neither the file system nor whose turn it is.
LEMMA CallsWhole ==
  ASSUME WaitInv, ThereInv, UNCHANGED <<before, req, fs, step, nth>>,
         \A q \in Paths : step = "copying" /\ Pending(q) => Pending(q)'
  PROVE  WaitInv' /\ ThereInv'
<1>1. \A i : Waiting(i)' = Waiting(i) /\ Served(i)' = Served(i)
  BY DEF Waiting, Served
<1>2. ASSUME NEW i \in Sources, NEW p \in Paths, Own(p, i)
      PROVE  /\ Waiting(i) => fs[p] = before[p]
             /\ Served(i) => Arrived(p, i)
             /\ step = "copying" /\ i = nth => Pending(p) \/ Arrived(p, i)
  BY <1>2 DEF WaitInv, ThereInv
<1> QED  BY <1>1, <1>2, WholeStays DEF Arrived

LEMMA AcceptWhole ==
  ASSUME BaseInv, UNCHANGED <<before, req>>, Accept
  PROVE  WaitInv' /\ ThereInv'
<1>1. step' = "prepare" /\ fs' = before /\ nth' = 1
  BY DEF Accept, BaseInv, PhaseInv
<1>2. \A i \in Sources : i \in Nat \ {0}
  BY SourceNumbers
<1>3. \A i \in Sources : ~Served(i)'
  BY <1>1, <1>2 DEF Served
<1> QED  BY <1>1, <1>3, WholeStays

LEMMA CreateLateWhole ==
  ASSUME BaseInv, WaitInv, ThereInv, UNCHANGED <<before, req>>, CreateLate
  PROVE  WaitInv' /\ ThereInv'
<1>1. UNCHANGED <<step, nth, calls>>
  BY DEF CreateLate
<1>2. PICK x \in Paths : fs[x] = "none" /\ fs' = [fs EXCEPT ![x] = Late]
  BY DEF CreateLate
<1>3. \A q \in Paths : fs[q] # "none" => fs'[q] = fs[q]
  BY <1>2 DEF BaseInv, TypeOK, IsTree
<1>4. /\ \A i : Waiting(i)' = Waiting(i) /\ Served(i)' = Served(i)
      /\ \A q : Pending(q)' = Pending(q)
  BY <1>1 DEF Waiting, Served, Pending
<1>5. ASSUME NEW i \in Sources, NEW p \in Paths, Own(p, i)
      PROVE  /\ Waiting(i) => fs'[p] = before[p]
             /\ LET m == Moved(p, req.srcs[i], Target(i))
                IN /\ Served(i) => m \in Paths /\ fs'[m] = before[p]
                   /\ step = "copying" /\ i = nth =>
                        Pending(p) \/ (m \in Paths /\ fs'[m] = before[p])
  <2>1. before[p] # "none"
    BY <1>5, OwnFacts
  <2>2. /\ Waiting(i) => fs[p] = before[p]
        /\ Served(i) => Arrived(p, i)
        /\ step = "copying" /\ i = nth => Pending(p) \/ Arrived(p, i)
    BY <1>5 DEF WaitInv, ThereInv
  <2> QED  BY <1>3, <2>1, <2>2 DEF Arrived
<1> QED  BY <1>1, <1>4, <1>5, WholeStays

\* What is removed is the source at work, and no target is in it.
LEMMA RemoveWhole ==
  ASSUME BaseInv, WaitInv, ThereInv, Apart, req.op # "delete", UNCHANGED <<before, req>>,
         RemoveFile \/ RemoveDirEnd
  PROVE  WaitInv' /\ ThereInv'
<1>1. /\ Working("remove") /\ fs' = [fs EXCEPT ![Inner.from] = "none"]
      /\ UNCHANGED <<step, nth>>
  BY DEF RemoveFile, RemoveDirEnd, SameTask
<1>2. /\ step = "removing" /\ nth \in Sources /\ Source \in Paths /\ Admitted
      /\ ~Inside(Source, Target(nth)) /\ Inner.from \in Paths /\ Inside(Source, Inner.from)
  BY <1>1, RemovalAt
<1>3. before \in Trees /\ req \in Requests /\ fs \in [Paths -> Contents] /\ nth \in Nat
  BY DEF BaseInv, TypeOK, IsTree
<1>4. \A q \in Paths : ~Inside(Source, q) => fs'[q] = fs[q]
  BY <1>1, <1>2, <1>3
<1>5. \A i : Waiting(i)' = Waiting(i) /\ Served(i)' = Served(i)
  BY <1>1 DEF Waiting, Served
<1>6. ASSUME NEW i \in Sources, NEW p \in Paths, Own(p, i)
      PROVE  /\ Waiting(i) => fs'[p] = before[p]
             /\ LET m == Moved(p, req.srcs[i], Target(i))
                IN Served(i) => m \in Paths /\ fs'[m] = before[p]
  <2>1. Inside(req.srcs[i], p) /\ (Inside(Source, p) => nth = i)
    BY <1>2, <1>6, OwnFacts DEF Source
  <2>2. ASSUME Waiting(i) PROVE fs'[p] = before[p]
    <3>1. i # nth
      BY <1>2, <1>3, <2>2, RequestFacts DEF Waiting
    <3> QED  BY <1>4, <1>6, <2>1, <2>2, <3>1 DEF WaitInv
  <2> DEFINE m == Moved(p, req.srcs[i], Target(i))
  <2>3. ASSUME Served(i) PROVE m \in Paths /\ fs'[m] = before[p]
    <3>1. m \in Paths /\ fs[m] = before[p]
      BY <1>6, <2>3 DEF ThereInv, Arrived
    <3>2. Inside(Target(i), m)
      BY <1>3, <2>1, MovedPath, PathFacts, RequestFacts
    <3> HIDE DEF m
    <3>3. nth = i => ~Inside(req.srcs[nth], Target(nth))
      BY <1>2 DEF Source
    <3>4. ~Inside(Source, m)
      BY <1>2, <1>3, <3>1, <3>2, <3>3, SourceElsewhere DEF Source
    <3> QED  BY <1>4, <3>1, <3>4
  <2> QED  BY <2>2, <2>3
<1> QED  BY <1>1, <1>2, <1>5, <1>6, WholeStays

LEMMA RenameWhole ==
  ASSUME BaseInv, WaitInv, ThereInv, Apart, UNCHANGED <<before, req>>, RenameSource
  PROVE  WaitInv' /\ ThereInv'
<1>1. /\ step = "pick" /\ nth \in Sources /\ Admitted /\ ~Inside(Source, Target(nth))
      /\ \A p \in Paths : ~Inside(Source, p) /\ ~Inside(Target(nth), p) => fs'[p] = fs[p]
      /\ \A q \in Paths : Inside(Source, q) /\ fs[q] # "none" =>
           /\ Moved(q, Source, Target(nth)) \in Paths
           /\ ~Inside(Source, Moved(q, Source, Target(nth)))
                => fs'[Moved(q, Source, Target(nth))] = fs[q]
  BY RenameFacts
<1>2. /\ before \in Trees /\ req \in Requests /\ nth \in Nat /\ nth' = nth + 1 /\ step' = "pick"
      /\ OneTargetEach /\ \A i \in Sources : i \in Nat
  <2>1. step' = "pick" /\ nth' = nth + 1
    BY <1>1 DEF RenameSource
  <2>2. before \in Trees /\ req \in Requests /\ OneTargetEach
    BY DEF BaseInv, TypeOK, Apart
  <2> QED  BY <2>1, <2>2, SourceNumbers
<1>3. ASSUME NEW i \in Sources
      PROVE  /\ Waiting(i)' => Waiting(i) /\ i # nth
             /\ Served(i)' => (Served(i) /\ i # nth) \/ (i = nth /\ Waiting(i))
  <2>1. i \in Nat /\ nth \in Nat /\ nth' = nth + 1 /\ step = "pick" /\ step' = "pick"
    BY <1>1, <1>2, <1>3
  <2>2. Waiting(i)' => Waiting(i) /\ i # nth
    BY <2>1 DEF Waiting, Active
  <2>3. Served(i)' => (Served(i) /\ i # nth) \/ (i = nth /\ Waiting(i))
    BY <2>1 DEF Waiting, Served, Active
  <2> QED  BY <2>2, <2>3
<1>4. ASSUME NEW i \in Sources, NEW p \in Paths, Own(p, i)
      PROVE  /\ Waiting(i)' => fs'[p] = before[p]
             /\ LET m == Moved(p, req.srcs[i], Target(i))
                IN Served(i)' => m \in Paths /\ fs'[m] = before[p]
  <2>1. before[p] # "none" /\ Inside(req.srcs[i], p) /\ (Inside(Source, p) => nth = i)
    BY <1>1, <1>4, OwnFacts DEF Source
  <2>2. Waiting(i) => fs[p] = before[p]
    BY <1>4 DEF WaitInv
  <2>3. i # nth => ~Inside(Target(nth), p)
    BY <1>1, <1>2, <2>1, SourceElsewhere
  <2>4. Waiting(i)' => fs'[p] = before[p]
    BY <1>1, <1>3, <2>1, <2>2, <2>3
  <2> DEFINE m == Moved(p, req.srcs[i], Target(i))
  <2>5. Inside(Target(i), m)
    BY <1>2, <2>1, MovedPath, PathFacts, RequestFacts
  <2>6. m \in Paths => ~Inside(Source, m)
    <3>1. nth = i => ~Inside(req.srcs[nth], Target(nth))
      BY <1>1 DEF Source
    <3> HIDE DEF m
    <3> QED  BY <1>1, <1>2, <2>5, <3>1, SourceElsewhere DEF Source
  <2>7. ASSUME Served(i), i # nth PROVE m \in Paths /\ fs'[m] = before[p]
    <3>1. m \in Paths /\ fs[m] = before[p]
      BY <1>4, <2>7 DEF ThereInv, Arrived
    <3> HIDE DEF m
    <3>2. ~Inside(Target(nth), m)
      BY <1>1, <1>2, <2>5, <2>7, <3>1, TargetsApart
    <3> QED  BY <1>1, <2>6, <3>1, <3>2
  <2>8. ASSUME Waiting(i), i = nth PROVE m \in Paths /\ fs'[m] = before[p]
    <3>1. m = Moved(p, Source, Target(nth)) /\ Inside(Source, p) /\ fs[p] = before[p]
      BY <2>1, <2>2, <2>8 DEF Source
    <3>2. m \in Paths
      BY <1>1, <2>1, <3>1
    <3>3. ~Inside(Source, Moved(p, Source, Target(nth)))
      BY <2>6, <3>1, <3>2
    <3> QED  BY <1>1, <2>1, <3>1, <3>2, <3>3
  <2> QED  BY <1>3, <2>4, <2>7, <2>8
<1> QED  BY <1>2, <1>4, WholeStays

\* Steps between the sources.
LEMMA TurnWhole ==
  ASSUME BaseInv, WaitInv, ThereInv, UNCHANGED <<before, req>>, req.op # "delete",
         Prepare \/ CopySource \/ Copied \/ SourceDone \/ Reject \/ TaskDone \/ Fails
  PROVE  WaitInv' /\ ThereInv'
<1>1. fs' = fs
  BY DEF Prepare, CopySource, Copied, SourceDone, Reject, TaskDone, Fails
<1>2. nth \in Nat /\ \A i \in Sources : i \in Nat \ {0}
  BY SourceNumbers
<1>3. ASSUME NEW i \in Sources, NEW p \in Paths, Own(p, i)
      PROVE  /\ Waiting(i) => fs[p] = before[p]
             /\ Served(i) => Arrived(p, i)
             /\ step = "copying" /\ i = nth => Pending(p) \/ Arrived(p, i)
  BY <1>3 DEF WaitInv, ThereInv
<1>4. CASE Prepare \/ Reject \/ TaskDone \/ Fails
  <2>1. \/ step = "prepare" /\ step' = "pick" /\ nth' = nth
        \/ step' = "over"
    BY <1>4 DEF Prepare, Reject, TaskDone, Fails
  <2>2. \A i : (Waiting(i)' => Waiting(i)) /\ (Served(i)' => Served(i)) /\ step' # "copying"
    BY <2>1 DEF Waiting, Served, Active
  <2> QED  BY <1>1, <1>3, <2>2, WholeStays DEF Arrived
<1>5. CASE CopySource
  <2>1. /\ step = "pick" /\ step' = "copying" /\ nth' = nth /\ nth \in Sources
        /\ calls' = <<NewCall("copy", Source, Target(nth))>>
    BY <1>5 DEF CopySource
  <2>2. \A i : (Waiting(i)' => Waiting(i)) /\ (Served(i)' => Served(i))
    BY <2>1 DEF Waiting, Served, Active
  <2>3. Source \in Paths /\ Target(nth) \in Paths
    BY <2>1, RequestFacts DEF Source, BaseInv, TypeOK
  <2> DEFINE c == NewCall("copy", Source, Target(nth))
  <2>4. c \in Frame /\ c.from = Source /\ ~c.open
    BY <2>3, NewCallFields
  <2> HIDE DEF c
  <2>5. Frames(calls') = {c}
    BY <2>1, <2>4, OneCall DEF c
  <2>6. \A q \in Paths : Inside(Source, q) => Pending(q)'
    BY <2>4, <2>5 DEF Pending
  <2>7. \A p \in Paths : Own(p, nth) => Pending(p)'
    BY <2>1, <2>6, OwnFacts DEF Source
  <2> QED  BY <1>1, <1>3, <2>1, <2>2, <2>7, WholeStays DEF Arrived
<1>6. CASE Copied
  <2>1. step = "copying" /\ step' = "removing" /\ nth' = nth /\ Frames(calls) = {}
    BY <1>6, OneCall DEF Copied
  <2>2. /\ \A i : Waiting(i)' => Waiting(i)
        /\ \A i : Served(i)' => Served(i) \/ i = nth
    BY <2>1 DEF Waiting, Served, Active
  <2>3. \A p : ~Pending(p)
    BY <2>1 DEF Pending
  <2> QED  BY <1>1, <1>3, <2>1, <2>2, <2>3, WholeStays DEF Arrived
<1>7. CASE SourceDone
  <2>1. /\ step' = "pick" /\ nth' = nth + 1 /\ step \in {"copying", "removing"}
        /\ Frames(calls) = {}
    BY <1>7, OneCall DEF SourceDone
  <2>2. ASSUME NEW i \in Sources
        PROVE  /\ Waiting(i)' => Waiting(i)
               /\ Served(i)' => Served(i) \/ (i = nth /\ step = "copying")
    BY <1>2, <2>1, <2>2 DEF Waiting, Served, Active
  <2>3. \A p : ~Pending(p)
    BY <2>1 DEF Pending
  <2> QED  BY <1>1, <1>3, <2>1, <2>2, <2>3, WholeStays DEF Arrived
<1> QED  BY <1>4, <1>5, <1>6, <1>7

\* The sources that were served are gone, and stay gone.
LEMMA GoneStays ==
  ASSUME UNCHANGED <<before, req>>,
         step' \in Active => \A i \in Sources : i < nth' => fs'[req.srcs[i]] \in {"none", Late},
         step' = "removing" => IF calls' = <<>> THEN fs'[req.srcs[nth']] \in {"none", Late}
                               ELSE calls'[1].from = req.srcs[nth']
  PROVE  GoneInv'
<1>1. Sources' = Sources /\ Source' = req.srcs[nth']
  BY SameRequest DEF Source
<1> QED  BY <1>1 DEF GoneInv

\* A step that moves on inside the first call, or to it.
LEMMA FirstCall ==
  ASSUME BaseInv, GoneInv, Working("remove"), NEW d \in Frame, d.from = Inner.from
  PROVE  /\ Append(Outer, d)[1].from = Source
         /\ Outer = <<>> => Inner.from = Source
         /\ Outer # <<>> => Outer[1].from = Source
<1>1. step = "removing" /\ calls # <<>> /\ calls \in Seq(Frame)
  BY RemovalAt DEF BaseInv, TypeOK
<1>2. calls[1].from = Source
  BY <1>1 DEF GoneInv
<1>3. /\ Outer \in Seq(Frame) /\ (Outer # <<>> => Outer[1] = calls[1])
      /\ (Outer = <<>> => Inner = calls[1])
  BY <1>1, CallFacts
<1>4. Append(Outer, d)[1] = IF Outer = <<>> THEN d ELSE Outer[1]
  BY <1>3, PushFacts
<1> QED  BY <1>2, <1>3, <1>4

LEMMA RemoveGone ==
  ASSUME BaseInv, GoneInv, UNCHANGED <<before, req>>, RemoveFile \/ RemoveDirEnd
  PROVE  GoneInv'
<1>1. /\ Working("remove") /\ fs' = [fs EXCEPT ![Inner.from] = "none"] /\ calls' = Outer
      /\ UNCHANGED <<step, nth>>
  BY DEF RemoveFile, RemoveDirEnd, SameTask
<1>2. step = "removing" /\ Inner \in Frame /\ Inner.from \in Paths
  BY <1>1, RemovalAt
<1>3. fs \in [Paths -> Contents] /\ \A i \in Sources : req.srcs[i] \in Paths
  BY RequestFacts DEF BaseInv, TypeOK, IsTree
<1>4. \A i \in Sources : i < nth => fs'[req.srcs[i]] \in {"none", Late}
  <2>1. ASSUME NEW i \in Sources, i < nth PROVE fs'[req.srcs[i]] \in {"none", Late}
    <3>1. fs[req.srcs[i]] \in {"none", Late}
      BY <1>2, <2>1 DEF GoneInv, Active
    <3> QED  BY <1>1, <1>2, <1>3, <3>1
  <2> QED  BY <2>1
<1>5. Outer = <<>> => fs'[Source] = "none"
  BY <1>1, <1>2, <1>3, FirstCall
<1>6. Outer # <<>> => Outer[1].from = Source
  BY <1>1, <1>2, FirstCall
<1> QED  BY <1>1, <1>4, <1>5, <1>6, GoneStays DEF Source

LEMMA EntryGone ==
  ASSUME BaseInv, GoneInv, UNCHANGED <<before, req>>, RemoveDir \/ (NextEntry /\ Working("remove"))
  PROVE  GoneInv'
<1>1. /\ Working("remove") /\ UNCHANGED <<fs, step, nth>>
  BY DEF RemoveDir, NextEntry, SameTask
<1>2. /\ step = "removing" /\ Inner \in Frame /\ calls # <<>> /\ calls \in Seq(Frame)
  BY <1>1, RemovalAt DEF BaseInv, TypeOK
<1>3. Outer \in Seq(Frame)
  BY <1>2, CallFacts
<1>4. \A i \in Sources : i < nth => fs[req.srcs[i]] \in {"none", Late}
  BY <1>2 DEF GoneInv, Active
<1>5. calls' # <<>> /\ calls'[1].from = Source
  <2>1. CASE RemoveDir
    <3> DEFINE d == [Inner EXCEPT !.open = TRUE, !.todo = DirEntries(fs, Inner.from)]
    <3>1. DirEntries(fs, Inner.from) \in SUBSET Paths
      BY DEF DirEntries
    <3>2. d \in Frame /\ d.from = Inner.from
      BY <1>2, <3>1, OpenedFields
    <3>3. calls' = Append(Outer, d)
      BY <2>1 DEF RemoveDir, Opened
    <3> HIDE DEF d
    <3> QED  BY <1>1, <1>3, <3>2, <3>3, FirstCall, PushFacts
  <2>2. CASE NextEntry
    <3>1. PICK x \in DirEntries(fs, Inner.from) \ Inner.seen :
            /\ Moved(x, Inner.from, Inner.to) \in Paths
            /\ calls' = Append(Append(Outer, [Inner EXCEPT !.seen = @ \union {x}]),
                               NewCall(Inner.fn, x, Moved(x, Inner.from, Inner.to)))
      BY <2>2 DEF NextEntry
    <3> DEFINE d == [Inner EXCEPT !.seen = @ \union {x}]
               n == NewCall(Inner.fn, x, Moved(x, Inner.from, Inner.to))
    <3>2. x \in Paths
      BY <3>1 DEF DirEntries
    <3>3. d \in Frame /\ d.from = Inner.from
      BY <1>2, <3>2, SeenFields
    <3>4. n \in Frame
      BY <1>2, <3>1, <3>2, FrameFields, NewCallFields
    <3> DEFINE s == Append(Outer, d)
    <3>5. calls' = Append(s, n)
      BY <3>1
    <3> HIDE DEF d, n
    <3>6. s \in Seq(Frame) /\ s # <<>> /\ s[1].from = Source
      BY <1>1, <1>3, <3>3, FirstCall, PushFacts
    <3> HIDE DEF s
    <3>7. Append(s, n) # <<>> /\ Append(s, n)[1] = s[1]
      BY <3>4, <3>6, PushFacts
    <3> QED  BY <3>5, <3>6, <3>7
  <2> QED  BY <2>1, <2>2
<1> QED  BY <1>1, <1>4, <1>5, GoneStays DEF Source

\* Nothing is written over a source that is gone.
LEMMA WriteGone ==
  ASSUME BaseInv, GoneInv, UNCHANGED <<before, req>>,
         \/ CreateLate
         \/ Apart /\ (CopyFile \/ CopyDir \/ CopyDirEnd \/ (NextEntry /\ Working("copy")))
  PROVE  GoneInv'
<1>1. UNCHANGED <<step, nth>> /\ step \in Active
  BY DEF CreateLate, CopyFile, CopyDir, CopyDirEnd, NextEntry, SameTask, Working, BaseInv, TypeOK,
         Active
<1>2. \A i \in Sources : req.srcs[i] \in Paths
  BY RequestFacts DEF BaseInv, TypeOK
<1>3. step = "removing" => nth \in Sources
  BY DEF BaseInv, PhaseInv
<1>4. \A i \in Sources :
        fs[req.srcs[i]] \in {"none", Late} => fs'[req.srcs[i]] \in {"none", Late}
  <2>1. fs \in [Paths -> Contents]
    BY DEF BaseInv, TypeOK, IsTree
  <2>2. CASE CreateLate
    <3>1. PICK x \in Paths : fs' = [fs EXCEPT ![x] = Late]
      BY <2>2 DEF CreateLate
    <3> QED  BY <1>2, <2>1, <3>1
  <2>3. CASE Apart /\ (CopyFile \/ CopyDir)
    <3>1. Working("copy") /\ \E x : fs' = [fs EXCEPT ![Inner.to] = x]
      BY <2>3 DEF CopyFile, CopyDir
    <3>2. nth \in Sources /\ Inner.to \in Paths /\ Inside(Target(nth), Inner.to)
      BY <3>1, CopyAt
    <3>3. \A i \in Sources : req.srcs[i] # Inner.to
      BY <2>3, <3>2 DEF Apart
    <3> QED  BY <1>2, <2>1, <3>1, <3>3
  <2>4. CASE CopyDirEnd \/ NextEntry
    <3>1. fs' = fs
      BY <2>4 DEF CopyDirEnd, NextEntry
    <3> QED  BY <3>1
  <2> QED  BY <2>2, <2>3, <2>4
<1>5. step = "removing" => calls' = calls
  <2>1. CASE CreateLate
    BY <2>1 DEF CreateLate
  <2>2. CASE CopyFile \/ CopyDir \/ CopyDirEnd \/ (NextEntry /\ Working("copy"))
    <3>1. Working("copy")
      BY <2>2 DEF CopyFile, CopyDir, CopyDirEnd
    <3> QED  BY <3>1, CopyAt
  <2> QED  BY <2>1, <2>2
<1> QED  BY <1>1, <1>3, <1>4, <1>5, GoneStays DEF GoneInv, Source

LEMMA RenameGone ==
  ASSUME BaseInv, GoneInv, Apart, UNCHANGED <<before, req>>, RenameSource
  PROVE  GoneInv'
<1>1. /\ step = "pick" /\ nth \in Sources /\ Source \in Paths
      /\ \A p \in Paths :
           /\ Inside(Source, p) => fs'[p] = "none"
           /\ ~Inside(Source, p) /\ ~Inside(Target(nth), p) => fs'[p] = fs[p]
  BY RenameFacts
<1>2. /\ step' = "pick" /\ nth' = nth + 1 /\ nth \in Nat
      /\ \A i \in Sources : i \in Nat /\ req.srcs[i] \in Paths
  <2>1. step' = "pick" /\ nth' = nth + 1
    BY <1>1 DEF RenameSource
  <2>2. \A i \in Sources : req.srcs[i] \in Paths
    BY RequestFacts DEF BaseInv, TypeOK
  <2> QED  BY <2>1, <2>2, SourceNumbers
<1>3. ASSUME NEW i \in Sources, i < nth' PROVE fs'[req.srcs[i]] \in {"none", Late}
  <2>1. CASE i = nth
    <3>1. Inside(Source, Source)
      BY <1>1, InsideOrder, PathFacts
    <3> QED  BY <1>1, <2>1, <3>1 DEF Source
  <2>2. CASE i # nth
    <3>1. i < nth
      BY <1>2, <1>3, <2>2
    <3>2. fs[req.srcs[i]] \in {"none", Late}
      BY <1>1, <3>1 DEF GoneInv, Active
    <3>3. ~Inside(Target(nth), req.srcs[i])
      BY <1>1 DEF Apart
    <3> QED  BY <1>1, <1>2, <3>2, <3>3
  <2> QED  BY <2>1, <2>2
<1> QED  BY <1>2, <1>3, GoneStays

LEMMA TurnGone ==
  ASSUME BaseInv, GoneInv, UNCHANGED <<before, req>>, req.op # "copy",
         \/ Accept \/ Prepare \/ CopySource \/ DeleteSource \/ Copied \/ SourceDone
         \/ Reject \/ TaskDone \/ Fails \/ CancelTask \/ UNCHANGED treeVars
  PROVE  GoneInv'
<1>1. nth \in Nat /\ \A i \in Sources : i \in Nat \ {0}
  BY SourceNumbers
<1>2. CASE Reject \/ TaskDone \/ Fails
  <2>1. step' = "over"
    BY <1>2 DEF Reject, TaskDone, Fails
  <2> QED  BY <2>1, GoneStays DEF Active
<1>3. CASE Accept
  <2>1. step' = "prepare" /\ nth' = 1
    BY <1>3 DEF Accept, BaseInv, PhaseInv
  <2> QED  BY <1>1, <2>1, GoneStays
<1>4. CASE Prepare \/ CopySource
  <2>1. /\ step \in Active /\ step' \in {"pick", "copying"} /\ nth' = nth /\ fs' = fs
    BY <1>4 DEF Prepare, CopySource, Active
  <2> QED  BY <2>1, GoneStays DEF GoneInv
<1>5. CASE DeleteSource \/ Copied
  <2>1. /\ step \in Active /\ step' = "removing" /\ nth' = nth /\ fs' = fs /\ nth \in Sources
        /\ calls' = <<NewCall("remove", Source, Source)>>
    BY <1>5 DEF DeleteSource, Copied, Active, BaseInv, PhaseInv
  <2>2. Source \in Paths
    BY <2>1, RequestFacts DEF Source, BaseInv, TypeOK
  <2> DEFINE c == NewCall("remove", Source, Source)
  <2>3. c \in Frame /\ c.from = Source
    BY <2>2, NewCallFields
  <2> HIDE DEF c
  <2>4. calls' # <<>> /\ calls'[1] = c
    BY <2>1, <2>3, OneCall DEF c
  <2> QED  BY <2>1, <2>3, <2>4, GoneStays DEF GoneInv, Source
<1>6. CASE SourceDone
  <2>1. /\ step = "removing" /\ calls = <<>> /\ step' = "pick" /\ nth' = nth + 1 /\ fs' = fs
    BY <1>6 DEF SourceDone
  <2>2. fs[Source] \in {"none", Late}
    BY <2>1 DEF GoneInv
  <2>3. \A i \in Sources : i < nth + 1 => i < nth \/ i = nth
    BY <1>1
  <2> QED  BY <2>1, <2>2, <2>3, GoneStays DEF GoneInv, Active, Source
<1>7. CASE CancelTask \/ UNCHANGED treeVars
  <2>1. UNCHANGED <<fs, step, nth, calls>>
    BY <1>7 DEF CancelTask, treeVars
  <2> QED  BY <2>1, GoneStays DEF GoneInv, Source
<1> QED  BY <1>2, <1>3, <1>4, <1>5, <1>6, <1>7

\* The end: every source was served, and what stood below a source that is gone
\* is gone with it.
LEMMA TaskDoneWhole ==
  ASSUME BaseInv, WholeInv, UNCHANGED <<before, req>>, TaskDone
  PROVE  DoneIsWhole'
<1>1. /\ step = "pick" /\ nth \notin Sources /\ UNCHANGED <<fs, misread>>
  BY DEF TaskDone
<1>2. /\ nth \in Nat \ {0} /\ IsTree(fs) /\ Sources = 1 .. Len(req.srcs) /\ Len(req.srcs) \in Nat
      /\ \A i \in Sources : req.srcs[i] \in Paths
      /\ Late \notin {"none", "dir"}
  BY RequestFacts DEF BaseInv, TypeOK
<1>3. \A i \in Sources : i < nth
  BY <1>1, <1>2
<1>4. Sources' = Sources /\ (\A i : Target(i)' = Target(i)) /\ Apart' = Apart
  BY SameRequest
<1>5. SUFFICES ASSUME req.op = "delete" \/ Apart, ~misread, NEW i \in Sources, NEW p \in Paths,
                      before[p] # "none",
                      \A j \in Sources : Inside(req.srcs[j], p) <=> j = i
               PROVE  /\ req.op # "delete" => fs[Moved(p, req.srcs[i], Target(i))] = before[p]
                      /\ req.op # "copy" => fs[p] \in {"none", Late}
  BY <1>1, <1>4 DEF DoneIsWhole
<1>6. Own(p, i) /\ Inside(req.srcs[i], p)
  BY <1>5 DEF Own
<1>7. ASSUME req.op # "delete" PROVE fs[Moved(p, req.srcs[i], Target(i))] = before[p]
  <2>1. Served(i)
    BY <1>1, <1>2, <1>3 DEF Served, Active
  <2>2. ThereInv
    BY <1>5, <1>7 DEF WholeInv
  <2> QED  BY <1>6, <2>1, <2>2 DEF ThereInv, Arrived
<1>8. ASSUME req.op # "copy" PROVE fs[p] \in {"none", Late}
  <2>1. GoneInv
    BY <1>5, <1>8 DEF WholeInv
  <2>2. fs[req.srcs[i]] \in {"none", Late}
    BY <1>1, <1>3, <2>1 DEF GoneInv, Active
  <2> QED  BY <1>2, <1>6, <2>2 DEF IsTree
<1> QED  BY <1>7, <1>8

LEMMA WholeStep == BaseInv /\ WholeInv /\ [TreeNext]_treeVars => WholeInv'
<1> SUFFICES ASSUME BaseInv, WholeInv, [TreeNext]_treeVars PROVE WholeInv'
  OBVIOUS
<1>1. UNCHANGED <<before, req>>
  BY DEF TreeNext, treeVars
<1>2. Apart' = Apart /\ req' = req
  BY <1>1, SameRequest
<1>3. ASSUME req.op # "delete", Apart, ~misread'
      PROVE  WaitInv' /\ ThereInv'
  <2>1. ~misread
    BY <1>3 DEF TreeNext, treeVars, Accept, Reject, CreateLate, CancelTask, Prepare, CopyFile,
           CopyDir, NextEntry, CopyDirEnd, RemoveFile, RemoveDir, RemoveDirEnd, CopySource,
           RenameSource, DeleteSource, Copied, SourceDone, TaskDone, Fails
  <2>2. WaitInv /\ ThereInv
    BY <1>3, <2>1 DEF WholeInv
  <2>3. CASE CancelTask \/ RemoveDir \/ NextEntry \/ CopyDirEnd \/ UNCHANGED treeVars
    <3>1. UNCHANGED <<fs, step, nth>>
      BY <2>3 DEF CancelTask, RemoveDir, NextEntry, CopyDirEnd, SameTask, treeVars
    <3>2. ASSUME NEW q \in Paths, step = "copying", Pending(q) PROVE Pending(q)'
      <4>1. CASE CancelTask \/ UNCHANGED treeVars
        <5>1. calls' = calls
          BY <4>1 DEF CancelTask, treeVars
        <5> QED  BY <3>2, <5>1 DEF Pending
      <4>2. CASE RemoveDir
        <5>1. step = "removing"
          BY <4>2, RemovalAt DEF RemoveDir
        <5> QED  BY <3>2, <5>1
      <4> QED  BY <1>3, <2>3, <3>2, <4>1, <4>2, NextEntryPending, CopyDirEndPending
    <3> QED  BY <1>1, <2>2, <3>1, <3>2, CallsWhole
  <2>4. CASE DeleteSource
    BY <1>3, <2>4 DEF DeleteSource
  <2>5. CASE Prepare \/ CopySource \/ Copied \/ SourceDone \/ Reject \/ TaskDone \/ Fails
    BY <1>1, <1>3, <2>2, <2>5, TurnWhole
  <2> QED  BY <1>1, <1>3, <2>2, <2>3, <2>4, <2>5, AcceptWhole, CreateLateWhole, CopyFileWhole,
              CopyDirWhole, RemoveWhole, RenameWhole DEF TreeNext
<1>4. ASSUME req.op = "delete" \/ (req.op # "copy" /\ Apart)
      PROVE  GoneInv'
  <2>1. GoneInv /\ req.op # "copy"
    BY <1>4 DEF WholeInv
  <2>2. CASE CopyFile \/ CopyDir \/ CopyDirEnd \/ (NextEntry /\ Working("copy"))
    <3>1. Working("copy")
      BY <2>2 DEF CopyFile, CopyDir, CopyDirEnd
    <3>2. Apart
      BY <1>4, <3>1, CopyAt
    <3> QED  BY <1>1, <2>1, <2>2, <3>2, WriteGone
  <2>3. CASE RemoveDir \/ (NextEntry /\ Working("remove"))
    BY <1>1, <2>1, <2>3, EntryGone
  <2>4. CASE RenameSource
    <3>1. Apart
      BY <1>4, <2>4 DEF RenameSource
    <3> QED  BY <1>1, <2>1, <2>4, <3>1, RenameGone
  <2>5. CASE CreateLate
    BY <1>1, <2>1, <2>5, WriteGone
  <2>6. CASE RemoveFile \/ RemoveDirEnd
    BY <1>1, <2>1, <2>6, RemoveGone
  <2>7. CASE \/ Accept \/ Prepare \/ CopySource \/ DeleteSource \/ Copied \/ SourceDone
             \/ Reject \/ TaskDone \/ Fails \/ CancelTask \/ UNCHANGED treeVars
    BY <1>1, <2>1, <2>7, TurnGone
  <2>8. NextEntry => Working("copy") \/ Working("remove")
    BY DEF NextEntry
  <2> QED  BY <2>2, <2>3, <2>4, <2>5, <2>6, <2>7, <2>8 DEF TreeNext
<1>5. (step' # "over" => outcome' = "") /\ DoneIsWhole'
  <2>1. CASE TaskDone
    <3>1. step' = "over"
      BY <2>1 DEF TaskDone
    <3> QED  BY <1>1, <2>1, <3>1, TaskDoneWhole
  <2>2. CASE Reject \/ Fails
    <3>1. step' = "over" /\ outcome' # "done"
      BY <2>2 DEF Reject, Fails
    <3> QED  BY <3>1 DEF DoneIsWhole
  <2>3. CASE UNCHANGED treeVars
    <3>1. UNCHANGED <<before, fs, req, step, outcome, misread>>
      BY <2>3 DEF treeVars
    <3>2. (step # "over" => outcome = "") /\ DoneIsWhole
      BY DEF WholeInv
    <3>3. Sources' = Sources /\ \A i : Target(i)' = Target(i)
      BY <1>1, SameRequest
    <3> QED  BY <1>2, <3>1, <3>2, <3>3 DEF DoneIsWhole
  <2>4. CASE \/ Accept \/ CreateLate \/ CancelTask \/ Prepare
             \/ CopyFile \/ CopyDir \/ NextEntry \/ CopyDirEnd
             \/ RemoveFile \/ RemoveDir \/ RemoveDirEnd
             \/ CopySource \/ RenameSource \/ DeleteSource \/ Copied \/ SourceDone
    <3>1. step # "over" /\ outcome' = outcome
      BY <2>4 DEF Accept, CreateLate, CancelTask, Prepare, CopyFile, CopyDir, NextEntry,
         CopyDirEnd, RemoveFile, RemoveDir, RemoveDirEnd, CopySource, RenameSource,
         DeleteSource, Copied, SourceDone, SameTask, Working
    <3>2. outcome' = ""
      BY <3>1 DEF WholeInv
    <3> QED  BY <3>2 DEF DoneIsWhole
  <2> QED  BY <2>1, <2>2, <2>3, <2>4 DEF TreeNext
<1> QED  BY <1>2, <1>3, <1>4, <1>5 DEF WholeInv

\* A task that is reported done did the whole of what was asked, for sources that
\* have different names and do not hold one another's targets: every file and
\* directory of a source is at the target (copy_path, move_path), and after a
\* move or a deletion nothing of it is where it was (remove_path).
THEOREM DoneWhole == TreeSpec => []DoneIsWhole
<1>1. TreeInit => WholeInv
  <2> SUFFICES ASSUME TreeInit PROVE WholeInv
    OBVIOUS
  <2>1. step = "request" /\ outcome = ""
    BY DEF TreeInit
  <2>2. WaitInv /\ ThereInv /\ GoneInv
    BY <2>1 DEF WaitInv, ThereInv, GoneInv, Waiting, Served, Active
  <2>3. DoneIsWhole
    BY <2>1 DEF DoneIsWhole
  <2> QED  BY <2>1, <2>2, <2>3 DEF WholeInv
<1>2. WholeInv => DoneIsWhole
  BY DEF WholeInv
<1> QED  BY <1>1, <1>2, WholeStep, BaseInvariance, PTL DEF TreeSpec

===============================================================================
