------------------------------ MODULE ChainProofs -----------------------------
(***************************************************************************)
(* Proofs about the 7z coder chain, for every header and every folder.     *)
(*                                                                         *)
(* The nodes of a folder are accounted for (NodesAccounted of ChainGraph). *)
(* A node is counted once because the calls of build_coder in progress are *)
(* for different coders, those marked in visiting[], and none of them is   *)
(* registered yet: that is what the check for a cycle is for.  The depth of*)
(* the recursion is then the number of marked coders.                      *)
(*                                                                         *)
(* What is built is the tree below the output coder (BuiltIsTree).  The    *)
(* calls in progress lead down from that coder, each for what feeds the    *)
(* input its caller is at (Nested), so a coder that is met again while its *)
(* own call is in progress is under itself; what is built has all it draws *)
(* from (WellBuilt), so a coder that is not built yet is not under itself. *)
(* Under is a closure because it cannot grow more often than there are     *)
(* coders (UnderClosed).                                                   *)
(*                                                                         *)
(* The decoding pipeline of CoderChain: the calls of node_pull in progress *)
(* lead from the root towards the packed streams, each asked for by the one*)
(* before it, what a call returns is for a caller that waits for it, and a *)
(* filter that waits has given out all it had converted (PullInv).  Every  *)
(* byte a filter's input gave out is then in the filter's buffers, behind  *)
(* its program counter or on its way to it (FilterPcIsPosition).           *)
(*                                                                         *)
(* Which bytes these are (BytesInOrder, OkIsWholeFolder).  Part(s, at, ref)*)
(* says that s stands in ref behind its first `at` items, and ref is what  *)
(* the coder makes of its whole input (Raw, Content).  What a node gave    *)
(* out, what its call in progress has and what it keeps converted is made  *)
(* of the first q items of its input, its input buffer has those that      *)
(* follow, and together they are what its input gave out (Straight).  BCJ2 *)
(* is the merge of MAIN with CALL and JUMP, one item of MAIN at a time, and*)
(* may stand in the middle of a branch (Merged, Branched); before, it reads*)
(* its side streams in full (Unread).  Flow says so of every node, whether *)
(* its call is in progress or not, and of the answer on its way.           *)
(***************************************************************************)
EXTENDS ChainGraph, CoderChain, FiniteSetTheorems, SequenceTheorems, WellFoundedInduction,
        TLAPS

Frame == [coder : Coders, input : Nat]

\* The calls in progress are for coders of their own, those b->visiting marks.
CallsOf(calls, marked) ==
  /\ calls \in Seq(Frame)
  /\ \A i, j \in DOMAIN calls : calls[i].coder = calls[j].coder => i = j
  /\ marked = { calls[i].coder : i \in DOMAIN calls }
  /\ IsFiniteSet(marked) /\ Cardinality(marked) = Len(calls)

\* What sz_chain_parse leaves of the bonds.
SoundBonds == (\A b \in Bonds : b[2] \in Coders) /\ Outputs # {}

GraphInv ==
  /\ hdr \in Headers /\ held \in Int
  /\ phase \in {"parse", "check", "build", "unwind", "built", "free", "over"}
  /\ phase \in {"check", "build"} => SoundBonds
  /\ CallsOf(building, visiting)
  /\ byCoder \subseteq Coders \ visiting /\ IsFiniteSet(byPack)
  /\ phase \in {"build", "unwind"} <=> building # <<>>
  /\ phase \in {"parse", "check", "over"} => byCoder = {} /\ byPack = {}
  /\ held = Cardinality(byCoder) + Cardinality(byPack) + Len(building)

LEMMA CoderCount ==
  ASSUME hdr \in Headers
  PROVE  /\ Len(hdr.method) \in Nat /\ Coders = 1 .. Len(hdr.method)
         /\ IsFiniteSet(Coders) /\ Cardinality(Coders) = Len(hdr.method)
<1>1. Len(hdr.method) \in Nat
  BY GraphAssumption DEF HeaderForm
<1> QED  BY <1>1, FS_Interval DEF Coders

LEMMA SmallestOf ==
  ASSUME NEW S \in SUBSET Nat, S # {}
  PROVE  \E x \in S : \A y \in S : x <= y
<1> DEFINE R == OpToRel(<, Nat)
<1>1. IsWellFoundedOn(R, Nat)
  BY NatLessThanWellFounded
<1>2. \A x, y \in Nat : <<y, x>> \in R <=> y < x
  BY DEF OpToRel
<1> HIDE DEF R
<1>3. \E x \in S : \A y \in S : ~(<<y, x>> \in R)
  BY <1>1, WFMin
<1>4. PICK x \in S : \A y \in S : ~(<<y, x>> \in R)
  BY <1>3
<1>5. \A y \in S : ~(y < x)
  BY <1>2, <1>4
<1> QED  BY <1>5

\* The output coder is one that no bond draws from.
LEMMA FirstOutput ==
  ASSUME hdr \in Headers, Outputs # {}
  PROVE  UnpackCoder \in Outputs /\ Outputs \subseteq Coders
<1>1. Outputs \in SUBSET Nat /\ Outputs \subseteq Coders
  BY CoderCount DEF Outputs
<1>2. \E c \in Outputs : \A d \in Outputs : c <= d
  BY <1>1, SmallestOf
<1> QED  BY <1>1, <1>2 DEF UnpackCoder

LEMMA SomeCalls ==
  ASSUME NEW s, NEW m, CallsOf(s, m), s # <<>>
  PROVE  /\ Len(s) \in Nat \ {0} /\ s[Len(s)] \in Frame /\ s[Len(s)].coder \in m
         /\ DOMAIN s = 1 .. Len(s)
BY DEF CallsOf

LEMMA PushCall ==
  ASSUME NEW s, NEW m, CallsOf(s, m), NEW c \in Coders \ m
  PROVE  CallsOf(Append(s, [coder |-> c, input |-> 1]), m \cup {c})
<1> DEFINE f == [coder |-> c, input |-> 1]
           t == Append(s, f)
<1>1. s \in Seq(Frame) /\ f \in Frame /\ f.coder = c /\ Len(s) \in Nat
  BY DEF CallsOf, Frame
<1> HIDE DEF f
<1>2. /\ t \in Seq(Frame) /\ Len(t) = Len(s) + 1 /\ DOMAIN t = 1 .. Len(s) + 1
      /\ DOMAIN s = 1 .. Len(s) /\ t[Len(s) + 1] = f /\ \A i \in 1 .. Len(s) : t[i] = s[i]
  BY <1>1
<1> HIDE DEF t
<1>3. \A i \in 1 .. Len(s) : s[i].coder \in m
  BY <1>2 DEF CallsOf
<1>4. \A i, j \in DOMAIN t : t[i].coder = t[j].coder => i = j
  <2> TAKE i, j \in DOMAIN t
  <2> HAVE t[i].coder = t[j].coder
  <2>1. CASE i \in 1 .. Len(s) /\ j \in 1 .. Len(s)
    BY <1>2, <2>1 DEF CallsOf
  <2>2. CASE i = Len(s) + 1 /\ j \in 1 .. Len(s)
    BY <1>1, <1>2, <1>3, <2>2
  <2>3. CASE i \in 1 .. Len(s) /\ j = Len(s) + 1
    BY <1>1, <1>2, <1>3, <2>3
  <2> QED  BY <1>1, <1>2, <2>1, <2>2, <2>3
<1>5. m \cup {c} = { t[i].coder : i \in DOMAIN t }
  <2>1. { t[i].coder : i \in DOMAIN t } = { s[i].coder : i \in DOMAIN s } \cup {c}
    BY <1>1, <1>2
  <2> QED  BY <2>1 DEF CallsOf
<1>6. IsFiniteSet(m \cup {c}) /\ Cardinality(m \cup {c}) = Len(t)
  BY <1>2, FS_AddElement DEF CallsOf
<1>7. CallsOf(t, m \cup {c})
  BY <1>2, <1>4, <1>5, <1>6 DEF CallsOf
<1> QED  BY <1>7 DEF t, f

LEMMA PopCall ==
  ASSUME NEW s, NEW m, CallsOf(s, m), s # <<>>
  PROVE  /\ CallsOf(SubSeq(s, 1, Len(s) - 1), m \ {s[Len(s)].coder})
         /\ Len(SubSeq(s, 1, Len(s) - 1)) = Len(s) - 1
<1> DEFINE n == Len(s)
           t == SubSeq(s, 1, n - 1)
           c == s[n].coder
<1>1. s \in Seq(Frame) /\ n \in Nat \ {0} /\ DOMAIN s = 1 .. n /\ c \in m
  BY SomeCalls DEF CallsOf
<1>2. /\ t \in Seq(Frame) /\ Len(t) = n - 1 /\ DOMAIN t = 1 .. n - 1
      /\ \A i \in 1 .. n - 1 : t[i] = s[i]
  BY <1>1
<1>3. /\ \A i, j \in 1 .. n : s[i].coder = s[j].coder => i = j
      /\ m = { s[i].coder : i \in 1 .. n } /\ IsFiniteSet(m) /\ Cardinality(m) = n
  BY <1>1 DEF CallsOf
<1>4. c = s[n].coder
  OBVIOUS
<1> HIDE DEF t, c, n
<1>5. \A i, j \in DOMAIN t : t[i].coder = t[j].coder => i = j
  <2> TAKE i, j \in DOMAIN t
  <2>1. i \in 1 .. n /\ j \in 1 .. n /\ t[i] = s[i] /\ t[j] = s[j]
    BY <1>1, <1>2
  <2> QED  BY <1>3, <2>1
<1>6. \A i \in 1 .. n - 1 : s[i].coder # c
  BY <1>1, <1>3, <1>4
<1>7. m \ {c} = { t[i].coder : i \in DOMAIN t }
  <2>1. \A i : i \in 1 .. n <=> i \in 1 .. n - 1 \/ i = n
    BY <1>1
  <2>2. m \ {c} = { s[i].coder : i \in 1 .. n - 1 }
    BY <1>3, <1>4, <1>6, <2>1
  <2>3. { t[i].coder : i \in DOMAIN t } = { s[i].coder : i \in 1 .. n - 1 }
    BY <1>2
  <2> QED  BY <2>2, <2>3
<1>8. IsFiniteSet(m \ {c}) /\ Cardinality(m \ {c}) = n - 1
  <2>1. IsFiniteSet(m) /\ Cardinality(m) = n /\ c \in m
    BY <1>1, <1>3
  <2> QED  BY <2>1, FS_RemoveElement
<1>9. CallsOf(t, m \ {c}) /\ Len(t) = n - 1
  BY <1>2, <1>5, <1>7, <1>8 DEF CallsOf
<1> QED  BY <1>9 DEF t, c, n

LEMMA NextCall ==
  ASSUME NEW s, NEW m, CallsOf(s, m), s # <<>>
  PROVE  CallsOf(NextInput(s), m) /\ Len(NextInput(s)) = Len(s)
<1> DEFINE t == NextInput(s)
           n == Len(s)
<1>1. s \in Seq(Frame) /\ n \in Nat \ {0} /\ DOMAIN s = 1 .. n /\ s[n] \in Frame
  BY SomeCalls DEF CallsOf
<1>2. t = [s EXCEPT ![n] = [s[n] EXCEPT !.input = s[n].input + 1]]
  BY DEF NextInput
<1> HIDE DEF t, n
<1>3. /\ t \in Seq(Frame) /\ Len(t) = Len(s) /\ DOMAIN t = DOMAIN s
      /\ \A i \in DOMAIN s : t[i].coder = s[i].coder
  <2> DEFINE f == [s[n] EXCEPT !.input = s[n].input + 1]
  <2>1. f \in Frame /\ f.coder = s[n].coder
    BY <1>1 DEF Frame
  <2>2. t = [s EXCEPT ![n] = f]
    BY <1>2
  <2> HIDE DEF f
  <2>3. t \in Seq(Frame) /\ Len(t) = Len(s) /\ DOMAIN t = DOMAIN s
    BY <1>1, <2>1, <2>2
  <2>4. t[n] = f /\ \A i \in DOMAIN s : i # n => t[i] = s[i]
    BY <1>1, <2>2
  <2> QED  BY <2>1, <2>3, <2>4
<1>4. { t[i].coder : i \in DOMAIN t } = { s[i].coder : i \in DOMAIN s }
  BY <1>3
<1>5. CallsOf(t, m) /\ Len(t) = Len(s)
  BY <1>3, <1>4 DEF CallsOf
<1> QED  BY <1>5 DEF t

LEMMA FeederIsCoder ==
  ASSUME SoundBonds, FedByCoder
  PROVE  Feeder \in Coders
<1>1. (CHOOSE b \in Bonds : b[1] = InStream) \in Bonds
  BY DEF FedByCoder
<1> QED  BY <1>1 DEF SoundBonds, Feeder

LEMMA SameHeader ==
  ASSUME UNCHANGED hdr
  PROVE  /\ Coders' = Coders /\ SoundBonds' = SoundBonds
         /\ CallsOf(building, visiting)' = CallsOf(building', visiting')
<1>1. Coders' = Coders /\ Bonds' = Bonds
  BY DEF Coders, Bonds
<1>2. Outputs' = Outputs
  BY <1>1 DEF Outputs
<1>3. Frame' = Frame
  BY <1>1 DEF Frame
<1> QED  BY <1>1, <1>2, <1>3 DEF SoundBonds, CallsOf

LEMMA Finite ==
  ASSUME GraphInv
  PROVE  /\ IsFiniteSet(byCoder) /\ Cardinality(byCoder) \in Nat /\ Cardinality(byPack) \in Nat
         /\ Len(building) \in Nat /\ Len(building) <= Len(hdr.method)
<1>1. /\ byCoder \in SUBSET Coders /\ visiting \in SUBSET Coders /\ building \in Seq(Frame)
      /\ Len(building) = Cardinality(visiting)
  <2>1. visiting \in SUBSET Coders
    <3>1. building \in Seq(Frame) /\ visiting = { building[i].coder : i \in DOMAIN building }
      BY DEF GraphInv, CallsOf
    <3>2. \A i \in DOMAIN building : building[i] \in Frame
      BY <3>1
    <3>3. \A f \in Frame : f.coder \in Coders
      BY DEF Frame
    <3> QED  BY <3>1, <3>2, <3>3
  <2> QED  BY <2>1 DEF GraphInv, CallsOf
<1>2. IsFiniteSet(byCoder) /\ Cardinality(visiting) <= Len(hdr.method)
  BY <1>1, CoderCount, FS_Subset DEF GraphInv
<1> QED  BY <1>1, <1>2, FS_CardinalityType DEF GraphInv

\* NewNode: the call is pushed, or there is no memory for its node.
LEMMA NodeAdded ==
  ASSUME GraphInv, phase \in {"check", "build"}, SoundBonds,
         NEW c \in Coders \ (visiting \cup byCoder),
         NewNode(c), UNCHANGED <<hdr, byCoder, byPack>>
  PROVE  GraphInv'
<1>1. CASE /\ building' = Append(building, [coder |-> c, input |-> 1])
           /\ visiting' = visiting \union {c} /\ held' = held + 1 /\ phase' = "build"
  <2>1. CallsOf(building', visiting')
    BY <1>1, PushCall DEF GraphInv
  <2>2. building' # <<>> /\ Len(building') = Len(building) + 1
    BY <1>1 DEF GraphInv, CallsOf
  <2>3. byCoder \subseteq Coders \ visiting'
    BY <1>1 DEF GraphInv
  <2>4. CallsOf(building, visiting)' /\ SoundBonds' /\ Coders' = Coders
    BY <2>1, SameHeader
  <2>5. held' = Cardinality(byCoder') + Cardinality(byPack') + Len(building')
    BY <1>1, <2>2, Finite DEF GraphInv
  <2> QED  BY <1>1, <2>2, <2>3, <2>4, <2>5 DEF GraphInv
<1>2. CASE /\ phase' = (IF building = <<>> THEN "free" ELSE "unwind")
           /\ UNCHANGED <<building, visiting, held>>
  BY <1>2, SameHeader DEF GraphInv
<1> QED  BY <1>1, <1>2 DEF NewNode

\* Steps that leave the calls and the nodes alone.
LEMMA CallsKept ==
  ASSUME GraphInv, UNCHANGED <<hdr, building, visiting, byCoder, byPack, held>>,
         \/ phase = "build" /\ phase' = "unwind"
         \/ phase = "parse" /\ (phase' = "over" \/ (phase' = "check" /\ SoundBonds))
         \/ phase = "check" /\ phase' = "over"
         \/ phase = "built" /\ phase' = "free"
         \/ phase' = phase
  PROVE  GraphInv'
BY SameHeader DEF GraphInv

LEMMA GraphInitially == GraphInit => GraphInv
BY FS_EmptySet DEF GraphInit, GraphInv, CallsOf

LEMMA CallInProgress ==
  ASSUME GraphInv, phase \in {"build", "unwind"}
  PROVE  /\ building # <<>> /\ Call.coder \in visiting /\ Call.coder \in Coders
         /\ CallsOf(Callers, visiting \ {Call.coder}) /\ Len(Callers) = Len(building) - 1
         /\ Len(building) \in Nat \ {0}
<1>1. building # <<>> /\ CallsOf(building, visiting)
  BY DEF GraphInv
<1>2. /\ Len(building) \in Nat \ {0} /\ Call \in Frame /\ Call.coder \in visiting
      /\ CallsOf(Callers, visiting \ {Call.coder}) /\ Len(Callers) = Len(building) - 1
  BY <1>1, SomeCalls, PopCall DEF Call, Callers
<1> QED  BY <1>1, <1>2 DEF Frame

LEMMA GraphStep == GraphInv /\ [GraphNext]_graphVars => GraphInv'
<1> SUFFICES ASSUME GraphInv, [GraphNext]_graphVars PROVE GraphInv'
  OBVIOUS
<1>1. CASE UNCHANGED graphVars
  BY <1>1, CallsKept DEF graphVars
<1>2. CASE Parse
  <2>1. Parsed => SoundBonds
    BY DEF Parsed, BondsFit, SoundBonds
  <2> QED  BY <1>2, <2>1, CallsKept DEF Parse
<1>3. CASE Check
  <2>1. SoundBonds /\ visiting = {} /\ byCoder = {} /\ phase = "check"
    <3>1. building = <<>>
      BY <1>3 DEF Check, GraphInv
    <3> QED  BY <1>3, <3>1 DEF Check, GraphInv, CallsOf
  <2>2. CASE phase' = "over" /\ UNCHANGED <<building, visiting, held>>
    BY <1>3, <2>1, <2>2, CallsKept DEF Check
  <2>3. CASE NewNode(UnpackCoder)
    <3>1. UnpackCoder \in Coders
      BY <2>1, FirstOutput DEF GraphInv, SoundBonds
    <3> QED  BY <1>3, <2>1, <2>3, <3>1, NodeAdded DEF Check
  <2> QED  BY <1>3, <2>2, <2>3 DEF Check
<1>4. CASE FromPack
  <2>1. phase = "build" /\ UNCHANGED <<hdr, visiting, byCoder>>
    BY <1>4 DEF FromPack, InputLeft
  <2>2. PICK p :
     \/ /\ building' = NextInput(building)
        /\ byPack' = byPack \union {p}
        /\ held' = IF p \in byPack THEN held ELSE held + 1
        /\ UNCHANGED phase
     \/ phase' = "unwind" /\ UNCHANGED <<building, byPack, held>>
    BY <1>4 DEF FromPack
  <2>3. CASE /\ building' = NextInput(building)
             /\ byPack' = byPack \union {p}
             /\ held' = IF p \in byPack THEN held ELSE held + 1
             /\ UNCHANGED phase
    <3>1. CallsOf(building', visiting') /\ Len(building') = Len(building) /\ Len(building) \in Nat \ {0}
      BY <2>1, <2>3, NextCall, CallInProgress DEF GraphInv
    <3>2. /\ IsFiniteSet(byPack')
          /\ Cardinality(byPack') = IF p \in byPack THEN Cardinality(byPack)
                                    ELSE Cardinality(byPack) + 1
      BY <2>3, FS_AddElement DEF GraphInv
    <3>3. building' # <<>>
      BY <3>1
    <3> QED  BY <2>1, <2>3, <3>1, <3>2, <3>3, SameHeader, Finite DEF GraphInv
  <2>4. CASE phase' = "unwind" /\ UNCHANGED <<building, byPack, held>>
    BY <2>1, <2>4, CallsKept
  <2> QED  BY <2>2, <2>3, <2>4
<1>5. CASE Reuse
  <2>1. phase = "build" /\ building' = NextInput(building)
        /\ UNCHANGED <<hdr, phase, visiting, byCoder, byPack, held>>
    BY <1>5 DEF Reuse, InputLeft
  <2>2. CallsOf(building', visiting') /\ Len(building') = Len(building) /\ Len(building) \in Nat \ {0}
    BY <2>1, NextCall, CallInProgress DEF GraphInv
  <2>3. building' # <<>>
    BY <2>2
  <2> QED  BY <2>1, <2>2, <2>3, SameHeader DEF GraphInv
<1>6. CASE Cycle \/ SetUpFails \/ DecodeFolder
  BY <1>6, CallsKept DEF Cycle, InputLeft, SetUpFails, DecodeFolder
<1>7. CASE Descend
  <2>1. phase = "build" /\ SoundBonds
    BY <1>7 DEF Descend, InputLeft, GraphInv
  <2>2. Feeder \in Coders \ (visiting \cup byCoder)
    BY <1>7, <2>1, FeederIsCoder DEF Descend
  <2> QED  BY <1>7, <2>1, <2>2, NodeAdded DEF Descend
<1>8. CASE SetUp
  <2>1. /\ phase = "build" /\ byCoder' = byCoder \union {Call.coder}
        /\ visiting' = visiting \ {Call.coder} /\ UNCHANGED <<hdr, byPack, held>>
        /\ IF Callers = <<>> THEN building' = <<>> /\ phase' = "built"
           ELSE building' = NextInput(Callers) /\ UNCHANGED phase
    BY <1>8 DEF SetUp
  <2>2. CallsOf(building', visiting') /\ Len(building') = Len(building) - 1
    BY <2>1, CallInProgress, NextCall
  <2>3. Cardinality(byCoder') = Cardinality(byCoder) + 1
    BY <2>1, CallInProgress, Finite, FS_AddElement DEF GraphInv
  <2>4. byCoder' \subseteq Coders \ visiting'
    BY <2>1, CallInProgress DEF GraphInv
  <2>5. phase' \in {"build", "unwind"} <=> building' # <<>>
    <3>1. CASE Callers = <<>>
      BY <2>1, <3>1
    <3>2. CASE Callers # <<>>
      <4>1. Len(Callers) # 0
        BY <3>2, CallInProgress, <2>1 DEF CallsOf
      <4>2. building' # <<>>
        BY <2>1, <2>2, <3>2, <4>1, CallInProgress
      <4> QED  BY <2>1, <3>2, <4>2
    <3> QED  BY <3>1, <3>2
  <2>6. phase' \in {"build", "built"} /\ SoundBonds
    BY <2>1 DEF GraphInv
  <2> QED  BY <2>1, <2>2, <2>3, <2>4, <2>5, <2>6, SameHeader, Finite DEF GraphInv
<1>9. CASE Unwind
  <2>1. /\ phase = "unwind" /\ held' = held - 1 /\ visiting' = visiting \ {Call.coder}
        /\ building' = Callers /\ UNCHANGED <<hdr, byCoder, byPack>>
        /\ phase' = IF Callers = <<>> THEN "free" ELSE phase
    BY <1>9 DEF Unwind
  <2>2. CallsOf(building', visiting') /\ Len(building') = Len(building) - 1
    BY <2>1, CallInProgress
  <2>3. byCoder \subseteq Coders \ visiting'
    BY <2>1 DEF GraphInv
  <2> QED  BY <2>1, <2>2, <2>3, SameHeader, Finite DEF GraphInv
<1>10. CASE FreeNodes
  <2>1. /\ phase = "free" /\ held' = held - Cardinality(byCoder) - Cardinality(byPack)
        /\ byCoder' = {} /\ byPack' = {} /\ phase' = "over" /\ UNCHANGED <<hdr, building, visiting>>
    BY <1>10 DEF FreeNodes
  <2>2. building = <<>> /\ held' = 0
    BY <2>1, Finite DEF GraphInv
  <2> QED  BY <2>1, <2>2, SameHeader, FS_EmptySet DEF GraphInv
<1> QED  BY <1>1, <1>2, <1>3, <1>4, <1>5, <1>6, <1>7, <1>8, <1>9, <1>10 DEF GraphNext

\* Every node allocated for a folder is registered or belongs to one call of
\* build_coder in progress, every way out frees each once, and the calls are never
\* deeper than there are coders.
THEOREM NodesAlwaysAccounted == GraphSpec => []NodesAccounted
<1>1. GraphInv => NodesAccounted
  <2> SUFFICES ASSUME GraphInv PROVE NodesAccounted
    OBVIOUS
  <2>1. phase = "over" => held = 0
    <3> SUFFICES ASSUME phase = "over" PROVE held = 0
      OBVIOUS
    <3>1. byCoder = {} /\ byPack = {} /\ building = <<>>
      BY DEF GraphInv
    <3> QED  BY <3>1, FS_EmptySet DEF GraphInv
  <2> QED  BY <2>1, Finite DEF GraphInv, NodesAccounted
<1> QED  BY <1>1, GraphInitially, GraphStep, PTL DEF GraphSpec

-------------------------------------------------------------------------------
(* What is built is the tree below the output coder.                       *)

LEMMA Upwards ==
  ASSUME NEW n \in Nat, NEW P, 0 \in P, \A i \in 0 .. n - 1 : i \in P => i + 1 \in P
  PROVE  \A i \in 0 .. n : i \in P
<1> DEFINE S == { i \in 0 .. n : i \notin P }
<1> SUFFICES ASSUME S # {} PROVE FALSE
  OBVIOUS
<1>1. S \in SUBSET Nat
  OBVIOUS
<1>2. PICK m \in S : \A y \in S : m <= y
  <2> HIDE DEF S
  <2> QED  BY <1>1, SmallestOf
<1>3. m \in 1 .. n /\ m \notin P
  BY <1>2
<1>4. m - 1 \in 0 .. n - 1 /\ (m - 1) + 1 = m
  BY <1>3
<1>5. m - 1 \notin P
  BY <1>3, <1>4
<1>6. m - 1 \in S
  BY <1>4, <1>5
<1> QED  BY <1>2, <1>3, <1>6

\* A recursion over an interval has a result.
Iteration(n, A, a, g, f) ==
  f \in [0 .. n -> A] /\ f[0] = a /\ \A i \in 1 .. n : f[i] = g[<<i, f[i - 1]>>]

LEMMA Iterates ==
  ASSUME NEW n \in Nat, NEW A, NEW a \in A, NEW g \in [(1 .. n) \X A -> A]
  PROVE  \E f : Iteration(n, A, a, g, f)
<1> DEFINE P == { m \in 0 .. n : \E f : Iteration(m, A, a, g, f) }
<1>1. 0 \in P
  <2> DEFINE f == [i \in 0 .. 0 |-> a]
  <2>1. f \in [0 .. 0 -> A] /\ f[0] = a
    OBVIOUS
  <2>2. Iteration(0, A, a, g, f)
    BY <2>1 DEF Iteration
  <2> QED  BY <2>2
<1>2. ASSUME NEW m \in 0 .. n - 1, m \in P PROVE m + 1 \in P
  <2>1. PICK f : Iteration(m, A, a, g, f)
    BY <1>2
  <2>2. m \in Nat /\ m + 1 \in 1 .. n /\ m + 1 \in 0 .. n
    OBVIOUS
  <2>3. f \in [0 .. m -> A] /\ f[0] = a /\ \A i \in 1 .. m : f[i] = g[<<i, f[i - 1]>>]
    BY <2>1 DEF Iteration
  <2> DEFINE next == g[<<m + 1, f[m]>>]
             h == [i \in 0 .. m + 1 |-> IF i = m + 1 THEN next ELSE f[i]]
  <2>4. next \in A
    BY <2>2, <2>3
  <2> HIDE DEF P, next
  <2>5. h \in [0 .. m + 1 -> A] /\ h[m + 1] = next /\ \A i \in 0 .. m : h[i] = f[i]
    BY <2>2, <2>3, <2>4
  <2> HIDE DEF h
  <2>6. h[0] = a
    BY <2>2, <2>3, <2>5
  <2>7. ASSUME NEW i \in 1 .. m + 1 PROVE h[i] = g[<<i, h[i - 1]>>]
    <3>1. i - 1 \in 0 .. m /\ h[i - 1] = f[i - 1]
      BY <2>2, <2>5
    <3>2. CASE i = m + 1
      <4>1. i - 1 = m
        BY <2>2, <3>2
      <4> QED  BY <2>5, <3>1, <3>2, <4>1 DEF next
    <3>3. CASE i # m + 1
      <4>1. i \in 1 .. m /\ i \in 0 .. m
        BY <2>2, <3>3
      <4> QED  BY <2>3, <2>5, <3>1, <4>1
    <3> QED  BY <3>2, <3>3
  <2>8. Iteration(m + 1, A, a, g, h)
    BY <2>5, <2>6, <2>7 DEF Iteration
  <2> QED  BY <2>2, <2>8 DEF P
<1> HIDE DEF P
<1>3. n \in P
  <2>1. \A i \in 0 .. n : i \in P
    BY <1>1, <1>2, Upwards
  <2> QED  BY <2>1
<1> QED  BY <1>3 DEF P

CountsInputs(f) ==
  f = [i \in 0 .. Len(hdr.method) |-> IF i = 0 THEN 1 ELSE f[i - 1] + hdr.ins[i]]

LEMMA FirstInputs ==
  ASSUME hdr \in Headers, NEW c \in Coders
  PROVE  FirstIn(c) \in Nat /\ hdr.ins[c] \in Nat
<1> DEFINE n == Len(hdr.method)
           ins == hdr.ins
           g == [x \in (1 .. n) \X Nat |-> x[2] + ins[x[1]]]
<1>1. n \in Nat /\ ins \in [1 .. n -> Nat] /\ c \in 1 .. n /\ 1 \in Nat
  <2>1. HeaderForm(hdr)
    BY GraphAssumption
  <2> QED  BY <2>1 DEF HeaderForm, Coders
<1>7. ins = hdr.ins /\ n = Len(hdr.method)
  OBVIOUS
<1> HIDE DEF n, ins
<1>2. g \in [(1 .. n) \X Nat -> Nat]
  BY <1>1
<1>3. PICK f : Iteration(n, Nat, 1, g, f)
  <2> HIDE DEF g
  <2> QED  BY <1>1, <1>2, Iterates
<1>4. f \in [0 .. n -> Nat] /\ f[0] = 1 /\ \A i \in 1 .. n : f[i] = g[<<i, f[i - 1]>>]
  BY <1>3 DEF Iteration
<1>5. f = [i \in 0 .. n |-> IF i = 0 THEN 1 ELSE f[i - 1] + ins[i]]
  <2>1. ASSUME NEW i \in 0 .. n PROVE f[i] = IF i = 0 THEN 1 ELSE f[i - 1] + ins[i]
    <3>1. CASE i # 0
      <4>1. i \in 1 .. n /\ i - 1 \in 0 .. n
        BY <1>1, <3>1
      <4>2. f[i - 1] \in Nat
        BY <1>4, <4>1
      <4>3. g[<<i, f[i - 1]>>] = f[i - 1] + ins[i]
        BY <4>1, <4>2
      <4> HIDE DEF g
      <4> QED  BY <1>4, <3>1, <4>1, <4>3
    <3> QED  BY <1>4, <3>1
  <2> HIDE DEF g
  <2> QED  BY <1>4, <2>1
<1>6. CountsInputs(CHOOSE k : CountsInputs(k))
  <2>1. CountsInputs(f)
    BY <1>5, <1>7 DEF CountsInputs
  <2> QED  BY <2>1
<1> DEFINE u == CHOOSE k : CountsInputs(k)
<1>8. FirstIn(c) = u[c - 1]
  BY DEF FirstIn, CountsInputs
<1>9. u = [i \in 0 .. n |-> IF i = 0 THEN 1 ELSE u[i - 1] + ins[i]]
  BY <1>6, <1>7 DEF CountsInputs
<1> HIDE DEF u, g
<1> DEFINE P == { i \in 0 .. n : u[i] \in Nat }
<1>10. \A i \in 0 .. n : u[i] = IF i = 0 THEN 1 ELSE u[i - 1] + ins[i]
  BY <1>9, Zenon
<1>11. 0 \in P
  BY <1>1, <1>10
<1>12. ASSUME NEW i \in 0 .. n - 1, i \in P PROVE i + 1 \in P
  <2>1. i + 1 \in 1 .. n /\ i + 1 \in 0 .. n /\ i + 1 # 0 /\ (i + 1) - 1 = i
    BY <1>1
  <2>2. u[i + 1] = u[i] + ins[i + 1]
    BY <1>10, <2>1
  <2>3. u[i] \in Nat /\ ins[i + 1] \in Nat
    BY <1>1, <1>12, <2>1
  <2>4. u[i + 1] \in Nat
    BY <2>2, <2>3
  <2> QED  BY <2>1, <2>4
<1>13. c - 1 \in P
  <2> HIDE DEF P
  <2>1. \A i \in 0 .. n : i \in P
    BY <1>1, <1>11, <1>12, Upwards
  <2> QED  BY <1>1, <2>1
<1> QED  BY <1>1, <1>7, <1>8, <1>13

\* What the coders in S draw from, one bond down.
FedTo(S) == { d \in Coders : \E e \in S : Feeds(d, e) }
Reaches(c, f) ==
  f = [k \in 0 .. Len(hdr.method) |->
         IF k = 0 THEN { d \in Coders : Feeds(d, c) }
         ELSE f[k - 1] \union { d \in Coders : \E e \in f[k - 1] : Feeds(d, e) }]

LEMMA UnderIs ==
  ASSUME hdr \in Headers, NEW c
  PROVE  \E f : /\ f \in [0 .. Len(hdr.method) -> SUBSET Coders]
                /\ f[0] = FedTo({c})
                /\ \A k \in 1 .. Len(hdr.method) : f[k] = f[k - 1] \union FedTo(f[k - 1])
                /\ Under(c) = f[Len(hdr.method)]
<1> DEFINE n == Len(hdr.method)
           A == SUBSET Coders
           a == FedTo({c})
           g == [x \in (1 .. n) \X A |-> x[2] \union FedTo(x[2])]
<1>1. n \in Nat
  BY CoderCount
<1>2. \A S : FedTo(S) \in A
  BY DEF FedTo
<1>3. n = Len(hdr.method) /\ A = SUBSET Coders /\ a = FedTo({c})
  OBVIOUS
<1>4. \A S \in A : S \union FedTo(S) \in A
  BY <1>2
<1>5. a \in A
  BY <1>2
<1>6. \A x \in (1 .. n) \X A : x[2] \in A
  OBVIOUS
<1> HIDE DEF n, A, a
<1>7. g \in [(1 .. n) \X A -> A]
  BY <1>4, <1>6
<1>8. \A i \in 1 .. n, S \in A : g[<<i, S>>] = S \union FedTo(S)
  OBVIOUS
<1> HIDE DEF g
<1>9. PICK f : Iteration(n, A, a, g, f)
  BY <1>1, <1>5, <1>7, Iterates
<1>10. f \in [0 .. n -> A] /\ f[0] = a /\ \A i \in 1 .. n : f[i] = g[<<i, f[i - 1]>>]
  BY <1>9 DEF Iteration
<1>11. \A i \in 1 .. n : f[i] = f[i - 1] \union FedTo(f[i - 1])
  <2> TAKE i \in 1 .. n
  <2>1. i - 1 \in 0 .. n
    BY <1>1
  <2>2. f[i - 1] \in A
    BY <1>10, <2>1
  <2> QED  BY <1>8, <1>10, <2>2
<1>12. f = [k \in 0 .. n |-> IF k = 0 THEN FedTo({c}) ELSE f[k - 1] \union FedTo(f[k - 1])]
  <2>1. ASSUME NEW k \in 0 .. n
        PROVE  f[k] = IF k = 0 THEN FedTo({c}) ELSE f[k - 1] \union FedTo(f[k - 1])
    <3>1. CASE k # 0
      <4>1. k \in 1 .. n
        BY <1>1, <3>1
      <4> QED  BY <1>11, <3>1, <4>1
    <3> QED  BY <1>3, <1>10, <3>1
  <2> QED  BY <1>10, <2>1
<1>13. Reaches(c, f)
  <2>1. FedTo({c}) = { d \in Coders : Feeds(d, c) }
    BY DEF FedTo
  <2>2. \A S : FedTo(S) = { d \in Coders : \E e \in S : Feeds(d, e) }
    BY DEF FedTo
  <2>3. f = [k \in 0 .. n |-> IF k = 0 THEN { d \in Coders : Feeds(d, c) }
                              ELSE f[k - 1] \union { d \in Coders : \E e \in f[k - 1] : Feeds(d, e) }]
    BY <1>12, <2>1, <2>2
  <2> QED  BY <1>3, <2>3 DEF Reaches
<1> DEFINE u == CHOOSE k : Reaches(c, k)
<1>14. Reaches(c, u)
  BY <1>13
<1>15. Under(c) = u[n]
  BY <1>3 DEF Under, Reaches
<1>16. u = [k \in 0 .. n |-> IF k = 0 THEN { d \in Coders : Feeds(d, c) }
                             ELSE u[k - 1] \union { d \in Coders : \E e \in u[k - 1] : Feeds(d, e) }]
  BY <1>3, <1>14 DEF Reaches
<1> HIDE DEF u
<1>17. u[0] = FedTo({c}) /\ \A k \in 1 .. n : u[k] = u[k - 1] \union FedTo(u[k - 1])
  <2>1. \A k \in 0 .. n : u[k] = IF k = 0 THEN { d \in Coders : Feeds(d, c) }
                ELSE u[k - 1] \union { d \in Coders : \E e \in u[k - 1] : Feeds(d, e) }
    BY <1>16, Zenon
  <2>2. 0 \in 0 .. n /\ \A k \in 1 .. n : k \in 0 .. n /\ k # 0
    BY <1>1
  <2> QED  BY <2>1, <2>2 DEF FedTo
<1>18. u \in [0 .. n -> A]
  <2> DEFINE P == { k \in 0 .. n : u[k] \in A }
  <2>1. 0 \in P
    BY <1>1, <1>2, <1>17
  <2>2. ASSUME NEW k \in 0 .. n - 1, k \in P PROVE k + 1 \in P
    <3>1. k + 1 \in 1 .. n /\ k + 1 \in 0 .. n /\ (k + 1) - 1 = k
      BY <1>1
    <3>2. u[k + 1] = u[k] \union FedTo(u[k])
      BY <1>17, <3>1
    <3> QED  BY <1>4, <2>2, <3>1, <3>2
  <2>3. \A k \in 0 .. n : k \in P
    <3> HIDE DEF P
    <3> QED  BY <1>1, <2>1, <2>2, Upwards
  <2>4. DOMAIN u = 0 .. n /\ u = [k \in 0 .. n |-> u[k]]
    BY <1>16
  <2> QED  BY <2>3, <2>4
<1> QED  BY <1>3, <1>15, <1>17, <1>18

\* Under(c) holds what feeds c, and what feeds any of its members; and it is in every
\* set that does.
LEMMA UnderLeast ==
  ASSUME hdr \in Headers, NEW c, NEW T, FedTo({c}) \subseteq T,
         \A e \in T, d \in Coders : Feeds(d, e) => d \in T
  PROVE  Under(c) \subseteq T
<1> DEFINE n == Len(hdr.method)
<1>1. n \in Nat
  BY CoderCount
<1>2. PICK f : /\ f[0] = FedTo({c}) /\ \A k \in 1 .. n : f[k] = f[k - 1] \union FedTo(f[k - 1])
               /\ Under(c) = f[n]
  BY UnderIs
<1> HIDE DEF n
<1> DEFINE P == { k \in 0 .. n : f[k] \subseteq T }
<1>3. 0 \in P
  BY <1>1, <1>2
<1>4. ASSUME NEW k \in 0 .. n - 1, k \in P PROVE k + 1 \in P
  <2>1. k + 1 \in 1 .. n /\ k + 1 \in 0 .. n /\ (k + 1) - 1 = k
    BY <1>1
  <2>2. f[k + 1] = f[k] \union FedTo(f[k])
    BY <1>2, <2>1
  <2>3. FedTo(f[k]) \subseteq T
    BY <1>4 DEF FedTo
  <2> QED  BY <1>4, <2>1, <2>2, <2>3
<1>5. n \in P
  <2> HIDE DEF P
  <2>1. \A k \in 0 .. n : k \in P
    BY <1>1, <1>3, <1>4, Upwards
  <2> QED  BY <1>1, <2>1
<1> QED  BY <1>2, <1>5

LEMMA UnderClosed ==
  ASSUME hdr \in Headers, NEW c
  PROVE  /\ Under(c) \subseteq Coders /\ FedTo({c}) \subseteq Under(c)
         /\ \A e \in Under(c), d \in Coders : Feeds(d, e) => d \in Under(c)
<1> DEFINE n == Len(hdr.method)
<1>1. n \in Nat /\ IsFiniteSet(Coders) /\ Cardinality(Coders) = n
  BY CoderCount
<1>2. PICK f : /\ f \in [0 .. n -> SUBSET Coders]
               /\ f[0] = FedTo({c}) /\ \A k \in 1 .. n : f[k] = f[k - 1] \union FedTo(f[k - 1])
               /\ Under(c) = f[n]
  BY UnderIs
<1> HIDE DEF n
<1>3. \A k \in 0 .. n : f[k] \subseteq Coders /\ IsFiniteSet(f[k]) /\ Cardinality(f[k]) \in Nat
  BY <1>1, <1>2, FS_Subset, FS_CardinalityType
\* It has stopped growing, or has grown each time.
<1> DEFINE P == { k \in 0 .. n : /\ f[0] \subseteq f[k]
                                 /\ FedTo(f[k]) \subseteq f[k] \/ Cardinality(f[k]) > k }
<1>4. 0 \in P
  <2>1. CASE f[0] = {}
    BY <1>1, <2>1 DEF FedTo
  <2>2. CASE f[0] # {}
    <3>1. 0 \in 0 .. n
      BY <1>1
    <3>2. Cardinality(f[0]) # 0 /\ Cardinality(f[0]) \in Nat
      BY <1>3, <2>2, <3>1, FS_EmptySet
    <3> QED  BY <3>1, <3>2
  <2> QED  BY <2>1, <2>2
<1>5. ASSUME NEW k \in 0 .. n - 1, k \in P PROVE k + 1 \in P
  <2>1. k + 1 \in 1 .. n /\ k + 1 \in 0 .. n /\ (k + 1) - 1 = k /\ k \in 0 .. n /\ k \in Nat
    BY <1>1
  <2>2. f[k + 1] = f[k] \union FedTo(f[k])
    BY <1>2, <2>1
  <2>3. CASE FedTo(f[k]) \subseteq f[k]
    <3>1. f[k + 1] = f[k]
      BY <2>2, <2>3
    <3> QED  BY <1>5, <2>1, <2>3, <3>1
  <2>4. CASE ~(FedTo(f[k]) \subseteq f[k])
    <3>1. f[k] \in SUBSET f[k + 1] /\ f[k] # f[k + 1]
      BY <2>2, <2>4
    <3>2. Cardinality(f[k]) <= Cardinality(f[k + 1]) /\ Cardinality(f[k]) # Cardinality(f[k + 1])
      BY <1>3, <2>1, <3>1, FS_Subset
    <3>3. Cardinality(f[k]) > k /\ Cardinality(f[k]) \in Nat /\ Cardinality(f[k + 1]) \in Nat
      BY <1>3, <1>5, <2>1, <2>4
    <3>4. Cardinality(f[k + 1]) > k + 1
      BY <2>1, <3>2, <3>3
    <3> QED  BY <1>5, <2>1, <3>1, <3>4
  <2> QED  BY <2>3, <2>4
<1>6. n \in P
  <2> HIDE DEF P
  <2>1. \A k \in 0 .. n : k \in P
    BY <1>1, <1>4, <1>5, Upwards
  <2> QED  BY <1>1, <2>1
<1>7. FedTo(f[n]) \subseteq f[n]
  <2>1. n \in 0 .. n
    BY <1>1
  <2>2. Cardinality(f[n]) <= n /\ Cardinality(f[n]) \in Nat
    BY <1>1, <1>3, <2>1, FS_Subset
  <2>3. ~(Cardinality(f[n]) > n)
    BY <1>1, <2>2
  <2> QED  BY <1>6, <2>3
<1>8. f[0] \subseteq f[n]
  BY <1>6
<1>9. f[n] \subseteq Coders
  <2>1. n \in 0 .. n
    BY <1>1
  <2> QED  BY <1>3, <2>1
<1> HIDE DEF P
<1> QED  BY <1>2, <1>7, <1>8, <1>9 DEF FedTo

StreamOf(f) == FirstIn(f.coder) + f.input - 1

\* The inputs a call is done with are fed by coders that are built.
Filled(f, built) ==
  /\ f.input \in 1 .. hdr.ins[f.coder] + 1
  /\ \A b \in Bonds : b[1] \in FirstIn(f.coder) .. StreamOf(f) - 1 => b[2] \in built

\* The calls lead down from the output coder, each for the coder that feeds the input
\* its caller is at.
Nested(calls, built) ==
  /\ \A i \in 1 .. Len(calls) : Filled(calls[i], built)
  /\ \A i \in 1 .. Len(calls) - 1 :
       /\ <<StreamOf(calls[i]), calls[i + 1].coder>> \in Bonds
       /\ calls[i].input <= hdr.ins[calls[i].coder]
  /\ calls # <<>> => calls[1].coder = UnpackCoder
  /\ \A i, j \in 1 .. Len(calls) : i < j => calls[j].coder \in Under(calls[i].coder)

BelowOutput(c) == c = UnpackCoder \/ c \in Under(UnpackCoder)

\* What is built has all it draws from, and does not draw from itself.
WellBuilt(built) ==
  \A c \in built :
    /\ BelowOutput(c) /\ c \notin Under(c)
    /\ \A d \in Coders : Feeds(d, c) => d \in built

Fed == Outputs # {} /\ BondsFit
       /\ \A i, j \in DOMAIN hdr.bonds : hdr.bonds[i][1] = hdr.bonds[j][1] => i = j
CycleSaid == refused = "cycle" => \E c \in Under(UnpackCoder) : c \in Under(c)

DescentInv ==
  /\ phase \in {"check", "build", "built"} => Fed /\ WellBuilt(byCoder)
  /\ phase = "build" => Nested(building, byCoder)
  /\ phase = "built" => UnpackCoder \in byCoder
  /\ CycleSaid

LEMMA SameUnder ==
  ASSUME UNCHANGED hdr
  PROVE  \A c : Under(c)' = Under(c)
BY DEF Under, Coders, Feeds, InputsOf, LastIn, FirstIn, Bonds

LEMMA SameDescent ==
  ASSUME UNCHANGED hdr
  PROVE  /\ Fed' = Fed /\ WellBuilt(byCoder)' = WellBuilt(byCoder')
         /\ Nested(building, byCoder)' = Nested(building', byCoder')
         /\ UnpackCoder' = UnpackCoder
         /\ refused' = refused => CycleSaid' = CycleSaid
<1>1. Coders' = Coders /\ Bonds' = Bonds
  BY DEF Coders, Bonds
<1>2. \A c : FirstIn(c)' = FirstIn(c)
  BY DEF FirstIn
<1>3. \A c : LastIn(c)' = LastIn(c)
  BY <1>2 DEF LastIn
<1>4. NumStreams' = NumStreams
  BY <1>3 DEF NumStreams
<1>5. Outputs' = Outputs
  BY <1>1 DEF Outputs
<1>6. UnpackCoder' = UnpackCoder
  BY <1>5 DEF UnpackCoder
<1>7. \A c, d : Feeds(d, c)' = Feeds(d, c)
  BY <1>1, <1>2, <1>3 DEF Feeds, InputsOf
<1>8. \A c : Under(c)' = Under(c)
  BY SameUnder
<1>9. Fed' = Fed
  BY <1>1, <1>4, <1>5 DEF Fed, BondsFit
<1>10. WellBuilt(byCoder)' = WellBuilt(byCoder')
  BY <1>1, <1>6, <1>7, <1>8 DEF WellBuilt, BelowOutput
<1>11. Nested(building, byCoder)' = Nested(building', byCoder')
  BY <1>1, <1>2, <1>6, <1>8 DEF Nested, Filled, StreamOf
<1> QED  BY <1>6, <1>8, <1>9, <1>10, <1>11 DEF CycleSaid

LEMMA FrameFacts ==
  ASSUME hdr \in Headers, NEW f \in Frame
  PROVE  /\ f.coder \in Coders /\ f.input \in Nat /\ hdr.ins[f.coder] \in Nat
         /\ FirstIn(f.coder) \in Nat /\ StreamOf(f) \in Int
         /\ f.input \in 1 .. hdr.ins[f.coder] => StreamOf(f) \in InputsOf(f.coder)
<1>1. f.coder \in Coders /\ f.input \in Nat
  BY DEF Frame
<1>2. hdr.ins[f.coder] \in Nat /\ FirstIn(f.coder) \in Nat
  BY <1>1, FirstInputs
<1> QED  BY <1>1, <1>2 DEF StreamOf, InputsOf, LastIn

\* The next input is one further, and what feeds this one is built.
LEMMA FilledOn ==
  ASSUME hdr \in Headers, NEW f \in Frame, NEW built, Filled(f, built),
         f.input <= hdr.ins[f.coder],
         \A b \in Bonds : b[1] = StreamOf(f) => b[2] \in built
  PROVE  Filled([f EXCEPT !.input = f.input + 1], built)
<1> DEFINE g == [f EXCEPT !.input = f.input + 1]
<1>1. f.coder \in Coders /\ f.input \in Nat /\ hdr.ins[f.coder] \in Nat /\ FirstIn(f.coder) \in Nat
  BY FrameFacts
<1>2. g.coder = f.coder /\ g.input = f.input + 1
  BY DEF Frame
<1> HIDE DEF g
<1>3. g.input \in 1 .. hdr.ins[g.coder] + 1
  BY <1>1, <1>2
<1>4. StreamOf(g) = StreamOf(f) + 1 /\ StreamOf(f) \in Int
  BY <1>1, <1>2 DEF StreamOf
<1>5. ASSUME NEW b \in Bonds, b[1] \in FirstIn(f.coder) .. StreamOf(g) - 1 PROVE b[2] \in built
  <2>1. b[1] = StreamOf(f) \/ b[1] \in FirstIn(f.coder) .. StreamOf(f) - 1
    BY <1>1, <1>4, <1>5
  <2> QED  BY <2>1 DEF Filled
<1>6. Filled(g, built)
  BY <1>2, <1>3, <1>5 DEF Filled
<1> QED  BY <1>6 DEF g

LEMMA NestedOn ==
  ASSUME hdr \in Headers, NEW s \in Seq(Frame), s # <<>>, NEW built, Nested(s, built),
         s[Len(s)].input <= hdr.ins[s[Len(s)].coder],
         \A b \in Bonds : b[1] = StreamOf(s[Len(s)]) => b[2] \in built
  PROVE  Nested(NextInput(s), built)
<1> DEFINE t == NextInput(s)
           n == Len(s)
           f == s[n]
           g == [f EXCEPT !.input = f.input + 1]
<1>1. n \in Nat \ {0} /\ DOMAIN s = 1 .. n /\ f \in Frame
  OBVIOUS
<1>2. t = [s EXCEPT ![n] = g]
  BY DEF NextInput
<1>3. g.coder = f.coder
  BY <1>1 DEF Frame
<1>4. Filled(g, built)
  BY <1>1, FilledOn DEF Nested
<1> HIDE DEF t, g
<1>5. Len(t) = n /\ t[n] = g /\ \A i \in 1 .. n - 1 : t[i] = s[i]
  <2>1. s \in [1 .. n -> Frame]
    OBVIOUS
  <2> HIDE DEF n
  <2>2. g \in Frame
    BY <1>1 DEF Frame, g
  <2>3. t \in [1 .. n -> Frame] /\ t[n] = g /\ \A i \in 1 .. n : i # n => t[i] = s[i]
    <3> HIDE DEF f
    <3> QED  BY <1>1, <1>2, <2>1, <2>2
  <2>4. Len(t) = n
    BY <1>1, <2>3
  <2> QED  BY <1>1, <2>3, <2>4
<1> HIDE DEF n
<1>6. \A i \in 1 .. n : t[i].coder = s[i].coder
  <2> TAKE i \in 1 .. n
  <2>1. i = n \/ i \in 1 .. n - 1
    BY <1>1
  <2> QED  BY <1>3, <1>5, <2>1
<1>7. /\ \A i \in 1 .. n : Filled(s[i], built)
      /\ \A i \in 1 .. n - 1 : /\ <<StreamOf(s[i]), s[i + 1].coder>> \in Bonds
                               /\ s[i].input <= hdr.ins[s[i].coder]
      /\ s[1].coder = UnpackCoder
      /\ \A i, j \in 1 .. n : i < j => s[j].coder \in Under(s[i].coder)
  BY DEF Nested, n
<1>8. \A i \in 1 .. n : Filled(t[i], built)
  <2> TAKE i \in 1 .. n
  <2>1. i = n \/ i \in 1 .. n - 1
    BY <1>1
  <2> QED  BY <1>1, <1>4, <1>5, <1>7, <2>1
<1>9. \A i \in 1 .. n - 1 : /\ <<StreamOf(t[i]), t[i + 1].coder>> \in Bonds
                            /\ t[i].input <= hdr.ins[t[i].coder]
  <2> TAKE i \in 1 .. n - 1
  <2>1. t[i] = s[i] /\ i + 1 \in 1 .. n
    BY <1>1, <1>5
  <2> QED  BY <1>6, <1>7, <2>1
<1>10. t[1].coder = UnpackCoder /\ \A i, j \in 1 .. n : i < j => t[j].coder \in Under(t[i].coder)
  <2>1. 1 \in 1 .. n
    BY <1>1
  <2> QED  BY <1>6, <1>7, <2>1
<1>11. Nested(t, built)
  BY <1>5, <1>8, <1>9, <1>10 DEF Nested
<1> QED  BY <1>11 DEF t

LEMMA NestedPop ==
  ASSUME NEW s \in Seq(Frame), s # <<>>, NEW built, Nested(s, built), NEW more
  PROVE  /\ Nested(SubSeq(s, 1, Len(s) - 1), built \union more)
         /\ SubSeq(s, 1, Len(s) - 1) \in Seq(Frame)
<1> DEFINE n == Len(s)
           t == SubSeq(s, 1, n - 1)
<1>1. s \in Seq(Frame) /\ n \in Nat \ {0} /\ DOMAIN s = 1 .. n
  OBVIOUS
<1>2. /\ t \in Seq(Frame) /\ Len(t) = n - 1 /\ \A i \in 1 .. n - 1 : t[i] = s[i]
      /\ t # <<>> => n > 1
  <2>1. t \in Seq(Frame) /\ Len(t) = n - 1 /\ \A i \in 1 .. n - 1 : t[i] = s[i]
    BY <1>1
  <2> HIDE DEF t, n
  <2>2. Len(t) = 0 => t = <<>>
    BY <2>1
  <2> QED  BY <1>1, <2>1, <2>2
<1> HIDE DEF t
<1>3. /\ \A i \in 1 .. n : Filled(s[i], built)
      /\ \A i \in 1 .. n - 1 : /\ <<StreamOf(s[i]), s[i + 1].coder>> \in Bonds
                               /\ s[i].input <= hdr.ins[s[i].coder]
      /\ s[1].coder = UnpackCoder
      /\ \A i, j \in 1 .. n : i < j => s[j].coder \in Under(s[i].coder)
  BY DEF Nested
<1> HIDE DEF n
<1>4. \A i \in 1 .. n - 1 : Filled(t[i], built \union more)
  <2> TAKE i \in 1 .. n - 1
  <2>1. i \in 1 .. n /\ t[i] = s[i]
    BY <1>1, <1>2
  <2> QED  BY <1>3, <2>1 DEF Filled
<1>5. \A i \in 1 .. (n - 1) - 1 : /\ <<StreamOf(t[i]), t[i + 1].coder>> \in Bonds
                                  /\ t[i].input <= hdr.ins[t[i].coder]
  <2> TAKE i \in 1 .. (n - 1) - 1
  <2>1. i \in 1 .. n - 1 /\ i + 1 \in 1 .. n - 1
    BY <1>1
  <2> QED  BY <1>2, <1>3, <2>1
<1>6. t # <<>> => t[1].coder = UnpackCoder
  <2>1. n > 1 => 1 \in 1 .. n - 1
    BY <1>1
  <2> QED  BY <1>2, <1>3, <2>1
<1>7. \A i, j \in 1 .. n - 1 : i < j => t[j].coder \in Under(t[i].coder)
  <2> TAKE i, j \in 1 .. n - 1
  <2>1. i \in 1 .. n /\ j \in 1 .. n /\ t[i] = s[i] /\ t[j] = s[j]
    BY <1>1, <1>2
  <2> QED  BY <1>3, <2>1
<1>8. Nested(t, built \union more) /\ t \in Seq(Frame)
  BY <1>2, <1>4, <1>5, <1>6, <1>7 DEF Nested
<1> QED  BY <1>8 DEF t, n

\* An input stream has one feeder.
LEMMA OneFeeder ==
  ASSUME Fed, NEW b \in Bonds, NEW d \in Bonds, b[1] = d[1]
  PROVE  b = d
<1>1. PICK i \in DOMAIN hdr.bonds : b = hdr.bonds[i]
  BY DEF Bonds
<1>2. PICK j \in DOMAIN hdr.bonds : d = hdr.bonds[j]
  BY DEF Bonds
<1>3. i = j
  BY <1>1, <1>2 DEF Fed
<1> QED  BY <1>1, <1>2, <1>3

LEMMA FeederFacts ==
  ASSUME hdr \in Headers, Fed, FedByCoder
  PROVE  /\ <<InStream, Feeder>> \in Bonds /\ Feeder \in Coders
         /\ \A b \in Bonds : b[1] = InStream => b[2] = Feeder
<1> DEFINE b0 == CHOOSE b \in Bonds : b[1] = InStream
<1>1. b0 \in Bonds /\ b0[1] = InStream
  BY DEF FedByCoder
<1>2. Feeder = b0[2]
  BY DEF Feeder
<1> HIDE DEF b0
<1>3. Bonds \subseteq Nat \X Nat
  <2>1. hdr.bonds \in Seq(Nat \X Nat)
    BY GraphAssumption DEF HeaderForm
  <2> QED  BY <2>1 DEF Bonds
<1>4. b0 = <<InStream, Feeder>>
  BY <1>1, <1>2, <1>3
<1>5. Feeder \in Coders
  BY <1>1, <1>2 DEF Fed, BondsFit
<1>6. \A b \in Bonds : b[1] = InStream => b = b0
  BY <1>1, OneFeeder
<1> QED  BY <1>1, <1>2, <1>4, <1>5, <1>6

LEMMA CallFacts ==
  ASSUME GraphInv, DescentInv, phase = "build"
  PROVE  /\ hdr \in Headers /\ building \in Seq(Frame) /\ building # <<>>
         /\ Fed /\ WellBuilt(byCoder) /\ Nested(building, byCoder)
         /\ Call = building[Len(building)] /\ Len(building) \in Nat \ {0}
         /\ Call \in Frame /\ Filled(Call, byCoder)
         /\ Call.coder \in Coders \ byCoder /\ BelowOutput(Call.coder)
         /\ InStream = StreamOf(Call)
<1>1. /\ hdr \in Headers /\ building \in Seq(Frame) /\ building # <<>>
      /\ Fed /\ WellBuilt(byCoder) /\ Nested(building, byCoder)
      /\ byCoder \subseteq Coders \ visiting
  BY DEF GraphInv, CallsOf, DescentInv
<1>2. Call.coder \in visiting /\ Call.coder \in Coders /\ Len(building) \in Nat \ {0}
  BY CallInProgress
<1>3. Call = building[Len(building)] /\ Call \in Frame
  BY <1>1, <1>2 DEF Call
<1>4. InStream = StreamOf(Call)
  BY DEF InStream, StreamOf
<1>5. Filled(Call, byCoder) /\ BelowOutput(Call.coder)
  <2> DEFINE n == Len(building)
  <2>1. n \in 1 .. n /\ 1 \in 1 .. n /\ (n = 1 \/ 1 < n)
    <3>1. n \in Nat \ {0}
      BY <1>2
    <3> HIDE DEF n
    <3> QED  BY <3>1
  <2>2. /\ \A i \in 1 .. n : Filled(building[i], byCoder)
        /\ building[1].coder = UnpackCoder
        /\ \A i, j \in 1 .. n : i < j => building[j].coder \in Under(building[i].coder)
    BY <1>1 DEF Nested
  <2>3. Call = building[n]
    BY <1>3
  <2> HIDE DEF n
  <2>4. Filled(Call, byCoder)
    BY <2>1, <2>2, <2>3
  <2>5. n = 1 => Call.coder = UnpackCoder
    BY <2>2, <2>3
  <2>6. 1 < n => Call.coder \in Under(UnpackCoder)
    BY <2>1, <2>2, <2>3
  <2> QED  BY <2>1, <2>4, <2>5, <2>6 DEF BelowOutput
<1> QED  BY <1>1, <1>2, <1>3, <1>4, <1>5

\* The coder that feeds the input a call is at is under it, and under its callers.
LEMMA FeederUnder ==
  ASSUME GraphInv, DescentInv, InputLeft, FedByCoder
  PROVE  /\ <<StreamOf(Call), Feeder>> \in Bonds /\ Feeder \in Coders
         /\ Call.input <= hdr.ins[Call.coder]
         /\ \A b \in Bonds : b[1] = StreamOf(Call) => b[2] = Feeder
         /\ Feeder \in Under(UnpackCoder)
         /\ \A i \in 1 .. Len(building) : Feeder \in Under(building[i].coder)
<1>1. phase = "build" /\ Call.input <= hdr.ins[Call.coder]
  BY DEF InputLeft
<1>2. /\ hdr \in Headers /\ Fed /\ Nested(building, byCoder) /\ Call \in Frame
      /\ Call = building[Len(building)] /\ Len(building) \in Nat \ {0}
      /\ Filled(Call, byCoder) /\ BelowOutput(Call.coder) /\ InStream = StreamOf(Call)
      /\ Call.coder \in Coders
  BY <1>1, CallFacts
<1>3. /\ <<StreamOf(Call), Feeder>> \in Bonds /\ Feeder \in Coders
      /\ \A b \in Bonds : b[1] = StreamOf(Call) => b[2] = Feeder
  BY <1>2, FeederFacts
<1>4. Feeds(Feeder, Call.coder)
  <2>1. hdr.ins[Call.coder] \in Nat /\ Call.input \in Nat
    BY <1>2, FrameFacts
  <2>2. Call.input \in 1 .. hdr.ins[Call.coder]
    BY <1>1, <1>2, <2>1 DEF Filled
  <2>3. StreamOf(Call) \in InputsOf(Call.coder)
    BY <1>2, <2>2, FrameFacts
  <2> QED  BY <1>3, <2>3 DEF Feeds
<1>5. Feeder \in Under(Call.coder)
  <2>1. Feeder \in FedTo({Call.coder})
    BY <1>3, <1>4 DEF FedTo
  <2> QED  BY <1>2, <2>1, UnderClosed
<1>6. ASSUME NEW c, Call.coder \in Under(c) PROVE Feeder \in Under(c)
  BY <1>2, <1>3, <1>4, <1>6, UnderClosed
<1>7. Feeder \in Under(UnpackCoder)
  BY <1>2, <1>5, <1>6 DEF BelowOutput
<1>8. ASSUME NEW i \in 1 .. Len(building) PROVE Feeder \in Under(building[i].coder)
  <2> DEFINE n == Len(building)
  <2>1. n \in Nat \ {0} /\ i \in 1 .. n /\ Call = building[n]
    BY <1>2
  <2>2. i < n => building[n].coder \in Under(building[i].coder)
    BY <1>2, <2>1 DEF Nested
  <2> HIDE DEF n
  <2>3. i = n \/ i < n
    BY <2>1
  <2> QED  BY <1>5, <1>6, <2>1, <2>2, <2>3
<1> QED  BY <1>1, <1>3, <1>7, <1>8

LEMMA NestedPush ==
  ASSUME hdr \in Headers, NEW s \in Seq(Frame), NEW built, Nested(s, built), NEW c \in Coders,
         s = <<>> => c = UnpackCoder,
         s # <<>> => /\ <<StreamOf(s[Len(s)]), c>> \in Bonds
                     /\ s[Len(s)].input <= hdr.ins[s[Len(s)].coder],
         \A i \in 1 .. Len(s) : c \in Under(s[i].coder)
  PROVE  Nested(Append(s, [coder |-> c, input |-> 1]), built)
<1> DEFINE n == Len(s)
           f == [coder |-> c, input |-> 1]
           t == Append(s, f)
<1>1. s \in Seq(Frame) /\ n \in Nat /\ (n = 0 <=> s = <<>>)
  OBVIOUS
<1>2. f.coder = c /\ f.input = 1 /\ f \in Frame
  BY DEF Frame
<1>3. Filled(f, built)
  <2>1. hdr.ins[c] \in Nat /\ FirstIn(c) \in Nat
    BY FirstInputs
  <2>2. StreamOf(f) = FirstIn(c)
    BY <1>2, <2>1 DEF StreamOf
  <2>3. FirstIn(c) .. StreamOf(f) - 1 = {}
    BY <2>1, <2>2
  <2> HIDE DEF f
  <2>4. f.input \in 1 .. hdr.ins[f.coder] + 1
    BY <1>2, <2>1
  <2> QED  BY <1>2, <2>3, <2>4 DEF Filled
<1> HIDE DEF f
<1>4. t[n + 1] = f /\ Len(t) = n + 1 /\ \A i \in 1 .. n : t[i] = s[i]
  BY <1>1, <1>2
<1> HIDE DEF t
<1>5. /\ \A i \in 1 .. n : Filled(s[i], built)
      /\ \A i \in 1 .. n - 1 : /\ <<StreamOf(s[i]), s[i + 1].coder>> \in Bonds
                               /\ s[i].input <= hdr.ins[s[i].coder]
      /\ n # 0 => s[1].coder = UnpackCoder
      /\ \A i, j \in 1 .. n : i < j => s[j].coder \in Under(s[i].coder)
      /\ \A i \in 1 .. n : c \in Under(s[i].coder)
      /\ n = 0 => c = UnpackCoder
      /\ n # 0 => <<StreamOf(s[n]), c>> \in Bonds /\ s[n].input <= hdr.ins[s[n].coder]
  BY <1>1 DEF Nested
<1> HIDE DEF n
<1>6. \A i \in 1 .. n + 1 : Filled(t[i], built)
  <2> TAKE i \in 1 .. n + 1
  <2>1. i = n + 1 \/ i \in 1 .. n
    BY <1>1
  <2> QED  BY <1>3, <1>4, <1>5, <2>1
<1>7. \A i \in 1 .. (n + 1) - 1 : /\ <<StreamOf(t[i]), t[i + 1].coder>> \in Bonds
                                  /\ t[i].input <= hdr.ins[t[i].coder]
  <2> TAKE i \in 1 .. (n + 1) - 1
  <2>1. i = n \/ (i \in 1 .. n - 1 /\ i + 1 \in 1 .. n)
    BY <1>1
  <2>2. t[i] = s[i] /\ n # 0
    BY <1>1, <1>4
  <2>3. CASE i = n
    BY <1>2, <1>4, <1>5, <2>2, <2>3
  <2>4. CASE i \in 1 .. n - 1 /\ i + 1 \in 1 .. n
    BY <1>4, <1>5, <2>2, <2>4
  <2> QED  BY <2>1, <2>3, <2>4
<1>8. t[1].coder = UnpackCoder
  <2>1. n = 0 \/ 1 \in 1 .. n
    BY <1>1
  <2> QED  BY <1>1, <1>2, <1>4, <1>5, <2>1
<1>9. \A i, j \in 1 .. n + 1 : i < j => t[j].coder \in Under(t[i].coder)
  <2> TAKE i, j \in 1 .. n + 1
  <2> HAVE i < j
  <2>1. i \in 1 .. n /\ (j = n + 1 \/ j \in 1 .. n)
    <3>1. n \in Nat /\ i < j /\ i \in 1 .. n + 1 /\ j \in 1 .. n + 1
      BY <1>1
    <3> QED  BY <3>1
  <2>2. CASE j = n + 1
    BY <1>2, <1>4, <1>5, <2>1, <2>2
  <2>3. CASE j \in 1 .. n
    BY <1>4, <1>5, <2>1, <2>3
  <2> QED  BY <2>1, <2>2, <2>3
<1>10. Nested(t, built)
  BY <1>4, <1>6, <1>7, <1>8, <1>9 DEF Nested
<1> QED  BY <1>10 DEF t, f

\* NewNode, for the output coder or for one that feeds a coder in progress.
LEMMA DescentPush ==
  ASSUME GraphInv, DescentInv, phase \in {"check", "build"}, NEW c \in Coders,
         NewNode(c), UNCHANGED <<hdr, byCoder, byPack>>,
         phase = "check" => c = UnpackCoder,
         phase = "build" =>
           /\ <<StreamOf(Call), c>> \in Bonds /\ Call.input <= hdr.ins[Call.coder]
           /\ \A i \in 1 .. Len(building) : c \in Under(building[i].coder)
  PROVE  DescentInv'
<1>1. Fed /\ WellBuilt(byCoder) /\ CycleSaid /\ hdr \in Headers /\ building \in Seq(Frame)
  BY DEF DescentInv, GraphInv, CallsOf
<1>2. CASE /\ building' = Append(building, [coder |-> c, input |-> 1])
           /\ phase' = "build" /\ UNCHANGED refused
  <2>1. Nested(building', byCoder)
    <3>1. CASE phase = "check"
      <4>1. building = <<>> /\ Len(building) = 0
        BY <3>1 DEF GraphInv
      <4>2. Nested(building, byCoder)
        BY <4>1 DEF Nested
      <4>3. \A i \in 1 .. Len(building) : c \in Under(building[i].coder)
        BY <4>1
      <4> QED  BY <1>1, <1>2, <3>1, <4>1, <4>2, <4>3, NestedPush
    <3>2. CASE phase = "build"
      <4>1. building # <<>> /\ Call = building[Len(building)] /\ Nested(building, byCoder)
        BY <3>2, CallFacts
      <4> QED  BY <1>1, <1>2, <3>2, <4>1, NestedPush
    <3> QED  BY <3>1, <3>2
  <2> QED  BY <1>1, <1>2, <2>1, SameDescent DEF DescentInv
<1>3. CASE refused' = "memory" /\ phase' = IF building = <<>> THEN "free" ELSE "unwind"
  BY <1>3 DEF DescentInv, CycleSaid
<1> QED  BY <1>2, <1>3 DEF NewNode

\* The input a call was at is fed by a coder that is built, or by no coder.
LEMMA DescentOn ==
  ASSUME GraphInv, DescentInv, phase = "build", Call.input <= hdr.ins[Call.coder],
         \A b \in Bonds : b[1] = StreamOf(Call) => b[2] \in byCoder,
         building' = NextInput(building), UNCHANGED <<hdr, phase, byCoder, refused>>
  PROVE  DescentInv'
<1>1. /\ hdr \in Headers /\ building \in Seq(Frame) /\ building # <<>> /\ Nested(building, byCoder)
      /\ Call = building[Len(building)]
  BY CallFacts
<1>2. Nested(building', byCoder)
  BY <1>1, NestedOn
<1> QED  BY <1>2, SameDescent DEF DescentInv

LEMMA DescentStep == GraphInv /\ DescentInv /\ [GraphNext]_graphVars => DescentInv'
<1> SUFFICES ASSUME GraphInv, DescentInv, [GraphNext]_graphVars PROVE DescentInv'
  OBVIOUS
<1>0. UNCHANGED hdr
  BY DEF GraphNext, graphVars, Parse, Check, FromPack, Reuse, Cycle, Descend, SetUp, SetUpFails,
         Unwind, DecodeFolder, FreeNodes
<1>1. CASE UNCHANGED graphVars
  BY <1>1, SameDescent DEF graphVars, DescentInv
<1>2. CASE Parse
  <2>1. Parsed => Fed
    BY DEF Parsed, SourcesFit, Fed
  <2>2. phase = "parse" /\ UNCHANGED byCoder /\ phase' \in {"check", "over"}
        /\ (phase' = "check" => Parsed /\ UNCHANGED refused)
        /\ refused' \in {refused, "header", "memory"}
    BY <1>2 DEF Parse
  <2>3. byCoder = {}
    BY <2>2 DEF GraphInv
  <2>4. WellBuilt(byCoder')
    BY <2>2, <2>3 DEF WellBuilt
  <2>5. CycleSaid'
    BY <1>0, <2>2, SameDescent DEF DescentInv, CycleSaid
  <2> QED  BY <1>0, <2>1, <2>2, <2>4, <2>5, SameDescent DEF DescentInv
<1>3. CASE Check
  <2>1. phase = "check" /\ UNCHANGED <<hdr, byCoder, byPack>>
    BY <1>3 DEF Check
  <2>2. CASE phase' = "over" /\ refused' = "method"
    BY <2>1, <2>2 DEF DescentInv, CycleSaid
  <2>3. CASE NewNode(UnpackCoder)
    <3>1. UnpackCoder \in Coders
      BY <2>1, FirstOutput DEF GraphInv, SoundBonds
    <3> QED  BY <2>1, <2>3, <3>1, DescentPush
  <2> QED  BY <1>3, <2>2, <2>3 DEF Check
<1>4. CASE FromPack
  <2>1. phase = "build" /\ Call.input <= hdr.ins[Call.coder] /\ ~FedByCoder
        /\ UNCHANGED <<hdr, byCoder>>
    BY <1>4 DEF FromPack, InputLeft
  <2>2. CASE building' = NextInput(building) /\ UNCHANGED <<phase, refused>>
    <3>1. \A b \in Bonds : b[1] # StreamOf(Call)
      BY <2>1, CallFacts DEF FedByCoder
    <3> QED  BY <2>1, <2>2, <3>1, DescentOn
  <2>3. CASE phase' = "unwind" /\ refused' \in {"memory", "header"}
    BY <2>3 DEF DescentInv, CycleSaid
  <2> QED  BY <1>4, <2>2, <2>3 DEF FromPack
<1>5. CASE Reuse
  <2>1. /\ InputLeft /\ FedByCoder /\ Feeder \in byCoder /\ phase = "build"
        /\ building' = NextInput(building) /\ UNCHANGED <<hdr, phase, byCoder, refused>>
    BY <1>5 DEF Reuse, InputLeft
  <2> QED  BY <2>1, FeederUnder, DescentOn
<1>6. CASE Cycle
  <2>1. InputLeft /\ FedByCoder /\ Feeder \in visiting /\ phase' = "unwind"
    BY <1>6 DEF Cycle
  <2>2. PICK i \in DOMAIN building : Feeder = building[i].coder
    BY <2>1 DEF GraphInv, CallsOf
  <2>3. i \in 1 .. Len(building)
    BY DEF GraphInv, CallsOf
  <2>4. Feeder \in Under(UnpackCoder) /\ Feeder \in Under(Feeder)
    BY <2>1, <2>2, <2>3, FeederUnder
  <2>5. CycleSaid'
    <3>1. \E c \in Under(UnpackCoder) : c \in Under(c)
      BY <2>4
    <3>2. (\E c \in Under(UnpackCoder) : c \in Under(c))' = (\E c \in Under(UnpackCoder) : c \in Under(c))
      BY <1>0, SameUnder, SameDescent
    <3> QED  BY <3>1, <3>2 DEF CycleSaid
  <2> QED  BY <2>1, <2>5 DEF DescentInv
<1>7. CASE Descend
  <2>1. InputLeft /\ FedByCoder /\ phase = "build" /\ NewNode(Feeder)
        /\ UNCHANGED <<hdr, byCoder, byPack>>
    BY <1>7 DEF Descend, InputLeft
  <2> QED  BY <2>1, FeederUnder, DescentPush
<1>8. CASE SetUp
  <2> DEFINE c == Call.coder
  <2>1. /\ phase = "build" /\ Call.input > hdr.ins[c] /\ byCoder' = byCoder \union {c}
        /\ UNCHANGED <<hdr, refused>>
        /\ IF Callers = <<>> THEN building' = <<>> /\ phase' = "built"
           ELSE building' = NextInput(Callers) /\ UNCHANGED phase
    BY <1>8 DEF SetUp
  <2>2. /\ hdr \in Headers /\ building \in Seq(Frame) /\ building # <<>>
        /\ Fed /\ WellBuilt(byCoder) /\ Nested(building, byCoder)
        /\ Call = building[Len(building)] /\ Len(building) \in Nat \ {0}
        /\ Call \in Frame /\ Filled(Call, byCoder) /\ c \in Coders \ byCoder /\ BelowOutput(c)
    BY <2>1, CallFacts
  <2>3. \A d \in Coders : Feeds(d, c) => d \in byCoder
    <3>1. Call.input = hdr.ins[c] + 1 /\ hdr.ins[c] \in Nat /\ FirstIn(c) \in Nat
      <4>1. hdr.ins[c] \in Nat /\ FirstIn(c) \in Nat /\ Call.input \in Nat
        BY <2>2, FrameFacts
      <4>2. Call.input <= hdr.ins[c] + 1
        BY <2>2, <4>1 DEF Filled
      <4> QED  BY <2>1, <4>1, <4>2
    <3>2. StreamOf(Call) - 1 = LastIn(c)
      BY <3>1 DEF StreamOf, LastIn
    <3>3. \A b \in Bonds : b[1] \in InputsOf(c) => b[2] \in byCoder
      BY <2>2, <3>2 DEF Filled, InputsOf
    <3> QED  BY <3>3 DEF Feeds
  <2>4. c \notin Under(c)
    <3>1. FedTo({c}) \subseteq byCoder
      BY <2>3 DEF FedTo
    <3>2. \A e \in byCoder, d \in Coders : Feeds(d, e) => d \in byCoder
      BY <2>2 DEF WellBuilt
    <3>3. Under(c) \subseteq byCoder
      BY <2>2, <3>1, <3>2, UnderLeast
    <3> QED  BY <2>2, <3>3
  <2>5. WellBuilt(byCoder')
    BY <2>1, <2>2, <2>3, <2>4 DEF WellBuilt
  <2>6. CASE Callers = <<>>
    <3>1. Len(building) = 1
      <4>1. Len(Callers) = Len(building) - 1
        BY <2>1, CallInProgress
      <4> QED  BY <2>2, <2>6, <4>1
    <3>2. c = UnpackCoder
      BY <2>2, <3>1 DEF Nested
    <3> QED  BY <2>1, <2>2, <2>5, <2>6, <3>2, SameDescent DEF DescentInv
  <2>7. CASE Callers # <<>>
    <3> DEFINE n == Len(building)
               up == Callers[Len(Callers)]
    <3>1. Len(Callers) = n - 1 /\ n \in Nat \ {0} /\ Len(Callers) \in Nat \ {0}
          /\ Callers \in Seq(Frame) /\ Nested(Callers, byCoder')
      <4>1. Callers \in Seq(Frame) /\ Nested(Callers, byCoder')
        BY <2>1, <2>2, NestedPop DEF Callers
      <4>2. Len(Callers) \in Nat \ {0}
        BY <2>7, <4>1
      <4>3. Len(Callers) = n - 1
        BY <2>1, CallInProgress
      <4> QED  BY <2>2, <4>1, <4>2, <4>3
    <3>2. up = building[n - 1]
      BY <2>2, <3>1 DEF Callers
    <3>3. <<StreamOf(up), c>> \in Bonds /\ up.input <= hdr.ins[up.coder]
      <4>1. n - 1 \in 1 .. n - 1 /\ (n - 1) + 1 = n
        BY <3>1
      <4>2. <<StreamOf(building[n - 1]), building[n].coder>> \in Bonds
            /\ building[n - 1].input <= hdr.ins[building[n - 1].coder]
        BY <2>2, <4>1 DEF Nested
      <4> HIDE DEF n
      <4> QED  BY <2>2, <3>2, <4>2 DEF n
    <3>4. \A b \in Bonds : b[1] = StreamOf(up) => b[2] \in byCoder'
      <4>1. \A b \in Bonds : b[1] = StreamOf(up) => b[2] = c
        BY <2>2, <3>3, OneFeeder
      <4> QED  BY <2>1, <4>1
    <3>5. Nested(NextInput(Callers), byCoder')
      BY <2>2, <2>7, <3>1, <3>3, <3>4, NestedOn
    <3> QED  BY <2>1, <2>2, <2>5, <2>7, <3>5, SameDescent DEF DescentInv
  <2> QED  BY <2>6, <2>7
<1>9. CASE SetUpFails
  BY <1>9 DEF SetUpFails, DescentInv, CycleSaid
<1>10. CASE Unwind
  <2>1. phase' \in {"unwind", "free"} /\ UNCHANGED refused
    BY <1>10 DEF Unwind
  <2> QED  BY <1>0, <2>1, SameDescent DEF DescentInv
<1>11. CASE DecodeFolder
  <2>1. phase' = "free" /\ UNCHANGED refused
    BY <1>11 DEF DecodeFolder
  <2> QED  BY <1>0, <2>1, SameDescent DEF DescentInv
<1>12. CASE FreeNodes
  <2>1. phase' = "over" /\ UNCHANGED refused
    BY <1>12 DEF FreeNodes
  <2> QED  BY <1>0, <2>1, SameDescent DEF DescentInv
<1> QED  BY <1>1, <1>2, <1>3, <1>4, <1>5, <1>6, <1>7, <1>8, <1>9, <1>10, <1>11, <1>12 DEF GraphNext

\* A folder has one coder more than it has bonds: where every coder but one feeds
\* another, each feeds one.
LEMMA OneReader ==
  ASSUME hdr \in Headers, Fed, {UnpackCoder} \union Under(UnpackCoder) = Coders,
         NEW c \in Coders \ {UnpackCoder}
  PROVE  Cardinality({ b \in Bonds : b[2] = c }) = 1
<1> DEFINE I == 1 .. Len(hdr.bonds)
           T == Coders \ {UnpackCoder}
           f == [i \in I |-> hdr.bonds[i][2]]
<1>1. /\ Len(hdr.bonds) \in Nat /\ Len(hdr.bonds) + 1 = Len(hdr.method)
      /\ DOMAIN hdr.bonds = I
  <2>1. HeaderForm(hdr)
    BY GraphAssumption
  <2>2. hdr.bonds \in Seq(Nat \X Nat)
    BY <2>1 DEF HeaderForm
  <2> QED  BY <2>1, <2>2 DEF HeaderForm
<1>2. UnpackCoder \in Outputs /\ UnpackCoder \in Coders
  BY FirstOutput DEF Fed
<1>3. IsFiniteSet(I) /\ Cardinality(I) = Cardinality(T)
  <2>1. IsFiniteSet(Coders) /\ Cardinality(Coders) = Len(hdr.method)
    BY CoderCount
  <2>2. Cardinality(T) = Len(hdr.method) - 1
    BY <1>2, <2>1, FS_RemoveElement
  <2>3. IsFiniteSet(I) /\ Cardinality(I) = Len(hdr.bonds)
    BY <1>1, FS_Interval
  <2> QED  BY <1>1, <2>2, <2>3, CoderCount
<1>4. \A i \in I : hdr.bonds[i] \in Bonds
  BY <1>1 DEF Bonds
<1>5. f \in [I -> T]
  <2>1. \A i \in I : hdr.bonds[i][2] \in T
    BY <1>2, <1>4 DEF Fed, BondsFit, Outputs
  <2> QED  BY <2>1
<1>6. ASSUME NEW d \in T PROVE \E i \in I : f[i] = d
  <2>1. \E e \in Coders : Feeds(d, e)
    <3> DEFINE R == { x \in Coders : \E e \in Coders : Feeds(x, e) }
    <3>1. FedTo({UnpackCoder}) \subseteq R
      BY <1>2 DEF FedTo
    <3>2. \A e \in R, x \in Coders : Feeds(x, e) => x \in R
      OBVIOUS
    <3>3. Under(UnpackCoder) \subseteq R
      <4> HIDE DEF R
      <4> QED  BY <3>1, <3>2, UnderLeast
    <3> QED  BY <1>6, <3>3
  <2>2. PICK s : <<s, d>> \in Bonds
    BY <2>1 DEF Feeds
  <2>3. PICK i \in I : hdr.bonds[i] = <<s, d>>
    BY <1>1, <2>2 DEF Bonds
  <2> QED  BY <2>3
<1>7. f \in Surjection(I, T)
  <2> HIDE DEF f
  <2> QED  BY <1>5, <1>6 DEF Surjection
<1>8. f \in Injection(I, T)
  <2> HIDE DEF f, I, T
  <2> QED  BY <1>3, <1>7, FS_SurjSameCardinalityImpliesInj
<1>9. PICK i \in I : f[i] = c
  BY <1>6
<1>10. { b \in Bonds : b[2] = c } = {hdr.bonds[i]}
  <2>1. hdr.bonds[i] \in Bonds /\ hdr.bonds[i][2] = c
    BY <1>4, <1>9
  <2>2. ASSUME NEW b \in Bonds, b[2] = c PROVE b = hdr.bonds[i]
    <3>1. PICK j \in I : b = hdr.bonds[j]
      BY <1>1 DEF Bonds
    <3>2. f[j] = f[i]
      BY <1>9, <2>2, <3>1
    <3> HIDE DEF f
    <3>3. i = j
      BY <1>8, <3>2 DEF Injection, IsInjective
    <3> QED  BY <3>1, <3>3
  <2> QED  BY <2>1, <2>2
<1> QED  BY <1>10, FS_Singleton

\* For every header: the coders that are built are the output coder and all that are
\* under it, none draws from itself, and where no coder is idle each has one reader;
\* and sz_chain_decode (sevenz_chain.c: build_coder) reports a cycle only of a header
\* that has one.
THEOREM BuiltAlwaysTree == GraphSpec => []BuiltIsTree
<1>1. GraphInit => DescentInv
  BY DEF GraphInit, DescentInv, CycleSaid
<1>2. GraphInv /\ DescentInv => BuiltIsTree
  <2> SUFFICES ASSUME GraphInv, DescentInv PROVE BuiltIsTree
    OBVIOUS
  <2> DEFINE reached == {UnpackCoder} \union Under(UnpackCoder)
  <2>1. refused = "cycle" => \E c \in Under(UnpackCoder) : c \in Under(c)
    BY DEF DescentInv, CycleSaid
  <2>2. ASSUME phase = "built"
        PROVE  /\ byCoder = reached
               /\ \A c \in reached : c \notin Under(c)
               /\ \A c \in Coders : ~Feeds(UnpackCoder, c)
               /\ byCoder = Coders =>
                    \A c \in Coders \ {UnpackCoder} : Cardinality({ b \in Bonds : b[2] = c }) = 1
    <3>1. hdr \in Headers /\ Fed /\ WellBuilt(byCoder) /\ UnpackCoder \in byCoder
      BY <2>2 DEF GraphInv, DescentInv
    <3>2. byCoder \subseteq reached
      BY <3>1 DEF WellBuilt, BelowOutput
    <3>3. Under(UnpackCoder) \subseteq byCoder
      <4>1. FedTo({UnpackCoder}) \subseteq byCoder
        BY <3>1 DEF WellBuilt, FedTo
      <4>2. \A e \in byCoder, d \in Coders : Feeds(d, e) => d \in byCoder
        BY <3>1 DEF WellBuilt
      <4> QED  BY <3>1, <4>1, <4>2, UnderLeast
    <3>4. byCoder = reached
      BY <3>1, <3>2, <3>3
    <3>5. \A c \in reached : c \notin Under(c)
      BY <3>1, <3>4 DEF WellBuilt
    <3>6. \A c \in Coders : ~Feeds(UnpackCoder, c)
      <4>1. UnpackCoder \in Outputs
        BY <3>1, FirstOutput DEF Fed
      <4> QED  BY <4>1 DEF Outputs, Feeds
    <3>7. byCoder = Coders =>
            \A c \in Coders \ {UnpackCoder} : Cardinality({ b \in Bonds : b[2] = c }) = 1
      BY <3>1, <3>4, OneReader
    <3> QED  BY <3>4, <3>5, <3>6, <3>7
  <2> QED  BY <2>1, <2>2 DEF BuiltIsTree
<1> QED  BY <1>1, <1>2, GraphInitially, GraphStep, DescentStep, PTL DEF GraphSpec

-------------------------------------------------------------------------------

Bytes == Seq(Nat)

NodeState ==
  [produced : Nat, buf : Bytes, out : Bytes, eof : BOOLEAN, failed : BOOLEAN,
   finished : BOOLEAN, pc : Nat, off : Nat, side : [1 .. 3 -> Bytes],
   need : Seq(1 .. 3), prepared : BOOLEAN]

Request ==
  [n : Nodes, want : Nat \ {0}, acc : Bytes, k : 1 .. 3,
   at : {"loop", "in", "fresh", "side", "decode"}]

Waits(f) == f.at \in {"in", "side"}
Asks(f) == IF f.at = "side" THEN SideNode(f.n, f.k) ELSE In(f.n)

\* A call in progress has room for what it asked its input for, and a filter that
\* asked has given out all it had converted.
InHand(f, nodes) ==
  /\ f \in Request
  /\ Len(f.acc) <= f.want
  /\ f.at \in {"in", "fresh"} /\ Kind(f.n) # "copy" => Len(f.acc) < f.want
  /\ f.at = "side" => Kind(f.n) = "bcj2"
  /\ Waits(f) => Kind(f.n) # "pack"
  /\ f.at \in {"in", "fresh"} /\ Kind(f.n) = "filter" => nodes[f.n].out = <<>>
  /\ nodes[f.n].produced + f.want <= graph.size[f.n]

\* The calls in progress lead from the root down, each asked for by the one below
\* it on the stack.
Calls(s, nodes) ==
  /\ s \in Seq(Request)
  /\ \A i \in 1 .. Len(s) : InHand(s[i], nodes)
  /\ s # <<>> => s[1].n = Root
  /\ \A i, j \in 1 .. Len(s) : i < j => s[j].n < s[i].n
  /\ \A i \in 1 .. Len(s) - 1 :
       /\ Waits(s[i]) /\ s[i + 1].n = Asks(s[i])
       /\ Kind(s[i].n) = "copy" => s[i + 1].want <= s[i].want

\* What a call returned is for a caller that waits for it.
Answer(s, r) ==
  /\ r = NoRet \/ r = Failure \/ \E d \in Bytes : r = Got(d)
  /\ r # NoRet /\ s # <<>> =>
       /\ Waits(s[Len(s)])
       /\ Kind(s[Len(s)].n) = "copy" => Len(r.data) <= s[Len(s)].want

\* What filter n holds, or is about to.
Holds(x) == x.pc + x.off + Len(x.out) + Len(x.buf)
Arrived(n, s, r) ==
  IF r.rc = "ok" /\ s # <<>> /\ s[Len(s)].n = n THEN Len(r.data) ELSE 0
Exact(nodes, s, r) ==
  \A n \in Nodes : Kind(n) = "filter" /\ OnlyReader(n) =>
    Holds(nodes[n]) + Arrived(n, s, r) = nodes[In(n)].produced

\* No node gives out more than the header declares for it, and LZMA keeps back one
\* byte at most.
Within(n, x) ==
  /\ x.produced <= graph.size[n]
  /\ Kind(n) = "lzma" => Len(x.out) <= 1

PullInv(nodes, s, r, e) ==
  /\ nodes \in [Nodes -> NodeState] /\ \A n \in Nodes : Within(n, nodes[n])
  /\ Calls(s, nodes) /\ Answer(s, r)
  /\ e = "ok" => /\ r # Failure /\ \A n \in Nodes : ~nodes[n].failed
                 /\ Exact(nodes, s, r)

LEMMA GraphFacts ==
  ASSUME graph \in Graphs
  PROVE  /\ Root \in Nat \ {0} /\ Nodes = 1 .. Root
         /\ \A n \in Nodes :
              /\ graph.size[n] \in Nat /\ Kind(n) \in CoderKinds
              /\ Kind(n) # "pack" => In(n) \in Nodes /\ In(n) < n
              /\ Kind(n) = "bcj2" =>
                   \A k \in 1 .. 3 : SideNode(n, k) \in Nodes /\ SideNode(n, k) < n
<1>1. GraphForm(graph)
  BY GraphsAssumption
<1> DEFINE D == DOMAIN graph.kind
<1>2. /\ graph.kind \in Seq(CoderKinds) /\ graph.kind # <<>>
      /\ graph.size \in [D -> Nat] /\ graph.ins \in [D -> Seq(D)]
      /\ \A n \in D : /\ Len(graph.ins[n]) = InputCount(graph.kind[n])
                      /\ \A i \in DOMAIN graph.ins[n] : graph.ins[n][i] < n
  BY <1>1 DEF GraphForm
<1>3. Len(graph.kind) \in Nat \ {0} /\ D = 1 .. Len(graph.kind) /\ Nodes = D
  BY <1>2 DEF Nodes
<1> HIDE DEF D
<1>4. ASSUME NEW n \in Nodes
      PROVE  /\ graph.size[n] \in Nat /\ Kind(n) \in CoderKinds
             /\ Kind(n) # "pack" => In(n) \in Nodes /\ In(n) < n
             /\ Kind(n) = "bcj2" =>
                  \A k \in 1 .. 3 : SideNode(n, k) \in Nodes /\ SideNode(n, k) < n
  <2>1. graph.size[n] \in Nat /\ Kind(n) \in CoderKinds
    <3>1. graph.size[n] \in Nat
      BY <1>2, <1>3
    <3>2. graph.kind[n] \in CoderKinds
      BY <1>2, <1>3, ElementOfSeq
    <3> QED  BY <3>1, <3>2 DEF Kind
  <2>2. /\ graph.ins[n] \in Seq(D) /\ Len(graph.ins[n]) = InputCount(Kind(n))
        /\ \A i \in DOMAIN graph.ins[n] : graph.ins[n][i] < n
    BY <1>2, <1>3, <1>4 DEF Kind
  <2>3. \A i \in 1 .. InputCount(Kind(n)) : graph.ins[n][i] \in Nodes /\ graph.ins[n][i] < n
    <3> DEFINE ins == graph.ins[n]
    <3>1. ins \in Seq(D) /\ Len(ins) = InputCount(Kind(n)) /\ \A i \in DOMAIN ins : ins[i] < n
      BY <2>2
    <3> HIDE DEF ins, D
    <3>2. \A i \in DOMAIN ins : ins[i] \in D
      BY <3>1, ElementOfSeq
    <3>3. DOMAIN ins = 1 .. InputCount(Kind(n))
      BY <3>1
    <3>4. \A i \in 1 .. InputCount(Kind(n)) : ins[i] \in D /\ ins[i] < n
      BY <3>1, <3>2, <3>3
    <3>5. D = Nodes
      BY <1>3 DEF D
    <3> QED  BY <3>4, <3>5 DEF ins
  <2>4. Kind(n) # "pack" => InputCount(Kind(n)) \in {1, 4}
    BY DEF InputCount
  <2>5. Kind(n) = "bcj2" => InputCount(Kind(n)) = 4
    BY DEF InputCount
  <2> QED  BY <2>1, <2>3, <2>4, <2>5 DEF In, SideNode
<1> QED  BY <1>2, <1>3, <1>4 DEF Root

LEMMA StateFacts ==
  ASSUME NEW x \in NodeState
  PROVE  /\ x.produced \in Nat /\ Holds(x) \in Nat
         /\ \A p \in Nat : [x EXCEPT !.produced = p] \in NodeState
<1>1. /\ x.produced \in Nat /\ x.pc \in Nat /\ x.off \in Nat /\ x.out \in Bytes /\ x.buf \in Bytes
      /\ \A p \in Nat : [x EXCEPT !.produced = p] \in NodeState
  BY DEF NodeState
<1>2. Len(x.out) \in Nat /\ Len(x.buf) \in Nat
  BY <1>1 DEF Bytes
<1>3. Holds(x) \in Nat
  <2> DEFINE pc == x.pc
             off == x.off
             o == Len(x.out)
             b == Len(x.buf)
  <2>1. pc \in Nat /\ off \in Nat /\ o \in Nat /\ b \in Nat
    BY <1>1, <1>2
  <2> HIDE DEF pc, off, o, b
  <2>2. pc + off + o + b \in Nat
    BY <2>1
  <2> QED  BY <2>2 DEF Holds, pc, off, o, b
<1> QED  BY <1>1, <1>3

LEMMA OnlyReaderReads ==
  ASSUME graph \in Graphs, NEW n \in Nodes, OnlyReader(n), NEW m \in Nodes, m # n
  PROVE  /\ Kind(m) # "pack" => In(m) # In(n)
         /\ Kind(m) = "bcj2" => \A k \in 1 .. 3 : SideNode(m, k) # In(n)
<1>1. GraphForm(graph) /\ m \in DOMAIN graph.kind
  BY GraphsAssumption DEF Nodes, GraphForm
<1>2. /\ graph.ins[m] \in Seq(DOMAIN graph.kind)
      /\ Len(graph.ins[m]) = InputCount(Kind(m))
  BY <1>1 DEF GraphForm, Kind
<1>3. DOMAIN graph.ins[m] = 1 .. InputCount(Kind(m))
  BY <1>2
<1>4. \A i \in 1 .. InputCount(Kind(m)) : graph.ins[m][i] # In(n)
  BY <1>3 DEF OnlyReader
<1>5. Kind(m) # "pack" => InputCount(Kind(m)) \in {1, 4}
  BY DEF InputCount
<1>6. Kind(m) = "bcj2" => InputCount(Kind(m)) = 4
  BY DEF InputCount
<1> QED  BY <1>4, <1>5, <1>6 DEF In, SideNode

LEMMA TopFacts ==
  ASSUME graph \in Graphs, PullInv(node, stack, ret, err), stack # <<>>
  PROVE  /\ Len(stack) \in Nat \ {0} /\ DOMAIN stack = 1 .. Len(stack)
         /\ Top \in Request /\ Top.n \in Nodes /\ InHand(Top, node)
         /\ node[Top.n] \in NodeState
<1>1. Len(stack) \in Nat \ {0} /\ DOMAIN stack = 1 .. Len(stack)
  BY DEF PullInv, Calls
<1>2. Top \in Request /\ InHand(Top, node)
  BY <1>1 DEF PullInv, Calls, Top
<1> QED  BY <1>1, <1>2 DEF PullInv, Request

LEMMA BelowFacts ==
  ASSUME graph \in Graphs, PullInv(node, stack, ret, err), stack # <<>>
  PROVE  /\ Below \in Seq(Request) /\ Len(Below) = Len(stack) - 1
         /\ DOMAIN Below = 1 .. Len(stack) - 1
         /\ \A i \in 1 .. Len(stack) - 1 : Below[i] = stack[i]
         /\ \A f \in Request :
              /\ Append(Below, f) \in Seq(Request) /\ Len(Append(Below, f)) = Len(stack)
              /\ Append(Below, f)[Len(stack)] = f
              /\ \A i \in 1 .. Len(stack) - 1 : Append(Below, f)[i] = stack[i]
<1>1. stack \in Seq(Request) /\ Len(stack) \in Nat \ {0}
  BY TopFacts DEF PullInv, Calls
<1> DEFINE k == Len(stack) - 1
<1>2. /\ Below \in Seq(Request) /\ Len(Below) = k
      /\ \A i \in 1 .. k : Below[i] = stack[i]
  <2>1. k \in Int /\ \A i \in 1 .. k : stack[i] \in Request
    BY <1>1, ElementOfSeq
  <2>2. /\ Below \in Seq(Request) /\ Len(Below) = IF 1 <= k THEN k - 1 + 1 ELSE 0
        /\ \A i \in 1 .. k - 1 + 1 : Below[i] = stack[1 + i - 1]
    <3> HIDE DEF k
    <3>1. /\ SubSeq(stack, 1, k) \in Seq(Request)
          /\ Len(SubSeq(stack, 1, k)) = IF 1 <= k THEN k - 1 + 1 ELSE 0
          /\ \A i \in 1 .. k - 1 + 1 : SubSeq(stack, 1, k)[i] = stack[1 + i - 1]
      BY <2>1, SubSeqProperties
    <3> QED  BY <3>1 DEF Below, k
  <2>3. k \in Nat
    BY <1>1
  <2> HIDE DEF k
  <2>4. Len(Below) = k
    BY <2>2, <2>3
  <2>5. \A i \in 1 .. k : Below[i] = stack[i]
    <3> TAKE i \in 1 .. k
    <3>1. i \in 1 .. k - 1 + 1 /\ 1 + i - 1 = i
      BY <2>3
    <3> QED  BY <2>2, <3>1
  <2> QED  BY <2>2, <2>4, <2>5
<1> DEFINE s == Below
<1> HIDE DEF s
<1>3. s \in Seq(Request) /\ Len(s) = Len(stack) - 1
  BY <1>2 DEF s
<1>4. \A f \in Request :
        /\ Append(s, f) \in Seq(Request) /\ Len(Append(s, f)) = Len(stack)
        /\ Append(s, f)[Len(stack)] = f
        /\ \A i \in 1 .. Len(stack) - 1 : Append(s, f)[i] = s[i]
  BY <1>1, <1>3
<1> QED  BY <1>1, <1>2, <1>4 DEF s

\* The caller of the call on top.
LEMMA CallerFacts ==
  ASSUME graph \in Graphs, PullInv(node, stack, ret, err), stack # <<>>
  PROVE  /\ Below = <<>> => Len(stack) = 1 /\ Top.n = Root
         /\ Below # <<>> =>
              /\ Len(Below) \in Nat \ {0} /\ Below[Len(Below)] \in Request
              /\ Waits(Below[Len(Below)]) /\ Top.n = Asks(Below[Len(Below)])
              /\ InHand(Below[Len(Below)], node) /\ Top.n < Below[Len(Below)].n
              /\ Kind(Below[Len(Below)].n) = "copy" => Top.want <= Below[Len(Below)].want
<1> DEFINE k == Len(stack) - 1
<1>1. /\ Below \in Seq(Request) /\ Len(Below) = k /\ k + 1 \in Nat \ {0}
      /\ k + 1 = Len(stack) /\ \A i \in 1 .. k : Below[i] = stack[i]
  BY BelowFacts, TopFacts
<1>2. /\ stack[1].n = Root /\ stack[k + 1] = Top
      /\ \A i \in 1 .. k + 1 : InHand(stack[i], node) /\ stack[i] \in Request
      /\ \A i, j \in 1 .. k + 1 : i < j => stack[j].n < stack[i].n
      /\ \A i \in 1 .. k :
           /\ Waits(stack[i]) /\ stack[i + 1].n = Asks(stack[i])
           /\ Kind(stack[i].n) = "copy" => stack[i + 1].want <= stack[i].want
  BY <1>1, ElementOfSeq DEF PullInv, Calls, Top
<1> HIDE DEF k
<1>3. CASE Below = <<>>
  BY <1>1, <1>2, <1>3
<1>4. CASE Below # <<>>
  <2>1. k \in Nat \ {0}
    BY <1>1, <1>4, EmptySeq
  <2>2. Below[k] = stack[k] /\ k \in 1 .. k + 1 /\ k < k + 1 /\ k + 1 \in 1 .. k + 1
    BY <1>1, <2>1
  <2>3. k \in 1 .. k
    BY <2>1
  <2>4. /\ stack[k] \in Request /\ InHand(stack[k], node) /\ Top.n < stack[k].n
        /\ Waits(stack[k]) /\ Top.n = Asks(stack[k])
        /\ Kind(stack[k].n) = "copy" => Top.want <= stack[k].want
    BY <1>2, <2>2, <2>3
  <2> QED  BY <1>1, <1>4, <2>1, <2>2, <2>4
<1> QED  BY <1>3, <1>4

-------------------------------------------------------------------------------
(* The forms a step takes.                                                 *)

\* A step of the call on top changes its own node only, and not what it produced.
Elsewhere(nodes) == \A m \in Nodes \ {Top.n} : nodes[m] = node[m]
Kept(nodes) ==
  /\ nodes \in [Nodes -> NodeState] /\ Elsewhere(nodes)
  /\ nodes[Top.n].produced = node[Top.n].produced
  /\ Kind(Top.n) = "lzma" => Len(nodes[Top.n].out) <= 1
  /\ err = "ok" => ~nodes[Top.n].failed
  /\ Kind(Top.n) = "filter" =>
       Holds(nodes[Top.n]) = Holds(node[Top.n]) + Arrived(Top.n, stack, ret)

LEMMA CallersKept ==
  ASSUME graph \in Graphs, PullInv(node, stack, ret, err), stack # <<>>,
         NEW nodes, Elsewhere(nodes)
  PROVE  /\ Calls(Below, nodes)
         /\ \A i \in 1 .. Len(stack) - 1 : /\ stack[i] \in Request /\ Top.n < stack[i].n
                                           /\ InHand(stack[i], nodes)
<1>1. /\ stack \in Seq(Request) /\ Len(stack) \in Nat \ {0}
      /\ \A i \in 1 .. Len(stack) : InHand(stack[i], node)
      /\ stack[1].n = Root
      /\ \A i, j \in 1 .. Len(stack) : i < j => stack[j].n < stack[i].n
      /\ \A i \in 1 .. Len(stack) - 1 :
           /\ Waits(stack[i]) /\ stack[i + 1].n = Asks(stack[i])
           /\ Kind(stack[i].n) = "copy" => stack[i + 1].want <= stack[i].want
  BY TopFacts DEF PullInv, Calls
<1>2. \A i \in 1 .. Len(stack) - 1 : stack[i] \in Request /\ Top.n < stack[i].n
  BY <1>1, ElementOfSeq DEF Top
<1>3. \A i \in 1 .. Len(stack) - 1 : InHand(stack[i], nodes)
  <2> TAKE i \in 1 .. Len(stack) - 1
  <2>1. stack[i].n \in Nodes \ {Top.n} /\ InHand(stack[i], node)
    BY <1>1, <1>2, GraphFacts, TopFacts DEF Request
  <2>2. nodes[stack[i].n] = node[stack[i].n]
    BY <2>1 DEF Elsewhere
  <2> QED  BY <2>1, <2>2 DEF InHand
<1> DEFINE s == Below
<1>4. /\ s \in Seq(Request) /\ Len(s) = Len(stack) - 1
      /\ \A i \in 1 .. Len(stack) - 1 : s[i] = stack[i]
  BY BelowFacts
<1> HIDE DEF s
<1>5. Calls(s, nodes)
  <2>1. \A i \in 1 .. Len(s) : InHand(s[i], nodes)
    BY <1>3, <1>4
  <2>2. s # <<>> => s[1].n = Root
    BY <1>1, <1>4
  <2>3. \A i, j \in 1 .. Len(s) : i < j => s[j].n < s[i].n
    BY <1>1, <1>4
  <2>4. \A i \in 1 .. Len(s) - 1 :
          /\ Waits(s[i]) /\ s[i + 1].n = Asks(s[i])
          /\ Kind(s[i].n) = "copy" => s[i + 1].want <= s[i].want
    <3> TAKE i \in 1 .. Len(s) - 1
    <3>1. i \in 1 .. Len(stack) - 1 /\ s[i] = stack[i] /\ s[i + 1] = stack[i + 1]
      BY <1>1, <1>4
    <3> QED  BY <1>1, <3>1
  <2> QED  BY <1>4, <2>1, <2>2, <2>3, <2>4 DEF Calls
<1> QED  BY <1>2, <1>3, <1>5 DEF s

\* A call of a node below the one on top.
LEMMA PushRequest ==
  ASSUME graph \in Graphs, NEW nodes, NEW s, Calls(s, nodes), s # <<>>,
         NEW f, InHand(f, nodes), Waits(s[Len(s)]), f.n = Asks(s[Len(s)]),
         Kind(s[Len(s)].n) = "copy" => f.want <= s[Len(s)].want
  PROVE  Calls(Append(s, f), nodes)
<1> DEFINE t == Append(s, f)
           k == Len(s)
<1>1. /\ s \in Seq(Request) /\ k \in Nat \ {0} /\ f \in Request
      /\ \A i \in 1 .. k : s[i] \in Request
  BY ElementOfSeq DEF Calls, InHand
<1>2. /\ t \in Seq(Request) /\ Len(t) = k + 1 /\ t[k + 1] = f
      /\ \A i \in 1 .. k : t[i] = s[i]
  BY <1>1
<1>3. f.n < s[k].n
  <2>1. InHand(s[k], nodes) /\ s[k].n \in Nodes /\ s[k].k \in 1 .. 3
    BY <1>1 DEF Calls, Request
  <2> QED  BY <2>1, GraphFacts DEF Asks, InHand, Waits
<1>4. \A i \in 1 .. k : f.n < s[i].n
  <2> TAKE i \in 1 .. k
  <2>1. i = k \/ s[k].n < s[i].n
    BY <1>1 DEF Calls
  <2>2. f.n \in Nat /\ s[k].n \in Nat /\ s[i].n \in Nat
    <3>1. \A g \in Request : g.n \in Nat
      BY GraphFacts DEF Request
    <3> QED  BY <1>1, <3>1
  <2> QED  BY <1>3, <2>1, <2>2
<1> HIDE DEF t
<1>5. \A i \in 1 .. Len(t) : InHand(t[i], nodes)
  BY <1>1, <1>2 DEF Calls
<1>6. t[1].n = Root
  BY <1>1, <1>2 DEF Calls
<1>7. \A i, j \in 1 .. Len(t) : i < j => t[j].n < t[i].n
  <2> TAKE i, j \in 1 .. Len(t)
  <2> HAVE i < j
  <2>1. CASE j = k + 1
    BY <1>1, <1>2, <1>4, <2>1
  <2>2. CASE j # k + 1
    <3>1. i \in 1 .. k /\ j \in 1 .. k /\ t[i] = s[i] /\ t[j] = s[j]
      BY <1>1, <1>2, <2>2
    <3> QED  BY <3>1 DEF Calls
  <2> QED  BY <2>1, <2>2
<1>8. \A i \in 1 .. Len(t) - 1 :
        /\ Waits(t[i]) /\ t[i + 1].n = Asks(t[i])
        /\ Kind(t[i].n) = "copy" => t[i + 1].want <= t[i].want
  <2> TAKE i \in 1 .. Len(t) - 1
  <2>1. CASE i = k
    BY <1>1, <1>2, <2>1
  <2>2. CASE i # k
    <3>1. i \in 1 .. k - 1 /\ t[i] = s[i] /\ t[i + 1] = s[i + 1]
      BY <1>1, <1>2, <2>2
    <3> QED  BY <3>1 DEF Calls
  <2> QED  BY <2>1, <2>2
<1>9. Calls(t, nodes)
  BY <1>2, <1>5, <1>6, <1>7, <1>8 DEF Calls
<1> QED  BY <1>9 DEF t

\* The frame on top moves.
LEMMA MoveTop ==
  ASSUME graph \in Graphs, PullInv(node, stack, ret, err), stack # <<>>,
         NEW nodes, Elsewhere(nodes), NEW f, InHand(f, nodes),
         f.n = Top.n, f.want = Top.want
  PROVE  Calls(Append(Below, f), nodes)
<1>1. f \in Request /\ Top.n \in Nodes
  BY TopFacts DEF InHand
<1>2. CASE Below = <<>>
  <2>1. /\ Append(Below, f) \in Seq(Request) /\ Len(Append(Below, f)) = 1
        /\ Append(Below, f)[1] = f /\ f.n = Root
    BY <1>1, <1>2, CallerFacts, BelowFacts
  <2> QED  BY <2>1 DEF Calls
<1>3. CASE Below # <<>>
  <2>1. Calls(Below, nodes)
    BY CallersKept
  <2> QED  BY <1>3, <2>1, CallerFacts, PushRequest
<1> QED  BY <1>2, <1>3

LEMMA KeptCounts ==
  ASSUME graph \in Graphs, PullInv(node, stack, ret, err), stack # <<>>,
         NEW nodes, Kept(nodes)
  PROVE  /\ nodes \in [Nodes -> NodeState]
         /\ \A n \in Nodes : /\ nodes[n].produced = node[n].produced
                             /\ Within(n, nodes[n])
                             /\ err = "ok" => ~nodes[n].failed
         /\ err = "ok" => \A n \in Nodes : Kind(n) = "filter" /\ OnlyReader(n) =>
              Holds(nodes[n]) = nodes[In(n)].produced
<1>1. ASSUME NEW n \in Nodes
      PROVE  /\ nodes[n].produced = node[n].produced
             /\ Within(n, nodes[n])
             /\ err = "ok" => ~nodes[n].failed
  <2>1. CASE n = Top.n
    BY <2>1 DEF Kept, PullInv, Within
  <2>2. CASE n # Top.n
    <3>1. nodes[n] = node[n]
      BY <2>2 DEF Kept, Elsewhere
    <3> QED  BY <3>1 DEF PullInv
  <2> QED  BY <2>1, <2>2
<1>2. ASSUME err = "ok", NEW n \in Nodes, Kind(n) = "filter", OnlyReader(n)
      PROVE  Holds(nodes[n]) = nodes[In(n)].produced
  <2>1. Holds(node[n]) + Arrived(n, stack, ret) = node[In(n)].produced
    BY <1>2 DEF PullInv, Exact
  <2>2. In(n) \in Nodes
    BY <1>2, GraphFacts
  <2>3. Holds(nodes[n]) = Holds(node[n]) + Arrived(n, stack, ret)
    <3>1. CASE n = Top.n
      BY <1>2, <3>1 DEF Kept
    <3>2. CASE n # Top.n
      <4>1. nodes[n] = node[n] /\ Arrived(n, stack, ret) = 0
        BY <3>2 DEF Kept, Elsewhere, Arrived, Top
      <4>2. Holds(node[n]) \in Nat
        BY StateFacts DEF PullInv
      <4> QED  BY <4>1, <4>2
    <3> QED  BY <3>1, <3>2
  <2> QED  BY <1>1, <2>1, <2>2, <2>3
<1>3. nodes \in [Nodes -> NodeState]
  BY DEF Kept
<1> QED  BY <1>1, <1>2, <1>3

\* What a call answers is no more than it was asked for.
LEMMA AnswerCaller ==
  ASSUME graph \in Graphs, PullInv(node, stack, ret, err), stack # <<>>,
         NEW r, r = Failure \/ \E d \in Bytes : r = Got(d), Len(r.data) <= Top.want
  PROVE  Answer(Below, r)
<1>1. Len(r.data) \in Nat /\ Top.want \in Nat
  BY TopFacts DEF Bytes, Failure, Got, Request
<1>2. Below # <<>> => Below[Len(Below)].want \in Nat
  BY CallerFacts DEF Request
<1> QED  BY <1>1, <1>2, CallerFacts DEF Answer

LEMMA AgainKeeps ==
  ASSUME graph \in Graphs, PullInv(node, stack, ret, err), stack # <<>>,
         NEW nodes, Kept(nodes),
         NEW f, InHand(f, nodes), f.n = Top.n, f.want = Top.want
  PROVE  PullInv(nodes, Append(Below, f), NoRet, err)
<1>1. Calls(Append(Below, f), nodes)
  BY MoveTop DEF Kept
<1> DEFINE s == Append(Below, f)
<1> HIDE DEF s
<1>2. Answer(s, NoRet)
  BY DEF Answer
<1>3. \A n : Arrived(n, s, NoRet) = 0
  BY DEF Arrived, NoRet
<1>4. NoRet # Failure
  BY DEF NoRet, Failure
<1>5. err = "ok" => Exact(nodes, s, NoRet)
  <2> SUFFICES ASSUME err = "ok", NEW n \in Nodes, Kind(n) = "filter", OnlyReader(n)
               PROVE  Holds(nodes[n]) + Arrived(n, s, NoRet) = nodes[In(n)].produced
    BY DEF Exact
  <2>1. Holds(nodes[n]) = nodes[In(n)].produced
    BY KeptCounts
  <2>2. Holds(nodes[n]) \in Nat
    BY KeptCounts, StateFacts
  <2> QED  BY <1>3, <2>1, <2>2
<1>6. PullInv(nodes, s, NoRet, err)
  <2>1. Calls(s, nodes)
    BY <1>1 DEF s
  <2> QED  BY <1>2, <1>4, <1>5, <2>1, KeptCounts DEF PullInv
<1> QED  BY <1>6 DEF s

LEMMA FailKeeps ==
  ASSUME graph \in Graphs, PullInv(node, stack, ret, err), stack # <<>>,
         NEW status, status # "ok", FailNode(Top.n, status)
  PROVE  PullInv(node', stack', ret', err')
<1> DEFINE nodes == [node EXCEPT ![Top.n].failed = TRUE]
<1>1. node' = nodes /\ stack' = Below /\ ret' = Failure /\ err' # "ok"
  <2>1. node[Top.n].failed => err # "ok"
    BY TopFacts DEF PullInv
  <2> QED  BY <2>1 DEF FailNode
<1>2. /\ nodes \in [Nodes -> NodeState] /\ Elsewhere(nodes)
      /\ nodes[Top.n].produced = node[Top.n].produced /\ nodes[Top.n].out = node[Top.n].out
  <2>1. node \in [Nodes -> NodeState] /\ Top.n \in Nodes
    BY TopFacts DEF PullInv
  <2>2. [node[Top.n] EXCEPT !.failed = TRUE] \in NodeState
    <3> DEFINE x == node[Top.n]
    <3>1. x \in NodeState
      BY <2>1
    <3> HIDE DEF x
    <3>2. [x EXCEPT !.failed = TRUE] \in NodeState
      BY <3>1 DEF NodeState
    <3> QED  BY <3>2 DEF x
  <2>3. nodes = [node EXCEPT ![Top.n] = [node[Top.n] EXCEPT !.failed = TRUE]]
    OBVIOUS
  <2> HIDE DEF nodes
  <2>4. nodes \in [Nodes -> NodeState]
    BY <2>1, <2>2, <2>3
  <2>5. Elsewhere(nodes)
    BY <2>1, <2>3 DEF Elsewhere
  <2>6. nodes[Top.n].produced = node[Top.n].produced /\ nodes[Top.n].out = node[Top.n].out
    BY <2>1, <2>3 DEF NodeState
  <2> QED  BY <2>4, <2>5, <2>6
<1> HIDE DEF nodes
<1>3. \A n \in Nodes : Within(n, nodes[n])
  BY <1>2 DEF Elsewhere, PullInv, Within
<1>4. Calls(Below, nodes)
  BY <1>2, CallersKept
<1>5. Answer(Below, Failure)
  <2>1. Len(Failure.data) = 0 /\ Top.want \in Nat
    BY TopFacts DEF Failure, Request
  <2> QED  BY <2>1, AnswerCaller
<1> QED  BY <1>1, <1>2, <1>3, <1>4, <1>5 DEF PullInv

LEMMA PropagateKeeps ==
  ASSUME graph \in Graphs, PullInv(node, stack, ret, err), Propagate
  PROVE  PullInv(node', stack', ret', err')
<1>1. node' = node /\ stack' = Below /\ ret' = Failure /\ err' = err /\ ret = Failure /\ stack # <<>>
  BY DEF Propagate
<1>2. err # "ok"
  BY <1>1 DEF PullInv
<1>3. Calls(Below, node)
  BY <1>1, CallersKept DEF Elsewhere
<1>4. Answer(Below, Failure)
  <2>1. Len(Failure.data) = 0 /\ Top.want \in Nat
    BY <1>1, TopFacts DEF Failure, Request
  <2> QED  BY <1>1, <2>1, AnswerCaller
<1> QED  BY <1>1, <1>2, <1>3, <1>4 DEF PullInv

LEMMA LeaveKeeps ==
  ASSUME graph \in Graphs, PullInv(node, stack, ret, err), stack # <<>>,
         NEW nodes, Kept(nodes), NEW data \in Bytes, Len(data) <= Top.want
  PROVE  PullInv([nodes EXCEPT ![Top.n].produced = @ + Len(data)], Below, Got(data), err)
<1> DEFINE n == Top.n
           after == [nodes EXCEPT ![n].produced = @ + Len(data)]
<1>1. /\ n \in Nodes /\ InHand(Top, node) /\ Top.want \in Nat /\ Len(data) \in Nat
      /\ nodes \in [Nodes -> NodeState] /\ nodes[n] \in NodeState
  BY TopFacts, KeptCounts DEF Request, Bytes
<1>2. after = [nodes EXCEPT ![n] = [nodes[n] EXCEPT !.produced = nodes[n].produced + Len(data)]]
  OBVIOUS
<1> HIDE DEF n, after
<1>3. /\ [nodes[n] EXCEPT !.produced = nodes[n].produced + Len(data)] \in NodeState
      /\ nodes[n].produced \in Nat
  <2>1. nodes[n].produced \in Nat /\ nodes[n].produced + Len(data) \in Nat
    BY <1>1, StateFacts
  <2> QED  BY <1>1, <2>1, StateFacts
<1>4. /\ after \in [Nodes -> NodeState]
      /\ \A m \in Nodes \ {n} : after[m] = nodes[m]
      /\ after[n].produced = nodes[n].produced + Len(data)
      /\ Holds(after[n]) = Holds(nodes[n]) /\ after[n].failed = nodes[n].failed
      /\ after[n].out = nodes[n].out
  <2>1. after[n] = [nodes[n] EXCEPT !.produced = nodes[n].produced + Len(data)]
    BY <1>1, <1>2
  <2>2. /\ after[n].produced = nodes[n].produced + Len(data)
        /\ after[n].pc = nodes[n].pc /\ after[n].off = nodes[n].off
        /\ after[n].out = nodes[n].out /\ after[n].buf = nodes[n].buf
        /\ after[n].failed = nodes[n].failed
    BY <1>1, <2>1 DEF NodeState
  <2>3. Holds(after[n]) = Holds(nodes[n])
    BY <2>2 DEF Holds
  <2>4. after \in [Nodes -> NodeState] /\ \A m \in Nodes \ {n} : after[m] = nodes[m]
    BY <1>1, <1>2, <1>3
  <2> QED  BY <2>2, <2>3, <2>4
<1>5. \A m \in Nodes : Within(m, after[m])
  <2> TAKE m \in Nodes
  <2>1. CASE m = n
    <3>1. nodes[n].produced = node[n].produced
      BY <1>1, KeptCounts
    <3>2. node[n].produced + Top.want <= graph.size[n] /\ graph.size[n] \in Nat
      BY <1>1, GraphFacts DEF InHand, n
    <3>3. after[n].produced <= graph.size[n]
      BY <1>1, <1>3, <1>4, <3>1, <3>2
    <3>4. Within(n, nodes[n])
      BY <1>1, KeptCounts
    <3> QED  BY <1>4, <2>1, <3>3, <3>4 DEF Within
  <2>2. CASE m # n
    BY <1>4, <2>2, KeptCounts
  <2> QED  BY <2>1, <2>2
<1>6. Calls(Below, after)
  <2>1. Elsewhere(after)
    BY <1>4 DEF Elsewhere, Kept, n
  <2> QED  BY <2>1, CallersKept
<1>7. Answer(Below, Got(data))
  BY AnswerCaller DEF Got
<1>8. ASSUME err = "ok" PROVE Exact(after, Below, Got(data))
  <2> SUFFICES ASSUME NEW m \in Nodes, Kind(m) = "filter", OnlyReader(m)
               PROVE  Holds(after[m]) + Arrived(m, Below, Got(data)) = after[In(m)].produced
    BY DEF Exact
  <2>1. /\ Holds(nodes[m]) = nodes[In(m)].produced /\ In(m) \in Nodes /\ In(m) < m
        /\ Holds(after[m]) = Holds(nodes[m]) /\ Holds(nodes[m]) \in Nat
    <3>1. Holds(nodes[m]) = nodes[In(m)].produced
      BY <1>8, KeptCounts
    <3>2. Holds(nodes[m]) \in Nat
      BY <1>1, StateFacts
    <3>3. Holds(after[m]) = Holds(nodes[m])
      BY <1>4
    <3> QED  BY <3>1, <3>2, <3>3, GraphFacts
  <2> DEFINE c == Below[Len(Below)]
  <2>2. CASE In(m) = n
    <3>1. Below # <<>>
      BY <2>1, <2>2, CallerFacts, GraphFacts DEF n
    <3>2. c.n = m
      <4>1. /\ c \in Request /\ Waits(c) /\ n = Asks(c) /\ InHand(c, node) /\ c.n \in Nodes
            /\ c.k \in 1 .. 3
        BY <3>1, CallerFacts DEF n, Request
      <4> HIDE DEF c
      <4>2. CASE c.at = "side"
        BY <2>2, <4>1, <4>2, OnlyReaderReads DEF Asks, InHand
      <4>3. CASE c.at # "side"
        BY <2>2, <4>1, <4>3, OnlyReaderReads DEF Asks, InHand
      <4> QED  BY <4>2, <4>3
    <3>3. Arrived(m, Below, Got(data)) = Len(data)
      BY <3>1, <3>2 DEF Arrived, Got
    <3>4. after[In(m)].produced = nodes[In(m)].produced + Len(data)
      BY <1>4, <2>2
    <3> QED  BY <2>1, <3>3, <3>4
  <2>3. CASE In(m) # n
    <3>1. Arrived(m, Below, Got(data)) = 0
      <4>1. Below # <<>> => c.n # m
        <5> SUFFICES ASSUME Below # <<>>, c.n = m PROVE FALSE
          OBVIOUS
        <5>1. n = Asks(c) /\ InHand(c, node)
          BY CallerFacts DEF n
        <5> HIDE DEF c
        <5>2. c.at # "side"
          BY <5>1 DEF InHand
        <5> QED  BY <2>3, <5>1, <5>2 DEF Asks
      <4> QED  BY <4>1 DEF Arrived
    <3>2. after[In(m)] = nodes[In(m)]
      BY <1>4, <2>1, <2>3
    <3> QED  BY <2>1, <3>1, <3>2
  <2> QED  BY <2>2, <2>3
<1>9. Got(data) # Failure
  BY DEF Got, Failure
<1>10. \A m \in Nodes : err = "ok" => ~after[m].failed
  <2> TAKE m \in Nodes
  <2>1. CASE m = n
    BY <1>1, <1>4, <2>1, KeptCounts
  <2>2. CASE m # n
    BY <1>4, <2>2, KeptCounts
  <2> QED  BY <2>1, <2>2
<1>11. PullInv(after, Below, Got(data), err)
  BY <1>4, <1>5, <1>6, <1>7, <1>8, <1>9, <1>10 DEF PullInv
<1> QED  BY <1>11 DEF after, n

\* A call of node m: it may be refused, have nothing left, or begin.
LEMMA EnterKeeps ==
  ASSUME graph \in Graphs, NEW nodes, NEW s, PullInv(nodes, s, NoRet, err),
         NEW m \in Nodes, NEW want \in Nat \ {0},
         IF s = <<>> THEN m = Root
         ELSE /\ Waits(s[Len(s)]) /\ m = Asks(s[Len(s)])
              /\ Kind(s[Len(s)].n) = "copy" => want <= s[Len(s)].want,
         Enter(m, want, nodes, s)
  PROVE  PullInv(node', stack', ret', err')
<1> DEFINE w == Least(want, graph.size[m] - nodes[m].produced)
           f == [n |-> m, want |-> w, acc |-> <<>>, at |-> "loop", k |-> 1]
<1>1. /\ nodes[m] \in NodeState /\ nodes[m].produced <= graph.size[m]
      /\ nodes[m].produced \in Nat /\ graph.size[m] \in Nat /\ Calls(s, nodes)
  BY GraphFacts, StateFacts DEF PullInv, Within
<1>2. w \in Nat /\ w <= want /\ w <= graph.size[m] - nodes[m].produced
  BY <1>1 DEF Least
<1>3. node' = nodes /\ err' = err
  BY DEF Enter
<1>4. \/ nodes[m].failed /\ stack' = s /\ ret' = Failure
      \/ stack' = s /\ ret' = Got(<<>>)
      \/ w # 0 /\ stack' = Append(s, f) /\ ret' = NoRet
  BY DEF Enter
<1>5. \A n, t : /\ Arrived(n, t, NoRet) = 0 /\ Arrived(n, t, Got(<<>>)) = 0
                /\ NoRet # Failure /\ Got(<<>>) # Failure
  BY DEF Arrived, NoRet, Got, Failure
<1>6. err = "ok" => Exact(nodes, s, Got(<<>>)) /\ \A t : Exact(nodes, t, NoRet)
  BY <1>5 DEF PullInv, Exact
<1>7. s # <<>> => s[Len(s)].want \in Nat
  <2>1. s \in Seq(Request) /\ (s # <<>> => Len(s) \in 1 .. Len(s))
    BY <1>1, EmptySeq DEF Calls
  <2>2. s # <<>> => s[Len(s)] \in Request
    BY <2>1, ElementOfSeq
  <2> QED  BY <2>2 DEF Request
<1>8. CASE nodes[m].failed /\ stack' = s /\ ret' = Failure
  <2>1. err # "ok"
    BY <1>8 DEF PullInv
  <2>2. Answer(s, Failure)
    BY <1>7 DEF Answer, Failure
  <2> QED  BY <1>3, <1>8, <2>1, <2>2 DEF PullInv
<1>9. CASE stack' = s /\ ret' = Got(<<>>)
  <2>1. Answer(s, Got(<<>>))
    <3>1. Got(<<>>) # NoRet /\ Got(<<>>).data = <<>> /\ <<>> \in Bytes /\ Len(<<>>) = 0
      BY EmptySeq DEF Got, NoRet, Bytes
    <3>2. s # <<>> => 0 <= s[Len(s)].want
      BY <1>7
    <3>3. s # <<>> => Waits(s[Len(s)])
      OBVIOUS
    <3> DEFINE r == Got(<<>>)
    <3> HIDE DEF r
    <3>4. r.data = <<>> /\ \E d \in Bytes : r = Got(d)
      BY <3>1 DEF r
    <3>5. Answer(s, r)
      BY <3>1, <3>2, <3>3, <3>4 DEF Answer
    <3> QED  BY <3>5 DEF r
  <2> QED  BY <1>3, <1>5, <1>6, <1>9, <2>1 DEF PullInv
<1>10. CASE w # 0 /\ stack' = Append(s, f) /\ ret' = NoRet
  <2>1. InHand(f, nodes) /\ f.n = m /\ f.want = w
    <3>1. w \in Nat \ {0} /\ <<>> \in Bytes /\ Len(<<>>) = 0
      BY <1>2, <1>10, EmptySeq DEF Bytes
    <3> HIDE DEF w
    <3>2. f \in Request
      BY <3>1 DEF Request
    <3>3. nodes[m].produced + w <= graph.size[m]
      BY <1>1, <1>2
    <3> QED  BY <3>1, <3>2, <3>3 DEF InHand, Waits
  <2> HIDE DEF f, w
  <2>2. Calls(Append(s, f), nodes)
    <3>1. CASE s = <<>>
      <4>1. f \in Request
        BY <2>1 DEF InHand
      <4>2. Append(s, f) \in Seq(Request) /\ Len(Append(s, f)) = 1 /\ Append(s, f)[1] = f
        BY <3>1, <4>1
      <4> QED  BY <2>1, <3>1, <4>2 DEF Calls
    <3>2. CASE s # <<>>
      <4>1. Kind(s[Len(s)].n) = "copy" => w <= s[Len(s)].want
        BY <1>2, <1>7, <3>2
      <4> QED  BY <1>1, <2>1, <3>2, <4>1, PushRequest
    <3> QED  BY <3>1, <3>2
  <2>3. Answer(Append(s, f), NoRet)
    BY DEF Answer
  <2> QED  BY <1>3, <1>5, <1>6, <1>10, <2>2, <2>3 DEF PullInv
<1> QED  BY <1>4, <1>8, <1>9, <1>10

LEMMA PullKeeps ==
  ASSUME graph \in Graphs, PullInv(node, stack, ret, err), stack # <<>>,
         NEW nodes, Kept(nodes), NEW want \in Nat \ {0}, NEW at, NEW m,
         \/ /\ at = "in" /\ m = In(Top.n) /\ Kind(Top.n) # "pack"
            /\ Kind(Top.n) # "copy" => Len(Top.acc) < Top.want
            /\ Kind(Top.n) = "filter" => nodes[Top.n].out = <<>>
            /\ Kind(Top.n) = "copy" => want <= Top.want
         \/ at = "side" /\ m = SideNode(Top.n, Top.k) /\ Kind(Top.n) = "bcj2",
         Pull(m, want, nodes, at)
  PROVE  PullInv(node', stack', ret', err')
<1> DEFINE f == [Top EXCEPT !.at = at]
<1>1. /\ f \in Request /\ f.n = Top.n /\ f.want = Top.want /\ f.acc = Top.acc
      /\ f.at = at /\ f.k = Top.k /\ Top.k \in 1 .. 3 /\ Top.n \in Nodes
  BY TopFacts DEF Request
<1> HIDE DEF f
<1>2. InHand(f, nodes)
  <2>1. /\ Len(f.acc) <= f.want /\ node[Top.n].produced + f.want <= graph.size[Top.n]
    BY <1>1, TopFacts DEF InHand
  <2> QED  BY <1>1, <2>1 DEF InHand, Waits, Kept
<1>3. PullInv(nodes, Append(Below, f), NoRet, err)
  BY <1>1, <1>2, AgainKeeps
<1>4. Append(Below, f) # <<>> /\ Append(Below, f)[Len(Append(Below, f))] = f
  BY <1>1, TopFacts, BelowFacts, EmptySeq
<1>5. m \in Nodes /\ Waits(f) /\ m = Asks(f) /\ (Kind(f.n) = "copy" => want <= f.want)
  BY <1>1, GraphFacts DEF Waits, Asks
<1>6. Enter(m, want, nodes, Append(Below, f))
  BY DEF Pull, f
<1> QED  BY <1>3, <1>4, <1>5, <1>6, EnterKeeps

-------------------------------------------------------------------------------
(* Lengths.                                                                *)

LEMMA TakeDrop ==
  ASSUME NEW s \in Bytes, NEW k \in Nat
  PROVE  /\ Len(s) \in Nat /\ Take(s, k) \in Bytes /\ Drop(s, k) \in Bytes
         /\ Len(Take(s, k)) = Least(k, Len(s))
         /\ Len(Drop(s, k)) = Len(s) - Least(k, Len(s))
<1> DEFINE j == Least(k, Len(s))
<1>1. Len(s) \in Nat /\ j \in Nat /\ j <= Len(s) /\ (k <= Len(s) => j = k) /\ (Len(s) < k => j = Len(s))
  BY DEF Bytes, Least
<1>2. \A i \in 1 .. Len(s) : s[i] \in Nat
  BY ElementOfSeq DEF Bytes
<1> HIDE DEF j
<1>3. SubSeq(s, 1, j) \in Seq(Nat) /\ Len(SubSeq(s, 1, j)) = j
  <2>1. \A i \in 1 .. j : s[i] \in Nat
    BY <1>1, <1>2
  <2>2. /\ SubSeq(s, 1, j) \in Seq(Nat)
        /\ Len(SubSeq(s, 1, j)) = IF 1 <= j THEN j - 1 + 1 ELSE 0
    BY <1>1, <2>1, SubSeqProperties
  <2> QED  BY <1>1, <2>2
<1>4. SubSeq(s, k + 1, Len(s)) \in Seq(Nat) /\ Len(SubSeq(s, k + 1, Len(s))) = Len(s) - j
  <2>1. \A i \in k + 1 .. Len(s) : s[i] \in Nat
    BY <1>1, <1>2
  <2>2. /\ SubSeq(s, k + 1, Len(s)) \in Seq(Nat)
        /\ Len(SubSeq(s, k + 1, Len(s))) =
             IF k + 1 <= Len(s) THEN Len(s) - (k + 1) + 1 ELSE 0
    BY <1>1, <2>1, SubSeqProperties
  <2> QED  BY <1>1, <2>2
<1> QED  BY <1>1, <1>3, <1>4 DEF Take, Drop, Bytes, j

LEMMA DoubledBytes ==
  ASSUME NEW s \in Bytes
  PROVE  Doubled(s) \in Bytes /\ Len(Doubled(s)) = 2 * Len(s)
<1>1. Len(s) \in Nat /\ \A i \in 1 .. Len(s) : s[i] \in Nat
  BY ElementOfSeq DEF Bytes
<1> DEFINE n == 2 * Len(s)
           e(i) == 2 * s[(i + 1) \div 2] + (1 - (i % 2))
<1>2. n \in Nat
  BY <1>1
<1>3. \A i \in 1 .. n : e(i) \in Nat
  <2> TAKE i \in 1 .. n
  <2>1. (i + 1) \div 2 \in 1 .. Len(s) /\ i % 2 \in {0, 1}
    BY <1>1
  <2>2. s[(i + 1) \div 2] \in Nat
    BY <1>1, <2>1
  <2> QED  BY <2>1, <2>2
<1>4. Doubled(s) = [i \in 1 .. n |-> e(i)]
  BY DEF Doubled
<1> HIDE DEF n, e
<1>5. [i \in 1 .. n |-> e(i)] \in Seq(Nat) /\ Len([i \in 1 .. n |-> e(i)]) = n
  BY <1>2, <1>3
<1> QED  BY <1>4, <1>5 DEF Bytes, n

LEMMA JoinBytes ==
  ASSUME NEW s \in Bytes, NEW t \in Bytes
  PROVE  s \o t \in Bytes /\ Len(s \o t) = Len(s) + Len(t) /\ Len(s) \in Nat /\ Len(t) \in Nat
BY ConcatProperties DEF Bytes

LEMMA AddByte ==
  ASSUME NEW s \in Bytes, NEW x \in Nat
  PROVE  Append(s, x) \in Bytes /\ Len(Append(s, x)) = Len(s) + 1
BY DEF Bytes

LEMMA RestBytes ==
  ASSUME NEW s \in Bytes, s # <<>>
  PROVE  Head(s) \in Nat /\ Tail(s) \in Bytes
BY HeadTailProperties DEF Bytes

-------------------------------------------------------------------------------
(* Each kind of node.                                                      *)

LEMMA KeptChange ==
  ASSUME graph \in Graphs, PullInv(node, stack, ret, err), stack # <<>>,
         NEW x \in NodeState, x.produced = node[Top.n].produced,
         Kind(Top.n) = "lzma" => Len(x.out) <= 1,
         err = "ok" => x.failed = node[Top.n].failed,
         Kind(Top.n) = "filter" =>
           Holds(x) = Holds(node[Top.n]) + Arrived(Top.n, stack, ret)
  PROVE  /\ Kept([node EXCEPT ![Top.n] = x])
         /\ [node EXCEPT ![Top.n] = x][Top.n] = x
<1>1. node \in [Nodes -> NodeState] /\ Top.n \in Nodes
  BY TopFacts DEF PullInv
<1> DEFINE nodes == [node EXCEPT ![Top.n] = x]
<1>2. nodes \in [Nodes -> NodeState] /\ nodes[Top.n] = x
  BY <1>1
<1>3. Elsewhere(nodes)
  BY <1>1 DEF Elsewhere
<1>4. err = "ok" => ~x.failed
  BY <1>1 DEF PullInv
<1> HIDE DEF nodes
<1>5. Kept(nodes)
  BY <1>2, <1>3, <1>4 DEF Kept
<1> QED  BY <1>2, <1>5 DEF nodes

\* Nothing has arrived while no call has returned.
LEMMA KeptSame ==
  ASSUME graph \in Graphs, PullInv(node, stack, ret, err), stack # <<>>,
         ret = NoRet \/ Kind(Top.n) # "filter"
  PROVE  Kept(node)
<1>1. node \in [Nodes -> NodeState] /\ Top.n \in Nodes /\ node[Top.n] \in NodeState
  BY TopFacts DEF PullInv
<1>2. Kind(Top.n) = "filter" =>
        Holds(node[Top.n]) = Holds(node[Top.n]) + Arrived(Top.n, stack, ret)
  <2>1. ret = NoRet => Arrived(Top.n, stack, ret) = 0
    BY DEF Arrived, NoRet
  <2>2. Holds(node[Top.n]) \in Nat
    BY <1>1, StateFacts
  <2> QED  BY <2>1, <2>2
<1> QED  BY <1>1, <1>2 DEF Kept, Elsewhere, PullInv, Within

LEMMA PackStep ==
  ASSUME graph \in Graphs, PullInv(node, stack, ret, err), PullPack
  PROVE  PullInv(node', stack', ret', err')
<1> DEFINE n == Top.n
           data == [i \in 1 .. Top.want |-> 16 * n + node[n].produced + i]
<1>1. stack # <<>> /\ ret = NoRet
  BY DEF PullPack, Running
<1>2. Leave(n, node, data) \/ FailNode(n, "READ")
  BY DEF PullPack
<1>3. data \in Bytes /\ Len(data) <= Top.want
  <2>1. Top.want \in Nat /\ n \in Nat /\ node[n].produced \in Nat
    BY <1>1, TopFacts, GraphFacts, StateFacts DEF Request
  <2> HIDE DEF n
  <2>2. data \in Seq(Nat) /\ Len(data) = Top.want
    BY <2>1
  <2> QED  BY <2>1, <2>2 DEF Bytes
<1> HIDE DEF data
<1>4. CASE Leave(n, node, data)
  BY <1>1, <1>3, <1>4, KeptSame, LeaveKeeps DEF Leave
<1>5. CASE FailNode(n, "READ")
  BY <1>1, <1>5, FailKeeps
<1> QED  BY <1>2, <1>4, <1>5

LEMMA CopyStep ==
  ASSUME graph \in Graphs, PullInv(node, stack, ret, err), PullCopy
  PROVE  PullInv(node', stack', ret', err')
<1>1. CASE Running("copy", "loop") /\ Pull(In(Top.n), Top.want, node, "in")
  <2>1. stack # <<>> /\ ret = NoRet /\ Kind(Top.n) = "copy"
    BY <1>1 DEF Running
  <2>2. Top.want \in Nat \ {0}
    BY <2>1, TopFacts DEF Request
  <2>3. Kept(node)
    BY <2>1, KeptSame
  <2> QED  BY <1>1, <2>1, <2>2, <2>3, PullKeeps
<1>2. CASE stack # <<>> /\ ret.rc = "ok" /\ Kind(Top.n) = "copy" /\ Leave(Top.n, node, ret.data)
  <2>1. ret.data \in Bytes /\ Len(ret.data) <= Top.want
    BY <1>2 DEF PullInv, Answer, Top, NoRet, Failure, Got
  <2>2. Kept(node)
    BY <1>2, KeptSame
  <2> QED  BY <1>2, <2>1, <2>2, LeaveKeeps DEF Leave
<1> QED  BY <1>1, <1>2 DEF PullCopy

\* What is left to give out.
LEMMA WantFacts ==
  ASSUME graph \in Graphs, PullInv(node, stack, ret, err), stack # <<>>
  PROVE  /\ Top.acc \in Bytes /\ Len(Top.acc) \in Nat /\ Top.want \in Nat \ {0}
         /\ Want \in Nat /\ Len(Top.acc) + Want = Top.want
         /\ node[Top.n].buf \in Bytes /\ node[Top.n].out \in Bytes
         /\ node[Top.n].pc \in Nat /\ node[Top.n].off \in Nat
         /\ Len(node[Top.n].buf) \in Nat /\ Len(node[Top.n].out) \in Nat
<1>1. /\ Top.acc \in Bytes /\ Top.want \in Nat \ {0} /\ Len(Top.acc) <= Top.want
      /\ node[Top.n].buf \in Bytes /\ node[Top.n].out \in Bytes
      /\ node[Top.n].pc \in Nat /\ node[Top.n].off \in Nat
  BY TopFacts DEF Request, InHand, NodeState
<1>2. /\ Len(Top.acc) \in Nat /\ Len(node[Top.n].buf) \in Nat
      /\ Len(node[Top.n].out) \in Nat
  BY <1>1 DEF Bytes
<1>3. Want = Top.want - Len(Top.acc)
  BY DEF Want
<1> QED  BY <1>1, <1>2, <1>3

LEMMA MoreGiven ==
  ASSUME graph \in Graphs, PullInv(node, stack, ret, err), stack # <<>>
  PROVE  /\ \A t \in Bytes : Len(t) <= Want =>
              Top.acc \o t \in Bytes /\ Len(Top.acc \o t) <= Top.want
         /\ Want # 0 => \A x \in Nat :
              Append(Top.acc, x) \in Bytes /\ Len(Append(Top.acc, x)) <= Top.want
<1> DEFINE a == Top.acc
           w == Want
           v == Top.want
<1>1. a \in Bytes /\ Len(a) \in Nat /\ w \in Nat /\ v \in Nat /\ Len(a) + w = v
  BY WantFacts
<1> HIDE DEF a, w, v
<1>2. ASSUME NEW t \in Bytes, Len(t) <= w PROVE a \o t \in Bytes /\ Len(a \o t) <= v
  <2>1. a \o t \in Bytes /\ Len(a \o t) = Len(a) + Len(t) /\ Len(t) \in Nat
    BY <1>1, JoinBytes
  <2> QED  BY <1>1, <1>2, <2>1
<1>3. ASSUME w # 0, NEW x \in Nat PROVE Append(a, x) \in Bytes /\ Len(Append(a, x)) <= v
  <2>1. Append(a, x) \in Bytes /\ Len(Append(a, x)) = Len(a) + 1
    BY <1>1, AddByte
  <2> QED  BY <1>1, <1>3, <2>1
<1> QED  BY <1>2, <1>3 DEF a, w, v

LEMMA LoopStep ==
  ASSUME graph \in Graphs, PullInv(node, stack, ret, err), stack # <<>>,
         NEW nodes, Kept(nodes), NEW f \in Request, f.n = Top.n, f.want = Top.want,
         Len(f.acc) <= Top.want,
         \/ f.at \in {"loop", "decode"}
         \/ /\ f.at = "fresh" /\ Len(f.acc) < Top.want
            /\ Kind(Top.n) = "filter" => nodes[Top.n].out = <<>>,
         Again(nodes, f)
  PROVE  PullInv(node', stack', ret', err')
<1>1. node[Top.n].produced + Top.want <= graph.size[Top.n]
  BY TopFacts DEF InHand
<1>2. InHand(f, nodes)
  BY <1>1 DEF InHand, Waits, Kept
<1>3. PullInv(nodes, Append(Below, f), NoRet, err)
  BY <1>2, AgainKeeps
<1> QED  BY <1>3 DEF Again

LEMMA LeaveStep ==
  ASSUME graph \in Graphs, PullInv(node, stack, ret, err), stack # <<>>,
         NEW nodes, Kept(nodes), Leave(Top.n, nodes, Top.acc)
  PROVE  PullInv(node', stack', ret', err')
<1>1. Top.acc \in Bytes /\ Len(Top.acc) <= Top.want
  BY WantFacts
<1> QED  BY <1>1, LeaveKeeps DEF Leave

LEMMA HalfOf ==
  ASSUME NEW w \in Nat \ {0}, NEW l \in {0, 1}, NEW m \in Nat
  PROVE  /\ Least((w - l + 1) \div 2, m) \in Nat /\ Least((w - l + 1) \div 2, m) <= m
         /\ 2 * Least((w - l + 1) \div 2, m) <= w - l + 1
<1> DEFINE h == (w - l + 1) \div 2
<1>1. h \in Nat /\ 2 * h <= w - l + 1
  <2> DEFINE j == w - l + 1
  <2>1. j \in Nat
    OBVIOUS
  <2> HIDE DEF j
  <2>2. j \div 2 \in Nat /\ 2 * (j \div 2) <= j
    BY <2>1
  <2> QED  BY <2>2 DEF j
<1> HIDE DEF h
<1>2. Least(h, m) \in Nat /\ Least(h, m) <= m /\ 2 * Least(h, m) <= w - l + 1
  BY <1>1 DEF Least
<1> QED  BY <1>2 DEF h

LEMMA LzmaStep ==
  ASSUME graph \in Graphs, PullInv(node, stack, ret, err), PullLzma
  PROVE  PullInv(node', stack', ret', err')
<1> DEFINE n == Top.n
           b == node[n].buf
           o == node[n].out
           k == Least((Want - Len(o) + 1) \div 2, Len(b))
           ready == o \o Doubled(Take(b, k))
           nodes == [node EXCEPT ![n].buf = Drop(b, k), ![n].out = Drop(ready, Want)]
           f == [Top EXCEPT !.acc = @ \o Take(ready, Want)]
<1>1. stack # <<>> /\ ret = NoRet /\ Kind(n) = "lzma" /\ Top.at = "loop" /\ Kept(node)
  BY KeptSame DEF PullLzma, Running
<1>2. \/ Leave(n, node, Top.acc)
      \/ Want # 0 /\ Pull(In(n), InCap, node, "in")
      \/ Want # 0 /\ Again(nodes, f)
      \/ FailNode(n, "DATA")
  BY DEF PullLzma
<1>3. CASE Leave(n, node, Top.acc)
  BY <1>1, <1>3, LeaveStep
<1>4. CASE Want # 0 /\ Pull(In(n), InCap, node, "in")
  <2>1. InCap \in Nat \ {0}
    BY ChainCapsAssumption
  <2>2. Len(Top.acc) < Top.want
    BY <1>1, <1>4, WantFacts
  <2> QED  BY <1>1, <1>4, <2>1, <2>2, PullKeeps
<1>5. CASE Want # 0 /\ Again(nodes, f)
  <2> HIDE DEF k, ready, nodes, f
  <2>1. /\ b \in Bytes /\ o \in Bytes /\ Len(o) \in {0, 1} /\ Len(b) \in Nat /\ Want \in Nat \ {0}
        /\ node \in [Nodes -> NodeState] /\ n \in Nodes
    <3>1. /\ b \in Bytes /\ o \in Bytes /\ Len(o) \in Nat /\ Len(b) \in Nat /\ Want \in Nat \ {0}
      BY <1>1, <1>5, WantFacts
    <3>2. node \in [Nodes -> NodeState] /\ n \in Nodes /\ Len(o) <= 1
      BY <1>1, TopFacts DEF PullInv, Within
    <3> HIDE DEF b, o
    <3>3. Len(o) \in {0, 1}
      <4> DEFINE l == Len(o)
      <4>1. l \in Nat
        BY <3>1
      <4>2. l <= 1
        BY <3>2
      <4> HIDE DEF l
      <4>3. l \in {0, 1}
        BY <4>1, <4>2
      <4> QED  BY <4>3 DEF l
    <3> QED  BY <3>1, <3>2, <3>3
  <2> HIDE DEF b, o
  <2>2. k \in Nat /\ 2 * k <= Want - Len(o) + 1 /\ k <= Len(b)
    BY <2>1, HalfOf DEF k
  <2>3. Take(b, k) \in Bytes /\ Len(Take(b, k)) = k /\ Drop(b, k) \in Bytes
    BY <2>1, <2>2, TakeDrop DEF Least
  <2>4. ready \in Bytes /\ Len(ready) <= Want + 1
    <3> DEFINE d == Doubled(Take(b, k))
    <3>1. d \in Bytes /\ Len(d) = 2 * k
      BY <2>3, DoubledBytes
    <3> HIDE DEF d
    <3>2. o \o d \in Bytes /\ Len(o \o d) = Len(o) + 2 * k
      BY <2>1, <3>1, JoinBytes
    <3>3. ready = o \o d
      BY DEF ready, d
    <3>4. Len(o) + 2 * k <= Want + 1
      BY <2>1, <2>2
    <3> QED  BY <3>2, <3>3, <3>4
  <2>5. /\ Take(ready, Want) \in Bytes /\ Len(Take(ready, Want)) <= Want
        /\ Drop(ready, Want) \in Bytes /\ Len(Drop(ready, Want)) <= 1
    BY <2>1, <2>4, TakeDrop DEF Least
  <2> DEFINE x == [node[n] EXCEPT !.buf = Drop(b, k), !.out = Drop(ready, Want)]
  <2>6. /\ x \in NodeState /\ x.produced = node[n].produced /\ x.failed = node[n].failed
        /\ x.out = Drop(ready, Want)
    <3> DEFINE u == Drop(b, k)
               v == Drop(ready, Want)
               s == node[n]
    <3>1. u \in Bytes /\ v \in Bytes /\ s \in NodeState
      BY <2>1, <2>3, <2>5
    <3> HIDE DEF u, v, s
    <3>2. /\ [s EXCEPT !.buf = u, !.out = v] \in NodeState
          /\ [s EXCEPT !.buf = u, !.out = v].produced = s.produced
          /\ [s EXCEPT !.buf = u, !.out = v].failed = s.failed
          /\ [s EXCEPT !.buf = u, !.out = v].out = v
      BY <3>1 DEF NodeState
    <3> QED  BY <3>2 DEF u, v, s
  <2>7. nodes = [node EXCEPT ![n] = x]
    BY <2>1 DEF nodes, b
  <2> HIDE DEF x
  <2>8. Kept(nodes)
    BY <1>1, <2>5, <2>6, <2>7, KeptChange
  <2>9. Top.acc \o Take(ready, Want) \in Bytes /\ Len(Top.acc \o Take(ready, Want)) <= Top.want
    BY <1>1, <2>5, MoreGiven
  <2>10. /\ f \in Request /\ f.n = Top.n /\ f.want = Top.want /\ f.at = "loop"
         /\ f.acc = Top.acc \o Take(ready, Want)
    BY <1>1, <2>9, TopFacts DEF Request, f
  <2> QED  BY <1>1, <1>5, <2>8, <2>9, <2>10, LoopStep
<1>6. CASE FailNode(n, "DATA")
  BY <1>1, <1>6, FailKeeps
<1> QED  BY <1>2, <1>3, <1>4, <1>5, <1>6

LEMMA PpmdStep ==
  ASSUME graph \in Graphs, PullInv(node, stack, ret, err), PullPpmd
  PROVE  PullInv(node', stack', ret', err')
<1> DEFINE n == Top.n
<1>1. ASSUME stack # <<>>, Want # 0, NEW nodes, Kept(nodes), NEW x \in Nat, Symbol(x, nodes)
      PROVE  PullInv(node', stack', ret', err')
  <2> DEFINE f == [Top EXCEPT !.acc = Append(@, x), !.at = "loop"]
  <2>1. Append(Top.acc, x) \in Bytes /\ Len(Append(Top.acc, x)) <= Top.want
    BY <1>1, MoreGiven
  <2>2. /\ f \in Request /\ f.n = Top.n /\ f.want = Top.want /\ f.at = "loop"
        /\ f.acc = Append(Top.acc, x)
    BY <1>1, <2>1, TopFacts DEF Request
  <2>3. Again(nodes, f)
    BY <1>1 DEF Symbol
  <2> HIDE DEF f
  <2> QED  BY <1>1, <2>1, <2>2, <2>3, LoopStep
<1>2. Garbage \in Nat
  BY DEF Garbage
<1>3. CASE Running("ppmd", "loop")
  <2>1. stack # <<>> /\ ret = NoRet /\ Kind(n) = "ppmd" /\ Kept(node)
    BY <1>3, KeptSame DEF Running
  <2>2. \/ Leave(n, node, Top.acc)
        \/ /\ Want # 0 /\ node[n].buf # <<>>
           /\ Symbol(Head(node[n].buf), [node EXCEPT ![n].buf = Tail(@)])
        \/ Want # 0 /\ Pull(In(n), InCap, node, "in")
        \/ Want # 0 /\ Symbol(Garbage, node)
        \/ FailNode(n, "DATA")
    BY <1>3, <2>1 DEF PullPpmd, NoRet, Failure
  <2>3. CASE Leave(n, node, Top.acc)
    BY <2>1, <2>3, LeaveStep
  <2>4. CASE /\ Want # 0 /\ node[n].buf # <<>>
             /\ Symbol(Head(node[n].buf), [node EXCEPT ![n].buf = Tail(@)])
    <3>1. Head(node[n].buf) \in Nat /\ Tail(node[n].buf) \in Bytes
      BY <2>1, <2>4, WantFacts, RestBytes
    <3> DEFINE x == [node[n] EXCEPT !.buf = Tail(node[n].buf)]
    <3>2. x \in NodeState /\ x.produced = node[n].produced /\ x.failed = node[n].failed
      BY <2>1, <3>1, TopFacts DEF NodeState
    <3>3. [node EXCEPT ![n].buf = Tail(@)] = [node EXCEPT ![n] = x]
      OBVIOUS
    <3> HIDE DEF x
    <3>4. Kept([node EXCEPT ![n] = x])
      BY <2>1, <3>2, KeptChange
    <3> QED  BY <1>1, <2>1, <2>4, <3>1, <3>3, <3>4
  <2>5. CASE Want # 0 /\ Pull(In(n), InCap, node, "in")
    <3>1. InCap \in Nat \ {0}
      BY ChainCapsAssumption
    <3>2. Len(Top.acc) < Top.want
      BY <2>1, <2>5, WantFacts
    <3> QED  BY <2>1, <2>5, <3>1, <3>2, PullKeeps
  <2>6. CASE Want # 0 /\ Symbol(Garbage, node)
    BY <1>1, <1>2, <2>1, <2>6
  <2>7. CASE FailNode(n, "DATA")
    BY <2>1, <2>7, FailKeeps
  <2> QED  BY <2>2, <2>3, <2>4, <2>5, <2>6, <2>7
<1>4. CASE stack # <<>> /\ ret = Failure /\ Kind(Top.n) = "ppmd"
  <2>1. \/ Symbol(Garbage, [node EXCEPT ![n].failed = TRUE])
        \/ FailNode(n, "DATA")
    BY <1>4 DEF PullPpmd, Running, NoRet, Failure
  <2>2. CASE Symbol(Garbage, [node EXCEPT ![n].failed = TRUE])
    <3> DEFINE x == [node[n] EXCEPT !.failed = TRUE]
    <3>1. x \in NodeState /\ x.produced = node[n].produced
      BY <1>4, TopFacts DEF NodeState
    <3>2. [node EXCEPT ![n].failed = TRUE] = [node EXCEPT ![n] = x]
      OBVIOUS
    <3>3. err # "ok"
      BY <1>4 DEF PullInv
    <3> HIDE DEF x
    <3>4. Kept([node EXCEPT ![n] = x])
      BY <1>4, <3>1, <3>3, KeptChange
    <3>5. Want # 0
      <4>1. Len(Top.acc) < Top.want
        BY <1>4, TopFacts DEF PullInv, Answer, Top, InHand, Waits, Failure, NoRet
      <4> QED  BY <1>4, <4>1, WantFacts
    <3> QED  BY <1>1, <1>2, <1>4, <2>2, <3>2, <3>4, <3>5
  <2>3. CASE FailNode(n, "DATA")
    BY <1>4, <2>3, FailKeeps
  <2> QED  BY <2>1, <2>2, <2>3
<1> QED  BY <1>3, <1>4 DEF PullPpmd

\* What a filter holds only moves between its parts.
LEMMA FilterChange ==
  ASSUME graph \in Graphs, PullInv(node, stack, ret, err), stack # <<>>,
         ret = NoRet, Kind(Top.n) = "filter",
         NEW x \in NodeState, x.produced = node[Top.n].produced,
         x.failed = node[Top.n].failed, Holds(x) = Holds(node[Top.n])
  PROVE  Kept([node EXCEPT ![Top.n] = x]) /\ [node EXCEPT ![Top.n] = x][Top.n] = x
<1>1. Arrived(Top.n, stack, ret) = 0
  BY DEF Arrived, NoRet
<1>2. Holds(node[Top.n]) \in Nat
  BY TopFacts, StateFacts
<1> QED  BY <1>1, <1>2, KeptChange

\* A filter that has nothing converted left turns to its carry.
LEMMA ConvertStep ==
  ASSUME graph \in Graphs, PullInv(node, stack, ret, err), stack # <<>>,
         ret = NoRet, Kind(Top.n) = "filter",
         NEW x \in NodeState, x.produced = node[Top.n].produced,
         x.failed = node[Top.n].failed, Holds(x) = Holds(node[Top.n]), x.out = <<>>,
         Convert(Top.n, [node EXCEPT ![Top.n] = x])
  PROVE  PullInv(node', stack', ret', err')
<1> DEFINE n == Top.n
           nodes == [node EXCEPT ![n] = x]
           b == nodes[n].buf
           stay == [Top EXCEPT !.at = "loop"]
           after(k) == [nodes EXCEPT ![n].out = Take(b, k), ![n].buf = Drop(b, k)]
<1>1. /\ Kept(nodes) /\ nodes[n] = x /\ node \in [Nodes -> NodeState] /\ n \in Nodes
  BY FilterChange, TopFacts DEF PullInv
<1>2. b = x.buf /\ b \in Bytes /\ Len(b) \in Nat
  BY <1>1 DEF NodeState, Bytes
<1>3. stay \in Request /\ stay.n = n /\ stay.want = Top.want /\ stay.at = "loop" /\ Len(stay.acc) <= Top.want
  BY WantFacts, TopFacts, SMTT(30) DEF Request
<1>4. \/ Leave(n, [nodes EXCEPT ![n].finished = TRUE], Top.acc)
      \/ \E k \in Nat : Again(after(k), stay)
      \/ FailNode(n, "DATA")
      \/ Again(nodes, stay)
  <2>1. CASE b = <<>>
    BY <2>1 DEF Convert
  <2>2. CASE b # <<>>
    <3> DEFINE low == IF Len(b) > LookAhead THEN Len(b) - LookAhead ELSE 0
    <3>1. low \in Nat
      <4> DEFINE l == Len(b)
      <4>1. l \in Nat /\ LookAhead \in Nat
        BY <1>2, ChainCapsAssumption
      <4> HIDE DEF l
      <4>2. (IF l > LookAhead THEN l - LookAhead ELSE 0) \in Nat
        BY <4>1
      <4> QED  BY <4>2 DEF l
    <3> HIDE DEF low
    <3>2. \E k \in low .. Len(b) :
            \/ Again(after(k), stay) \/ Again(after(Len(b)), stay)
            \/ FailNode(n, "DATA") \/ Again(nodes, stay)
      BY <2>2 DEF Convert, low
    <3>3. \A k \in low .. Len(b) : k \in Nat
      BY <1>2, <3>1
    <3> QED  BY <1>2, <3>2, <3>3
  <2> QED  BY <2>1, <2>2
<1>5. CASE Leave(n, [nodes EXCEPT ![n].finished = TRUE], Top.acc)
  <2> DEFINE y == [x EXCEPT !.finished = TRUE]
  <2>1. y \in NodeState /\ y.produced = x.produced /\ y.failed = x.failed /\ Holds(y) = Holds(x)
    BY DEF NodeState, Holds
  <2>2. [nodes EXCEPT ![n].finished = TRUE] = [node EXCEPT ![n] = y]
    BY <1>1
  <2> HIDE DEF y
  <2>3. Kept([node EXCEPT ![n] = y])
    BY <2>1, FilterChange
  <2> QED  BY <1>5, <2>2, <2>3, LeaveStep
<1>6. CASE \E k \in Nat : Again(after(k), stay)
  <2> PICK k \in Nat : Again(after(k), stay)
    BY <1>6
  <2> DEFINE y == [x EXCEPT !.out = Take(b, k), !.buf = Drop(b, k)]
  <2>1. /\ Take(b, k) \in Bytes /\ Drop(b, k) \in Bytes
        /\ Len(Take(b, k)) + Len(Drop(b, k)) = Len(x.out) + Len(x.buf)
    <3>1. /\ Take(b, k) \in Bytes /\ Drop(b, k) \in Bytes
          /\ Len(Take(b, k)) + Len(Drop(b, k)) = Len(b)
      BY <1>2, TakeDrop, SMTT(30) DEF Least
    <3>2. Len(x.out) = 0
      BY EmptySeq
    <3> QED  BY <1>2, <3>1, <3>2
  <2>2. /\ y \in NodeState /\ y.produced = x.produced /\ y.failed = x.failed
        /\ y.pc = x.pc /\ y.off = x.off /\ y.out = Take(b, k) /\ y.buf = Drop(b, k)
    BY <2>1 DEF NodeState
  <2>3. after(k) = [node EXCEPT ![n] = y]
    BY <1>1
  <2> HIDE DEF y, b
  <2>4. Holds(y) = Holds(x)
    <3>1. x.pc \in Nat /\ x.off \in Nat /\ Len(x.out) \in Nat /\ Len(x.buf) \in Nat
      BY DEF NodeState, Bytes
    <3>2. Len(Take(b, k)) \in Nat /\ Len(Drop(b, k)) \in Nat
      BY <2>1 DEF Bytes
    <3> QED  BY <2>1, <2>2, <3>1, <3>2 DEF Holds
  <2>5. Kept([node EXCEPT ![n] = y])
    BY <2>2, <2>4, FilterChange
  <2>6. Again([node EXCEPT ![n] = y], stay)
    BY <2>3
  <2> HIDE DEF stay
  <2> QED  BY <1>3, <2>5, <2>6, LoopStep
<1>7. CASE FailNode(n, "DATA")
  BY <1>7, FailKeeps
<1>8. CASE Again(nodes, stay)
  BY <1>1, <1>3, <1>8, LoopStep
<1> QED  BY <1>4, <1>5, <1>6, <1>7, <1>8

LEMMA FilterStep ==
  ASSUME graph \in Graphs, PullInv(node, stack, ret, err), PullFilter
  PROVE  PullInv(node', stack', ret', err')
<1> DEFINE n == Top.n
           o == node[n].out
           k == Least(Len(o), Want)
           later == node[n].off + k
           passed == node[n].pc + node[n].off
           y == [node[n] EXCEPT !.out = Drop(o, k), !.off = later]
           z == [node[n] EXCEPT !.pc = passed, !.off = 0]
           f == [Top EXCEPT !.acc = @ \o Take(o, k)]
<1>1. /\ stack # <<>> /\ ret = NoRet /\ Kind(n) = "filter" /\ Kept(node)
      /\ Top.at \in {"loop", "fresh"}
  BY KeptSame DEF PullFilter, Running
<1>2. /\ node \in [Nodes -> NodeState] /\ n \in Nodes /\ node[n] \in NodeState
      /\ node[n].pc \in Nat /\ node[n].off \in Nat /\ o \in Bytes /\ node[n].buf \in Bytes
      /\ Len(o) \in Nat /\ Len(node[n].buf) \in Nat
  BY <1>1, TopFacts, WantFacts DEF PullInv
<1>3. Retired(n) = [node EXCEPT ![n] = z]
  BY <1>2 DEF Retired
<1>4. /\ z \in NodeState /\ z.produced = node[n].produced /\ z.failed = node[n].failed
      /\ Holds(z) = Holds(node[n]) /\ z.out = o /\ z.buf = node[n].buf
  <2>1. /\ z \in NodeState /\ z.produced = node[n].produced /\ z.failed = node[n].failed
        /\ z.out = o /\ z.buf = node[n].buf /\ z.pc = passed /\ z.off = 0
    <3>1. passed \in Nat
      BY <1>2
    <3> HIDE DEF passed
    <3> QED  BY <1>2, <3>1 DEF NodeState
  <2> HIDE DEF z
  <2>2. Holds(z) = Holds(node[n])
    BY <1>2, <2>1 DEF Holds
  <2> QED  BY <2>1, <2>2
<1>5. \/ Leave(n, node, Top.acc)
      \/ /\ Top.at = "loop" /\ Want # 0
         /\ Again([node EXCEPT ![n].out = Drop(o, k), ![n].off = @ + k], f)
      \/ /\ Want # 0 /\ o = <<>> /\ Len(node[n].buf) < FilterCap
         /\ Pull(In(n), FilterCap - Len(node[n].buf), Retired(n), "in")
      \/ o = <<>> /\ Convert(n, Retired(n))
      \/ Top.at = "fresh" /\ Convert(n, node)
  BY DEF PullFilter, Running
<1> HIDE DEF z
<1>6. CASE Leave(n, node, Top.acc)
  BY <1>1, <1>6, LeaveStep
<1>7. CASE /\ Top.at = "loop" /\ Want # 0
           /\ Again([node EXCEPT ![n].out = Drop(o, k), ![n].off = @ + k], f)
  <2>1. k \in Nat /\ k <= Len(o) /\ k <= Want
    BY <1>1, <1>2, WantFacts DEF Least
  <2>2. Take(o, k) \in Bytes /\ Len(Take(o, k)) = k /\ Drop(o, k) \in Bytes /\ Len(Drop(o, k)) = Len(o) - k
    BY <1>2, <2>1, TakeDrop DEF Least
  <2>3. [node EXCEPT ![n].out = Drop(o, k), ![n].off = @ + k] = [node EXCEPT ![n] = y]
    BY <1>2
  <2> HIDE DEF k
  <2>4. /\ y \in NodeState /\ y.produced = node[n].produced /\ y.failed = node[n].failed
        /\ y.out = Drop(o, k) /\ y.off = later /\ y.pc = node[n].pc
        /\ y.buf = node[n].buf
    <3>1. later \in Nat
      BY <1>2, <2>1
    <3> HIDE DEF later
    <3> QED  BY <1>2, <2>2, <3>1 DEF NodeState
  <2>5. Top.acc \o Take(o, k) \in Bytes /\ Len(Top.acc \o Take(o, k)) <= Top.want
    BY <1>1, <2>1, <2>2, MoreGiven
  <2>6. /\ f \in Request /\ f.n = Top.n /\ f.want = Top.want /\ f.at = "loop"
        /\ f.acc = Top.acc \o Take(o, k)
    BY <1>1, <1>7, <2>5, TopFacts DEF Request
  <2>7. Again([node EXCEPT ![n] = y], f)
    BY <1>7, <2>3 DEF k
  <2> HIDE DEF y, f, o
  <2>8. Holds(y) = Holds(node[n])
    BY <1>2, <2>1, <2>2, <2>4 DEF Holds, o
  <2>9. Kept([node EXCEPT ![n] = y])
    BY <1>1, <2>4, <2>8, FilterChange
  <2> QED  BY <1>1, <2>5, <2>6, <2>7, <2>9, LoopStep
<1>8. CASE /\ Want # 0 /\ o = <<>> /\ Len(node[n].buf) < FilterCap
           /\ Pull(In(n), FilterCap - Len(node[n].buf), Retired(n), "in")
  <2>1. FilterCap - Len(node[n].buf) \in Nat \ {0}
    <3> DEFINE l == Len(node[n].buf)
    <3>1. l \in Nat /\ l < FilterCap
      BY <1>2, <1>8
    <3>2. FilterCap \in Nat
      BY ChainCapsAssumption
    <3> HIDE DEF l
    <3>3. FilterCap - l \in Nat \ {0}
      BY <3>1, <3>2
    <3> QED  BY <3>3 DEF l
  <2>2. Len(Top.acc) < Top.want
    BY <1>1, <1>8, WantFacts
  <2>3. Kept([node EXCEPT ![n] = z]) /\ [node EXCEPT ![n] = z][n].out = <<>>
    BY <1>1, <1>4, <1>8, FilterChange
  <2>4. Pull(In(n), FilterCap - Len(node[n].buf), [node EXCEPT ![n] = z], "in")
    BY <1>3, <1>8
  <2> QED  BY <1>1, <2>1, <2>2, <2>3, <2>4, PullKeeps
<1>9. CASE o = <<>> /\ Convert(n, Retired(n))
  <2>1. Convert(n, [node EXCEPT ![n] = z])
    BY <1>3, <1>9
  <2> QED  BY <1>1, <1>4, <1>9, <2>1, ConvertStep
<1>10. CASE Top.at = "fresh" /\ Convert(n, node)
  <2>1. o = <<>>
    BY <1>1, <1>10, TopFacts DEF InHand
  <2>2. node = [node EXCEPT ![n] = node[n]]
    BY <1>2
  <2>3. Convert(n, [node EXCEPT ![n] = node[n]])
    BY <1>10, <2>2
  <2> QED  BY <1>1, <1>2, <2>1, <2>3, ConvertStep
<1> QED  BY <1>5, <1>6, <1>7, <1>8, <1>9, <1>10

LEMMA AesStep ==
  ASSUME graph \in Graphs, PullInv(node, stack, ret, err), PullAes
  PROVE  PullInv(node', stack', ret', err')
<1> DEFINE n == Top.n
           o == node[n].out
           b == node[n].buf
           f == [Top EXCEPT !.acc = @ \o Take(o, Want)]
<1>1. /\ stack # <<>> /\ ret = NoRet /\ Kind(n) = "aes" /\ Kept(node) /\ Top.at = "loop"
  BY KeptSame DEF PullAes, Running
<1>2. /\ node \in [Nodes -> NodeState] /\ n \in Nodes /\ node[n] \in NodeState
      /\ o \in Bytes /\ b \in Bytes /\ Len(o) \in Nat /\ Len(b) \in Nat /\ Want \in Nat
  BY <1>1, TopFacts, WantFacts DEF PullInv
<1>3. \/ Leave(n, node, Top.acc)
      \/ Again([node EXCEPT ![n].out = Drop(o, Want)], f)
      \/ Again([node EXCEPT ![n].out = Take(b, Block), ![n].buf = Drop(b, Block)], Top)
      \/ FailNode(n, "DATA")
      \/ Want # 0 /\ Len(b) < Block /\ Pull(In(n), InCap - Len(b), node, "in")
  <2>1. Len(b) >= Block \/ Len(b) < Block
    BY <1>2, ChainCapsAssumption
  <2> QED  BY <2>1 DEF PullAes
<1>4. ASSUME NEW p \in Bytes, NEW q \in Bytes,
             NEW g \in Request, g.n = Top.n, g.want = Top.want, g.at = "loop",
             Len(g.acc) <= Top.want,
             Again([node EXCEPT ![n] = [node[n] EXCEPT !.out = p, !.buf = q]], g)
      PROVE  PullInv(node', stack', ret', err')
  <2> DEFINE x == [node[n] EXCEPT !.out = p, !.buf = q]
  <2>1. x \in NodeState /\ x.produced = node[n].produced /\ x.failed = node[n].failed
    BY <1>2 DEF NodeState
  <2> HIDE DEF x
  <2>2. Kept([node EXCEPT ![n] = x])
    BY <1>1, <2>1, KeptChange
  <2> QED  BY <1>1, <1>4, <2>2, LoopStep DEF x
<1>5. CASE Leave(n, node, Top.acc)
  BY <1>1, <1>5, LeaveStep
<1>6. CASE Again([node EXCEPT ![n].out = Drop(o, Want)], f)
  <2>1. /\ Take(o, Want) \in Bytes /\ Len(Take(o, Want)) <= Want /\ Drop(o, Want) \in Bytes
    BY <1>2, TakeDrop DEF Least
  <2>2. Top.acc \o Take(o, Want) \in Bytes /\ Len(Top.acc \o Take(o, Want)) <= Top.want
    BY <1>1, <2>1, MoreGiven
  <2>3. /\ f \in Request /\ f.n = Top.n /\ f.want = Top.want /\ f.at = "loop"
        /\ f.acc = Top.acc \o Take(o, Want)
    BY <1>1, <2>2, TopFacts DEF Request
  <2>4. [node EXCEPT ![n].out = Drop(o, Want)] = [node EXCEPT ![n] = [node[n] EXCEPT !.out = Drop(o, Want)]]
    OBVIOUS
  <2>5. [node[n] EXCEPT !.out = Drop(o, Want)] = [node[n] EXCEPT !.out = Drop(o, Want), !.buf = b]
    BY <1>2 DEF NodeState
  <2> HIDE DEF f
  <2> QED  BY <1>2, <1>4, <1>6, <2>1, <2>2, <2>3, <2>4, <2>5
<1>7. CASE Again([node EXCEPT ![n].out = Take(b, Block), ![n].buf = Drop(b, Block)], Top)
  <2>1. Take(b, Block) \in Bytes /\ Drop(b, Block) \in Bytes
    BY <1>2, TakeDrop, ChainCapsAssumption
  <2>2. [node EXCEPT ![n].out = Take(b, Block), ![n].buf = Drop(b, Block)]
          = [node EXCEPT ![n] = [node[n] EXCEPT !.out = Take(b, Block), !.buf = Drop(b, Block)]]
    BY <1>2
  <2>3. Top \in Request /\ Len(Top.acc) <= Top.want
    BY <1>1, TopFacts DEF InHand
  <2> QED  BY <1>1, <1>4, <1>7, <2>1, <2>2, <2>3
<1>8. CASE FailNode(n, "DATA")
  BY <1>1, <1>8, FailKeeps
<1>9. CASE Want # 0 /\ Len(b) < Block /\ Pull(In(n), InCap - Len(b), node, "in")
  <2>1. InCap - Len(b) \in Nat \ {0}
    BY <1>2, <1>9, ChainCapsAssumption, SMTT(30)
  <2>2. Len(Top.acc) < Top.want
    BY <1>1, <1>9, WantFacts
  <2> QED  BY <1>1, <1>9, <2>1, <2>2, PullKeeps
<1> QED  BY <1>3, <1>5, <1>6, <1>7, <1>8, <1>9

\* A step of the loop of a node that is neither LZMA nor a filter.
LEMMA PlainStep ==
  ASSUME graph \in Graphs, PullInv(node, stack, ret, err), stack # <<>>,
         Kind(Top.n) \notin {"lzma", "filter"},
         NEW x \in NodeState, x.produced = node[Top.n].produced,
         x.failed = node[Top.n].failed,
         NEW f \in Request, f.n = Top.n, f.want = Top.want, Len(f.acc) <= Top.want,
         \/ f.at \in {"loop", "decode"}
         \/ f.at = "fresh" /\ Len(f.acc) < Top.want,
         Again([node EXCEPT ![Top.n] = x], f)
  PROVE  PullInv(node', stack', ret', err')
<1>1. Kept([node EXCEPT ![Top.n] = x])
  BY KeptChange
<1> QED  BY <1>1, LoopStep

LEMMA PrepareStep ==
  ASSUME graph \in Graphs, PullInv(node, stack, ret, err), PrepareBcj2
  PROVE  PullInv(node', stack', ret', err')
<1> DEFINE n == Top.n
           k == Top.k
           lack == graph.size[SideNode(n, k)] - Len(node[n].side[k])
           f == [Top EXCEPT !.k = k + 1]
           x == [node[n] EXCEPT !.prepared = TRUE]
<1>1. /\ stack # <<>> /\ ret = NoRet /\ Kind(n) = "bcj2" /\ Kept(node) /\ Top.at = "loop"
  BY KeptSame DEF PrepareBcj2, Running
<1>2. /\ node \in [Nodes -> NodeState] /\ n \in Nodes /\ node[n] \in NodeState
      /\ Top \in Request /\ k \in 1 .. 3 /\ Len(Top.acc) <= Top.want
  BY <1>1, TopFacts DEF PullInv, InHand, Request
<1>3. lack \in Int
  <2>1. graph.size[SideNode(n, k)] \in Nat
    <3>1. SideNode(n, k) \in Nodes
      BY <1>1, <1>2, GraphFacts
    <3> QED  BY <3>1, GraphFacts
  <2>2. node[n].side[k] \in Bytes
    <3> DEFINE s == node[n]
    <3>1. s \in NodeState
      BY <1>2
    <3> HIDE DEF s
    <3>2. s.side \in [1 .. 3 -> Bytes]
      BY <3>1 DEF NodeState
    <3>3. s.side[k] \in Bytes
      BY <1>2, <3>2
    <3> QED  BY <3>3 DEF s
  <2>3. Len(node[n].side[k]) \in Nat
    <3> DEFINE d == node[n].side[k]
    <3>1. d \in Bytes
      BY <2>2
    <3> HIDE DEF d
    <3>2. Len(d) \in Nat
      BY <3>1 DEF Bytes
    <3> QED  BY <3>2 DEF d
  <2> DEFINE l == Len(node[n].side[k])
             size == graph.size[SideNode(n, k)]
  <2>4. l \in Nat /\ size \in Nat
    BY <2>1, <2>3
  <2> HIDE DEF l, size
  <2>5. size - l \in Int
    BY <2>4
  <2> QED  BY <2>5 DEF l, size
<1>4. \/ FailNode(n, "LIMIT")
      \/ lack > 0 /\ Pull(SideNode(n, k), lack, node, "side")
      \/ k < 3 /\ Again(node, f)
      \/ Again([node EXCEPT ![n].prepared = TRUE], Top)
  BY DEF PrepareBcj2
<1>5. CASE FailNode(n, "LIMIT")
  BY <1>1, <1>5, FailKeeps
<1>6. CASE lack > 0 /\ Pull(SideNode(n, k), lack, node, "side")
  <2>1. lack \in Nat \ {0}
    BY <1>3, <1>6
  <2> HIDE DEF lack
  <2> QED  BY <1>1, <1>6, <2>1, PullKeeps
<1>7. CASE k < 3 /\ Again(node, f)
  <2>1. k + 1 \in 1 .. 3
    BY <1>2, <1>7
  <2>2. f \in Request /\ f.n = Top.n /\ f.want = Top.want /\ f.at = "loop" /\ f.acc = Top.acc
    BY <1>1, <1>2, <2>1 DEF Request
  <2> HIDE DEF f
  <2> QED  BY <1>1, <1>2, <1>7, <2>2, LoopStep
<1>8. CASE Again([node EXCEPT ![n].prepared = TRUE], Top)
  <2>1. x \in NodeState /\ x.produced = node[n].produced /\ x.failed = node[n].failed
    BY <1>2 DEF NodeState
  <2>2. [node EXCEPT ![n].prepared = TRUE] = [node EXCEPT ![n] = x]
    OBVIOUS
  <2> HIDE DEF x
  <2> QED  BY <1>1, <1>2, <1>8, <2>1, <2>2, PlainStep
<1> QED  BY <1>4, <1>5, <1>6, <1>7, <1>8

LEMMA DecodeStep ==
  ASSUME graph \in Graphs, PullInv(node, stack, ret, err), stack # <<>>, ret = NoRet,
         Kind(Top.n) = "bcj2", Top.at = "decode", DecodeBcj2(Top.n)
  PROVE  PullInv(node', stack', ret', err')
<1> DEFINE n == Top.n
           s == node[n]
           f == [Top EXCEPT !.at = "loop"]
           more(x) == [Top EXCEPT !.acc = Append(@, x)]
           k == Head(s.need)
           y == [s EXCEPT !.need = Tail(s.need), !.side = [s.side EXCEPT ![k] = Tail(s.side[k])]]
           z == [s EXCEPT !.buf = Tail(s.buf), !.need = Branch(Head(s.buf))]
<1>1. /\ node \in [Nodes -> NodeState] /\ n \in Nodes /\ s \in NodeState /\ Kept(node)
      /\ Top \in Request /\ Len(Top.acc) <= Top.want
  BY KeptSame, TopFacts DEF PullInv, InHand
<1>2. /\ s.buf \in Bytes /\ s.need \in Seq(1 .. 3) /\ s.side \in [1 .. 3 -> Bytes]
  BY <1>1 DEF NodeState
<1>3. /\ f \in Request /\ f.n = n /\ f.want = Top.want /\ f.at = "loop" /\ f.acc = Top.acc
  BY <1>1 DEF Request
<1>4. ASSUME Want # 0, NEW x \in Nat
      PROVE  /\ more(x) \in Request /\ more(x).n = n /\ more(x).want = Top.want
             /\ more(x).at = "decode" /\ Len(more(x).acc) <= Top.want
  <2> DEFINE a == Append(Top.acc, x)
  <2>1. a \in Bytes /\ Len(a) <= Top.want
    BY <1>4, MoreGiven
  <2> HIDE DEF a
  <2>2. [Top EXCEPT !.acc = a] \in Request /\ [Top EXCEPT !.acc = a].n = n
        /\ [Top EXCEPT !.acc = a].want = Top.want /\ [Top EXCEPT !.acc = a].at = "decode"
        /\ [Top EXCEPT !.acc = a].acc = a
    BY <1>1, <2>1 DEF Request
  <2>3. more(x) = [Top EXCEPT !.acc = a]
    BY DEF a
  <2> HIDE DEF more
  <2> QED  BY <2>1, <2>2, <2>3
<1>5. \/ Leave(n, node, Top.acc)
      \/ Again(node, f)
      \/ /\ s.need # <<>> /\ s.side[k] # <<>> /\ (k = 3 \/ Want # 0)
         /\ Again([node EXCEPT ![n].need = Tail(@), ![n].side[k] = Tail(@)],
                  IF k = 3 THEN Top ELSE more(Head(s.side[k])))
      \/ /\ s.buf # <<>> /\ Want # 0
         /\ Again([node EXCEPT ![n].buf = Tail(@), ![n].need = Branch(Head(s.buf))],
                  more(Head(s.buf)))
  BY DEF DecodeBcj2
<1>6. CASE Leave(n, node, Top.acc)
  BY <1>1, <1>6, LeaveStep
<1>7. CASE Again(node, f)
  <2> HIDE DEF f
  <2> QED  BY <1>1, <1>3, <1>7, LoopStep
<1>8. CASE /\ s.need # <<>> /\ s.side[k] # <<>> /\ (k = 3 \/ Want # 0)
           /\ Again([node EXCEPT ![n].need = Tail(@), ![n].side[k] = Tail(@)],
                    IF k = 3 THEN Top ELSE more(Head(s.side[k])))
  <2>1. k \in 1 .. 3 /\ Tail(s.need) \in Seq(1 .. 3)
    BY <1>2, <1>8, HeadTailProperties
  <2> HIDE DEF k
  <2>2. Head(s.side[k]) \in Nat /\ Tail(s.side[k]) \in Bytes
    BY <1>2, <1>8, <2>1, RestBytes
  <2>3. [s.side EXCEPT ![k] = Tail(s.side[k])] \in [1 .. 3 -> Bytes]
    BY <1>2, <2>1, <2>2
  <2>4. y \in NodeState /\ y.produced = s.produced /\ y.failed = s.failed
    BY <1>1, <2>1, <2>3 DEF NodeState
  <2>5. [node EXCEPT ![n].need = Tail(@), ![n].side[k] = Tail(@)] = [node EXCEPT ![n] = y]
    BY <1>1 DEF NodeState
  <2> DEFINE g == IF k = 3 THEN Top ELSE more(Head(s.side[k]))
  <2>6. g \in Request /\ g.n = n /\ g.want = Top.want /\ g.at = "decode" /\ Len(g.acc) <= Top.want
    <3> HIDE DEF more
    <3> QED  BY <1>1, <1>4, <1>8, <2>2
  <2>7. Again([node EXCEPT ![n] = y], g)
    BY <1>8, <2>5
  <2> HIDE DEF y, g
  <2> QED  BY <2>4, <2>6, <2>7, PlainStep
<1>9. CASE /\ s.buf # <<>> /\ Want # 0
           /\ Again([node EXCEPT ![n].buf = Tail(@), ![n].need = Branch(Head(s.buf))],
                    more(Head(s.buf)))
  <2>1. Head(s.buf) \in Nat /\ Tail(s.buf) \in Bytes
    BY <1>2, <1>9, RestBytes
  <2>2. Branch(Head(s.buf)) \in Seq(1 .. 3)
    <3>1. <<3, 1>> \in Seq(1 .. 3) /\ <<3, 2>> \in Seq(1 .. 3) /\ <<>> \in Seq(1 .. 3)
      OBVIOUS
    <3> QED  BY <3>1 DEF Branch
  <2>3. z \in NodeState /\ z.produced = s.produced /\ z.failed = s.failed
    BY <1>1, <2>1, <2>2 DEF NodeState
  <2>4. [node EXCEPT ![n].buf = Tail(@), ![n].need = Branch(Head(s.buf))] = [node EXCEPT ![n] = z]
    BY <1>1 DEF NodeState
  <2> DEFINE g == more(Head(s.buf))
  <2>5. g \in Request /\ g.n = n /\ g.want = Top.want /\ g.at = "decode" /\ Len(g.acc) <= Top.want
    BY <1>4, <1>9, <2>1
  <2>6. Again([node EXCEPT ![n] = z], g)
    BY <1>9, <2>4
  <2> HIDE DEF z, g
  <2> QED  BY <2>3, <2>5, <2>6, PlainStep
<1> QED  BY <1>5, <1>6, <1>7, <1>8, <1>9

LEMMA Bcj2Step ==
  ASSUME graph \in Graphs, PullInv(node, stack, ret, err), PullBcj2
  PROVE  PullInv(node', stack', ret', err')
<1> DEFINE n == Top.n
           f == [Top EXCEPT !.at = "decode"]
<1>1. /\ stack # <<>> /\ ret = NoRet /\ Kind(n) = "bcj2" /\ Kept(node)
  BY KeptSame DEF PullBcj2, Running
<1>2. f \in Request /\ f.n = n /\ f.want = Top.want /\ f.at = "decode" /\ f.acc = Top.acc
      /\ Len(Top.acc) <= Top.want
  BY <1>1, TopFacts DEF InHand, Request
<1>3. \/ Leave(n, node, Top.acc)
      \/ /\ Want # 0 /\ Len(node[n].buf) <= MainKeep
         /\ Pull(In(n), MainCap - Len(node[n].buf), node, "in")
      \/ Again(node, f)
      \/ Top.at = "decode" /\ DecodeBcj2(n)
  BY DEF PullBcj2, BeginDecode, Running
<1>4. CASE Leave(n, node, Top.acc)
  BY <1>1, <1>4, LeaveStep
<1>5. CASE /\ Want # 0 /\ Len(node[n].buf) <= MainKeep
           /\ Pull(In(n), MainCap - Len(node[n].buf), node, "in")
  <2>1. MainCap - Len(node[n].buf) \in Nat \ {0}
    <3> DEFINE l == Len(node[n].buf)
    <3>1. l \in Nat /\ l <= MainKeep /\ MainKeep \in Nat /\ MainCap \in Nat /\ MainKeep < MainCap
      BY <1>1, <1>5, WantFacts, ChainCapsAssumption
    <3> HIDE DEF l
    <3>2. MainCap - l \in Nat \ {0}
      BY <3>1
    <3> QED  BY <3>2 DEF l
  <2>2. Len(Top.acc) < Top.want
    BY <1>1, <1>5, WantFacts
  <2> QED  BY <1>1, <1>5, <2>1, <2>2, PullKeeps
<1>6. CASE Again(node, f)
  <2> HIDE DEF f
  <2> QED  BY <1>1, <1>2, <1>6, LoopStep
<1>7. CASE Top.at = "decode" /\ DecodeBcj2(n)
  BY <1>1, <1>7, DecodeStep
<1> QED  BY <1>3, <1>4, <1>5, <1>6, <1>7

LEMMA StoreStep ==
  ASSUME graph \in Graphs, PullInv(node, stack, ret, err), StoreInput
  PROVE  PullInv(node', stack', ret', err')
<1> DEFINE n == Top.n
           d == ret.data
           at == IF Kind(n) \in {"filter", "bcj2"} THEN "fresh" ELSE "loop"
           f == [Top EXCEPT !.at = at]
           g == [Top EXCEPT !.at = "loop"]
           grown == node[n].buf \o d
           ended == (d = <<>>)
           x == [node[n] EXCEPT !.buf = grown, !.eof = ended]
           sides == [node[n].side EXCEPT ![Top.k] = node[n].side[Top.k] \o d]
           y == [node[n] EXCEPT !.side = sides]
<1>1. /\ stack # <<>> /\ ret.rc = "ok" /\ Kind(n) # "copy"
  BY DEF StoreInput
<1>2. /\ d \in Bytes /\ Top.at \in {"in", "side"}
  BY <1>1 DEF PullInv, Answer, Top, Waits, NoRet, Failure, Got
<1>3. /\ node \in [Nodes -> NodeState] /\ n \in Nodes /\ node[n] \in NodeState
      /\ Top \in Request /\ Top.k \in 1 .. 3 /\ Len(Top.acc) <= Top.want /\ InHand(Top, node)
      /\ node[n].side \in [1 .. 3 -> Bytes]
      /\ node[n].buf \in Bytes /\ Len(d) \in Nat /\ Len(node[n].buf) \in Nat
      /\ Len(node[n].out) \in Nat /\ node[n].pc \in Nat /\ node[n].off \in Nat
  <2>1. /\ node \in [Nodes -> NodeState] /\ n \in Nodes /\ node[n] \in NodeState
        /\ Top \in Request /\ InHand(Top, node)
    BY <1>1, TopFacts DEF PullInv
  <2>2. Top.k \in 1 .. 3 /\ Len(Top.acc) <= Top.want /\ node[n].side \in [1 .. 3 -> Bytes]
    BY <2>1 DEF InHand, Request, NodeState
  <2>3. Len(d) \in Nat
    BY <1>2 DEF Bytes
  <2> QED  BY <1>1, <2>1, <2>2, <2>3, WantFacts
<1>4. \/ FailNode(n, "DATA")
      \/ /\ Top.at = "side"
         /\ Again([node EXCEPT ![n].side[Top.k] = @ \o d], g)
      \/ Top.at # "side" /\ Again(Refilled(n, d), f)
  BY DEF StoreInput
<1>5. CASE FailNode(n, "DATA")
  BY <1>1, <1>5, FailKeeps
<1>6. CASE Top.at = "side" /\ Again([node EXCEPT ![n].side[Top.k] = @ \o d], g)
  <2>1. Kind(n) = "bcj2"
    BY <1>3, <1>6 DEF InHand
  <2>2. sides \in [1 .. 3 -> Bytes]
    <3>1. node[n].side[Top.k] \o d \in Bytes
      BY <1>2, <1>3, JoinBytes
    <3> QED  BY <1>3, <3>1
  <2>3. [node EXCEPT ![n].side[Top.k] = @ \o d] = [node EXCEPT ![n] = y]
    BY <1>3 DEF NodeState
  <2>4. y \in NodeState /\ y.produced = node[n].produced /\ y.failed = node[n].failed
    <3> HIDE DEF sides
    <3> QED  BY <1>3, <2>2 DEF NodeState
  <2>5. g \in Request /\ g.n = n /\ g.want = Top.want /\ g.at = "loop" /\ g.acc = Top.acc
    BY <1>3 DEF Request
  <2>6. Again([node EXCEPT ![n] = y], g)
    BY <1>6, <2>3
  <2> HIDE DEF y, g
  <2> QED  BY <1>1, <1>3, <2>1, <2>4, <2>5, <2>6, PlainStep
<1>7. CASE Top.at # "side" /\ Again(Refilled(n, d), f)
  <2>1. grown \in Bytes /\ Len(grown) = Len(node[n].buf) + Len(d) /\ ended \in BOOLEAN
    BY <1>2, <1>3, JoinBytes
  <2>2. Refilled(n, d) = [node EXCEPT ![n] = x]
    BY <1>3 DEF Refilled
  <2>3. /\ x \in NodeState /\ x.produced = node[n].produced /\ x.failed = node[n].failed
        /\ x.out = node[n].out /\ x.pc = node[n].pc /\ x.off = node[n].off /\ x.buf = grown
    <3> HIDE DEF grown, ended
    <3> QED  BY <1>3, <2>1 DEF NodeState
  <2> HIDE DEF x
  <2>4. Holds(x) = Holds(node[n]) + Arrived(n, stack, ret)
    <3>1. Arrived(n, stack, ret) = Len(d)
      BY <1>1 DEF Arrived, Top
    <3> HIDE DEF grown
    <3>2. Holds(x) = node[n].pc + node[n].off + Len(node[n].out) + Len(grown)
      BY <2>3 DEF Holds
    <3>3. Holds(node[n]) = node[n].pc + node[n].off + Len(node[n].out) + Len(node[n].buf)
      BY DEF Holds
    <3> DEFINE p == node[n].pc
               q == node[n].off
               u == Len(node[n].out)
               v == Len(node[n].buf)
               w == Len(d)
    <3>4. p \in Nat /\ q \in Nat /\ u \in Nat /\ v \in Nat /\ w \in Nat
      BY <1>3
    <3>5. Holds(x) = p + q + u + Len(grown) /\ Holds(node[n]) = p + q + u + v /\ Len(grown) = v + w
      BY <2>1, <3>2, <3>3
    <3>6. Arrived(n, stack, ret) = w
      BY <3>1
    <3> HIDE DEF p, q, u, v, w, d, n
    <3> QED  BY <3>4, <3>5, <3>6
  <2>5. /\ Kept([node EXCEPT ![n] = x]) /\ [node EXCEPT ![n] = x][n] = x
    <3>1. Kind(n) = "lzma" => Len(x.out) <= 1
      BY <1>3, <2>3 DEF PullInv, Within
    <3> QED  BY <1>1, <2>3, <2>4, <3>1, KeptChange
  <2>6. f \in Request /\ f.n = n /\ f.want = Top.want /\ f.at = at /\ f.acc = Top.acc
    BY <1>3 DEF Request
  <2>7. at = "loop" \/ /\ at = "fresh" /\ Len(Top.acc) < Top.want
                       /\ Kind(n) = "filter" => node[n].out = <<>>
    BY <1>1, <1>2, <1>3, <1>7 DEF InHand
  <2>8. Again([node EXCEPT ![n] = x], f)
    BY <1>7, <2>2
  <2> HIDE DEF f, at
  <2> QED  BY <1>1, <1>3, <2>3, <2>5, <2>6, <2>7, <2>8, LoopStep
<1> QED  BY <1>4, <1>5, <1>6, <1>7

-------------------------------------------------------------------------------
(* The chain as a whole.                                                   *)

LEMMA NodesPull ==
  ASSUME graph \in Graphs, PullInv(node, stack, ret, err), NodeStep
  PROVE  PullInv(node', stack', ret', err')
BY PackStep, CopyStep, LzmaStep, PpmdStep, FilterStep, AesStep, PrepareStep, Bcj2Step,
   StoreStep, PropagateKeeps DEF NodeStep

\* The root is asked, and what it answered is taken.
LEMMA RootAsked ==
  ASSUME graph \in Graphs, PullInv(node, stack, ret, err), sink \in Bytes, PullRoot
  PROVE  PullInv(node', stack', ret', err')
<1>1. Root \in Nodes /\ graph.size[Root] \in Nat
  BY GraphFacts
<1>2. ChunkWanted \in Nat \ {0}
  <2>1. Len(sink) \in Nat /\ OutChunk \in Nat
    BY ChainCapsAssumption DEF Bytes
  <2>2. ChunkWanted \in Int /\ ChunkWanted > 0
    BY <1>1, <2>1 DEF ChunkWanted, Least, PullRoot
  <2> QED  BY <2>2
<1>3. stack = <<>> /\ ret = NoRet /\ Enter(Root, ChunkWanted, node, <<>>)
  BY DEF PullRoot
<1>4. PullInv(node, <<>>, NoRet, err)
  BY <1>3
<1> QED  BY <1>1, <1>2, <1>3, <1>4, EnterKeeps

LEMMA RootAnswered ==
  ASSUME graph \in Graphs, PullInv(node, stack, ret, err), stack = <<>>,
         ret' = NoRet, UNCHANGED <<node, stack, err>>
  PROVE  PullInv(node', stack', ret', err')
<1>1. Answer(stack, NoRet) /\ NoRet # Failure
  BY DEF Answer, NoRet, Failure
<1>2. \A n, r : Arrived(n, stack, r) = 0
  BY DEF Arrived
<1>3. Exact(node, stack, ret) <=> Exact(node, stack, NoRet)
  BY <1>2 DEF Exact
<1>4. PullInv(node, stack, NoRet, err)
  BY <1>1, <1>3 DEF PullInv
<1> QED  BY <1>4

ChainWhole == graph \in Graphs /\ sink \in Bytes /\ PullInv(node, stack, ret, err)

\* The operators depend on the folder, which does not change.
LEMMA SameFolder ==
  ASSUME UNCHANGED graph, graph \in Graphs, sink' \in Bytes, PullInv(node', stack', ret', err')
  PROVE  ChainWhole'
<1>1. Nodes' = Nodes /\ Root' = Root
  BY DEF Nodes, Root
<1>2. \A n : /\ Kind(n)' = Kind(n) /\ In(n)' = In(n)
             /\ \A k : SideNode(n, k)' = SideNode(n, k)
  BY DEF Kind, In, SideNode
<1>3. Calls(stack, node)'
  BY <1>1, <1>2 DEF PullInv, Calls, InHand, Asks, Waits, Request
<1>4. err' = "ok" => Exact(node, stack, ret)'
  BY <1>1, <1>2 DEF PullInv, Exact, OnlyReader, Arrived, Holds
<1>5. (\A n \in Nodes : Within(n, node[n]))' /\ (node \in [Nodes -> NodeState])'
  BY <1>1, <1>2 DEF PullInv, Within
<1> QED  BY <1>1, <1>2, <1>3, <1>4, <1>5 DEF ChainWhole, PullInv, Answer

LEMMA ChainInitially == ChainInit => ChainWhole
<1> SUFFICES ASSUME ChainInit PROVE ChainWhole
  OBVIOUS
<1>1. graph \in Graphs /\ stack = <<>> /\ ret = NoRet /\ node = [n \in Nodes |-> FreshNode]
  BY DEF ChainInit
<1>2. FreshNode \in NodeState
  <2>1. <<>> \in Bytes /\ <<>> \in Seq(1 .. 3)
    BY DEF Bytes
  <2>2. <<<<>>, <<>>, <<>>>> \in [1 .. 3 -> Bytes]
    BY <2>1
  <2> QED  BY <2>1, <2>2 DEF FreshNode, NodeState
<1>3. node \in [Nodes -> NodeState] /\ \A n \in Nodes : node[n] = FreshNode
  BY <1>1, <1>2
<1>4. /\ FreshNode.produced = 0 /\ FreshNode.out = <<>> /\ FreshNode.failed = FALSE
      /\ FreshNode.buf = <<>> /\ FreshNode.pc = 0 /\ FreshNode.off = 0
  BY DEF FreshNode
<1>5. \A n \in Nodes : Within(n, node[n]) /\ ~node[n].failed
  BY <1>1, <1>3, <1>4, GraphFacts DEF Within
<1>6. Calls(stack, node)
  BY <1>1 DEF Calls
<1>7. Answer(stack, ret) /\ ret # Failure
  BY <1>1 DEF Answer, NoRet, Failure
<1>8. Exact(node, stack, ret)
  <2> SUFFICES ASSUME NEW n \in Nodes, Kind(n) = "filter"
               PROVE  Holds(node[n]) + Arrived(n, stack, ret) = node[In(n)].produced
    BY DEF Exact
  <2>1. Holds(node[n]) = 0
    BY <1>3, <1>4 DEF Holds
  <2>2. Arrived(n, stack, ret) = 0 /\ node[In(n)].produced = 0
    BY <1>1, <1>3, <1>4, GraphFacts DEF Arrived
  <2> QED  BY <2>1, <2>2
<1>9. sink \in Bytes
  BY DEF ChainInit, Bytes
<1> QED  BY <1>1, <1>3, <1>5, <1>6, <1>7, <1>8, <1>9 DEF ChainWhole, PullInv

LEMMA ChainStep == ChainWhole /\ [ChainNext]_chainVars => ChainWhole'
<1> SUFFICES ASSUME ChainWhole, [ChainNext]_chainVars PROVE ChainWhole'
  OBVIOUS
<1>1. graph \in Graphs /\ sink \in Bytes /\ PullInv(node, stack, ret, err)
  BY DEF ChainWhole
<1>2. CASE NodeStep
  <2>1. UNCHANGED <<graph, sink>>
    BY <1>2 DEF NodeStep
  <2> QED  BY <1>1, <1>2, <2>1, NodesPull, SameFolder
<1>3. CASE PullRoot
  <2>1. UNCHANGED <<graph, sink>>
    BY <1>3 DEF PullRoot
  <2> QED  BY <1>1, <1>3, <2>1, RootAsked, SameFolder
<1>4. CASE GiveToSink
  <2>1. /\ UNCHANGED <<graph, node, stack, err>> /\ stack = <<>> /\ ret' = NoRet
        /\ sink' = sink \/ (ret.rc = "ok" /\ sink' = sink \o ret.data)
    BY <1>4 DEF GiveToSink
  <2>2. ret.rc = "ok" => ret.data \in Bytes
    BY <1>1 DEF PullInv, Answer, NoRet, Failure, Got
  <2>3. sink' \in Bytes
    BY <1>1, <2>1, <2>2, JoinBytes
  <2> QED  BY <1>1, <2>1, <2>3, RootAnswered, SameFolder
<1>5. CASE FinishDecode \/ UNCHANGED chainVars
  <2>1. UNCHANGED <<graph, node, stack, ret, err, sink>>
    BY <1>5 DEF FinishDecode, chainVars
  <2> QED  BY <1>1, <2>1, SameFolder
<1> QED  BY <1>2, <1>3, <1>4, <1>5 DEF ChainNext

THEOREM ChainInvariance == ChainSpec => []ChainWhole
BY ChainInitially, ChainStep, PTL DEF ChainSpec

\* Between two requests of the root the program counter of a filter that alone reads
\* its input is the position of its first byte: node_pull of sevenz_chain.c, the
\* retired prefixes of fbuf.
THEOREM PcAlwaysPosition == ChainSpec => []FilterPcIsPosition
<1>1. ChainWhole => FilterPcIsPosition
  <2> SUFFICES ASSUME ChainWhole, stack = <<>>, err = "ok",
                      NEW n \in Nodes, Kind(n) = "filter", OnlyReader(n)
               PROVE  node[n].pc + node[n].off + Len(node[n].out) + Len(node[n].buf)
                        = node[In(n)].produced
    BY DEF FilterPcIsPosition
  <2>1. Holds(node[n]) + Arrived(n, stack, ret) = node[In(n)].produced
    BY DEF ChainWhole, PullInv, Exact
  <2>2. Arrived(n, stack, ret) = 0 /\ Holds(node[n]) \in Nat
    BY StateFacts DEF Arrived, ChainWhole, PullInv
  <2> QED  BY <2>1, <2>2 DEF Holds
<1> QED  BY <1>1, ChainInvariance, PTL

\* No call of node_pull fills more than the buffer it was given, and no node gives
\* out more than the header declares for it.
AnswersFit ==
  /\ \A i \in DOMAIN stack : Len(stack[i].acc) <= stack[i].want
  /\ \A n \in Nodes : node[n].produced <= graph.size[n]

\* The room of each request is kept, for every size the header declares.
THEOREM AnswersAlwaysFit == ChainSpec => []AnswersFit
<1>1. ChainWhole => AnswersFit
  BY DEF ChainWhole, PullInv, Calls, InHand, Within, AnswersFit
<1> QED  BY <1>1, ChainInvariance, PTL

\* A chain that succeeds gave the sink as many bytes as the folder has, and, PPMd
\* apart, no read failed.
OkReadEverything ==
  verdict = "ok" => /\ Len(sink) = graph.size[Root]
                    /\ ~HasPpmd => ~readFailed

\* A failed read is on its way to the root, or has arrived there.
EndPart ==
  /\ err \in {"ok", "READ", "DATA", "LIMIT"}
  /\ ~HasPpmd /\ readFailed => ret = Failure \/ verdict \notin {"run", "ok"}
  /\ OkReadEverything

LEMMA EndInitially == ChainInit => EndPart
BY DEF ChainInit, EndPart, OkReadEverything

LEMMA EndStep == ChainWhole /\ EndPart /\ [ChainNext]_chainVars => EndPart'
<1> SUFFICES ASSUME ChainWhole, EndPart, [ChainNext]_chainVars PROVE EndPart'
  OBVIOUS
<1>1. ret = Failure => err # "ok"
  BY DEF ChainWhole, PullInv
<1>2. UNCHANGED graph
  BY DEF ChainNext, NodeStep, PullRoot, GiveToSink, FinishDecode, chainVars
<1>3. HasPpmd' = HasPpmd /\ Root' = Root
  BY <1>2 DEF HasPpmd, Root, Nodes, Kind
<1>4. CASE NodeStep
  <2>1. /\ verdict = "run" /\ UNCHANGED <<sink, verdict>>
    BY <1>4 DEF NodeStep
  <2>2. err' \in {"ok", "READ", "DATA", "LIMIT"}
    BY <1>4 DEF NodeStep, EndPart, PullPack, PullCopy, PullLzma, PullPpmd, PullFilter, PullAes,
                PrepareBcj2, PullBcj2, StoreInput, Propagate, Leave, FailNode, Again, Pull, Enter,
                Symbol, Convert, BeginDecode, DecodeBcj2
  <2>3. ~HasPpmd => (ret = Failure => ret' = Failure)
    <3> SUFFICES ASSUME ~HasPpmd, ret = Failure PROVE ret' = Failure
      OBVIOUS
    <3>1. ret # NoRet /\ ret.rc # "ok"
      BY DEF Failure, NoRet
    <3>2. stack # <<>> => Kind(Top.n) # "ppmd"
      BY TopFacts DEF HasPpmd, ChainWhole
    <3>3. Propagate
      BY <1>4, <3>1, <3>2 DEF NodeStep, PullPack, PullCopy, PullLzma, PullPpmd, PullFilter,
                              PullAes, PrepareBcj2, PullBcj2, StoreInput, Running
    <3> QED  BY <3>3 DEF Propagate
  <2>4. readFailed' = readFailed \/ ret' = Failure
    BY <1>4 DEF NodeStep, PullPack, PullCopy, PullLzma, PullPpmd, PullFilter, PullAes,
                PrepareBcj2, PullBcj2, StoreInput, Propagate, Leave, FailNode, Again, Pull, Enter,
                Symbol, Convert, BeginDecode, DecodeBcj2
  <2> QED  BY <1>2, <1>3, <2>1, <2>2, <2>3, <2>4 DEF EndPart, OkReadEverything, Failure
<1>5. CASE PullRoot
  <2>1. /\ verdict = "run" /\ ret = NoRet /\ UNCHANGED <<sink, verdict, err, readFailed>>
    BY <1>5 DEF PullRoot, Enter
  <2>2. ~HasPpmd => ~readFailed
    BY <2>1 DEF EndPart, NoRet, Failure
  <2> QED  BY <1>2, <1>3, <2>1, <2>2 DEF EndPart, OkReadEverything
<1>6. CASE GiveToSink
  <2>1. /\ verdict = "run" /\ UNCHANGED <<err, readFailed>>
        /\ \/ ret = Failure /\ verdict' = err
           \/ ret.rc = "ok" /\ verdict' \in {"run", "DATA", "WRITE"}
    BY <1>6 DEF GiveToSink
  <2>2. CASE ret = Failure /\ verdict' = err
    BY <1>1, <1>3, <2>1, <2>2 DEF EndPart, OkReadEverything
  <2>3. CASE ret.rc = "ok" /\ verdict' \in {"run", "DATA", "WRITE"}
    <3>1. ~HasPpmd => ~readFailed
      BY <2>1, <2>3 DEF EndPart, Failure
    <3> QED  BY <1>3, <2>1, <2>3, <3>1 DEF EndPart, OkReadEverything
  <2> QED  BY <2>1, <2>2, <2>3
<1>7. CASE FinishDecode
  <2>1. /\ verdict = "run" /\ ret = NoRet /\ UNCHANGED <<ret, err, sink, readFailed>>
        /\ ChunkWanted = 0 /\ verdict' \in {"ok", "DATA"}
    BY <1>7 DEF FinishDecode
  <2>2. ~HasPpmd => ~readFailed
    BY <2>1 DEF EndPart, NoRet, Failure
  <2>3. Len(sink) = graph.size[Root]
    <3> DEFINE l == Len(sink)
               all == graph.size[Root]
    <3>1. l \in Nat
      BY DEF ChainWhole, Bytes
    <3>2. all \in Nat /\ OutChunk \in Nat \ {0}
      BY GraphFacts, ChainCapsAssumption DEF ChainWhole
    <3>3. Least(OutChunk, all - l) = 0
      BY <2>1 DEF ChunkWanted
    <3> HIDE DEF l, all
    <3>4. l = all
      BY <3>1, <3>2, <3>3 DEF Least
    <3> QED  BY <3>4 DEF l, all
  <2> QED  BY <1>2, <1>3, <2>1, <2>2, <2>3 DEF EndPart, OkReadEverything
<1>8. CASE UNCHANGED chainVars
  BY <1>3, <1>8 DEF chainVars, EndPart, OkReadEverything
<1> QED  BY <1>4, <1>5, <1>6, <1>7, <1>8 DEF ChainNext

\* sz_chain_decode succeeds only with every byte and without a failed read: what
\* OkIsWholeFolder says but for the bytes themselves.
THEOREM SuccessReadEverything == ChainSpec => []OkReadEverything
<1>1. EndPart => OkReadEverything
  BY DEF EndPart
<1> QED  BY <1>1, ChainInitially, ChainStep, EndInitially, EndStep, PTL DEF ChainSpec

-------------------------------------------------------------------------------
(* Which bytes.                                                            *)

\* The items of s stand in ref behind the first `at`.
Part(s, at, ref) == \A i \in 1 .. Len(s) : at + i \in 1 .. Len(ref) /\ s[i] = ref[at + i]

LEMMA Items ==
  ASSUME NEW s \in Bytes
  PROVE  Len(s) \in Nat /\ DOMAIN s = 1 .. Len(s) /\ \A i \in 1 .. Len(s) : s[i] \in Nat
BY ElementOfSeq DEF Bytes

LEMMA SameItems ==
  ASSUME NEW s \in Bytes, NEW t \in Bytes, Len(s) = Len(t), \A i \in 1 .. Len(s) : s[i] = t[i]
  PROVE  s = t
BY SeqEqual DEF Bytes

LEMMA TakeDropItems ==
  ASSUME NEW s \in Bytes, NEW k \in Nat
  PROVE  /\ \A i \in 1 .. Least(k, Len(s)) : Take(s, k)[i] = s[i]
         /\ \A i \in 1 .. Len(Drop(s, k)) : Drop(s, k)[i] = s[Least(k, Len(s)) + i]
         /\ Take(s, k) \o Drop(s, k) = s
<1> DEFINE n == Len(s)
           j == Least(k, n)
           u == Take(s, k)
           v == Drop(s, k)
<1>1. /\ n \in Nat /\ j \in Nat /\ j <= n /\ (k <= n => j = k) /\ (n < k => j = n)
      /\ \A i \in 1 .. n : s[i] \in Nat
  BY Items DEF Least
<1>2. u \in Bytes /\ v \in Bytes /\ Len(u) = j /\ Len(v) = n - j
  BY TakeDrop
<1>3. \A i \in 1 .. j : u[i] = s[i]
  <2> TAKE i \in 1 .. j
  <2> HIDE DEF n, j
  <2>1. \A h \in 1 .. j : s[h] \in Nat
    BY <1>1
  <2>2. \A h \in 1 .. j - 1 + 1 : SubSeq(s, 1, j)[h] = s[1 + h - 1]
    BY <1>1, <2>1, SubSeqProperties
  <2>3. i \in 1 .. j - 1 + 1 /\ 1 + i - 1 = i
    BY <1>1
  <2>4. SubSeq(s, 1, j)[i] = s[i]
    BY <2>2, <2>3
  <2> QED  BY <2>4 DEF Take, j, n
<1>4. \A i \in 1 .. n - j : v[i] = s[j + i]
  <2> TAKE i \in 1 .. n - j
  <2> HIDE DEF n, j
  <2>0. j = k /\ k < n
    BY <1>1
  <2>1. \A h \in k + 1 .. n : s[h] \in Nat
    BY <1>1
  <2>2. \A h \in 1 .. n - (k + 1) + 1 : SubSeq(s, k + 1, n)[h] = s[k + 1 + h - 1]
    BY <1>1, <2>1, SubSeqProperties
  <2>3. i \in 1 .. n - (k + 1) + 1 /\ k + 1 + i - 1 = j + i
    BY <1>1, <2>0
  <2>4. SubSeq(s, k + 1, n)[i] = s[j + i]
    BY <2>2, <2>3
  <2> QED  BY <2>4 DEF Drop, n
<1>5. u \o v = s
  <2> HIDE DEF n, j, u, v
  <2>1. u \o v \in Bytes /\ Len(u \o v) = j + (n - j)
    BY <1>2, JoinBytes
  <2>2. \A i \in 1 .. n : (u \o v)[i] = s[i]
    <3> TAKE i \in 1 .. n
    <3>1. (u \o v)[i] = IF i <= j THEN u[i] ELSE v[i - j]
      BY <1>1, <1>2, ConcatProperties DEF Bytes
    <3>2. CASE i <= j
      BY <1>1, <1>3, <3>1, <3>2
    <3>3. CASE ~(i <= j)
      <4>1. i - j \in 1 .. n - j /\ j + (i - j) = i
        BY <1>1, <3>3
      <4> QED  BY <1>4, <3>1, <3>3, <4>1
    <3> QED  BY <3>2, <3>3
  <2>3. Len(u \o v) = n
    BY <1>1, <2>1
  <2> QED  BY <2>1, <2>2, <2>3, SameItems DEF n
<1> QED  BY <1>2, <1>3, <1>4, <1>5

LEMMA PartJoin ==
  ASSUME NEW s \in Bytes, NEW t \in Bytes, NEW at \in Nat, NEW ref \in Bytes
  PROVE  Part(s \o t, at, ref) <=> Part(s, at, ref) /\ Part(t, at + Len(s), ref)
<1> DEFINE a == Len(s)
           b == Len(t)
           n == Len(ref)
<1>1. a \in Nat /\ b \in Nat /\ n \in Nat /\ Len(s \o t) = a + b
  BY JoinBytes, Items
<1>2. \A i \in 1 .. a + b : (s \o t)[i] = IF i <= a THEN s[i] ELSE t[i - a]
  BY ConcatProperties DEF Bytes
<1> HIDE DEF a, b, n
<1>3. \A i \in 1 .. a : i \in 1 .. a + b /\ (s \o t)[i] = s[i]
  BY <1>1, <1>2
<1>4. \A i \in 1 .. b : /\ a + i \in 1 .. a + b /\ (s \o t)[a + i] = t[i]
                        /\ at + (a + i) = (at + a) + i
  <2> TAKE i \in 1 .. b
  <2>1. a + i \in 1 .. a + b /\ ~(a + i <= a) /\ (a + i) - a = i /\ at + (a + i) = (at + a) + i
    BY <1>1
  <2> QED  BY <1>2, <2>1
<1>5. ASSUME Part(s \o t, at, ref) PROVE Part(s, at, ref) /\ Part(t, at + a, ref)
  <2>1. \A i \in 1 .. a + b : at + i \in 1 .. n /\ (s \o t)[i] = ref[at + i]
    BY <1>1, <1>5 DEF Part, n
  <2>2. \A i \in 1 .. a : at + i \in 1 .. n /\ s[i] = ref[at + i]
    BY <1>3, <2>1
  <2>3. \A i \in 1 .. b : (at + a) + i \in 1 .. n /\ t[i] = ref[(at + a) + i]
    <3> TAKE i \in 1 .. b
    <3>1. at + (a + i) \in 1 .. n /\ (s \o t)[a + i] = ref[at + (a + i)]
      BY <1>4, <2>1
    <3> QED  BY <1>4, <3>1
  <2> QED  BY <2>2, <2>3 DEF Part, a, b, n
<1>6. ASSUME Part(s, at, ref), Part(t, at + a, ref) PROVE Part(s \o t, at, ref)
  <2>1. \A i \in 1 .. a : at + i \in 1 .. n /\ s[i] = ref[at + i]
    BY <1>6 DEF Part, a, n
  <2>2. \A i \in 1 .. b : (at + a) + i \in 1 .. n /\ t[i] = ref[(at + a) + i]
    BY <1>6 DEF Part, b, n
  <2>3. ASSUME NEW i \in 1 .. a + b PROVE at + i \in 1 .. n /\ (s \o t)[i] = ref[at + i]
    <3>1. CASE i <= a
      <4>1. i \in 1 .. a
        BY <1>1, <3>1
      <4> QED  BY <1>3, <2>1, <4>1
    <3>2. CASE ~(i <= a)
      <4>1. i - a \in 1 .. b /\ (at + a) + (i - a) = at + i /\ a + (i - a) = i
        BY <1>1, <3>2
      <4> QED  BY <1>4, <2>2, <4>1
    <3> QED  BY <3>1, <3>2
  <2> QED  BY <1>1, <2>3 DEF Part, n
<1> QED  BY <1>5, <1>6 DEF a

LEMMA PartNone ==
  ASSUME NEW at, NEW ref
  PROVE  Part(<<>>, at, ref)
BY DEF Part

LEMMA PartSplit ==
  ASSUME NEW s \in Bytes, NEW k \in Nat, NEW at \in Nat, NEW ref \in Bytes, Part(s, at, ref)
  PROVE  /\ Part(Take(s, k), at, ref)
         /\ Part(Drop(s, k), at + Least(k, Len(s)), ref)
<1>1. /\ Take(s, k) \in Bytes /\ Drop(s, k) \in Bytes /\ Len(Take(s, k)) = Least(k, Len(s))
      /\ Take(s, k) \o Drop(s, k) = s
  BY TakeDrop, TakeDropItems
<1> DEFINE u == Take(s, k)
           v == Drop(s, k)
<1> HIDE DEF u, v
<1>2. u \in Bytes /\ v \in Bytes /\ Part(u \o v, at, ref) /\ Len(u) = Least(k, Len(s))
  BY <1>1 DEF u, v
<1>3. Part(u, at, ref) /\ Part(v, at + Len(u), ref)
  BY <1>2, PartJoin
<1> QED  BY <1>2, <1>3 DEF u, v

LEMMA PartHead ==
  ASSUME NEW s \in Bytes, s # <<>>, NEW at \in Nat, NEW ref \in Bytes, Part(s, at, ref)
  PROVE  /\ at + 1 \in 1 .. Len(ref) /\ Head(s) = ref[at + 1] /\ Part(Tail(s), at + 1, ref)
         /\ Len(Tail(s)) + 1 = Len(s)
<1>1. /\ Head(s) = s[1] /\ Tail(s) \in Bytes /\ Len(s) \in Nat \ {0} /\ Len(Tail(s)) = Len(s) - 1
      /\ \A i \in 1 .. Len(Tail(s)) : Tail(s)[i] = s[i + 1]
  BY HeadTailProperties, EmptySeq DEF Bytes
<1> DEFINE t == Tail(s)
           n == Len(s)
<1> HIDE DEF t, n
<1>2. /\ n \in Nat \ {0} /\ Len(t) = n - 1 /\ \A i \in 1 .. n - 1 : t[i] = s[i + 1]
  BY <1>1 DEF t, n
<1>3. \A i \in 1 .. n : at + i \in 1 .. Len(ref) /\ s[i] = ref[at + i]
  BY DEF Part, n
<1>4. \A i \in 1 .. n - 1 : at + 1 + i \in 1 .. Len(ref) /\ t[i] = ref[at + 1 + i]
  <2> TAKE i \in 1 .. n - 1
  <2>1. i + 1 \in 1 .. n /\ at + (i + 1) = at + 1 + i
    BY <1>2
  <2> QED  BY <1>2, <1>3, <2>1
<1>5. Part(t, at + 1, ref)
  BY <1>2, <1>4 DEF Part
<1>6. at + 1 \in 1 .. Len(ref) /\ s[1] = ref[at + 1]
  BY <1>2, <1>3
<1>7. Len(t) + 1 = n
  BY <1>2
<1> QED  BY <1>1, <1>5, <1>6, <1>7 DEF t, n

LEMMA PartAppend ==
  ASSUME NEW s \in Bytes, NEW x \in Nat, NEW at \in Nat, NEW ref \in Bytes,
         Part(s, at, ref), at + Len(s) + 1 \in 1 .. Len(ref), x = ref[at + Len(s) + 1]
  PROVE  Part(Append(s, x), at, ref)
<1> DEFINE n == Len(s)
           t == Append(s, x)
<1>1. n \in Nat /\ Len(t) = n + 1 /\ t[n + 1] = x /\ \A i \in 1 .. n : t[i] = s[i]
  BY AppendProperties, Items DEF Bytes
<1>2. \A i \in 1 .. n : at + i \in 1 .. Len(ref) /\ s[i] = ref[at + i]
  BY DEF Part
<1> HIDE DEF n, t
<1>3. ASSUME NEW i \in 1 .. n + 1 PROVE at + i \in 1 .. Len(ref) /\ t[i] = ref[at + i]
  <2>1. CASE i = n + 1
    <3>1. at + (n + 1) = at + n + 1
      BY <1>1
    <3> QED  BY <1>1, <2>1, <3>1 DEF n
  <2>2. CASE i # n + 1
    <3>1. i \in 1 .. n
      BY <1>1, <2>2
    <3> QED  BY <1>1, <1>2, <3>1
  <2> QED  BY <2>1, <2>2
<1>4. Part(t, at, ref)
  BY <1>1, <1>3 DEF Part
<1> QED  BY <1>4 DEF t

\* A longer reference that begins with ref.
LEMMA PartOn ==
  ASSUME NEW s, NEW at \in Nat, NEW ref \in Bytes, NEW more, Part(ref, 0, more), Part(s, at, ref)
  PROVE  Part(s, at, more)
<1> SUFFICES ASSUME NEW i \in 1 .. Len(s)
             PROVE  at + i \in 1 .. Len(more) /\ s[i] = more[at + i]
  BY DEF Part
<1>1. at + i \in 1 .. Len(ref) /\ s[i] = ref[at + i]
  BY DEF Part
<1>2. at + i \in Nat /\ 0 + (at + i) = at + i
  BY <1>1
<1>3. 0 + (at + i) \in 1 .. Len(more) /\ ref[at + i] = more[0 + (at + i)]
  BY <1>1 DEF Part
<1> QED  BY <1>1, <1>2, <1>3

LEMMA PartCut ==
  ASSUME NEW s \in Bytes, NEW at \in Nat, NEW ref \in Bytes, NEW k \in Nat
  PROVE  /\ Part(Take(ref, k), 0, ref)
         /\ Part(s, at, ref) /\ at + Len(s) <= k => Part(s, at, Take(ref, k))
<1> DEFINE u == Take(ref, k)
           n == Len(ref)
           j == Least(k, n)
<1>1. /\ u \in Bytes /\ Len(u) = j /\ \A i \in 1 .. j : u[i] = ref[i]
      /\ n \in Nat /\ j \in Nat /\ j <= n /\ (k <= n => j = k) /\ (n < k => j = n)
  BY TakeDrop, TakeDropItems, Items DEF Least
<1>2. Len(s) \in Nat
  BY Items
<1> HIDE DEF u, n, j
<1>3. Part(u, 0, ref)
  <2>1. \A i \in 1 .. j : 0 + i \in 1 .. n /\ u[i] = ref[0 + i]
    BY <1>1
  <2> QED  BY <1>1, <2>1 DEF Part, n
<1>4. ASSUME Part(s, at, ref), at + Len(s) <= k PROVE Part(s, at, u)
  <2> SUFFICES ASSUME NEW i \in 1 .. Len(s) PROVE at + i \in 1 .. Len(u) /\ s[i] = u[at + i]
    BY DEF Part
  <2>1. at + i \in 1 .. n /\ s[i] = ref[at + i]
    BY <1>4 DEF Part, n
  <2>2. at + i <= k
    BY <1>2, <1>4
  <2>3. at + i \in 1 .. j
    BY <1>1, <2>1, <2>2
  <2> QED  BY <1>1, <2>1, <2>3
<1> QED  BY <1>3, <1>4 DEF u

LEMMA PartFits ==
  ASSUME NEW s \in Bytes, NEW at \in Nat, NEW ref \in Bytes, Part(s, at, ref), s # <<>>
  PROVE  at + Len(s) <= Len(ref)
<1>1. Len(s) \in Nat \ {0}
  BY Items, EmptySeq DEF Bytes
<1>2. Len(ref) \in Nat
  BY Items
<1> QED  BY <1>1, <1>2 DEF Part

LEMMA PartWhole ==
  ASSUME NEW s \in Bytes, NEW ref \in Bytes, Part(s, 0, ref), Len(ref) <= Len(s)
  PROVE  s = ref
<1>1. Len(s) \in Nat /\ Len(ref) \in Nat
  BY Items
<1>2. Len(s) <= Len(ref)
  <2>1. s # <<>> => 0 + Len(s) <= Len(ref)
    BY PartFits
  <2>2. s = <<>> => Len(s) = 0
    BY EmptySeq
  <2> QED  BY <1>1, <2>1, <2>2
<1>3. \A i \in 1 .. Len(s) : 0 + i = i /\ s[i] = ref[0 + i]
  BY <1>1 DEF Part
<1>4. Len(s) = Len(ref) /\ \A i \in 1 .. Len(s) : s[i] = ref[i]
  BY <1>1, <1>2, <1>3
<1> QED  BY <1>4, SameItems

LEMMA PartDouble ==
  ASSUME NEW s \in Bytes, NEW at \in Nat, NEW ref \in Bytes, Part(s, at, ref)
  PROVE  Part(Doubled(s), 2 * at, Doubled(ref))
<1>1. /\ Len(Doubled(s)) = 2 * Len(s) /\ Len(Doubled(ref)) = 2 * Len(ref)
      /\ Len(s) \in Nat /\ Len(ref) \in Nat
  BY DoubledBytes, Items
<1> DEFINE a == Len(s)
           n == Len(ref)
<1> SUFFICES ASSUME NEW i \in 1 .. 2 * a
             PROVE  2 * at + i \in 1 .. 2 * n /\ Doubled(s)[i] = Doubled(ref)[2 * at + i]
  BY <1>1 DEF Part
<1> DEFINE h == (i + 1) \div 2
<1>2. a \in Nat /\ n \in Nat
  BY <1>1
<1>3. h \in 1 .. a /\ 2 * h <= i + 1 /\ i <= 2 * h
  BY <1>2
<1>4. at + h \in 1 .. n /\ s[h] = ref[at + h]
  BY <1>3 DEF Part
<1>5. Doubled(s)[i] = 2 * s[h] + (1 - (i % 2))
  BY DEF Doubled
<1>6. 2 * at + i \in 1 .. 2 * n
  <2> HIDE DEF h, a, n
  <2> QED  BY <1>2, <1>3, <1>4
<1>7. (2 * at + i + 1) \div 2 = at + h /\ (2 * at + i) % 2 = i % 2
  <2> HIDE DEF a, n
  <2> QED  BY <1>2
<1>8. Doubled(ref)[2 * at + i] = 2 * ref[(2 * at + i + 1) \div 2] + (1 - ((2 * at + i) % 2))
  BY <1>6 DEF Doubled
<1>9. Doubled(s)[i] = Doubled(ref)[2 * at + i]
  <2> HIDE DEF h
  <2>1. Doubled(ref)[2 * at + i] = 2 * ref[at + h] + (1 - (i % 2))
    BY <1>7, <1>8
  <2> QED  BY <1>4, <1>5, <2>1
<1> QED  BY <1>6, <1>9

-------------------------------------------------------------------------------
(* What a folder decodes to.                                               *)

MergeState == [out : Bytes, left : [1 .. 2 -> Bytes], stop : BOOLEAN]
Operand(x) == IF IsCall(x) THEN 1 ELSE 2

LEMMA MergeNextIs ==
  ASSUME NEW m \in MergeState, NEW x \in Nat
  PROVE  /\ MergeNext(m, x) \in MergeState
         /\ Part(m.out, 0, MergeNext(m, x).out)
         /\ ~m.stop =>
              /\ Len(m.out) + 1 \in 1 .. Len(MergeNext(m, x).out)
              /\ MergeNext(m, x).out[Len(m.out) + 1] = x
         /\ ~m.stop /\ ~IsCall(x) /\ ~IsJump(x) =>
              /\ Len(MergeNext(m, x).out) = Len(m.out) + 1
              /\ MergeNext(m, x).left = m.left /\ ~MergeNext(m, x).stop
         /\ ~m.stop /\ (IsCall(x) \/ IsJump(x)) /\ m.left[Operand(x)] # <<>> =>
              /\ Len(MergeNext(m, x).out) = Len(m.out) + 2
              /\ MergeNext(m, x).out[Len(m.out) + 2] = Head(m.left[Operand(x)])
              /\ MergeNext(m, x).left = [m.left EXCEPT ![Operand(x)] = Tail(@)]
              /\ ~MergeNext(m, x).stop
<1> DEFINE k == Operand(x)
           o == m.out
           l == m.left[k]
           r == MergeNext(m, x)
<1>1. /\ m.out \in Bytes /\ m.left \in [1 .. 2 -> Bytes] /\ m.stop \in BOOLEAN
      /\ k \in 1 .. 2 /\ l \in Bytes
  BY DEF MergeState, Operand
<1>2. r = IF m.stop THEN m
          ELSE IF ~IsCall(x) /\ ~IsJump(x) THEN [m EXCEPT !.out = Append(o, x)]
          ELSE IF l = <<>> THEN [m EXCEPT !.out = Append(o, x), !.stop = TRUE]
          ELSE [m EXCEPT !.out = o \o <<x, Head(l)>>, !.left[k] = Tail(l)]
  BY DEF MergeNext, Operand
<1> HIDE DEF k, r
<1>3. /\ Append(o, x) \in Bytes /\ Len(Append(o, x)) = Len(o) + 1 /\ Len(o) \in Nat
      /\ Append(o, x)[Len(o) + 1] = x /\ \A i \in 1 .. Len(o) : Append(o, x)[i] = o[i]
  BY <1>1, Items, AppendProperties DEF Bytes
<1>4. Len(o) + 1 \in 1 .. Len(Append(o, x)) /\ Part(o, 0, Append(o, x)) /\ Part(o, 0, o)
  <2> DEFINE u == Append(o, x)
             n == Len(o)
  <2>1. n \in Nat /\ Len(u) = n + 1 /\ \A i \in 1 .. n : u[i] = o[i]
    BY <1>3
  <2> HIDE DEF u, n
  <2>2. \A i \in 1 .. n : 0 + i \in 1 .. n /\ 0 + i \in 1 .. n + 1 /\ 0 + i = i
    BY <2>1
  <2>3. n + 1 \in 1 .. n + 1
    BY <2>1
  <2> QED  BY <2>1, <2>2, <2>3 DEF Part, u, n
<1>5. CASE m.stop
  <2>1. r = m
    BY <1>2, <1>5
  <2> QED  BY <1>4, <1>5, <2>1 DEF r
<1>6. CASE ~m.stop /\ ~IsCall(x) /\ ~IsJump(x)
  <2>1. r = [m EXCEPT !.out = Append(o, x)]
    BY <1>2, <1>6
  <2>2. r \in MergeState /\ r.out = Append(o, x) /\ r.left = m.left /\ r.stop = m.stop
    BY <1>3, <2>1 DEF MergeState
  <2> QED  BY <1>3, <1>4, <1>6, <2>2 DEF r
<1>7. CASE ~m.stop /\ (IsCall(x) \/ IsJump(x)) /\ l = <<>>
  <2>1. r = [m EXCEPT !.out = Append(o, x), !.stop = TRUE]
    BY <1>2, <1>7
  <2>2. r \in MergeState /\ r.out = Append(o, x)
    BY <1>3, <2>1 DEF MergeState
  <2> QED  BY <1>3, <1>4, <1>7, <2>2 DEF r, k
<1>8. CASE ~m.stop /\ (IsCall(x) \/ IsJump(x)) /\ l # <<>>
  <2> DEFINE p == <<x, Head(l)>>
             rest == [m.left EXCEPT ![k] = Tail(@)]
             v == o \o p
             n == Len(o)
  <2>1. Head(l) \in Nat /\ Tail(l) \in Bytes
    BY <1>1, <1>8, RestBytes
  <2>2. p \in Bytes /\ Len(p) = 2 /\ p[1] = x /\ p[2] = Head(l)
    BY <2>1 DEF Bytes
  <2>3. rest \in [1 .. 2 -> Bytes]
    BY <1>1, <2>1
  <2>4. r = [m EXCEPT !.out = o \o p, !.left = rest]
    BY <1>1, <1>2, <1>8 DEF MergeState
  <2> HIDE DEF p, rest, l
  <2>5. v \in Bytes /\ Len(v) = n + 2 /\ n \in Nat
    <3>1. o \in Bytes
      BY <1>1
    <3> HIDE DEF o
    <3>2. v \in Bytes /\ Len(v) = Len(o) + Len(p) /\ Len(o) \in Nat
      BY <2>2, <3>1, JoinBytes
    <3> QED  BY <2>2, <3>2
  <2>6. \A i \in 1 .. n + 2 : v[i] = IF i <= n THEN o[i] ELSE p[i - n]
    <3>1. o \in Seq(Nat) /\ p \in Seq(Nat)
      BY <1>1, <2>2 DEF Bytes
    <3> HIDE DEF o
    <3>2. \A i \in 1 .. Len(o) + Len(p) :
            (o \o p)[i] = IF i <= Len(o) THEN o[i] ELSE p[i - Len(o)]
      BY <3>1, ConcatProperties
    <3> QED  BY <2>2, <3>2 DEF v, n
  <2> HIDE DEF v, n
  <2>7. \A i \in 1 .. n : 0 + i \in 1 .. n + 2 /\ o[i] = v[0 + i]
    BY <2>5, <2>6
  <2>8. n + 1 \in 1 .. n + 2 /\ v[n + 1] = x /\ v[n + 2] = Head(l)
    <3>1. /\ n + 1 \in 1 .. n + 2 /\ n + 2 \in 1 .. n + 2 /\ ~(n + 1 <= n) /\ ~(n + 2 <= n)
          /\ (n + 1) - n = 1 /\ (n + 2) - n = 2
      BY <2>5
    <3> QED  BY <2>2, <2>6, <3>1
  <2>9. r \in MergeState /\ r.out = v /\ r.left = rest /\ r.stop = m.stop
    BY <2>3, <2>4, <2>5 DEF MergeState, v
  <2>10. Part(o, 0, v)
    BY <2>5, <2>7 DEF Part, n
  <2> QED  BY <1>8, <2>5, <2>8, <2>9, <2>10 DEF r, k, l, rest, n
<1> QED  BY <1>1, <1>5, <1>6, <1>7, <1>8

MergesBy(main, call, jump, f) ==
  f = [i \in 0 .. Len(main) |->
         IF i = 0 THEN [out |-> <<>>, left |-> <<call, jump>>, stop |-> FALSE]
         ELSE MergeNext(f[i - 1], main[i])]

LEMMA MergingIs ==
  ASSUME NEW main \in Bytes, NEW call \in Bytes, NEW jump \in Bytes
  PROVE  /\ Merging(main, call, jump) \in [0 .. Len(main) -> MergeState]
         /\ Merging(main, call, jump)[0]
              = [out |-> <<>>, left |-> <<call, jump>>, stop |-> FALSE]
         /\ \A i \in 1 .. Len(main) :
              Merging(main, call, jump)[i] = MergeNext(Merging(main, call, jump)[i - 1], main[i])
         /\ \A i \in 0 .. Len(main) :
              Part(Merging(main, call, jump)[i].out, 0, Merging(main, call, jump)[Len(main)].out)
<1> DEFINE n == Len(main)
           start == [out |-> <<>>, left |-> <<call, jump>>, stop |-> FALSE]
           g == [x \in (1 .. n) \X MergeState |-> MergeNext(x[2], main[x[1]])]
<1>1. n \in Nat /\ \A i \in 1 .. n : main[i] \in Nat
  BY Items
<1>2. start \in MergeState
  <2>1. <<>> \in Bytes /\ <<call, jump>> \in [1 .. 2 -> Bytes]
    BY DEF Bytes
  <2> QED  BY <2>1 DEF MergeState
<1>3. g \in [(1 .. n) \X MergeState -> MergeState]
  <2>1. \A i \in 1 .. n, m \in MergeState : MergeNext(m, main[i]) \in MergeState
    BY <1>1, MergeNextIs
  <2> QED  BY <2>1
<1>4. \A i \in 1 .. n, m \in MergeState : g[<<i, m>>] = MergeNext(m, main[i])
  OBVIOUS
<1> HIDE DEF g, start, n
<1>5. PICK f : Iteration(n, MergeState, start, g, f)
  BY <1>1, <1>2, <1>3, Iterates
<1>6. /\ f \in [0 .. n -> MergeState] /\ f[0] = start
      /\ \A i \in 1 .. n : f[i] = g[<<i, f[i - 1]>>]
  BY <1>5 DEF Iteration
<1>7. \A i \in 1 .. n : i - 1 \in 0 .. n /\ i \in 0 .. n /\ i # 0
  BY <1>1
<1>8. \A i \in 1 .. n : f[i] = MergeNext(f[i - 1], main[i])
  BY <1>4, <1>6, <1>7
<1>9. f = [i \in 0 .. n |-> IF i = 0 THEN start ELSE MergeNext(f[i - 1], main[i])]
  <2>1. \A i \in 0 .. n : i # 0 => i \in 1 .. n
    BY <1>1
  <2> QED  BY <1>6, <1>8, <2>1
<1>10. MergesBy(main, call, jump, f)
  BY <1>9 DEF MergesBy, start, n
<1> DEFINE M == Merging(main, call, jump)
<1>11. M = CHOOSE h : MergesBy(main, call, jump, h)
  BY DEF Merging, MergesBy
<1>12. MergesBy(main, call, jump, M)
  BY <1>10, <1>11
<1> HIDE DEF M
<1>13. M = [i \in 0 .. n |-> IF i = 0 THEN start ELSE MergeNext(M[i - 1], main[i])]
  BY <1>12 DEF MergesBy, start, n
<1>14. M[0] = start /\ \A i \in 1 .. n : M[i] = MergeNext(M[i - 1], main[i])
  <2>1. 0 \in 0 .. n
    BY <1>1
  <2>2. \A i \in 0 .. n : M[i] = IF i = 0 THEN start ELSE MergeNext(M[i - 1], main[i])
    BY <1>13, Zenon
  <2> QED  BY <1>7, <2>1, <2>2
<1>15. \A i \in 0 .. n : M[i] \in MergeState
  <2> DEFINE P == { i \in 0 .. n : M[i] \in MergeState }
  <2>1. 0 \in P
    BY <1>1, <1>2, <1>14
  <2>2. ASSUME NEW i \in 0 .. n - 1, i \in P PROVE i + 1 \in P
    <3>1. i + 1 \in 1 .. n /\ i + 1 \in 0 .. n /\ (i + 1) - 1 = i
      BY <1>1
    <3>2. M[i + 1] = MergeNext(M[i], main[i + 1]) /\ M[i] \in MergeState /\ main[i + 1] \in Nat
      BY <1>1, <1>14, <2>2, <3>1
    <3>3. M[i + 1] \in MergeState
      <4>1. \A m \in MergeState, x \in Nat : MergeNext(m, x) \in MergeState
        BY MergeNextIs
      <4> QED  BY <3>2, <4>1
    <3> QED  BY <3>1, <3>3
  <2> HIDE DEF P
  <2>3. \A i \in 0 .. n : i \in P
    BY <1>1, <2>1, <2>2, Upwards
  <2> QED  BY <2>3 DEF P
<1>16. M \in [0 .. n -> MergeState]
  <2>1. M = [i \in 0 .. n |-> M[i]]
    BY <1>13, Zenon
  <2> QED  BY <1>15, <2>1
<1>17. \A i \in 0 .. n : Part(M[i].out, 0, M[n].out)
  <2> DEFINE P == { j \in 0 .. n : \A i \in 0 .. j : Part(M[i].out, 0, M[j].out) }
  <2>0. \A i \in 0 .. n : M[i].out \in Bytes /\ Part(M[i].out, 0, M[i].out)
    <3>1. \A i \in 0 .. n : M[i].out \in Bytes
      BY <1>15 DEF MergeState
    <3>2. \A s \in Bytes : Part(s, 0, s)
      BY Items DEF Part
    <3> QED  BY <3>1, <3>2
  <2>1. 0 \in P
    <3>1. 0 \in 0 .. n /\ \A i \in 0 .. 0 : i = 0
      BY <1>1
    <3> QED  BY <2>0, <3>1
  <2>2. ASSUME NEW j \in 0 .. n - 1, j \in P PROVE j + 1 \in P
    <3>1. j + 1 \in 1 .. n /\ j + 1 \in 0 .. n /\ (j + 1) - 1 = j /\ j \in 0 .. n
      BY <1>1
    <3>2. M[j + 1] = MergeNext(M[j], main[j + 1]) /\ M[j] \in MergeState /\ main[j + 1] \in Nat
      BY <1>1, <1>14, <1>15, <3>1
    <3>3. Part(M[j].out, 0, M[j + 1].out)
      BY <3>2, MergeNextIs
    <3>4. ASSUME NEW i \in 0 .. j + 1 PROVE Part(M[i].out, 0, M[j + 1].out)
      <4>1. CASE i = j + 1
        BY <2>0, <3>1, <4>1
      <4>2. CASE i # j + 1
        <5>1. i \in 0 .. j
          BY <3>1, <4>2
        <5>2. Part(M[i].out, 0, M[j].out)
          BY <2>2, <5>1
        <5> QED  BY <2>0, <3>1, <3>3, <5>2, PartOn
      <4> QED  BY <4>1, <4>2
    <3> QED  BY <3>1, <3>4
  <2> HIDE DEF P
  <2>3. \A j \in 0 .. n : j \in P
    BY <1>1, <2>1, <2>2, Upwards
  <2>4. n \in 0 .. n
    BY <1>1
  <2> QED  BY <2>3, <2>4 DEF P
<1> QED  BY <1>14, <1>16, <1>17 DEF M, n, start

LEMMA RawSame ==
  ASSUME graph \in Graphs, NEW n \in Nodes, NEW f, NEW g, \A u \in 1 .. n - 1 : f[u] = g[u]
  PROVE  Raw(n, f) = Raw(n, g)
<1>1. Kind(n) # "pack" => f[In(n)] = g[In(n)]
  BY GraphFacts
<1>2. Kind(n) = "bcj2" => \A k \in 1 .. 3 : f[SideNode(n, k)] = g[SideNode(n, k)]
  BY GraphFacts
<1>3. Kind(n) \in CoderKinds
  BY GraphFacts
<1> QED  BY <1>1, <1>2, <1>3 DEF Raw, CoderKinds

LEMMA RawIs ==
  ASSUME NEW n, NEW of, Kind(n) \in CoderKinds
  PROVE  /\ Kind(n) = "pack" => Raw(n, of) = [i \in 1 .. graph.size[n] |-> 16 * n + i]
         /\ Kind(n) = "lzma" => Raw(n, of) = Doubled(of[In(n)])
         /\ Kind(n) = "aes" => Raw(n, of) = Take(of[In(n)], Block * (Len(of[In(n)]) \div Block))
         /\ Kind(n) = "bcj2" =>
              Raw(n, of) = Merging(of[In(n)], of[SideNode(n, 1)], of[SideNode(n, 2)])
                                  [Len(of[In(n)])].out
         /\ Kind(n) \in {"copy", "ppmd", "filter"} => Raw(n, of) = of[In(n)]
BY DEF Raw, CoderKinds

LEMMA RawBytes ==
  ASSUME graph \in Graphs, NEW n \in Nodes, NEW f, \A u \in 1 .. n - 1 : f[u] \in Bytes
  PROVE  Raw(n, f) \in Bytes
<1>1. graph.size[n] \in Nat /\ n \in Nat /\ Kind(n) \in CoderKinds
  BY GraphFacts
<1>2. Kind(n) # "pack" => f[In(n)] \in Bytes
  BY GraphFacts
<1>3. Kind(n) = "bcj2" => \A k \in 1 .. 3 : f[SideNode(n, k)] \in Bytes
  BY GraphFacts
<1>4. CASE Kind(n) = "pack"
  <2> DEFINE s == graph.size[n]
  <2>1. s \in Nat
    BY <1>1
  <2> HIDE DEF s
  <2>2. [i \in 1 .. s |-> 16 * n + i] \in Seq(Nat)
    BY <1>1, <2>1
  <2> QED  BY <1>1, <1>4, <2>2, RawIs DEF Bytes, s
<1>5. CASE Kind(n) = "lzma"
  BY <1>1, <1>2, <1>5, RawIs, DoubledBytes
<1>6. CASE Kind(n) = "aes"
  <2> DEFINE l == Len(f[In(n)])
  <2>1. l \in Nat /\ Block \in Nat \ {0}
    BY <1>2, <1>6, Items, ChainCapsAssumption
  <2> HIDE DEF l
  <2>2. l \div Block \in Nat
    BY <2>1
  <2>3. Block * (l \div Block) \in Nat
    BY <2>1, <2>2
  <2> QED  BY <1>1, <1>2, <1>6, <2>3, RawIs, TakeDrop DEF l
<1>7. CASE Kind(n) = "bcj2"
  <2> DEFINE M == Merging(f[In(n)], f[SideNode(n, 1)], f[SideNode(n, 2)])
  <2>1. M \in [0 .. Len(f[In(n)]) -> MergeState]
    <3>1. f[In(n)] \in Bytes /\ f[SideNode(n, 1)] \in Bytes /\ f[SideNode(n, 2)] \in Bytes
      BY <1>2, <1>3, <1>7
    <3>2. \A u, v, w \in Bytes : Merging(u, v, w) \in [0 .. Len(u) -> MergeState]
      BY MergingIs
    <3> QED  BY <3>1, <3>2
  <2>2. Len(f[In(n)]) \in Nat
    BY <1>2, <1>7, Items
  <2> HIDE DEF M
  <2>3. M[Len(f[In(n)])] \in MergeState
    BY <2>1, <2>2
  <2> QED  BY <1>1, <1>7, <2>3, RawIs DEF MergeState, M
<1>8. CASE Kind(n) \in {"copy", "ppmd", "filter"}
  BY <1>1, <1>2, <1>8, RawIs
<1> QED  BY <1>1, <1>4, <1>5, <1>6, <1>7, <1>8 DEF CoderKinds

Decodes(f, m) == f = [n \in 1 .. m |-> Take(Raw(n, f), graph.size[n])]

LEMMA ContentIs ==
  ASSUME graph \in Graphs
  PROVE  \A n \in Nodes :
           /\ Content[n] = Take(Raw(n, Content), graph.size[n])
           /\ Content[n] \in Bytes /\ Raw(n, Content) \in Bytes
           /\ Len(Content[n]) <= graph.size[n]
<1>1. Root \in Nat \ {0} /\ Nodes = 1 .. Root /\ \A n \in Nodes : graph.size[n] \in Nat
  BY GraphFacts
<1> DEFINE P == { m \in 0 .. Root : \E f : Decodes(f, m) /\ f \in [1 .. m -> Bytes] }
<1>2. 0 \in P
  <2> DEFINE f == [n \in 1 .. 0 |-> <<>>]
  <2>1. f = [n \in 1 .. 0 |-> Take(Raw(n, f), graph.size[n])] /\ f \in [1 .. 0 -> Bytes]
    OBVIOUS
  <2>2. Decodes(f, 0)
    BY <2>1 DEF Decodes
  <2> HIDE DEF f
  <2>3. \E g : Decodes(g, 0) /\ g \in [1 .. 0 -> Bytes]
    BY <2>1, <2>2
  <2>4. 0 \in 0 .. Root
    BY <1>1
  <2> QED  BY <2>3, <2>4, Zenon
<1>3. ASSUME NEW m \in 0 .. Root - 1, m \in P PROVE m + 1 \in P
  <2>1. PICK f : Decodes(f, m) /\ f \in [1 .. m -> Bytes]
    BY <1>3
  <2> HIDE DEF P
  <2>2. m \in Nat /\ m + 1 \in Nodes /\ m + 1 \in 0 .. Root
    BY <1>1
  <2> DEFINE next == Take(Raw(m + 1, f), graph.size[m + 1])
             h == [n \in 1 .. m + 1 |-> IF n = m + 1 THEN next ELSE f[n]]
  <2>3. next \in Bytes
    <3>1. \A u \in 1 .. (m + 1) - 1 : f[u] \in Bytes
      BY <2>1, <2>2
    <3>2. Raw(m + 1, f) \in Bytes /\ graph.size[m + 1] \in Nat
      BY <1>1, <2>2, <3>1, RawBytes
    <3> QED  BY <3>2, TakeDrop
  <2> HIDE DEF next
  <2>4. h \in [1 .. m + 1 -> Bytes] /\ h[m + 1] = next /\ \A n \in 1 .. m : h[n] = f[n]
    BY <2>1, <2>2, <2>3
  <2>5. \A n \in 1 .. m + 1 : n \in Nodes /\ Raw(n, h) = Raw(n, f)
    <3> TAKE n \in 1 .. m + 1
    <3> HIDE DEF h
    <3>1. n \in Nodes
      BY <1>1, <2>2
    <3>2. \A u \in 1 .. n - 1 : h[u] = f[u]
      BY <2>2, <2>4
    <3> QED  BY <3>1, <3>2, RawSame
  <2>6. \A n \in 1 .. m + 1 : h[n] = Take(Raw(n, h), graph.size[n])
    <3> TAKE n \in 1 .. m + 1
    <3> HIDE DEF h
    <3>1. CASE n = m + 1
      BY <2>4, <2>5, <3>1 DEF next
    <3>2. CASE n # m + 1
      <4>1. n \in 1 .. m
        BY <2>2, <3>2
      <4>2. f[n] = Take(Raw(n, f), graph.size[n])
        <5>1. f = [k \in 1 .. m |-> Take(Raw(k, f), graph.size[k])]
          BY <2>1 DEF Decodes
        <5> QED  BY <4>1, <5>1, Zenon
      <4> QED  BY <2>4, <2>5, <4>1, <4>2
    <3> QED  BY <3>1, <3>2
  <2>7. Decodes(h, m + 1)
    <3>1. h = [n \in 1 .. m + 1 |-> h[n]]
      BY <2>4
    <3> HIDE DEF h
    <3>2. h = [n \in 1 .. m + 1 |-> Take(Raw(n, h), graph.size[n])]
      BY <2>6, <3>1, Zenon
    <3> QED  BY <3>2 DEF Decodes
  <2> HIDE DEF h
  <2> QED  BY <2>2, <2>4, <2>7 DEF P
<1>4. PICK f : Decodes(f, Root)
  <2> HIDE DEF P
  <2>1. \A m \in 0 .. Root : m \in P
    BY <1>1, <1>2, <1>3, Upwards
  <2>2. Root \in P
    BY <1>1, <2>1
  <2> QED  BY <2>2 DEF P
<1>5. Content = CHOOSE h : Decodes(h, Root)
  BY <1>1 DEF Content, Decodes
<1>6. Decodes(Content, Root)
  BY <1>4, <1>5
<1>7. \A n \in Nodes : Content[n] = Take(Raw(n, Content), graph.size[n])
  <2>1. Content = [n \in 1 .. Root |-> Take(Raw(n, Content), graph.size[n])]
    BY <1>6 DEF Decodes
  <2> QED  BY <1>1, <2>1, Zenon
<1> DEFINE Q == { m \in 0 .. Root : \A n \in 1 .. m : Content[n] \in Bytes }
<1>8. 0 \in Q
  BY <1>1
<1>9. ASSUME NEW m \in 0 .. Root - 1, m \in Q PROVE m + 1 \in Q
  <2>1. m \in Nat /\ m + 1 \in Nodes /\ m + 1 \in 0 .. Root /\ (m + 1) - 1 = m
    BY <1>1
  <2>2. Raw(m + 1, Content) \in Bytes
    BY <1>9, <2>1, RawBytes
  <2>3. Content[m + 1] \in Bytes
    BY <1>1, <1>7, <2>1, <2>2, TakeDrop
  <2>4. \A n \in 1 .. m + 1 : n = m + 1 \/ n \in 1 .. m
    BY <2>1
  <2> QED  BY <1>9, <2>1, <2>3, <2>4
<1>10. \A n \in Nodes : Content[n] \in Bytes
  <2> HIDE DEF Q
  <2>1. \A m \in 0 .. Root : m \in Q
    BY <1>1, <1>8, <1>9, Upwards
  <2>2. Root \in Q
    BY <1>1, <2>1
  <2> QED  BY <1>1, <2>2 DEF Q
<1>11. ASSUME NEW n \in Nodes
       PROVE  Raw(n, Content) \in Bytes /\ Len(Content[n]) <= graph.size[n]
  <2>1. \A u \in 1 .. n - 1 : u \in Nodes
    BY <1>1
  <2>2. Raw(n, Content) \in Bytes
    BY <1>10, <2>1, RawBytes
  <2>3. Len(Take(Raw(n, Content), graph.size[n]))
          = Least(graph.size[n], Len(Raw(n, Content)))
    BY <1>1, <2>2, TakeDrop
  <2>4. Len(Raw(n, Content)) \in Nat /\ graph.size[n] \in Nat
    BY <1>1, <2>2, Items
  <2>5. Least(graph.size[n], Len(Raw(n, Content))) <= graph.size[n]
    BY <2>4 DEF Least
  <2> QED  BY <1>7, <2>2, <2>3, <2>5
<1> QED  BY <1>7, <1>10, <1>11

-------------------------------------------------------------------------------
(* Where the bytes are.                                                    *)

\* What each node gave to its reader, but for an answer on its way.
Answering(s) == IF s = <<>> THEN Root ELSE Asks(s[Len(s)])
Taken(nodes, s, r) ==
  [m \in Nodes |-> nodes[m].produced
                     - (IF r.rc = "ok" /\ m = Answering(s) THEN Len(r.data) ELSE 0)]
Gave(nodes) == [m \in Nodes |-> nodes[m].produced]

\* The call of node n that is in progress, or what it will begin with.
Idle == [acc |-> <<>>, k |-> 1, at |-> "loop"]
Hand(n, s, f) ==
  \/ \E i \in 1 .. Len(s) : s[i].n = n /\ f = s[i]
  \/ (\A i \in 1 .. Len(s) : s[i].n # n) /\ f = Idle

\* A node that converts its input: from the first q bytes it made what it gave out,
\* what the call in progress has and what it keeps converted.
MadeOf(n, q) == IF Kind(n) = "lzma" THEN 2 * q ELSE q
Straight(n, p, made, b, t) ==
  \E q \in Nat :
    /\ Part(made, p, Raw(n, Content)) /\ p + Len(made) = MadeOf(n, q)
    /\ Part(b, q, Content[In(n)]) /\ q + Len(b) = t[In(n)]
    /\ Kind(n) = "aes" => \E j \in Nat : q = Block * j

\* A BCJ2 node before its side streams are read, and after the first q items of MAIN.
Unread(n, x, f, t) ==
  /\ x.produced = 0 /\ f.acc = <<>> /\ x.buf = <<>> /\ x.need = <<>>
  /\ f.at \notin {"in", "fresh", "decode"} /\ t[In(n)] = 0
  /\ \A j \in 1 .. 3 : /\ Part(x.side[j], 0, Content[SideNode(n, j)])
                       /\ Len(x.side[j]) = t[SideNode(n, j)]
  /\ \A j \in 1 .. 3 : j < f.k => graph.size[SideNode(n, j)] <= Len(x.side[j])

MergedBy(n) ==
  Merging(Content[In(n)], Content[SideNode(n, 1)], Content[SideNode(n, 2)])
Branched(n, p, x, q) ==
  \/ /\ x.need = <<>> /\ ~MergedBy(n)[q].stop /\ p = Len(MergedBy(n)[q].out)
     /\ \A j \in 1 .. 2 : x.side[j] = MergedBy(n)[q].left[j]
  \/ /\ q > 0 /\ ~MergedBy(n)[q - 1].stop /\ p = Len(MergedBy(n)[q - 1].out) + 1
     /\ \A j \in 1 .. 2 : x.side[j] = MergedBy(n)[q - 1].left[j]
     /\ LET b == Content[In(n)][q] IN
        /\ IsCall(b) \/ IsJump(b)
        /\ x.need \in {<<3, Operand(b)>>, <<Operand(b)>>}
Merged(n, x, f, t) ==
  \E q \in 0 .. Len(Content[In(n)]) :
    /\ Part(x.buf, q, Content[In(n)]) /\ q + Len(x.buf) = t[In(n)]
    /\ Part(f.acc, x.produced, MergedBy(n)[q].out)
    /\ Branched(n, x.produced + Len(f.acc), x, q)

Right(n, x, f, t) ==
  /\ Kind(n) \in {"pack", "copy"} => f.acc = <<>>
  /\ Kind(n) = "copy" => x.produced = t[In(n)]
  /\ Kind(n) \in {"lzma", "filter", "aes"} =>
       Straight(n, x.produced, f.acc \o x.out, x.buf, t)
  /\ Kind(n) = "bcj2" => IF x.prepared THEN f.at # "side" /\ Merged(n, x, f, t)
                         ELSE Unread(n, x, f, t)

Flow(nodes, s, r) ==
  /\ Taken(nodes, s, r) \in [Nodes -> Nat] /\ Len(sink) = Taken(nodes, s, r)[Root]
  /\ \A n \in Nodes : \A f : Hand(n, s, f) => Right(n, nodes[n], f, Taken(nodes, s, r))
  /\ r.rc = "ok" => Part(r.data, Taken(nodes, s, r)[Answering(s)], Content[Answering(s)])

\* What is read by whom.
Draws(n, u) ==
  \/ Kind(n) # "pack" /\ u = In(n)
  \/ Kind(n) = "bcj2" /\ \E k \in 1 .. 3 : u = SideNode(n, k)

LEMMA DrawsInput ==
  ASSUME graph \in Graphs, NEW n \in Nodes
  PROVE  /\ Kind(n) # "pack" => 1 \in DOMAIN graph.ins[n]
         /\ Kind(n) = "bcj2" => \A k \in 1 .. 3 : k + 1 \in DOMAIN graph.ins[n]
<1>1. GraphForm(graph) /\ n \in DOMAIN graph.kind
  BY GraphsAssumption DEF Nodes, GraphForm
<1>2. /\ graph.ins[n] \in Seq(DOMAIN graph.kind)
      /\ Len(graph.ins[n]) = InputCount(Kind(n))
  BY <1>1 DEF GraphForm, Kind
<1>3. DOMAIN graph.ins[n] = 1 .. InputCount(Kind(n))
  BY <1>2
<1>4. Kind(n) # "pack" => InputCount(Kind(n)) \in {1, 4}
  BY DEF InputCount
<1>5. Kind(n) = "bcj2" => InputCount(Kind(n)) = 4
  BY DEF InputCount
<1>6. \A k \in 1 .. 3 : k + 1 \in 1 .. 4
  OBVIOUS
<1>7. 1 \in 1 .. 1 /\ 1 \in 1 .. 4
  OBVIOUS
<1> QED  BY <1>3, <1>4, <1>5, <1>6, <1>7

LEMMA DrawsApart ==
  ASSUME graph \in Graphs, ReadOnce
  PROVE  /\ \A m, n \in Nodes : \A u : Draws(m, u) /\ Draws(n, u) => m = n
         /\ \A n \in Nodes : Kind(n) = "bcj2" =>
              \A j, k \in 1 .. 3 : /\ SideNode(n, j) # In(n)
                                   /\ SideNode(n, j) = SideNode(n, k) => j = k
         /\ \A n \in Nodes : \A u : Draws(n, u) => u \in Nodes /\ u < n
<1>1. \A m, n \in Nodes : \A u : Draws(m, u) /\ Draws(n, u) => m = n
  <2> TAKE m, n \in Nodes
  <2> TAKE u
  <2> HAVE Draws(m, u) /\ Draws(n, u)
  <2>1. ASSUME NEW l \in Nodes, Draws(l, u)
        PROVE  \E i \in DOMAIN graph.ins[l] : u = graph.ins[l][i]
    BY <2>1, DrawsInput DEF Draws, In, SideNode
  <2>2. PICK i \in DOMAIN graph.ins[m] : u = graph.ins[m][i]
    BY <2>1
  <2>3. PICK j \in DOMAIN graph.ins[n] : u = graph.ins[n][j]
    BY <2>1
  <2> QED  BY <2>2, <2>3 DEF ReadOnce
<1>2. ASSUME NEW n \in Nodes, Kind(n) = "bcj2", NEW j \in 1 .. 3, NEW k \in 1 .. 3
      PROVE  SideNode(n, j) # In(n) /\ (SideNode(n, j) = SideNode(n, k) => j = k)
  <2>1. /\ 1 \in DOMAIN graph.ins[n] /\ j + 1 \in DOMAIN graph.ins[n]
        /\ k + 1 \in DOMAIN graph.ins[n]
    BY <1>2, DrawsInput
  <2>2. j + 1 # 1 /\ (j + 1 = k + 1 => j = k)
    OBVIOUS
  <2> QED  BY <2>1, <2>2 DEF ReadOnce, In, SideNode
<1>3. \A n \in Nodes : \A u : Draws(n, u) => u \in Nodes /\ u < n
  BY GraphFacts DEF Draws
<1> QED  BY <1>1, <1>2, <1>3

\* A node is right as far as its own inputs go.
LEMMA RightSame ==
  ASSUME graph \in Graphs, NEW n \in Nodes, NEW x, NEW f, NEW g, NEW t, NEW s,
         Right(n, x, f, t), \A u : Draws(n, u) => t[u] = s[u],
         f.acc = g.acc, f.k = g.k, f.at = g.at
  PROVE  Right(n, x, g, s)
<1>1. Kind(n) # "pack" => t[In(n)] = s[In(n)]
  BY DEF Draws
<1>2. Kind(n) = "bcj2" => \A j \in 1 .. 3 : t[SideNode(n, j)] = s[SideNode(n, j)]
  BY DEF Draws
<1>3. CASE Kind(n) \in {"pack", "copy"}
  BY <1>1, <1>3 DEF Right
<1>4. CASE Kind(n) \in {"lzma", "filter", "aes"}
  <2>1. Straight(n, x.produced, f.acc \o x.out, x.buf, t)
    BY <1>4 DEF Right
  <2>2. Straight(n, x.produced, f.acc \o x.out, x.buf, s)
    BY <1>1, <1>4, <2>1 DEF Straight
  <2> QED  BY <1>4, <2>2 DEF Right
<1>5. CASE Kind(n) = "bcj2" /\ x.prepared
  <2>1. f.at # "side" /\ Merged(n, x, f, t)
    BY <1>5 DEF Right
  <2>2. Merged(n, x, g, s)
    BY <1>1, <1>5, <2>1 DEF Merged
  <2> QED  BY <1>5, <2>1, <2>2 DEF Right
<1>6. CASE Kind(n) = "bcj2" /\ ~x.prepared
  <2>1. Unread(n, x, f, t)
    BY <1>6 DEF Right
  <2>2. Unread(n, x, g, s)
    BY <1>1, <1>2, <1>6, <2>1 DEF Unread
  <2> QED  BY <1>6, <2>2 DEF Right
<1>7. CASE Kind(n) \notin {"pack", "copy", "lzma", "filter", "aes", "bcj2"}
  BY <1>7 DEF Right
<1> QED  BY <1>3, <1>4, <1>5, <1>6, <1>7

\* The calls in progress are of different nodes.
LEMMA HandTop ==
  ASSUME graph \in Graphs, PullInv(node, stack, ret, err), stack # <<>>
  PROVE  /\ Hand(Top.n, stack, Top)
         /\ \A n, g : Hand(n, Below, g) => IF n = Top.n THEN g = Idle ELSE Hand(n, stack, g)
         /\ \A f \in Request : f.n = Top.n =>
              \A n, g : Hand(n, Append(Below, f), g) =>
                          IF n = Top.n THEN g = f ELSE Hand(n, stack, g)
<1> DEFINE k == Len(stack)
<1>1. k \in Nat \ {0} /\ Top = stack[k]
  BY TopFacts DEF Top
<1>2. \A i \in 1 .. k - 1 : stack[i].n # Top.n
  <2>1. Elsewhere(node)
    BY DEF Elsewhere
  <2>2. \A i \in 1 .. k - 1 : Top.n < stack[i].n /\ stack[i] \in Request
    BY <2>1, CallersKept
  <2>3. Top.n \in Nat /\ \A i \in 1 .. k - 1 : stack[i].n \in Nat
    BY <2>2, TopFacts, GraphFacts DEF Request
  <2> QED  BY <2>2, <2>3
<1> DEFINE b == Below
<1>3. /\ Len(b) = k - 1 /\ \A i \in 1 .. k - 1 : b[i] = stack[i]
      /\ \A f \in Request : /\ Len(Append(b, f)) = k /\ Append(b, f)[k] = f
                            /\ \A i \in 1 .. k - 1 : Append(b, f)[i] = stack[i]
  BY BelowFacts
<1> HIDE DEF k, b
<1>4. \A i \in 1 .. k : i = k \/ i \in 1 .. k - 1
  BY <1>1
<1>5. \A i \in 1 .. k - 1 : i \in 1 .. k
  BY <1>1
<1>6. k \in 1 .. k
  BY <1>1
<1>7. Hand(Top.n, stack, Top)
  BY <1>1, <1>6 DEF Hand, k
<1>8. ASSUME NEW n, NEW g, Hand(n, b, g)
      PROVE  IF n = Top.n THEN g = Idle ELSE Hand(n, stack, g)
  <2>1. \/ \E i \in 1 .. k - 1 : stack[i].n = n /\ g = stack[i]
        \/ (\A i \in 1 .. k - 1 : stack[i].n # n) /\ g = Idle
    BY <1>3, <1>8 DEF Hand
  <2>2. CASE n = Top.n
    BY <1>2, <2>1, <2>2
  <2>3. CASE n # Top.n
    BY <1>1, <1>4, <1>5, <2>1, <2>3 DEF Hand, k
  <2> QED  BY <2>2, <2>3
<1>9. ASSUME NEW f \in Request, f.n = Top.n, NEW n, NEW g, Hand(n, Append(b, f), g)
      PROVE  IF n = Top.n THEN g = f ELSE Hand(n, stack, g)
  <2> DEFINE s == Append(b, f)
  <2>1. Len(s) = k /\ s[k] = f /\ \A i \in 1 .. k - 1 : s[i] = stack[i]
    BY <1>3
  <2> HIDE DEF s
  <2>2. \/ \E i \in 1 .. k : s[i].n = n /\ g = s[i]
        \/ (\A i \in 1 .. k : s[i].n # n) /\ g = Idle
    <3>1. Hand(n, s, g)
      BY <1>9 DEF s
    <3> QED  BY <2>1, <3>1 DEF Hand
  <2>3. CASE n = Top.n
    BY <1>2, <1>4, <1>6, <1>9, <2>1, <2>2, <2>3
  <2>4. CASE n # Top.n
    BY <1>1, <1>4, <1>5, <1>9, <2>1, <2>2, <2>4 DEF Hand, k
  <2> QED  BY <2>3, <2>4
<1> QED  BY <1>7, <1>8, <1>9 DEF b

LEMMA HandPush ==
  ASSUME NEW nodes, NEW s, s \in Seq(Request), NEW f \in Request, Calls(Append(s, f), nodes),
         graph \in Graphs
  PROVE  /\ \A n, g : Hand(n, Append(s, f), g) =>
                        IF n = f.n THEN g = f ELSE Hand(n, s, g)
         /\ Hand(f.n, s, Idle)
<1> DEFINE k == Len(s)
           u == Append(s, f)
<1>1. k \in Nat /\ Len(u) = k + 1 /\ u[k + 1] = f /\ \A i \in 1 .. k : u[i] = s[i]
  OBVIOUS
<1>2. \A i \in 1 .. k : s[i] \in Request
  BY ElementOfSeq
<1>3. \A i \in 1 .. k : s[i].n # f.n
  <2> TAKE i \in 1 .. k
  <2>1. u[k + 1].n < u[i].n
    <3>1. i \in 1 .. k + 1 /\ k + 1 \in 1 .. k + 1 /\ i < k + 1
      BY <1>1
    <3> HIDE DEF u, k
    <3>2. \A h, j \in 1 .. Len(u) : h < j => u[j].n < u[h].n
      BY DEF Calls, u
    <3> QED  BY <1>1, <3>1, <3>2
  <2>2. s[i].n \in Nat /\ f.n \in Nat
    BY <1>2, GraphFacts DEF Request
  <2> HIDE DEF u, k
  <2> QED  BY <1>1, <2>1, <2>2
<1> HIDE DEF u, k
<1>4. \A i \in 1 .. k + 1 : i = k + 1 \/ i \in 1 .. k
  BY <1>1
<1>5. k + 1 \in 1 .. k + 1 /\ \A i \in 1 .. k : i \in 1 .. k + 1
  BY <1>1
<1>6. ASSUME NEW n, NEW g, Hand(n, u, g) PROVE IF n = f.n THEN g = f ELSE Hand(n, s, g)
  <2>1. \/ \E i \in 1 .. k + 1 : u[i].n = n /\ g = u[i]
        \/ (\A i \in 1 .. k + 1 : u[i].n # n) /\ g = Idle
    BY <1>1, <1>6 DEF Hand
  <2>2. CASE n = f.n
    BY <1>1, <1>3, <1>4, <1>5, <2>1, <2>2
  <2>3. CASE n # f.n
    BY <1>1, <1>4, <1>5, <2>1, <2>3 DEF Hand, k
  <2> QED  BY <2>2, <2>3
<1>7. Hand(f.n, s, Idle)
  BY <1>3 DEF Hand, k
<1> QED  BY <1>6, <1>7 DEF u

-------------------------------------------------------------------------------
(* The forms a step takes, for the bytes.                                  *)

\* The chain while nothing has failed and every output has one reader.
Flowing ==
  /\ graph \in Graphs /\ ReadOnce /\ ~HasPpmd
  /\ PullInv(node, stack, ret, err) /\ err = "ok" /\ Flow(node, stack, ret)

\* Only the call on top sees that an answer is taken.
LEMMA OthersTook ==
  ASSUME Flowing, stack # <<>>
  PROVE  /\ \A m \in Nodes : node[m].produced \in Nat
         /\ Gave(node) \in [Nodes -> Nat] /\ \A m \in Nodes : Gave(node)[m] = node[m].produced
         /\ ret = NoRet => Taken(node, stack, ret) = Gave(node)
         /\ ret.rc = "ok" =>
              /\ Draws(Top.n, Asks(Top)) /\ Answering(stack) = Asks(Top) /\ ret.data \in Bytes
              /\ Taken(node, stack, ret)[Asks(Top)] + Len(ret.data) = node[Asks(Top)].produced
         /\ \A u \in Nodes : u # Asks(Top) => Taken(node, stack, ret)[u] = Gave(node)[u]
         /\ \A n \in Nodes \ {Top.n} : \A u : Draws(n, u) =>
              Taken(node, stack, ret)[u] = Gave(node)[u]
<1> DEFINE T == Taken(node, stack, ret)
<1>1. node \in [Nodes -> NodeState] /\ Top \in Request /\ Top.n \in Nodes /\ InHand(Top, node)
  BY TopFacts DEF Flowing, PullInv
<1>2. \A m \in Nodes : node[m].produced \in Nat
  BY <1>1, StateFacts
<1>3. Gave(node) \in [Nodes -> Nat] /\ \A m \in Nodes : Gave(node)[m] = node[m].produced
  BY <1>2 DEF Gave
<1>4. \A u \in Nodes : ret.rc # "ok" \/ u # Answering(stack) => T[u] = Gave(node)[u]
  BY <1>2, <1>3 DEF Taken
<1>5. Answering(stack) = Asks(Top)
  BY DEF Answering, Top
<1>6. ASSUME ret = NoRet PROVE T = Gave(node)
  <2>1. \A u \in Nodes : node[u].produced
          - (IF ret.rc = "ok" /\ u = Answering(stack) THEN Len(ret.data) ELSE 0) = node[u].produced
    BY <1>2, <1>6 DEF NoRet
  <2> QED  BY <2>1 DEF Taken, Gave
<1>7. ASSUME ret.rc = "ok"
      PROVE  /\ Draws(Top.n, Asks(Top)) /\ Asks(Top) \in Nodes /\ ret.data \in Bytes
             /\ T[Asks(Top)] + Len(ret.data) = node[Asks(Top)].produced
  <2>1. Waits(Top) /\ ret.data \in Bytes
    BY <1>7 DEF Flowing, PullInv, Answer, Top, NoRet, Failure, Got
  <2>2. Draws(Top.n, Asks(Top))
    BY <1>1, <2>1 DEF Asks, Draws, InHand, Waits, Request
  <2>3. Asks(Top) \in Nodes
    BY <1>1, <2>2, DrawsApart DEF Flowing
  <2>4. T[Asks(Top)] = node[Asks(Top)].produced - Len(ret.data)
    BY <1>5, <1>7, <2>3 DEF Taken
  <2>5. Len(ret.data) \in Nat /\ node[Asks(Top)].produced \in Nat
    BY <1>2, <2>1, <2>3, Items
  <2> DEFINE a == T[Asks(Top)]
             l == Len(ret.data)
             p == node[Asks(Top)].produced
  <2>6. a = p - l /\ l \in Nat /\ p \in Nat
    BY <2>4, <2>5
  <2> HIDE DEF a, l, p
  <2>7. a + l = p
    BY <2>6
  <2> QED  BY <2>1, <2>2, <2>3, <2>7 DEF a, l, p
<1>8. ASSUME NEW n \in Nodes \ {Top.n}, NEW u, Draws(n, u) PROVE T[u] = Gave(node)[u]
  <2>1. u \in Nodes
    BY <1>8, DrawsApart DEF Flowing
  <2>2. ret.rc = "ok" => u # Asks(Top)
    BY <1>1, <1>7, <1>8, DrawsApart DEF Flowing
  <2> QED  BY <1>4, <1>5, <2>1, <2>2
<1> QED  BY <1>2, <1>3, <1>4, <1>5, <1>6, <1>7, <1>8

\* What is true of the node whose call is on top.
LEMMA TopRight ==
  ASSUME Flowing, stack # <<>>
  PROVE  /\ Right(Top.n, node[Top.n], Top, Taken(node, stack, ret))
         /\ ret = NoRet => Right(Top.n, node[Top.n], Top, Gave(node))
<1>1. Top.n \in Nodes /\ Hand(Top.n, stack, Top)
  BY TopFacts, HandTop DEF Flowing
<1>2. Right(Top.n, node[Top.n], Top, Taken(node, stack, ret))
  BY <1>1 DEF Flowing, Flow
<1> QED  BY <1>2, OthersTook

\* The loop of sz_chain_decode sees only whole answers of the root.
LEMMA RootTook ==
  ASSUME Flowing, stack # <<>>
  PROVE  Len(sink) = Gave(node)[Root]
<1>1. Len(sink) = Taken(node, stack, ret)[Root] /\ graph \in Graphs /\ ReadOnce
  BY DEF Flowing, Flow
<1>2. Root \in Nodes /\ Nodes = 1 .. Root /\ Root \in Nat
  BY <1>1, GraphFacts
<1>3. Top.n \in Nodes
  BY TopFacts DEF Flowing
<1>4. CASE ret.rc = "ok"
  <2>1. Asks(Top) < Top.n /\ Asks(Top) \in Nodes
    BY <1>1, <1>3, <1>4, OthersTook, DrawsApart
  <2>2. Root # Asks(Top)
    BY <1>2, <1>3, <2>1
  <2> QED  BY <1>1, <1>2, <2>2, OthersTook
<1>5. CASE ret.rc # "ok"
  <2>1. ret = NoRet
    BY <1>5 DEF Flowing, PullInv, Answer, Got
  <2> QED  BY <1>1, <2>1, OthersTook
<1> QED  BY <1>4, <1>5

LEMMA FlowAgain ==
  ASSUME Flowing, stack # <<>>, NEW nodes, Kept(nodes), NEW f \in Request, f.n = Top.n,
         Right(Top.n, nodes[Top.n], f, Gave(node))
  PROVE  Flow(nodes, Append(Below, f), NoRet)
<1> DEFINE s == Append(Below, f)
           T == Taken(nodes, s, NoRet)
<1>1. \A m \in Nodes : node[m].produced \in Nat /\ nodes[m].produced = node[m].produced
  BY OthersTook, KeptCounts DEF Flowing
<1>2. T = Gave(node)
  <2>1. \A m \in Nodes : nodes[m].produced
          - (IF NoRet.rc = "ok" /\ m = Answering(s) THEN Len(NoRet.data) ELSE 0) = node[m].produced
    BY <1>1 DEF NoRet
  <2> QED  BY <2>1 DEF Taken, Gave
<1> HIDE DEF T
<1>3. ASSUME NEW n \in Nodes, NEW g, Hand(n, s, g) PROVE Right(n, nodes[n], g, T)
  <2>1. IF n = Top.n THEN g = f ELSE Hand(n, stack, g)
    BY <1>3, HandTop DEF Flowing
  <2>2. CASE n = Top.n
    BY <1>2, <2>1, <2>2
  <2>3. CASE n # Top.n
    <3>1. Right(n, node[n], g, Taken(node, stack, ret)) /\ nodes[n] = node[n]
      BY <2>1, <2>3 DEF Flowing, Flow, Kept, Elsewhere
    <3>2. \A u : Draws(n, u) => Taken(node, stack, ret)[u] = Gave(node)[u]
      BY <2>3, OthersTook
    <3>3. Right(n, node[n], g, Gave(node))
      BY <3>1, <3>2, RightSame DEF Flowing
    <3> QED  BY <1>2, <3>1, <3>3
  <2> QED  BY <2>2, <2>3
<1>4. T \in [Nodes -> Nat]
  BY <1>2, OthersTook
<1>5. NoRet.rc # "ok"
  BY DEF NoRet
<1>6. Len(sink) = T[Root]
  BY <1>2, RootTook
<1> QED  BY <1>3, <1>4, <1>5, <1>6 DEF Flow, T

LEMMA FlowLeave ==
  ASSUME Flowing, stack # <<>>, NEW nodes, Kept(nodes), NEW data \in Bytes,
         Right(Top.n, [nodes[Top.n] EXCEPT !.produced = @ + Len(data)], Idle, Gave(node)),
         Part(data, node[Top.n].produced, Content[Top.n])
  PROVE  Flow([nodes EXCEPT ![Top.n].produced = @ + Len(data)], Below, Got(data))
<1> DEFINE after == [nodes EXCEPT ![Top.n].produced = @ + Len(data)]
           x == [nodes[Top.n] EXCEPT !.produced = @ + Len(data)]
           r == Got(data)
           T == Taken(after, Below, r)
<1>1. /\ \A m \in Nodes : node[m].produced \in Nat /\ nodes[m].produced = node[m].produced
      /\ nodes \in [Nodes -> NodeState] /\ Top.n \in Nodes /\ Len(data) \in Nat
  BY OthersTook, KeptCounts, TopFacts, Items DEF Flowing
<1>2. /\ after[Top.n] = x /\ \A m \in Nodes \ {Top.n} : after[m] = nodes[m]
      /\ x.produced = node[Top.n].produced + Len(data)
  <2>1. after[Top.n] = x /\ \A m \in Nodes \ {Top.n} : after[m] = nodes[m]
    BY <1>1
  <2>2. x.produced = nodes[Top.n].produced + Len(data)
    BY <1>1 DEF NodeState
  <2> QED  BY <1>1, <2>1, <2>2
<1>3. r.rc = "ok" /\ r.data = data
  BY DEF Got
<1>4. Answering(Below) = Top.n
  BY CallerFacts DEF Answering, Flowing
<1> HIDE DEF after, x, r
<1>5. T = Gave(node)
  <2>1. ASSUME NEW m \in Nodes
        PROVE  after[m].produced - (IF r.rc = "ok" /\ m = Answering(Below) THEN Len(r.data) ELSE 0)
                 = node[m].produced
    <3> DEFINE p == node[m].produced
               l == Len(data)
    <3>1. p \in Nat /\ l \in Nat
      BY <1>1
    <3> HIDE DEF p, l
    <3>2. CASE m = Top.n
      <4>1. after[m].produced = p + l
        BY <1>2, <3>2 DEF p, l
      <4>2. after[m].produced - l = p
        BY <3>1, <4>1
      <4> QED  BY <1>3, <1>4, <3>2, <4>2 DEF p, l
    <3>3. CASE m # Top.n
      <4>1. after[m].produced = p
        BY <1>1, <1>2, <3>3 DEF p
      <4>2. after[m].produced - 0 = p
        BY <3>1, <4>1
      <4> QED  BY <1>4, <3>3, <4>2 DEF p
    <3> QED  BY <3>2, <3>3
  <2> QED  BY <2>1 DEF Taken, Gave
<1> HIDE DEF T
<1>6. ASSUME NEW n \in Nodes, NEW g, Hand(n, Below, g) PROVE Right(n, after[n], g, T)
  <2>1. IF n = Top.n THEN g = Idle ELSE Hand(n, stack, g)
    BY <1>6, HandTop DEF Flowing
  <2>2. CASE n = Top.n
    BY <1>2, <1>5, <2>1, <2>2 DEF x
  <2>3. CASE n # Top.n
    <3>1. Right(n, node[n], g, Taken(node, stack, ret)) /\ after[n] = node[n]
      BY <1>2, <2>1, <2>3 DEF Flowing, Flow, Kept, Elsewhere
    <3>2. \A u : Draws(n, u) => Taken(node, stack, ret)[u] = Gave(node)[u]
      BY <2>3, OthersTook
    <3>3. Right(n, node[n], g, Gave(node))
      BY <3>1, <3>2, RightSame DEF Flowing
    <3> QED  BY <1>5, <3>1, <3>3
  <2> QED  BY <2>2, <2>3
<1>7. T \in [Nodes -> Nat] /\ T[Answering(Below)] = node[Top.n].produced
  BY <1>1, <1>4, <1>5, OthersTook
<1>8. Len(sink) = T[Root]
  BY <1>5, RootTook
<1> QED  BY <1>3, <1>4, <1>6, <1>7, <1>8 DEF Flow, T, after, r

\* Nothing moves when a call begins, or has nothing to give.
LEMMA FlowEnter ==
  ASSUME graph \in Graphs, NEW nodes, NEW s, PullInv(nodes, s, NoRet, "ok"),
         Flow(nodes, s, NoRet), NEW m \in Nodes, NEW want, Enter(m, want, nodes, s),
         PullInv(node', stack', ret', err')
  PROVE  Flow(node', stack', ret')
<1> DEFINE w == Least(want, graph.size[m] - nodes[m].produced)
           f == [n |-> m, want |-> w, acc |-> <<>>, at |-> "loop", k |-> 1]
<1>1. node' = nodes /\ \/ stack' = s /\ ret' = Got(<<>>)
                       \/ stack' = Append(s, f) /\ ret' = NoRet
  BY DEF Enter, PullInv
<1>2. f.n = m /\ f.acc = Idle.acc /\ f.k = Idle.k /\ f.at = Idle.at
  BY DEF Idle
<1> HIDE DEF f
<1>3. ASSUME NEW t, NEW r, r = NoRet \/ r = Got(<<>>) PROVE Taken(nodes, t, r) = Gave(nodes)
  <2>1. \A u \in Nodes : nodes[u].produced \in Nat
    BY StateFacts DEF PullInv
  <2>2. Len(r.data) = 0
    BY <1>3, EmptySeq DEF NoRet, Got
  <2>3. \A u \in Nodes :
          nodes[u].produced - (IF r.rc = "ok" /\ u = Answering(t) THEN Len(r.data) ELSE 0)
            = nodes[u].produced
    BY <2>1, <2>2
  <2> QED  BY <2>3 DEF Taken, Gave
<1>4. Taken(nodes, s, NoRet) = Gave(nodes)
  BY <1>3
<1>5. CASE stack' = s /\ ret' = Got(<<>>)
  <2>1. Taken(nodes, s, Got(<<>>)) = Gave(nodes)
    BY <1>3
  <2>2. Part(Got(<<>>).data, Gave(nodes)[Answering(s)], Content[Answering(s)])
    BY PartNone DEF Got
  <2>3. Flow(nodes, s, Got(<<>>))
    BY <1>4, <2>1, <2>2 DEF Flow
  <2> QED  BY <1>1, <1>5, <2>3
<1>6. CASE stack' = Append(s, f) /\ ret' = NoRet
  <2> DEFINE u == Append(s, f)
  <2>1. Calls(u, nodes) /\ u \in Seq(Request) /\ s \in Seq(Request)
    BY <1>1, <1>6 DEF PullInv, Calls
  <2>2. f \in Request
    <3>1. Len(u) = Len(s) + 1 /\ u[Len(s) + 1] = f /\ Len(s) \in Nat
      BY <2>1, AppendProperties
    <3> HIDE DEF u
    <3>2. Len(s) + 1 \in 1 .. Len(u)
      BY <3>1
    <3> QED  BY <2>1, <3>1, <3>2, ElementOfSeq
  <2>3. ASSUME NEW n \in Nodes, NEW g, Hand(n, u, g)
        PROVE  Right(n, nodes[n], g, Gave(nodes))
    <3>1. (IF n = f.n THEN g = f ELSE Hand(n, s, g)) /\ Hand(f.n, s, Idle)
      BY <2>1, <2>2, <2>3, HandPush
    <3>2. CASE n = m
      <4>1. Right(m, nodes[m], Idle, Gave(nodes))
        BY <1>2, <1>4, <3>1 DEF Flow
      <4>2. Right(m, nodes[m], f, Gave(nodes))
        BY <1>2, <4>1, RightSame
      <4> QED  BY <1>2, <3>1, <3>2, <4>2
    <3>3. CASE n # m
      BY <1>2, <1>4, <3>1, <3>3 DEF Flow
    <3> QED  BY <3>2, <3>3
  <2>4. /\ Taken(nodes, u, NoRet) = Gave(nodes) /\ Gave(nodes) \in [Nodes -> Nat]
        /\ Len(sink) = Gave(nodes)[Root]
    <3>1. Taken(nodes, u, NoRet) = Gave(nodes)
      BY <1>3
    <3> HIDE DEF u
    <3> QED  BY <1>4, <3>1 DEF Flow
  <2> HIDE DEF u
  <2>5. Flow(nodes, u, NoRet)
    BY <2>3, <2>4 DEF Flow, NoRet
  <2> QED  BY <1>1, <1>6, <2>5 DEF u
<1> QED  BY <1>1, <1>5, <1>6

LEMMA FlowPull ==
  ASSUME Flowing, stack # <<>>, NEW nodes, Kept(nodes), NEW want, NEW at, NEW m,
         \/ /\ at = "in" /\ m = In(Top.n) /\ Kind(Top.n) # "pack"
            /\ Kind(Top.n) # "copy" => Len(Top.acc) < Top.want
            /\ Kind(Top.n) = "filter" => nodes[Top.n].out = <<>>
         \/ at = "side" /\ m = SideNode(Top.n, Top.k) /\ Kind(Top.n) = "bcj2",
         Pull(m, want, nodes, at),
         Right(Top.n, nodes[Top.n], [Top EXCEPT !.at = at], Gave(node)),
         PullInv(node', stack', ret', err')
  PROVE  Flow(node', stack', ret')
<1> DEFINE f == [Top EXCEPT !.at = at]
<1>1. /\ f \in Request /\ f.n = Top.n /\ f.want = Top.want /\ f.acc = Top.acc
      /\ f.at = at /\ f.k = Top.k /\ Top.k \in 1 .. 3 /\ Top.n \in Nodes
  BY TopFacts DEF Request, Flowing
<1> HIDE DEF f
<1>2. InHand(f, nodes)
  <2>1. /\ Len(f.acc) <= f.want /\ node[Top.n].produced + f.want <= graph.size[Top.n]
    BY <1>1, TopFacts DEF InHand, Flowing
  <2> QED  BY <1>1, <2>1 DEF InHand, Waits, Kept
<1>3. PullInv(nodes, Append(Below, f), NoRet, "ok")
  BY <1>1, <1>2, AgainKeeps DEF Flowing
<1>4. Flow(nodes, Append(Below, f), NoRet)
  BY <1>1, FlowAgain DEF f
<1>5. m \in Nodes /\ graph \in Graphs
  BY <1>1, GraphFacts DEF Flowing
<1>6. Enter(m, want, nodes, Append(Below, f))
  BY DEF Pull, f
<1> QED  BY <1>3, <1>4, <1>5, <1>6, FlowEnter

\* A node that fails ends it.
LEMMA FlowFails ==
  ASSUME Flowing, stack # <<>>, NEW status, status # "ok", FailNode(Top.n, status)
  PROVE  err' # "ok" /\ ret' = Failure
<1>1. ~node[Top.n].failed
  BY TopFacts DEF Flowing, PullInv
<1> QED  BY <1>1 DEF FailNode

-------------------------------------------------------------------------------
(* A node that converts.                                                   *)

Plain == {"lzma", "filter", "aes"}
Converted(n, s) == IF Kind(n) = "lzma" THEN Doubled(s) ELSE s

LEMMA StraightIs ==
  ASSUME Flowing, stack # <<>>, Kind(Top.n) \in Plain, NEW x, NEW f, NEW t
  PROVE  Right(Top.n, x, f, t) <=> Straight(Top.n, x.produced, f.acc \o x.out, x.buf, t)
BY DEF Right, Plain

LEMMA Inputs ==
  ASSUME graph \in Graphs, NEW n \in Nodes
  PROVE  /\ Raw(n, Content) \in Bytes /\ Content[n] \in Bytes
         /\ Kind(n) # "pack" => In(n) \in Nodes /\ Content[In(n)] \in Bytes
         /\ Kind(n) = "bcj2" => \A j \in 1 .. 3 : /\ SideNode(n, j) \in Nodes
                                                  /\ Content[SideNode(n, j)] \in Bytes
BY ContentIs, GraphFacts

\* The next k bytes are converted; AES converts whole blocks.
LEMMA StraightTake ==
  ASSUME graph \in Graphs, NEW n \in Nodes, Kind(n) \in Plain,
         NEW p \in Nat, NEW made \in Bytes, NEW b \in Bytes, NEW t,
         NEW k \in Nat, k <= Len(b), Kind(n) = "aes" => k = Block,
         Straight(n, p, made, b, t)
  PROVE  Straight(n, p, made \o Converted(n, Take(b, k)), Drop(b, k), t)
<1> DEFINE R == Raw(n, Content)
           C == Content[In(n)]
           u == Take(b, k)
           v == Drop(b, k)
           d == Converted(n, u)
           l == Len(made)
<1>1. R \in Bytes /\ C \in Bytes
  BY Inputs DEF Plain
<1>2. PICK q \in Nat : /\ Part(made, p, R) /\ p + l = MadeOf(n, q)
                       /\ Part(b, q, C) /\ q + Len(b) = t[In(n)]
                       /\ Kind(n) = "aes" => \E j \in Nat : q = Block * j
  BY DEF Straight
<1>3. u \in Bytes /\ v \in Bytes /\ Len(u) = k /\ Len(v) = Len(b) - k /\ Len(b) \in Nat /\ l \in Nat
  BY TakeDrop, Items DEF Least
<1>4. Part(u, q, C) /\ Part(v, q + k, C)
  <2>1. Least(k, Len(b)) = k
    BY DEF Least
  <2> QED  BY <1>1, <1>2, <2>1, PartSplit
<1>5. q + k + Len(v) = t[In(n)] /\ q + k \in Nat
  <2> DEFINE lb == Len(b)
             lv == Len(v)
  <2> HIDE DEF lb, lv, v
  <2>1. lb \in Nat /\ lv = lb - k
    BY <1>3 DEF lb, lv
  <2>2. q + k + lv = q + lb /\ q + k \in Nat
    BY <2>1
  <2> QED  BY <1>2, <2>2 DEF lb, lv
<1> HIDE DEF R, C, u, v
<1>6. CASE Kind(n) = "lzma"
  <2>1. R = Doubled(C) /\ d = Doubled(u) /\ MadeOf(n, q) = 2 * q /\ MadeOf(n, q + k) = 2 * (q + k)
    BY <1>6, RawIs DEF R, C, Converted, MadeOf, CoderKinds
  <2>2. d \in Bytes /\ Len(d) = 2 * k /\ Part(d, 2 * q, R)
    BY <1>1, <1>3, <1>4, <2>1, DoubledBytes, PartDouble
  <2> HIDE DEF d, l
  <2>3. p + l = 2 * q
    BY <1>2, <2>1
  <2>4. Part(made \o d, p, R) /\ Len(made \o d) = l + 2 * k
    <3>1. Part(d, p + Len(made), R)
      BY <2>2, <2>3 DEF l
    <3>2. Part(made \o d, p, R)
      BY <1>1, <1>2, <2>2, <3>1, PartJoin
    <3>3. Len(made \o d) = Len(made) + Len(d)
      BY <2>2, JoinBytes
    <3> QED  BY <2>2, <3>2, <3>3 DEF l
  <2>5. p + Len(made \o d) = MadeOf(n, q + k)
    <3>1. p + (l + 2 * k) = 2 * (q + k)
      BY <1>3, <2>3
    <3> QED  BY <2>1, <2>4, <3>1
  <2> QED  BY <1>4, <1>5, <1>6, <2>4, <2>5 DEF Straight, R, C, v, d, u
<1>7. CASE Kind(n) \in {"filter", "aes"}
  <2>1. d = u /\ MadeOf(n, q) = q /\ MadeOf(n, q + k) = q + k
    BY <1>7 DEF Converted, MadeOf
  <2>2. /\ Part(u, q, R)
        /\ Kind(n) = "aes" => \E j \in Nat : q + k = Block * j
    <3>1. CASE Kind(n) = "filter"
      BY <1>4, <3>1, RawIs DEF R, C, CoderKinds
    <3>2. CASE Kind(n) = "aes"
      <4> DEFINE m == Len(C)
                 whole == Block * (m \div Block)
      <4>1. PICK j \in Nat : q = Block * j
        BY <1>2, <3>2
      <4>2. R = Take(C, whole) /\ k = Block
        BY <3>2, RawIs DEF R, C, CoderKinds
      <4>3. m \in Nat /\ Block \in Nat \ {0}
        BY <1>1, Items, ChainCapsAssumption
      <4>4. q + k <= m
        <5>1. u # <<>>
          BY <1>3, <4>2, <4>3, EmptySeq
        <5> QED  BY <1>1, <1>3, <1>4, <5>1, PartFits
      <4> HIDE DEF m
      <4>5. q + k = Block * (j + 1)
        BY <4>1, <4>2, <4>3
      <4>6. m \div Block \in Nat /\ j + 1 <= m \div Block
        <5>1. Block * (j + 1) <= m
          BY <4>4, <4>5
        <5>2. m \div Block \in Nat /\ m < Block * (m \div Block) + Block
          BY <4>3
        <5> DEFINE h == m \div Block
        <5>3. h \in Nat /\ Block * (j + 1) < Block * (h + 1)
          BY <4>3, <5>1, <5>2
        <5> HIDE DEF h
        <5>4. j + 1 < h + 1
          <6>1. SUFFICES ASSUME h + 1 <= j + 1 PROVE FALSE
            BY <5>3
          <6>2. Block * (h + 1) <= Block * (j + 1)
            BY <4>3, <5>3, <6>1
          <6> QED  BY <4>3, <5>3, <6>2
        <5> QED  BY <5>2, <5>3, <5>4 DEF h
      <4>7. whole \in Nat /\ q + k <= whole
        <5> DEFINE h == m \div Block
        <5>1. h \in Nat /\ j + 1 <= h
          BY <4>6
        <5> HIDE DEF h
        <5>2. Block * h \in Nat /\ Block * (j + 1) <= Block * h
          BY <4>3, <5>1
        <5> QED  BY <4>5, <5>2 DEF h
      <4> HIDE DEF whole
      <4>8. Part(u, q, R)
        BY <1>1, <1>3, <1>4, <4>2, <4>7, PartCut
      <4> QED  BY <4>5, <4>8
    <3> QED  BY <1>7, <3>1, <3>2
  <2> HIDE DEF d, l
  <2>3. p + l = q
    BY <1>2, <2>1
  <2>4. Part(made \o d, p, R) /\ Len(made \o d) = l + k
    BY <1>1, <1>2, <1>3, <2>1, <2>2, <2>3, PartJoin, JoinBytes DEF l
  <2>5. p + Len(made \o d) = MadeOf(n, q + k)
    <3>1. p + (l + k) = q + k
      BY <1>3, <2>3
    <3> QED  BY <2>1, <2>4, <3>1
  <2> QED  BY <1>4, <1>5, <2>2, <2>4, <2>5 DEF Straight, R, C, v, d, u
<1> QED  BY <1>6, <1>7 DEF Plain

LEMMA StraightStore ==
  ASSUME graph \in Graphs, NEW n \in Nodes, Kind(n) \in Plain,
         NEW p, NEW made, NEW b \in Bytes, NEW d \in Bytes, NEW t, NEW s,
         t[In(n)] \in Nat, s[In(n)] = t[In(n)] + Len(d), Part(d, t[In(n)], Content[In(n)]),
         Straight(n, p, made, b, t)
  PROVE  Straight(n, p, made, b \o d, s)
<1> DEFINE C == Content[In(n)]
<1>1. C \in Bytes
  BY Inputs DEF Plain
<1>2. PICK q \in Nat : /\ Part(made, p, Raw(n, Content)) /\ p + Len(made) = MadeOf(n, q)
                       /\ Part(b, q, C) /\ q + Len(b) = t[In(n)]
                       /\ Kind(n) = "aes" => \E j \in Nat : q = Block * j
  BY DEF Straight
<1> HIDE DEF C
<1>3. Part(b \o d, q, C)
  BY <1>1, <1>2, PartJoin DEF C
<1>4. q + Len(b \o d) = s[In(n)]
  <2>1. Len(b \o d) = Len(b) + Len(d) /\ Len(b) \in Nat /\ Len(d) \in Nat
    BY JoinBytes
  <2>2. q + (Len(b) + Len(d)) = (q + Len(b)) + Len(d)
    BY <2>1
  <2> QED  BY <1>2, <2>1, <2>2
<1> QED  BY <1>2, <1>3, <1>4 DEF Straight, C

\* What a call has is given out: it is what the node holds in its place.
LEMMA StraightLeave ==
  ASSUME graph \in Graphs, NEW n \in Nodes, NEW p \in Nat, NEW a \in Bytes, NEW o \in Bytes,
         NEW b, NEW t, Straight(n, p, a \o o, b, t), p + Len(a) <= graph.size[n]
  PROVE  /\ Straight(n, p + Len(a), <<>> \o o, b, t)
         /\ Part(a, p, Content[n])
<1> DEFINE R == Raw(n, Content)
<1>1. R \in Bytes /\ graph.size[n] \in Nat /\ Content[n] = Take(R, graph.size[n])
  BY ContentIs, GraphFacts
<1>2. PICK q \in Nat : /\ Part(a \o o, p, R) /\ p + Len(a \o o) = MadeOf(n, q)
                       /\ Part(b, q, Content[In(n)]) /\ q + Len(b) = t[In(n)]
                       /\ Kind(n) = "aes" => \E j \in Nat : q = Block * j
  BY DEF Straight
<1> HIDE DEF R
<1>3. Part(a, p, R) /\ Part(o, p + Len(a), R)
  BY <1>1, <1>2, PartJoin
<1>4. <<>> \o o = o
  BY DEF Bytes
<1>5. p + Len(a) + Len(o) = MadeOf(n, q)
  <2>1. Len(a \o o) = Len(a) + Len(o) /\ Len(a) \in Nat /\ Len(o) \in Nat
    BY JoinBytes
  <2>2. p + (Len(a) + Len(o)) = p + Len(a) + Len(o)
    BY <2>1
  <2> QED  BY <1>2, <2>1, <2>2
<1>6. Part(a, p, Content[n])
  BY <1>1, <1>3, PartCut
<1> QED  BY <1>2, <1>3, <1>4, <1>5, <1>6 DEF Straight, R

\* The front of what is converted moves to the call.
LEMMA JoinAgain ==
  ASSUME NEW a \in Bytes, NEW b \in Bytes, NEW c \in Bytes
  PROVE  (a \o b) \o c = a \o (b \o c)
BY DEF Bytes

LEMMA GiveOut ==
  ASSUME NEW a \in Bytes, NEW o \in Bytes, NEW k \in Nat
  PROVE  (a \o Take(o, k)) \o Drop(o, k) = a \o o
<1>1. Take(o, k) \in Bytes /\ Drop(o, k) \in Bytes /\ Take(o, k) \o Drop(o, k) = o
  BY TakeDrop, TakeDropItems
<1> DEFINE u == Take(o, k)
           v == Drop(o, k)
<1> HIDE DEF u, v
<1>2. (a \o u) \o v = a \o (u \o v)
  BY <1>1, JoinAgain DEF u, v
<1> QED  BY <1>1, <1>2 DEF u, v

-------------------------------------------------------------------------------
(* Where the bytes are after a step of each kind of node.                  *)

\* A node that leaves gives out a part of its content.
LEMMA FlowGive ==
  ASSUME Flowing, stack # <<>>, NEW nodes, Kept(nodes), NEW data \in Bytes,
         Right(Top.n, [nodes[Top.n] EXCEPT !.produced = @ + Len(data)], Idle, Gave(node)),
         Part(data, node[Top.n].produced, Content[Top.n]),
         Leave(Top.n, nodes, data)
  PROVE  Flow(node', stack', ret')
BY FlowLeave DEF Leave

LEMMA FlowOn ==
  ASSUME Flowing, stack # <<>>, NEW nodes, Kept(nodes), NEW f \in Request, f.n = Top.n,
         Right(Top.n, nodes[Top.n], f, Gave(node)), Again(nodes, f)
  PROVE  Flow(node', stack', ret')
BY FlowAgain DEF Again

\* What there is to know of the call on top and its node.
LEMMA FlowFacts ==
  ASSUME Flowing, stack # <<>>
  PROVE  /\ graph \in Graphs /\ PullInv(node, stack, ret, err)
         /\ node \in [Nodes -> NodeState] /\ Top.n \in Nodes /\ node[Top.n] \in NodeState
         /\ Top \in Request /\ Top.acc \in Bytes /\ Len(Top.acc) <= Top.want
         /\ node[Top.n].produced \in Nat /\ node[Top.n].buf \in Bytes /\ node[Top.n].out \in Bytes
         /\ node[Top.n].produced + Len(Top.acc) <= graph.size[Top.n]
         /\ node[Top.n].produced + Top.want <= graph.size[Top.n] /\ graph.size[Top.n] \in Nat
         /\ Want \in Nat /\ Len(Top.acc) \in Nat
<1>1. /\ graph \in Graphs /\ PullInv(node, stack, ret, err)
      /\ node \in [Nodes -> NodeState] /\ Top.n \in Nodes /\ node[Top.n] \in NodeState
      /\ Top \in Request
  BY TopFacts DEF Flowing, PullInv
<1>2. /\ Top.acc \in Bytes /\ node[Top.n].buf \in Bytes /\ node[Top.n].out \in Bytes
      /\ Len(Top.acc) <= Top.want /\ Top.want \in Nat /\ Len(Top.acc) \in Nat /\ Want \in Nat
      /\ node[Top.n].produced + Top.want <= graph.size[Top.n]
  BY <1>1, WantFacts, TopFacts DEF InHand
<1>3. node[Top.n].produced \in Nat /\ graph.size[Top.n] \in Nat
  BY <1>1, StateFacts, GraphFacts
<1> DEFINE p == node[Top.n].produced
           a == Len(Top.acc)
           w == Top.want
           z == graph.size[Top.n]
<1>4. p \in Nat /\ a \in Nat /\ w \in Nat /\ z \in Nat /\ a <= w /\ p + w <= z
  BY <1>2, <1>3
<1> HIDE DEF p, a, w, z
<1>5. p + a <= z
  BY <1>4
<1> QED  BY <1>1, <1>2, <1>3, <1>5 DEF p, a, z

LEMMA PackFlow ==
  ASSUME Flowing, PullPack
  PROVE  IF err' = "ok" THEN Flow(node', stack', ret') ELSE ret' = Failure
<1> DEFINE n == Top.n
           p == node[n].produced
           w == Top.want
           z == graph.size[n]
           data == [i \in 1 .. w |-> 16 * n + p + i]
           R == Raw(n, Content)
<1>1. stack # <<>> /\ ret = NoRet /\ Kind(n) = "pack"
  BY DEF PullPack, Running
<1>2. Leave(n, node, data) \/ FailNode(n, "READ")
  BY DEF PullPack
<1>3. CASE FailNode(n, "READ")
  BY <1>1, <1>3, FlowFails
<1>4. CASE Leave(n, node, data)
  <2>1. /\ Kept(node) /\ n \in Nat /\ p \in Nat /\ w \in Nat /\ z \in Nat /\ p + w <= z
        /\ n \in Nodes /\ graph \in Graphs
    BY <1>1, KeptSame, FlowFacts, GraphFacts DEF Request
  <2>2. R = [i \in 1 .. z |-> 16 * n + i] /\ Content[n] = Take(R, z)
    <3>1. Kind(n) \in CoderKinds
      BY <2>1, GraphFacts
    <3>2. R = [i \in 1 .. z |-> 16 * n + i]
      BY <1>1, <3>1, RawIs
    <3>3. Content[n] = Take(R, z)
      BY <2>1, ContentIs
    <3> QED  BY <3>2, <3>3
  <2> HIDE DEF n, p, w, z, R
  <2>3. data \in Seq(Nat) /\ Len(data) = w /\ R \in Seq(Nat) /\ Len(R) = z
    <3>1. data \in Seq(Nat) /\ Len(data) = w
      BY <2>1
    <3>2. [i \in 1 .. z |-> 16 * n + i] \in Seq(Nat) /\ Len([i \in 1 .. z |-> 16 * n + i]) = z
      BY <2>1
    <3> QED  BY <2>2, <3>1, <3>2
  <2>4. Part(data, p, R)
    <3> SUFFICES ASSUME NEW i \in 1 .. w PROVE p + i \in 1 .. z /\ data[i] = R[p + i]
      BY <2>3 DEF Part
    <3>1. p + i \in 1 .. z /\ 16 * n + p + i = 16 * n + (p + i)
      BY <2>1
    <3>2. data[i] = 16 * n + p + i
      OBVIOUS
    <3> QED  BY <2>2, <3>1, <3>2
  <2> HIDE DEF data
  <2>5. data \in Bytes /\ R \in Bytes
    BY <2>3 DEF Bytes
  <2>6. Part(data, p, Content[n])
    BY <2>1, <2>2, <2>3, <2>4, <2>5, PartCut
  <2> DEFINE x == [node[Top.n] EXCEPT !.produced = @ + Len(data)]
  <2> HIDE DEF x
  <2>7. Right(Top.n, x, Idle, Gave(node))
    BY <1>1 DEF Right, Idle, n
  <2>8. Flow(node', stack', ret')
    BY <1>1, <1>4, <2>1, <2>5, <2>6, <2>7, FlowGive DEF n, p, x
  <2>9. err' = err
    BY <1>4 DEF Leave
  <2> QED  BY <2>8, <2>9 DEF Flowing
<1> QED  BY <1>2, <1>3, <1>4

LEMMA CopyFlow ==
  ASSUME Flowing, PullCopy, PullInv(node', stack', ret', err')
  PROVE  IF err' = "ok" THEN Flow(node', stack', ret') ELSE ret' = Failure
<1> DEFINE n == Top.n
<1>1. err' = "ok"
  BY DEF PullCopy, Pull, Enter, Leave, Flowing
<1>2. CASE Running("copy", "loop") /\ Pull(In(n), Top.want, node, "in")
  <2>1. stack # <<>> /\ ret = NoRet /\ Kind(n) = "copy" /\ Kept(node)
    BY <1>2, KeptSame DEF Running, Flowing
  <2>2. Right(n, node[n], Top, Gave(node)) /\ Top \in Request
    BY <2>1, TopRight, FlowFacts
  <2> DEFINE g == [Top EXCEPT !.at = "in"]
  <2>3. g.acc = Top.acc
    BY <2>2 DEF Request
  <2> HIDE DEF g
  <2>4. Right(n, node[n], g, Gave(node))
    BY <2>1, <2>2, <2>3 DEF Right
  <2> QED  BY <1>1, <1>2, <2>1, <2>4, FlowPull DEF g
<1>3. CASE stack # <<>> /\ ret.rc = "ok" /\ Kind(n) = "copy" /\ Leave(n, node, ret.data)
  <2> DEFINE T == Taken(node, stack, ret)
             d == ret.data
             u == In(n)
             p == node[n].produced
             x == [node[n] EXCEPT !.produced = @ + Len(d)]
             R == Raw(n, Content)
  <2>1. Kept(node) /\ graph \in Graphs /\ n \in Nodes /\ p \in Nat /\ node[n] \in NodeState
    BY <1>3, KeptSame, FlowFacts
  <2>2. d \in Bytes /\ Len(d) <= Top.want /\ Top.at # "side"
    BY <1>3, TopFacts DEF PullInv, Answer, Top, NoRet, Failure, Got, Flowing, InHand
  <2>3. Asks(Top) = u /\ u \in Nodes
    BY <1>3, <2>1, <2>2, GraphFacts DEF Asks
  <2>4. /\ T[u] + Len(d) = Gave(node)[u] /\ Part(d, T[u], Content[u])
    BY <1>3, <2>3, OthersTook DEF Flowing, Flow
  <2>5. p = T[u]
    BY <1>3, TopRight DEF Right
  <2>6. x.produced = p + Len(d)
    BY <2>1 DEF NodeState
  <2> HIDE DEF x
  <2>7. Right(n, x, Idle, Gave(node))
    <3>1. x.produced = Gave(node)[In(n)]
      BY <2>4, <2>5, <2>6
    <3> QED  BY <1>3, <3>1 DEF Right, Idle
  <2>8. R = Content[u] /\ R \in Bytes /\ Content[n] = Take(R, graph.size[n])
    BY <1>3, <2>1, RawIs, ContentIs DEF CoderKinds
  <2>9. p + Len(d) <= graph.size[n]
    <3>1. p + Top.want <= graph.size[n] /\ Top.want \in Nat /\ graph.size[n] \in Nat
      BY <1>3, FlowFacts DEF Request
    <3> DEFINE l == Len(d)
               w == Top.want
               z == graph.size[n]
    <3>2. l \in Nat /\ l <= w /\ p + w <= z /\ w \in Nat /\ z \in Nat
      BY <2>2, <3>1, Items
    <3> HIDE DEF l, w, z, p
    <3>3. p + l <= z
      BY <2>1, <3>2
    <3> QED  BY <3>3 DEF l, z
  <2>10. Part(d, p, Content[n])
    <3>1. graph.size[n] \in Nat /\ Part(d, p, R)
      BY <1>3, <2>4, <2>5, <2>8, FlowFacts
    <3> QED  BY <2>1, <2>2, <2>8, <2>9, <3>1, PartCut
  <2> QED  BY <1>1, <1>3, <2>1, <2>2, <2>7, <2>10, FlowGive DEF x
<1> QED  BY <1>2, <1>3 DEF PullCopy

\* A node that converts and gives out what its call has.
LEMMA FlowStraightLeave ==
  ASSUME Flowing, stack # <<>>, ret = NoRet, Kind(Top.n) \in Plain,
         NEW nodes, Kept(nodes), nodes[Top.n].out = node[Top.n].out,
         nodes[Top.n].buf = node[Top.n].buf, Leave(Top.n, nodes, Top.acc)
  PROVE  Flow(node', stack', ret')
<1> DEFINE n == Top.n
           y == node[n]
           x == [nodes[n] EXCEPT !.produced = @ + Len(Top.acc)]
<1>1. /\ graph \in Graphs /\ n \in Nodes /\ y.produced \in Nat /\ Top.acc \in Bytes
      /\ y.out \in Bytes /\ y.produced + Len(Top.acc) <= graph.size[n]
      /\ nodes \in [Nodes -> NodeState] /\ nodes[n].produced = y.produced
  BY FlowFacts, KeptCounts
<1>2. Straight(n, y.produced, Top.acc \o y.out, y.buf, Gave(node))
  BY TopRight, StraightIs
<1>3. /\ Straight(n, y.produced + Len(Top.acc), <<>> \o y.out, y.buf, Gave(node))
      /\ Part(Top.acc, y.produced, Content[n])
  BY <1>1, <1>2, StraightLeave
<1>4. x.produced = y.produced + Len(Top.acc) /\ x.out = y.out /\ x.buf = y.buf
  BY <1>1 DEF NodeState
<1> HIDE DEF x
<1>5. Right(n, x, Idle, Gave(node))
  BY <1>3, <1>4, StraightIs DEF Idle
<1> QED  BY <1>1, <1>3, <1>5, FlowGive DEF x

\* Its call asks for more.
LEMMA FlowStraightPull ==
  ASSUME Flowing, stack # <<>>, ret = NoRet, Kind(Top.n) \in Plain, Len(Top.acc) < Top.want,
         NEW nodes, Kept(nodes), nodes[Top.n].out = node[Top.n].out,
         nodes[Top.n].buf = node[Top.n].buf, Kind(Top.n) = "filter" => node[Top.n].out = <<>>,
         NEW want, Pull(In(Top.n), want, nodes, "in"), PullInv(node', stack', ret', err')
  PROVE  Flow(node', stack', ret')
<1> DEFINE n == Top.n
           g == [Top EXCEPT !.at = "in"]
<1>1. Straight(n, node[n].produced, Top.acc \o node[n].out, node[n].buf, Gave(node))
  BY TopRight, StraightIs
<1>2. nodes[n].produced = node[n].produced
  BY DEF Kept
<1>3. g.acc = Top.acc
  BY FlowFacts DEF Request
<1> HIDE DEF g
<1>4. Right(n, nodes[n], g, Gave(node))
  BY <1>1, <1>2, <1>3, StraightIs
<1>5. Kind(n) # "pack"
  BY DEF Plain
<1> QED  BY <1>4, <1>5, FlowPull DEF g

\* One iteration: k more bytes are converted, or none, and some given to the call.
LEMMA FlowStraightOn ==
  ASSUME Flowing, stack # <<>>, ret = NoRet, Kind(Top.n) \in Plain,
         NEW nodes, Kept(nodes), NEW f \in Request, f.n = Top.n, Again(nodes, f),
         \/ nodes[Top.n].buf = node[Top.n].buf /\ f.acc \o nodes[Top.n].out = Top.acc \o node[Top.n].out
         \/ \E k \in Nat :
              /\ k <= Len(node[Top.n].buf) /\ (Kind(Top.n) = "aes" => k = Block)
              /\ nodes[Top.n].buf = Drop(node[Top.n].buf, k)
              /\ f.acc \o nodes[Top.n].out = (Top.acc \o node[Top.n].out)
                                               \o Converted(Top.n, Take(node[Top.n].buf, k))
  PROVE  Flow(node', stack', ret')
<1> DEFINE n == Top.n
           y == node[n]
           made == Top.acc \o y.out
<1>1. /\ graph \in Graphs /\ n \in Nodes /\ y.produced \in Nat /\ made \in Bytes /\ y.buf \in Bytes
      /\ nodes[n].produced = y.produced
  BY FlowFacts, JoinBytes DEF Kept
<1>2. Straight(n, y.produced, made, y.buf, Gave(node))
  BY TopRight, StraightIs
<1> HIDE DEF made
<1>3. Straight(n, nodes[n].produced, f.acc \o nodes[n].out, nodes[n].buf, Gave(node))
  <2>1. CASE nodes[n].buf = y.buf /\ f.acc \o nodes[n].out = Top.acc \o y.out
    BY <1>1, <1>2, <2>1 DEF made
  <2>2. CASE \E k \in Nat :
              /\ k <= Len(y.buf) /\ (Kind(n) = "aes" => k = Block)
              /\ nodes[n].buf = Drop(y.buf, k)
              /\ f.acc \o nodes[n].out = (Top.acc \o y.out) \o Converted(n, Take(y.buf, k))
    <3> PICK k \in Nat :
              /\ k <= Len(y.buf) /\ (Kind(n) = "aes" => k = Block)
              /\ nodes[n].buf = Drop(y.buf, k)
              /\ f.acc \o nodes[n].out = made \o Converted(n, Take(y.buf, k))
      BY <2>2 DEF made
    <3>1. Straight(n, y.produced, made \o Converted(n, Take(y.buf, k)), Drop(y.buf, k), Gave(node))
      BY <1>1, <1>2, StraightTake
    <3> QED  BY <1>1, <3>1
  <2> QED  BY <2>1, <2>2
<1>4. Right(n, nodes[n], f, Gave(node))
  BY <1>3, StraightIs
<1> QED  BY <1>4, FlowOn

\* A step that only changes the node of the call on top and its frame.
LEMMA StepFacts ==
  ASSUME Flowing, stack # <<>>, ret = NoRet \/ Kind(Top.n) # "filter",
         NEW x, x.produced = node[Top.n].produced,
         Kind(Top.n) = "filter" => Holds(x) = Holds(node[Top.n]),
         NEW f, Again([node EXCEPT ![Top.n] = x], f), PullInv(node', stack', ret', err')
  PROVE  /\ f \in Request /\ x \in NodeState /\ err' = "ok"
         /\ Kept([node EXCEPT ![Top.n] = x]) /\ [node EXCEPT ![Top.n] = x][Top.n] = x
<1> DEFINE n == Top.n
<1>1. /\ node' = [node EXCEPT ![n] = x] /\ stack' = Append(Below, f) /\ err' = "ok"
      /\ node' \in [Nodes -> NodeState] /\ n \in Nodes /\ node \in [Nodes -> NodeState]
      /\ stack' \in Seq(Request) /\ Below \in Seq(Request)
      /\ graph \in Graphs /\ PullInv(node, stack, ret, err)
  BY FlowFacts, BelowFacts DEF Again, Flowing, PullInv, Calls
<1>2. node'[n] = x
  BY <1>1
<1>3. x \in NodeState
  BY <1>1, <1>2
<1>4. Within(n, x) /\ ~x.failed /\ ~node[n].failed
  BY <1>1, <1>2 DEF PullInv, Flowing
<1>5. Kind(n) = "filter" => Holds(x) = Holds(node[n]) + Arrived(n, stack, ret)
  <2>1. ret = NoRet => Arrived(n, stack, ret) = 0
    BY DEF Arrived, NoRet
  <2>2. Holds(node[n]) \in Nat
    BY <1>1, StateFacts
  <2> QED  BY <2>1, <2>2
<1>6. x.failed = node[n].failed
  <2>1. x.failed \in BOOLEAN /\ node[n].failed \in BOOLEAN
    BY <1>1, <1>3 DEF NodeState
  <2> QED  BY <1>4, <2>1
<1>7. f \in Request
  <2> DEFINE b == Below
             s == Append(b, f)
  <2>1. s \in Seq(Request) /\ b \in Seq(Request)
    BY <1>1
  <2> HIDE DEF b
  <2>2. Len(s) = Len(b) + 1 /\ s[Len(b) + 1] = f /\ Len(b) \in Nat
    BY <2>1, AppendProperties
  <2> HIDE DEF s
  <2>3. Len(b) + 1 \in 1 .. Len(s)
    BY <2>2
  <2> QED  BY <2>1, <2>2, <2>3, ElementOfSeq
<1> QED  BY <1>1, <1>3, <1>4, <1>5, <1>6, <1>7, KeptChange DEF Within

LEMMA StraightMove ==
  ASSUME Flowing, stack # <<>>, ret = NoRet, Kind(Top.n) \in Plain,
         NEW x, x.produced = node[Top.n].produced,
         Kind(Top.n) = "filter" => Holds(x) = Holds(node[Top.n]),
         NEW f, f.n = Top.n, Again([node EXCEPT ![Top.n] = x], f),
         PullInv(node', stack', ret', err'),
         \/ x.buf = node[Top.n].buf /\ f.acc \o x.out = Top.acc \o node[Top.n].out
         \/ \E k \in Nat :
              /\ k <= Len(node[Top.n].buf) /\ (Kind(Top.n) = "aes" => k = Block)
              /\ x.buf = Drop(node[Top.n].buf, k)
              /\ f.acc \o x.out = (Top.acc \o node[Top.n].out)
                                    \o Converted(Top.n, Take(node[Top.n].buf, k))
  PROVE  err' = "ok" /\ Flow(node', stack', ret')
<1> DEFINE nodes == [node EXCEPT ![Top.n] = x]
<1>1. f \in Request /\ err' = "ok" /\ Kept(nodes) /\ nodes[Top.n] = x /\ Again(nodes, f)
  BY StepFacts
<1> HIDE DEF nodes
<1> QED  BY <1>1, FlowStraightOn

LEMMA LzmaFlow ==
  ASSUME Flowing, PullLzma, PullInv(node', stack', ret', err')
  PROVE  IF err' = "ok" THEN Flow(node', stack', ret') ELSE ret' = Failure
<1> DEFINE n == Top.n
           b == node[n].buf
           o == node[n].out
           a == Top.acc
           k == Least((Want - Len(o) + 1) \div 2, Len(b))
           ready == o \o Doubled(Take(b, k))
           nodes == [node EXCEPT ![n].buf = Drop(b, k), ![n].out = Drop(ready, Want)]
           f == [Top EXCEPT !.acc = @ \o Take(ready, Want)]
<1>1. /\ stack # <<>> /\ ret = NoRet /\ Kind(n) = "lzma" /\ Kind(n) \in Plain /\ Kept(node)
  BY KeptSame DEF PullLzma, Running, Plain, Flowing
<1>2. \/ Leave(n, node, a)
      \/ Want # 0 /\ Pull(In(n), InCap, node, "in")
      \/ Want # 0 /\ Again(nodes, f)
      \/ FailNode(n, "DATA")
  BY DEF PullLzma
<1>3. CASE Leave(n, node, a)
  BY <1>1, <1>3, FlowStraightLeave DEF Leave, Flowing
<1>4. CASE Want # 0 /\ Pull(In(n), InCap, node, "in")
  <2>1. Len(a) < Top.want
    BY <1>1, <1>4, WantFacts DEF Flowing
  <2>2. err' = "ok"
    BY <1>4 DEF Pull, Enter, Flowing
  <2> QED  BY <1>1, <1>4, <2>1, <2>2, FlowStraightPull
<1>5. CASE Want # 0 /\ Again(nodes, f)
  <2>1. /\ b \in Bytes /\ o \in Bytes /\ a \in Bytes /\ Len(b) \in Nat /\ Want \in Nat \ {0}
        /\ node \in [Nodes -> NodeState] /\ n \in Nodes /\ Len(o) \in {0, 1} /\ Top \in Request
    <3>1. /\ b \in Bytes /\ o \in Bytes /\ a \in Bytes /\ Len(b) \in Nat /\ Want \in Nat \ {0}
          /\ node \in [Nodes -> NodeState] /\ n \in Nodes /\ Top \in Request /\ Len(o) \in Nat
      BY <1>1, <1>5, FlowFacts, Items
    <3>2. Len(o) <= 1
      BY <1>1, FlowFacts DEF PullInv, Within
    <3> DEFINE l == Len(o)
    <3>3. l \in Nat /\ l <= 1
      BY <3>1, <3>2
    <3> HIDE DEF l
    <3>4. l \in {0, 1}
      BY <3>3
    <3> QED  BY <3>1, <3>4 DEF l
  <2> HIDE DEF k, ready, f, b, o
  <2>2. k \in Nat /\ k <= Len(b)
    BY <2>1, HalfOf DEF k
  <2>3. Doubled(Take(b, k)) \in Bytes /\ ready \in Bytes
    BY <2>1, <2>2, TakeDrop, DoubledBytes, JoinBytes DEF ready
  <2> DEFINE x == [node[n] EXCEPT !.buf = Drop(b, k), !.out = Drop(ready, Want)]
  <2>4. nodes = [node EXCEPT ![n] = x]
    BY <2>1
  <2>5. x.produced = node[n].produced /\ x.buf = Drop(b, k) /\ x.out = Drop(ready, Want)
    BY <2>1 DEF NodeState
  <2>6. f.n = n /\ f.acc = a \o Take(ready, Want)
    BY <2>1 DEF Request, f
  <2> HIDE DEF x, nodes
  <2>7. f.acc \o x.out = (a \o o) \o Doubled(Take(b, k))
    <3>1. f.acc \o x.out = a \o ready
      <4>1. (a \o Take(ready, Want)) \o Drop(ready, Want) = a \o ready
        BY <2>1, <2>3, GiveOut
      <4> QED  BY <2>5, <2>6, <4>1
    <3>2. a \o (o \o Doubled(Take(b, k))) = (a \o o) \o Doubled(Take(b, k))
      <4> DEFINE d == Doubled(Take(b, k))
      <4>1. a \in Bytes /\ o \in Bytes /\ d \in Bytes
        BY <2>1, <2>3
      <4> HIDE DEF a, d
      <4> QED  BY <4>1, JoinAgain
    <3> QED  BY <3>1, <3>2 DEF ready
  <2>8. f.acc \o x.out = (Top.acc \o node[n].out) \o Converted(n, Take(node[n].buf, k))
    BY <1>1, <2>7 DEF Converted, o, b
  <2>9. k <= Len(node[n].buf) /\ x.buf = Drop(node[n].buf, k) /\ Kind(n) # "aes"
    BY <1>1, <2>2, <2>5 DEF b
  <2>10. Again([node EXCEPT ![n] = x], f)
    BY <1>5, <2>4
  <2>11. Flow(node', stack', ret') /\ err' = "ok"
    BY <1>1, <2>2, <2>5, <2>6, <2>8, <2>9, <2>10, StraightMove
  <2> QED  BY <2>11
<1>6. CASE FailNode(n, "DATA")
  BY <1>1, <1>6, FlowFails
<1> QED  BY <1>2, <1>3, <1>4, <1>5, <1>6

LEMMA AesFlow ==
  ASSUME Flowing, PullAes, PullInv(node', stack', ret', err')
  PROVE  IF err' = "ok" THEN Flow(node', stack', ret') ELSE ret' = Failure
<1> DEFINE n == Top.n
           o == node[n].out
           b == node[n].buf
           a == Top.acc
           f == [Top EXCEPT !.acc = @ \o Take(o, Want)]
<1>1. /\ stack # <<>> /\ ret = NoRet /\ Kind(n) = "aes" /\ Kind(n) \in Plain /\ Kept(node)
  BY KeptSame DEF PullAes, Running, Plain, Flowing
<1>2. /\ node \in [Nodes -> NodeState] /\ n \in Nodes /\ node[n] \in NodeState /\ Top \in Request
      /\ o \in Bytes /\ b \in Bytes /\ a \in Bytes /\ Len(b) \in Nat /\ Want \in Nat
  BY <1>1, FlowFacts, Items
<1>3. \/ Leave(n, node, a)
      \/ Again([node EXCEPT ![n].out = Drop(o, Want)], f)
      \/ /\ o = <<>> /\ Block <= Len(b)
         /\ Again([node EXCEPT ![n].out = Take(b, Block), ![n].buf = Drop(b, Block)], Top)
      \/ FailNode(n, "DATA")
      \/ Want # 0 /\ Pull(In(n), InCap - Len(b), node, "in")
  BY DEF PullAes
<1>4. CASE Leave(n, node, a)
  BY <1>1, <1>4, FlowStraightLeave DEF Leave, Flowing
<1>5. CASE Again([node EXCEPT ![n].out = Drop(o, Want)], f)
  <2> DEFINE x == [node[n] EXCEPT !.out = Drop(o, Want)]
  <2>1. [node EXCEPT ![n].out = Drop(o, Want)] = [node EXCEPT ![n] = x]
    OBVIOUS
  <2>2. x.produced = node[n].produced /\ x.buf = node[n].buf /\ x.out = Drop(o, Want)
    BY <1>2 DEF NodeState
  <2>3. f.n = n /\ f.acc = a \o Take(o, Want)
    BY <1>2 DEF Request
  <2> HIDE DEF x, f
  <2>4. f.acc \o x.out = a \o o
    <3>1. (a \o Take(o, Want)) \o Drop(o, Want) = a \o o
      BY <1>2, GiveOut
    <3> QED  BY <2>2, <2>3, <3>1
  <2>5. Again([node EXCEPT ![n] = x], f)
    BY <1>5, <2>1
  <2> QED  BY <1>1, <2>2, <2>3, <2>4, <2>5, StraightMove
<1>6. CASE /\ o = <<>> /\ Block <= Len(b)
           /\ Again([node EXCEPT ![n].out = Take(b, Block), ![n].buf = Drop(b, Block)], Top)
  <2> DEFINE x == [node[n] EXCEPT !.out = Take(b, Block), !.buf = Drop(b, Block)]
  <2>1. [node EXCEPT ![n].out = Take(b, Block), ![n].buf = Drop(b, Block)] = [node EXCEPT ![n] = x]
    BY <1>2
  <2>2. x.produced = node[n].produced /\ x.buf = Drop(b, Block) /\ x.out = Take(b, Block)
    BY <1>2 DEF NodeState
  <2> HIDE DEF x
  <2>3. a \o x.out = (a \o o) \o Converted(n, Take(b, Block))
    <3>1. a \o <<>> = a
      BY <1>2, ConcatEmptySeq DEF Bytes
    <3> QED  BY <1>1, <1>6, <2>2, <3>1 DEF Converted
  <2>4. Again([node EXCEPT ![n] = x], Top) /\ Block \in Nat
    BY <1>6, <2>1, ChainCapsAssumption
  <2> QED  BY <1>1, <1>6, <2>2, <2>3, <2>4, StraightMove
<1>7. CASE FailNode(n, "DATA")
  BY <1>1, <1>7, FlowFails
<1>8. CASE Want # 0 /\ Pull(In(n), InCap - Len(b), node, "in")
  <2>1. Len(a) < Top.want
    BY <1>1, <1>8, WantFacts DEF Flowing
  <2>2. err' = "ok"
    BY <1>8 DEF Pull, Enter, Flowing
  <2> QED  BY <1>1, <1>8, <2>1, <2>2, FlowStraightPull
<1> QED  BY <1>3, <1>4, <1>5, <1>6, <1>7, <1>8

\* A filter that has nothing converted left turns to its carry.
LEMMA ConvertFlow ==
  ASSUME Flowing, stack # <<>>, ret = NoRet, Kind(Top.n) = "filter",
         NEW x \in NodeState, x.produced = node[Top.n].produced,
         x.failed = node[Top.n].failed, Holds(x) = Holds(node[Top.n]),
         x.out = <<>>, node[Top.n].out = <<>>, x.buf = node[Top.n].buf,
         Convert(Top.n, [node EXCEPT ![Top.n] = x]), PullInv(node', stack', ret', err')
  PROVE  IF err' = "ok" THEN Flow(node', stack', ret') ELSE ret' = Failure
<1> DEFINE n == Top.n
           nodes == [node EXCEPT ![n] = x]
           b == x.buf
           stay == [Top EXCEPT !.at = "loop"]
           after(k) == [nodes EXCEPT ![n].out = Take(b, k), ![n].buf = Drop(b, k)]
<1>1. /\ node \in [Nodes -> NodeState] /\ n \in Nodes /\ Top \in Request /\ nodes[n] = x
      /\ b \in Bytes /\ Len(b) \in Nat /\ Top.acc \in Bytes /\ Kind(n) \in Plain
      /\ graph \in Graphs /\ PullInv(node, stack, ret, err)
  BY FlowFacts, Items DEF Plain
<1>2. stay.n = n /\ stay.acc = Top.acc
  BY <1>1 DEF Request
<1>3. Top.acc \o <<>> = Top.acc
  BY <1>1, ConcatEmptySeq DEF Bytes
<1>4. \/ Leave(n, [nodes EXCEPT ![n].finished = TRUE], Top.acc)
      \/ \E k \in Nat : k <= Len(b) /\ Again(after(k), stay)
      \/ FailNode(n, "DATA")
      \/ Again(nodes, stay)
  <2>1. CASE b = <<>>
    BY <1>1, <2>1 DEF Convert
  <2>2. CASE b # <<>>
    <3> DEFINE low == IF Len(b) > LookAhead THEN Len(b) - LookAhead ELSE 0
    <3>1. low \in Nat
      <4> DEFINE l == Len(b)
      <4>1. l \in Nat /\ LookAhead \in Nat
        BY <1>1, ChainCapsAssumption
      <4> HIDE DEF l
      <4>2. (IF l > LookAhead THEN l - LookAhead ELSE 0) \in Nat
        BY <4>1
      <4> QED  BY <4>2 DEF l
    <3>2. nodes[n].buf = b
      BY <1>1
    <3>3. \E k \in low .. Len(b) :
            \/ Again(after(k), stay) \/ Again(after(Len(b)), stay)
            \/ FailNode(n, "DATA") \/ Again(nodes, stay)
      BY <2>2, <3>2 DEF Convert
    <3> HIDE DEF low, after, stay, nodes, b
    <3>4. /\ \A k \in low .. Len(b) : k \in Nat /\ k <= Len(b)
          /\ Len(b) \in Nat /\ Len(b) <= Len(b)
      BY <1>1, <3>1
    <3> QED  BY <3>3, <3>4
  <2> QED  BY <2>1, <2>2
<1>5. CASE Leave(n, [nodes EXCEPT ![n].finished = TRUE], Top.acc)
  <2> DEFINE y == [x EXCEPT !.finished = TRUE]
  <2>1. /\ y \in NodeState /\ y.produced = x.produced /\ y.failed = x.failed /\ Holds(y) = Holds(x)
        /\ y.out = x.out /\ y.buf = x.buf
    BY DEF NodeState, Holds
  <2>2. [nodes EXCEPT ![n].finished = TRUE] = [node EXCEPT ![n] = y]
    BY <1>1
  <2> HIDE DEF y
  <2>3. Kept([node EXCEPT ![n] = y]) /\ [node EXCEPT ![n] = y][n] = y
    BY <1>1, <2>1, FilterChange
  <2>4. Leave(n, [node EXCEPT ![n] = y], Top.acc)
    BY <1>5, <2>2
  <2> DEFINE moved == [node EXCEPT ![n] = y]
  <2> HIDE DEF moved, nodes
  <2>5. Kept(moved) /\ moved[n].out = node[n].out /\ moved[n].buf = node[n].buf
        /\ Leave(n, moved, Top.acc)
    BY <2>1, <2>3, <2>4 DEF moved
  <2>6. Flow(node', stack', ret')
    BY <1>1, <2>5, FlowStraightLeave
  <2> QED  BY <2>5, <2>6 DEF Leave, Flowing
<1>6. CASE \E k \in Nat : k <= Len(b) /\ Again(after(k), stay)
  <2> PICK k \in Nat : k <= Len(b) /\ Again(after(k), stay)
    BY <1>6
  <2> DEFINE y == [x EXCEPT !.out = Take(b, k), !.buf = Drop(b, k)]
  <2>1. /\ Take(b, k) \in Bytes /\ Drop(b, k) \in Bytes
        /\ Len(Take(b, k)) + Len(Drop(b, k)) = Len(x.out) + Len(x.buf)
    <3>1. /\ Take(b, k) \in Bytes /\ Drop(b, k) \in Bytes
          /\ Len(Take(b, k)) + Len(Drop(b, k)) = Len(b)
      BY <1>1, TakeDrop, SMTT(30) DEF Least
    <3>2. Len(x.out) = 0
      BY EmptySeq
    <3> QED  BY <1>1, <3>1, <3>2
  <2>2. /\ y \in NodeState /\ y.produced = x.produced
        /\ y.pc = x.pc /\ y.off = x.off /\ y.out = Take(b, k) /\ y.buf = Drop(b, k)
    BY <2>1 DEF NodeState
  <2>3. after(k) = [node EXCEPT ![n] = y]
    BY <1>1
  <2>4. Holds(y) = Holds(x)
    <3> HIDE DEF y, b
    <3>1. x.pc \in Nat /\ x.off \in Nat /\ Len(x.out) \in Nat /\ Len(x.buf) \in Nat
      BY DEF NodeState, Bytes
    <3>2. Len(Take(b, k)) \in Nat /\ Len(Drop(b, k)) \in Nat
      BY <2>1 DEF Bytes
    <3> QED  BY <2>1, <2>2, <3>1, <3>2 DEF Holds
  <2>5. Again([node EXCEPT ![n] = y], stay)
    BY <2>3
  <2> HIDE DEF y, stay, after, nodes
  <2>6. stay.acc \o y.out = (Top.acc \o node[n].out) \o Converted(n, Take(b, k))
    BY <1>2, <1>3, <2>2 DEF Converted
  <2>7. Kind(n) # "aes" /\ y.buf = Drop(node[n].buf, k) /\ k <= Len(node[n].buf)
    BY <2>2
  <2>8. /\ y.produced = node[n].produced /\ Holds(y) = Holds(node[n])
    BY <2>2, <2>4
  <2>9. stay.acc \o y.out = (Top.acc \o node[n].out) \o Converted(n, Take(node[n].buf, k))
    BY <2>6
  <2>10. Flow(node', stack', ret') /\ err' = "ok"
    BY <1>1, <1>2, <2>5, <2>7, <2>8, <2>9, StraightMove
  <2> QED  BY <2>10
<1>7. CASE FailNode(n, "DATA")
  BY <1>7, FlowFails
<1>8. CASE Again(nodes, stay)
  <2> HIDE DEF stay
  <2>1. stay.acc \o x.out = Top.acc \o node[n].out
    BY <1>2
  <2> QED  BY <1>1, <1>2, <1>8, <2>1, StraightMove
<1> QED  BY <1>4, <1>5, <1>6, <1>7, <1>8

LEMMA FilterFlow ==
  ASSUME Flowing, PullFilter, PullInv(node', stack', ret', err')
  PROVE  IF err' = "ok" THEN Flow(node', stack', ret') ELSE ret' = Failure
<1> DEFINE n == Top.n
           o == node[n].out
           a == Top.acc
           k == Least(Len(o), Want)
           later == node[n].off + k
           passed == node[n].pc + node[n].off
           y == [node[n] EXCEPT !.out = Drop(o, k), !.off = later]
           z == [node[n] EXCEPT !.pc = passed, !.off = 0]
           f == [Top EXCEPT !.acc = @ \o Take(o, k)]
<1>1. /\ stack # <<>> /\ ret = NoRet /\ Kind(n) = "filter" /\ Kind(n) \in Plain /\ Kept(node)
      /\ Top.at \in {"loop", "fresh"} /\ graph \in Graphs /\ PullInv(node, stack, ret, err)
  BY KeptSame DEF PullFilter, Running, Plain, Flowing
<1>2. /\ node \in [Nodes -> NodeState] /\ n \in Nodes /\ node[n] \in NodeState /\ Top \in Request
      /\ node[n].pc \in Nat /\ node[n].off \in Nat /\ o \in Bytes /\ node[n].buf \in Bytes
      /\ Len(o) \in Nat /\ Len(node[n].buf) \in Nat /\ Want \in Nat /\ a \in Bytes
  BY <1>1, FlowFacts, WantFacts
<1>3. Retired(n) = [node EXCEPT ![n] = z]
  BY <1>2 DEF Retired
<1>4. /\ z \in NodeState /\ z.produced = node[n].produced /\ z.failed = node[n].failed
      /\ Holds(z) = Holds(node[n]) /\ z.out = o /\ z.buf = node[n].buf
  <2>1. /\ z \in NodeState /\ z.produced = node[n].produced /\ z.failed = node[n].failed
        /\ z.out = o /\ z.buf = node[n].buf /\ z.pc = passed /\ z.off = 0
    <3>1. passed \in Nat
      BY <1>2
    <3> HIDE DEF passed
    <3> QED  BY <1>2, <3>1 DEF NodeState
  <2> HIDE DEF z
  <2>2. Holds(z) = Holds(node[n])
    BY <1>2, <2>1 DEF Holds
  <2> QED  BY <2>1, <2>2
<1>5. \/ Leave(n, node, Top.acc)
      \/ /\ Top.at = "loop" /\ Want # 0
         /\ Again([node EXCEPT ![n].out = Drop(o, k), ![n].off = @ + k], f)
      \/ /\ Want # 0 /\ o = <<>> /\ Len(node[n].buf) < FilterCap
         /\ Pull(In(n), FilterCap - Len(node[n].buf), Retired(n), "in")
      \/ o = <<>> /\ Convert(n, Retired(n))
      \/ Top.at = "fresh" /\ Convert(n, node)
  BY DEF PullFilter, Running
<1> HIDE DEF z
<1>6. CASE Leave(n, node, Top.acc)
  BY <1>1, <1>6, FlowStraightLeave DEF Leave, Flowing
<1>7. CASE /\ Top.at = "loop" /\ Want # 0
           /\ Again([node EXCEPT ![n].out = Drop(o, k), ![n].off = @ + k], f)
  <2>1. k \in Nat /\ k <= Len(o) /\ k <= Want
    BY <1>2 DEF Least
  <2>2. Take(o, k) \in Bytes /\ Len(Take(o, k)) = k /\ Drop(o, k) \in Bytes /\ Len(Drop(o, k)) = Len(o) - k
    BY <1>2, <2>1, TakeDrop DEF Least
  <2>3. [node EXCEPT ![n].out = Drop(o, k), ![n].off = @ + k] = [node EXCEPT ![n] = y]
    BY <1>2
  <2>4. Again([node EXCEPT ![n] = y], f)
    BY <1>7, <2>3
  <2> HIDE DEF k
  <2>5. /\ y.produced = node[n].produced /\ y.out = Drop(o, k) /\ y.off = later
        /\ y.pc = node[n].pc /\ y.buf = node[n].buf
    <3>1. later \in Nat
      BY <1>2, <2>1
    <3> HIDE DEF later
    <3> QED  BY <1>2, <2>2, <3>1 DEF NodeState
  <2>6. f.n = n /\ f.acc = a \o Take(o, k)
    BY <1>2 DEF Request
  <2> HIDE DEF y, f, o
  <2>7. Holds(y) = Holds(node[n])
    BY <1>2, <2>1, <2>2, <2>5 DEF Holds, o
  <2>8. f.acc \o y.out = a \o node[n].out
    <3>1. (a \o Take(o, k)) \o Drop(o, k) = a \o o
      BY <1>2, <2>1, GiveOut
    <3> QED  BY <2>5, <2>6, <3>1 DEF o
  <2> QED  BY <1>1, <2>4, <2>5, <2>6, <2>7, <2>8, StraightMove
<1>8. CASE /\ Want # 0 /\ o = <<>> /\ Len(node[n].buf) < FilterCap
           /\ Pull(In(n), FilterCap - Len(node[n].buf), Retired(n), "in")
  <2> DEFINE nodes == [node EXCEPT ![n] = z]
  <2>1. Kept(nodes) /\ nodes[n] = z
    BY <1>1, <1>4, FilterChange
  <2>2. Len(Top.acc) < Top.want
    BY <1>1, <1>8, WantFacts
  <2>3. Pull(In(n), FilterCap - Len(node[n].buf), nodes, "in")
    BY <1>3, <1>8
  <2> HIDE DEF nodes
  <2>4. nodes[n].out = node[n].out /\ nodes[n].buf = node[n].buf
    BY <1>4, <2>1
  <2>5. Flow(node', stack', ret')
    BY <1>1, <1>8, <2>1, <2>2, <2>3, <2>4, FlowStraightPull
  <2> QED  BY <2>3, <2>5 DEF Pull, Enter, Flowing
<1>9. CASE o = <<>> /\ Convert(n, Retired(n))
  <2>1. Convert(n, [node EXCEPT ![n] = z])
    BY <1>3, <1>9
  <2> QED  BY <1>1, <1>4, <1>9, <2>1, ConvertFlow
<1>10. CASE Top.at = "fresh" /\ Convert(n, node)
  <2>1. o = <<>>
    BY <1>1, <1>10, TopFacts DEF InHand
  <2>2. node = [node EXCEPT ![n] = node[n]]
    BY <1>2
  <2>3. Convert(n, [node EXCEPT ![n] = node[n]])
    BY <1>10, <2>2
  <2> QED  BY <1>1, <1>2, <2>1, <2>3, ConvertFlow
<1> QED  BY <1>5, <1>6, <1>7, <1>8, <1>9, <1>10

-------------------------------------------------------------------------------
(* BCJ2.                                                                   *)

LEMMA MergedIs ==
  ASSUME graph \in Graphs, NEW n \in Nodes, Kind(n) = "bcj2"
  PROVE  /\ Content[In(n)] \in Bytes /\ Len(Content[In(n)]) \in Nat
         /\ MergedBy(n) \in [0 .. Len(Content[In(n)]) -> MergeState]
         /\ MergedBy(n)[0].out = <<>> /\ ~MergedBy(n)[0].stop
         /\ \A j \in 1 .. 2 : MergedBy(n)[0].left[j] = Content[SideNode(n, j)]
         /\ \A i \in 1 .. Len(Content[In(n)]) :
              MergedBy(n)[i] = MergeNext(MergedBy(n)[i - 1], Content[In(n)][i])
         /\ \A i \in 0 .. Len(Content[In(n)]) : Part(MergedBy(n)[i].out, 0, Raw(n, Content))
<1> DEFINE C == Content[In(n)]
           A == Content[SideNode(n, 1)]
           B == Content[SideNode(n, 2)]
<1>1. C \in Bytes /\ A \in Bytes /\ B \in Bytes /\ Len(C) \in Nat
  BY Inputs, Items
<1>2. Raw(n, Content) = MergedBy(n)[Len(C)].out
  BY RawIs DEF MergedBy, CoderKinds
<1>3. MergedBy(n) = Merging(C, A, B)
  BY DEF MergedBy
<1> HIDE DEF C, A, B
<1> DEFINE M == Merging(C, A, B)
<1>4. /\ M \in [0 .. Len(C) -> MergeState]
      /\ M[0] = [out |-> <<>>, left |-> <<A, B>>, stop |-> FALSE]
      /\ \A i \in 1 .. Len(C) : M[i] = MergeNext(M[i - 1], C[i])
      /\ \A i \in 0 .. Len(C) : Part(M[i].out, 0, M[Len(C)].out)
  BY <1>1, MergingIs
<1> HIDE DEF M
<1>5. M[0].out = <<>> /\ ~M[0].stop /\ M[0].left[1] = A /\ M[0].left[2] = B
  BY <1>4
<1>6. \A j \in 1 .. 2 : j = 1 \/ j = 2
  OBVIOUS
<1>7. M = MergedBy(n)
  BY <1>3 DEF M
<1>8. \A j \in 1 .. 2 : M[0].left[j] = Content[SideNode(n, j)]
  BY <1>5, <1>6 DEF A, B
<1> QED  BY <1>1, <1>2, <1>4, <1>5, <1>7, <1>8 DEF C

\* The next item of MAIN.
LEMMA MergedMain ==
  ASSUME graph \in Graphs, NEW n \in Nodes, Kind(n) = "bcj2",
         NEW x \in NodeState, NEW f, f.acc \in Bytes, NEW t, Merged(n, x, f, t),
         x.need = <<>>, x.buf # <<>>,
         NEW y, y.produced = x.produced, y.buf = Tail(x.buf), y.need = Branch(Head(x.buf)),
         y.side = x.side, NEW g, g.acc = Append(f.acc, Head(x.buf))
  PROVE  Merged(n, y, g, t)
<1> DEFINE C == Content[In(n)]
           M == MergedBy(n)
           b == Head(x.buf)
           p == x.produced
           a == f.acc
           l == Len(a)
<1>1. /\ C \in Bytes /\ Len(C) \in Nat /\ M \in [0 .. Len(C) -> MergeState]
      /\ \A i \in 1 .. Len(C) : M[i] = MergeNext(M[i - 1], C[i])
  BY MergedIs
<1>2. PICK q \in 0 .. Len(C) :
        /\ Part(x.buf, q, C) /\ q + Len(x.buf) = t[In(n)]
        /\ Part(a, p, M[q].out) /\ Branched(n, p + l, x, q)
  BY DEF Merged
<1>3. /\ ~M[q].stop /\ p + l = Len(M[q].out)
      /\ \A j \in 1 .. 2 : x.side[j] = M[q].left[j]
  BY <1>2, EmptySeq DEF Branched
<1>4. /\ x.buf \in Bytes /\ p \in Nat /\ l \in Nat
  BY Items DEF NodeState
<1> HIDE DEF C, M
<1>5. /\ q + 1 \in 1 .. Len(C) /\ b = C[q + 1] /\ Part(Tail(x.buf), q + 1, C)
      /\ Len(Tail(x.buf)) + 1 = Len(x.buf) /\ b \in Nat /\ Tail(x.buf) \in Bytes
  <2>1. q \in Nat
    BY <1>1
  <2> QED  BY <1>1, <1>2, <1>4, <2>1, PartHead, RestBytes
<1>6. q + 1 \in 0 .. Len(C) /\ (q + 1) - 1 = q
  BY <1>1, <1>5
<1>7. M[q] \in MergeState /\ M[q + 1] \in MergeState /\ M[q + 1] = MergeNext(M[q], b)
  BY <1>1, <1>5, <1>6
<1> DEFINE m == M[q]
           r == M[q + 1]
<1> HIDE DEF m, r, b
<1>8. m \in MergeState /\ r = MergeNext(m, b) /\ b \in Nat /\ ~m.stop /\ r \in MergeState
  BY <1>3, <1>5, <1>7 DEF m, r
<1>9. /\ Part(m.out, 0, r.out) /\ Len(m.out) + 1 \in 1 .. Len(r.out)
      /\ r.out[Len(m.out) + 1] = b
      /\ ~IsCall(b) /\ ~IsJump(b) =>
           Len(r.out) = Len(m.out) + 1 /\ r.left = m.left /\ ~r.stop
  BY <1>8, MergeNextIs
<1>10. m.out \in Bytes /\ r.out \in Bytes
  BY <1>8 DEF MergeState
<1>11. Part(Append(a, b), p, r.out)
  <2>1. Part(a, p, r.out)
    BY <1>2, <1>4, <1>9, <1>10, PartOn DEF m
  <2>2. Len(m.out) = p + l
    BY <1>3 DEF m
  <2>3. p + l + 1 \in 1 .. Len(r.out) /\ b = r.out[p + l + 1]
    BY <1>9, <2>2
  <2> QED  BY <1>4, <1>8, <1>10, <2>1, <2>3, PartAppend
<1>12. q + 1 + Len(Tail(x.buf)) = t[In(n)]
  <2> DEFINE u == Len(x.buf)
             v == Len(Tail(x.buf))
  <2>1. u \in Nat /\ v \in Nat /\ v + 1 = u /\ q + u = t[In(n)] /\ q \in Nat
    BY <1>1, <1>2, <1>4, <1>5, Items
  <2> HIDE DEF u, v
  <2>2. q + 1 + v = q + u
    BY <2>1
  <2> QED  BY <2>1, <2>2 DEF v
<1>13. Len(Append(a, b)) = l + 1 /\ p + (l + 1) = Len(m.out) + 1
  <2>1. p + (l + 1) = (p + l) + 1
    BY <1>4
  <2> QED  BY <1>3, <1>8, <2>1, AddByte DEF m
<1>14. Branched(n, p + (l + 1), y, q + 1)
  <2>1. CASE ~IsCall(b) /\ ~IsJump(b)
    <3>1. y.need = <<>>
      BY <2>1 DEF Branch, b
    <3>2. \A j \in 1 .. 2 : y.side[j] = r.left[j]
      BY <1>3, <1>9, <2>1 DEF m
    <3>3. ~r.stop /\ p + (l + 1) = Len(r.out)
      BY <1>9, <1>13, <2>1
    <3> QED  BY <3>1, <3>2, <3>3 DEF Branched, r, M
  <2>2. CASE IsCall(b) \/ IsJump(b)
    <3>1. y.need = <<3, Operand(b)>>
      BY <2>2 DEF Branch, b, Operand
    <3>2. \A j \in 1 .. 2 : y.side[j] = m.left[j]
      BY <1>3 DEF m
    <3>3. q + 1 > 0
      BY <1>1
    <3>4. b = Content[In(n)][q + 1] /\ m = MergedBy(n)[(q + 1) - 1]
      BY <1>5, <1>6 DEF m, M, C
    <3> QED  BY <1>8, <1>13, <2>2, <3>1, <3>2, <3>3, <3>4 DEF Branched
  <2> QED  BY <2>1, <2>2
<1>15. /\ Part(y.buf, q + 1, C) /\ q + 1 + Len(y.buf) = t[In(n)]
       /\ Part(g.acc, y.produced, M[q + 1].out) /\ Branched(n, y.produced + Len(g.acc), y, q + 1)
  BY <1>5, <1>11, <1>12, <1>13, <1>14 DEF r, b
<1> QED  BY <1>6, <1>15 DEF Merged, C, M

\* An item of a side stream.
LEMMA MergedSide ==
  ASSUME graph \in Graphs, NEW n \in Nodes, Kind(n) = "bcj2",
         NEW x \in NodeState, NEW f, f.acc \in Bytes, NEW t, Merged(n, x, f, t),
         x.need # <<>>, NEW k, k = Head(x.need), x.side[k] # <<>>,
         NEW y, y.produced = x.produced, y.buf = x.buf, y.need = Tail(x.need),
         y.side = [x.side EXCEPT ![k] = Tail(@)],
         NEW g, g.acc = IF k = 3 THEN f.acc ELSE Append(f.acc, Head(x.side[k]))
  PROVE  Merged(n, y, g, t)
<1> DEFINE C == Content[In(n)]
           M == MergedBy(n)
           p == x.produced
           a == f.acc
           l == Len(a)
<1>1. /\ C \in Bytes /\ Len(C) \in Nat /\ M \in [0 .. Len(C) -> MergeState]
      /\ \A i \in 1 .. Len(C) : M[i] = MergeNext(M[i - 1], C[i])
  BY MergedIs
<1>2. PICK q \in 0 .. Len(C) :
        /\ Part(x.buf, q, C) /\ q + Len(x.buf) = t[In(n)]
        /\ Part(a, p, M[q].out) /\ Branched(n, p + l, x, q)
  BY DEF Merged
<1> DEFINE b == C[q]
           o == Operand(b)
           m == M[q - 1]
           r == M[q]
<1>3. /\ q > 0 /\ ~m.stop /\ p + l = Len(m.out) + 1
      /\ \A j \in 1 .. 2 : x.side[j] = m.left[j]
      /\ IsCall(b) \/ IsJump(b)
      /\ x.need \in {<<3, o>>, <<o>>}
  BY <1>2 DEF Branched
<1>4. x.side \in [1 .. 3 -> Bytes] /\ p \in Nat /\ l \in Nat /\ o \in 1 .. 2
  <2>1. x.side \in [1 .. 3 -> Bytes] /\ p \in Nat
    BY DEF NodeState
  <2>2. l \in Nat
    BY Items
  <2>3. o \in 1 .. 2
    BY DEF Operand
  <2> QED  BY <2>1, <2>2, <2>3
<1> HIDE DEF C, M
<1>5. q \in 1 .. Len(C) /\ q - 1 \in 0 .. Len(C) /\ q \in Nat
  BY <1>1, <1>3
<1>6. m \in MergeState /\ r \in MergeState /\ r = MergeNext(m, b) /\ b \in Nat
  BY <1>1, <1>5, Items
<1>7. m = MergedBy(n)[q - 1] /\ r = MergedBy(n)[q] /\ b = Content[In(n)][q]
  BY DEF M, C
<1> HIDE DEF o, m, r, b
<1>8. CASE x.need = <<3, o>>
  <2>1. k = 3 /\ y.need = <<o>>
    BY <1>8
  <2>2. \A j \in 1 .. 2 : y.side[j] = x.side[j]
    <3>1. \A j \in 1 .. 2 : j \in 1 .. 3 /\ j # 3
      OBVIOUS
    <3> QED  BY <1>4, <2>1, <3>1
  <2>3. Branched(n, p + l, y, q)
    BY <1>3, <1>7, <2>1, <2>2 DEF Branched, o
  <2>4. g.acc = a
    BY <2>1
  <2> QED  BY <1>2, <2>3, <2>4 DEF Merged, C, M
<1>9. CASE x.need = <<o>>
  <2>1. k = o /\ y.need = <<>> /\ k # 3 /\ k \in 1 .. 2 /\ k \in 1 .. 3
    BY <1>4, <1>9
  <2>2. m.left[o] # <<>> /\ x.side[k] = m.left[o]
    BY <1>3, <2>1
  <2>3. /\ Part(m.out, 0, r.out) /\ Len(r.out) = Len(m.out) + 2
        /\ r.out[Len(m.out) + 2] = Head(m.left[o])
        /\ r.left = [m.left EXCEPT ![o] = Tail(@)] /\ ~r.stop
    <3>1. \A z \in MergeState, v \in Nat :
            ~z.stop /\ (IsCall(v) \/ IsJump(v)) /\ z.left[Operand(v)] # <<>> =>
              /\ Part(z.out, 0, MergeNext(z, v).out)
              /\ Len(MergeNext(z, v).out) = Len(z.out) + 2
              /\ MergeNext(z, v).out[Len(z.out) + 2] = Head(z.left[Operand(v)])
              /\ MergeNext(z, v).left = [z.left EXCEPT ![Operand(v)] = Tail(@)]
              /\ ~MergeNext(z, v).stop
      BY MergeNextIs
    <3>2. m.left[Operand(b)] # <<>>
      BY <2>2 DEF o
    <3>3. /\ Part(m.out, 0, MergeNext(m, b).out)
          /\ Len(MergeNext(m, b).out) = Len(m.out) + 2
          /\ MergeNext(m, b).out[Len(m.out) + 2] = Head(m.left[Operand(b)])
          /\ MergeNext(m, b).left = [m.left EXCEPT ![Operand(b)] = Tail(@)]
          /\ ~MergeNext(m, b).stop
      BY <1>3, <1>6, <3>1, <3>2
    <3> QED  BY <1>6, <3>3 DEF o
  <2>4. m.out \in Bytes /\ r.out \in Bytes /\ m.left \in [1 .. 2 -> Bytes] /\ r.left \in [1 .. 2 -> Bytes]
    BY <1>6 DEF MergeState
  <2> DEFINE h == Head(x.side[k])
  <2>5. h \in Nat /\ h = r.out[Len(m.out) + 2] /\ Len(m.out) \in Nat
    BY <1>4, <2>1, <2>2, <2>3, <2>4, RestBytes, Items
  <2>6. g.acc = Append(a, h) /\ Len(Append(a, h)) = l + 1
    BY <2>1, <2>5, AddByte
  <2> HIDE DEF h, l
  <2>7. p + l + 1 = Len(m.out) + 2 /\ p + (l + 1) = Len(r.out)
    <3> DEFINE v == Len(m.out)
    <3>1. p + l = v + 1 /\ Len(r.out) = v + 2 /\ v \in Nat /\ p \in Nat /\ l \in Nat
      BY <1>3, <1>4, <2>3, <2>5
    <3> HIDE DEF v, p
    <3>2. p + l + 1 = v + 2 /\ p + (l + 1) = v + 2
      BY <3>1
    <3> QED  BY <3>1, <3>2 DEF v
  <2>8. Part(Append(a, h), p, r.out)
    <3>1. Part(a, p, r.out)
      BY <1>2 DEF r
    <3>2. p + l + 1 \in 1 .. Len(r.out) /\ h = r.out[p + l + 1]
      BY <2>3, <2>5, <2>7
    <3> QED  BY <1>4, <2>4, <2>5, <3>1, <3>2, PartAppend DEF l
  <2>9. \A j \in 1 .. 2 : y.side[j] = r.left[j]
    <3> TAKE j \in 1 .. 2
    <3>1. j \in 1 .. 3
      OBVIOUS
    <3>2. x.side[j] = m.left[j]
      BY <1>3
    <3>3. CASE j = o
      BY <1>4, <2>1, <2>2, <2>3, <2>4, <3>1, <3>3
    <3>4. CASE j # o
      BY <1>4, <2>1, <2>3, <2>4, <3>1, <3>2, <3>4
    <3> QED  BY <3>3, <3>4
  <2>10. Branched(n, p + (l + 1), y, q)
    BY <1>7, <2>1, <2>3, <2>7, <2>9 DEF Branched
  <2>11. Part(g.acc, y.produced, M[q].out) /\ Branched(n, y.produced + Len(g.acc), y, q)
    BY <2>6, <2>8, <2>10 DEF r
  <2> QED  BY <1>2, <2>11 DEF Merged, C, M
<1> QED  BY <1>3, <1>8, <1>9

LEMMA MergedLeave ==
  ASSUME graph \in Graphs, NEW n \in Nodes, Kind(n) = "bcj2",
         NEW x \in NodeState, NEW f, f.acc \in Bytes, NEW t, Merged(n, x, f, t),
         x.produced + Len(f.acc) <= graph.size[n],
         NEW y, y.produced = x.produced + Len(f.acc), y.buf = x.buf, y.need = x.need,
         y.side = x.side
  PROVE  Merged(n, y, Idle, t) /\ Part(f.acc, x.produced, Content[n])
<1> DEFINE C == Content[In(n)]
           M == MergedBy(n)
           R == Raw(n, Content)
           p == x.produced
           l == Len(f.acc)
<1>1. /\ C \in Bytes /\ Len(C) \in Nat /\ M \in [0 .. Len(C) -> MergeState]
      /\ \A i \in 0 .. Len(C) : Part(M[i].out, 0, R)
  BY MergedIs
<1>2. R \in Bytes /\ graph.size[n] \in Nat /\ Content[n] = Take(R, graph.size[n])
  BY ContentIs, GraphFacts
<1>3. p \in Nat /\ l \in Nat
  BY Items DEF NodeState
<1>4. PICK q \in 0 .. Len(C) :
        /\ Part(x.buf, q, C) /\ q + Len(x.buf) = t[In(n)]
        /\ Part(f.acc, p, M[q].out) /\ Branched(n, p + l, x, q)
  BY DEF Merged
<1> HIDE DEF C, M, R
<1>5. M[q].out \in Bytes
  BY <1>1 DEF MergeState
<1>6. Part(f.acc, p, Content[n])
  <2>1. Part(f.acc, p, R)
    BY <1>1, <1>3, <1>4, <1>5, PartOn
  <2> QED  BY <1>2, <1>3, <2>1, PartCut
<1>7. Part(Idle.acc, y.produced, M[q].out) /\ y.produced + Len(Idle.acc) = p + l
  <2>1. Idle.acc = <<>> /\ Len(<<>>) = 0
    BY EmptySeq DEF Idle
  <2> QED  BY <1>3, <2>1, PartNone
<1>8. Branched(n, p + l, y, q)
  BY <1>4 DEF Branched
<1> QED  BY <1>4, <1>6, <1>7, <1>8 DEF Merged, C, M

LEMMA FlowMove ==
  ASSUME Flowing, stack # <<>>, ret = NoRet \/ Kind(Top.n) # "filter",
         NEW x, x.produced = node[Top.n].produced,
         Kind(Top.n) = "filter" => Holds(x) = Holds(node[Top.n]),
         NEW f, f.n = Top.n, Again([node EXCEPT ![Top.n] = x], f),
         PullInv(node', stack', ret', err'), Right(Top.n, x, f, Gave(node))
  PROVE  err' = "ok" /\ Flow(node', stack', ret')
<1> DEFINE nodes == [node EXCEPT ![Top.n] = x]
<1>1. f \in Request /\ err' = "ok" /\ Kept(nodes) /\ nodes[Top.n] = x /\ Again(nodes, f)
  BY StepFacts
<1> HIDE DEF nodes
<1> QED  BY <1>1, FlowOn

LEMMA Bcj2Is ==
  ASSUME Kind(Top.n) = "bcj2", NEW x, NEW f, NEW t
  PROVE  Right(Top.n, x, f, t) <=>
           IF x.prepared THEN f.at # "side" /\ Merged(Top.n, x, f, t) ELSE Unread(Top.n, x, f, t)
BY DEF Right

LEMMA PrepareFlow ==
  ASSUME Flowing, PrepareBcj2, PullInv(node', stack', ret', err')
  PROVE  IF err' = "ok" THEN Flow(node', stack', ret') ELSE ret' = Failure
<1> DEFINE n == Top.n
           y == node[n]
           k == Top.k
           lack == graph.size[SideNode(n, k)] - Len(y.side[k])
           f == [Top EXCEPT !.k = k + 1]
           t == Gave(node)
<1>1. /\ stack # <<>> /\ ret = NoRet /\ Kind(n) = "bcj2" /\ Kept(node) /\ Top.at = "loop"
      /\ y.prepared = FALSE
  <2>1. stack # <<>> /\ ret = NoRet /\ Kind(n) = "bcj2" /\ Top.at = "loop" /\ ~y.prepared
    BY DEF PrepareBcj2, Running
  <2>2. y.prepared \in BOOLEAN
    BY <2>1, FlowFacts DEF NodeState
  <2> QED  BY <2>1, <2>2, KeptSame DEF Flowing
<1>2. /\ node \in [Nodes -> NodeState] /\ n \in Nodes /\ y \in NodeState /\ graph \in Graphs
      /\ Top \in Request /\ k \in 1 .. 3 /\ y.side \in [1 .. 3 -> Bytes] /\ t \in [Nodes -> Nat]
  BY <1>1, FlowFacts, OthersTook DEF Request, NodeState
<1>3. Unread(n, y, Top, t)
  BY <1>1, TopRight, Bcj2Is
<1>4. \A j \in 1 .. 3 : Len(y.side[j]) \in Nat /\ graph.size[SideNode(n, j)] \in Nat
  BY <1>1, <1>2, Items, GraphFacts
<1>5. \/ FailNode(n, "LIMIT")
      \/ lack > 0 /\ Pull(SideNode(n, k), lack, node, "side")
      \/ ~(lack > 0) /\ Again(node, f)
      \/ ~(lack > 0) /\ ~(k < 3) /\ Again([node EXCEPT ![n].prepared = TRUE], Top)
  BY DEF PrepareBcj2
<1>6. ~(lack > 0) => \A j \in 1 .. 3 : j < k + 1 => graph.size[SideNode(n, j)] <= Len(y.side[j])
  <2> SUFFICES ASSUME ~(lack > 0), NEW j \in 1 .. 3, j < k + 1
               PROVE  graph.size[SideNode(n, j)] <= Len(y.side[j])
    OBVIOUS
  <2>1. CASE j = k
    <3> DEFINE v == graph.size[SideNode(n, k)]
               w == Len(y.side[k])
    <3>1. v \in Nat /\ w \in Nat /\ ~(v - w > 0)
      BY <1>2, <1>4
    <3> HIDE DEF v, w
    <3>2. v <= w
      BY <3>1
    <3> QED  BY <2>1, <3>2 DEF v, w
  <2>2. CASE j # k
    <3>1. j < k
      BY <1>2, <2>2
    <3> QED  BY <1>3, <3>1 DEF Unread
  <2> QED  BY <2>1, <2>2
<1> HIDE DEF t
<1>7. CASE FailNode(n, "LIMIT")
  BY <1>1, <1>7, FlowFails
<1>8. CASE lack > 0 /\ Pull(SideNode(n, k), lack, node, "side")
  <2> DEFINE g == [Top EXCEPT !.at = "side"]
  <2>1. g.at = "side" /\ g.acc = Top.acc /\ g.k = Top.k
    BY <1>2 DEF Request
  <2> HIDE DEF g, lack
  <2>2. Unread(n, y, g, t)
    BY <1>3, <2>1 DEF Unread
  <2>3. Right(n, y, g, t)
    BY <1>1, <2>2, Bcj2Is
  <2>4. Flow(node', stack', ret')
    BY <1>1, <1>8, <2>3, FlowPull DEF g, t
  <2> QED  BY <1>8, <2>4 DEF Pull, Enter, Flowing
<1>9. CASE ~(lack > 0) /\ Again(node, f)
  <2>1. f.n = n /\ f.at = "loop" /\ f.acc = Top.acc /\ f.k = k + 1
    BY <1>1, <1>2 DEF Request
  <2> HIDE DEF f, lack
  <2>2. Unread(n, y, f, t)
    BY <1>3, <1>6, <1>9, <2>1 DEF Unread
  <2>3. Right(n, y, f, t)
    BY <1>1, <2>2, Bcj2Is
  <2>4. node = [node EXCEPT ![n] = y]
    BY <1>2
  <2>5. Again([node EXCEPT ![n] = y], f) /\ Kind(n) # "filter"
    BY <1>1, <1>9, <2>4
  <2> QED  BY <1>1, <2>1, <2>3, <2>5, FlowMove DEF t
<1>10. CASE ~(lack > 0) /\ ~(k < 3) /\ Again([node EXCEPT ![n].prepared = TRUE], Top)
  <2> DEFINE x == [y EXCEPT !.prepared = TRUE]
  <2>1. [node EXCEPT ![n].prepared = TRUE] = [node EXCEPT ![n] = x]
    OBVIOUS
  <2>2. /\ x.produced = y.produced /\ x.prepared = TRUE /\ x.buf = y.buf /\ x.need = y.need
        /\ x.side = y.side
    BY <1>2 DEF NodeState
  <2> HIDE DEF x
  <2>3. \A j \in 1 .. 3 : y.side[j] = Content[SideNode(n, j)]
    <3> TAKE j \in 1 .. 3
    <3> DEFINE u == SideNode(n, j)
    <3>1. j < k + 1
      BY <1>2, <1>10
    <3>2. graph.size[u] <= Len(y.side[j])
      BY <1>6, <1>10, <3>1
    <3>3. u \in Nodes /\ Content[u] \in Bytes /\ Len(Content[u]) <= graph.size[u]
      BY <1>1, <1>2, GraphFacts, ContentIs
    <3>4. Part(y.side[j], 0, Content[u]) /\ y.side[j] \in Bytes
      BY <1>2, <1>3 DEF Unread
    <3> HIDE DEF u
    <3>5. Len(Content[u]) <= Len(y.side[j])
      <4> DEFINE v == graph.size[u]
                 w == Len(y.side[j])
                 c == Len(Content[u])
      <4>1. v \in Nat /\ w \in Nat /\ c \in Nat /\ c <= v /\ v <= w
        BY <1>2, <3>2, <3>3, <3>4, GraphFacts, Items
      <4> HIDE DEF v, w, c
      <4>2. c <= w
        BY <4>1
      <4> QED  BY <4>2 DEF c, w
    <3> QED  BY <3>3, <3>4, <3>5, PartWhole DEF u
  <2>4. Merged(n, x, Top, t)
    <3> DEFINE C == Content[In(n)]
               M == MergedBy(n)
    <3>1. /\ C \in Bytes /\ Len(C) \in Nat /\ M[0].out = <<>> /\ ~M[0].stop
          /\ \A j \in 1 .. 2 : M[0].left[j] = Content[SideNode(n, j)]
      BY <1>1, <1>2, MergedIs
    <3> HIDE DEF C, M
    <3>2. /\ x.produced = 0 /\ Top.acc = <<>> /\ x.buf = <<>> /\ x.need = <<>> /\ t[In(n)] = 0
      BY <1>3, <2>2 DEF Unread
    <3>3. Len(<<>>) = 0
      BY EmptySeq
    <3>4. Part(x.buf, 0, C) /\ 0 + Len(x.buf) = t[In(n)] /\ Part(Top.acc, x.produced, M[0].out)
      BY <3>2, <3>3, PartNone
    <3>5. \A j \in 1 .. 2 : x.side[j] = M[0].left[j]
      <4>1. \A j \in 1 .. 2 : j \in 1 .. 3
        OBVIOUS
      <4> QED  BY <2>2, <2>3, <3>1, <4>1
    <3>6. x.produced + Len(Top.acc) = Len(M[0].out)
      BY <3>1, <3>2, <3>3
    <3>7. Branched(n, x.produced + Len(Top.acc), x, 0)
      BY <3>1, <3>2, <3>5, <3>6 DEF Branched, M
    <3>8. 0 \in 0 .. Len(C)
      BY <3>1
    <3> QED  BY <3>4, <3>7, <3>8 DEF Merged, C, M
  <2>5. Right(n, x, Top, t)
    BY <1>1, <2>2, <2>4, Bcj2Is
  <2>6. Again([node EXCEPT ![n] = x], Top) /\ Kind(n) # "filter"
    BY <1>1, <1>10, <2>1
  <2> QED  BY <1>1, <2>2, <2>5, <2>6, FlowMove DEF t
<1> QED  BY <1>5, <1>7, <1>8, <1>9, <1>10

\* A BCJ2 node gives out what its call has.
LEMMA Bcj2Leave ==
  ASSUME Flowing, stack # <<>>, ret = NoRet, Kind(Top.n) = "bcj2", node[Top.n].prepared,
         Leave(Top.n, node, Top.acc)
  PROVE  err' = "ok" /\ Flow(node', stack', ret')
<1> DEFINE n == Top.n
           y == node[n]
           x == [y EXCEPT !.produced = @ + Len(Top.acc)]
<1>1. /\ graph \in Graphs /\ n \in Nodes /\ y \in NodeState /\ Top.acc \in Bytes
      /\ y.produced + Len(Top.acc) <= graph.size[n] /\ Kept(node)
  BY FlowFacts, KeptSame
<1>2. Merged(n, y, Top, Gave(node))
  BY TopRight, Bcj2Is
<1>3. /\ x.produced = y.produced + Len(Top.acc) /\ x.buf = y.buf /\ x.need = y.need
      /\ x.side = y.side /\ x.prepared = y.prepared
  BY <1>1 DEF NodeState
<1> HIDE DEF x
<1>4. Merged(n, x, Idle, Gave(node)) /\ Part(Top.acc, y.produced, Content[n])
  BY <1>1, <1>2, <1>3, MergedLeave
<1>5. Right(n, x, Idle, Gave(node))
  BY <1>3, <1>4, Bcj2Is DEF Idle
<1> QED  BY <1>1, <1>4, <1>5, FlowGive DEF x, Leave, Flowing

LEMMA DecodeFlow ==
  ASSUME Flowing, stack # <<>>, ret = NoRet, Kind(Top.n) = "bcj2", node[Top.n].prepared,
         Top.at = "decode", DecodeBcj2(Top.n), PullInv(node', stack', ret', err')
  PROVE  err' = "ok" /\ Flow(node', stack', ret')
<1> DEFINE n == Top.n
           s == node[n]
           f == [Top EXCEPT !.at = "loop"]
           k == Head(s.need)
           more(x) == [Top EXCEPT !.acc = Append(@, x)]
           y == [s EXCEPT !.need = Tail(s.need), !.side = [s.side EXCEPT ![k] = Tail(s.side[k])]]
           z == [s EXCEPT !.buf = Tail(s.buf), !.need = Branch(Head(s.buf))]
           t == Gave(node)
<1>1. /\ node \in [Nodes -> NodeState] /\ n \in Nodes /\ s \in NodeState /\ Top \in Request
      /\ graph \in Graphs /\ Top.acc \in Bytes /\ Kind(n) # "filter"
  BY FlowFacts
<1>2. Merged(n, s, Top, t)
  BY TopRight, Bcj2Is
<1>3. f.n = n /\ f.at = "loop" /\ f.acc = Top.acc
  BY <1>1 DEF Request
<1>4. \A x : more(x).n = n /\ more(x).at = "decode" /\ more(x).acc = Append(Top.acc, x)
  BY <1>1 DEF Request
<1>5. \/ Leave(n, node, Top.acc)
      \/ Again(node, f)
      \/ /\ s.need # <<>> /\ s.side[k] # <<>>
         /\ Again([node EXCEPT ![n].need = Tail(@), ![n].side[k] = Tail(@)],
                  IF k = 3 THEN Top ELSE more(Head(s.side[k])))
      \/ /\ s.need = <<>> /\ s.buf # <<>>
         /\ Again([node EXCEPT ![n].buf = Tail(@), ![n].need = Branch(Head(s.buf))],
                  more(Head(s.buf)))
  BY DEF DecodeBcj2
<1>6. CASE Leave(n, node, Top.acc)
  BY <1>6, Bcj2Leave
<1>7. CASE Again(node, f)
  <2> HIDE DEF f
  <2>1. Right(n, s, f, t)
    <3>1. Merged(n, s, f, t)
      BY <1>2, <1>3 DEF Merged
    <3> QED  BY <1>3, <3>1, Bcj2Is
  <2>2. node = [node EXCEPT ![n] = s]
    BY <1>1
  <2>3. Again([node EXCEPT ![n] = s], f)
    BY <1>7, <2>2
  <2> QED  BY <1>1, <1>3, <2>1, <2>3, FlowMove DEF t
<1>8. CASE /\ s.need # <<>> /\ s.side[k] # <<>>
           /\ Again([node EXCEPT ![n].need = Tail(@), ![n].side[k] = Tail(@)],
                    IF k = 3 THEN Top ELSE more(Head(s.side[k])))
  <2> DEFINE g == IF k = 3 THEN Top ELSE more(Head(s.side[k]))
  <2>1. g.n = n /\ g.at = "decode"
    BY <1>4
  <2>2. g.acc = IF k = 3 THEN Top.acc ELSE Append(Top.acc, Head(s.side[k]))
    BY <1>4
  <2>3. [node EXCEPT ![n].need = Tail(@), ![n].side[k] = Tail(@)] = [node EXCEPT ![n] = y]
    BY <1>1 DEF NodeState
  <2>4. /\ y.produced = s.produced /\ y.need = Tail(s.need) /\ y.buf = s.buf
        /\ y.side = [s.side EXCEPT ![k] = Tail(@)] /\ y.prepared = s.prepared
    BY <1>1 DEF NodeState
  <2>5. Again([node EXCEPT ![n] = y], g)
    BY <1>8, <2>3
  <2> HIDE DEF y, g, k
  <2>6. Merged(n, y, g, t)
    BY <1>1, <1>2, <1>8, <2>2, <2>4, MergedSide DEF k
  <2>7. Right(n, y, g, t)
    BY <2>1, <2>4, <2>6, Bcj2Is
  <2> QED  BY <1>1, <2>1, <2>4, <2>5, <2>7, FlowMove DEF t
<1>9. CASE /\ s.need = <<>> /\ s.buf # <<>>
           /\ Again([node EXCEPT ![n].buf = Tail(@), ![n].need = Branch(Head(s.buf))],
                    more(Head(s.buf)))
  <2> DEFINE g == more(Head(s.buf))
  <2>1. g.n = n /\ g.at = "decode" /\ g.acc = Append(Top.acc, Head(s.buf))
    BY <1>4
  <2>2. [node EXCEPT ![n].buf = Tail(@), ![n].need = Branch(Head(s.buf))] = [node EXCEPT ![n] = z]
    BY <1>1 DEF NodeState
  <2>3. /\ z.produced = s.produced /\ z.need = Branch(Head(s.buf)) /\ z.buf = Tail(s.buf)
        /\ z.side = s.side /\ z.prepared = s.prepared
    BY <1>1 DEF NodeState
  <2>4. Again([node EXCEPT ![n] = z], g)
    BY <1>9, <2>2
  <2> HIDE DEF z, g
  <2>5. Merged(n, z, g, t)
    BY <1>1, <1>2, <1>9, <2>1, <2>3, MergedMain
  <2>6. Right(n, z, g, t)
    BY <2>1, <2>3, <2>5, Bcj2Is
  <2> QED  BY <1>1, <2>1, <2>3, <2>4, <2>6, FlowMove DEF t
<1> QED  BY <1>5, <1>6, <1>7, <1>8, <1>9

LEMMA Bcj2Flow ==
  ASSUME Flowing, PullBcj2, PullInv(node', stack', ret', err')
  PROVE  IF err' = "ok" THEN Flow(node', stack', ret') ELSE ret' = Failure
<1> DEFINE n == Top.n
           y == node[n]
<1>1. /\ stack # <<>> /\ ret = NoRet /\ Kind(n) = "bcj2" /\ Kept(node)
      /\ (Top.at \in {"fresh", "decode"} \/ (Top.at = "loop" /\ y.prepared))
  BY KeptSame DEF PullBcj2, Running, Flowing
<1>2. y.prepared
  <2>1. ~y.prepared => Top.at \notin {"fresh", "decode"}
    BY <1>1, TopRight, Bcj2Is DEF Unread
  <2> QED  BY <1>1, <2>1
<1>3. Merged(n, y, Top, Gave(node))
  BY <1>1, <1>2, TopRight, Bcj2Is
<1>4. \/ Leave(n, node, Top.acc)
      \/ /\ Want # 0
         /\ Pull(In(n), MainCap - Len(y.buf), node, "in")
      \/ Again(node, [Top EXCEPT !.at = "decode"])
      \/ Top.at = "decode" /\ DecodeBcj2(n)
  BY DEF PullBcj2, BeginDecode, Running
<1>5. CASE Leave(n, node, Top.acc)
  BY <1>1, <1>2, <1>5, Bcj2Leave
<1>6. CASE Want # 0 /\ Pull(In(n), MainCap - Len(y.buf), node, "in")
  <2> DEFINE g == [Top EXCEPT !.at = "in"]
  <2>1. g.acc = Top.acc /\ g.at = "in"
    BY <1>1, FlowFacts DEF Request
  <2> HIDE DEF g
  <2>2. Merged(n, y, g, Gave(node))
    BY <1>3, <2>1 DEF Merged
  <2>3. Right(n, y, g, Gave(node))
    BY <1>1, <1>2, <2>1, <2>2, Bcj2Is
  <2>4. Len(Top.acc) < Top.want
    BY <1>1, <1>6, WantFacts DEF Flowing
  <2>5. Flow(node', stack', ret')
    BY <1>1, <1>6, <2>3, <2>4, FlowPull DEF g
  <2> QED  BY <1>6, <2>5 DEF Pull, Enter, Flowing
<1>7. CASE Again(node, [Top EXCEPT !.at = "decode"])
  <2> DEFINE g == [Top EXCEPT !.at = "decode"]
  <2>1. g.n = n /\ g.acc = Top.acc /\ g.at = "decode"
    BY <1>1, FlowFacts DEF Request
  <2>2. node = [node EXCEPT ![n] = y]
    BY <1>1 DEF Flowing, PullInv
  <2>3. Again([node EXCEPT ![n] = y], g)
    BY <1>7, <2>2
  <2> HIDE DEF g
  <2>4. Merged(n, y, g, Gave(node))
    BY <1>3, <2>1 DEF Merged
  <2>5. Right(n, y, g, Gave(node))
    BY <1>1, <1>2, <2>1, <2>4, Bcj2Is
  <2> QED  BY <1>1, <2>1, <2>3, <2>5, FlowMove
<1>8. CASE Top.at = "decode" /\ DecodeBcj2(n)
  BY <1>1, <1>2, <1>8, DecodeFlow
<1> QED  BY <1>4, <1>5, <1>6, <1>7, <1>8

\* A frame that only changes where it stands.
LEMMA Standing ==
  ASSUME Flowing, stack # <<>>, NEW at
  PROVE  LET f == [Top EXCEPT !.at = at] IN
         f.n = Top.n /\ f.acc = Top.acc /\ f.k = Top.k /\ f.at = at /\ f.want = Top.want
BY FlowFacts DEF Request

\* What arrived for the call on top.
LEMMA Arrival ==
  ASSUME Flowing, stack # <<>>, ret.rc = "ok"
  PROVE  /\ Draws(Top.n, Asks(Top)) /\ Asks(Top) \in Nodes /\ ret.data \in Bytes
         /\ Top.at \in {"in", "side"} /\ (Top.at = "side" => Kind(Top.n) = "bcj2")
         /\ Taken(node, stack, ret)[Asks(Top)] \in Nat
         /\ Gave(node)[Asks(Top)] = Taken(node, stack, ret)[Asks(Top)] + Len(ret.data)
         /\ Part(ret.data, Taken(node, stack, ret)[Asks(Top)], Content[Asks(Top)])
<1>1. /\ Draws(Top.n, Asks(Top)) /\ Answering(stack) = Asks(Top) /\ ret.data \in Bytes
      /\ Taken(node, stack, ret)[Asks(Top)] + Len(ret.data) = node[Asks(Top)].produced
  BY OthersTook
<1>2. Top.n \in Nodes /\ graph \in Graphs /\ ReadOnce
  BY FlowFacts DEF Flowing
<1>3. Asks(Top) \in Nodes
  BY <1>1, <1>2, DrawsApart
<1>4. Taken(node, stack, ret) \in [Nodes -> Nat]
  BY DEF Flowing, Flow
<1>5. Part(ret.data, Taken(node, stack, ret)[Asks(Top)], Content[Asks(Top)])
  BY <1>1 DEF Flowing, Flow
<1>6. Gave(node)[Asks(Top)] = node[Asks(Top)].produced
  BY <1>3 DEF Gave
<1>7. Top.at \in {"in", "side"} /\ InHand(Top, node)
  BY TopFacts DEF PullInv, Answer, Top, Waits, NoRet, Failure, Got, Flowing
<1> QED  BY <1>1, <1>3, <1>4, <1>5, <1>6, <1>7 DEF InHand

\* bcj2_prepare() puts what arrived behind what it has of the stream.
LEMMA StoreSide ==
  ASSUME Flowing, stack # <<>>, ret.rc = "ok", Top.at = "side",
         Again([node EXCEPT ![Top.n].side[Top.k] = @ \o ret.data], [Top EXCEPT !.at = "loop"]),
         PullInv(node', stack', ret', err')
  PROVE  err' = "ok" /\ Flow(node', stack', ret')
<1> DEFINE n == Top.n
           y == node[n]
           d == ret.data
           k == Top.k
           u == SideNode(n, k)
           f == [Top EXCEPT !.at = "loop"]
           sides == [y.side EXCEPT ![k] = @ \o d]
           x == [y EXCEPT !.side = sides]
           T == Taken(node, stack, ret)
           t == Gave(node)
<1>1. /\ node \in [Nodes -> NodeState] /\ n \in Nodes /\ y \in NodeState /\ graph \in Graphs
      /\ Top \in Request /\ k \in 1 .. 3 /\ y.side \in [1 .. 3 -> Bytes] /\ ReadOnce
  BY FlowFacts DEF Request, NodeState, Flowing
<1>2. /\ Kind(n) = "bcj2" /\ Asks(Top) = u /\ u \in Nodes /\ d \in Bytes /\ T[u] \in Nat
      /\ t[u] = T[u] + Len(d) /\ Part(d, T[u], Content[u])
  BY Arrival DEF Asks
<1>3. y.prepared = FALSE /\ Unread(n, y, Top, T)
  <2>1. Right(n, y, Top, T)
    BY TopRight
  <2>2. y.prepared \in BOOLEAN
    BY <1>1 DEF NodeState
  <2> QED  BY <1>2, <2>1, <2>2, Bcj2Is
<1>4. /\ \A v \in Nodes : v # u => T[v] = t[v]
      /\ In(n) # u /\ In(n) \in Nodes
      /\ \A j \in 1 .. 3 : SideNode(n, j) \in Nodes /\ (SideNode(n, j) = u => j = k)
  <2>1. \A v \in Nodes : v # u => T[v] = t[v]
    BY <1>2, OthersTook
  <2>2. In(n) # u
    BY <1>1, <1>2, DrawsApart
  <2>3. \A j \in 1 .. 3 : SideNode(n, j) = u => j = k
    BY <1>1, <1>2, DrawsApart
  <2>4. In(n) \in Nodes /\ \A j \in 1 .. 3 : SideNode(n, j) \in Nodes
    BY <1>1, <1>2, GraphFacts
  <2> HIDE DEF T, t, u
  <2> QED  BY <2>1, <2>2, <2>3, <2>4
<1>5. f.n = n /\ f.acc = Top.acc /\ f.k = k /\ f.at = "loop"
  BY Standing
<1>6. [node EXCEPT ![n].side[k] = @ \o d] = [node EXCEPT ![n] = x]
  BY <1>1 DEF NodeState
<1>7. /\ x.produced = y.produced /\ x.buf = y.buf /\ x.need = y.need /\ x.prepared = y.prepared
      /\ x.side = sides
  BY <1>1 DEF NodeState
<1>8. Again([node EXCEPT ![n] = x], f)
  BY <1>6
<1>9. \A j \in 1 .. 3 : j # k => sides[j] = y.side[j]
  BY <1>1
<1>10. sides[k] = y.side[k] \o d
  BY <1>1
<1> HIDE DEF x, f, sides, u, t, T, n, y, d, k
<1>11. \A j \in 1 .. 3 : Part(sides[j], 0, Content[SideNode(n, j)])
                         /\ Len(sides[j]) = t[SideNode(n, j)]
                         /\ Len(y.side[j]) <= Len(sides[j])
  <2> TAKE j \in 1 .. 3
  <2>1. Part(y.side[j], 0, Content[SideNode(n, j)]) /\ Len(y.side[j]) = T[SideNode(n, j)]
    BY <1>3 DEF Unread
  <2>2. y.side[j] \in Bytes /\ Len(y.side[j]) \in Nat /\ Len(d) \in Nat
    BY <1>1, <1>2, Items
  <2>3. CASE j # k
    <3>1. SideNode(n, j) # u
      BY <1>4, <2>3
    <3>2. sides[j] = y.side[j]
      BY <1>9, <2>3
    <3>3. T[SideNode(n, j)] = t[SideNode(n, j)]
      BY <1>4, <3>1
    <3>4. Len(sides[j]) = Len(y.side[j]) /\ Len(y.side[j]) <= Len(y.side[j])
      BY <2>2, <3>2
    <3> QED  BY <2>1, <3>2, <3>3, <3>4
  <2>4. CASE j = k
    <3>1. SideNode(n, j) = u
      BY <2>4 DEF u, k, n
    <3>2. Content[u] \in Bytes
      BY <1>1, <1>2, ContentIs
    <3>3. sides[j] = y.side[j] \o d /\ Len(y.side[j] \o d) = Len(y.side[j]) + Len(d)
      <4>1. sides[j] = y.side[j] \o d
        BY <1>10, <2>4
      <4>2. y.side[j] \in Bytes /\ d \in Bytes
        BY <1>2, <2>2
      <4> QED  BY <4>1, <4>2, JoinBytes
    <3>4. Len(y.side[j]) = T[u] /\ 0 + Len(y.side[j]) = T[u]
      BY <2>1, <2>2, <3>1
    <3>5. Part(y.side[j] \o d, 0, Content[u])
      BY <1>2, <2>1, <2>2, <3>1, <3>2, <3>4, PartJoin
    <3>6. Len(sides[j]) = t[u] /\ Len(y.side[j]) <= Len(sides[j])
      <4> DEFINE v == Len(y.side[j])
                 w == Len(d)
                 l == Len(sides[j])
                 a == T[u]
      <4>1. v \in Nat /\ w \in Nat
        BY <2>2
      <4>2. l = v + w
        BY <3>3
      <4>3. t[u] = a + w
        BY <1>2
      <4>4. v = a
        BY <3>4
      <4> HIDE DEF v, w, l, a
      <4>5. l = t[u] /\ v <= l
        BY <4>1, <4>2, <4>3, <4>4
      <4> QED  BY <4>5 DEF l, v
    <3> QED  BY <3>1, <3>3, <3>5, <3>6
  <2> QED  BY <2>3, <2>4
<1>12. \A j \in 1 .. 3 : j < f.k => graph.size[SideNode(n, j)] <= Len(sides[j])
  <2> SUFFICES ASSUME NEW j \in 1 .. 3, j < f.k
               PROVE  graph.size[SideNode(n, j)] <= Len(sides[j])
    OBVIOUS
  <2>1. j < k
    BY <1>5
  <2>2. k \in 1 .. 3
    BY <1>1
  <2>3. j # k
    BY <2>1, <2>2
  <2>4. graph.size[SideNode(n, j)] <= Len(y.side[j])
    <3>1. j < Top.k
      BY <2>1 DEF k
    <3> QED  BY <1>3, <3>1 DEF Unread
  <2>5. sides[j] = y.side[j]
    BY <1>9, <2>3
  <2> QED  BY <2>4, <2>5
<1>13. Unread(n, x, f, t)
  <2>1. t[In(n)] = 0
    BY <1>3, <1>4 DEF Unread
  <2> QED  BY <1>3, <1>5, <1>7, <1>11, <1>12, <2>1 DEF Unread
<1>14. Right(n, x, f, t) /\ Kind(n) # "filter"
  BY <1>2, <1>3, <1>7, <1>13, Bcj2Is DEF n
<1> QED  BY <1>5, <1>7, <1>8, <1>14, FlowMove DEF t, n, y

\* node_refill() keeps what the node held in front of what arrived.
LEMMA RefillIs ==
  ASSUME Flowing, stack # <<>>, ret.rc = "ok", Kind(Top.n) # "copy", Top.at # "side",
         NEW at, Again(Refilled(Top.n, ret.data), [Top EXCEPT !.at = at]),
         PullInv(node', stack', ret', err')
  PROVE  \E x \in NodeState : \E f \in Request :
           /\ x.produced = node[Top.n].produced /\ x.out = node[Top.n].out
           /\ x.buf = node[Top.n].buf \o ret.data /\ x.need = node[Top.n].need
           /\ x.side = node[Top.n].side /\ x.prepared = node[Top.n].prepared
           /\ Kept([node EXCEPT ![Top.n] = x]) /\ [node EXCEPT ![Top.n] = x][Top.n] = x
           /\ f.n = Top.n /\ f.acc = Top.acc /\ f.k = Top.k /\ f.at = at
           /\ Again([node EXCEPT ![Top.n] = x], f) /\ err' = "ok"
<1> DEFINE n == Top.n
           y == node[n]
           d == ret.data
           f == [Top EXCEPT !.at = at]
           ended == (d = <<>>)
           grown == y.buf \o d
           x == [y EXCEPT !.buf = grown, !.eof = ended]
<1>1. /\ node \in [Nodes -> NodeState] /\ n \in Nodes /\ y \in NodeState /\ graph \in Graphs
      /\ y.buf \in Bytes /\ d \in Bytes /\ PullInv(node, stack, ret, err) /\ err = "ok"
  BY FlowFacts, Arrival DEF Flowing
<1>2. grown \in Bytes /\ Len(grown) = Len(y.buf) + Len(d) /\ ended \in BOOLEAN
  BY <1>1, JoinBytes
<1>3. Refilled(n, d) = [node EXCEPT ![n] = x]
  BY <1>1 DEF Refilled
<1>4. /\ x \in NodeState /\ x.produced = y.produced /\ x.failed = y.failed
      /\ x.out = y.out /\ x.pc = y.pc /\ x.off = y.off /\ x.buf = grown
      /\ x.need = y.need /\ x.side = y.side /\ x.prepared = y.prepared
  <2> HIDE DEF grown, ended
  <2> QED  BY <1>1, <1>2 DEF NodeState
<1>5. Again([node EXCEPT ![n] = x], f)
  BY <1>3
<1>6. f \in Request
  <2>1. f = stack'[Len(stack')] /\ stack' # <<>>
    <3>1. stack' = Append(Below, f) /\ Below \in Seq(Request)
      BY <1>1, <1>5, BelowFacts DEF Again, Flowing, PullInv
    <3> QED  BY <3>1
  <2>2. stack' \in Seq(Request)
    BY DEF PullInv, Calls
  <2> QED  BY <2>1, <2>2
<1>7. f.n = n /\ f.acc = Top.acc /\ f.k = Top.k /\ f.at = at
  BY Standing
<1> HIDE DEF x, f
<1>8. Holds(x) = Holds(y) + Arrived(n, stack, ret)
  <2> DEFINE p == y.pc
             q == y.off
             u == Len(y.out)
             v == Len(y.buf)
             w == Len(d)
             g == Len(grown)
  <2>1. Arrived(n, stack, ret) = w
    BY DEF Arrived, Top
  <2>2. p \in Nat /\ q \in Nat /\ u \in Nat /\ v \in Nat /\ w \in Nat
    BY <1>1, Items DEF NodeState
  <2>3. Holds(x) = p + q + u + g /\ Holds(y) = p + q + u + v /\ g = v + w
    BY <1>2, <1>4 DEF Holds
  <2> HIDE DEF p, q, u, v, w, g, n, d, y
  <2> QED  BY <2>1, <2>2, <2>3
<1>9. Kept([node EXCEPT ![n] = x]) /\ [node EXCEPT ![n] = x][n] = x
  <2>1. Kind(n) = "lzma" => Len(x.out) <= 1
    BY <1>1, <1>4 DEF PullInv, Within
  <2> QED  BY <1>1, <1>4, <1>8, <2>1, KeptChange
<1>10. err' = "ok"
  BY <1>1, <1>5 DEF Again
<1> QED  BY <1>4, <1>5, <1>6, <1>7, <1>9, <1>10

LEMMA StorePlain ==
  ASSUME Flowing, stack # <<>>, ret.rc = "ok", Kind(Top.n) \in Plain, Top.at # "side",
         NEW at, Again(Refilled(Top.n, ret.data), [Top EXCEPT !.at = at]),
         PullInv(node', stack', ret', err')
  PROVE  err' = "ok" /\ Flow(node', stack', ret')
<1> DEFINE n == Top.n
           y == node[n]
           d == ret.data
           u == In(n)
           T == Taken(node, stack, ret)
           t == Gave(node)
<1>1. n \in Nodes /\ y \in NodeState /\ graph \in Graphs /\ y.buf \in Bytes /\ Kind(n) # "copy"
  BY FlowFacts DEF Plain
<1>2. /\ Asks(Top) = u /\ u \in Nodes /\ d \in Bytes /\ T[u] \in Nat
      /\ t[u] = T[u] + Len(d) /\ Part(d, T[u], Content[u])
  BY Arrival DEF Asks
<1>3. Straight(n, y.produced, Top.acc \o y.out, y.buf, T)
  BY TopRight, StraightIs
<1>4. Straight(n, y.produced, Top.acc \o y.out, y.buf \o d, t)
  BY <1>1, <1>2, <1>3, StraightStore
<1>5. PICK x \in NodeState : \E f \in Request :
        /\ x.produced = y.produced /\ x.out = y.out /\ x.buf = y.buf \o d
        /\ Kept([node EXCEPT ![n] = x]) /\ [node EXCEPT ![n] = x][n] = x
        /\ f.n = n /\ f.acc = Top.acc
        /\ Again([node EXCEPT ![n] = x], f) /\ err' = "ok"
  BY <1>1, RefillIs
<1>6. PICK f \in Request :
        /\ x.produced = y.produced /\ x.out = y.out /\ x.buf = y.buf \o d
        /\ Kept([node EXCEPT ![n] = x]) /\ [node EXCEPT ![n] = x][n] = x
        /\ f.n = n /\ f.acc = Top.acc
        /\ Again([node EXCEPT ![n] = x], f) /\ err' = "ok"
  BY <1>5
<1>7. Straight(n, x.produced, f.acc \o x.out, x.buf, t)
  BY <1>4, <1>6
<1>8. Right(n, x, f, t)
  BY <1>7, StraightIs
<1> DEFINE nodes == [node EXCEPT ![n] = x]
<1>9. Kept(nodes) /\ Again(nodes, f) /\ Right(n, nodes[n], f, t)
  BY <1>6, <1>8
<1> HIDE DEF nodes
<1> QED  BY <1>6, <1>9, FlowOn

LEMMA StoreMain ==
  ASSUME Flowing, stack # <<>>, ret.rc = "ok", Kind(Top.n) = "bcj2", Top.at # "side",
         Again(Refilled(Top.n, ret.data), [Top EXCEPT !.at = "fresh"]),
         PullInv(node', stack', ret', err')
  PROVE  err' = "ok" /\ Flow(node', stack', ret')
<1> DEFINE n == Top.n
           y == node[n]
           d == ret.data
           u == In(n)
           T == Taken(node, stack, ret)
           t == Gave(node)
           C == Content[u]
<1>1. n \in Nodes /\ y \in NodeState /\ graph \in Graphs /\ y.buf \in Bytes
  BY FlowFacts
<1>2. /\ Asks(Top) = u /\ u \in Nodes /\ d \in Bytes /\ T[u] \in Nat
      /\ t[u] = T[u] + Len(d) /\ Part(d, T[u], C) /\ Top.at = "in"
  <2>1. Top.at = "in" /\ Asks(Top) = u
    BY Arrival DEF Asks
  <2> QED  BY <2>1, Arrival
<1>3. y.prepared /\ Merged(n, y, Top, T)
  <2>1. Right(n, y, Top, T)
    BY TopRight
  <2>2. ~y.prepared => Unread(n, y, Top, T)
    BY <2>1, Bcj2Is
  <2>3. y.prepared
    BY <1>2, <2>2 DEF Unread
  <2> QED  BY <2>1, <2>3, Bcj2Is
<1>4. PICK q \in 0 .. Len(C) :
        /\ Part(y.buf, q, C) /\ q + Len(y.buf) = T[u]
        /\ Part(Top.acc, y.produced, MergedBy(n)[q].out)
        /\ Branched(n, y.produced + Len(Top.acc), y, q)
  BY <1>3 DEF Merged
<1>5. PICK x \in NodeState : \E f \in Request :
        /\ x.produced = y.produced /\ x.buf = y.buf \o d /\ x.need = y.need
        /\ x.side = y.side /\ x.prepared = y.prepared
        /\ Kept([node EXCEPT ![n] = x]) /\ [node EXCEPT ![n] = x][n] = x
        /\ f.n = n /\ f.acc = Top.acc /\ f.at = "fresh"
        /\ Again([node EXCEPT ![n] = x], f) /\ err' = "ok"
  <2>1. Kind(n) # "copy"
    OBVIOUS
  <2>2. \E v \in NodeState : \E f \in Request :
           /\ v.produced = node[Top.n].produced /\ v.out = node[Top.n].out
           /\ v.buf = node[Top.n].buf \o ret.data /\ v.need = node[Top.n].need
           /\ v.side = node[Top.n].side /\ v.prepared = node[Top.n].prepared
           /\ Kept([node EXCEPT ![Top.n] = v]) /\ [node EXCEPT ![Top.n] = v][Top.n] = v
           /\ f.n = Top.n /\ f.acc = Top.acc /\ f.k = Top.k /\ f.at = "fresh"
           /\ Again([node EXCEPT ![Top.n] = v], f) /\ err' = "ok"
    BY <2>1, RefillIs, Zenon
  <2> QED  BY <2>2
<1>6. PICK f \in Request :
        /\ x.produced = y.produced /\ x.buf = y.buf \o d /\ x.need = y.need
        /\ x.side = y.side /\ x.prepared = y.prepared
        /\ Kept([node EXCEPT ![n] = x]) /\ [node EXCEPT ![n] = x][n] = x
        /\ f.n = n /\ f.acc = Top.acc /\ f.at = "fresh"
        /\ Again([node EXCEPT ![n] = x], f) /\ err' = "ok"
  BY <1>5
<1>7. Part(x.buf, q, C) /\ q + Len(x.buf) = t[u]
  <2>1. C \in Bytes /\ q \in Nat /\ Len(y.buf) \in Nat /\ Len(d) \in Nat
    BY <1>1, <1>2, ContentIs, Items
  <2>2. Part(y.buf \o d, q, C)
    BY <1>1, <1>2, <1>4, <2>1, PartJoin
  <2>3. Len(y.buf \o d) = Len(y.buf) + Len(d)
    BY <1>1, <1>2, JoinBytes
  <2> DEFINE v == Len(y.buf)
             w == Len(d)
             a == T[u]
             b == Len(y.buf \o d)
  <2>4. q + v = a /\ t[u] = a + w /\ b = v + w /\ v \in Nat /\ w \in Nat /\ a \in Nat /\ q \in Nat
    BY <1>2, <1>4, <2>1, <2>3
  <2> HIDE DEF v, w, a, b, t
  <2>5. q + b = t[u]
    BY <2>4
  <2> QED  BY <1>6, <2>2, <2>5 DEF b
<1>8. Merged(n, x, f, t)
  <2>1. Branched(n, x.produced + Len(f.acc), x, q)
    BY <1>4, <1>6 DEF Branched
  <2>2. Part(f.acc, x.produced, MergedBy(n)[q].out)
    BY <1>4, <1>6
  <2> HIDE DEF t
  <2> QED  BY <1>7, <2>1, <2>2 DEF Merged
<1>9. Right(n, x, f, t)
  BY <1>3, <1>6, <1>8, Bcj2Is
<1> DEFINE nodes == [node EXCEPT ![n] = x]
<1>10. Kept(nodes) /\ Again(nodes, f) /\ Right(n, nodes[n], f, t)
  BY <1>6, <1>9
<1> HIDE DEF nodes
<1> QED  BY <1>6, <1>10, FlowOn

LEMMA StoreFlow ==
  ASSUME Flowing, StoreInput, PullInv(node', stack', ret', err')
  PROVE  IF err' = "ok" THEN Flow(node', stack', ret') ELSE ret' = Failure
<1> DEFINE n == Top.n
           d == ret.data
           next == IF Kind(n) \in {"filter", "bcj2"} THEN "fresh" ELSE "loop"
<1>1. stack # <<>> /\ ret.rc = "ok" /\ Kind(n) # "copy"
  BY DEF StoreInput
<1>2. \/ FailNode(n, "DATA")
      \/ /\ Top.at = "side"
         /\ Again([node EXCEPT ![n].side[Top.k] = @ \o d], [Top EXCEPT !.at = "loop"])
      \/ Top.at # "side" /\ Again(Refilled(n, d), [Top EXCEPT !.at = next])
  BY DEF StoreInput
<1>3. Kind(n) \in Plain \cup {"bcj2"}
  <2>1. n \in Nodes /\ graph \in Graphs /\ ~HasPpmd
    BY <1>1, FlowFacts DEF Flowing
  <2>2. Kind(n) \in CoderKinds /\ Kind(n) # "ppmd"
    BY <2>1, GraphFacts DEF HasPpmd
  <2>3. Kind(n) # "pack"
    BY <1>1, TopFacts DEF Flowing, PullInv, InHand, Waits, Answer, Top, NoRet, Failure, Got
  <2> QED  BY <1>1, <2>2, <2>3 DEF CoderKinds, Plain
<1>4. CASE FailNode(n, "DATA")
  BY <1>1, <1>4, FlowFails
<1>5. CASE /\ Top.at = "side"
           /\ Again([node EXCEPT ![n].side[Top.k] = @ \o d], [Top EXCEPT !.at = "loop"])
  BY <1>1, <1>5, StoreSide
<1>6. CASE Top.at # "side" /\ Again(Refilled(n, d), [Top EXCEPT !.at = next])
  <2>1. CASE Kind(n) \in Plain
    BY <1>1, <1>6, <2>1, StorePlain
  <2>2. CASE Kind(n) = "bcj2"
    BY <1>1, <1>6, <2>2, StoreMain
  <2> QED  BY <1>3, <2>1, <2>2
<1> QED  BY <1>2, <1>4, <1>5, <1>6

\* A step of any node keeps what every node has, and gives, its part of the folder.
LEMMA NodesFlow ==
  ASSUME Flowing, NodeStep
  PROVE  IF err' = "ok" THEN Flow(node', stack', ret') ELSE ret' = Failure
<1>1. PullInv(node', stack', ret', err')
  BY NodesPull DEF Flowing
<1>2. ~Propagate
  BY DEF Propagate, Flowing, PullInv
<1>3. ~PullPpmd
  <2>1. stack # <<>> => Kind(Top.n) # "ppmd"
    BY FlowFacts DEF HasPpmd, Flowing
  <2> QED  BY <2>1 DEF PullPpmd, Running
<1> QED  BY <1>1, <1>2, <1>3, PackFlow, CopyFlow, LzmaFlow, FilterFlow, AesFlow, PrepareFlow,
            Bcj2Flow, StoreFlow DEF NodeStep

-------------------------------------------------------------------------------
(* The folder's bytes.                                                     *)

\* Until a node fails, the sink has what the root gave out and the loop has taken;
\* then the failure is on its way to the root.
Streaming ==
  IF err = "ok" THEN Flow(node, stack, ret) ELSE ret = Failure
OrderPart ==
  ReadOnce /\ ~HasPpmd =>
    Part(sink, 0, Content[Root]) /\ (verdict = "run" => Streaming)

\* All that is said of the folder is said of the graph, which does not change.
LEMMA SameContent ==
  ASSUME UNCHANGED graph
  PROVE  /\ Root' = Root /\ Nodes' = Nodes /\ HasPpmd' = HasPpmd /\ ReadOnce' = ReadOnce
         /\ Content' = Content
<1>1. Root' = Root /\ Nodes' = Nodes
  BY DEF Nodes, Root
<1>2. \A n : Kind(n)' = Kind(n) /\ In(n)' = In(n) /\ \A k : SideNode(n, k)' = SideNode(n, k)
  BY DEF Kind, In, SideNode
<1>3. HasPpmd' = HasPpmd /\ ReadOnce' = ReadOnce
  BY <1>1, <1>2 DEF HasPpmd, ReadOnce
<1>4. Content' = Content
  BY DEF Content, Raw, Nodes, Kind, In, SideNode
<1> QED  BY <1>1, <1>3, <1>4

LEMMA SameParts ==
  ASSUME UNCHANGED graph
  PROVE  /\ \A n, x, f, t : Right(n, x, f, t)' = Right(n, x, f, t)
         /\ \A s : Answering(s)' = Answering(s)
         /\ \A nodes, s, r : Taken(nodes, s, r)' = Taken(nodes, s, r)
<1>1. Root' = Root /\ Nodes' = Nodes /\ Content' = Content
  BY SameContent
<1>2. \A n : Kind(n)' = Kind(n) /\ In(n)' = In(n) /\ \A k : SideNode(n, k)' = SideNode(n, k)
  BY DEF Kind, In, SideNode
<1>3. \A n : Raw(n, Content)' = Raw(n, Content)
  BY <1>1, <1>2 DEF Raw
<1>4. \A n : MergedBy(n)' = MergedBy(n)
  BY <1>1, <1>2 DEF MergedBy
<1>5. \A n, p, made, b, t : Straight(n, p, made, b, t)' = Straight(n, p, made, b, t)
  BY <1>1, <1>2, <1>3 DEF Straight, MadeOf
<1>6. \A n, x, f, t : Unread(n, x, f, t)' = Unread(n, x, f, t)
  BY <1>1, <1>2 DEF Unread
<1>7. \A n, x, f, t : Merged(n, x, f, t)' = Merged(n, x, f, t)
  <2>1. \A n, p, x, q : Branched(n, p, x, q)' = Branched(n, p, x, q)
    BY <1>1, <1>2, <1>4 DEF Branched
  <2> QED  BY <1>1, <1>2, <1>4, <2>1 DEF Merged
<1>8. \A n, x, f, t : Right(n, x, f, t)' = Right(n, x, f, t)
  BY <1>2, <1>5, <1>6, <1>7 DEF Right
<1>9. \A s : Answering(s)' = Answering(s)
  BY <1>1, <1>2 DEF Answering, Asks
<1>10. \A nodes, s, r : Taken(nodes, s, r)' = Taken(nodes, s, r)
  BY <1>1, <1>9 DEF Taken
<1> QED  BY <1>8, <1>9, <1>10

LEMMA SameFlow ==
  ASSUME UNCHANGED <<graph, sink>>, Flow(node', stack', ret')
  PROVE  Flow(node, stack, ret)'
<1>1. \A nodes, s, r : Flow(nodes, s, r)' = Flow(nodes, s, r)
  BY SameContent, SameParts DEF Flow
<1> QED  BY <1>1

LEMMA OrderInitially == ChainInit => OrderPart
<1> SUFFICES ASSUME ChainInit, ReadOnce, ~HasPpmd PROVE OrderPart
  BY DEF OrderPart
<1>1. /\ graph \in Graphs /\ stack = <<>> /\ ret = NoRet /\ node = [n \in Nodes |-> FreshNode]
      /\ err = "ok" /\ sink = <<>>
  BY DEF ChainInit
<1>2. Part(sink, 0, Content[Root])
  BY <1>1, PartNone
<1> DEFINE T == Taken(node, stack, ret)
<1>3. T = [n \in Nodes |-> 0]
  <2>1. \A n \in Nodes : node[n].produced
          - (IF ret.rc = "ok" /\ n = Answering(stack) THEN Len(ret.data) ELSE 0) = 0
    BY <1>1 DEF FreshNode, NoRet
  <2> QED  BY <2>1 DEF Taken
<1> HIDE DEF T
<1>4. Root \in Nodes
  BY <1>1, GraphFacts
<1>5. ASSUME NEW n \in Nodes, NEW f, Hand(n, stack, f) PROVE Right(n, node[n], f, T)
  <2>1. f = Idle
    BY <1>1, <1>5 DEF Hand
  <2>2. f.acc = <<>> /\ f.k = 1 /\ f.at = "loop"
    BY <2>1 DEF Idle
  <2> DEFINE x == node[n]
  <2>3. /\ x.produced = 0 /\ x.buf = <<>> /\ x.out = <<>> /\ x.need = <<>>
        /\ x.prepared = FALSE /\ x.side = <<<<>>, <<>>, <<>>>>
    BY <1>1 DEF FreshNode
  <2> HIDE DEF x
  <2>4. Len(<<>>) = 0 /\ <<>> \in Bytes
    BY EmptySeq DEF Bytes
  <2>5. Kind(n) # "pack" => T[In(n)] = 0
    BY <1>1, <1>3, GraphFacts
  <2>6. CASE Kind(n) \in {"pack", "copy"}
    BY <2>2, <2>3, <2>5, <2>6 DEF Right, x
  <2>7. CASE Kind(n) \in {"lzma", "filter", "aes"}
    <3>1. f.acc \o x.out = <<>>
      BY <2>2, <2>3
    <3>2. MadeOf(n, 0) = 0
      BY DEF MadeOf
    <3>3. Block * 0 = 0
      BY ChainCapsAssumption
    <3>4. Straight(n, x.produced, f.acc \o x.out, x.buf, T)
      <4>1. /\ Part(<<>>, 0, Raw(n, Content)) /\ 0 + Len(<<>>) = MadeOf(n, 0)
            /\ Part(<<>>, 0, Content[In(n)]) /\ 0 + Len(<<>>) = T[In(n)]
        BY <2>4, <2>5, <2>7, <3>2, PartNone
      <4> QED  BY <2>3, <3>1, <3>3, <4>1 DEF Straight
    <3> QED  BY <2>7, <3>4 DEF Right, x
  <2>8. CASE Kind(n) = "bcj2"
    <3>1. \A j \in 1 .. 3 : x.side[j] = <<>> /\ T[SideNode(n, j)] = 0
      BY <1>1, <1>3, <2>3, <2>8, GraphFacts
    <3>2. Unread(n, x, f, T)
      BY <2>2, <2>3, <2>4, <2>5, <2>8, <3>1, PartNone DEF Unread
    <3> QED  BY <2>3, <2>8, <3>2 DEF Right, x
  <2>9. Kind(n) # "ppmd" /\ Kind(n) \in CoderKinds
    BY <1>1, GraphFacts DEF HasPpmd
  <2> QED  BY <2>6, <2>7, <2>8, <2>9 DEF CoderKinds
<1>6. T \in [Nodes -> Nat] /\ Len(sink) = T[Root] /\ ret.rc # "ok"
  BY <1>1, <1>3, <1>4 DEF NoRet
<1>7. Flow(node, stack, ret)
  BY <1>5, <1>6 DEF Flow, T
<1> QED  BY <1>1, <1>2, <1>7 DEF OrderPart, Streaming

\* A chain that goes on, for one folder.
LEMMA NodesOrder ==
  ASSUME ChainWhole, EndPart, ReadOnce, ~HasPpmd, Streaming, NodeStep
  PROVE  IF err' = "ok" THEN Flow(node', stack', ret') ELSE ret' = Failure
<1>1. CASE err = "ok"
  <2>1. Flowing
    BY <1>1 DEF Flowing, ChainWhole, Streaming
  <2> QED  BY <2>1, NodesFlow
<1>2. CASE err # "ok"
  <2>1. ret = Failure /\ ret # NoRet /\ ret.rc # "ok"
    BY <1>2 DEF Streaming, Failure, NoRet
  <2>2. stack # <<>> => Kind(Top.n) # "ppmd"
    BY TopFacts DEF HasPpmd, ChainWhole
  <2>3. Propagate
    BY <2>1, <2>2 DEF NodeStep, PullPack, PullCopy, PullLzma, PullPpmd, PullFilter,
                      PullAes, PrepareBcj2, PullBcj2, StoreInput, Running
  <2> QED  BY <1>2, <2>1, <2>3 DEF Propagate
<1> QED  BY <1>1, <1>2

LEMMA RootOrder ==
  ASSUME ChainWhole, Streaming, PullRoot
  PROVE  err' = "ok" /\ Flow(node', stack', ret')
<1>1. /\ stack = <<>> /\ ret = NoRet /\ Enter(Root, ChunkWanted, node, <<>>)
  BY DEF PullRoot
<1>2. err = "ok" /\ err' = err
  BY <1>1 DEF Streaming, NoRet, Failure, Enter
<1>3. graph \in Graphs /\ Root \in Nodes
  BY GraphFacts DEF ChainWhole
<1>4. PullInv(node, <<>>, NoRet, "ok") /\ Flow(node, <<>>, NoRet)
  BY <1>1, <1>2 DEF ChainWhole, Streaming
<1>5. PullInv(node', stack', ret', err')
  BY RootAsked DEF ChainWhole
<1> QED  BY <1>1, <1>2, <1>3, <1>4, <1>5, FlowEnter

\* What the sink takes is what comes next of the folder.
LEMMA SinkOrder ==
  ASSUME ChainWhole, ReadOnce, Streaming, Part(sink, 0, Content[Root]),
         stack = <<>>, ret.rc = "ok", ret' = NoRet, sink' = sink \o ret.data,
         UNCHANGED <<graph, node, stack, err>>
  PROVE  Part(sink', 0, Content[Root]) /\ Streaming'
<1> DEFINE T == Taken(node, stack, ret)
           d == ret.data
           t == Gave(node)
<1>1. /\ err = "ok" /\ Flow(node, stack, ret) /\ graph \in Graphs /\ sink \in Bytes
      /\ node \in [Nodes -> NodeState] /\ d \in Bytes
  <2>1. ret # Failure
    BY DEF Failure
  <2>2. d \in Bytes
    BY DEF ChainWhole, PullInv, Answer, NoRet, Failure, Got
  <2> QED  BY <2>1, <2>2 DEF Streaming, ChainWhole, PullInv
<1>2. Answering(stack) = Root /\ Root \in Nodes /\ Nodes = 1 .. Root
  BY <1>1, GraphFacts DEF Answering
<1>3. /\ T \in [Nodes -> Nat] /\ Len(sink) = T[Root] /\ Part(d, T[Root], Content[Root])
  BY <1>1, <1>2 DEF Flow
<1>4. \A m \in Nodes : node[m].produced \in Nat
  BY <1>1 DEF NodeState
<1>5. /\ t \in [Nodes -> Nat] /\ \A m \in Nodes : t[m] = node[m].produced
  BY <1>4 DEF Gave
<1>6. \A m \in Nodes : m # Root => T[m] = t[m]
  <2> SUFFICES ASSUME NEW m \in Nodes, m # Root PROVE T[m] = t[m]
    OBVIOUS
  <2>1. T[m] = node[m].produced - 0
    BY <1>2 DEF Taken
  <2> QED  BY <1>4, <1>5, <2>1
<1>7. t[Root] = T[Root] + Len(d)
  <2>1. T[Root] = node[Root].produced - Len(d)
    BY <1>2 DEF Taken
  <2>2. Len(d) \in Nat /\ node[Root].produced \in Nat /\ t[Root] = node[Root].produced
    BY <1>1, <1>2, <1>4, <1>5, Items
  <2> HIDE DEF T, t, d
  <2> QED  BY <2>1, <2>2
<1>8. Taken(node, stack, NoRet) = t
  <2>1. \A m \in Nodes : node[m].produced
          - (IF NoRet.rc = "ok" /\ m = Answering(stack) THEN Len(NoRet.data) ELSE 0)
            = node[m].produced
    BY <1>4 DEF NoRet
  <2> QED  BY <2>1 DEF Taken, Gave
<1> HIDE DEF T, t
<1>9. Part(sink', 0, Content[Root])
  <2>1. Content[Root] \in Bytes /\ Len(sink) \in Nat
    BY <1>1, <1>2, ContentIs, Items
  <2>2. 0 + Len(sink) = T[Root]
    <3> HIDE DEF d
    <3> QED  BY <1>3, <2>1
  <2>3. Part(d, 0 + Len(sink), Content[Root])
    BY <1>3, <2>2
  <2>4. Part(sink \o d, 0, Content[Root])
    BY <1>1, <2>1, <2>3, PartJoin
  <2> QED  BY <2>4
<1>10. ASSUME NEW n \in Nodes, NEW f, Hand(n, stack, f) PROVE Right(n, node[n], f, t)
  <2>1. Right(n, node[n], f, T)
    BY <1>1, <1>10 DEF Flow, T
  <2>2. \A u : Draws(n, u) => T[u] = t[u]
    <3> SUFFICES ASSUME NEW u, Draws(n, u) PROVE T[u] = t[u]
      OBVIOUS
    <3>1. u \in Nodes /\ u < n
      BY <1>1, DrawsApart
    <3>2. u # Root
      BY <1>2, <3>1
    <3> QED  BY <1>6, <3>1, <3>2
  <2> QED  BY <1>1, <2>1, <2>2, RightSame
<1>11. Len(sink') = t[Root]
  <2>1. Len(sink \o d) = Len(sink) + Len(d)
    BY <1>1, JoinBytes
  <2>2. Len(sink') = Len(sink \o d)
    OBVIOUS
  <2> QED  BY <1>3, <1>7, <2>1, <2>2
<1>12. \A n \in Nodes : \A f : Hand(n, stack, f) => Right(n, node[n], f, t)
  BY <1>10
<1>13. NoRet.rc # "ok"
  BY DEF NoRet
<1>14. Flow(node, stack, ret)'
  <2>1. Taken(node, stack, ret)' = t
    <3>1. Taken(node', stack', ret') = t
      BY <1>8
    <3> QED  BY <3>1, SameParts
  <2>2. (\A n \in Nodes : \A f : Hand(n, stack, f) => Right(n, node[n], f, Taken(node, stack, ret)))'
    <3>1. \A n, f : Hand(n, stack, f)' = Hand(n, stack, f)
      BY DEF Hand, Idle
    <3> QED  BY <1>12, <2>1, <3>1, SameContent, SameParts
  <2> QED  BY <1>2, <1>5, <1>11, <1>13, <2>1, <2>2, SameContent, SameParts DEF Flow
<1> QED  BY <1>1, <1>9, <1>14 DEF Streaming

LEMMA OrderStep == ChainWhole /\ EndPart /\ OrderPart /\ [ChainNext]_chainVars => OrderPart'
<1> SUFFICES ASSUME ChainWhole, EndPart, OrderPart, [ChainNext]_chainVars, ReadOnce', ~HasPpmd'
             PROVE  Part(sink, 0, Content[Root])' /\ (verdict' = "run" => Streaming')
  BY DEF OrderPart
<1>1. UNCHANGED graph
  BY DEF ChainNext, NodeStep, PullRoot, GiveToSink, FinishDecode, chainVars
<1>2. /\ Root' = Root /\ Content' = Content /\ ReadOnce /\ ~HasPpmd
      /\ Part(sink, 0, Content[Root]) /\ (verdict = "run" => Streaming)
  <2>1. Root' = Root /\ Content' = Content /\ HasPpmd' = HasPpmd /\ ReadOnce' = ReadOnce
    BY <1>1, SameContent
  <2>2. ReadOnce
    BY <2>1
  <2>3. ~HasPpmd
    BY <2>1
  <2> QED  BY <2>1, <2>2, <2>3 DEF OrderPart
<1>3. Part(sink', 0, Content[Root]) => Part(sink, 0, Content[Root])'
  BY <1>2 DEF Part
<1>4. CASE NodeStep
  <2>1. verdict = "run" /\ UNCHANGED <<graph, sink, verdict>>
    BY <1>4 DEF NodeStep
  <2>2. IF err' = "ok" THEN Flow(node', stack', ret') ELSE ret' = Failure
    BY <1>2, <1>4, <2>1, NodesOrder
  <2>3. Streaming'
    BY <2>1, <2>2, SameFlow DEF Streaming, Failure
  <2> QED  BY <1>2, <1>3, <2>1, <2>3
<1>5. CASE PullRoot
  <2>1. verdict = "run" /\ UNCHANGED <<graph, sink, verdict>>
    BY <1>5 DEF PullRoot
  <2>2. err' = "ok" /\ Flow(node', stack', ret')
    BY <1>2, <1>5, <2>1, RootOrder
  <2>3. Streaming'
    BY <2>1, <2>2, SameFlow DEF Streaming
  <2> QED  BY <1>2, <1>3, <2>1, <2>3
<1>6. CASE GiveToSink
  <2>1. /\ verdict = "run" /\ stack = <<>> /\ ret' = NoRet
        /\ UNCHANGED <<graph, node, stack, err>>
        /\ \/ verdict' = err /\ ret = Failure /\ UNCHANGED sink
           \/ verdict' \in {"DATA", "WRITE"} /\ UNCHANGED sink
           \/ ret.rc = "ok" /\ sink' = sink \o ret.data
    BY <1>6 DEF GiveToSink
  <2>2. verdict' = err => verdict' # "run"
    BY DEF EndPart
  <2>3. CASE ret.rc = "ok" /\ sink' = sink \o ret.data
    BY <1>2, <1>3, <2>1, <2>3, SinkOrder
  <2>4. CASE verdict' # "run" /\ UNCHANGED sink
    BY <1>2, <1>3, <2>4
  <2> QED  BY <2>1, <2>2, <2>3, <2>4
<1>7. CASE FinishDecode
  <2>1. verdict' \in {"ok", "DATA"} /\ UNCHANGED sink
    BY <1>7 DEF FinishDecode
  <2> QED  BY <1>2, <1>3, <2>1
<1>8. CASE UNCHANGED chainVars
  <2>1. UNCHANGED <<graph, node, stack, ret, err, sink, verdict>>
    BY <1>8 DEF chainVars
  <2>2. Streaming => Streaming'
    BY <2>1, SameFlow DEF Streaming, Failure
  <2> QED  BY <1>2, <1>3, <2>1, <2>2
<1> QED  BY <1>4, <1>5, <1>6, <1>7, <1>8 DEF ChainNext

\* The chain gives the sink the folder's bytes, in order, each once: sz_chain_decode
\* and node_pull, for every folder without a PPMd coder and every size of the buffers.
THEOREM BytesAlwaysInOrder == ChainSpec => [](~HasPpmd => BytesInOrder)
<1>1. ChainWhole /\ OrderPart => (~HasPpmd => BytesInOrder)
  <2> SUFFICES ASSUME ChainWhole, OrderPart, ~HasPpmd, ReadOnce, NEW i \in DOMAIN sink
               PROVE  i <= Len(Content[Root]) /\ sink[i] = Content[Root][i]
    BY DEF BytesInOrder
  <2>1. Part(sink, 0, Content[Root])
    BY DEF OrderPart
  <2>2. i \in 1 .. Len(sink) /\ i \in Nat /\ 0 + i = i
    BY Items DEF ChainWhole
  <2>3. Content[Root] \in Bytes /\ Len(Content[Root]) \in Nat
    BY ContentIs, GraphFacts, Items DEF ChainWhole
  <2> QED  BY <2>1, <2>2, <2>3 DEF Part
<1> QED  BY <1>1, ChainInitially, ChainStep, EndInitially, EndStep, OrderInitially, OrderStep,
            PTL DEF ChainSpec

\* sz_chain_decode succeeds only with the whole folder in the sink.
THEOREM SuccessIsWhole == ChainSpec => []OkIsWholeFolder
<1>1. ChainWhole /\ EndPart /\ OrderPart => OkIsWholeFolder
  <2> SUFFICES ASSUME ChainWhole, EndPart, OrderPart, verdict = "ok", ~HasPpmd, ReadOnce
               PROVE  sink = Content[Root] /\ Len(sink) = graph.size[Root] /\ ~readFailed
    BY DEF OkIsWholeFolder
  <2>1. Len(sink) = graph.size[Root] /\ ~readFailed
    BY DEF EndPart, OkReadEverything
  <2>2. Part(sink, 0, Content[Root]) /\ sink \in Bytes
    BY DEF OrderPart, ChainWhole
  <2>3. Content[Root] \in Bytes /\ Len(Content[Root]) <= graph.size[Root]
    BY ContentIs, GraphFacts DEF ChainWhole
  <2>4. sink = Content[Root]
    BY <2>1, <2>2, <2>3, PartWhole
  <2> QED  BY <2>1, <2>4
<1> QED  BY <1>1, ChainInitially, ChainStep, EndInitially, EndStep, OrderInitially, OrderStep,
            PTL DEF ChainSpec
===============================================================================
