------------------------------ MODULE ChainGraph ------------------------------
(***************************************************************************)
(* From the header of a 7z folder to the nodes that decode it:             *)
(* sz_chain_parse(), sz_chain_check() and build_coder() of                 *)
(* src/src/sevenz_chain.c.  A header lists coders, bonds that feed an      *)
(* input stream from a coder's output, and the input streams fed by packed *)
(* streams.  The recursion of build_coder is the variable `building`, one  *)
(* frame per call in progress.                                             *)
(*                                                                         *)
(* Coders, streams and packed streams count from 1 here.                   *)
(***************************************************************************)
EXTENDS Naturals, Sequences, FiniteSets

CONSTANTS
  Headers,     \* folder headers, see HeaderForm
  MaxCoders,   \* SZ_CHAIN_MAX_CODERS
  MaxStreams,  \* SZ_CHAIN_MAX_STREAMS
  Bcj2Ins      \* inputs of a BCJ2 coder, 4

\* A header names its coders' methods ("one" input, "bcj2", "unknown") and how
\* many inputs each declares, 0 standing for counts the parser refuses.  `whole`
\* says that it is not cut short and that its reserved bits are clear, `sized`
\* that the folder's size is its output coder's, `declared` how many packed
\* streams the archive has for it.
HeaderForm(h) ==
  /\ h.method \in Seq({"one", "bcj2", "unknown"}) /\ h.bonds \in Seq(Nat \X Nat)
  /\ h.ins \in [DOMAIN h.method -> Nat] /\ h.declared \in Nat
  /\ Len(h.bonds) + 1 = Len(h.method)
  /\ {h.whole, h.sized} \subseteq BOOLEAN

ASSUME GraphAssumption ==
  /\ {MaxCoders, MaxStreams, Bcj2Ins} \subseteq Nat \ {0}
  /\ \A h \in Headers : HeaderForm(h)

VARIABLES
  hdr,         \* the header
  phase,       \* "parse", "check", "build", "unwind", "built", "free", "over"
  building,    \* calls of build_coder, [coder, input], innermost last
  visiting,    \* b->visiting
  byCoder, byPack, \* the nodes registered
  held,        \* nodes allocated and not destroyed
  refused      \* why the folder was refused, "no" while it was not

graphVars == <<hdr, phase, building, visiting, byCoder, byPack, held, refused>>

Coders == 1 .. Len(hdr.method)
FirstIn(c) ==
  LET upTo[i \in 0 .. Len(hdr.method)] == IF i = 0 THEN 1 ELSE upTo[i - 1] + hdr.ins[i]
  IN upTo[c - 1]
LastIn(c) == FirstIn(c) + hdr.ins[c] - 1
NumStreams == LastIn(Len(hdr.method))
Bonds == { hdr.bonds[i] : i \in DOMAIN hdr.bonds }   \* <<input stream, coder>>

GraphInit ==
  /\ hdr \in Headers
  /\ phase = "parse" /\ building = <<>> /\ visiting = {}
  /\ byCoder = {} /\ byPack = {} /\ held = 0 /\ refused = "no"

-------------------------------------------------------------------------------
(* sz_chain_parse.                                                         *)

CodersFit ==
  /\ Len(hdr.method) \in 1 .. MaxCoders
  /\ \A c \in Coders : hdr.ins[c] \in 1 .. MaxStreams
  /\ NumStreams <= MaxStreams

BondsFit == \A b \in Bonds : b[1] \in 1 .. NumStreams /\ b[2] \in Coders

\* The bonds leave this many streams for packed data.  The only one is not
\* listed: it is the first that no bond feeds.
Unused == NumStreams - Len(hdr.bonds)
FreeStreams == { s \in 1 .. NumStreams : \A b \in Bonds : b[1] # s }
PackStream == IF Unused # 1 THEN hdr.packs
              ELSE <<CHOOSE s \in FreeStreams : \A t \in FreeStreams : s <= t>>

PacksFit ==
  /\ Unused = hdr.declared
  /\ IF Unused = 1 THEN FreeStreams # {}
     ELSE /\ \A i \in DOMAIN hdr.packs : hdr.packs[i] \in 1 .. NumStreams
          /\ \A i, j \in DOMAIN hdr.packs : hdr.packs[i] = hdr.packs[j] => i = j

\* Every input stream is fed once: by a bond or by a packed stream.
SourcesFit ==
  /\ \A i, j \in DOMAIN hdr.bonds : hdr.bonds[i][1] = hdr.bonds[j][1] => i = j
  /\ \A i \in DOMAIN PackStream : PackStream[i] \in FreeStreams
  /\ \A s \in FreeStreams : \E i \in DOMAIN PackStream : PackStream[i] = s

\* The output coder is the first that no bond draws from.
Outputs == { c \in Coders : \A b \in Bonds : b[2] # c }
\* mutant: the last coder is the output
UnpackCoderLast == Len(hdr.method)
UnpackCoder == CHOOSE c \in Outputs : \A d \in Outputs : c <= d

Parsed ==
  /\ hdr.whole /\ CodersFit /\ BondsFit /\ PacksFit /\ SourcesFit
  /\ Outputs # {} /\ hdr.sized

Parse ==
  /\ phase = "parse"
  /\ \/ Parsed /\ phase' = "check" /\ UNCHANGED refused
     \/ ~Parsed /\ phase' = "over" /\ refused' = "header"
     \/ phase' = "over" /\ refused' = "memory"
  /\ UNCHANGED <<hdr, building, visiting, byCoder, byPack, held>>

-------------------------------------------------------------------------------
(* sz_chain_check, and the graph of nodes.                                 *)

Checked == \A c \in Coders :
  hdr.method[c] # "unknown"
    /\ hdr.ins[c] = (IF hdr.method[c] = "bcj2" THEN Bcj2Ins ELSE 1)

\* build_coder is called: a call for a coder that is neither built nor in
\* progress makes its node.
NewNode(c) ==
  \/ /\ building' = Append(building, [coder |-> c, input |-> 1])
     /\ visiting' = visiting \union {c}
     /\ held' = held + 1
     /\ phase' = "build" /\ UNCHANGED refused
  \/ /\ refused' = "memory"
     /\ phase' = IF building = <<>> THEN "free" ELSE "unwind"
     /\ UNCHANGED <<building, visiting, held>>

Check ==
  /\ phase = "check"
  /\ \/ ~Checked /\ phase' = "over" /\ refused' = "method"
        /\ UNCHANGED <<building, visiting, held>>
     \/ Checked /\ NewNode(UnpackCoder)
  /\ UNCHANGED <<hdr, byCoder, byPack>>

Call == building[Len(building)]
Callers == SubSeq(building, 1, Len(building) - 1)
InStream == FirstIn(Call.coder) + Call.input - 1
NextInput(calls) == [calls EXCEPT ![Len(calls)].input = @ + 1]

InputLeft == phase = "build" /\ Call.input <= hdr.ins[Call.coder]
FedByCoder == \E b \in Bonds : b[1] = InStream

\* build_stream on a stream a packed stream feeds, and build_pack.
FromPack ==
  /\ InputLeft /\ ~FedByCoder
  /\ LET p == CHOOSE i \in DOMAIN PackStream : PackStream[i] = InStream IN
     \/ /\ building' = NextInput(building)
        /\ byPack' = byPack \union {p}
        /\ held' = IF p \in byPack THEN held ELSE held + 1
        /\ UNCHANGED <<phase, refused>>
     \/ /\ p \notin byPack
        /\ phase' = "unwind" /\ refused' \in {"memory", "header"}
        /\ UNCHANGED <<building, byPack, held>>
  /\ UNCHANGED <<hdr, visiting, byCoder>>

\* On one a coder feeds: a node that exists is used again, and a coder whose
\* own inputs are still being built closes a cycle.
Feeder == (CHOOSE b \in Bonds : b[1] = InStream)[2]

Reuse ==
  /\ InputLeft /\ FedByCoder /\ Feeder \in byCoder
  /\ building' = NextInput(building)
  /\ UNCHANGED <<hdr, phase, visiting, byCoder, byPack, held, refused>>

Cycle ==
  /\ InputLeft /\ FedByCoder /\ Feeder \in visiting
  /\ phase' = "unwind" /\ refused' = "cycle"
  /\ UNCHANGED <<hdr, building, visiting, byCoder, byPack, held>>

\* mutant: a coder in progress is entered again
DescendAgain ==
  /\ InputLeft /\ FedByCoder
  /\ Feeder \notin byCoder
  /\ NewNode(Feeder)
  /\ UNCHANGED <<hdr, byCoder, byPack>>

Descend ==
  /\ InputLeft /\ FedByCoder
  /\ Feeder \notin byCoder \union visiting
  /\ NewNode(Feeder)
  /\ UNCHANGED <<hdr, byCoder, byPack>>

\* The inputs are there: the method's properties are read, its limits checked,
\* its memory allocated, its key derived, and the node is registered.
SetUp ==
  /\ phase = "build" /\ Call.input > hdr.ins[Call.coder]
  /\ byCoder' = byCoder \union {Call.coder}
  /\ visiting' = visiting \ {Call.coder}
  /\ IF Callers = <<>> THEN building' = <<>> /\ phase' = "built"
     ELSE building' = NextInput(Callers) /\ UNCHANGED phase
  /\ UNCHANGED <<hdr, byPack, held, refused>>

SetUpFails ==
  /\ phase = "build" /\ Call.input > hdr.ins[Call.coder]
  /\ phase' = "unwind" /\ refused' \in {"memory", "header", "limit", "password"}
  /\ UNCHANGED <<hdr, building, visiting, byCoder, byPack, held>>

\* A call that failed destroys its own node, and its caller fails too.
Unwind ==
  /\ phase = "unwind"
  /\ held' = held - 1 /\ visiting' = visiting \ {Call.coder}
  /\ building' = Callers
  /\ phase' = IF Callers = <<>> THEN "free" ELSE phase
  /\ UNCHANGED <<hdr, byCoder, byPack, refused>>

\* The folder is decoded, or is not; then free_nodes.
DecodeFolder ==
  /\ phase = "built" /\ phase' = "free"
  /\ UNCHANGED <<hdr, building, visiting, byCoder, byPack, held, refused>>

FreeNodes ==
  /\ phase = "free"
  /\ held' = held - Cardinality(byCoder) - Cardinality(byPack)
  /\ byCoder' = {} /\ byPack' = {} /\ phase' = "over"
  /\ UNCHANGED <<hdr, building, visiting, refused>>

GraphNext ==
  \/ Parse \/ Check \/ FromPack \/ Reuse \/ Cycle \/ Descend \/ SetUp
  \/ SetUpFails \/ Unwind \/ DecodeFolder \/ FreeNodes

GraphSpec == GraphInit /\ [][GraphNext]_graphVars

-------------------------------------------------------------------------------
(* Properties.                                                             *)

InputsOf(c) == FirstIn(c) .. LastIn(c)
Feeds(d, c) == \E s \in InputsOf(c) : <<s, d>> \in Bonds
Under(c) ==
  LET within[k \in 0 .. Len(hdr.method)] ==
        IF k = 0 THEN { d \in Coders : Feeds(d, c) }
        ELSE within[k - 1] \union { d \in Coders : \E e \in within[k - 1] : Feeds(d, e) }
  IN within[Len(hdr.method)]

\* A chain that is built is the part of the header below its output coder, which
\* nobody draws from, and no coder of it waits for its own output.  The coder count is one more than
\* the bond count and no input is fed twice, so a chain that leaves no coder out
\* has each output go to one reader only; a header with an idle coder may make
\* two readers share one decoder.  A cycle is reported only where there is one.
BuiltIsTree ==
  /\ phase = "built" =>
       LET reached == {UnpackCoder} \union Under(UnpackCoder) IN
       /\ byCoder = reached
       /\ \A c \in reached : c \notin Under(c)
       /\ \A c \in Coders : ~Feeds(UnpackCoder, c)
       /\ byCoder = Coders =>
            \A c \in Coders \ {UnpackCoder} : Cardinality({ b \in Bonds : b[2] = c }) = 1
  /\ refused = "cycle" => \E c \in Under(UnpackCoder) : c \in Under(c)

\* Each node is registered or belongs to one call in progress, so every way out
\* of a build that failed half-way frees each node once; and the calls are never
\* deeper than there are coders, whatever cycle the header describes.
NodesAccounted ==
  /\ held = Cardinality(byCoder) + Cardinality(byPack) + Len(building)
  /\ phase = "over" => held = 0
  /\ Len(building) <= Len(hdr.method)
===============================================================================
