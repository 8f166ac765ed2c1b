------------------------------ MODULE CoderChain ------------------------------
(***************************************************************************)
(* sz_chain_decode() and node_pull() of src/src/sevenz_chain.c: the coders *)
(* of one 7z folder, driven as a pull pipeline.  A node answers "up to     *)
(* `want` bytes of your output" and pulls from its own inputs; the root is *)
(* asked for OUT_CHUNK bytes at a time and what it returns goes to the     *)
(* sink.  The recursion of node_pull is the variable `stack`, one frame    *)
(* per call in progress, and every iteration of a node's loop is a step.   *)
(*                                                                         *)
(* A byte is a number that says which byte of which packed stream it came  *)
(* from; item i of packed stream n is 16 * n + i.  Copy, the filters and   *)
(* AES hand items on, an LZMA or LZMA2 coder makes two items of one, PPMd  *)
(* one of one, and BCJ2 puts an item of its CALL or JUMP input behind the  *)
(* items of MAIN that are branches, after one item of RC.  The decoders    *)
(* themselves are vendored; Garbage is a byte no input determined.         *)
(***************************************************************************)
EXTENDS Naturals, Sequences, SequencesExt

CONSTANTS
  Graphs,      \* folders: [kind, ins, size], node inputs before their users
  InCap,       \* SZ_IN_CHUNK, the input buffer of LZMA, PPMd and AES
  FilterCap,   \* SZ_FILT_CHUNK + SZ_FILT_LOOKAHEAD
  LookAhead,   \* bytes a branch converter may leave for its next call
  Block,       \* AES_BLOCK_SIZE
  MainCap,     \* SZ_BCJ2_MAIN_CHUNK
  MainKeep,    \* SZ_BCJ2_KEEP
  OutChunk,    \* SZ_OUT_CHUNK
  SideBudget   \* limits.max_side_bytes

\* A folder is a graph without cycles: build_coder makes a node after its inputs.
CoderKinds == {"pack", "copy", "lzma", "ppmd", "filter", "aes", "bcj2"}
InputCount(kind) == CASE kind = "pack" -> 0 [] kind = "bcj2" -> 4 [] OTHER -> 1
GraphForm(g) ==
  LET nodes == DOMAIN g.kind IN
  /\ g.kind \in Seq(CoderKinds) /\ g.kind # <<>>
  /\ g.size \in [nodes -> Nat] /\ g.ins \in [nodes -> Seq(nodes)]
  /\ \A n \in nodes : Len(g.ins[n]) = InputCount(g.kind[n])
                     /\ \A i \in DOMAIN g.ins[n] : g.ins[n][i] < n

ASSUME GraphsAssumption == \A g \in Graphs : GraphForm(g)

ASSUME ChainCapsAssumption ==
  /\ {InCap, FilterCap, Block, MainCap, OutChunk} \subseteq Nat \ {0}
  /\ {LookAhead, MainKeep, SideBudget} \subseteq Nat
  /\ LookAhead < FilterCap /\ Block <= InCap /\ MainKeep < MainCap

VARIABLES
  graph,       \* the folder being decoded
  node,        \* sz_node: per node its counters and buffers
  stack,       \* the node_pull calls in progress, innermost last
  ret,         \* what the call that just returned returned
  err,         \* err->status
  sink,        \* bytes given to the sink
  verdict,     \* "run" until sz_chain_decode returns
  readFailed   \* some read_at failed

chainVars == <<graph, node, stack, ret, err, sink, verdict, readFailed>>

Garbage == 0
Nodes == 1 .. Len(graph.kind)
Root == Len(graph.kind)
Kind(n) == graph.kind[n]
In(n) == graph.ins[n][1]

Least(a, b) == IF a < b THEN a ELSE b
Take(s, k) == SubSeq(s, 1, Least(k, Len(s)))
Drop(s, k) == SubSeq(s, k + 1, Len(s))
IsCall(x) == x % 4 = 1
IsJump(x) == x % 4 = 2
Doubled(s) == [i \in 1 .. 2 * Len(s) |-> 2 * s[(i + 1) \div 2] + (1 - (i % 2))]

NoRet == [rc |-> "none", data |-> <<>>]
Got(d) == [rc |-> "ok", data |-> d]
Failure == [rc |-> "fail", data |-> <<>>]

FreshNode == [produced |-> 0, buf |-> <<>>, out |-> <<>>, eof |-> FALSE,
              failed |-> FALSE, finished |-> FALSE, pc |-> 0, off |-> 0,
              side |-> <<<<>>, <<>>, <<>>>>, need |-> <<>>, prepared |-> FALSE]

ChainInit ==
  /\ graph \in Graphs
  /\ node = [n \in Nodes |-> FreshNode]
  /\ stack = <<>> /\ ret = NoRet
  /\ err = "ok" /\ sink = <<>> /\ verdict = "run" /\ readFailed = FALSE

-------------------------------------------------------------------------------
(* Entering and leaving node_pull.                                         *)

Top == stack[Len(stack)]
Below == SubSeq(stack, 1, Len(stack) - 1)
Running(kind, at) ==
  stack # <<>> /\ ret = NoRet /\ Kind(Top.n) = kind /\ Top.at = at
Want == Top.want - Len(Top.acc)

\* The prologue: a failed node answers -1, and no node is asked for more than
\* its declared output still holds.
Enter(m, want, nodes, frames) ==
  LET w == Least(want, graph.size[m] - nodes[m].produced) IN
  /\ node' = nodes
  /\ IF nodes[m].failed THEN stack' = frames /\ ret' = Failure
     ELSE IF w = 0 THEN stack' = frames /\ ret' = Got(<<>>)
     ELSE /\ stack' = Append(frames, [n |-> m, want |-> w, acc |-> <<>>,
                                      at |-> "loop", k |-> 1])
          /\ ret' = NoRet
  /\ UNCHANGED <<err, readFailed>>

\* The epilogue: produced += total.
Leave(n, nodes, data) ==
  /\ node' = [nodes EXCEPT ![n].produced = @ + Len(data)]
  /\ stack' = Below /\ ret' = Got(data)
  /\ UNCHANGED <<err, readFailed>>

\* node_fail(): the first failure of a node sets err, every one returns -1.
FailNode(n, status) ==
  /\ node' = [node EXCEPT ![n].failed = TRUE]
  /\ err' = IF node[n].failed THEN err ELSE status
  /\ stack' = Below /\ ret' = Failure

\* One more iteration of the node's loop, with its state and its frame.
Again(nodes, frame) ==
  /\ node' = nodes /\ stack' = Append(Below, frame) /\ ret' = NoRet
  /\ UNCHANGED <<err, readFailed>>

\* Calls input m; the frame waits at `at` for what it returns.
Pull(m, want, nodes, at) ==
  Enter(m, want, nodes, Append(Below, [Top EXCEPT !.at = at]))

\* A node whose input failed passes the failure on; only PPMd does not.
Propagate ==
  /\ stack # <<>> /\ ret = Failure /\ Kind(Top.n) # "ppmd"
  /\ stack' = Below
  /\ UNCHANGED <<node, ret, err, readFailed>>

-------------------------------------------------------------------------------
(* The nodes.                                                              *)

PullPack ==
  /\ Running("pack", "loop")
  /\ LET n == Top.n
         at == node[n].produced IN
     \/ Leave(n, node, [i \in 1 .. Top.want |-> 16 * n + at + i])
     \/ FailNode(n, "READ") /\ readFailed' = TRUE

PullCopy ==
  \/ /\ Running("copy", "loop")
     /\ Pull(In(Top.n), Top.want, node, "in")
  \/ /\ stack # <<>> /\ ret.rc = "ok" /\ Kind(Top.n) = "copy"
     /\ Leave(Top.n, node, ret.data)

\* LZMA and LZMA2.  A coder that has no input left returns what it has.
PullLzma ==
  /\ Running("lzma", "loop")
  /\ LET n == Top.n
         b == node[n].buf
         room == Want - Len(node[n].out)
         k == Least((room + 1) \div 2, Len(b))
         ready == node[n].out \o Doubled(Take(b, k))
     IN
     IF Want = 0 THEN Leave(n, node, Top.acc)
     ELSE IF b = <<>> /\ ~node[n].eof THEN Pull(In(n), InCap, node, "in")
     ELSE IF ready = <<>> THEN Leave(n, node, Top.acc)
     ELSE \/ Again([node EXCEPT ![n].buf = Drop(b, k),
                                ![n].out = Drop(ready, Want)],
                   [Top EXCEPT !.acc = @ \o Take(ready, Want)])
          \/ FailNode(n, "DATA") /\ UNCHANGED readFailed

\* ppmd_read() answers 0 at the end of its input and after a failed read, and
\* the symbol decoded from it may be refused or not.
Symbol(x, nodes) ==
  Again(nodes, [Top EXCEPT !.acc = Append(@, x), !.at = "loop"])

PullPpmd ==
  \/ /\ Running("ppmd", "loop")
     /\ LET n == Top.n IN
        IF Want = 0 THEN Leave(n, node, Top.acc)
        ELSE IF node[n].buf # <<>>
        THEN Symbol(Head(node[n].buf), [node EXCEPT ![n].buf = Tail(@)])
        ELSE IF ~node[n].eof THEN Pull(In(n), InCap, node, "in")
        ELSE \/ Symbol(Garbage, node)
             \/ FailNode(n, "DATA") /\ UNCHANGED readFailed
  \/ /\ stack # <<>> /\ ret = Failure /\ Kind(Top.n) = "ppmd"
     /\ \/ Symbol(Garbage, [node EXCEPT ![Top.n].failed = TRUE])
        \/ FailNode(Top.n, "DATA") /\ UNCHANGED readFailed

\* Delta and the branch converters.  `out` is the converted part of inbuf,
\* `buf` the carry behind it, `off` what was copied since the last retirement.
Convert(n, nodes) ==
  LET b == nodes[n].buf
      stay == [Top EXCEPT !.at = "loop"]
      Split(k) == Again([nodes EXCEPT ![n].out = Take(b, k),
                                      ![n].buf = Drop(b, k)], stay)
  IN
  IF b = <<>> THEN Leave(n, [nodes EXCEPT ![n].finished = TRUE], Top.acc)
  ELSE \E k \in (IF Len(b) > LookAhead THEN Len(b) - LookAhead ELSE 0) .. Len(b) :
         IF k > 0 THEN Split(k)
         ELSE IF nodes[n].eof THEN Split(Len(b))
         ELSE IF Len(b) >= FilterCap
         THEN FailNode(n, "DATA") /\ UNCHANGED readFailed
         ELSE Again(nodes, stay)

\* The converted prefix is retired before the carry moves to the front.
\* mutant: pc does not move
RetiredKeepingPc(n) == [node EXCEPT ![n].off = 0]
Retired(n) == [node EXCEPT ![n].pc = @ + node[n].off, ![n].off = 0]

PullFilter ==
  LET n == Top.n
      o == node[n].out
      k == Least(Len(o), Want)
  IN
  \/ /\ Running("filter", "loop")
     /\ IF Want = 0 THEN Leave(n, node, Top.acc)
        ELSE IF o # <<>>
        THEN Again([node EXCEPT ![n].out = Drop(o, k), ![n].off = @ + k],
                   [Top EXCEPT !.acc = @ \o Take(o, k)])
        ELSE IF node[n].finished THEN Leave(n, node, Top.acc)
        ELSE IF Len(node[n].buf) < FilterCap /\ ~node[n].eof
        THEN Pull(In(n), FilterCap - Len(node[n].buf), Retired(n), "in")
        ELSE Convert(n, Retired(n))
  \/ /\ Running("filter", "fresh")
     /\ Convert(n, node)

\* 7zAES decrypts whole blocks; `out` is pbuf from poff on.
PullAes ==
  /\ Running("aes", "loop")
  /\ LET n == Top.n
         o == node[n].out
         b == node[n].buf IN
     IF Want = 0 THEN Leave(n, node, Top.acc)
     ELSE IF o # <<>>
     THEN Again([node EXCEPT ![n].out = Drop(o, Want)],
                [Top EXCEPT !.acc = @ \o Take(o, Want)])
     ELSE IF Len(b) >= Block
     THEN Again([node EXCEPT ![n].out = Take(b, Block),
                             ![n].buf = Drop(b, Block)], Top)
     ELSE IF node[n].eof THEN FailNode(n, "DATA") /\ UNCHANGED readFailed
     ELSE Pull(In(n), InCap - Len(b), node, "in")

\* bcj2_prepare(): CALL, JUMP and RC are read in full, within the budget.
SideNode(n, k) == graph.ins[n][k + 1]
SidesUpTo(n, k) ==
  LET sz(i) == graph.size[SideNode(n, i)] IN
  CASE k = 1 -> sz(1) [] k = 2 -> sz(1) + sz(2) [] OTHER -> sz(1) + sz(2) + sz(3)

PrepareBcj2 ==
  /\ Running("bcj2", "loop") /\ ~node[Top.n].prepared
  /\ LET n == Top.n
         k == Top.k
         lack == graph.size[SideNode(n, k)] - Len(node[n].side[k]) IN
     IF SidesUpTo(n, k) > SideBudget THEN FailNode(n, "LIMIT") /\ UNCHANGED readFailed
     ELSE IF lack > 0 THEN Pull(SideNode(n, k), lack, node, "side")
     ELSE IF k < 3 THEN Again(node, [Top EXCEPT !.k = k + 1])
     ELSE Again([node EXCEPT ![n].prepared = TRUE], Top)

\* One item of a call of Bcj2Dec_Decode.  `need` lists the side streams the
\* pending branch still waits for.  The call takes what it can, an operand that
\* does not fit in dest excepted, without a refill or a look at the end of MAIN in
\* between; after it the loop goes on if dest has moved since the request began.
Branch(x) == IF IsCall(x) THEN <<3, 1>> ELSE IF IsJump(x) THEN <<3, 2>> ELSE <<>>

DecodeBcj2(n) ==
  LET s == node[n]
      k == Head(s.need)
      CallOver == IF Top.acc = <<>> THEN Leave(n, node, Top.acc)
                  ELSE Again(node, [Top EXCEPT !.at = "loop"])
  IN
  IF s.need # <<>>
  THEN IF s.side[k] = <<>> \/ (Want = 0 /\ k # 3) THEN CallOver
       ELSE Again([node EXCEPT ![n].need = Tail(@), ![n].side[k] = Tail(@)],
                  IF k = 3 THEN Top ELSE [Top EXCEPT !.acc = Append(@, Head(s.side[k]))])
  ELSE IF s.buf = <<>> \/ Want = 0 THEN CallOver
  ELSE Again([node EXCEPT ![n].buf = Tail(@), ![n].need = Branch(Head(s.buf))],
             [Top EXCEPT !.acc = Append(@, Head(s.buf))])

\* The loop around it, whose tests come before each call.
BeginDecode(n) ==
  IF node[n].buf = <<>> /\ node[n].eof THEN Leave(n, node, Top.acc)
  ELSE Again(node, [Top EXCEPT !.at = "decode"])

PullBcj2 ==
  LET n == Top.n IN
  \/ /\ Running("bcj2", "loop") /\ node[n].prepared
     /\ IF Want = 0 THEN Leave(n, node, Top.acc)
        ELSE IF Len(node[n].buf) <= MainKeep /\ ~node[n].eof
        THEN Pull(In(n), MainCap - Len(node[n].buf), node, "in")
        ELSE BeginDecode(n)
  \/ Running("bcj2", "fresh") /\ BeginDecode(n)
  \/ Running("bcj2", "decode") /\ DecodeBcj2(n)

\* What a node does with the bytes its input returned: node_refill, and an answer
\* without bytes is the end of the input.
\* mutant: the carry is overwritten
RefilledOver(n, d) == [node EXCEPT ![n].buf = d, ![n].eof = (d = <<>>)]
\* mutant: the end is not noticed
RefilledEndless(n, d) == [node EXCEPT ![n].buf = @ \o d]
Refilled(n, d) == [node EXCEPT ![n].buf = @ \o d, ![n].eof = (d = <<>>)]

StoreInput ==
  /\ stack # <<>> /\ ret.rc = "ok" /\ Kind(Top.n) # "copy"
  /\ LET n == Top.n
         d == ret.data
         next == IF Kind(n) \in {"filter", "bcj2"} THEN "fresh" ELSE "loop" IN
     IF Top.at = "side"
     THEN IF d = <<>> THEN FailNode(n, "DATA") /\ UNCHANGED readFailed
          ELSE Again([node EXCEPT ![n].side[Top.k] = @ \o d],
                     [Top EXCEPT !.at = "loop"])
     ELSE Again(Refilled(n, d),
                [Top EXCEPT !.at = next])

NodeStep ==
  /\ verdict = "run"
  /\ \/ PullPack \/ PullCopy \/ PullLzma \/ PullPpmd \/ PullFilter
     \/ PullAes \/ PrepareBcj2 \/ PullBcj2 \/ StoreInput \/ Propagate
  /\ UNCHANGED <<graph, sink, verdict>>

-------------------------------------------------------------------------------
(* The loop of sz_chain_decode.                                            *)

ChunkWanted == Least(OutChunk, graph.size[Root] - Len(sink))

PullRoot ==
  /\ verdict = "run" /\ stack = <<>> /\ ret = NoRet /\ ChunkWanted > 0
  /\ Enter(Root, ChunkWanted, node, <<>>)
  /\ UNCHANGED <<graph, sink, verdict>>

\* mutant: a short answer is the end
GiveToSinkShort ==
  /\ verdict = "run" /\ stack = <<>> /\ ret.rc = "ok"
  /\ ret' = NoRet /\ sink' = sink \o ret.data
  /\ verdict' = IF Len(ret.data) = ChunkWanted THEN verdict ELSE "ok"
  /\ UNCHANGED <<graph, node, stack, err, readFailed>>

\* A short answer of the root is an error, and the sink may refuse the bytes.
GiveToSink ==
  /\ verdict = "run" /\ stack = <<>> /\ ret # NoRet
  /\ ret' = NoRet
  /\ \/ ret = Failure /\ verdict' = err /\ UNCHANGED sink
     \/ /\ ret.rc = "ok" /\ Len(ret.data) # ChunkWanted
        /\ verdict' = "DATA" /\ UNCHANGED sink
     \/ /\ ret.rc = "ok" /\ Len(ret.data) = ChunkWanted
        /\ \/ sink' = sink \o ret.data /\ UNCHANGED verdict
           \/ verdict' = "WRITE" /\ UNCHANGED sink
  /\ UNCHANGED <<graph, node, stack, err, readFailed>>

\* finish_check(): bufs[0 .. 2] are MAIN, CALL and JUMP; RC, the fourth, is not
\* looked at.
FinishDecode ==
  /\ verdict = "run" /\ stack = <<>> /\ ret = NoRet /\ ChunkWanted = 0
  /\ LET s == node[Root] IN
     verdict' = IF Kind(Root) = "bcj2"
                   /\ \/ s.buf # <<>> \/ s.need # <<>>
                      \/ s.side[1] # <<>> \/ s.side[2] # <<>>
                THEN "DATA" ELSE "ok"
  /\ UNCHANGED <<graph, node, stack, ret, err, sink, readFailed>>

ChainNext == NodeStep \/ PullRoot \/ GiveToSink \/ FinishDecode

\* The calling thread runs the decoder: it takes steps while it can.
ChainSpec == ChainInit /\ [][ChainNext]_chainVars /\ WF_chainVars(ChainNext)

-------------------------------------------------------------------------------
(* Properties.                                                             *)

\* BCJ2 after one more item x of MAIN: what it has written, what is left of CALL
\* and JUMP, and whether the item a branch needs was missing.
MergeNext(m, x) ==
  LET k == IF IsCall(x) THEN 1 ELSE 2 IN
  IF m.stop THEN m
  ELSE IF ~IsCall(x) /\ ~IsJump(x) THEN [m EXCEPT !.out = Append(@, x)]
  ELSE IF m.left[k] = <<>> THEN [m EXCEPT !.out = Append(@, x), !.stop = TRUE]
  ELSE [m EXCEPT !.out = @ \o <<x, Head(m.left[k])>>, !.left[k] = Tail(@)]

Merging(main, call, jump) ==
  LET after[i \in 0 .. Len(main)] ==
        IF i = 0 THEN [out |-> <<>>, left |-> <<call, jump>>, stop |-> FALSE]
        ELSE MergeNext(after[i - 1], main[i])
  IN after

\* What node n makes of the whole of its inputs, when each node m gives of[m].
Raw(n, of) ==
  CASE Kind(n) = "pack" -> [i \in 1 .. graph.size[n] |-> 16 * n + i]
    [] Kind(n) = "lzma" -> Doubled(of[In(n)])
    [] Kind(n) = "aes"  -> Take(of[In(n)], Block * (Len(of[In(n)]) \div Block))
    [] Kind(n) = "bcj2" ->
         Merging(of[In(n)], of[SideNode(n, 1)], of[SideNode(n, 2)])[Len(of[In(n)])].out
    [] OTHER            -> of[In(n)]

\* What the folder decodes to: every coder applied to its whole input, cut at
\* the size the header declares for it.
Content[n \in Nodes] == Take(Raw(n, Content), graph.size[n])

\* A header with an idle coder may give an output two readers (see BuiltIsTree), who
\* then share its bytes between them.
ReadOnce ==
  \A m, n \in Nodes : \A i \in DOMAIN graph.ins[m], j \in DOMAIN graph.ins[n] :
    graph.ins[m][i] = graph.ins[n][j] => m = n /\ i = j

HasPpmd == \E n \in Nodes : Kind(n) = "ppmd"

\* Whatever the sizes of the buffers, of the chunks and of what the coders
\* leave for their next call, the sink gets the folder's bytes in order, none
\* lost, repeated or moved; PPMd alone may put bytes there that the packed
\* stream did not determine.
BytesInOrder ==
  ReadOnce =>
    \A i \in DOMAIN sink :
      \/ HasPpmd /\ sink[i] = Garbage
      \/ i <= Len(Content[Root]) /\ sink[i] = Content[Root][i]

\* A folder is decoded with success only when the sink has all of it and no
\* read of the archive failed: no short answer of a coder, however deep in the
\* chain, passes for the end of the data.  Only PPMd, whose byte reader cannot
\* report a failure, may go on from bytes that were never read.
OkIsWholeFolder ==
  verdict = "ok" /\ ~HasPpmd /\ ReadOnce =>
    sink = Content[Root] /\ Len(sink) = graph.size[Root] /\ ~readFailed

\* No other coder reads what n reads.
OnlyReader(n) ==
  \A m \in Nodes \ {n} : \A i \in DOMAIN graph.ins[m] : graph.ins[m][i] # In(n)

\* Between two requests of the root a filter has accounted for every byte its
\* input produced, when it alone reads it: the program counter its conversion
\* depends on is the stream position of the first byte it holds, after any number
\* of retired prefixes.
FilterPcIsPosition ==
  stack = <<>> /\ err = "ok" =>
    \A n \in Nodes : Kind(n) = "filter" /\ OnlyReader(n) =>
      node[n].pc + node[n].off + Len(node[n].out) + Len(node[n].buf)
        = node[In(n)].produced

\* sz_chain_decode returns: every request of the root is answered, whatever
\* sizes a header declares and wherever in the chain the bytes run out.
PullReturns == (stack # <<>>) ~> (stack = <<>>)
===============================================================================
