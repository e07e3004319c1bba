------------------------ MODULE DominatorTree_proofs ------------------------
(***************************************************************************)
(* What both traversals give, for every function graph: each reachable     *)
(* block once, every block after one of its predecessors, and in preorder  *)
(* the first successor next.  The argument is about three sets only: the   *)
(* blocks that are placed, those that wait on the stack (or in a span),    *)
(* and the one that is set apart, the exit block of the preorder.          *)
(*                                                                         *)
(* And what follows for the dominator tree: the iteration over the         *)
(* reversed preorder gives the tree of every function graph without        *)
(* unreachable blocks, reducible or not.  The numbering is no postorder;   *)
(* all that is used of it is that every block but the entry has a          *)
(* predecessor with a higher number.                                       *)
(***************************************************************************)
EXTENDS DominatorTree, FlowGraph_proofs, SequenceTheorems

SpanBlocks(spans) == UNION {Range(s) : s \in Range(spans)}

Waiting == IF kind = "preorder" THEN Range(stack)
           ELSE Range(span) \cup SpanBlocks(stack)

Apart == IF kind = "preorder" THEN {g.exit} ELSE {}

(* Every block of ord but the entry has a predecessor that comes before.   *)
Preceded(gr, ord) ==
    \A k \in DOMAIN ord :
        \/ ord[k] = gr.entry
        \/ \E j \in 1 .. (k - 1) : ord[k] \in Successors(gr, ord[j])

(* How far a traversal got: nothing is placed twice or without a reason,   *)
(* and what follows a placed block is placed, waits, or is set apart.      *)
Progress(gr, ord, waiting, apart) ==
    /\ ord \in Seq(Blocks(gr))
    /\ IsInjective(ord)
    /\ Range(ord) \cup waiting \subseteq Reachable(gr)
    /\ gr.entry \in Range(ord) \cup waiting \cup apart
    /\ \A b \in Range(ord) : Successors(gr, b) \subseteq Range(ord) \cup waiting \cup apart
    /\ \A b \in waiting : b = gr.entry \/ \E p \in Range(ord) : b \in Successors(gr, p)
    /\ Preceded(gr, ord)

(* Preorder: the first successor of a block is the exit, was placed, comes *)
(* next, or is on top of the stack.                                        *)
FirstNext ==
    \A k \in 1 .. Len(order) :
        LET target == g.succ[order[k]][1] IN
        \/ target \in {g.exit} \cup {order[j] : j \in 1 .. k}
        \/ k < Len(order) /\ order[k + 1] = target
        \/ k = Len(order) /\ stack # <<>> /\ Head(stack) = target

TypeInv ==
    /\ g \in Graphs
    /\ kind \in {"preorder", "bfs"}
    /\ pc \in {"loop", "done"}
    /\ order \in Seq(Blocks(g))
    /\ span \in Seq(Blocks(g))
    /\ kind = "preorder" => span = <<>> /\ stack \in Seq(Blocks(g))
    /\ kind = "bfs" => stack \in Seq(Seq(Blocks(g)))

LoopInv ==
    pc = "loop" =>
        /\ visited = Range(order)
        /\ Progress(g, order, Waiting, Apart)
        /\ kind = "preorder" => g.exit \notin Range(order) /\ FirstNext

DoneInv ==
    pc = "done" => EachBlockOnce /\ PredecessorBefore /\ FirstSuccessorNext

TraverseInv == TypeInv /\ LoopInv /\ DoneInv

----------------------------------------------------------------------------
(* The members of a sequence, when its head is popped, ...                 *)
LEMMA PoppedRange ==
  ASSUME NEW S, NEW s \in Seq(S), s # <<>>
  PROVE  /\ Head(s) \in S
         /\ Tail(s) \in Seq(S)
         /\ Range(s) = {Head(s)} \cup Range(Tail(s))
<1>1. /\ Head(s) \in S /\ Tail(s) \in Seq(S) /\ Len(Tail(s)) = Len(s) - 1
      /\ \A k \in 1 .. Len(Tail(s)) : Tail(s)[k] = s[k + 1]
  BY HeadTailProperties
<1>2. Len(s) \in Nat \ {0} /\ DOMAIN s = 1 .. Len(s) /\ DOMAIN Tail(s) = 1 .. Len(Tail(s))
  BY <1>1, LenProperties, EmptySeq
<1>3. Head(s) = s[1]
  BY <1>2
<1>4. ASSUME NEW k \in DOMAIN s PROVE s[k] \in {Head(s)} \cup Range(Tail(s))
  <2>1. CASE k = 1
    BY <1>3, <2>1
  <2>2. CASE k # 1
    <3>1. k - 1 \in DOMAIN Tail(s) /\ Tail(s)[k - 1] = s[k]
      BY <1>1, <1>2, <2>2
    <3>. QED BY <3>1 DEF Range
  <2>. QED BY <2>1, <2>2
<1>5. ASSUME NEW k \in DOMAIN Tail(s) PROVE Tail(s)[k] \in Range(s)
  <2>1. k + 1 \in DOMAIN s /\ Tail(s)[k] = s[k + 1]
    BY <1>1, <1>2
  <2>. QED BY <2>1 DEF Range
<1>6. Head(s) \in Range(s)
  BY <1>2, <1>3 DEF Range
<1>. QED BY <1>1, <1>4, <1>5, <1>6 DEF Range

(* ... when another sequence is put before it ...                          *)
LEMMA JoinedRange ==
  ASSUME NEW S, NEW s \in Seq(S), NEW t \in Seq(S)
  PROVE  s \o t \in Seq(S) /\ Range(s \o t) = Range(s) \cup Range(t)
<1>1. /\ s \o t \in Seq(S) /\ Len(s \o t) = Len(s) + Len(t)
      /\ \A k \in 1 .. Len(s) + Len(t) :
            (s \o t)[k] = IF k <= Len(s) THEN s[k] ELSE t[k - Len(s)]
  BY ConcatProperties
<1>2. /\ DOMAIN s = 1 .. Len(s) /\ DOMAIN t = 1 .. Len(t)
      /\ DOMAIN (s \o t) = 1 .. Len(s) + Len(t)
      /\ Len(s) \in Nat /\ Len(t) \in Nat
  BY <1>1, LenProperties
<1>3. ASSUME NEW k \in DOMAIN (s \o t) PROVE (s \o t)[k] \in Range(s) \cup Range(t)
  <2>1. CASE k <= Len(s)
    <3>1. k \in DOMAIN s /\ (s \o t)[k] = s[k]
      BY <1>1, <1>2, <2>1
    <3>. QED BY <3>1 DEF Range
  <2>2. CASE ~ (k <= Len(s))
    <3>1. k - Len(s) \in DOMAIN t /\ (s \o t)[k] = t[k - Len(s)]
      BY <1>1, <1>2, <2>2
    <3>. QED BY <3>1 DEF Range
  <2>. QED BY <2>1, <2>2
<1>4. ASSUME NEW k \in DOMAIN s PROVE s[k] \in Range(s \o t)
  <2>1. k \in DOMAIN (s \o t) /\ (s \o t)[k] = s[k]
    BY <1>1, <1>2
  <2>. QED BY <2>1 DEF Range
<1>5. ASSUME NEW k \in DOMAIN t PROVE t[k] \in Range(s \o t)
  <2>1. k + Len(s) \in DOMAIN (s \o t) /\ (s \o t)[k + Len(s)] = t[k]
    BY <1>1, <1>2
  <2>. QED BY <2>1 DEF Range
<1>. QED BY <1>1, <1>3, <1>4, <1>5 DEF Range

(* (whose head is then the head of the whole) ...                          *)
LEMMA JoinedHead ==
  ASSUME NEW S, NEW s \in Seq(S), NEW t \in Seq(S), s # <<>>
  PROVE  s \o t # <<>> /\ Head(s \o t) = s[1]
<1>1. /\ s \o t \in Seq(S) /\ Len(s \o t) = Len(s) + Len(t)
      /\ \A k \in 1 .. Len(s) + Len(t) :
            (s \o t)[k] = IF k <= Len(s) THEN s[k] ELSE t[k - Len(s)]
  BY ConcatProperties
<1>2. Len(s) \in Nat \ {0} /\ Len(t) \in Nat
  BY EmptySeq, LenProperties
<1>3. Len(s \o t) # 0 /\ (s \o t)[1] = s[1]
  BY <1>1, <1>2
<1>4. s \o t # <<>>
  BY <1>3, EmptySeq
<1> DEFINE u == s \o t
<1>5. u \in Seq(S) /\ u # <<>> /\ u[1] = s[1]
  BY <1>1, <1>3, <1>4
<1> HIDE DEF u
<1>6. Head(u) = u[1]
  BY <1>5
<1>. QED BY <1>4, <1>5, <1>6 DEF u

(* ... and when a block is appended.                                       *)
LEMMA AppendedRange ==
  ASSUME NEW S, NEW s \in Seq(S), NEW e \in S
  PROVE  /\ Append(s, e) \in Seq(S)
         /\ Len(Append(s, e)) = Len(s) + 1
         /\ Len(s) \in Nat
         /\ DOMAIN s = 1 .. Len(s)
         /\ DOMAIN Append(s, e) = 1 .. Len(s) + 1
         /\ \A k \in 1 .. Len(s) : Append(s, e)[k] = s[k]
         /\ Append(s, e)[Len(s) + 1] = e
         /\ Range(Append(s, e)) = Range(s) \cup {e}
<1>1. /\ Append(s, e) \in Seq(S)
      /\ Len(Append(s, e)) = Len(s) + 1
      /\ Len(s) \in Nat
      /\ DOMAIN s = 1 .. Len(s)
  BY LenProperties
<1>2. DOMAIN Append(s, e) = 1 .. Len(s) + 1
  BY <1>1, LenProperties
<1>3. \A k \in 1 .. Len(s) : Append(s, e)[k] = s[k]
  BY <1>1
<1>4. Append(s, e)[Len(s) + 1] = e
  BY <1>1
<1>5. ASSUME NEW k \in DOMAIN Append(s, e) PROVE Append(s, e)[k] \in Range(s) \cup {e}
  <2>1. k \in 1 .. Len(s) \/ k = Len(s) + 1
    BY <1>1, <1>2
  <2>. QED BY <1>1, <1>3, <1>4, <2>1 DEF Range
<1>6. ASSUME NEW k \in DOMAIN s PROVE s[k] \in Range(Append(s, e))
  <2>1. k \in DOMAIN Append(s, e) /\ Append(s, e)[k] = s[k]
    BY <1>1, <1>2, <1>3
  <2>. QED BY <2>1 DEF Range
<1>7. e \in Range(Append(s, e))
  <2>1. Len(s) + 1 \in DOMAIN Append(s, e)
    BY <1>1, <1>2
  <2>. QED BY <1>4, <2>1 DEF Range
<1>. QED BY <1>1, <1>2, <1>3, <1>4, <1>5, <1>6, <1>7 DEF Range

(* Appending what is not there keeps a sequence free of repetitions.       *)
LEMMA AppendedInjective ==
  ASSUME NEW S, NEW s \in Seq(S), IsInjective(s), NEW e \in S, e \notin Range(s)
  PROVE  IsInjective(Append(s, e))
<1> DEFINE t == Append(s, e)
<1>1. /\ Len(s) \in Nat
      /\ DOMAIN s = 1 .. Len(s) /\ DOMAIN t = 1 .. Len(s) + 1
      /\ \A k \in 1 .. Len(s) : t[k] = s[k]
      /\ t[Len(s) + 1] = e
  BY AppendedRange
<1> HIDE DEF t
<1> SUFFICES ASSUME NEW j \in DOMAIN t, NEW k \in DOMAIN t, t[j] = t[k], j < k
             PROVE  FALSE
  BY <1>1 DEF IsInjective, t
<1>2. j \in 1 .. Len(s) /\ j \in DOMAIN s /\ t[j] = s[j]
  BY <1>1
<1>3. CASE k = Len(s) + 1
  <2>1. s[j] = e
    BY <1>1, <1>2, <1>3
  <2>. QED BY <1>2, <2>1 DEF Range
<1>4. CASE k # Len(s) + 1
  <2>1. k \in 1 .. Len(s) /\ k \in DOMAIN s /\ t[k] = s[k]
    BY <1>1, <1>4
  <2>2. s[j] = s[k]
    BY <1>2, <2>1
  <2>3. j = k
    BY <1>2, <2>1, <2>2 DEF IsInjective
  <2>. QED BY <1>1, <2>3
<1>. QED BY <1>3, <1>4

(* The members of a prefix.                                                *)
LEMMA PrefixRange ==
  ASSUME NEW S, NEW s \in Seq(S), NEW k \in 1 .. Len(s)
  PROVE  Range(SubSeq(s, 1, k)) = {s[j] : j \in 1 .. k}
<1> DEFINE t == SubSeq(s, 1, k)
<1>1. k \in Nat /\ k >= 1 /\ Len(s) \in Nat /\ \A j \in 1 .. k : s[j] \in S
  <2>1. Len(s) \in Nat
    BY LenProperties
  <2>2. ASSUME NEW j \in 1 .. k PROVE s[j] \in S
    <3>1. j \in 1 .. Len(s)
      BY <2>1
    <3>. QED BY <3>1, ElementOfSeq
  <2>. QED BY <2>1, <2>2
<1>2. t \in Seq(S) /\ Len(t) = k /\ \A j \in 1 .. k : t[j] = s[j]
  <2>1. /\ t \in Seq(S)
        /\ Len(t) = IF 1 <= k THEN k - 1 + 1 ELSE 0
        /\ \A j \in 1 .. k - 1 + 1 : t[j] = s[1 + j - 1]
    BY <1>1, SubSeqProperties
  <2>. QED BY <1>1, <2>1
<1>3. DOMAIN t = 1 .. k
  BY <1>2, LenProperties
<1> HIDE DEF t
<1>4. Range(t) = {s[j] : j \in 1 .. k}
  BY <1>2, <1>3 DEF Range
<1>. QED BY <1>4 DEF t

----------------------------------------------------------------------------
(* A graph of the traversals is finite, and its edges stay inside it.      *)
LEMMA GraphFacts ==
  ASSUME NEW gr \in Graphs
  PROVE  /\ IsFiniteSet(Blocks(gr))
         /\ gr.entry \in Blocks(gr) /\ gr.exit \in Blocks(gr)
         /\ \A b \in Blocks(gr) : gr.succ[b] \in Seq(Blocks(gr))
         /\ \A b \in Blocks(gr) : Successors(gr, b) = Range(gr.succ[b])
         /\ \A b \in Blocks(gr) : Successors(gr, b) \subseteq Blocks(gr)
         /\ \A b \in Blocks(gr) : gr.succ[b] = <<>> <=> b = gr.exit
         /\ Successors(gr, gr.exit) = {}
<1>1. IsFunctionGraph(gr)
  BY GraphsAssumption
<1>2. /\ IsFiniteSet(Blocks(gr))
      /\ gr.entry \in Blocks(gr) /\ gr.exit \in Blocks(gr)
      /\ \A b \in Blocks(gr) : gr.succ[b] \in Seq(Blocks(gr))
      /\ \A b \in Blocks(gr) : gr.succ[b] = <<>> <=> b = gr.exit
  BY <1>1 DEF IsFunctionGraph, IsGraph
<1>3. \A b \in Blocks(gr) : Successors(gr, b) = Range(gr.succ[b])
  BY DEF Successors, Range
<1>4. ASSUME NEW b \in Blocks(gr) PROVE Successors(gr, b) \subseteq Blocks(gr)
  <2>1. /\ DOMAIN gr.succ[b] = 1 .. Len(gr.succ[b])
        /\ \A k \in 1 .. Len(gr.succ[b]) : gr.succ[b][k] \in Blocks(gr)
    BY <1>2, LenProperties, ElementOfSeq
  <2>. QED BY <2>1 DEF Successors
<1>5. Successors(gr, gr.exit) = {}
  <2>1. gr.succ[gr.exit] = <<>>
    BY <1>2
  <2>2. DOMAIN gr.succ[gr.exit] = {}
    BY <2>1
  <2>. QED BY <2>2 DEF Successors
<1>. QED BY <1>2, <1>3, <1>4, <1>5

(* Progress is kept when a block that is placed, or set apart, no longer   *)
(* waits, ...                                                              *)
LEMMA KeptBySkip ==
  ASSUME NEW gr, NEW ord, NEW w, NEW apart, Progress(gr, ord, w, apart),
         NEW w2, w2 \subseteq w, w \subseteq w2 \cup Range(ord) \cup apart
  PROVE  Progress(gr, ord, w2, apart)
BY DEF Progress

(* ... and when a waiting block is placed and its successors wait.         *)
LEMMA KeptByVisit ==
  ASSUME NEW gr \in Graphs, NEW ord, NEW w, NEW apart, Progress(gr, ord, w, apart),
         NEW b \in w, b \notin Range(ord),
         NEW w2, w2 \subseteq w \cup Successors(gr, b),
         w \cup Successors(gr, b) \subseteq w2 \cup {b}
  PROVE  Progress(gr, Append(ord, b), w2, apart)
<1> DEFINE o2 == Append(ord, b)
<1>1. /\ IsFiniteSet(Blocks(gr))
      /\ gr.entry \in Blocks(gr)
      /\ \A c \in Blocks(gr) : Successors(gr, c) \subseteq Blocks(gr)
  BY GraphFacts
<1>2. /\ Reachable(gr) \subseteq Blocks(gr)
      /\ \A c \in Reachable(gr) : Successors(gr, c) \subseteq Reachable(gr)
  BY <1>1, ReachableClosed
<1>3. b \in Reachable(gr) /\ b \in Blocks(gr) /\ ord \in Seq(Blocks(gr))
  BY <1>2 DEF Progress
<1>4. /\ o2 \in Seq(Blocks(gr))
      /\ Len(ord) \in Nat
      /\ DOMAIN ord = 1 .. Len(ord)
      /\ DOMAIN o2 = 1 .. Len(ord) + 1
      /\ \A k \in 1 .. Len(ord) : o2[k] = ord[k]
      /\ o2[Len(ord) + 1] = b
      /\ Range(o2) = Range(ord) \cup {b}
  BY <1>3, AppendedRange
<1> HIDE DEF o2
<1>5. IsInjective(o2)
  BY <1>3, AppendedInjective DEF Progress, o2
<1>6. Range(o2) \cup w2 \subseteq Reachable(gr)
  BY <1>2, <1>3, <1>4 DEF Progress
<1>7. gr.entry \in Range(o2) \cup w2 \cup apart
  BY <1>4 DEF Progress
<1>8. ASSUME NEW c \in Range(o2)
      PROVE  Successors(gr, c) \subseteq Range(o2) \cup w2 \cup apart
  <2>1. CASE c = b
    BY <1>4, <2>1
  <2>2. CASE c \in Range(ord)
    <3>1. Successors(gr, c) \subseteq Range(ord) \cup w \cup apart
      BY <2>2 DEF Progress
    <3>. QED BY <1>4, <3>1
  <2>. QED BY <1>4, <2>1, <2>2
<1>9. ASSUME NEW c \in w2
      PROVE  c = gr.entry \/ \E p \in Range(o2) : c \in Successors(gr, p)
  <2>1. CASE c \in w
    BY <1>4, <2>1 DEF Progress
  <2>2. CASE c \in Successors(gr, b)
    BY <1>4, <2>2
  <2>. QED BY <2>1, <2>2
<1>10. Preceded(gr, o2)
  <2> SUFFICES ASSUME NEW k \in DOMAIN o2, o2[k] # gr.entry
               PROVE  \E j \in 1 .. (k - 1) : o2[k] \in Successors(gr, o2[j])
    BY DEF Preceded
  <2>1. CASE k = Len(ord) + 1
    <3>1. PICK p \in Range(ord) : b \in Successors(gr, p)
      BY <1>4, <2>1 DEF Progress
    <3>2. PICK j \in DOMAIN ord : p = ord[j]
      BY DEF Range
    <3>3. j \in 1 .. (k - 1) /\ o2[j] = p
      BY <1>4, <2>1, <3>2
    <3>. QED BY <1>4, <2>1, <3>1, <3>3
  <2>2. CASE k # Len(ord) + 1
    <3>1. k \in 1 .. Len(ord) /\ k \in DOMAIN ord /\ o2[k] = ord[k]
      BY <1>4, <2>2
    <3>2. PICK j \in 1 .. (k - 1) : ord[k] \in Successors(gr, ord[j])
      BY <3>1 DEF Progress, Preceded
    <3>3. j \in 1 .. Len(ord) /\ o2[j] = ord[j]
      BY <1>4, <3>1
    <3>. QED BY <3>1, <3>2, <3>3
  <2>. QED BY <2>1, <2>2
<1>. QED BY <1>4, <1>5, <1>6, <1>7, <1>8, <1>9, <1>10 DEF Progress, o2

(* When nothing waits, every reachable block is placed or set apart, and   *)
(* one that is only set apart has a predecessor among the placed ones.     *)
LEMMA NothingMissed ==
  ASSUME NEW gr \in Graphs, NEW ord, NEW apart, Progress(gr, ord, {}, apart),
         \A b \in apart : b = gr.exit
  PROVE  /\ Reachable(gr) \subseteq Range(ord) \cup apart
         /\ \A b \in Reachable(gr) \ (Range(ord) \cup {gr.entry}) :
               \E p \in Range(ord) : b \in Successors(gr, p)
<1>1. IsFiniteSet(Blocks(gr)) /\ Successors(gr, gr.exit) = {}
  BY GraphFacts
<1>2. gr.entry \in Range(ord) \cup apart
  BY DEF Progress
<1>3. \A b \in Range(ord) : Successors(gr, b) \subseteq Range(ord) \cup apart
  BY DEF Progress
<1>4. \A b \in Range(ord) \cup apart : Successors(gr, b) \subseteq Range(ord) \cup apart
  BY <1>1, <1>3
<1>5. Reachable(gr) \subseteq Range(ord) \cup apart
  BY <1>1, <1>2, <1>4, ReachableWithin
<1>6. ASSUME NEW b \in Reachable(gr), b \notin Range(ord), b # gr.entry,
             \A p \in Range(ord) : b \notin Successors(gr, p)
      PROVE  FALSE
  <2>1. b = gr.exit
    BY <1>5, <1>6
  <2>2. \A p \in Range(ord) : Successors(gr, p) \subseteq Range(ord)
    BY <1>3, <1>6, <2>1
  <2>3. gr.entry \in Range(ord)
    BY <1>2, <1>6, <2>1
  <2>. QED BY <1>1, <1>6, <2>2, <2>3, ReachableWithin
<1>. QED BY <1>5, <1>6

----------------------------------------------------------------------------
(* The blocks that wait in the spans, when visitBlock() pushes another.    *)
LEMMA PushedSpan ==
  ASSUME g \in Graphs, NEW spans \in Seq(Seq(Blocks(g))), NEW b \in Blocks(g)
  PROVE  /\ WithSpan(spans, b) \in Seq(Seq(Blocks(g)))
         /\ SpanBlocks(WithSpan(spans, b)) = SpanBlocks(spans) \cup Successors(g, b)
<1>1. g.succ[b] \in Seq(Blocks(g)) /\ Successors(g, b) = Range(g.succ[b])
  BY GraphFacts
<1>2. CASE g.succ[b] = <<>>
  <2>1. Range(g.succ[b]) = {}
    BY <1>2 DEF Range
  <2>. QED BY <1>1, <1>2, <2>1 DEF WithSpan
<1>3. CASE g.succ[b] # <<>>
  <2> DEFINE top == <<g.succ[b]>>
  <2>1. top \in Seq(Seq(Blocks(g))) /\ DOMAIN top = {1} /\ top[1] = g.succ[b]
    BY <1>1
  <2>2. Range(top) = {g.succ[b]}
    BY <2>1 DEF Range
  <2>3. /\ top \o spans \in Seq(Seq(Blocks(g)))
        /\ Range(top \o spans) = Range(top) \cup Range(spans)
    BY <2>1, JoinedRange
  <2>4. WithSpan(spans, b) = top \o spans
    BY <1>3 DEF WithSpan
  <2> HIDE DEF top
  <2>. QED BY <1>1, <2>2, <2>3, <2>4 DEF SpanBlocks
<1>. QED BY <1>2, <1>3

(* The invariant holds when run() starts.                                  *)
LEMMA InitTraverse == Init => TraverseInv
<1> SUFFICES ASSUME Init PROVE TraverseInv
  OBVIOUS
<1>1. g \in Graphs /\ pc = "loop" /\ span = <<>>
  BY DEF Init
<1>2. /\ IsFiniteSet(Blocks(g)) /\ g.entry \in Blocks(g)
      /\ \A b \in Blocks(g) : Successors(g, b) \subseteq Blocks(g)
  BY <1>1, GraphFacts
<1>3. g.entry \in Reachable(g)
  BY <1>2, ReachableClosed
<1>4. /\ <<>> \in Seq(Blocks(g)) /\ Len(<<>>) = 0
      /\ Range(<<>>) = {}
  BY EmptySeq DEF Range
<1>5. \A apart : Progress(g, <<>>, {g.entry}, apart)
  BY <1>3, <1>4 DEF Progress, Preceded, IsInjective
<1>6. DoneInv
  BY <1>1 DEF DoneInv
<1>7. CASE kind = "preorder"
  <2>1. stack = <<g.entry>> /\ visited = {} /\ order = <<>>
    BY <1>7 DEF Init
  <2>2. stack \in Seq(Blocks(g)) /\ Range(stack) = {g.entry}
    BY <1>2, <2>1 DEF Range
  <2>3. LoopInv
    <3>1. FirstNext
      BY <1>4, <2>1 DEF FirstNext
    <3>2. Progress(g, order, Waiting, Apart)
      BY <1>5, <1>7, <2>1, <2>2 DEF Waiting
    <3>. QED BY <1>4, <2>1, <3>1, <3>2 DEF LoopInv
  <2>4. TypeInv
    BY <1>1, <1>4, <1>7, <2>1, <2>2 DEF TypeInv
  <2>. QED BY <1>6, <2>3, <2>4 DEF TraverseInv
<1>8. CASE kind = "bfs"
  <2>1. stack = WithSpan(<<>>, g.entry) /\ visited = {g.entry} /\ order = <<g.entry>>
    BY <1>8 DEF Init
  <2>2. <<>> \in Seq(Seq(Blocks(g))) /\ SpanBlocks(<<>>) = {}
    BY EmptySeq DEF SpanBlocks, Range
  <2>3. /\ stack \in Seq(Seq(Blocks(g)))
        /\ SpanBlocks(stack) = Successors(g, g.entry)
    BY <1>1, <1>2, <2>1, <2>2, PushedSpan
  <2>4. Waiting = Successors(g, g.entry)
    BY <1>1, <1>4, <1>8, <2>3 DEF Waiting
  <2>5. order = Append(<<>>, g.entry)
    BY <2>1
  <2>6. order \in Seq(Blocks(g)) /\ Range(order) = {g.entry}
    BY <1>2, <2>1 DEF Range
  <2>7. Progress(g, order, Waiting, Apart)
    <3>1. Progress(g, <<>>, {g.entry}, Apart)
      BY <1>5
    <3>. QED BY <1>1, <1>4, <2>4, <2>5, <3>1, KeptByVisit
  <2>8. LoopInv
    BY <1>8, <2>1, <2>6, <2>7 DEF LoopInv
  <2>9. TypeInv
    BY <1>1, <1>4, <1>8, <2>3, <2>6 DEF TypeInv
  <2>. QED BY <1>6, <2>8, <2>9 DEF TraverseInv
<1>. QED BY <1>7, <1>8 DEF Init

(* A popped block of the preorder that was seen, or is the exit.           *)
LEMMA SkipKeeps == TraverseInv /\ PreorderSkip => TraverseInv'
<1> SUFFICES ASSUME TraverseInv, PreorderSkip PROVE TraverseInv'
  OBVIOUS
<1> USE DEF TraverseInv
<1>1. /\ pc = "loop" /\ pc' = "loop" /\ kind = "preorder" /\ kind' = kind
      /\ g' = g /\ span' = span /\ visited' = visited /\ order' = order
      /\ stack # <<>> /\ stack' = Tail(stack)
      /\ Head(stack) \in visited \/ Head(stack) = g.exit
  BY DEF PreorderSkip, Skips
<1>2. /\ stack \in Seq(Blocks(g)) /\ visited = Range(order)
      /\ Progress(g, order, Waiting, Apart) /\ g.exit \notin Range(order) /\ FirstNext
      /\ order \in Seq(Blocks(g))
  BY <1>1 DEF TypeInv, LoopInv
<1>3. stack' \in Seq(Blocks(g)) /\ Range(stack) = {Head(stack)} \cup Range(stack')
  BY <1>1, <1>2, PoppedRange
<1>4. Waiting = Range(stack) /\ Waiting' = Range(stack') /\ Apart = {g.exit} /\ Apart' = Apart
  BY <1>1 DEF Waiting, Apart
<1>5. Progress(g, order, Waiting', Apart)
  <2>1. Waiting' \subseteq Waiting /\ Waiting \subseteq Waiting' \cup Range(order) \cup Apart
    BY <1>1, <1>2, <1>3, <1>4
  <2>. QED BY <1>2, <2>1, KeptBySkip
<1>6. FirstNext'
  <2> SUFFICES ASSUME NEW k \in 1 .. Len(order)
               PROVE  LET target == g.succ[order[k]][1] IN
                      \/ target \in {g.exit} \cup {order[j] : j \in 1 .. k}
                      \/ k < Len(order) /\ order[k + 1] = target
                      \/ k = Len(order) /\ stack' # <<>> /\ Head(stack') = target
    BY <1>1 DEF FirstNext
  <2> DEFINE target == g.succ[order[k]][1]
  <2>1. CASE k = Len(order) /\ stack # <<>> /\ Head(stack) = target
    <3>1. Range(order) = {order[j] : j \in 1 .. k}
      BY <1>2, <2>1, LenProperties DEF Range
    <3>. QED BY <1>1, <1>2, <2>1, <3>1
  <2>2. CASE ~ (k = Len(order) /\ stack # <<>> /\ Head(stack) = target)
    <3>1. \/ target \in {g.exit} \cup {order[j] : j \in 1 .. k}
          \/ k < Len(order) /\ order[k + 1] = target
      BY <1>2, <2>2 DEF FirstNext
    <3>. QED BY <3>1
  <2>. QED BY <2>1, <2>2
<1>7. LoopInv'
  BY <1>1, <1>2, <1>4, <1>5, <1>6 DEF LoopInv
<1>8. TypeInv' /\ DoneInv'
  BY <1>1, <1>3 DEF TypeInv, DoneInv
<1>. QED BY <1>7, <1>8

(* A new block of the preorder: its successors go on top of the stack.     *)
LEMMA VisitKeeps == TraverseInv /\ PreorderVisit => TraverseInv'
<1> SUFFICES ASSUME TraverseInv, PreorderVisit PROVE TraverseInv'
  OBVIOUS
<1> USE DEF TraverseInv
<1> DEFINE b == Head(stack)
<1>1. /\ pc = "loop" /\ pc' = "loop" /\ kind = "preorder" /\ kind' = kind
      /\ g' = g /\ span' = span /\ visited' = visited \cup {b} /\ order' = Append(order, b)
      /\ stack # <<>> /\ stack' = g.succ[b] \o Tail(stack)
      /\ b \notin visited /\ b # g.exit
  BY DEF PreorderVisit, Skips, Pushed
<1>2. /\ g \in Graphs /\ stack \in Seq(Blocks(g)) /\ visited = Range(order)
      /\ Progress(g, order, Waiting, Apart) /\ g.exit \notin Range(order) /\ FirstNext
      /\ order \in Seq(Blocks(g))
  BY <1>1 DEF TypeInv, LoopInv
<1>3. /\ b \in Blocks(g) /\ Tail(stack) \in Seq(Blocks(g))
      /\ Range(stack) = {b} \cup Range(Tail(stack))
  BY <1>1, <1>2, PoppedRange
<1> HIDE DEF b
<1>4. /\ g.succ[b] \in Seq(Blocks(g)) /\ g.succ[b] # <<>>
      /\ Successors(g, b) = Range(g.succ[b])
  BY <1>1, <1>2, <1>3, GraphFacts
<1>5. stack' \in Seq(Blocks(g)) /\ Range(stack') = Successors(g, b) \cup Range(Tail(stack))
  <2> DEFINE s == g.succ[b]
             t == Tail(stack)
  <2>1. s \in Seq(Blocks(g)) /\ t \in Seq(Blocks(g)) /\ stack' = s \o t
    BY <1>1, <1>3, <1>4
  <2> HIDE DEF s, t
  <2>2. s \o t \in Seq(Blocks(g)) /\ Range(s \o t) = Range(s) \cup Range(t)
    BY <2>1, JoinedRange
  <2>3. Range(s) = Successors(g, b)
    BY <1>4 DEF s
  <2>. QED BY <2>1, <2>2, <2>3 DEF t
<1>6. Waiting = Range(stack) /\ Waiting' = Range(stack') /\ Apart = {g.exit} /\ Apart' = Apart
  BY <1>1 DEF Waiting, Apart
<1>7. Progress(g, order', Waiting', Apart)
  <2>1. /\ b \in Waiting /\ b \notin Range(order)
        /\ Waiting' \subseteq Waiting \cup Successors(g, b)
        /\ Waiting \cup Successors(g, b) \subseteq Waiting' \cup {b}
    BY <1>1, <1>2, <1>3, <1>5, <1>6
  <2>. QED BY <1>1, <1>2, <2>1, KeptByVisit
<1>8. /\ order' \in Seq(Blocks(g)) /\ Len(order') = Len(order) + 1 /\ Len(order) \in Nat
      /\ \A k \in 1 .. Len(order) : order'[k] = order[k]
      /\ order'[Len(order) + 1] = b
      /\ Range(order') = Range(order) \cup {b}
  BY <1>1, <1>2, <1>3, AppendedRange
<1>9. FirstNext'
  <2> SUFFICES ASSUME NEW k \in 1 .. Len(order')
               PROVE  LET target == g.succ[order'[k]][1] IN
                      \/ target \in {g.exit} \cup {order'[j] : j \in 1 .. k}
                      \/ k < Len(order') /\ order'[k + 1] = target
                      \/ k = Len(order') /\ stack' # <<>> /\ Head(stack') = target
    BY <1>1 DEF FirstNext
  <2> DEFINE target == g.succ[order'[k]][1]
  <2>1. CASE k = Len(order) + 1
    <3>1. target = g.succ[b][1]
      BY <1>8, <2>1
    <3>2. stack' # <<>> /\ Head(stack') = g.succ[b][1]
      <4> DEFINE s == g.succ[b]
                 t == Tail(stack)
      <4>1. s \in Seq(Blocks(g)) /\ t \in Seq(Blocks(g)) /\ s # <<>> /\ stack' = s \o t
        BY <1>1, <1>3, <1>4
      <4> HIDE DEF s, t
      <4>2. s \o t # <<>> /\ Head(s \o t) = s[1]
        BY <4>1, JoinedHead
      <4>. QED BY <4>1, <4>2 DEF s
    <3>. QED BY <1>8, <2>1, <3>1, <3>2
  <2>2. CASE k = Len(order)
    <3>1. k \in 1 .. Len(order) /\ order'[k] = order[k] /\ k < Len(order')
          /\ \A j \in 1 .. k : order'[j] = order[j]
      BY <1>8, <2>2
    <3>2. \/ target \in {g.exit} \cup {order[j] : j \in 1 .. k}
          \/ Head(stack) = target
      BY <1>2, <2>2, <3>1 DEF FirstNext
    <3>3. Head(stack) = order'[k + 1]
      BY <1>8, <2>2 DEF b
    <3>. QED BY <3>1, <3>2, <3>3
  <2>3. CASE k < Len(order)
    <3>1. k \in 1 .. Len(order) /\ order'[k] = order[k] /\ k < Len(order')
          /\ order'[k + 1] = order[k + 1]
          /\ \A j \in 1 .. k : order'[j] = order[j]
      BY <1>8, <2>3
    <3>2. \/ target \in {g.exit} \cup {order[j] : j \in 1 .. k}
          \/ order[k + 1] = target
      BY <1>2, <2>3, <3>1 DEF FirstNext
    <3>. QED BY <3>1, <3>2
  <2>. QED BY <1>8, <2>1, <2>2, <2>3
<1>10. LoopInv'
  BY <1>1, <1>2, <1>6, <1>7, <1>8, <1>9 DEF LoopInv
<1>11. TypeInv' /\ DoneInv'
  BY <1>1, <1>5, <1>8 DEF TypeInv, DoneInv
<1>. QED BY <1>10, <1>11

(* A finished preorder: the exit block is appended, and it has its         *)
(* predecessor before it like every other one.                             *)
LEMMA PreorderFinishKeeps == TraverseInv /\ PreorderFinish => TraverseInv'
<1> SUFFICES ASSUME TraverseInv, PreorderFinish PROVE TraverseInv'
  OBVIOUS
<1> USE DEF TraverseInv
<1>1. /\ pc = "loop" /\ pc' = "done" /\ kind = "preorder" /\ kind' = kind
      /\ g' = g /\ span' = span /\ stack = <<>> /\ stack' = stack
      /\ order' = Append(order, g.exit)
  BY DEF PreorderFinish, PreorderFinalOrder
<1>2. /\ g \in Graphs /\ Progress(g, order, Waiting, Apart)
      /\ g.exit \notin Range(order) /\ FirstNext /\ order \in Seq(Blocks(g))
  BY <1>1 DEF TypeInv, LoopInv
<1>3. Waiting = {} /\ Apart = {g.exit}
  BY <1>1 DEF Waiting, Apart, Range
<1>4. g.exit \in Blocks(g)
  BY <1>2, GraphFacts
<1>5. /\ Reachable(g) \subseteq Range(order) \cup {g.exit}
      /\ g.exit \in Reachable(g) \ {g.entry} =>
            \E p \in Range(order) : g.exit \in Successors(g, p)
  BY <1>2, <1>3, NothingMissed
<1>6. /\ order' \in Seq(Blocks(g)) /\ Len(order') = Len(order) + 1 /\ Len(order) \in Nat
      /\ DOMAIN order = 1 .. Len(order) /\ DOMAIN order' = 1 .. Len(order) + 1
      /\ \A k \in 1 .. Len(order) : order'[k] = order[k]
      /\ order'[Len(order) + 1] = g.exit
      /\ Range(order') = Range(order) \cup {g.exit}
  BY <1>1, <1>2, <1>4, AppendedRange
<1>7. EachBlockOnce'
  <2>1. IsInjective(order')
    <3>1. IsInjective(order)
      BY <1>2 DEF Progress
    <3>. QED BY <1>1, <1>2, <1>4, <3>1, AppendedInjective
  <2>2. Range(order') = Reachable(g) \cup {g.exit}
    BY <1>2, <1>5, <1>6 DEF Progress
  <2>. QED BY <1>1, <2>1, <2>2 DEF EachBlockOnce
<1>8. PredecessorBefore'
  <2> SUFFICES ASSUME NEW k \in DOMAIN order', order'[k] \in Reachable(g) \ {g.entry}
               PROVE  \E j \in 1 .. (k - 1) : order'[k] \in Successors(g, order'[j])
    BY <1>1 DEF PredecessorBefore
  <2>1. CASE k = Len(order) + 1
    <3>1. PICK p \in Range(order) : g.exit \in Successors(g, p)
      BY <1>5, <1>6, <2>1
    <3>2. PICK j \in DOMAIN order : p = order[j]
      BY DEF Range
    <3>3. j \in 1 .. (k - 1) /\ order'[j] = p
      BY <1>6, <2>1, <3>2
    <3>. QED BY <1>6, <2>1, <3>1, <3>3
  <2>2. CASE k # Len(order) + 1
    <3>1. k \in 1 .. Len(order) /\ k \in DOMAIN order /\ order'[k] = order[k]
      BY <1>6, <2>2
    <3>2. PICK j \in 1 .. (k - 1) : order[k] \in Successors(g, order[j])
      BY <1>2, <3>1 DEF Progress, Preceded
    <3>3. j \in 1 .. Len(order) /\ order'[j] = order[j]
      BY <1>6, <3>1
    <3>. QED BY <3>1, <3>2, <3>3
  <2>. QED BY <2>1, <2>2
<1>9. FirstSuccessorNext'
  <2> SUFFICES ASSUME NEW k \in 1 .. Len(order)
               PROVE  \/ order'[k + 1] = g.succ[order'[k]][1]
                      \/ g.succ[order'[k]][1] \in {g.exit} \cup Range(SubSeq(order', 1, k))
    BY <1>1, <1>6 DEF FirstSuccessorNext
  <2> DEFINE target == g.succ[order[k]][1]
  <2>1. order'[k] = order[k]
    BY <1>6
  <2>2. \/ target \in {g.exit} \cup {order[j] : j \in 1 .. k}
        \/ k < Len(order) /\ order[k + 1] = target
    BY <1>1, <1>2 DEF FirstNext
  <2>3. CASE target \in {g.exit} \cup {order[j] : j \in 1 .. k}
    <3>1. Range(SubSeq(order', 1, k)) = {order'[j] : j \in 1 .. k}
      <4>1. k \in 1 .. Len(order')
        BY <1>6
      <4>. QED BY <1>6, <4>1, PrefixRange
    <3>2. \A j \in 1 .. k : order'[j] = order[j]
      BY <1>6
    <3>. QED BY <2>1, <2>3, <3>1, <3>2
  <2>4. CASE k < Len(order) /\ order[k + 1] = target
    <3>1. order'[k + 1] = order[k + 1]
      BY <1>6, <2>4
    <3>. QED BY <2>1, <2>4, <3>1
  <2>. QED BY <2>2, <2>3, <2>4
<1>10. TypeInv' /\ LoopInv'
  BY <1>1, <1>6 DEF TypeInv, LoopInv
<1>. QED BY <1>1, <1>7, <1>8, <1>9, <1>10 DEF DoneInv

(* A span is popped: its blocks wait in the loop now.                      *)
LEMMA PopKeeps == TraverseInv /\ BFSPop => TraverseInv'
<1> SUFFICES ASSUME TraverseInv, BFSPop PROVE TraverseInv'
  OBVIOUS
<1> USE DEF TraverseInv
<1>1. /\ pc = "loop" /\ pc' = "loop" /\ kind = "bfs" /\ kind' = kind
      /\ g' = g /\ visited' = visited /\ order' = order
      /\ span = <<>> /\ span' = Head(stack) /\ stack # <<>> /\ stack' = Tail(stack)
  BY DEF BFSPop
<1>2. /\ g \in Graphs /\ stack \in Seq(Seq(Blocks(g)))
      /\ visited = Range(order) /\ Progress(g, order, Waiting, Apart)
  BY <1>1 DEF TypeInv, LoopInv
<1>3. /\ span' \in Seq(Blocks(g)) /\ stack' \in Seq(Seq(Blocks(g)))
      /\ Range(stack) = {span'} \cup Range(stack')
  BY <1>1, <1>2, PoppedRange
<1>4. SpanBlocks(stack) = Range(span') \cup SpanBlocks(stack')
  BY <1>3 DEF SpanBlocks
<1>5. Waiting' = Waiting /\ Apart' = Apart
  <2>1. Range(span) = {}
    BY <1>1 DEF Range
  <2>. QED BY <1>1, <1>4, <2>1 DEF Waiting, Apart
<1>6. LoopInv'
  BY <1>1, <1>2, <1>5 DEF LoopInv
<1>7. TypeInv' /\ DoneInv'
  BY <1>1, <1>3 DEF TypeInv, DoneInv
<1>. QED BY <1>6, <1>7

(* A block of the span that was visited before.                            *)
LEMMA BFSSkipKeeps == TraverseInv /\ BFSSkip => TraverseInv'
<1> SUFFICES ASSUME TraverseInv, BFSSkip PROVE TraverseInv'
  OBVIOUS
<1> USE DEF TraverseInv
<1>1. /\ pc = "loop" /\ pc' = "loop" /\ kind' = kind
      /\ g' = g /\ visited' = visited /\ order' = order /\ stack' = stack
      /\ span # <<>> /\ span' = Tail(span) /\ Head(span) \in visited
  BY DEF BFSSkip
<1>2. kind = "bfs"
  BY <1>1 DEF TypeInv
<1>3. /\ g \in Graphs /\ span \in Seq(Blocks(g))
      /\ visited = Range(order) /\ Progress(g, order, Waiting, Apart)
  BY <1>1 DEF TypeInv, LoopInv
<1>4. span' \in Seq(Blocks(g)) /\ Range(span) = {Head(span)} \cup Range(span')
  BY <1>1, <1>3, PoppedRange
<1>5. /\ Waiting = Range(span) \cup SpanBlocks(stack)
      /\ Waiting' = Range(span') \cup SpanBlocks(stack)
      /\ Apart' = Apart
  BY <1>1, <1>2 DEF Waiting, Apart
<1>6. Progress(g, order, Waiting', Apart)
  <2>1. Waiting' \subseteq Waiting /\ Waiting \subseteq Waiting' \cup Range(order) \cup Apart
    BY <1>1, <1>3, <1>4, <1>5
  <2>. QED BY <1>3, <2>1, KeptBySkip
<1>7. LoopInv'
  BY <1>1, <1>2, <1>3, <1>5, <1>6 DEF LoopInv
<1>8. TypeInv' /\ DoneInv'
  BY <1>1, <1>2, <1>4 DEF TypeInv, DoneInv
<1>. QED BY <1>7, <1>8

(* A new block of the span: it is placed, and its own span is pushed.      *)
LEMMA BFSVisitKeeps == TraverseInv /\ BFSVisit => TraverseInv'
<1> SUFFICES ASSUME TraverseInv, BFSVisit PROVE TraverseInv'
  OBVIOUS
<1> USE DEF TraverseInv
<1> DEFINE b == Head(span)
<1>1. /\ pc = "loop" /\ pc' = "loop" /\ kind' = kind /\ g' = g
      /\ visited' = visited \cup {b} /\ order' = Append(order, b)
      /\ stack' = WithSpan(stack, b)
      /\ span # <<>> /\ span' = Tail(span) /\ b \notin visited
  BY DEF BFSVisit
<1>2. kind = "bfs"
  BY <1>1 DEF TypeInv
<1>3. /\ g \in Graphs /\ span \in Seq(Blocks(g)) /\ stack \in Seq(Seq(Blocks(g)))
      /\ order \in Seq(Blocks(g))
      /\ visited = Range(order) /\ Progress(g, order, Waiting, Apart)
  BY <1>1, <1>2 DEF TypeInv, LoopInv
<1>4. b \in Blocks(g) /\ span' \in Seq(Blocks(g)) /\ Range(span) = {b} \cup Range(span')
  BY <1>1, <1>3, PoppedRange
<1> HIDE DEF b
<1>5. /\ stack' \in Seq(Seq(Blocks(g)))
      /\ SpanBlocks(stack') = SpanBlocks(stack) \cup Successors(g, b)
  BY <1>1, <1>3, <1>4, PushedSpan
<1>6. /\ Waiting = Range(span) \cup SpanBlocks(stack)
      /\ Waiting' = Range(span') \cup SpanBlocks(stack')
      /\ Apart' = Apart
  BY <1>1, <1>2 DEF Waiting, Apart
<1>7. Progress(g, order', Waiting', Apart)
  <2>1. /\ b \in Waiting /\ b \notin Range(order)
        /\ Waiting' \subseteq Waiting \cup Successors(g, b)
        /\ Waiting \cup Successors(g, b) \subseteq Waiting' \cup {b}
    BY <1>1, <1>3, <1>4, <1>5, <1>6
  <2>. QED BY <1>1, <1>3, <2>1, KeptByVisit
<1>8. order' \in Seq(Blocks(g)) /\ Range(order') = Range(order) \cup {b}
  BY <1>1, <1>3, <1>4, AppendedRange
<1>9. LoopInv'
  BY <1>1, <1>2, <1>3, <1>6, <1>7, <1>8 DEF LoopInv
<1>10. TypeInv' /\ DoneInv'
  BY <1>1, <1>2, <1>4, <1>5, <1>8 DEF TypeInv, DoneInv
<1>. QED BY <1>9, <1>10

(* No span is left.                                                        *)
LEMMA BFSFinishKeeps == TraverseInv /\ BFSFinish => TraverseInv'
<1> SUFFICES ASSUME TraverseInv, BFSFinish PROVE TraverseInv'
  OBVIOUS
<1> USE DEF TraverseInv
<1>1. /\ pc = "loop" /\ pc' = "done" /\ kind = "bfs" /\ kind' = kind
      /\ g' = g /\ order' = order /\ span' = span /\ stack' = stack
      /\ span = <<>> /\ stack = <<>>
  BY DEF BFSFinish
<1>2. g \in Graphs /\ Progress(g, order, Waiting, Apart)
  BY <1>1 DEF TypeInv, LoopInv
<1>3. Waiting = {} /\ Apart = {}
  BY <1>1 DEF Waiting, Apart, SpanBlocks, Range
<1>4. Reachable(g) \subseteq Range(order)
  BY <1>2, <1>3, NothingMissed
<1>5. EachBlockOnce'
  BY <1>1, <1>2, <1>3, <1>4 DEF Progress, EachBlockOnce
<1>6. PredecessorBefore'
  BY <1>1, <1>2 DEF Progress, Preceded, PredecessorBefore
<1>7. FirstSuccessorNext'
  BY <1>1 DEF FirstSuccessorNext
<1>8. TypeInv' /\ LoopInv'
  BY <1>1 DEF TypeInv, LoopInv
<1>. QED BY <1>1, <1>5, <1>6, <1>7, <1>8 DEF DoneInv

----------------------------------------------------------------------------
(* Every step of a traversal keeps the invariant.                          *)
LEMMA TraverseStepKeeps == TraverseInv /\ [Next]_vars => TraverseInv'
<1> SUFFICES ASSUME TraverseInv, [Next]_vars PROVE TraverseInv'
  OBVIOUS
<1>1. CASE PreorderSkip
  BY <1>1, SkipKeeps
<1>2. CASE PreorderVisit
  BY <1>2, VisitKeeps
<1>3. CASE PreorderFinish
  BY <1>3, PreorderFinishKeeps
<1>4. CASE BFSPop
  BY <1>4, PopKeeps
<1>5. CASE BFSSkip
  BY <1>5, BFSSkipKeeps
<1>6. CASE BFSVisit
  BY <1>6, BFSVisitKeeps
<1>7. CASE BFSFinish
  BY <1>7, BFSFinishKeeps
<1>8. CASE UNCHANGED vars
  BY <1>8 DEF vars, TraverseInv, TypeInv, LoopInv, DoneInv, Waiting, Apart, FirstNext,
              EachBlockOnce, PredecessorBefore, FirstSuccessorNext
<1>. QED BY <1>1, <1>2, <1>3, <1>4, <1>5, <1>6, <1>7, <1>8 DEF Next

(* The invariant holds throughout every traversal.                         *)
THEOREM TraverseInvariant == Spec => []TraverseInv
<1>1. Init => TraverseInv
  BY InitTraverse
<1>. QED BY <1>1, TraverseStepKeeps, PTL DEF Spec

(* Either order, when it is finished, has every block a path from the      *)
(* entry reaches exactly once, and the preorder the exit block besides     *)
(* (PreorderTraverseBase::run, BFSOrderTraverseBase::run).                 *)
THEOREM OrdersAreComplete == Spec => []EachBlockOnce
<1>1. TraverseInv => EachBlockOnce
  BY DEF TraverseInv, DoneInv, EachBlockOnce
<1>. QED BY <1>1, TraverseInvariant, PTL

(* In either order, while it is built and when it is finished, every block *)
(* but the entry comes after one of its predecessors: what lowering        *)
(* (FunctionLower.h:33) and the fixpoint loops rely on.                    *)
THEOREM PredecessorsComeFirst == Spec => []PredecessorBefore
<1>1. TraverseInv => PredecessorBefore
  <2>1. CASE pc = "loop"
    BY <2>1 DEF TraverseInv, LoopInv, Progress, Preceded, PredecessorBefore
  <2>2. CASE pc = "done"
    BY <2>2 DEF TraverseInv, DoneInv
  <2>. QED BY <2>1, <2>2 DEF TraverseInv, TypeInv
<1>. QED BY <1>1, TraverseInvariant, PTL

(* In a finished preorder the first successor of a block comes next, is    *)
(* the exit block or was placed before (LIRFunctionCodegen.cpp:127 leaves  *)
(* the jump to it out).                                                    *)
THEOREM FirstSuccessorsComeNext == Spec => []FirstSuccessorNext
<1>1. TraverseInv => FirstSuccessorNext
  BY DEF TraverseInv, DoneInv, FirstSuccessorNext
<1>. QED BY <1>1, TraverseInvariant, PTL

----------------------------------------------------------------------------
(* What is left to do at any moment gives the order that the traversal as  *)
(* a function gives.                                                       *)
OrderInv ==
    /\ pc = "loop" /\ kind = "preorder" => PreorderFrom(g, stack, order) = Preorder(g)
    /\ pc = "loop" /\ kind = "bfs" => BreadthFirstFrom(g, span, stack, order) = BreadthFirst(g)
    /\ pc = "done" /\ kind = "preorder" => order = Preorder(g) /\ order[Len(order)] = g.exit
    /\ pc = "done" /\ kind = "bfs" => order = BreadthFirst(g)

LEMMA InitOrder == Init => OrderInv
<1> SUFFICES ASSUME Init PROVE OrderInv
  OBVIOUS
<1>1. g \in Graphs /\ IsGraph(g) /\ g.entry \in Blocks(g) /\ g.succ[g.entry] \in Seq(Blocks(g))
  BY GraphsAssumption DEF Init, IsFunctionGraph, IsGraph
<1>2. CASE kind = "preorder" /\ stack = <<g.entry>> /\ order = <<>>
  <2>1. <<>> \in Seq(Blocks(g))
    OBVIOUS
  <2>. QED BY <1>1, <1>2, <2>1, PreorderUnfolds DEF Init, OrderInv
<1>3. CASE kind = "bfs" /\ stack = WithSpan(<<>>, g.entry) /\ order = <<g.entry>>
  <2>1. stack = SpanOf(g, g.entry)
    <3>1. CASE g.succ[g.entry] = <<>>
      BY <1>3, <3>1 DEF WithSpan, SpanOf
    <3>2. CASE g.succ[g.entry] # <<>>
      <4>1. <<g.succ[g.entry]>> \o <<>> = <<g.succ[g.entry]>>
        BY <1>1
      <4>. QED BY <1>3, <3>2, <4>1 DEF WithSpan, SpanOf
    <3>. QED BY <3>1, <3>2
  <2>2. <<>> \in Seq(Blocks(g))
    OBVIOUS
  <2>3. stack \in Seq(Seq(Blocks(g))) /\ order \in Seq(Blocks(g))
    <3>1. SpanOf(g, g.entry) \in Seq(Seq(Blocks(g)))
      BY <1>1 DEF SpanOf
    <3>2. <<g.entry>> \in Seq(Blocks(g))
      BY <1>1
    <3>. QED BY <1>3, <2>1, <3>1, <3>2
  <2>4. BreadthFirst(g) = BreadthFirstFrom(g, <<>>, SpanOf(g, g.entry), <<g.entry>>)
    BY <1>1, <2>2, <2>3, BreadthFirstUnfolds
  <2>. QED BY <1>3, <2>1, <2>4 DEF Init, OrderInv
<1>. QED BY <1>2, <1>3 DEF Init

LEMMA OrderKept == TraverseInv /\ OrderInv /\ [Next]_vars => OrderInv'
<1> SUFFICES ASSUME TraverseInv, OrderInv, [Next]_vars PROVE OrderInv'
  OBVIOUS
<1>1. /\ g \in Graphs /\ IsGraph(g) /\ order \in Seq(Blocks(g)) /\ span \in Seq(Blocks(g))
      /\ kind = "preorder" => span = <<>> /\ stack \in Seq(Blocks(g))
      /\ kind = "bfs" => stack \in Seq(Seq(Blocks(g)))
      /\ kind \in {"preorder", "bfs"}
      /\ pc = "loop" => visited = Range(order)
  BY GraphsAssumption DEF TraverseInv, TypeInv, LoopInv, IsFunctionGraph
<1>2. kind = "preorder" =>
        /\ stack = <<>> => PreorderFrom(g, stack, order) = Append(order, g.exit)
        /\ stack # <<>> =>
             PreorderFrom(g, stack, order) =
               IF Head(stack) = g.exit \/ Head(stack) \in Range(order)
               THEN PreorderFrom(g, Tail(stack), order)
               ELSE PreorderFrom(g, g.succ[Head(stack)] \o Tail(stack), Append(order, Head(stack)))
  BY <1>1, PreorderUnfolds
<1>3. kind = "bfs" =>
        /\ span = <<>> /\ stack = <<>> => BreadthFirstFrom(g, span, stack, order) = order
        /\ span = <<>> /\ stack # <<>> =>
             BreadthFirstFrom(g, span, stack, order)
               = BreadthFirstFrom(g, Head(stack), Tail(stack), order)
        /\ span # <<>> /\ Head(span) \in Range(order) =>
             BreadthFirstFrom(g, span, stack, order)
               = BreadthFirstFrom(g, Tail(span), stack, order)
        /\ span # <<>> /\ Head(span) \notin Range(order) =>
             BreadthFirstFrom(g, span, stack, order)
               = BreadthFirstFrom(g, Tail(span), SpanOf(g, Head(span)) \o stack,
                                  Append(order, Head(span)))
  BY <1>1, BreadthFirstUnfolds
<1>4. CASE PreorderSkip
  BY <1>1, <1>2, <1>4 DEF PreorderSkip, Skips, OrderInv
<1>5. CASE PreorderVisit
  BY <1>1, <1>2, <1>5 DEF PreorderVisit, Skips, Pushed, OrderInv
<1>6. CASE PreorderFinish
  <2>1. /\ pc' = "done" /\ kind = "preorder" /\ kind' = kind /\ g' = g
        /\ order' = Append(order, g.exit) /\ order' = Preorder(g)
    BY <1>2, <1>6 DEF PreorderFinish, PreorderFinalOrder, OrderInv
  <2>2. g.exit \in Blocks(g)
    BY <1>1 DEF IsGraph
  <2>3. Len(Append(order, g.exit)) = Len(order) + 1 /\ Append(order, g.exit)[Len(order) + 1] = g.exit
    BY <1>1, <2>2, AppendedRange
  <2>4. order'[Len(order')] = g.exit
    BY <2>1, <2>3
  <2>. QED BY <2>1, <2>4 DEF OrderInv
<1>7. CASE BFSPop
  BY <1>1, <1>3, <1>7 DEF BFSPop, OrderInv
<1>8. CASE BFSSkip
  <2>1. kind = "bfs"
    BY <1>1, <1>8 DEF BFSSkip
  <2>. QED BY <1>1, <1>3, <1>8, <2>1 DEF BFSSkip, OrderInv
<1>9. CASE BFSVisit
  <2>1. kind = "bfs"
    BY <1>1, <1>9 DEF BFSVisit
  <2>2. WithSpan(stack, Head(span)) = SpanOf(g, Head(span)) \o stack
    <3>1. stack \in Seq(Seq(Blocks(g)))
      BY <1>1, <2>1
    <3>2. CASE g.succ[Head(span)] = <<>>
      <4>1. <<>> \o stack = stack
        BY <3>1
      <4>. QED BY <3>2, <4>1 DEF WithSpan, SpanOf
    <3>3. CASE g.succ[Head(span)] # <<>>
      BY <3>3 DEF WithSpan, SpanOf
    <3>. QED BY <3>2, <3>3
  <2>. QED BY <1>1, <1>3, <1>9, <2>1, <2>2 DEF BFSVisit, OrderInv
<1>10. CASE BFSFinish
  BY <1>1, <1>3, <1>10 DEF BFSFinish, OrderInv
<1>11. CASE UNCHANGED vars
  BY <1>11 DEF vars, OrderInv
<1>. QED BY <1>4, <1>5, <1>6, <1>7, <1>8, <1>9, <1>10, <1>11 DEF Next

(* For every function graph, the finished orders are complete, the exit    *)
(* block is last in preorder, and they are the orders the other modules    *)
(* take from FlowGraph: what is proved of a traversal holds of Preorder    *)
(* and BreadthFirst.                                                       *)
THEOREM OrdersAgree == Spec => []CompleteOrder
<1>1. EachBlockOnce /\ OrderInv /\ TypeInv => CompleteOrder
  BY DEF EachBlockOnce, OrderInv, TypeInv, CompleteOrder
<1>2. TraverseInv => TypeInv /\ EachBlockOnce
  BY DEF TraverseInv, DoneInv, EachBlockOnce
<1>3. Spec => []OrderInv
  BY InitOrder, OrderKept, TraverseInvariant, PTL DEF Spec
<1>. QED BY <1>1, <1>2, <1>3, TraverseInvariant, PTL

-------------------------------------------------------------------------------
(* Block p branches to block n, and block x dominates block n, by number.  *)
Edge(p, n) == postorder[n + 1] \in Successors(g, postorder[p + 1])

Doms(x, n) == Dominates(g, postorder[x + 1], postorder[n + 1])

(* What the numbering is built from, once the traversal has ended.         *)
Numbered ==
    /\ g \in Graphs /\ Reachable(g) = Blocks(g)
    /\ postorder \in Seq(Blocks(g))
    /\ IsInjective(postorder)
    /\ Range(postorder) = Blocks(g)
    /\ EntryNumber \in Numbers
    /\ postorder[EntryNumber + 1] = g.entry
    /\ \A n \in Numbers \ {EntryNumber} : \E p \in Numbers : p > n /\ Edge(p, n)

Defined(doms) == {n \in Numbers : doms[n] # Undefined}

(* Parents have higher numbers, and have parents: the entry is the root.   *)
Climbing(doms) ==
    /\ doms \in [Numbers -> Numbers \cup {Undefined}]
    /\ doms[EntryNumber] = EntryNumber
    /\ \A n \in Defined(doms) \ {EntryNumber} : doms[n] > n /\ doms[n] \in Defined(doms)

(* A block that dominates another one dominates its parent too: nothing    *)
(* below a block's immediate dominator is passed on the way up.            *)
Inherits(doms) ==
    \A n \in Defined(doms) \ {EntryNumber} : \A x \in Numbers \ {n} :
        Doms(x, n) => Doms(x, doms[n])

(* The blocks on the way from block n to the root, n included: what every  *)
(* set has that has n and, with a block, its parent.                       *)
Ancestors(doms, n) ==
    {x \in Numbers : \A S \in SUBSET Numbers :
        (n \in S /\ \A y \in S : doms[y] \in Numbers => doms[y] \in S) => x \in S}

(* The parent of block n is on the way up from each of its predecessors.   *)
Settled(doms, n) ==
    \A p \in Defined(doms) : Edge(p, n) => doms[n] \in Ancestors(doms, p)

TreeInv ==
    /\ Numbered
    /\ i \in -1 .. (EntryNumber - 1) /\ changed \in BOOLEAN
    /\ Climbing(dominators)
    /\ Inherits(dominators)
    /\ \A n \in Numbers : n > i => n \in Defined(dominators)
    /\ ~changed => \A n \in Numbers \ {EntryNumber} : n > i => Settled(dominators, n)
    /\ pc = "found" => i = -1 /\ ~changed

DomInv ==
    /\ pc \in {"loop", "done", "tree", "found"}
    /\ pc \in {"loop", "done"} => TraverseInv /\ postorder = <<>>
    /\ pc \in {"tree", "found"} => TreeInv

----------------------------------------------------------------------------
(* Every block has one number.                                             *)
LEMMA NumberFacts ==
  ASSUME Numbered
  PROVE  /\ Numbers \in SUBSET Nat
         /\ Len(postorder) \in Nat \ {0} /\ EntryNumber = Len(postorder) - 1
         /\ Numbers = 0 .. EntryNumber
         /\ \A n \in Numbers : postorder[n + 1] \in Blocks(g)
         /\ \A b \in Blocks(g) : \E n \in Numbers : b = postorder[n + 1]
         /\ \A m, n \in Numbers : postorder[m + 1] = postorder[n + 1] => m = n
<1>1. /\ Len(postorder) \in Nat /\ DOMAIN postorder = 1 .. Len(postorder)
      /\ \A k \in 1 .. Len(postorder) : postorder[k] \in Blocks(g)
  BY LenProperties, ElementOfSeq DEF Numbered
<1>2. EntryNumber = Len(postorder) - 1 /\ Numbers = 0 .. (Len(postorder) - 1)
  BY DEF Numbers, EntryNumber
<1>3. Len(postorder) # 0
  <2>1. EntryNumber \in Numbers
    BY DEF Numbered
  <2>. QED BY <1>1, <1>2, <2>1
<1>4. \A n \in Numbers : n \in Nat /\ n + 1 \in DOMAIN postorder
  BY <1>1, <1>2
<1>5. ASSUME NEW b \in Blocks(g) PROVE \E n \in Numbers : b = postorder[n + 1]
  <2>1. PICK k \in DOMAIN postorder : b = postorder[k]
    BY DEF Numbered, Range
  <2>2. k - 1 \in Numbers /\ (k - 1) + 1 = k
    BY <1>1, <1>2, <2>1
  <2>. QED BY <2>1, <2>2
<1>6. ASSUME NEW m \in Numbers, NEW n \in Numbers, postorder[m + 1] = postorder[n + 1]
      PROVE  m = n
  <2>1. m + 1 = n + 1
    BY <1>4, <1>6 DEF Numbered, IsInjective
  <2>. QED BY <1>4, <2>1
<1>. QED BY <1>1, <1>2, <1>3, <1>4, <1>5, <1>6

(* Who calculate_incoming() lists: the blocks that branch to block n.      *)
LEMMA IncomingEdges ==
  ASSUME Numbered, NEW n \in Numbers
  PROVE  Incoming(n) = {p \in Numbers : Edge(p, n)}
<1>1. ASSUME NEW q \in Numbers PROVE NumberOf(postorder[q + 1]) = q
  <2> DEFINE k == CHOOSE k \in DOMAIN postorder : postorder[k] = postorder[q + 1]
  <2>1. DOMAIN postorder = 1 .. Len(postorder) /\ Len(postorder) \in Nat
    BY LenProperties DEF Numbered
  <2>2. q + 1 \in DOMAIN postorder /\ q \in Nat
    BY <2>1, NumberFacts
  <2>3. k \in DOMAIN postorder /\ postorder[k] = postorder[q + 1]
    BY <2>2
  <2>4. k = q + 1
    BY <2>2, <2>3 DEF Numbered, IsInjective
  <2>5. NumberOf(postorder[q + 1]) = k - 1
    BY DEF NumberOf
  <2> HIDE DEF k
  <2>. QED BY <2>2, <2>4, <2>5
<1>2. \A p \in Numbers : postorder[p + 1] \in Blocks(g)
  BY NumberFacts
<1>3. \A b \in Blocks(g) : \E p \in Numbers : b = postorder[p + 1]
  BY NumberFacts
<1>4. ASSUME NEW p \in Incoming(n) PROVE p \in Numbers /\ Edge(p, n)
  <2>1. PICK b \in Predecessors(g, postorder[n + 1]) : p = NumberOf(b)
    BY DEF Incoming
  <2>2. b \in Blocks(g) /\ postorder[n + 1] \in Successors(g, b)
    BY <2>1 DEF Predecessors
  <2>3. PICK q \in Numbers : b = postorder[q + 1]
    BY <1>3, <2>2
  <2>4. p = q
    BY <1>1, <2>1, <2>3
  <2>. QED BY <2>2, <2>3, <2>4 DEF Edge
<1>5. ASSUME NEW p \in Numbers, Edge(p, n) PROVE p \in Incoming(n)
  <2>1. postorder[p + 1] \in Predecessors(g, postorder[n + 1])
    BY <1>2, <1>5 DEF Predecessors, Edge
  <2>2. p = NumberOf(postorder[p + 1])
    BY <1>1
  <2>. QED BY <2>1, <2>2 DEF Incoming
<1>. QED BY <1>4, <1>5

(* A path through p that avoids x goes on to n, unless n is x.             *)
LEMMA DominatesPredecessors ==
  ASSUME Numbered, NEW x \in Numbers, NEW n \in Numbers, NEW p \in Numbers,
         Edge(p, n), n # x, Doms(x, n)
  PROVE  Doms(x, p)
<1> DEFINE d == postorder[x + 1]
           R == ReachableAvoiding(g, {d})
<1>1. \A b \in R : Successors(g, b) \ {d} \subseteq R
  BY GraphFacts, AvoidingClosed DEF Numbered
<1>2. postorder[n + 1] # d
  BY NumberFacts
<1>. QED BY <1>1, <1>2 DEF Doms, Dominates, Edge

(* A set of blocks that x cuts off from the entry is dominated by x.       *)
LEMMA CutOff ==
  ASSUME Numbered, NEW x \in Numbers, NEW D \in SUBSET Numbers,
         EntryNumber \in D => EntryNumber = x,
         \A n \in D \ {x}, p \in Numbers : Edge(p, n) => p \in D,
         NEW n \in D
  PROVE  Doms(x, n)
<1> DEFINE d == postorder[x + 1]
           A == {b \in Blocks(g) : b # d /\ \A k \in D : b # postorder[k + 1]}
<1>1. /\ \A k \in Numbers : postorder[k + 1] \in Blocks(g)
      /\ \A b \in Blocks(g) : \E k \in Numbers : b = postorder[k + 1]
      /\ \A k, m \in Numbers : postorder[k + 1] = postorder[m + 1] => k = m
  BY NumberFacts
<1>2. g.entry \in Blocks(g) /\ g.entry = postorder[EntryNumber + 1] /\ EntryNumber \in Numbers
  BY GraphFacts DEF Numbered
<1>3. {g.entry} \ {d} \subseteq A
  BY <1>1, <1>2
<1>4. ASSUME NEW b \in A, NEW c \in Successors(g, b) \ {d} PROVE c \in A
  <2>1. b \in Blocks(g) /\ c \in Blocks(g)
    BY GraphFacts DEF Numbered
  <2>2. PICK p \in Numbers : b = postorder[p + 1]
    BY <1>1, <2>1
  <2>3. ASSUME NEW k \in D, c = postorder[k + 1] PROVE FALSE
    <3>1. k # x /\ Edge(p, k)
      BY <2>2, <2>3 DEF Edge
    <3>. QED BY <2>2, <3>1
  <2>. QED BY <2>1, <2>3
<1>5. ReachableAvoiding(g, {d}) \subseteq A
  <2>1. \A b \in A : Successors(g, b) \ {d} \subseteq A
    BY <1>4
  <2>2. IsFiniteSet(Blocks(g))
    BY GraphFacts DEF Numbered
  <2> HIDE DEF A, d
  <2>. QED BY <1>3, <2>1, <2>2, AvoidingWithin
<1>. QED BY <1>5 DEF Doms, Dominates

(* Dominators have higher numbers: from the entry there is a way down to   *)
(* every block through higher numbers only.                                *)
LEMMA DominatorsAbove ==
  ASSUME Numbered, NEW x \in Numbers, NEW n \in Numbers, Doms(x, n)
  PROVE  x >= n
<1> DEFINE d == postorder[x + 1]
           R == ReachableAvoiding(g, {d})
           Low(k) == k > x /\ postorder[k + 1] \notin R
           T == {l \in Nat : \E k \in Numbers : l = EntryNumber - k /\ Low(k)}
<1>1. /\ {g.entry} \ {d} \subseteq R
      /\ \A b \in R : Successors(g, b) \ {d} \subseteq R
  <2>1. /\ IsFiniteSet(Blocks(g)) /\ g.entry \in Blocks(g)
        /\ \A b \in Blocks(g) : Successors(g, b) \subseteq Blocks(g)
    BY GraphFacts DEF Numbered
  <2> HIDE DEF d
  <2>2. {g.entry} \ {d} \subseteq R
    BY <2>1, AvoidingClosed
  <2>3. \A b \in R : Successors(g, b) \ {d} \subseteq R
    BY <2>1, AvoidingClosed
  <2>. QED BY <2>2, <2>3
<1>2. /\ Numbers = 0 .. EntryNumber /\ EntryNumber \in Nat
      /\ \A k, m \in Numbers : postorder[k + 1] = postorder[m + 1] => k = m
  BY NumberFacts
<1>3. T = {}
  <2> SUFFICES ASSUME T # {} PROVE FALSE
    OBVIOUS
  <2>1. PICK l \in T : \A m \in T : l <= m
    BY LeastNat
  <2>2. PICK k \in Numbers : l = EntryNumber - k /\ Low(k)
    OBVIOUS
  <2>3. postorder[k + 1] # d
    BY <1>2, <2>2
  <2>4. CASE k = EntryNumber
    BY <1>1, <2>2, <2>3, <2>4 DEF Numbered
  <2>5. CASE k # EntryNumber
    <3>1. PICK p \in Numbers : p > k /\ Edge(p, k)
      BY <2>5 DEF Numbered
    <3>2. postorder[p + 1] \notin R
      BY <1>1, <2>2, <2>3, <3>1 DEF Edge
    <3>3. /\ p \in Nat /\ k \in Nat /\ x \in Nat
          /\ EntryNumber - p \in Nat /\ EntryNumber - p < EntryNumber - k
      BY <1>2, <3>1
    <3>4. Low(p)
      BY <2>2, <3>1, <3>2, <3>3
    <3>5. EntryNumber - p \in T
      BY <3>3, <3>4
    <3>6. l <= EntryNumber - p
      BY <2>1, <3>5
    <3>. QED BY <1>2, <2>2, <3>3, <3>6
  <2>. QED BY <2>4, <2>5
<1>4. ASSUME n > x PROVE FALSE
  <2>1. Low(n)
    BY <1>4 DEF Doms, Dominates
  <2>2. EntryNumber - n \in T
    BY <1>2, <2>1
  <2>. QED BY <1>3, <2>2
<1>. QED BY <1>2, <1>4
----------------------------------------------------------------------------
(* The way up from a block: it starts at the block, goes on to the parent, *)
(* and every set closed under parents that it starts in has all of it.     *)
LEMMA AncestorFacts ==
  ASSUME Numbered, NEW doms, Climbing(doms), NEW n \in Defined(doms)
  PROVE  /\ n \in Ancestors(doms, n)
         /\ Ancestors(doms, n) \subseteq Defined(doms)
         /\ \A y \in Ancestors(doms, n) : doms[y] \in Ancestors(doms, n)
         /\ \A y \in Ancestors(doms, n) : y >= n
         /\ \A y \in Ancestors(doms, n) : Ancestors(doms, y) \subseteq Ancestors(doms, n)
         /\ \A y \in Ancestors(doms, n) \ {n} : y \in Ancestors(doms, doms[n])
<1>1. /\ Numbers \in SUBSET Nat /\ EntryNumber \in Numbers /\ Undefined \notin Numbers
      /\ \A y \in Defined(doms) : doms[y] \in Defined(doms) /\ doms[y] >= y
  <2>1. Numbers \in SUBSET Nat /\ EntryNumber \in Numbers
    BY NumberFacts DEF Numbered
  <2>2. Undefined \notin Numbers
    BY <2>1, UndefinedAssumption
  <2>3. EntryNumber \in Defined(doms)
    BY <2>1, <2>2 DEF Climbing, Defined
  <2>4. ASSUME NEW y \in Defined(doms) PROVE doms[y] \in Defined(doms) /\ doms[y] >= y
    <3>1. CASE y = EntryNumber
      BY <2>1, <2>3, <3>1 DEF Climbing
    <3>2. CASE y # EntryNumber
      <4>1. doms[y] > y /\ doms[y] \in Defined(doms)
        BY <3>2 DEF Climbing
      <4>2. y \in Nat /\ doms[y] \in Nat
        BY <2>1, <4>1 DEF Defined
      <4>. QED BY <4>1, <4>2
    <3>. QED BY <3>1, <3>2
  <2>. QED BY <2>1, <2>2, <2>3, <2>4
<1>2. \A k : Ancestors(doms, k) \subseteq Numbers
  BY DEF Ancestors
<1>3. n \in Ancestors(doms, n)
  BY DEF Ancestors, Defined
<1>4. ASSUME NEW S \in SUBSET Numbers, NEW k \in S, \A y \in S : doms[y] \in Numbers => doms[y] \in S
      PROVE  Ancestors(doms, k) \subseteq S
  BY <1>4 DEF Ancestors
<1>5. Ancestors(doms, n) \subseteq Defined(doms)
  <2>1. Defined(doms) \in SUBSET Numbers
    BY DEF Defined
  <2> HIDE DEF Defined
  <2>. QED BY <1>1, <1>4, <2>1
<1>6. ASSUME NEW k \in Numbers, NEW y \in Ancestors(doms, k), doms[y] \in Numbers
      PROVE  doms[y] \in Ancestors(doms, k)
  BY <1>6 DEF Ancestors
<1>7. \A y \in Ancestors(doms, n) : doms[y] \in Ancestors(doms, n)
  <2> TAKE y \in Ancestors(doms, n)
  <2>1. doms[y] \in Numbers
    BY <1>1, <1>5 DEF Defined
  <2>. QED BY <1>6, <2>1 DEF Defined
<1>8. \A y \in Ancestors(doms, n) : y >= n
  <2> DEFINE S == {y \in Defined(doms) : y >= n}
  <2>1. S \in SUBSET Numbers /\ n \in S
    BY <1>1 DEF Defined
  <2>2. ASSUME NEW y \in S PROVE doms[y] \in S
    <3>1. doms[y] \in Defined(doms) /\ doms[y] >= y /\ y >= n
      BY <1>1
    <3>2. doms[y] \in Nat /\ y \in Nat /\ n \in Nat
      BY <1>1, <3>1 DEF Defined
    <3>. QED BY <3>1, <3>2
  <2>3. Ancestors(doms, n) \subseteq S
    <3> HIDE DEF S
    <3>. QED BY <1>4, <2>1, <2>2
  <2>. QED BY <2>3
<1>9. \A y \in Ancestors(doms, n) : Ancestors(doms, y) \subseteq Ancestors(doms, n)
  BY <1>2, <1>4, <1>7
<1>10. \A y \in Ancestors(doms, n) \ {n} : y \in Ancestors(doms, doms[n])
  <2> DEFINE S == {n} \cup Ancestors(doms, doms[n])
  <2>1. doms[n] \in Numbers
    BY <1>1 DEF Defined
  <2>2. doms[n] \in Ancestors(doms, doms[n])
    BY <2>1 DEF Ancestors
  <2>3. S \in SUBSET Numbers /\ n \in S
    BY <1>2 DEF Defined
  <2>4. \A y \in S : doms[y] \in Numbers => doms[y] \in S
    BY <1>6, <2>1, <2>2
  <2>5. Ancestors(doms, n) \subseteq S
    <3> HIDE DEF S
    <3>. QED BY <1>4, <2>3, <2>4
  <2>. QED BY <2>5
<1>. QED BY <1>3, <1>5, <1>7, <1>8, <1>9, <1>10

(* One round of intersect()'s loop, on every pair of fingers.              *)
ClimbOnce(doms) ==
    [f \in Numbers \X Numbers |->
        CASE f[1] < f[2] -> <<doms[f[1]], f[2]>>
          [] f[1] > f[2] -> <<f[1], doms[f[2]]>>
          [] OTHER       -> f]

(* The pairs of fingers of the first n rounds.                             *)
AreFingers(doms, a, b, f, n) ==
    f = [k \in 0 .. n |-> IF k = 0 THEN <<a, b>> ELSE ClimbOnce(doms)[f[k - 1]]]

(* There are such pairs: each follows from the one before.                 *)
LEMMA FingersExist ==
  ASSUME NEW doms, NEW a, NEW b, NEW n \in Nat
  PROVE  \E f : AreFingers(doms, a, b, f, n)
<1> DEFINE T == {k \in Nat : ~ \E f : AreFingers(doms, a, b, f, k)}
           step == ClimbOnce(doms)
<1> HIDE DEF step
<1> SUFFICES ASSUME T # {} PROVE FALSE
  OBVIOUS
<1>1. PICK m \in T : \A k \in T : m <= k
  BY LeastNat
<1>2. m \in Nat /\ ~ \E f : AreFingers(doms, a, b, f, m)
  OBVIOUS
<1>3. CASE m = 0
  <2> DEFINE f == [k \in 0 .. 0 |-> <<a, b>>]
  <2>1. f = [k \in 0 .. 0 |-> IF k = 0 THEN <<a, b>> ELSE step[f[k - 1]]]
    OBVIOUS
  <2>2. AreFingers(doms, a, b, f, 0)
    BY <2>1 DEF AreFingers, step
  <2>. QED BY <1>2, <1>3, <2>2
<1>4. CASE m # 0
  <2>1. m - 1 \in Nat /\ m - 1 \notin T
    BY <1>1, <1>2, <1>4
  <2>2. PICK f : AreFingers(doms, a, b, f, m - 1)
    BY <2>1
  <2>3. f = [k \in 0 .. m - 1 |-> IF k = 0 THEN <<a, b>> ELSE step[f[k - 1]]]
    BY <2>2 DEF AreFingers, step
  <2> DEFINE h == [k \in 0 .. m |-> IF k = m THEN step[f[m - 1]] ELSE f[k]]
  <2>4. ASSUME NEW k \in 0 .. m
        PROVE  h[k] = IF k = 0 THEN <<a, b>> ELSE step[h[k - 1]]
    <3>1. CASE k = m
      <4>1. h[k - 1] = f[m - 1] /\ h[k] = step[f[m - 1]]
        BY <3>1, <1>2, <1>4
      <4>. QED BY <3>1, <4>1, <1>4
    <3>2. CASE k # m
      <4>1. h[k] = f[k] /\ k \in 0 .. m - 1
        BY <3>2, <1>2
      <4>2. f[k] = IF k = 0 THEN <<a, b>> ELSE step[f[k - 1]]
        BY <4>1, <2>3
      <4>3. k # 0 => h[k - 1] = f[k - 1]
        BY <4>1, <1>2
      <4>. QED BY <4>1, <4>2, <4>3
    <3>. QED BY <3>1, <3>2
  <2>5. AreFingers(doms, a, b, h, m)
    BY <2>4 DEF AreFingers, step
  <2>. QED BY <1>2, <2>5
<1>. QED BY <1>3, <1>4

(* Where the fingers are after k rounds: each on the way up from its start *)
(* and, if they have not met, far enough up; what dominates both starts    *)
(* dominates both.                                                         *)
Fingers(doms, a, b, f, k) ==
    /\ f = <<f[1], f[2]>>
    /\ f[1] \in Ancestors(doms, a) /\ f[2] \in Ancestors(doms, b)
    /\ f[1] = f[2] \/ f[1] + f[2] >= k
    /\ Inherits(doms) =>
         \A x \in Numbers : Doms(x, a) /\ Doms(x, b) => Doms(x, f[1]) /\ Doms(x, f[2])

(* One round keeps that: the lower finger does not pass a dominator of     *)
(* both, which is no lower than the other finger.                          *)
LEMMA FingersStep ==
  ASSUME Numbered, NEW doms, Climbing(doms),
         NEW a \in Defined(doms), NEW b \in Defined(doms),
         NEW f, NEW k \in Nat, Fingers(doms, a, b, f, k)
  PROVE  Fingers(doms, a, b, ClimbOnce(doms)[f], k + 1)
<1> DEFINE u == f[1]
           v == f[2]
           next == ClimbOnce(doms)[f]
<1>1. /\ Numbers \in SUBSET Nat /\ Defined(doms) \subseteq Numbers
      /\ Numbers = 0 .. EntryNumber /\ EntryNumber \in Nat
  BY NumberFacts DEF Defined
<1>2. /\ Ancestors(doms, a) \subseteq Defined(doms) /\ Ancestors(doms, b) \subseteq Defined(doms)
      /\ \A y \in Ancestors(doms, a) : doms[y] \in Ancestors(doms, a)
      /\ \A y \in Ancestors(doms, b) : doms[y] \in Ancestors(doms, b)
  BY AncestorFacts
<1>3. /\ f = <<u, v>> /\ u \in Ancestors(doms, a) /\ v \in Ancestors(doms, b)
      /\ u = v \/ u + v >= k
      /\ u \in Defined(doms) /\ v \in Defined(doms) /\ u \in Nat /\ v \in Nat
  BY <1>1, <1>2 DEF Fingers
<1>4. next = CASE u < v -> <<doms[u], v>> [] u > v -> <<u, doms[v]>> [] OTHER -> f
  <2>1. f \in Numbers \X Numbers
    BY <1>1, <1>3
  <2>. QED BY <2>1 DEF ClimbOnce
<1> HIDE DEF next, u, v
<1>5. CASE u = v
  <2>1. next = f
    BY <1>3, <1>4, <1>5
  <2>. QED BY <1>3, <1>5, <2>1 DEF Fingers, next, u, v
<1>6. CASE u < v
  <2>1. next = <<doms[u], v>> /\ next[1] = doms[u] /\ next[2] = v
    BY <1>3, <1>4, <1>6
  <2>2. u # EntryNumber
    BY <1>1, <1>3, <1>6
  <2>3. doms[u] > u /\ doms[u] \in Nat
    BY <1>1, <1>2, <1>3, <2>2 DEF Climbing
  <2>4. doms[u] + v >= k + 1
    BY <1>3, <1>6, <2>3
  <2>5. ASSUME Inherits(doms), NEW x \in Numbers, Doms(x, a), Doms(x, b)
        PROVE  Doms(x, doms[u]) /\ Doms(x, v)
    <3>1. Doms(x, u) /\ Doms(x, v)
      BY <2>5 DEF Fingers, u, v
    <3>2. x >= v
      BY <1>1, <1>3, <3>1, DominatorsAbove
    <3>3. x # u
      BY <1>1, <1>3, <1>6, <3>2
    <3>. QED BY <1>3, <2>2, <2>5, <3>1, <3>3 DEF Inherits
  <2>. QED BY <1>2, <1>3, <2>1, <2>4, <2>5 DEF Fingers, next
<1>7. CASE u > v
  <2>1. next = <<u, doms[v]>> /\ next[1] = u /\ next[2] = doms[v]
    BY <1>3, <1>4, <1>7
  <2>2. v # EntryNumber
    BY <1>1, <1>3, <1>7
  <2>3. doms[v] > v /\ doms[v] \in Nat
    BY <1>1, <1>2, <1>3, <2>2 DEF Climbing
  <2>4. u + doms[v] >= k + 1
    BY <1>3, <1>7, <2>3
  <2>5. ASSUME Inherits(doms), NEW x \in Numbers, Doms(x, a), Doms(x, b)
        PROVE  Doms(x, u) /\ Doms(x, doms[v])
    <3>1. Doms(x, u) /\ Doms(x, v)
      BY <2>5 DEF Fingers, u, v
    <3>2. x >= u
      BY <1>1, <1>3, <3>1, DominatorsAbove
    <3>3. x # v
      BY <1>1, <1>3, <1>7, <3>2
    <3>. QED BY <1>3, <2>2, <2>5, <3>1, <3>3 DEF Inherits
  <2>. QED BY <1>2, <1>3, <2>1, <2>4, <2>5 DEF Fingers, next
<1>. QED BY <1>3, <1>5, <1>6, <1>7

(* The fingers meet, in a block that is on the way up from both starts and *)
(* that everything dominating both of them dominates.                      *)
LEMMA FingersMeet ==
  ASSUME Numbered, NEW doms, Climbing(doms),
         NEW a \in Defined(doms), NEW b \in Defined(doms)
  PROVE  LET m == Intersect(doms, a, b)
         IN  /\ m \in Ancestors(doms, a) /\ m \in Ancestors(doms, b)
             /\ Inherits(doms) =>
                  \A x \in Numbers : Doms(x, a) /\ Doms(x, b) => Doms(x, m)
<1> DEFINE rounds == 2 * Len(postorder)
           f == CHOOSE f : AreFingers(doms, a, b, f, rounds)
<1>1. rounds \in Nat /\ EntryNumber = Len(postorder) - 1 /\ Numbers = 0 .. EntryNumber
  BY NumberFacts
<1>2. AreFingers(doms, a, b, f, rounds)
  BY <1>1, FingersExist
<1>3. Intersect(doms, a, b) = f[rounds][1]
  BY DEF Intersect, AreFingers, ClimbOnce
<1> HIDE DEF rounds, f
<1>4. f[0] = <<a, b>> /\ \A k \in 1 .. rounds : f[k] = ClimbOnce(doms)[f[k - 1]]
  <2>1. f[0] = <<a, b>>
    BY <1>1, <1>2 DEF AreFingers
  <2>2. ASSUME NEW k \in 1 .. rounds PROVE f[k] = ClimbOnce(doms)[f[k - 1]]
    <3>1. k \in 0 .. rounds /\ k # 0
      BY <1>1
    <3>. QED BY <1>2, <3>1 DEF AreFingers
  <2>. QED BY <2>1, <2>2
<1> DEFINE T == {k \in 0 .. rounds : ~ Fingers(doms, a, b, f[k], k)}
<1>5. T = {}
  <2> SUFFICES ASSUME T # {} PROVE FALSE
    OBVIOUS
  <2>1. T \in SUBSET Nat
    BY <1>1
  <2>2. PICK m \in T : \A k \in T : m <= k
    BY <2>1, LeastNat
  <2>3. m \in 0 .. rounds /\ ~ Fingers(doms, a, b, f[m], m)
    OBVIOUS
  <2>4. CASE m = 0
    <3>1. a \in Ancestors(doms, a) /\ b \in Ancestors(doms, b)
      BY AncestorFacts
    <3>2. a \in Nat /\ b \in Nat
      BY <1>1, NumberFacts DEF Defined
    <3>3. f[0][1] = a /\ f[0][2] = b
      BY <1>4
    <3>. QED BY <1>4, <2>3, <2>4, <3>1, <3>2, <3>3 DEF Fingers
  <2>5. CASE m # 0
    <3>1. m - 1 \in 0 .. rounds /\ m - 1 \notin T /\ m \in 1 .. rounds
          /\ m - 1 \in Nat /\ (m - 1) + 1 = m
      BY <1>1, <2>2, <2>3, <2>5
    <3>2. Fingers(doms, a, b, f[m - 1], m - 1)
      BY <3>1
    <3>3. Fingers(doms, a, b, ClimbOnce(doms)[f[m - 1]], (m - 1) + 1)
      BY <3>1, <3>2, FingersStep
    <3>. QED BY <1>4, <2>3, <3>1, <3>3
  <2>. QED BY <2>4, <2>5
<1>6. Fingers(doms, a, b, f[rounds], rounds)
  BY <1>1, <1>5
<1>7. f[rounds][1] = f[rounds][2]
  <2>1. /\ f[rounds][1] \in 0 .. EntryNumber /\ f[rounds][2] \in 0 .. EntryNumber
    BY <1>1, <1>6, AncestorFacts DEF Fingers, Defined
  <2>2. f[rounds][1] + f[rounds][2] < rounds
    BY <1>1, <2>1, NumberFacts DEF rounds
  <2>3. f[rounds][1] + f[rounds][2] \in Nat
    BY <1>1, <2>1, NumberFacts
  <2>. QED BY <1>1, <1>6, <2>2, <2>3 DEF Fingers
<1>. QED BY <1>3, <1>6, <1>7 DEF Fingers
----------------------------------------------------------------------------
(* SetToSeq lists every member of a finite set.                            *)
LEMMA ListedOnce ==
  ASSUME NEW S, IsFiniteSet(S)
  PROVE  /\ Len(SetToSeq(S)) = Cardinality(S) /\ Cardinality(S) \in Nat
         /\ \A k \in 1 .. Cardinality(S) : SetToSeq(S)[k] \in S
         /\ \A e \in S : \E k \in 1 .. Cardinality(S) : SetToSeq(S)[k] = e
<1> DEFINE n == Cardinality(S)
           f == SetToSeq(S)
<1>1. n \in Nat /\ ExistsBijection(1 .. n, S)
  BY FS_CardinalityType
<1>2. \E h \in [1 .. n -> S] : IsInjective(h)
  BY <1>1 DEF ExistsBijection, Bijection, Injection
<1>3. f \in [1 .. n -> S] /\ IsInjective(f)
  BY <1>2 DEF SetToSeq
<1>4. f \in Injection(1 .. n, S)
  BY <1>3 DEF Injection
<1>5. IsFiniteSet(1 .. n) /\ Cardinality(1 .. n) = n
  BY <1>1, FS_Interval
<1>6. f \in Surjection(1 .. n, S)
  <2> HIDE DEF f
  <2>. QED BY <1>4, <1>5, FS_Injection
<1>7. Len(f) = n
  <2>1. f \in Seq(S)
    BY <1>1, <1>3
  <2> HIDE DEF f
  <2>. QED BY <1>1, <1>3, <2>1
<1>. QED BY <1>1, <1>3, <1>6, <1>7 DEF Surjection

(* fold_left_first() over the first n members of a sequence.               *)
IsFold(doms, s, f, n) ==
    f = [k \in 1 .. n |-> IF k = 1 THEN s[1] ELSE Intersect(doms, f[k - 1], s[k])]

LEMMA FoldExists ==
  ASSUME NEW doms, NEW s, NEW n \in Nat
  PROVE  \E f : IsFold(doms, s, f, n)
<1> DEFINE T == {k \in Nat : ~ \E f : IsFold(doms, s, f, k)}
<1> SUFFICES ASSUME T # {} PROVE FALSE
  OBVIOUS
<1>1. PICK m \in T : \A k \in T : m <= k
  BY LeastNat
<1>2. m \in Nat /\ ~ \E f : IsFold(doms, s, f, m)
  OBVIOUS
<1>3. CASE m = 0
  <2> DEFINE f == [k \in 1 .. 0 |-> s[1]]
  <2>1. IsFold(doms, s, f, 0)
    BY DEF IsFold
  <2>. QED BY <1>2, <1>3, <2>1
<1>4. CASE m # 0
  <2>1. m - 1 \in Nat /\ m - 1 \notin T
    BY <1>1, <1>2, <1>4
  <2>2. PICK f : IsFold(doms, s, f, m - 1)
    BY <2>1
  <2> DEFINE h == [k \in 1 .. m |-> IF k = m THEN (IF m = 1 THEN s[1] ELSE Intersect(doms, f[m - 1], s[m]))
                                   ELSE f[k]]
  <2>3. ASSUME NEW k \in 1 .. m
        PROVE  h[k] = IF k = 1 THEN s[1] ELSE Intersect(doms, h[k - 1], s[k])
    <3>1. CASE k = m
      <4>1. k # 1 => h[k - 1] = f[m - 1]
        BY <3>1, <1>2, <1>4
      <4>. QED BY <3>1, <4>1, <1>4
    <3>2. CASE k # m
      <4>1. h[k] = f[k] /\ k \in 1 .. m - 1
        BY <3>2, <1>2
      <4>2. f[k] = IF k = 1 THEN s[1] ELSE Intersect(doms, f[k - 1], s[k])
        BY <4>1, <2>2 DEF IsFold
      <4>3. k # 1 => h[k - 1] = f[k - 1]
        BY <4>1, <1>2
      <4>. QED BY <4>1, <4>2, <4>3
    <3>. QED BY <3>1, <3>2
  <2>4. IsFold(doms, s, h, m)
    BY <2>3 DEF IsFold
  <2>. QED BY <1>2, <2>4
<1>. QED BY <1>3, <1>4

(* The parent a block gets is on the way up from each of its processed     *)
(* predecessors, and everything that dominates all of them dominates it.   *)
LEMMA ParentFound ==
  ASSUME Numbered, NEW doms, Climbing(doms), NEW n \in Numbers,
         NEW q \in Defined(doms), Edge(q, n)
  PROVE  LET m == EvaluateIdom(doms, n)
             P == {p \in Defined(doms) : Edge(p, n)}
         IN  /\ \A p \in P : m \in Ancestors(doms, p)
             /\ Inherits(doms) =>
                  \A x \in Numbers : (\A p \in P : Doms(x, p)) => Doms(x, m)
<1> DEFINE P == {p \in Defined(doms) : Edge(p, n)}
           s == SetToSeq(P)
           L == Cardinality(P)
           f == CHOOSE f : IsFold(doms, s, f, L)
<1>1. {p \in Incoming(n) : doms[p] # Undefined} = P
  BY IncomingEdges DEF Defined
<1>2. /\ Len(s) = L /\ L \in Nat
      /\ \A k \in 1 .. L : s[k] \in P
      /\ \A p \in P : \E k \in 1 .. L : s[k] = p
  <2>1. Numbers = 0 .. EntryNumber /\ EntryNumber \in Nat
    BY NumberFacts
  <2>2. IsFiniteSet(Numbers)
    BY <2>1, FS_Interval
  <2>3. P \subseteq Numbers
    BY DEF Defined
  <2>4. IsFiniteSet(P)
    BY <2>2, <2>3, FS_Subset
  <2> HIDE DEF P
  <2>. QED BY <2>4, ListedOnce
<1>3. IsFold(doms, s, f, L)
  <2> HIDE DEF s, L
  <2>. QED BY <1>2, FoldExists
<1>4. EvaluateIdom(doms, n) = f[L]
  <2>1. EvaluateIdom(doms, n) =
          LET processed == SetToSeq(P)
              idom[k \in 1 .. Len(processed)] ==
                IF k = 1 THEN processed[1] ELSE Intersect(doms, idom[k - 1], processed[k])
          IN  idom[Len(processed)]
    BY <1>1 DEF EvaluateIdom
  <2>. QED BY <1>2, <2>1 DEF IsFold
<1>5. L # 0 /\ P \subseteq Defined(doms)
  BY <1>2
<1> HIDE DEF f, s, L, P
<1>6. \A k \in 1 .. L : f[k] = IF k = 1 THEN s[1] ELSE Intersect(doms, f[k - 1], s[k])
  BY <1>3 DEF IsFold
<1> DEFINE Common(k) ==
             /\ f[k] \in Defined(doms)
             /\ \A j \in 1 .. k : f[k] \in Ancestors(doms, s[j])
             /\ Inherits(doms) =>
                  \A x \in Numbers : (\A p \in P : Doms(x, p)) => Doms(x, f[k])
           T == {k \in 1 .. L : ~ Common(k)}
<1>7. T = {}
  <2> SUFFICES ASSUME T # {} PROVE FALSE
    OBVIOUS
  <2>1. T \in SUBSET Nat
    BY <1>2
  <2>2. PICK m \in T : \A k \in T : m <= k
    BY <2>1, LeastNat
  <2>3. m \in 1 .. L /\ ~ Common(m) /\ m \in Nat
    BY <2>1
  <2>4. CASE m = 1
    <3>1. f[m] = s[1] /\ s[1] \in P /\ s[1] \in Defined(doms)
      BY <1>2, <1>5, <1>6, <2>3, <2>4
    <3>2. \A j \in 1 .. m : f[m] \in Ancestors(doms, s[j])
      BY <2>4, <3>1, AncestorFacts
    <3>. QED BY <2>3, <3>1, <3>2
  <2>5. CASE m # 1
    <3>1. m - 1 \in 1 .. L /\ m - 1 \notin T
      BY <1>2, <2>2, <2>3, <2>5
    <3>2. Common(m - 1)
      BY <3>1
    <3>3. f[m] = Intersect(doms, f[m - 1], s[m]) /\ s[m] \in P /\ s[m] \in Defined(doms)
      BY <1>2, <1>5, <1>6, <2>3, <2>5
    <3>4. /\ f[m] \in Ancestors(doms, f[m - 1]) /\ f[m] \in Ancestors(doms, s[m])
          /\ Inherits(doms) =>
               \A x \in Numbers : Doms(x, f[m - 1]) /\ Doms(x, s[m]) => Doms(x, f[m])
      BY <3>2, <3>3, FingersMeet
    <3>5. f[m] \in Defined(doms)
      BY <3>3, <3>4, AncestorFacts
    <3>6. ASSUME NEW j \in 1 .. m PROVE f[m] \in Ancestors(doms, s[j])
      <4>1. CASE j = m
        BY <3>4, <4>1
      <4>2. CASE j # m
        <5>1. j \in 1 .. m - 1 /\ j \in 1 .. L
          BY <1>2, <2>3, <4>2
        <5>2. s[j] \in Defined(doms) /\ f[m - 1] \in Ancestors(doms, s[j])
          BY <1>2, <1>5, <3>2, <5>1
        <5>. QED BY <3>4, <5>2, AncestorFacts
      <4>. QED BY <4>1, <4>2
    <3>7. Inherits(doms) => \A x \in Numbers : (\A p \in P : Doms(x, p)) => Doms(x, f[m])
      BY <3>2, <3>3, <3>4
    <3>. QED BY <2>3, <3>5, <3>6, <3>7
  <2>. QED BY <2>4, <2>5
<1>8. Common(L)
  BY <1>2, <1>5, <1>7
<1>9. \A p \in P : f[L] \in Ancestors(doms, p)
  BY <1>2, <1>8
<1>. QED BY <1>4, <1>8, <1>9 DEF P
----------------------------------------------------------------------------
(* One iteration of the for loop, when the blocks above are defined: the   *)
(* parents stay higher and inherit, and a block whose parent is not        *)
(* changed by it is settled.                                               *)
LEMMA BlockEvaluated ==
  ASSUME Numbered, NEW doms, Climbing(doms), Inherits(doms),
         NEW n \in Numbers \ {EntryNumber}, \A k \in Numbers : k > n => k \in Defined(doms)
  PROVE  LET m   == EvaluateIdom(doms, n)
             new == [doms EXCEPT ![n] = m]
         IN  /\ Climbing(new) /\ Inherits(new)
             /\ Defined(new) = Defined(doms) \cup {n}
             /\ m = doms[n] => new = doms /\ Settled(doms, n)
<1> DEFINE m   == EvaluateIdom(doms, n)
           new == [doms EXCEPT ![n] = m]
           P   == {p \in Defined(doms) : Edge(p, n)}
<1>1. /\ Numbers \in SUBSET Nat /\ EntryNumber \in Numbers /\ Undefined \notin Numbers
      /\ Defined(doms) \subseteq Numbers /\ DOMAIN doms = Numbers
      /\ doms \in [Numbers -> Numbers \cup {Undefined}]
  <2>1. Numbers \in SUBSET Nat /\ EntryNumber \in Numbers
    BY NumberFacts DEF Numbered
  <2>. QED BY <2>1, UndefinedAssumption DEF Defined, Climbing
<1>2. PICK q \in Numbers : q > n /\ Edge(q, n)
  BY DEF Numbered
<1>3. q \in P
  BY <1>2
<1>4. /\ \A p \in P : m \in Ancestors(doms, p)
      /\ \A x \in Numbers : (\A p \in P : Doms(x, p)) => Doms(x, m)
  BY <1>2, <1>3, ParentFound
<1> HIDE DEF m
<1>5. m \in Defined(doms) /\ m >= q
  BY <1>3, <1>4, AncestorFacts
<1>6. m \in Numbers /\ m > n /\ m # n /\ m # Undefined
  <2>1. m \in Numbers /\ m # Undefined
    BY <1>1, <1>5
  <2>2. m \in Nat /\ n \in Nat /\ q \in Nat
    BY <1>1, <2>1
  <2>. QED BY <1>2, <1>5, <2>1, <2>2
<1>7. /\ new \in [Numbers -> Numbers \cup {Undefined}] /\ new[n] = m
      /\ \A k \in Numbers \ {n} : new[k] = doms[k]
  BY <1>1, <1>6
<1> HIDE DEF new
<1>8. Defined(new) = Defined(doms) \cup {n}
  BY <1>1, <1>6, <1>7 DEF Defined
<1>9. Climbing(new)
  <2>1. new[EntryNumber] = EntryNumber
    BY <1>1, <1>7 DEF Climbing
  <2>2. ASSUME NEW k \in Defined(new) \ {EntryNumber} PROVE new[k] > k /\ new[k] \in Defined(new)
    <3>1. CASE k = n
      BY <1>5, <1>6, <1>7, <1>8, <3>1
    <3>2. CASE k # n
      <4>1. k \in Defined(doms) \ {EntryNumber} /\ k \in Numbers \ {n}
        BY <1>1, <1>8, <3>2
      <4>2. doms[k] > k /\ doms[k] \in Defined(doms) /\ new[k] = doms[k]
        BY <1>7, <4>1 DEF Climbing
      <4>. QED BY <1>8, <4>2
    <3>. QED BY <3>1, <3>2
  <2>. QED BY <1>7, <2>1, <2>2 DEF Climbing
<1>10. Inherits(new)
  <2> SUFFICES ASSUME NEW k \in Defined(new) \ {EntryNumber}, NEW x \in Numbers \ {k}, Doms(x, k)
               PROVE  Doms(x, new[k])
    BY DEF Inherits
  <2>1. CASE k = n
    <3>1. \A p \in P : Doms(x, p)
      BY <1>1, <2>1, DominatesPredecessors
    <3>. QED BY <1>4, <1>7, <2>1, <3>1
  <2>2. CASE k # n
    <3>1. k \in Defined(doms) \ {EntryNumber} /\ new[k] = doms[k]
      BY <1>1, <1>7, <1>8, <2>2
    <3>. QED BY <3>1 DEF Inherits
  <2>. QED BY <2>1, <2>2
<1>11. ASSUME m = doms[n] PROVE new = doms /\ Settled(doms, n)
  <2>1. new = doms
    BY <1>1, <1>11 DEF new
  <2>2. Settled(doms, n)
    BY <1>4, <1>11 DEF Settled
  <2>. QED BY <2>1, <2>2
<1>. QED BY <1>8, <1>9, <1>10, <1>11 DEF m, new

(* When every block is settled, the blocks on the way up from a block      *)
(* dominate it: going back along any edge one stays below them.            *)
LEMMA AncestorsDominate ==
  ASSUME Numbered, NEW doms, Climbing(doms), Numbers \subseteq Defined(doms),
         \A n \in Numbers \ {EntryNumber} : Settled(doms, n),
         NEW n \in Numbers, NEW x \in Ancestors(doms, n)
  PROVE  Doms(x, n)
<1> DEFINE D == {k \in Numbers : x \in Ancestors(doms, k)}
<1>1. Defined(doms) = Numbers /\ EntryNumber \in Numbers
  BY DEF Defined, Numbered
<1>2. x \in Numbers /\ D \in SUBSET Numbers /\ n \in D
  BY <1>1, AncestorFacts
<1>3. EntryNumber \in D => EntryNumber = x
  <2> SUFFICES ASSUME x \in Ancestors(doms, EntryNumber) PROVE EntryNumber = x
    OBVIOUS
  <2>1. x >= EntryNumber
    BY <1>1, AncestorFacts
  <2>. QED BY <1>2, <2>1, NumberFacts
<1>4. ASSUME NEW k \in D \ {x}, NEW p \in Numbers, Edge(p, k) PROVE p \in D
  <2>1. CASE k = EntryNumber
    BY <1>3, <1>4, <2>1
  <2>2. CASE k # EntryNumber
    <3>1. doms[k] \in Ancestors(doms, p)
      BY <1>1, <1>4, <2>2 DEF Settled
    <3>2. x \in Ancestors(doms, doms[k])
      BY <1>1, AncestorFacts
    <3>3. Ancestors(doms, doms[k]) \subseteq Ancestors(doms, p)
      BY <1>1, <3>1, AncestorFacts
    <3>. QED BY <3>2, <3>3
  <2>. QED BY <2>1, <2>2
<1> HIDE DEF D
<1>. QED BY <1>2, <1>3, <1>4, CutOff

(* Then every block's parent is its immediate dominator.                   *)
LEMMA ParentIsImmediate ==
  ASSUME Numbered, NEW doms, Climbing(doms), Inherits(doms), Numbers \subseteq Defined(doms),
         \A n \in Numbers \ {EntryNumber} : Settled(doms, n),
         NEW n \in Numbers \ {EntryNumber}
  PROVE  postorder[doms[n] + 1] = ImmediateDominator(g, postorder[n + 1])
<1> DEFINE Block(k) == postorder[k + 1]
           strict == StrictDominators(g, Block(n))
           Lowest(d) == \A e \in strict : Dominates(g, e, d)
           m == doms[n]
<1>1. /\ \A k \in Numbers : Block(k) \in Blocks(g)
      /\ \A b \in Blocks(g) : \E k \in Numbers : b = Block(k)
      /\ \A k, l \in Numbers : Block(k) = Block(l) => k = l
      /\ Numbers \in SUBSET Nat
  BY NumberFacts
<1>2. m \in Numbers /\ m > n /\ n \in Defined(doms)
  BY DEF Climbing, Defined
<1>3. m \in Ancestors(doms, n)
  BY <1>2, AncestorFacts
<1>4. Doms(m, n)
  BY <1>3, AncestorsDominate
<1> HIDE DEF m
<1>5. Block(m) \in strict
  BY <1>1, <1>2, <1>4 DEF StrictDominators, Doms, Numbered
<1>6. ASSUME NEW e \in strict PROVE \E k \in Numbers \ {n} : e = Block(k) /\ Doms(k, n) /\ Doms(k, m)
  <2>1. e \in Blocks(g) /\ e # Block(n) /\ Dominates(g, e, Block(n))
    BY DEF StrictDominators, Numbered
  <2>2. PICK k \in Numbers : e = Block(k)
    BY <1>1, <2>1
  <2>3. k # n /\ Doms(k, n)
    BY <2>1, <2>2 DEF Doms
  <2>4. Doms(k, m)
    BY <1>2, <2>3 DEF Inherits, m
  <2>. QED BY <2>2, <2>3, <2>4
<1>7. Lowest(Block(m))
  BY <1>6 DEF Doms
<1>8. ASSUME NEW d \in strict, Lowest(d) PROVE d = Block(m)
  <2>1. PICK k \in Numbers \ {n} : d = Block(k) /\ Doms(k, m)
    BY <1>6
  <2>2. Doms(m, k)
    BY <1>5, <1>8, <2>1 DEF Doms
  <2>3. k >= m /\ m >= k
    BY <1>2, <2>1, <2>2, DominatorsAbove
  <2>4. k = m
    BY <1>1, <1>2, <2>3
  <2>. QED BY <2>1, <2>4
<1>9. ImmediateDominator(g, Block(n)) = CHOOSE d \in strict : Lowest(d)
  BY DEF ImmediateDominator
<1> HIDE DEF strict, Lowest, Block
<1>10. (CHOOSE d \in strict : Lowest(d)) = Block(m)
  BY <1>5, <1>7, <1>8
<1>. QED BY <1>9, <1>10 DEF Block, m
----------------------------------------------------------------------------
(* A finished preorder of a graph without unreachable blocks, read         *)
(* backwards, numbers the blocks as the iteration needs them.              *)
LEMMA StartKeeps == DomInv /\ StartTree => TreeInv'
<1> SUFFICES ASSUME DomInv, StartTree PROVE TreeInv'
  OBVIOUS
<1>1. /\ pc = "done" /\ kind = "preorder" /\ Reachable(g) = Blocks(g) /\ TraverseInv
      /\ pc' = "tree" /\ g' = g
      /\ postorder' = Reverse(order)
      /\ dominators' = [n \in 0 .. Len(order) - 1 |-> IF n = Len(order) - 1 THEN n ELSE Undefined]
      /\ i' = Len(order) - 2 /\ changed' = FALSE
  BY DEF StartTree, Analysable, DomInv, PostOrder
<1>2. /\ g \in Graphs /\ order \in Seq(Blocks(g)) /\ IsInjective(order)
      /\ Range(order) = Blocks(g) /\ PredecessorBefore
  <2>1. g \in Graphs /\ order \in Seq(Blocks(g)) /\ EachBlockOnce /\ PredecessorBefore
    BY <1>1 DEF TraverseInv, TypeInv, DoneInv
  <2>2. g.exit \in Blocks(g)
    BY <2>1, GraphFacts
  <2>. QED BY <1>1, <2>1, <2>2 DEF EachBlockOnce
<1> DEFINE L == Len(order)
           po == Reverse(order)
<1>3. /\ L \in Nat /\ DOMAIN order = 1 .. L
      /\ \A k \in 1 .. L : order[k] \in Blocks(g)
  BY <1>2, LenProperties, ElementOfSeq
<1>4. /\ DOMAIN po = 1 .. L /\ \A k \in 1 .. L : po[k] = order[(L - k) + 1]
      /\ po \in Seq(Blocks(g)) /\ Len(po) = L
  <2>1. po = [k \in 1 .. L |-> order[(L - k) + 1]]
    BY DEF Reverse
  <2>2. \A k \in 1 .. L : (L - k) + 1 \in 1 .. L
    BY <1>3
  <2>3. po \in [1 .. L -> Blocks(g)]
    BY <1>3, <2>1, <2>2
  <2> HIDE DEF po, L
  <2>4. po \in Seq(Blocks(g)) /\ Len(po) = L
    BY <1>3, <2>3
  <2>. QED BY <2>1, <2>4
<1> HIDE DEF po, L
<1>5. L # 0 /\ order[1] = g.entry
  <2>1. g.entry \in Blocks(g)
    BY <1>2, GraphFacts
  <2>2. L # 0
    <3>1. PICK k \in DOMAIN order : order[k] = g.entry
      BY <1>2, <2>1 DEF Range
    <3>. QED BY <1>3, <3>1
  <2>3. 1 \in DOMAIN order
    BY <1>3, <2>2
  <2>4. order[1] \in Reachable(g) \ {g.entry} => \E j \in 1 .. (1 - 1) : order[1] \in Successors(g, order[j])
    BY <1>2, <2>3 DEF PredecessorBefore
  <2>5. order[1] \in Reachable(g)
    BY <1>1, <1>3, <2>3
  <2>. QED BY <2>2, <2>4, <2>5
<1>6. /\ postorder' = po /\ Numbers' = 0 .. L - 1 /\ EntryNumber' = L - 1
      /\ i' = L - 2
      /\ dominators' = [n \in 0 .. L - 1 |-> IF n = L - 1 THEN n ELSE Undefined]
  BY <1>1, <1>4 DEF po, L, Numbers, EntryNumber
<1>7. IsInjective(po)
  <2> SUFFICES ASSUME NEW a \in 1 .. L, NEW b \in 1 .. L, po[a] = po[b] PROVE a = b
    BY <1>4 DEF IsInjective
  <2>1. (L - a) + 1 \in 1 .. L /\ (L - b) + 1 \in 1 .. L
    BY <1>3
  <2>2. (L - a) + 1 = (L - b) + 1
    BY <1>2, <1>3, <1>4, <2>1 DEF IsInjective
  <2>. QED BY <1>3, <2>2
<1>8. Range(po) = Blocks(g)
  <2>1. ASSUME NEW b \in Blocks(g) PROVE \E k \in 1 .. L : po[k] = b
    <3>1. PICK k \in 1 .. L : order[k] = b
      BY <1>2, <1>3 DEF Range
    <3>2. (L - k) + 1 \in 1 .. L /\ (L - ((L - k) + 1)) + 1 = k
      BY <1>3
    <3>. QED BY <1>4, <3>1, <3>2
  <2>2. \A k \in 1 .. L : po[k] \in Blocks(g)
    <3>1. \A k \in 1 .. L : (L - k) + 1 \in 1 .. L
      BY <1>3
    <3>. QED BY <1>3, <1>4, <3>1
  <2>. QED BY <1>4, <2>1, <2>2 DEF Range
<1>9. po[(L - 1) + 1] = g.entry
  <2>1. L \in 1 .. L /\ (L - L) + 1 = 1 /\ (L - 1) + 1 = L
    BY <1>3, <1>5
  <2>. QED BY <1>4, <1>5, <2>1
<1>10. ASSUME NEW n \in (0 .. L - 1) \ {L - 1}
       PROVE  \E p \in 0 .. L - 1 : p > n /\ po[n + 1] \in Successors(g, po[p + 1])
  <2>1. n + 1 \in 1 .. L /\ L - n \in 1 .. L /\ (L - (n + 1)) + 1 = L - n /\ L - n # 1
    BY <1>3
  <2>2. po[n + 1] = order[L - n]
    BY <1>4, <2>1
  <2>3. order[L - n] # g.entry
    BY <1>2, <1>3, <1>5, <2>1 DEF IsInjective
  <2>4. order[L - n] \in Reachable(g)
    BY <1>1, <1>3, <2>1
  <2>5. PICK j \in 1 .. ((L - n) - 1) : order[L - n] \in Successors(g, order[j])
    BY <1>2, <1>3, <2>1, <2>3, <2>4 DEF PredecessorBefore
  <2>6. /\ L - j \in 0 .. L - 1 /\ L - j > n /\ (L - j) + 1 \in 1 .. L
        /\ (L - ((L - j) + 1)) + 1 = j
    BY <1>3, <2>5
  <2>7. po[(L - j) + 1] = order[j]
    BY <1>4, <2>6
  <2>. QED BY <2>2, <2>5, <2>6, <2>7
<1>11. Numbered'
  <2>1. ASSUME NEW n \in Numbers' \ {EntryNumber'}
        PROVE  \E p \in Numbers' : p > n /\ Edge(p, n)'
    BY <1>1, <1>6, <1>10, <2>1 DEF Edge
  <2>2. EntryNumber' \in Numbers'
    BY <1>3, <1>5, <1>6
  <2>. QED BY <1>1, <1>2, <1>4, <1>6, <1>7, <1>8, <1>9, <2>1, <2>2 DEF Numbered
<1>12. \A n \in 0 .. L - 1 : n # Undefined
  BY <1>3, UndefinedAssumption
<1>13. Defined(dominators)' = {L - 1}
  BY <1>3, <1>5, <1>6, <1>12 DEF Defined
<1>14. Climbing(dominators)'
  BY <1>3, <1>5, <1>6, <1>13 DEF Climbing
<1>15. Inherits(dominators)'
  BY <1>6, <1>13 DEF Inherits
<1>16. \A n \in Numbers' : n > i' => n \in Defined(dominators)'
  BY <1>3, <1>6, <1>13
<1>17. \A n \in Numbers' \ {EntryNumber'} : ~ (n > i')
  BY <1>3, <1>6
<1>18. i' \in -1 .. (EntryNumber' - 1)
  BY <1>3, <1>5, <1>6
<1>. QED BY <1>1, <1>11, <1>14, <1>15, <1>16, <1>17, <1>18 DEF TreeInv

(* The numbering, and what is said of it, does not change any more.        *)
LEMMA NumberingStays ==
  ASSUME g' = g, postorder' = postorder
  PROVE  /\ Numbers' = Numbers /\ EntryNumber' = EntryNumber
         /\ Numbered' = Numbered
         /\ \A p, n : Edge(p, n)' = Edge(p, n)
         /\ \A x, n : Doms(x, n)' = Doms(x, n)
<1>1. Numbers' = Numbers /\ EntryNumber' = EntryNumber
  BY DEF Numbers, EntryNumber
<1>2. \A p, n : Edge(p, n)' = Edge(p, n)
  BY DEF Edge
<1>3. \A x, n : Doms(x, n)' = Doms(x, n)
  BY DEF Doms
<1>4. Numbered' = Numbered
  BY <1>1, <1>2 DEF Numbered, Edge
<1>. QED BY <1>1, <1>2, <1>3, <1>4

(* One iteration of the for loop.                                          *)
LEMMA EvaluateKeeps == TreeInv /\ EvaluateBlock => TreeInv'
<1> SUFFICES ASSUME TreeInv, EvaluateBlock PROVE TreeInv'
  OBVIOUS
<1> DEFINE idom == EvaluateIdom(dominators, i)
           new == [dominators EXCEPT ![i] = idom]
<1>1. /\ pc = "tree" /\ pc' = pc /\ i >= 0 /\ i' = i - 1 /\ g' = g /\ postorder' = postorder
      /\ dominators' = new /\ changed' = (changed \/ idom # dominators[i])
  BY DEF EvaluateBlock, ChangedSoFar, vars
<1>2. /\ Numbers' = Numbers /\ EntryNumber' = EntryNumber /\ Numbered'
      /\ \A p, n : Edge(p, n)' = Edge(p, n)
      /\ \A x, n : Doms(x, n)' = Doms(x, n)
  BY <1>1, NumberingStays DEF TreeInv
<1>3. i \in Numbers \ {EntryNumber} /\ i \in Int /\ EntryNumber \in Nat /\ Numbers \in SUBSET Nat
  BY <1>1, NumberFacts DEF TreeInv
<1>4. /\ Climbing(new) /\ Inherits(new)
      /\ Defined(new) = Defined(dominators) \cup {i}
      /\ idom = dominators[i] => new = dominators /\ Settled(dominators, i)
  BY <1>3, BlockEvaluated DEF TreeInv
<1> HIDE DEF new, idom
<1>5. Defined(dominators)' = Defined(new)
  BY <1>1, <1>2 DEF Defined
<1>6. Climbing(dominators)'
  BY <1>1, <1>2, <1>4, <1>5 DEF Climbing
<1>7. Inherits(dominators)'
  BY <1>1, <1>2, <1>4, <1>5 DEF Inherits
<1>8. \A n \in Numbers : n > i - 1 => n = i \/ n > i
  BY <1>3
<1>9. \A n \in Numbers' : n > i' => n \in Defined(dominators)'
  BY <1>1, <1>2, <1>4, <1>5, <1>8 DEF TreeInv
<1>10. ASSUME ~changed', NEW n \in Numbers' \ {EntryNumber'}, n > i'
       PROVE  Settled(dominators, n)'
  <2>1. ~changed /\ idom = dominators[i]
    BY <1>1, <1>10
  <2>2. Settled(dominators, n)
    BY <1>1, <1>2, <1>4, <1>8, <1>10, <2>1 DEF TreeInv
  <2>3. dominators' = dominators
    BY <1>1, <1>4, <2>1
  <2>. QED BY <1>2, <1>5, <1>4, <2>1, <2>2, <2>3 DEF Settled, Ancestors
<1>11. i' \in -1 .. (EntryNumber' - 1) /\ changed' \in BOOLEAN
  BY <1>1, <1>2, <1>3 DEF TreeInv
<1>12. pc' # "found"
  BY <1>1
<1>. QED BY <1>2, <1>6, <1>7, <1>9, <1>10, <1>11, <1>12 DEF TreeInv

(* The while loop goes round again.                                        *)
LEMMA NextPassKeeps == TreeInv /\ NextPass => TreeInv'
<1> SUFFICES ASSUME TreeInv, NextPass PROVE TreeInv'
  OBVIOUS
<1>1. /\ pc = "tree" /\ pc' = pc /\ g' = g /\ postorder' = postorder /\ dominators' = dominators
      /\ i < 0 /\ i' = EntryNumber - 1 /\ changed' = FALSE
  BY DEF NextPass, vars
<1>2. /\ Numbers' = Numbers /\ EntryNumber' = EntryNumber /\ Numbered'
      /\ \A p, n : Edge(p, n)' = Edge(p, n)
      /\ \A x, n : Doms(x, n)' = Doms(x, n)
  BY <1>1, NumberingStays DEF TreeInv
<1>3. EntryNumber \in Nat /\ Numbers = 0 .. EntryNumber
  BY NumberFacts DEF TreeInv
<1>4. Defined(dominators)' = Defined(dominators)
  BY <1>1, <1>2 DEF Defined
<1>5. Climbing(dominators)'
  BY <1>1, <1>2, <1>4 DEF Climbing, TreeInv
<1>6. Inherits(dominators)'
  BY <1>1, <1>2, <1>4 DEF Inherits, TreeInv
<1>7. \A n \in Numbers' : n > i' => n \in Defined(dominators)'
  <2>1. \A n \in Numbers : n > i
    BY <1>1, <1>3 DEF TreeInv
  <2>. QED BY <1>2, <1>4, <2>1 DEF TreeInv
<1>8. \A n \in Numbers' \ {EntryNumber'} : ~ (n > i')
  BY <1>1, <1>2, <1>3
<1>9. i' \in -1 .. (EntryNumber' - 1) /\ changed' \in BOOLEAN
  <2>1. EntryNumber - 1 \in -1 .. (EntryNumber - 1)
    BY <1>3
  <2>. QED BY <1>1, <1>2, <2>1
<1>10. pc' # "found"
  BY <1>1
<1>. QED BY <1>2, <1>5, <1>6, <1>7, <1>8, <1>9, <1>10 DEF TreeInv

(* The iteration ends, or nothing happens.                                 *)
LEMMA FinishKeeps ==
  ASSUME TreeInv, g' = g, UNCHANGED tree, pc' = pc \/ (pc' = "found" /\ i < 0 /\ ~changed)
  PROVE  TreeInv'
<1>1. postorder' = postorder /\ dominators' = dominators /\ i' = i /\ changed' = changed
  BY DEF tree
<1>2. /\ Numbers' = Numbers /\ EntryNumber' = EntryNumber /\ Numbered'
      /\ \A p, n : Edge(p, n)' = Edge(p, n)
      /\ \A x, n : Doms(x, n)' = Doms(x, n)
  BY <1>1, NumberingStays DEF TreeInv
<1>3. Defined(dominators)' = Defined(dominators)
  BY <1>1, <1>2 DEF Defined
<1>4. Climbing(dominators)' /\ Inherits(dominators)'
  <2>1. Climbing(dominators)'
    BY <1>1, <1>2, <1>3 DEF Climbing, TreeInv
  <2>2. Inherits(dominators)'
    BY <1>1, <1>2, <1>3 DEF Inherits, TreeInv
  <2>. QED BY <2>1, <2>2
<1>5. \A n \in Numbers' : n > i' => n \in Defined(dominators)'
  BY <1>1, <1>2, <1>3 DEF TreeInv
<1>6. \A n : Settled(dominators, n)' = Settled(dominators, n)
  BY <1>1, <1>2, <1>3 DEF Settled, Ancestors
<1>7. ~changed' => \A n \in Numbers' \ {EntryNumber'} : n > i' => Settled(dominators, n)'
  BY <1>1, <1>2, <1>6 DEF TreeInv
<1>8. i' \in -1 .. (EntryNumber' - 1) /\ changed' \in BOOLEAN
  BY <1>1, <1>2 DEF TreeInv
<1>9. pc' = "found" => i' = -1 /\ ~changed'
  <2>1. i \in -1 .. (EntryNumber - 1)
    BY DEF TreeInv
  <2>2. pc = "found" => i = -1 /\ ~changed
    BY DEF TreeInv
  <2>. QED BY <1>1, <2>1, <2>2
<1>. QED BY <1>2, <1>4, <1>5, <1>7, <1>8, <1>9 DEF TreeInv

(* The invariant of the whole computation, the preorder first.             *)
THEOREM DomInvariant == DomSpec => []DomInv
<1>1. DomInit => DomInv
  BY InitTraverse DEF DomInit, DomInv, Init
<1>2. DomInv /\ [DomNext]_<<vars, tree>> => DomInv'
  <2> SUFFICES ASSUME DomInv, [DomNext]_<<vars, tree>> PROVE DomInv'
    OBVIOUS
  <2>1. CASE TraverseStep
    <3>1. pc = "loop" /\ pc' \in {"loop", "done"} /\ Next /\ UNCHANGED tree
      BY <2>1 DEF TraverseStep, Next, PreorderSkip, PreorderVisit, PreorderFinish,
                  BFSPop, BFSSkip, BFSVisit, BFSFinish
    <3>2. TraverseInv'
      BY <3>1, TraverseStepKeeps DEF DomInv
    <3>3. postorder' = <<>>
      BY <3>1 DEF DomInv, tree
    <3>. QED BY <3>1, <3>2, <3>3 DEF DomInv
  <2>2. CASE StartTree
    <3>1. pc' = "tree"
      BY <2>2 DEF StartTree
    <3>. QED BY <2>2, <3>1, StartKeeps DEF DomInv
  <2>3. CASE EvaluateBlock
    <3>1. pc = "tree" /\ pc' = "tree"
      BY <2>3 DEF EvaluateBlock, vars
    <3>. QED BY <2>3, <3>1, EvaluateKeeps DEF DomInv
  <2>4. CASE NextPass
    <3>1. pc = "tree" /\ pc' = "tree"
      BY <2>4 DEF NextPass, vars
    <3>. QED BY <2>4, <3>1, NextPassKeeps DEF DomInv
  <2>5. CASE FinishTree
    <3>1. pc = "tree" /\ pc' = "found" /\ i < 0 /\ ~changed /\ g' = g /\ UNCHANGED tree
      BY <2>5 DEF FinishTree, Again, tree
    <3>. QED BY <3>1, FinishKeeps DEF DomInv
  <2>6. CASE UNCHANGED <<vars, tree>>
    <3>1. pc' = pc /\ g' = g /\ UNCHANGED tree /\ UNCHANGED vars
      BY <2>6 DEF vars
    <3>2. CASE pc \in {"loop", "done"}
      <4>1. TraverseInv'
        BY <3>1, <3>2, TraverseStepKeeps DEF DomInv
      <4>2. postorder' = <<>>
        BY <3>1, <3>2 DEF DomInv, tree
      <4>. QED BY <3>1, <3>2, <4>1, <4>2 DEF DomInv
    <3>3. CASE pc \in {"tree", "found"}
      BY <3>1, <3>3, FinishKeeps DEF DomInv
    <3>. QED BY <3>2, <3>3 DEF DomInv
  <2>. QED BY <2>1, <2>2, <2>3, <2>4, <2>5, <2>6 DEF DomNext
<1>. QED BY <1>1, <1>2, PTL DEF DomSpec

(* For every function graph, in every pass: a block's parent has a higher  *)
(* number and a parent of its own.  intersect()'s fingers only climb, meet *)
(* and never reach a missing entry (DominatorTreeEvalBase.h:127).          *)
THEOREM FingersAlwaysClimb == DomSpec => []FingersClimb
<1>1. DomInv => FingersClimb
  <2> SUFFICES ASSUME DomInv, NEW n \in Numbers \ {EntryNumber}, dominators[n] # Undefined
               PROVE  dominators[n] > n /\ dominators[dominators[n]] # Undefined
    BY DEF FingersClimb
  <2>1. CASE pc \in {"loop", "done"}
    BY <2>1 DEF DomInv, Numbers
  <2>2. CASE pc \in {"tree", "found"}
    BY <2>2 DEF DomInv, TreeInv, Climbing, Defined
  <2>. QED BY <2>1, <2>2 DEF DomInv
<1>. QED BY <1>1, DomInvariant, PTL

(* For every function graph without unreachable blocks, reducible or not,  *)
(* the result is the dominator tree as the paths of the graph define it.   *)
THEOREM TreeIsCorrect == DomSpec => []TreeIsDominatorTree
<1>1. DomInv => TreeIsDominatorTree
  <2> SUFFICES ASSUME DomInv, pc = "found", NEW n \in Numbers \ {EntryNumber}
               PROVE  postorder[dominators[n] + 1] = ImmediateDominator(g, postorder[n + 1])
    BY DEF TreeIsDominatorTree
  <2>1. TreeInv /\ i = -1 /\ ~changed
    BY DEF DomInv, TreeInv
  <2>2. Numbered /\ Climbing(dominators) /\ Inherits(dominators)
    BY <2>1 DEF TreeInv
  <2>3. \A k \in Numbers : k > i
    BY <2>1, <2>2, NumberFacts
  <2>4. /\ Numbers \subseteq Defined(dominators)
        /\ \A k \in Numbers \ {EntryNumber} : Settled(dominators, k)
    BY <2>1, <2>3 DEF TreeInv
  <2>. QED BY <2>2, <2>4, ParentIsImmediate
<1>. QED BY <1>1, DomInvariant, PTL
=============================================================================
