-------------------------- MODULE CallFrame_proofs --------------------------
(***************************************************************************)
(* Frames and calls, for every function and every convention.              *)
(*                                                                         *)
(* The pass and the machine are followed by invariants that build on each  *)
(* other: what CallInfoInitialize has recorded (PassInv), where rsp and    *)
(* rbp are (StackInv), and on these what the frame holds (FrameInv), which *)
(* arguments are in place (ArgumentsInv) and where the values that live    *)
(* over a call are (SaveInv).                                              *)
(***************************************************************************)
EXTENDS CallFrame, FiniteSetTheorems, SequenceTheorems, TLAPS

(* Functions that are built index by index, and induction up to a bound.   *)
Base == INSTANCE FlowGraph_proofs

----------------------------------------------------------------------------
(* The blocks in the order they run.                                       *)
LEMMA OrderFacts ==
  ASSUME NEW f \in Functions
  PROVE  /\ Len(f.order) \in Nat \ {0} /\ Blocks(f) = 1 .. Len(f.order)
         /\ First(f) \in Blocks(f) /\ Final(f) \in Blocks(f)
         /\ \A b \in Calling(f) : /\ Following(f, b) \in Blocks(f) \ {First(f)}
                                  /\ Preceding(f, Following(f, b)) = b
                                  /\ Following(f, b) # b
         /\ \A b \in Blocks(f) \ {First(f)} : /\ Preceding(f, b) \in Calling(f)
                                              /\ Following(f, Preceding(f, b)) = b
<1>1. /\ f.order \in Seq(Blocks(f)) /\ Distinct(f.order) /\ f.order # <<>>
      /\ Blocks(f) = 1 .. Len(f.order)
      /\ \A b \in Blocks(f) : \E i \in DOMAIN f.order : f.order[i] = b
  BY FrameAssumption DEF FunctionAssumption
<1>2. PICK n \in Nat : n = Len(f.order)
  BY <1>1
<1>3. n # 0 /\ DOMAIN f.order = 1 .. n /\ \A i \in 1 .. n : f.order[i] \in Blocks(f)
  BY <1>1, <1>2
<1>4. \A i, j \in 1 .. n : f.order[i] = f.order[j] => i = j
  BY <1>1, <1>3 DEF Distinct
<1>5. \A b \in Blocks(f) : Place(f, b) \in 1 .. n /\ f.order[Place(f, b)] = b
  BY <1>1, <1>3 DEF Place
<1>6. \A i \in 1 .. n : Place(f, f.order[i]) = i
  BY <1>3, <1>4, <1>5
<1>7. ASSUME NEW b \in Calling(f)
      PROVE  /\ Following(f, b) \in Blocks(f) \ {First(f)}
             /\ Preceding(f, Following(f, b)) = b
             /\ Following(f, b) # b
  <2>1. PICK i \in 1 .. n : i = Place(f, b) /\ f.order[i] = b
    BY <1>5 DEF Calling
  <2>2. i # n
    BY <1>2, <2>1 DEF Calling, Final
  <2>3. i + 1 \in 1 .. n /\ i + 1 # 1 /\ 1 \in 1 .. n
    BY <1>3, <2>2
  <2>4. Following(f, b) = f.order[i + 1]
    BY <2>1 DEF Following
  <2>5. Place(f, Following(f, b)) = i + 1
    BY <1>6, <2>3, <2>4
  <2>6. Preceding(f, Following(f, b)) = f.order[i]
    BY <2>5 DEF Preceding
  <2>7. f.order[i + 1] # f.order[1] /\ f.order[i + 1] # f.order[i]
    BY <1>4, <2>3
  <2>. QED BY <1>3, <2>1, <2>3, <2>4, <2>6, <2>7 DEF First
<1>8. ASSUME NEW b \in Blocks(f) \ {First(f)}
      PROVE  Preceding(f, b) \in Calling(f) /\ Following(f, Preceding(f, b)) = b
  <2>1. PICK i \in 1 .. n : i = Place(f, b) /\ f.order[i] = b
    BY <1>5
  <2>2. i # 1
    BY <2>1 DEF First
  <2>3. i - 1 \in 1 .. n /\ i - 1 # n /\ n \in 1 .. n /\ (i - 1) + 1 = i
    BY <1>3, <2>2
  <2>4. Preceding(f, b) = f.order[i - 1]
    BY <2>1 DEF Preceding
  <2>5. Place(f, Preceding(f, b)) = i - 1
    BY <1>6, <2>3, <2>4
  <2>6. Following(f, Preceding(f, b)) = b
    BY <2>1, <2>3, <2>5 DEF Following
  <2>7. f.order[i - 1] # f.order[n]
    BY <1>4, <2>3
  <2>. QED BY <1>2, <1>3, <2>3, <2>4, <2>6, <2>7 DEF Calling, Final
<1>9. First(f) \in Blocks(f) /\ Final(f) \in Blocks(f)
  BY <1>2, <1>3 DEF First, Final
<1>. QED BY <1>1, <1>2, <1>3, <1>7, <1>8, <1>9

(* The instructions of a block: three at its start, four or five and the   *)
(* arguments of its call at its end.                                       *)
Arity(f, b) == IF b = Final(f) THEN 0 ELSE Len(f.calls[b].args)

(* Which instruction is where in the code c of a block whose call passes n *)
(* arguments.                                                              *)
IsCode(f, b, c, n) ==
    /\ Len(c) = n + 5 /\ DOMAIN c = 1 .. n + 5
    /\ c[1] = IF b = First(f) THEN Op("prologue") ELSE Op("up")
    /\ c[2] = OnRegs("use", Returned(f, b) \cup (Entering(f, b) \ Leaving(f, b)))
    /\ c[3] = OnRegs("def", Leaving(f, b) \ Entering(f, b))
    /\ c[4] = IF b = Final(f) THEN Op("epilogue") ELSE Op("down")
    /\ \A k \in 1 .. n : c[k + 4] = [op |-> "pass", arg |-> k]
    /\ c[n + 5] = IF b = Final(f) THEN Op("ret") ELSE Op("call")

(* The code of a block is made of these instructions.                      *)
LEMMA CodeFacts ==
  ASSUME NEW f \in Functions, NEW b \in Blocks(f)
  PROVE  Arity(f, b) \in Nat /\ IsCode(f, b, Code(f, b), Arity(f, b))
<1> DEFINE x1 == IF b = First(f) THEN Op("prologue") ELSE Op("up")
           x2 == OnRegs("use", Returned(f, b) \cup (Entering(f, b) \ Leaving(f, b)))
           x3 == OnRegs("def", Leaving(f, b) \ Entering(f, b))
           c == Code(f, b)
           n == Arity(f, b)
           pass(k) == [op |-> "pass", arg |-> k]
<1>1. CASE b = Final(f)
  <2> DEFINE e == Op("epilogue")
             r == Op("ret")
             S == {x1, x2, x3, e, r}
  <2>1. c = <<x1, x2, x3>> \o <<e, r>>
    BY <1>1 DEF Code
  <2>2. <<x1, x2, x3>> \in Seq(S) /\ <<e, r>> \in Seq(S)
    OBVIOUS
  <2> HIDE DEF x1, x2, x3, e, r, S
  <2>3. /\ Len(c) = 5 /\ DOMAIN c = 1 .. 5
        /\ c[1] = x1 /\ c[2] = x2 /\ c[3] = x3 /\ c[4] = e /\ c[5] = r
    <3> HIDE DEF c
    <3>. QED BY <2>1, <2>2
  <2>4. n = 0
    BY <1>1 DEF Arity
  <2> HIDE DEF c, n
  <2>5. \A k \in 1 .. n : FALSE
    BY <2>4
  <2>6. IsCode(f, b, c, n)
    BY <1>1, <2>3, <2>4, <2>5 DEF IsCode, x1, x2, x3, e, r
  <2>. QED BY <2>4, <2>6 DEF c, n
<1>2. CASE b # Final(f)
  <2>1. n \in Nat /\ n = Len(f.calls[b].args)
    <3>1. f.calls[b].args \in Seq(Arguments)
      BY <1>2, FrameAssumption DEF FunctionAssumption, Calling
    <3>. QED BY <1>2, <3>1 DEF Arity
  <2> DEFINE d == Op("down")
             l == Op("call")
             p == Pass(f.calls[b].args)
             S == {x1, x2, x3, d, l} \cup {pass(k) : k \in 1 .. n}
  <2>2. c = <<x1, x2, x3>> \o (<<d>> \o p \o <<l>>)
    BY <1>2 DEF Code
  <2>3. p = [k \in 1 .. n |-> pass(k)]
    BY <2>1 DEF Pass
  <2> HIDE DEF n, p, x1, x2, x3, d, l, pass
  <2>4. /\ <<x1, x2, x3>> \in Seq(S) /\ <<d>> \in Seq(S) /\ <<l>> \in Seq(S)
        /\ p \in Seq(S) /\ Len(p) = n /\ \A k \in 1 .. n : p[k] = pass(k)
    BY <2>1, <2>3
  <2> HIDE DEF S
  <2>5. PICK q \in Seq(S) : /\ q = <<d>> \o p /\ Len(q) = n + 1
                            /\ q[1] = d /\ \A k \in 1 .. n : q[k + 1] = pass(k)
    <3> DEFINE q == <<d>> \o p
    <3>1. /\ q \in Seq(S) /\ Len(q) = Len(<<d>>) + Len(p)
          /\ \A j \in 1 .. Len(<<d>>) + Len(p) :
               q[j] = IF j <= Len(<<d>>) THEN <<d>>[j] ELSE p[j - Len(<<d>>)]
      BY <2>4, Base!Concatenated
    <3>2. Len(<<d>>) = 1 /\ <<d>>[1] = d
      OBVIOUS
    <3> HIDE DEF q
    <3>3. ASSUME NEW k \in 1 .. n PROVE q[k + 1] = pass(k)
      <4>1. k + 1 \in 1 .. 1 + n /\ ~(k + 1 <= 1) /\ (k + 1) - 1 = k
        BY <2>1
      <4>. QED BY <2>4, <3>1, <3>2, <4>1
    <3>4. q[1] = d /\ Len(q) = n + 1
      BY <2>1, <2>4, <3>1, <3>2
    <3>. QED BY <3>1, <3>3, <3>4 DEF q
  <2>6. PICK t \in Seq(S) : /\ t = q \o <<l>> /\ Len(t) = n + 2
                            /\ t[1] = d /\ t[n + 2] = l
                            /\ \A k \in 1 .. n : t[k + 1] = pass(k)
    <3> DEFINE t == q \o <<l>>
    <3>1. /\ t \in Seq(S) /\ Len(t) = Len(q) + Len(<<l>>)
          /\ \A j \in 1 .. Len(q) + Len(<<l>>) :
               t[j] = IF j <= Len(q) THEN q[j] ELSE <<l>>[j - Len(q)]
      BY <2>4, <2>5, Base!Concatenated
    <3>2. Len(<<l>>) = 1 /\ <<l>>[1] = l
      OBVIOUS
    <3> HIDE DEF t
    <3>3. t[1] = d /\ t[n + 2] = l /\ Len(t) = n + 2
      BY <2>1, <2>5, <3>1, <3>2
    <3>4. ASSUME NEW k \in 1 .. n PROVE t[k + 1] = pass(k)
      <4>1. k + 1 \in 1 .. (n + 1) + 1 /\ k + 1 <= n + 1
        BY <2>1
      <4>. QED BY <2>5, <3>1, <3>2, <4>1
    <3>. QED BY <3>1, <3>3, <3>4 DEF t
  <2>7. /\ c \in Seq(S) /\ Len(c) = 3 + Len(t)
        /\ \A j \in 1 .. 3 + Len(t) : c[j] = IF j <= 3 THEN <<x1, x2, x3>>[j] ELSE t[j - 3]
    <3>1. Len(<<x1, x2, x3>>) = 3
      OBVIOUS
    <3> HIDE DEF c
    <3>. QED BY <2>2, <2>4, <2>5, <2>6, <3>1, Base!Concatenated
  <2> HIDE DEF c
  <2>8. /\ Len(c) = n + 5 /\ DOMAIN c = 1 .. n + 5
        /\ c[1] = x1 /\ c[2] = x2 /\ c[3] = x3 /\ c[4] = d /\ c[n + 5] = l
    <3>1. <<x1, x2, x3>>[1] = x1 /\ <<x1, x2, x3>>[2] = x2 /\ <<x1, x2, x3>>[3] = x3
      OBVIOUS
    <3>2. (n + 5) - 3 = n + 2 /\ 4 - 3 = 1 /\ n + 5 = 3 + Len(t)
      BY <2>1, <2>6
    <3>. QED BY <2>1, <2>6, <2>7, <3>1, <3>2
  <2>9. ASSUME NEW k \in 1 .. n PROVE c[k + 4] = pass(k)
    <3>1. k + 4 \in 1 .. 3 + Len(t) /\ ~(k + 4 <= 3) /\ (k + 4) - 3 = k + 1
      BY <2>1, <2>6
    <3>. QED BY <2>6, <2>7, <3>1
  <2>10. IsCode(f, b, c, n)
    BY <1>2, <2>8, <2>9 DEF IsCode, x1, x2, x3, d, l, pass
  <2>. QED BY <2>1, <2>10 DEF c, n
<1>. QED BY <1>1, <1>2

(* Where the adjustments are.                                              *)
LEMMA AdjustmentsAre ==
  ASSUME NEW f \in Functions
  PROVE  /\ Adjustments(f) = Blocks(f) \X {1, 4}
         /\ EpilogueOf(f) = <<Final(f), 4>>
         /\ \A b \in Blocks(f) : \A i \in DOMAIN Code(f, b) :
              Code(f, b)[i].op \in AdjustKinds <=> i \in {1, 4}
<1>1. ASSUME NEW b \in Blocks(f), NEW i \in DOMAIN Code(f, b)
      PROVE  Code(f, b)[i].op \in AdjustKinds <=> i \in {1, 4}
  <2> DEFINE c == Code(f, b)
  <2>1. PICK n \in Nat : n = Arity(f, b) /\ IsCode(f, b, c, n)
    BY CodeFacts
  <2> HIDE DEF c
  <2>2. /\ DOMAIN c = 1 .. n + 5
        /\ c[1].op \in AdjustKinds /\ c[4].op \in AdjustKinds
        /\ c[2].op \notin AdjustKinds /\ c[3].op \notin AdjustKinds
        /\ c[n + 5].op \notin AdjustKinds
        /\ \A k \in 1 .. n : c[k + 4].op \notin AdjustKinds
    <3>1. \A name : Op(name).op = name /\ \A rs : OnRegs(name, rs).op = name
      BY DEF Op, OnRegs
    <3>2. \A k : [op |-> "pass", arg |-> k].op = "pass"
      OBVIOUS
    <3>3. /\ c[1].op \in {"prologue", "up"} /\ c[2].op = "use" /\ c[3].op = "def"
          /\ c[4].op \in {"epilogue", "down"} /\ c[n + 5].op \in {"ret", "call"}
      BY <2>1, <3>1 DEF IsCode
    <3>4. \A k \in 1 .. n : c[k + 4].op = "pass"
      BY <2>1, <3>2 DEF IsCode
    <3>. QED BY <2>1, <3>3, <3>4 DEF IsCode, AdjustKinds
  <2>3. i \in {1, 2, 3, 4, n + 5} \/ \E k \in 1 .. n : i = k + 4
    <3>1. i \in 1 .. n + 5
      BY <2>2 DEF c
    <3>2. CASE i <= 4 \/ i = n + 5
      BY <3>1, <3>2
    <3>3. CASE i > 4 /\ i # n + 5
      <4>1. i - 4 \in 1 .. n /\ i = (i - 4) + 4
        BY <2>1, <3>1, <3>3
      <4>. QED BY <4>1
    <3>. QED BY <3>1, <3>2, <3>3
  <2>4. CASE i \in {1, 4}
    BY <2>2, <2>4 DEF c
  <2>5. CASE i \notin {1, 4}
    <3>1. c[i].op \notin AdjustKinds
      BY <2>2, <2>3, <2>5
    <3>. QED BY <2>5, <3>1 DEF c
  <2>. QED BY <2>4, <2>5
<1>2. ASSUME NEW b \in Blocks(f) PROVE 1 \in DOMAIN Code(f, b) /\ 4 \in DOMAIN Code(f, b)
  <2>1. PICK n \in Nat : DOMAIN Code(f, b) = 1 .. n + 5
    BY CodeFacts DEF IsCode
  <2>. QED BY <2>1
<1>3. ASSUME NEW at PROVE at \in Adjustments(f) <=> at \in Blocks(f) \X {1, 4}
  <2>1. ASSUME at \in Adjustments(f) PROVE at \in Blocks(f) \X {1, 4}
    <3>1. PICK b \in Blocks(f) : at \in {b} \X DOMAIN Code(f, b)
      BY <2>1 DEF Adjustments
    <3>2. Code(f, at[1])[at[2]].op \in AdjustKinds
      BY <2>1 DEF Adjustments
    <3>3. at = <<b, at[2]>> /\ at[1] = b /\ at[2] \in DOMAIN Code(f, b)
      BY <3>1
    <3>. QED BY <1>1, <3>2, <3>3
  <2>2. ASSUME at \in Blocks(f) \X {1, 4} PROVE at \in Adjustments(f)
    <3>1. PICK b \in Blocks(f), i \in {1, 4} : at = <<b, i>>
      BY <2>2
    <3>2. at[1] = b /\ at[2] = i /\ i \in DOMAIN Code(f, b)
      BY <1>2, <3>1
    <3>3. at \in {b} \X DOMAIN Code(f, b) /\ Code(f, at[1])[at[2]].op \in AdjustKinds
      BY <1>1, <3>1, <3>2
    <3>. QED BY <3>3 DEF Adjustments
  <2>. QED BY <2>1, <2>2
<1>4. EpilogueOf(f) = <<Final(f), 4>>
  <2>1. Final(f) \in Blocks(f) /\ Arity(f, Final(f)) = 0
    BY OrderFacts DEF Arity
  <2>2. Len(Code(f, Final(f))) = 0 + 5
    BY <2>1, CodeFacts DEF IsCode
  <2>. QED BY <2>2 DEF EpilogueOf
<1>. QED BY <1>1, <1>3, <1>4

----------------------------------------------------------------------------
(* The general registers of a set, in order: each once.                    *)
Selects(s, regs, k) ==
    /\ s \in Seq(Gp \cap regs) /\ Distinct(s)
    /\ \A i \in 1 .. Len(s) : \E j \in 1 .. k : s[i] = GpOrder[j]
    /\ \A j \in 1 .. k : GpOrder[j] \in regs => \E i \in 1 .. Len(s) : s[i] = GpOrder[j]

(* gp_regs() has each general register of a set exactly once, and no       *)
(* other.                                                                  *)
LEMMA GpRegsFacts ==
  ASSUME NEW regs
  PROVE  LET s == GpRegs(regs) IN
         /\ s \in Seq(Gp \cap regs) /\ Distinct(s)
         /\ \A r \in Gp \cap regs : \E i \in 1 .. Len(s) : s[i] = r
<1> DEFINE X == Seq(Gp \cap regs)
<1>1. PICK n \in Nat : n = Len(GpOrder) /\ DOMAIN GpOrder = 1 .. n /\ GpOrder \in Seq(Gp)
  BY FrameAssumption DEF ConventionAssumption
<1>2. \A i, j \in 1 .. n : GpOrder[i] = GpOrder[j] => i = j
  BY <1>1, FrameAssumption DEF ConventionAssumption, Distinct
<1> DEFINE next == [k \in 1 .. n |-> [x \in X |-> IF GpOrder[k] \in regs THEN Append(x, GpOrder[k]) ELSE x]]
<1>3. next \in [1 .. n -> [X -> X]]
  BY <1>1
<1>4. PICK g \in [0 .. n -> X] : Base!IsBuilt(g, n, <<>>, next)
  <2>1. <<>> \in X
    OBVIOUS
  <2> HIDE DEF X, next
  <2>. QED BY <1>1, <1>3, <2>1, Base!BuiltExists
<1> DEFINE Is(h) == h = [k \in 0 .. Len(GpOrder) |->
                           IF k = 0 THEN <<>>
                           ELSE IF GpOrder[k] \in regs THEN Append(h[k - 1], GpOrder[k]) ELSE h[k - 1]]
           f == CHOOSE h : Is(h)
<1>5. Is(g)
  <2>1. ASSUME NEW k \in 0 .. n
        PROVE  g[k] = IF k = 0 THEN <<>>
                      ELSE IF GpOrder[k] \in regs THEN Append(g[k - 1], GpOrder[k]) ELSE g[k - 1]
    <3>1. g[k] = IF k = 0 THEN <<>> ELSE next[k][g[k - 1]]
      BY <1>4 DEF Base!IsBuilt
    <3>2. k # 0 => k \in 1 .. n /\ g[k - 1] \in X
      <4>1. k # 0 => k \in 1 .. n /\ k - 1 \in 0 .. n
        BY <1>1
      <4>. QED BY <1>4, <4>1
    <3>3. k # 0 => next[k][g[k - 1]] =
                     IF GpOrder[k] \in regs THEN Append(g[k - 1], GpOrder[k]) ELSE g[k - 1]
      BY <3>2
    <3> HIDE DEF next, X
    <3>. QED BY <3>1, <3>3
  <2>. QED BY <1>1, <1>4, <2>1
<1>6. Is(f)
  BY <1>5
<1>7. GpRegs(regs) = f[n]
  BY <1>1 DEF GpRegs
<1> HIDE DEF f
<1>8. /\ f[0] = <<>>
      /\ \A k \in 1 .. n : f[k] = IF GpOrder[k] \in regs THEN Append(f[k - 1], GpOrder[k]) ELSE f[k - 1]
  <2>1. \A k \in 0 .. n : f[k] = IF k = 0 THEN <<>>
                               ELSE IF GpOrder[k] \in regs THEN Append(f[k - 1], GpOrder[k]) ELSE f[k - 1]
    BY <1>1, <1>6
  <2>2. \A k \in 1 .. n : k \in 0 .. n /\ k # 0
    BY <1>1
  <2>3. 0 \in 0 .. n
    BY <1>1
  <2>. QED BY <2>1, <2>2, <2>3
<1> DEFINE P == {k \in 0 .. n : Selects(f[k], regs, k)}
<1>9. 0 \in P
  <2>1. Selects(<<>>, regs, 0)
    BY DEF Selects, Distinct
  <2>. QED BY <1>1, <1>8, <2>1
<1>10. ASSUME NEW k \in 1 .. n, k - 1 \in P PROVE k \in P
  <2>0. Selects(f[k - 1], regs, k - 1)
    BY <1>10
  <2>1. PICK s \in X, m \in Nat : s = f[k - 1] /\ m = Len(s) /\ DOMAIN s = 1 .. m
    BY <2>0 DEF Selects
  <2>2. \A i, j \in 1 .. m : s[i] = s[j] => i = j
    BY <2>0, <2>1 DEF Selects, Distinct
  <2>3. \A i \in 1 .. m : \E j \in 1 .. k - 1 : s[i] = GpOrder[j]
    BY <2>0, <2>1 DEF Selects
  <2>4. \A j \in 1 .. k - 1 : GpOrder[j] \in regs => \E i \in 1 .. m : s[i] = GpOrder[j]
    BY <2>0, <2>1 DEF Selects
  <2>5. CASE GpOrder[k] \notin regs
    <3>1. f[k] = s
      BY <1>8, <2>1, <2>5
    <3>2. \A j \in 1 .. k : j \in 1 .. k - 1 \/ j = k
      BY <1>1
    <3>3. \A j \in 1 .. k - 1 : j \in 1 .. k
      BY <1>1
    <3>4. Selects(s, regs, k)
      <4>1. s \in Seq(Gp \cap regs) /\ Distinct(s)
        BY <2>0, <2>1 DEF Selects
      <4>2. \A i \in 1 .. m : \E j \in 1 .. k : s[i] = GpOrder[j]
        BY <2>3, <3>3
      <4>3. \A j \in 1 .. k : GpOrder[j] \in regs => \E i \in 1 .. m : s[i] = GpOrder[j]
        BY <2>4, <2>5, <3>2
      <4>. QED BY <2>1, <4>1, <4>2, <4>3 DEF Selects
    <3>. QED BY <3>1, <3>4
  <2>6. CASE GpOrder[k] \in regs
    <3>1. PICK r \in Gp \cap regs : r = GpOrder[k]
      BY <1>1, <2>6
    <3> DEFINE t == Append(s, r)
    <3>2. /\ t \in X /\ Len(t) = m + 1 /\ DOMAIN t = 1 .. m + 1
          /\ t[m + 1] = r /\ \A i \in 1 .. m : t[i] = s[i]
      BY <2>1
    <3>3. f[k] = t
      BY <1>8, <2>1, <2>6, <3>1
    <3> HIDE DEF t, X
    <3>4. \A i \in 1 .. m : s[i] # r
      BY <1>1, <1>2, <2>3, <3>1
    <3>5. Distinct(t)
      <4>1. ASSUME NEW i \in 1 .. m + 1, NEW j \in 1 .. m + 1, t[i] = t[j] PROVE i = j
        <5>1. \A h \in 1 .. m + 1 : h \in 1 .. m \/ h = m + 1
          BY <2>1
        <5>. QED BY <2>2, <3>2, <3>4, <4>1, <5>1
      <4>. QED BY <3>2, <4>1 DEF Distinct
    <3>6. ASSUME NEW i \in 1 .. m + 1 PROVE \E j \in 1 .. k : t[i] = GpOrder[j]
      <4>1. CASE i = m + 1
        <5>1. k \in 1 .. k
          BY <1>1
        <5>. QED BY <3>1, <3>2, <4>1, <5>1
      <4>2. CASE i # m + 1
        <5>1. i \in 1 .. m
          BY <2>1, <4>2
        <5>2. PICK j \in 1 .. k - 1 : s[i] = GpOrder[j]
          BY <2>3, <5>1
        <5>3. j \in 1 .. k
          BY <1>1
        <5>. QED BY <3>2, <5>1, <5>2, <5>3
      <4>. QED BY <4>1, <4>2
    <3>7. ASSUME NEW j \in 1 .. k, GpOrder[j] \in regs PROVE \E i \in 1 .. m + 1 : t[i] = GpOrder[j]
      <4>1. CASE j = k
        <5>1. m + 1 \in 1 .. m + 1
          BY <2>1
        <5>. QED BY <3>1, <3>2, <4>1, <5>1
      <4>2. CASE j # k
        <5>1. j \in 1 .. k - 1
          BY <1>1, <4>2
        <5>2. PICK i \in 1 .. m : s[i] = GpOrder[j]
          BY <2>4, <3>7, <5>1
        <5>3. i \in 1 .. m + 1
          BY <2>1
        <5>. QED BY <3>2, <5>2, <5>3
      <4>. QED BY <4>1, <4>2
    <3>8. Selects(t, regs, k)
      BY <3>2, <3>5, <3>6, <3>7 DEF Selects, X
    <3>. QED BY <3>3, <3>8
  <2>. QED BY <2>5, <2>6
<1>11. n \in P
  <2> HIDE DEF P
  <2>1. \A k \in 0 .. n : k \in P
    BY <1>1, <1>9, <1>10, Base!UpTo
  <2>. QED BY <1>1, <2>1
<1>12. Selects(f[n], regs, n)
  BY <1>11
<1>13. ASSUME NEW r \in Gp \cap regs PROVE \E i \in 1 .. Len(f[n]) : f[n][i] = r
  <2>1. PICK j \in 1 .. n : GpOrder[j] = r
    BY <1>1 DEF Gp, Range
  <2>. QED BY <1>12, <2>1 DEF Selects
<1>. QED BY <1>7, <1>12, <1>13 DEF Selects

(* It has as many entries as the set has general registers.                *)
LEMMA GpRegsCount ==
  ASSUME NEW regs, IsFiniteSet(regs)
  PROVE  /\ Len(GpRegs(regs)) = Cardinality(Gp \cap regs)
         /\ {r \in regs : IsXmm(r)} = regs \ Gp
         /\ Cardinality(regs \ Gp) \in Nat
         /\ Cardinality(regs) = Len(GpRegs(regs)) + Cardinality(regs \ Gp)
<1> DEFINE S == Gp \cap regs
<1>1. PICK s \in Seq(S), n \in Nat : /\ s = GpRegs(regs) /\ n = Len(s) /\ DOMAIN s = 1 .. n
                                     /\ Distinct(s) /\ \A r \in S : \E i \in 1 .. n : s[i] = r
  BY GpRegsFacts
<1> HIDE DEF S
<1>2. s \in Bijection(1 .. n, S)
  <2>1. s \in [1 .. n -> S]
    BY <1>1
  <2>2. \A i, j \in 1 .. n : s[i] = s[j] => i = j
    BY <1>1 DEF Distinct
  <2>. QED BY <1>1, <2>1, <2>2 DEF Bijection, Injection, Surjection, IsInjective
<1>3. ExistsBijection(1 .. n, S)
  BY <1>2 DEF ExistsBijection
<1>4. Cardinality(S) = n
  <2>1. IsFiniteSet(1 .. n) /\ Cardinality(1 .. n) = n
    BY FS_Interval
  <2>. QED BY <1>3, <2>1, FS_Bijection
<1>5. IsFiniteSet(regs \ Gp) /\ Cardinality(regs \ Gp) = Cardinality(regs) - Cardinality(regs \cap Gp)
  BY FS_Difference
<1>6. regs \cap Gp = S
  BY DEF S
<1>7. Cardinality(regs) \in Nat /\ Cardinality(regs \ Gp) \in Nat
  BY <1>5, FS_CardinalityType
<1>8. {r \in regs : IsXmm(r)} = regs \ Gp
  BY DEF IsXmm
<1>9. Cardinality(regs) = n + Cardinality(regs \ Gp)
  <2>1. PICK x, y \in Nat : x = Cardinality(regs) /\ y = Cardinality(regs \ Gp)
    BY <1>7
  <2>2. y = x - n
    BY <1>4, <1>5, <1>6, <2>1, Zenon
  <2>3. x = n + y
    BY <2>2
  <2>. QED BY <2>1, <2>3
<1>. QED BY <1>1, <1>4, <1>7, <1>8, <1>9 DEF S

----------------------------------------------------------------------------
(* What is emitted. A sequence with one more element, before or after it.  *)
LEMMA Around ==
  ASSUME NEW a, NEW S, a \in Seq(S), NEW x
  PROVE  /\ Len(<<x>> \o a) = Len(a) + 1 /\ (<<x>> \o a)[1] = x
         /\ \A j \in 1 .. Len(a) : (<<x>> \o a)[j + 1] = a[j]
         /\ Len(a \o <<x>>) = Len(a) + 1 /\ (a \o <<x>>)[Len(a) + 1] = x
         /\ \A j \in 1 .. Len(a) : (a \o <<x>>)[j] = a[j]
<1> DEFINE T == S \cup {x}
           b == <<x>> \o a
           c == a \o <<x>>
<1>1. PICK n \in Nat : n = Len(a)
  OBVIOUS
<1>2. a \in Seq(T) /\ <<x>> \in Seq(T) /\ Len(<<x>>) = 1 /\ <<x>>[1] = x
  OBVIOUS
<1> HIDE DEF T
<1>3. Len(b) = 1 + n /\ \A j \in 1 .. 1 + n : b[j] = IF j <= 1 THEN <<x>>[j] ELSE a[j - 1]
  BY <1>1, <1>2, Base!Concatenated
<1>4. Len(c) = n + 1 /\ \A j \in 1 .. n + 1 : c[j] = IF j <= n THEN a[j] ELSE <<x>>[j - n]
  BY <1>1, <1>2, Base!Concatenated
<1> HIDE DEF b, c
<1>5. b[1] = x /\ c[n + 1] = x /\ (n + 1) - n = 1
  BY <1>2, <1>3, <1>4
<1>6. ASSUME NEW j \in 1 .. n PROVE b[j + 1] = a[j] /\ c[j] = a[j]
  <2>1. j + 1 \in 1 .. 1 + n /\ ~(j + 1 <= 1) /\ (j + 1) - 1 = j /\ j \in 1 .. n + 1 /\ j <= n
    OBVIOUS
  <2>. QED BY <1>3, <1>4, <2>1
<1>. QED BY <1>1, <1>3, <1>4, <1>5, <1>6 DEF b, c

(* The instructions called name with an operand of X.                      *)
Forms(name, X) == {OnReg(name, x) : x \in X}

(* What Each makes of a sequence of registers.                             *)
LEMMA EachFacts ==
  ASSUME NEW name, NEW X, NEW s \in Seq(X)
  PROVE  /\ Each(name, s) \in Seq(Forms(name, X))
         /\ Len(Each(name, s)) = Len(s)
         /\ \A j \in 1 .. Len(s) : Each(name, s)[j] = OnReg(name, s[j])
<1> DEFINE o(j) == OnReg(name, s[j])
           Y == Forms(name, X)
<1>1. PICK n \in Nat : n = Len(s) /\ \A j \in 1 .. n : s[j] \in X
  OBVIOUS
<1>2. \A j \in 1 .. n : o(j) \in Y
  BY <1>1 DEF Forms
<1> HIDE DEF o, Y
<1>3. LET e == [j \in 1 .. n |-> o(j)] IN
      e \in Seq(Y) /\ Len(e) = n /\ \A j \in 1 .. n : e[j] = o(j)
  BY <1>1, <1>2
<1>4. Each(name, s) = [j \in 1 .. n |-> o(j)]
  BY <1>1 DEF Each, o
<1>. QED BY <1>1, <1>3, <1>4 DEF o, Y

(* What the library's Reverse does.                                        *)
LEMMA ReverseFacts ==
  ASSUME NEW X, NEW s \in Seq(X)
  PROVE  /\ Reverse(s) \in Seq(X)
         /\ Len(Reverse(s)) = Len(s)
         /\ \A j \in 1 .. Len(s) : Reverse(s)[j] = s[Len(s) + 1 - j]
<1>1. PICK n \in Nat : n = Len(s) /\ \A j \in 1 .. n : s[j] \in X
  OBVIOUS
<1>2. Reverse(s) = [j \in 1 .. n |-> s[(n - j) + 1]]
  BY <1>1 DEF Reverse
<1>3. \A j \in 1 .. n : (n - j) + 1 \in 1 .. n /\ (n - j) + 1 = n + 1 - j
  BY <1>1
<1>4. Reverse(s) \in Seq(X) /\ Len(Reverse(s)) = n
  BY <1>1, <1>2, <1>3
<1>5. \A j \in 1 .. n : Reverse(s)[j] = s[n + 1 - j]
  BY <1>2, <1>3
<1>. QED BY <1>1, <1>4, <1>5

(* The same for the reversed sequence.                                     *)
LEMMA EachReversed ==
  ASSUME NEW name, NEW X, NEW s \in Seq(X)
  PROVE  /\ Each(name, Reverse(s)) \in Seq(Forms(name, X))
         /\ Len(Each(name, Reverse(s))) = Len(s)
         /\ \A j \in 1 .. Len(s) : Each(name, Reverse(s))[j] = OnReg(name, s[Len(s) + 1 - j])
<1>1. PICK r \in Seq(X) : r = Reverse(s) /\ Len(r) = Len(s)
                          /\ \A j \in 1 .. Len(s) : r[j] = s[Len(s) + 1 - j]
  BY ReverseFacts
<1>2. /\ Each(name, r) \in Seq(Forms(name, X)) /\ Len(Each(name, r)) = Len(r)
      /\ \A j \in 1 .. Len(r) : Each(name, r)[j] = OnReg(name, r[j])
  BY EachFacts
<1>. QED BY <1>1, <1>2

(* What is emitted for the two adjustments of a call, by position.         *)
LEMMA AdjustCode ==
  ASSUME NEW a
  PROVE  LET s == GpRegs(a.regs)
             g == Len(s)
         IN
         /\ Len(DownStack(a)) = g + 1 /\ DownStack(a)[1] = Move("sub", AdjustSize(a))
         /\ \A j \in 1 .. g : DownStack(a)[j + 1] = OnReg("push", s[g + 1 - j])
         /\ Len(UpStack(a)) = g + 1 /\ UpStack(a)[g + 1] = Move("add", AdjustSize(a))
         /\ \A j \in 1 .. g : UpStack(a)[j] = OnReg("pop", s[j])
<1> DEFINE S == Gp \cap a.regs
<1>1. PICK s \in Seq(S) : s = GpRegs(a.regs)
  BY GpRegsFacts
<1> HIDE DEF S
<1>2. PICK push \in Seq(Forms("push", S)) :
        /\ push = Each("push", Reverse(s)) /\ Len(push) = Len(s)
        /\ \A j \in 1 .. Len(s) : push[j] = OnReg("push", s[Len(s) + 1 - j])
  <2>1. /\ Each("push", Reverse(s)) \in Seq(Forms("push", S))
        /\ Len(Each("push", Reverse(s))) = Len(s)
        /\ \A j \in 1 .. Len(s) : Each("push", Reverse(s))[j] = OnReg("push", s[Len(s) + 1 - j])
    BY EachReversed, Zenon
  <2>. QED BY <2>1, Zenon
<1>3. PICK pop \in Seq(Forms("pop", S)) :
        /\ pop = Each("pop", s) /\ Len(pop) = Len(s)
        /\ \A j \in 1 .. Len(s) : pop[j] = OnReg("pop", s[j])
  BY EachFacts, Zenon
<1>4. DownStack(a) = <<Move("sub", AdjustSize(a))>> \o push
  BY <1>1, <1>2 DEF DownStack
<1>5. UpStack(a) = pop \o <<Move("add", AdjustSize(a))>>
  BY <1>1, <1>3 DEF UpStack
<1>6. PICK m : m = Move("sub", AdjustSize(a))
  OBVIOUS
<1>7. PICK p : p = Move("add", AdjustSize(a))
  OBVIOUS
<1>8. /\ Len(<<m>> \o push) = Len(push) + 1 /\ (<<m>> \o push)[1] = m
      /\ \A j \in 1 .. Len(push) : (<<m>> \o push)[j + 1] = push[j]
  BY Around
<1>9. /\ Len(pop \o <<p>>) = Len(pop) + 1 /\ (pop \o <<p>>)[Len(pop) + 1] = p
      /\ \A j \in 1 .. Len(pop) : (pop \o <<p>>)[j] = pop[j]
  BY Around
<1>10. PICK g \in Nat : g = Len(s)
  OBVIOUS
<1>11. /\ Len(DownStack(a)) = g + 1 /\ DownStack(a)[1] = m
       /\ \A j \in 1 .. g : DownStack(a)[j + 1] = OnReg("push", s[g + 1 - j])
  BY <1>2, <1>4, <1>6, <1>8, <1>10
<1>12. /\ Len(UpStack(a)) = g + 1 /\ UpStack(a)[g + 1] = p
       /\ \A j \in 1 .. g : UpStack(a)[j] = OnReg("pop", s[j])
  BY <1>3, <1>5, <1>7, <1>9, <1>10
<1>. QED BY <1>1, <1>6, <1>7, <1>10, <1>11, <1>12

(* What is emitted for prologue and epilogue, by position.                 *)
LEMMA FrameCode ==
  ASSUME NEW a, NeedsFrame(a)
  PROVE  LET s == GpRegs(a.regs)
             g == Len(s)
         IN
         /\ Len(Prologue(a)) = g + 3 /\ Prologue(a)[1] = OnReg("push", "rbp")
         /\ Prologue(a)[2] = Op("frame") /\ Prologue(a)[3] = Move("sub", FrameSize(func))
         /\ \A j \in 1 .. g : Prologue(a)[j + 3] = OnReg("push", s[j])
         /\ Len(Epilogue(a)) = g + 1 /\ Epilogue(a)[g + 1] = Op("leave")
         /\ \A j \in 1 .. g : Epilogue(a)[j] = OnReg("pop", s[g + 1 - j])
<1> DEFINE S == Gp \cap a.regs
<1>1. PICK s \in Seq(S) : s = GpRegs(a.regs)
  BY GpRegsFacts
<1> HIDE DEF S
<1>2. PICK push \in Seq(Forms("push", S)) :
        /\ push = Each("push", s) /\ Len(push) = Len(s)
        /\ \A j \in 1 .. Len(s) : push[j] = OnReg("push", s[j])
  BY EachFacts, Zenon
<1>3. PICK pop \in Seq(Forms("pop", S)) :
        /\ pop = Each("pop", Reverse(s)) /\ Len(pop) = Len(s)
        /\ \A j \in 1 .. Len(s) : pop[j] = OnReg("pop", s[Len(s) + 1 - j])
  <2>1. /\ Each("pop", Reverse(s)) \in Seq(Forms("pop", S))
        /\ Len(Each("pop", Reverse(s))) = Len(s)
        /\ \A j \in 1 .. Len(s) : Each("pop", Reverse(s))[j] = OnReg("pop", s[Len(s) + 1 - j])
    BY EachReversed, Zenon
  <2>. QED BY <2>1, Zenon
<1>4. PICK x, y, z, l : /\ x = OnReg("push", "rbp") /\ y = Op("frame")
                        /\ z = Move("sub", FrameSize(func)) /\ l = Op("leave")
  OBVIOUS
<1>5. Prologue(a) = <<x, y, z>> \o push
  BY <1>1, <1>2, <1>4 DEF Prologue
<1>6. Epilogue(a) = pop \o <<l>>
  BY <1>1, <1>3, <1>4 DEF Epilogue
<1>7. /\ Len(pop \o <<l>>) = Len(pop) + 1 /\ (pop \o <<l>>)[Len(pop) + 1] = l
      /\ \A j \in 1 .. Len(pop) : (pop \o <<l>>)[j] = pop[j]
  BY Around
<1>8. PICK T : push \in Seq(T) /\ <<x, y, z>> \in Seq(T)
  <2> DEFINE T == {x, y, z} \cup Forms("push", S)
  <2>1. push \in Seq(T)
    BY <1>2
  <2>2. <<x, y, z>> \in Seq(T)
    OBVIOUS
  <2>. QED BY <2>1, <2>2
<1>9. PICK g \in Nat : g = Len(s)
  OBVIOUS
<1>10. /\ Len(<<x, y, z>> \o push) = 3 + g
       /\ \A j \in 1 .. 3 + g :
            (<<x, y, z>> \o push)[j] = IF j <= 3 THEN <<x, y, z>>[j] ELSE push[j - 3]
  <2>1. Len(<<x, y, z>>) = 3 /\ Len(push) = g
    BY <1>2, <1>9
  <2>. QED BY <1>8, <2>1, Base!Concatenated
<1>11. /\ Prologue(a)[1] = x /\ Prologue(a)[2] = y /\ Prologue(a)[3] = z
  <2>1. <<x, y, z>>[1] = x /\ <<x, y, z>>[2] = y /\ <<x, y, z>>[3] = z
    OBVIOUS
  <2>2. 1 \in 1 .. 3 + g /\ 2 \in 1 .. 3 + g /\ 3 \in 1 .. 3 + g
    OBVIOUS
  <2>. QED BY <1>5, <1>10, <2>1, <2>2
<1>12. ASSUME NEW j \in 1 .. g PROVE Prologue(a)[j + 3] = OnReg("push", s[j])
  <2>1. j + 3 \in 1 .. 3 + g /\ ~(j + 3 <= 3) /\ (j + 3) - 3 = j
    OBVIOUS
  <2>. QED BY <1>2, <1>5, <1>9, <1>10, <2>1
<1>13. Len(Prologue(a)) = g + 3
  BY <1>5, <1>10
<1>14. /\ Len(Epilogue(a)) = g + 1 /\ Epilogue(a)[g + 1] = l
       /\ \A j \in 1 .. g : Epilogue(a)[j] = OnReg("pop", s[g + 1 - j])
  BY <1>3, <1>6, <1>7, <1>9
<1>. QED BY <1>1, <1>4, <1>9, <1>11, <1>12, <1>13, <1>14

----------------------------------------------------------------------------
(* Alignment: sums of multiples of 8.                                      *)
LEMMA Wholes ==
  ASSUME NEW x \in Int, NEW y \in Int, x % 8 = 0, y % 8 = 0
  PROVE  (x + y) % 8 = 0
OBVIOUS

(* align_up() to 8.                                                        *)
LEMMA Aligned ==
  ASSUME NEW x \in Int
  PROVE  /\ AlignUp(x, 8) \in Int /\ AlignUp(x, 8) % 8 = 0
         /\ x <= AlignUp(x, 8) /\ AlignUp(x, 8) < x + 8
         /\ x % 8 = 0 => AlignUp(x, 8) = x
BY DEF AlignUp

(* Areas are sums, argument by argument.                                   *)
LEMMA SumsFacts ==
  ASSUME NEW n \in Nat, NEW d \in [1 .. n -> Nat]
  PROVE  /\ Sums(d) \in [0 .. n -> Nat] /\ Sums(d)[0] = 0
         /\ \A k \in 1 .. n : Sums(d)[k] = Sums(d)[k - 1] + d[k]
<1>1. Len(d) = n
  OBVIOUS
<1> DEFINE next == [k \in 1 .. n |-> [x \in Nat |-> x + d[k]]]
<1>2. next \in [1 .. n -> [Nat -> Nat]]
  OBVIOUS
<1>3. PICK g \in [0 .. n -> Nat] : Base!IsBuilt(g, n, 0, next)
  <2> HIDE DEF next
  <2>. QED BY <1>2, Base!BuiltExists
<1> DEFINE Is(h) == h = [k \in 0 .. Len(d) |-> IF k = 0 THEN 0 ELSE h[k - 1] + d[k]]
           f == CHOOSE h : Is(h)
<1>4. ASSUME NEW k \in 0 .. n PROVE g[k] = IF k = 0 THEN 0 ELSE g[k - 1] + d[k]
  <2>1. g[k] = IF k = 0 THEN 0 ELSE next[k][g[k - 1]]
    BY <1>3 DEF Base!IsBuilt
  <2>2. k # 0 => k \in 1 .. n /\ k - 1 \in 0 .. n
    OBVIOUS
  <2>3. k # 0 => next[k][g[k - 1]] = g[k - 1] + d[k]
    BY <1>3, <2>2
  <2> HIDE DEF next
  <2>. QED BY <2>1, <2>3
<1>5. Is(g)
  BY <1>1, <1>3, <1>4
<1>6. Is(f)
  BY <1>5
<1>7. Sums(d) = f
  BY DEF Sums
<1> HIDE DEF f
<1>8. \A k \in 0 .. n : f[k] = IF k = 0 THEN 0 ELSE f[k - 1] + d[k]
  BY <1>1, <1>6
<1>9. f = [k \in 0 .. n |-> f[k]]
  BY <1>1, <1>6
<1>10. \A k \in 0 .. n : f[k] \in Nat
  <2> DEFINE P == {k \in 0 .. n : f[k] \in Nat}
  <2>1. 0 \in P
    BY <1>8
  <2>2. ASSUME NEW k \in 1 .. n, k - 1 \in P PROVE k \in P
    <3>1. f[k] = f[k - 1] + d[k] /\ f[k - 1] \in Nat /\ d[k] \in Nat
      BY <1>8, <2>2
    <3>. QED BY <3>1
  <2> HIDE DEF P
  <2>3. \A k \in 0 .. n : k \in P
    BY <2>1, <2>2, Base!UpTo
  <2>. QED BY <2>3 DEF P
<1>11. f \in [0 .. n -> Nat]
  BY <1>9, <1>10
<1>12. f[0] = 0 /\ \A k \in 1 .. n : f[k] = f[k - 1] + d[k]
  BY <1>8
<1>. QED BY <1>7, <1>11, <1>12

(* Sums of natural numbers never decrease.                                 *)
LEMMA SumsRise ==
  ASSUME NEW n \in Nat, NEW d \in [1 .. n -> Nat], NEW k \in 0 .. n
  PROVE  \A j \in 0 .. k : Sums(d)[j] <= Sums(d)[k]
<1> DEFINE s == Sums(d)
           P == {m \in 0 .. n : \A j \in 0 .. m : s[j] <= s[m]}
<1>1. s \in [0 .. n -> Nat] /\ \A m \in 1 .. n : s[m] = s[m - 1] + d[m]
  BY SumsFacts
<1> HIDE DEF s
<1>2. 0 \in P
  BY <1>1
<1>3. ASSUME NEW m \in 1 .. n, m - 1 \in P PROVE m \in P
  <2>1. s[m] = s[m - 1] + d[m] /\ s[m - 1] \in Nat /\ d[m] \in Nat /\ s[m] \in Nat
    BY <1>1, <1>3
  <2>2. ASSUME NEW j \in 0 .. m PROVE s[j] <= s[m]
    <3>1. CASE j = m
      BY <2>1, <3>1
    <3>2. CASE j # m
      <4>1. j \in 0 .. m - 1 /\ s[j] \in Nat
        BY <1>1, <3>2
      <4>2. s[j] <= s[m - 1]
        BY <1>3, <4>1
      <4>. QED BY <2>1, <4>1, <4>2
    <3>. QED BY <3>1, <3>2
  <2>. QED BY <2>2
<1> HIDE DEF P
<1>4. \A m \in 0 .. n : m \in P
  BY <1>2, <1>3, Base!UpTo
<1>. QED BY <1>4 DEF P, s

(* Sums of multiples of 8 are multiples of 8.                              *)
LEMMA SumsWhole ==
  ASSUME NEW n \in Nat, NEW d \in [1 .. n -> Nat], \A k \in 1 .. n : d[k] % 8 = 0
  PROVE  \A k \in 0 .. n : Sums(d)[k] % 8 = 0
<1> DEFINE s == Sums(d)
           P == {m \in 0 .. n : s[m] % 8 = 0}
<1>1. s \in [0 .. n -> Nat] /\ s[0] = 0 /\ \A m \in 1 .. n : s[m] = s[m - 1] + d[m]
  BY SumsFacts
<1> HIDE DEF s
<1>2. 0 \in P
  BY <1>1
<1>3. ASSUME NEW m \in 1 .. n, m - 1 \in P PROVE m \in P
  <2>1. PICK x, y \in Nat : x = s[m - 1] /\ y = d[m] /\ x % 8 = 0 /\ y % 8 = 0 /\ s[m] = x + y
    BY <1>1, <1>3
  <2>2. (x + y) % 8 = 0
    <3>1. x \in Int /\ y \in Int
      OBVIOUS
    <3>. QED BY <2>1, <3>1, Wholes, Zenon
  <2>. QED BY <2>1, <2>2
<1> HIDE DEF P
<1>4. \A m \in 0 .. n : m \in P
  BY <1>2, <1>3, Base!UpTo
<1>. QED BY <1>4 DEF P, s

(* The registers that arguments take, argument by argument.                *)
LEMMA TakenFacts ==
  ASSUME NEW args \in Seq(Arguments), NEW classes
  PROVE  LET t == Taken(args, classes) IN
         /\ t \in [0 .. Len(args) -> Nat] /\ t[0] = 0
         /\ \A k \in 1 .. Len(args) :
              t[k] = IF args[k].class \in classes /\ t[k - 1] < Len(ArgumentRegisters(args[k].class))
                     THEN t[k - 1] + 1 ELSE t[k - 1]
<1> DEFINE may(k, x) == args[k].class \in classes /\ x < Len(ArgumentRegisters(args[k].class))
<1>1. PICK n \in Nat : n = Len(args)
  OBVIOUS
<1> HIDE DEF may
<1> DEFINE next == [k \in 1 .. n |-> [x \in Nat |-> IF may(k, x) THEN x + 1 ELSE x]]
<1>2. next \in [1 .. n -> [Nat -> Nat]]
  OBVIOUS
<1>3. PICK g \in [0 .. n -> Nat] : Base!IsBuilt(g, n, 0, next)
  <2> HIDE DEF next
  <2>. QED BY <1>2, Base!BuiltExists
<1> DEFINE Is(h) == h = [k \in 0 .. n |-> IF k = 0 THEN 0
                                         ELSE IF may(k, h[k - 1]) THEN h[k - 1] + 1 ELSE h[k - 1]]
           f == CHOOSE h : Is(h)
<1>4. ASSUME NEW k \in 0 .. n
      PROVE  g[k] = IF k = 0 THEN 0 ELSE IF may(k, g[k - 1]) THEN g[k - 1] + 1 ELSE g[k - 1]
  <2>1. g[k] = IF k = 0 THEN 0 ELSE next[k][g[k - 1]]
    BY <1>3 DEF Base!IsBuilt
  <2>2. k # 0 => k \in 1 .. n /\ k - 1 \in 0 .. n
    OBVIOUS
  <2>3. k # 0 => next[k][g[k - 1]] = IF may(k, g[k - 1]) THEN g[k - 1] + 1 ELSE g[k - 1]
    BY <1>3, <2>2
  <2> HIDE DEF next
  <2>. QED BY <2>1, <2>3
<1>5. Is(g)
  BY <1>3, <1>4
<1>6. Is(f)
  BY <1>5
<1>7. Taken(args, classes) = f
  BY <1>1 DEF Taken, may
<1> HIDE DEF f
<1>8. \A k \in 0 .. n : f[k] = IF k = 0 THEN 0 ELSE IF may(k, f[k - 1]) THEN f[k - 1] + 1 ELSE f[k - 1]
  BY <1>6
<1>9. f = [k \in 0 .. n |-> f[k]]
  BY <1>6
<1>10. \A k \in 0 .. n : f[k] \in Nat
  <2> DEFINE P == {k \in 0 .. n : f[k] \in Nat}
  <2>1. 0 \in P
    BY <1>8
  <2>2. ASSUME NEW k \in 1 .. n, k - 1 \in P PROVE k \in P
    <3>1. f[k] = (IF may(k, f[k - 1]) THEN f[k - 1] + 1 ELSE f[k - 1]) /\ f[k - 1] \in Nat
      BY <1>8, <2>2
    <3>. QED BY <3>1
  <2> HIDE DEF P
  <2>3. \A k \in 0 .. n : k \in P
    BY <2>1, <2>2, Base!UpTo
  <2>. QED BY <2>3 DEF P
<1>11. f \in [0 .. n -> Nat]
  BY <1>9, <1>10
<1>12. f[0] = 0 /\ \A k \in 1 .. n : f[k] = IF may(k, f[k - 1]) THEN f[k - 1] + 1 ELSE f[k - 1]
  BY <1>8
<1>. QED BY <1>1, <1>7, <1>11, <1>12 DEF may

(* What a call passes on the stack, and what is recorded for it.           *)
LEMMA ArgumentFacts ==
  ASSUME NEW args \in Seq(Arguments), NEW k \in 1 .. Len(args)
  PROVE  /\ args[k].class \in {"GP", "FP", "MEM"} /\ args[k].size \in Nat \ {0}
         /\ args[k].class = "MEM" \/ args[k].size <= 8
         /\ AlignUp(args[k].size, 8) \in Nat /\ AlignUp(args[k].size, 8) >= 8
         /\ AlignUp(args[k].size, 8) % 8 = 0
         /\ args[k].class # "MEM" => AlignUp(args[k].size, 8) = 8
<1>1. args[k] \in Arguments
  OBVIOUS
<1>2. PICK x \in Nat \ {0}, c \in {"GP", "FP", "MEM"} :
        x = args[k].size /\ c = args[k].class /\ (c = "MEM" \/ x <= 8)
  BY <1>1 DEF Arguments
<1>3. AlignUp(x, 8) \in Nat /\ AlignUp(x, 8) >= 8 /\ AlignUp(x, 8) % 8 = 0
      /\ (x <= 8 => AlignUp(x, 8) = 8)
  BY DEF AlignUp
<1>. QED BY <1>2, <1>3

(* The caller's area on the stack, argument by argument.                   *)
LEMMA CallerAreaFacts ==
  ASSUME NEW args \in Seq(Arguments)
  PROVE  LET n == Len(args)
             area == CallerArea(args)
         IN
         /\ area \in [0 .. n -> Nat] /\ area[0] = 0 /\ StackArea(args) \in Nat
         /\ \A k \in 0 .. n : area[k] % 8 = 0 /\ area[k] <= StackArea(args)
         /\ \A k \in 1 .. n :
              area[k] = IF InRegister(args, {args[k].class}, k) THEN area[k - 1]
                        ELSE area[k - 1] + AlignUp(args[k].size, 8)
<1>1. PICK n \in Nat : n = Len(args)
  OBVIOUS
<1> DEFINE in(k) == InRegister(args, {args[k].class}, k)
           size(k) == AlignUp(args[k].size, 8)
           d == [k \in 1 .. n |-> IF in(k) THEN 0 ELSE size(k)]
<1>2. \A k \in 1 .. n : size(k) \in Nat /\ size(k) % 8 = 0
  BY <1>1, ArgumentFacts
<1>3. CallerArea(args) = Sums(d) /\ StackArea(args) = Sums(d)[n]
  BY <1>1 DEF CallerArea, StackArea
<1> HIDE DEF in, size
<1>4. d \in [1 .. n -> Nat] /\ \A k \in 1 .. n : d[k] % 8 = 0
  BY <1>2
<1>5. \A k \in 1 .. n : d[k] = IF in(k) THEN 0 ELSE size(k)
  OBVIOUS
<1> HIDE DEF d
<1>6. PICK s \in [0 .. n -> Nat] : /\ s = Sums(d) /\ s[0] = 0
                                   /\ \A k \in 1 .. n : s[k] = s[k - 1] + d[k]
  BY <1>4, SumsFacts
<1>7. n \in 0 .. n
  OBVIOUS
<1>8. \A k \in 0 .. n : s[k] <= s[n]
  BY <1>4, <1>6, <1>7, SumsRise
<1>9. \A k \in 0 .. n : s[k] % 8 = 0
  BY <1>4, <1>6, SumsWhole
<1>10. ASSUME NEW k \in 1 .. n PROVE s[k] = IF in(k) THEN s[k - 1] ELSE s[k - 1] + size(k)
  <2>1. k - 1 \in 0 .. n
    OBVIOUS
  <2>. QED BY <1>2, <1>5, <1>6, <2>1
<1>. QED BY <1>1, <1>3, <1>6, <1>7, <1>8, <1>9, <1>10 DEF in, size

(* The area a call is recorded to need: a number, and of whole words if    *)
(* its by-value arguments are.                                             *)
LEMMA OverflowFacts ==
  ASSUME NEW args \in Seq(Arguments)
  PROVE  /\ OverflowArea(args) \in Nat
         /\ (\A k \in 1 .. Len(args) : args[k].class = "MEM" => args[k].size % 8 = 0)
              => OverflowArea(args) % 8 = 0
<1>1. PICK n \in Nat : n = Len(args)
  OBVIOUS
<1> DEFINE d == [k \in 1 .. n |-> IF args[k].class = "MEM" THEN args[k].size
                                 ELSE IF k > Len(GpArguments) THEN 8 ELSE 0]
<1>2. \A k \in 1 .. n : args[k].size \in Nat
  BY <1>1, ArgumentFacts
<1>3. OverflowArea(args) = Sums(d)[n]
  BY <1>1 DEF OverflowArea
<1>4. d \in [1 .. n -> Nat]
  BY <1>2
<1>5. n \in 0 .. n
  OBVIOUS
<1>6. Sums(d) \in [0 .. n -> Nat]
  <2> HIDE DEF d
  <2>. QED BY <1>4, SumsFacts
<1>7. ASSUME \A k \in 1 .. n : args[k].class = "MEM" => args[k].size % 8 = 0
      PROVE  Sums(d)[n] % 8 = 0
  <2>1. \A k \in 1 .. n : d[k] % 8 = 0
    BY <1>7
  <2> HIDE DEF d
  <2>. QED BY <1>4, <1>5, <2>1, SumsWhole
<1> HIDE DEF d
<1>. QED BY <1>1, <1>3, <1>5, <1>6, <1>7

(* An argument is passed in a caller-saved register or in the caller's     *)
(* area, below what the call needs.                                        *)
LEMMA PlaceFacts ==
  ASSUME NEW args \in Seq(Arguments), NEW k \in 1 .. Len(args)
  PROVE  LET to == CallerPlace(args, k) IN
         IF InRegister(args, {args[k].class}, k)
         THEN to.base \in CallerSaved /\ to.base # "rsp"
         ELSE /\ to = [base |-> "rsp", offset |-> CallerArea(args)[k - 1]]
              /\ CallerArea(args)[k - 1] \in Nat
              /\ CallerArea(args)[k - 1] + AlignUp(args[k].size, 8) <= StackArea(args)
<1>1. PICK n \in Nat : n = Len(args) /\ k - 1 \in 0 .. n /\ k \in 0 .. n
  OBVIOUS
<1>2. CASE InRegister(args, {args[k].class}, k)
  <2>1. PICK t \in Nat : t = Taken(args, {args[k].class})[k - 1]
    BY <1>1, TakenFacts
  <2>2. PICK s \in Seq(CallerSaved) : s = ArgumentRegisters(args[k].class)
    <3>1. GpArguments \in Seq(CallerSaved)
      <4>1. GpArguments \in Seq(Gp \cap CallerSaved)
        BY FrameAssumption DEF ConventionAssumption
      <4>. QED BY <4>1
    <3>2. XmmArguments \in Seq(CallerSaved)
      <4>1. XmmArguments \in Seq(CallerSaved \ Gp)
        BY FrameAssumption DEF ConventionAssumption
      <4>. QED BY <4>1
    <3>3. <<>> \in Seq(CallerSaved)
      OBVIOUS
    <3>4. args[k].class \in {"GP", "FP", "MEM"}
      BY ArgumentFacts
    <3>. QED BY <3>1, <3>2, <3>3, <3>4 DEF ArgumentRegisters
  <2>3. t < Len(s)
    BY <1>2, <2>1, <2>2 DEF InRegister
  <2>4. s[t + 1] \in CallerSaved
    BY <2>3
  <2>5. CallerPlace(args, k).base = s[t + 1]
    BY <1>2, <2>1, <2>2 DEF CallerPlace, NextRegister
  <2>6. "rsp" \notin CallerSaved
    BY FrameAssumption DEF ConventionAssumption
  <2>. QED BY <1>2, <2>4, <2>5, <2>6
<1>3. CASE ~InRegister(args, {args[k].class}, k)
  <2>1. PICK area \in [0 .. n -> Nat] :
          /\ area = CallerArea(args) /\ area[k] <= StackArea(args)
          /\ area[k] = area[k - 1] + AlignUp(args[k].size, 8)
    BY <1>1, <1>3, CallerAreaFacts
  <2>2. CallerPlace(args, k) = [base |-> "rsp", offset |-> area[k - 1]]
    BY <1>3, <2>1 DEF CallerPlace
  <2>3. area[k - 1] \in Nat
    BY <1>1
  <2>4. area[k - 1] + AlignUp(args[k].size, 8) <= StackArea(args)
    BY <2>1
  <2>. QED BY <1>3, <2>1, <2>2, <2>3, <2>4
<1>. QED BY <1>2, <1>3

----------------------------------------------------------------------------
(* The registers of values that live over a call.                          *)

(* There are finitely many general registers.                              *)
LEMMA GpFinite == IsFiniteSet(Gp)
<1>1. PICK n \in Nat : n = Len(GpOrder) /\ DOMAIN GpOrder = 1 .. n /\ GpOrder \in Seq(Gp)
  BY FrameAssumption DEF ConventionAssumption
<1>2. GpOrder \in Surjection(1 .. n, Gp)
  <2>1. GpOrder \in [1 .. n -> Gp]
    BY <1>1
  <2>2. \A r \in Gp : \E i \in 1 .. n : GpOrder[i] = r
    BY <1>1 DEF Gp, Range
  <2>. QED BY <2>1, <2>2 DEF Surjection
<1>3. IsFiniteSet(1 .. n)
  BY FS_Interval
<1>. QED BY <1>2, <1>3, FS_Surjection

(* What is assumed of the convention.                                      *)
LEMMA ConventionFacts ==
  /\ \A n \in 0 .. 2 : Results(n) \subseteq CallerSaved /\ Results(n) \subseteq Gp
  /\ "rsp" \notin CallerSaved /\ "rbp" \notin CallerSaved /\ "rbp" \in CalleeSaved
  /\ "rsp" \notin CalleeSaved /\ CalleeSaved \cap CallerSaved = {} /\ CalleeSaved \subseteq Gp
  /\ {"rax", "rdx", "rsp", "rbp"} \subseteq Gp /\ "xmm0" \notin Gp /\ "xmm1" \notin Gp
  /\ IsFiniteSet(CallerSaved) /\ CallerSaved \subseteq Registers /\ Gp \subseteq Registers
<1>1. ConventionAssumption
  BY FrameAssumption
<1>2. ASSUME NEW n \in 0 .. 2, NEW r \in Results(n) PROVE r \in {"rax", "rdx"}
  <2>1. PICK i \in 1 .. n : r = <<"rax", "rdx">>[i]
    BY DEF Results
  <2>2. i = 1 \/ i = 2
    OBVIOUS
  <2>. QED BY <2>1, <2>2
<1>3. \A n \in 0 .. 2 : Results(n) \subseteq {"rax", "rdx"}
  BY <1>2
<1>. QED BY <1>1, <1>3 DEF ConventionAssumption, Registers

(* What is assumed of the registers the allocator used and of the slots.   *)
LEMMA SavedFacts ==
  ASSUME NEW f \in Functions
  PROVE  /\ f.saved \subseteq CalleeSaved \ {"rbp"} /\ f.saved \subseteq Gp
         /\ IsFiniteSet(f.saved) /\ f.saved \subseteq Registers
         /\ f.local \in Nat
<1>1. f.saved \subseteq CalleeSaved \ {"rbp"} /\ f.local \in Nat
  BY FrameAssumption DEF FunctionAssumption
<1>2. f.saved \in SUBSET Gp /\ f.saved \subseteq Registers
  BY <1>1, ConventionFacts
<1>3. IsFiniteSet(f.saved)
  BY <1>2, GpFinite, FS_Subset
<1>. QED BY <1>1, <1>2, <1>3

(* The call of b adds to its adjustments: no value to keep over it is in a *)
(* callee-saved register.                                                  *)
Reserved(f, b) == KeptOver(f, b) \subseteq CallerSaved

(* What is assumed of a call, and what is kept over it.                    *)
LEMMA CallFacts ==
  ASSUME NEW f \in Functions, NEW b \in Calling(f)
  PROVE  /\ f.calls[b].args \in Seq(Arguments) /\ f.calls[b].returns \in 0 .. 2
         /\ f.lives[b] \subseteq CallerSaved \cup f.saved
         /\ KeptOver(f, b) \subseteq f.lives[b] /\ LiveOver(f, b) \subseteq f.lives[b]
         /\ ~Reserved(f, b) => LiveOver(f, b) \cap CalleeSaved # {}
         /\ AreaOf(f, b) \in Nat
         /\ WholeWords(f) => AreaOf(f, b) % 8 = 0
<1>1. /\ f.calls[b].args \in Seq(Arguments) /\ f.calls[b].returns \in 0 .. 2
      /\ f.lives[b] \subseteq CallerSaved \cup f.saved
      /\ f.saved \subseteq CalleeSaved
  BY FrameAssumption DEF FunctionAssumption, Calling
<1>3. KeptOver(f, b) \subseteq f.lives[b] /\ LiveOver(f, b) \subseteq f.lives[b]
  BY DEF KeptOver, Kept, LiveOver
<1>4. ASSUME ~Reserved(f, b) PROVE LiveOver(f, b) \cap CalleeSaved # {}
  <2>1. PICK r \in KeptOver(f, b) : r \notin CallerSaved
    BY <1>4 DEF Reserved
  <2>2. r \in f.lives[b] /\ r \in CalleeSaved
    BY <1>1, <1>3, <2>1
  <2>3. r \notin Results(f.calls[b].returns)
    BY <1>1, <2>1, ConventionFacts
  <2>. QED BY <2>2, <2>3 DEF LiveOver
<1>5. AreaOf(f, b) \in Nat
  BY <1>1, OverflowFacts DEF AreaOf
<1>6. ASSUME WholeWords(f) PROVE AreaOf(f, b) % 8 = 0
  <2>1. PICK args \in Seq(Arguments) : args = f.calls[b].args
    BY <1>1
  <2>2. \A k \in 1 .. Len(args) : args[k].class = "MEM" => args[k].size % 8 = 0
    BY <1>6, <2>1 DEF WholeWords
  <2>3. OverflowArea(args) % 8 = 0
    BY <2>2, OverflowFacts
  <2>. QED BY <2>1, <2>3 DEF AreaOf
<1>. QED BY <1>1, <1>3, <1>4, <1>5, <1>6

----------------------------------------------------------------------------
(* The adjustments the pass has visited.                                   *)
Places(f) == Blocks(f) \X {1, 4}

(* Those behind the pass when it is at p.                                  *)
Visited(f, ph, p) == {at \in Places(f) : ph # "callinfo" \/ Before(at, p)}

(* The two adjustments of a call are neither the prologue nor the          *)
(* epilogue, and belong to no other call.                                  *)
LEMMA AroundCall ==
  ASSUME NEW f \in Functions, NEW b \in Calling(f)
  PROVE  /\ Down(b) \in Places(f) /\ Up(f, b) \in Places(f) /\ Down(b) # Up(f, b)
         /\ Down(b) \notin {PrologueOf(f), EpilogueOf(f)} /\ Up(f, b) \notin {PrologueOf(f), EpilogueOf(f)}
         /\ {SeenFirst(f, b), SeenLast(f, b)} = {Down(b), Up(f, b)}
         /\ SeenFirst(f, b) # SeenLast(f, b)
         /\ Before(SeenFirst(f, b), SeenLast(f, b))
         /\ \A c \in Calling(f) : /\ Down(b) # Up(f, c)
                                  /\ Down(b) = Down(c) \/ Up(f, b) = Up(f, c) => b = c
<1>1. /\ Following(f, b) \in Blocks(f) \ {First(f)} /\ Following(f, b) # b
      /\ b \in Blocks(f) /\ b # Final(f) /\ Blocks(f) \subseteq Nat
  BY OrderFacts DEF Calling
<1>2. PICK d \in Blocks(f) : d = Following(f, b) /\ d # First(f) /\ d # b
  BY <1>1
<1>3. Down(b) = <<b, 4>> /\ Up(f, b) = <<d, 1>>
  BY <1>2 DEF Down, Up
<1>4. PrologueOf(f) = <<First(f), 1>> /\ EpilogueOf(f) = <<Final(f), 4>>
  BY AdjustmentsAre DEF PrologueOf
<1>5. <<b, 4>> # <<d, 1>> /\ <<b, 4>> # <<First(f), 1>> /\ <<b, 4>> # <<Final(f), 4>>
      /\ <<d, 1>> # <<First(f), 1>> /\ <<d, 1>> # <<Final(f), 4>>
  BY <1>1, <1>2
<1>6. <<b, 4>> \in Places(f) /\ <<d, 1>> \in Places(f)
  BY <1>1 DEF Places
<1>7. Before(<<b, 4>>, <<d, 1>>) \/ Before(<<d, 1>>, <<b, 4>>)
  BY <1>1, <1>2 DEF Before
<1>8. \A c \in Calling(f) : Following(f, b) = Following(f, c) => b = c
  BY OrderFacts
<1>9. \A c \in Calling(f) : /\ Down(b) # Up(f, c)
                            /\ Down(b) = Down(c) \/ Up(f, b) = Up(f, c) => b = c
  BY <1>8 DEF Down, Up
<1>. QED BY <1>3, <1>4, <1>5, <1>6, <1>7, <1>9 DEF SeenFirst, SeenLast

(* A step of the pass visits the place it is at and nothing else.          *)
LEMMA VisitedGrows ==
  ASSUME NEW f \in Functions, NEW p \in Blocks(f) \X Nat, NEW n \in Nat, n >= 5, p[2] \in 1 .. n,
         NEW q, q = IF p[2] < n THEN <<p[1], p[2] + 1>> ELSE <<p[1] + 1, 1>>
  PROVE  /\ p \notin Visited(f, "callinfo", p)
         /\ \A at \in Places(f) : at \in Visited(f, "callinfo", q) <=>
                                 at \in Visited(f, "callinfo", p) \/ at = p
<1>1. PICK b \in Blocks(f), i \in 1 .. n : p = <<b, i>>
  OBVIOUS
<1>2. Blocks(f) \subseteq Nat
  BY OrderFacts
<1>3. ~Before(p, p)
  BY <1>1, <1>2 DEF Before
<1>4. ASSUME NEW c \in Blocks(f), NEW j \in {1, 4}
      PROVE  Before(<<c, j>>, q) <=> Before(<<c, j>>, p) \/ <<c, j>> = p
  <2>1. b \in Nat /\ c \in Nat
    BY <1>2
  <2>2. CASE i < n
    <3>1. q = <<b, i + 1>>
      BY <1>1, <2>2
    <3>. QED BY <1>1, <2>1, <3>1 DEF Before
  <2>3. CASE ~(i < n)
    <3>1. q = <<b + 1, 1>>
      BY <1>1, <2>3
    <3>. QED BY <1>1, <2>1, <2>3, <3>1 DEF Before
  <2>. QED BY <2>2, <2>3
<1>5. ASSUME NEW at \in Places(f) PROVE Before(at, q) <=> Before(at, p) \/ at = p
  <2>1. PICK c \in Blocks(f), j \in {1, 4} : at = <<c, j>>
    BY DEF Places
  <2>. QED BY <1>4, <2>1
<1>. QED BY <1>3, <1>5 DEF Visited

(* What the pass has recorded when it has visited some adjustments: for    *)
(* the two of a call the same registers, and the same area unless the call *)
(* has been outgrown.                                                      *)
Adjusts(f) == [Places(f) -> [regs : SUBSET Registers, overflow : Nat]]

(* Prologue and epilogue save the registers the allocator used and reserve *)
(* alike.                                                                  *)
InfoFrame(f, adj) ==
    /\ adj[PrologueOf(f)].regs = f.saved /\ adj[EpilogueOf(f)].regs = f.saved
    /\ adj[PrologueOf(f)].overflow = adj[EpilogueOf(f)].overflow

(* What the adjustments of a call hold, once visited: the kept registers,  *)
(* and at least the call's area; the two differ only if the call has been  *)
(* outgrown.                                                               *)
InfoCall(f, adj, most, seen, b) ==
    /\ \A at \in {Down(b), Up(f, b)} :
         IF Reserved(f, b) /\ at \in seen
         THEN /\ adj[at].regs = KeptOver(f, b)
              /\ AreaOf(f, b) <= adj[at].overflow /\ adj[at].overflow <= most
         ELSE adj[at] = [regs |-> {}, overflow |-> 0]
    /\ Reserved(f, b) /\ SeenFirst(f, b) \in seen =>
         \/ most = adj[SeenFirst(f, b)].overflow
         \/ \E c \in Calling(f) :
              /\ AreaOf(f, c) > adj[SeenFirst(f, b)].overflow
              /\ Before(SeenFirst(f, b), SeenFirst(f, c)) /\ SeenFirst(f, c) \in seen
    /\ Reserved(f, b) /\ SeenLast(f, b) \in seen =>
         adj[SeenFirst(f, b)].overflow = adj[SeenLast(f, b)].overflow \/ Outgrown(f, b)

(* All areas are whole words if the arguments by value are.                *)
InfoWhole(f, adj, most) ==
    WholeWords(f) => most % 8 = 0 /\ \A at \in Places(f) : adj[at].overflow % 8 = 0

(* What holds of all adjustments; most is the largest area so far.         *)
Info(f, adj, most, seen) ==
    /\ adj \in Adjusts(f) /\ most \in Nat
    /\ InfoFrame(f, adj)
    /\ \A b \in Calling(f) : InfoCall(f, adj, most, seen, b)
    /\ InfoWhole(f, adj, most)

(* It holds before the pass.                                               *)
LEMMA InfoStarts ==
  ASSUME NEW f \in Functions, NEW adj,
         adj = [at \in Adjustments(f) |->
                  [regs |-> IF at \in {PrologueOf(f), EpilogueOf(f)} THEN f.saved ELSE {},
                   overflow |-> 0]]
  PROVE  Info(f, adj, 0, {})
<1>1. adj = [at \in Places(f) |->
               [regs |-> IF at \in {PrologueOf(f), EpilogueOf(f)} THEN f.saved ELSE {},
                overflow |-> 0]]
  BY AdjustmentsAre DEF Places
<1>2. adj \in Adjusts(f)
  BY <1>1, SavedFacts DEF Adjusts
<1>3. PrologueOf(f) \in Places(f) /\ EpilogueOf(f) \in Places(f)
  BY OrderFacts, AdjustmentsAre DEF PrologueOf, Places
<1>4. InfoFrame(f, adj)
  BY <1>1, <1>3 DEF InfoFrame
<1>5. ASSUME NEW b \in Calling(f) PROVE InfoCall(f, adj, 0, {}, b)
  <2>1. \A at \in {Down(b), Up(f, b)} : at \in Places(f) /\ at \notin {PrologueOf(f), EpilogueOf(f)}
    BY AroundCall
  <2>2. \A at \in {Down(b), Up(f, b)} : adj[at] = [regs |-> {}, overflow |-> 0]
    BY <1>1, <2>1
  <2>. QED BY <2>2 DEF InfoCall
<1>6. InfoWhole(f, adj, 0)
  BY <1>1 DEF InfoWhole
<1>. QED BY <1>2, <1>4, <1>5, <1>6 DEF Info

(* A visit to one of the two adjustments of the call of d.                 *)
LEMMA InfoVisits ==
  ASSUME NEW f \in Functions, NEW adj, NEW most, NEW seen, Info(f, adj, most, seen),
         NEW d \in Calling(f), NEW at \in {Down(d), Up(f, d)}, at \notin seen,
         \A q \in Places(f) : q \in seen <=> Before(q, at),
         Reserved(f, d),
         NEW area, area = IF AreaOf(f, d) > most THEN AreaOf(f, d) ELSE most,
         NEW new, new = [adj EXCEPT ![at] = [regs |-> KeptOver(f, d), overflow |-> @.overflow + area]]
  PROVE  Info(f, new, area, seen \cup {at})
<1>1. /\ adj \in Adjusts(f) /\ most \in Nat /\ InfoFrame(f, adj) /\ InfoWhole(f, adj, most)
      /\ \A b \in Calling(f) : InfoCall(f, adj, most, seen, b)
  BY DEF Info
<1>2. at \in Places(f) /\ at \notin {PrologueOf(f), EpilogueOf(f)}
  BY AroundCall
<1>3. AreaOf(f, d) \in Nat /\ area \in Nat /\ most <= area /\ AreaOf(f, d) <= area
  BY <1>1, CallFacts
<1>4. adj[at].overflow = 0
  BY <1>1 DEF InfoCall
<1>5. /\ new[at] = [regs |-> KeptOver(f, d), overflow |-> area]
      /\ \A q \in Places(f) : q # at => new[q] = adj[q]
      /\ DOMAIN new = Places(f)
  BY <1>1, <1>2, <1>3, <1>4 DEF Adjusts
<1>6. new \in Adjusts(f)
  <2>1. KeptOver(f, d) \subseteq Registers
    BY ConventionFacts DEF Reserved
  <2>2. new[at] \in [regs : SUBSET Registers, overflow : Nat]
    BY <1>3, <1>5, <2>1
  <2>3. \A q \in Places(f) : new[q] \in [regs : SUBSET Registers, overflow : Nat]
    BY <1>1, <1>5, <2>2 DEF Adjusts
  <2>. QED BY <1>1, <1>5, <2>3 DEF Adjusts
<1>7. InfoFrame(f, new)
  <2>1. PrologueOf(f) \in Places(f) /\ EpilogueOf(f) \in Places(f)
    BY OrderFacts, AdjustmentsAre DEF PrologueOf, Places
  <2>. QED BY <1>1, <1>2, <1>5, <2>1 DEF InfoFrame
<1>8. InfoWhole(f, new, area)
  <2>1. ASSUME WholeWords(f) PROVE area % 8 = 0 /\ \A q \in Places(f) : new[q].overflow % 8 = 0
    <3>1. AreaOf(f, d) % 8 = 0 /\ most % 8 = 0 /\ \A q \in Places(f) : adj[q].overflow % 8 = 0
      BY <1>1, <2>1, CallFacts DEF InfoWhole
    <3>2. area % 8 = 0
      BY <3>1
    <3>3. new[at].overflow = area
      BY <1>5
    <3>. QED BY <1>5, <3>1, <3>2, <3>3
  <2>. QED BY <2>1 DEF InfoWhole
<1>9. ASSUME NEW b \in Calling(f) PROVE InfoCall(f, new, area, seen \cup {at}, b)
  <2>. DEFINE s == SeenFirst(f, b)
              l == SeenLast(f, b)
  <2>1. /\ s \in Places(f) /\ l \in Places(f) /\ s # l /\ Before(s, l)
        /\ {s, l} = {Down(b), Up(f, b)}
    BY AroundCall
  <2>2. InfoCall(f, adj, most, seen, b)
    BY <1>1
  <2>3. b # d => at \notin {s, l}
    BY <2>1, AroundCall
  <2>4. b = d => at \in {s, l}
    BY <2>1
  <2>5. ASSUME NEW q \in {Down(b), Up(f, b)}
        PROVE  IF Reserved(f, b) /\ q \in seen \cup {at}
               THEN /\ new[q].regs = KeptOver(f, b)
                    /\ AreaOf(f, b) <= new[q].overflow /\ new[q].overflow <= area
               ELSE new[q] = [regs |-> {}, overflow |-> 0]
    <3>1. CASE q = at
      <4>1. b = d
        BY <2>1, <2>3, <3>1
      <4>. QED BY <1>3, <1>5, <3>1, <4>1
    <3>2. CASE q # at
      <4>1. new[q] = adj[q] /\ q \in Places(f)
        BY <1>5, <2>1, <3>2
      <4>2. IF Reserved(f, b) /\ q \in seen
            THEN /\ adj[q].regs = KeptOver(f, b)
                 /\ AreaOf(f, b) <= adj[q].overflow /\ adj[q].overflow <= most
            ELSE adj[q] = [regs |-> {}, overflow |-> 0]
        BY <2>2 DEF InfoCall
      <4>3. adj[q].overflow \in Nat
        BY <1>1, <4>1 DEF Adjusts
      <4>. QED BY <1>1, <1>3, <3>2, <4>1, <4>2, <4>3
    <3>. QED BY <3>1, <3>2
  <2> HIDE DEF s, l
  <2>6. ASSUME Reserved(f, b), s \in seen \cup {at}
        PROVE  \/ area = new[s].overflow
               \/ \E c \in Calling(f) : /\ AreaOf(f, c) > new[s].overflow
                                        /\ Before(s, SeenFirst(f, c))
                                        /\ SeenFirst(f, c) \in seen \cup {at}
    <3>1. CASE s = at
      BY <1>5, <3>1
    <3>2. CASE s # at
      <4>1. s \in seen /\ new[s] = adj[s] /\ adj[s].overflow \in Nat /\ adj[s].overflow <= most
        <5>1. s \in seen /\ new[s] = adj[s] /\ adj[s].overflow \in Nat
          BY <1>1, <1>5, <2>1, <2>6, <3>2 DEF Adjusts
        <5>2. adj[s].overflow <= most
          BY <2>1, <2>2, <2>6, <5>1 DEF InfoCall
        <5>. QED BY <5>1, <5>2
      <4>2. CASE area = most
        <5>1. \/ most = adj[s].overflow
              \/ \E c \in Calling(f) : /\ AreaOf(f, c) > adj[s].overflow
                                       /\ Before(s, SeenFirst(f, c)) /\ SeenFirst(f, c) \in seen
          BY <2>2, <2>6, <4>1 DEF InfoCall, s
        <5>. QED BY <4>1, <4>2, <5>1
      <4>3. CASE area # most
        <5>1. area = AreaOf(f, d) /\ AreaOf(f, d) > most
          BY <1>1, <1>3, <4>3
        <5>2. at = SeenFirst(f, d)
          <6>1. SUFFICES ASSUME at # SeenFirst(f, d) PROVE FALSE
            OBVIOUS
          <6>2. PICK e \in Places(f) : e = SeenFirst(f, d) /\ e \in {Down(d), Up(f, d)} /\ e \in seen
            <7>1. /\ SeenFirst(f, d) \in {Down(d), Up(f, d)} /\ SeenFirst(f, d) \in Places(f)
                  /\ at = SeenLast(f, d) /\ Before(SeenFirst(f, d), SeenLast(f, d))
              BY <6>1, AroundCall
            <7>. QED BY <7>1
          <6>3. AreaOf(f, d) <= adj[e].overflow /\ adj[e].overflow <= most /\ adj[e].overflow \in Nat
            BY <1>1, <6>2 DEF InfoCall, Adjusts
          <6>. QED BY <1>1, <1>3, <5>1, <6>3
        <5>3. Before(s, at)
          BY <2>1, <4>1
        <5>4. AreaOf(f, d) > new[s].overflow
          BY <1>1, <1>3, <4>1, <5>1
        <5>. QED BY <5>2, <5>3, <5>4
      <4>. QED BY <4>2, <4>3
    <3>. QED BY <3>1, <3>2
  <2>7. ASSUME Reserved(f, b), l \in seen \cup {at}
        PROVE  new[s].overflow = new[l].overflow \/ Outgrown(f, b)
    <3>1. CASE l = at
      <4>1. b = d /\ s \in seen /\ s # at
        BY <2>1, <2>3, <3>1
      <4>2. new[s] = adj[s] /\ adj[s].overflow \in Nat /\ new[l].overflow = area
        BY <1>1, <1>5, <2>1, <3>1, <4>1 DEF Adjusts
      <4>3. AreaOf(f, b) <= adj[s].overflow /\ adj[s].overflow <= most
        BY <2>1, <2>2, <2>7, <4>1 DEF InfoCall
      <4>4. area = most
        BY <1>1, <1>3, <4>1, <4>2, <4>3
      <4>5. \/ most = adj[s].overflow
            \/ \E c \in Calling(f) : /\ AreaOf(f, c) > adj[s].overflow
                                     /\ Before(s, SeenFirst(f, c)) /\ SeenFirst(f, c) \in seen
        BY <2>2, <2>7, <4>1 DEF InfoCall, s
      <4>6. CASE most = adj[s].overflow
        BY <4>2, <4>4, <4>6
      <4>7. ASSUME NEW c \in Calling(f), AreaOf(f, c) > adj[s].overflow,
                   Before(s, SeenFirst(f, c)), SeenFirst(f, c) \in seen
            PROVE  Outgrown(f, b)
        <5>1. AreaOf(f, c) \in Nat /\ AreaOf(f, b) \in Nat
          BY CallFacts
        <5>2. AreaOf(f, c) > AreaOf(f, b)
          BY <4>2, <4>3, <4>7, <5>1
        <5>3. SeenFirst(f, c) \in Places(f)
          BY AroundCall
        <5>4. Before(SeenFirst(f, c), l)
          BY <3>1, <4>7, <5>3
        <5>. QED BY <4>7, <5>2, <5>4 DEF Outgrown, s, l
      <4>. QED BY <4>5, <4>6, <4>7
    <3>2. CASE l # at
      <4>1. l \in seen
        BY <2>7, <3>2
      <4>2. adj[s].overflow = adj[l].overflow \/ Outgrown(f, b)
        BY <2>2, <2>7, <4>1 DEF InfoCall, s, l
      <4>3. s # at
        <5>1. Before(l, at) /\ Before(s, l)
          BY <2>1, <4>1
        <5>2. s[1] \in Nat /\ s[2] \in Nat /\ l[1] \in Nat /\ l[2] \in Nat
          <6>1. Blocks(f) \subseteq Nat
            BY OrderFacts
          <6>. QED BY <2>1, <6>1 DEF Places
        <5>. QED BY <5>1, <5>2 DEF Before
      <4>. QED BY <1>5, <2>1, <3>2, <4>2, <4>3
    <3>. QED BY <3>1, <3>2
  <2>. QED BY <2>5, <2>6, <2>7 DEF InfoCall, s, l
<1>. QED BY <1>3, <1>6, <1>7, <1>8, <1>9 DEF Info

(* A step of the pass that changes nothing for the calls.                  *)
LEMMA InfoSame ==
  ASSUME NEW f \in Functions, NEW adj, NEW most, NEW seen, Info(f, adj, most, seen),
         NEW new \in Adjusts(f), NEW now, InfoFrame(f, new), InfoWhole(f, new, most),
         \A q \in Places(f) \ {PrologueOf(f), EpilogueOf(f)} : new[q] = adj[q],
         \A b \in Calling(f) : Reserved(f, b) =>
           \A q \in {Down(b), Up(f, b)} : q \in now <=> q \in seen,
         \A q \in seen : q \in now
  PROVE  Info(f, new, most, now)
<1>1. most \in Nat /\ \A b \in Calling(f) : InfoCall(f, adj, most, seen, b)
  BY DEF Info
<1>2. ASSUME NEW b \in Calling(f) PROVE InfoCall(f, new, most, now, b)
  <2>1. /\ \A q \in {Down(b), Up(f, b)} : new[q] = adj[q]
        /\ {SeenFirst(f, b), SeenLast(f, b)} = {Down(b), Up(f, b)}
    BY AroundCall
  <2>2. InfoCall(f, adj, most, seen, b)
    BY <1>1
  <2>3. ASSUME Reserved(f, b)
        PROVE  \A q \in {Down(b), Up(f, b)} : q \in now <=> q \in seen
    BY <2>3
  <2>4. ASSUME Reserved(f, b), SeenFirst(f, b) \in now
        PROVE  \/ most = new[SeenFirst(f, b)].overflow
               \/ \E c \in Calling(f) : /\ AreaOf(f, c) > new[SeenFirst(f, b)].overflow
                                        /\ Before(SeenFirst(f, b), SeenFirst(f, c))
                                        /\ SeenFirst(f, c) \in now
    <3>1. new[SeenFirst(f, b)] = adj[SeenFirst(f, b)] /\ SeenFirst(f, b) \in seen
      BY <2>1, <2>3, <2>4
    <3>. QED BY <2>2, <2>4, <3>1 DEF InfoCall
  <2>5. ASSUME Reserved(f, b), SeenLast(f, b) \in now
        PROVE  new[SeenFirst(f, b)].overflow = new[SeenLast(f, b)].overflow \/ Outgrown(f, b)
    <3>1. /\ new[SeenFirst(f, b)] = adj[SeenFirst(f, b)]
          /\ new[SeenLast(f, b)] = adj[SeenLast(f, b)] /\ SeenLast(f, b) \in seen
      BY <2>1, <2>3, <2>5
    <3>. QED BY <2>2, <2>5, <3>1 DEF InfoCall
  <2>6. \A q \in {Down(b), Up(f, b)} :
          IF Reserved(f, b) /\ q \in now
          THEN /\ new[q].regs = KeptOver(f, b)
               /\ AreaOf(f, b) <= new[q].overflow /\ new[q].overflow <= most
          ELSE new[q] = [regs |-> {}, overflow |-> 0]
    BY <2>1, <2>2, <2>3 DEF InfoCall
  <2>. QED BY <2>4, <2>5, <2>6 DEF InfoCall
<1>. QED BY <1>1, <1>2 DEF Info

(* The visit of the epilogue keeps it.                                     *)
LEMMA InfoEnds ==
  ASSUME NEW f \in Functions, NEW adj, NEW most, NEW seen, Info(f, adj, most, seen),
         NEW new, new = [adj EXCEPT ![EpilogueOf(f)].overflow = @ + most,
                                    ![PrologueOf(f)].overflow = @ + most]
  PROVE  Info(f, new, most, seen \cup {EpilogueOf(f)})
<1>1. /\ adj \in Adjusts(f) /\ most \in Nat /\ InfoFrame(f, adj) /\ InfoWhole(f, adj, most)
  BY DEF Info
<1>2. PICK p \in Places(f), e \in Places(f) : p = PrologueOf(f) /\ e = EpilogueOf(f) /\ p # e
  BY OrderFacts, AdjustmentsAre DEF PrologueOf, Places
<1>3. PICK n \in Nat : n = adj[p].overflow /\ n = adj[e].overflow
  BY <1>1, <1>2 DEF Adjusts, InfoFrame
<1>4. /\ new \in Adjusts(f) /\ \A q \in Places(f) \ {p, e} : new[q] = adj[q]
      /\ new[p].overflow = n + most /\ new[e].overflow = n + most
      /\ new[p].regs = adj[p].regs /\ new[e].regs = adj[e].regs
  <2>1. n + most \in Nat /\ adj[p].overflow = n /\ adj[e].overflow = n
    BY <1>1, <1>3
  <2>2. new = [adj EXCEPT ![e] = [adj[e] EXCEPT !.overflow = n + most],
                          ![p] = [adj[p] EXCEPT !.overflow = n + most]]
    BY <1>2, <2>1
  <2>. QED BY <1>1, <1>2, <2>1, <2>2 DEF Adjusts
<1>5. InfoFrame(f, new)
  BY <1>1, <1>2, <1>4 DEF InfoFrame
<1>6. InfoWhole(f, new, most)
  <2>1. ASSUME WholeWords(f), NEW q \in Places(f) PROVE new[q].overflow % 8 = 0
    <3>1. CASE q \in {p, e}
      <4>1. n % 8 = 0 /\ most % 8 = 0
        BY <1>1, <1>2, <1>3, <2>1 DEF InfoWhole
      <4>2. (n + most) % 8 = 0
        BY <1>1, <4>1, Wholes
      <4>. QED BY <1>4, <3>1, <4>2
    <3>2. CASE q \notin {p, e}
      BY <1>1, <1>4, <2>1, <3>2 DEF InfoWhole
    <3>. QED BY <3>1, <3>2
  <2>. QED BY <1>1, <2>1 DEF InfoWhole
<1>7. \A b \in Calling(f) : \A q \in {Down(b), Up(f, b)} : q # EpilogueOf(f)
  BY AroundCall
<1>8. \A q \in Places(f) \ {PrologueOf(f), EpilogueOf(f)} : new[q] = adj[q]
  BY <1>2, <1>4
<1>9. \A b \in Calling(f) : Reserved(f, b) =>
        \A q \in {Down(b), Up(f, b)} : q \in seen \cup {EpilogueOf(f)} <=> q \in seen
  BY <1>7
<1>10. \A q \in seen : q \in seen \cup {EpilogueOf(f)}
  OBVIOUS
<1>11. new \in Adjusts(f)
  BY <1>4
<1>. QED BY <1>5, <1>6, <1>8, <1>9, <1>10, <1>11, InfoSame

(* The operations of a block by their places.                              *)
LEMMA OpsOf ==
  ASSUME NEW f \in Functions, NEW b \in Blocks(f), NEW i \in 1 .. Arity(f, b) + 5,
         NEW h, h = Code(f, b)[i]
  PROVE  /\ Arity(f, b) \in Nat /\ Len(Code(f, b)) = Arity(f, b) + 5
         /\ i = 1 => h.op = IF b = First(f) THEN "prologue" ELSE "up"
         /\ i = 2 => h.op = "use" /\ h.regs = Returned(f, b) \cup (Entering(f, b) \ Leaving(f, b))
         /\ i = 3 => h.op = "def" /\ h.regs = Leaving(f, b) \ Entering(f, b)
         /\ i = 4 => h.op = IF b = Final(f) THEN "epilogue" ELSE "down"
         /\ i > 4 => IF b = Final(f) THEN i = 5 /\ Arity(f, b) = 0 /\ h.op = "ret"
                     ELSE IF i = Arity(f, b) + 5 THEN h.op = "call"
                     ELSE h.op = "pass" /\ h.arg = i - 4 /\ i - 4 \in 1 .. Arity(f, b)
         /\ b # Final(f) => Arity(f, b) = Len(f.calls[b].args)
<1>0. PICK c : c = Code(f, b)
  OBVIOUS
<1>1. PICK n \in Nat : n = Arity(f, b) /\ c = Code(f, b) /\ IsCode(f, b, c, n)
  BY <1>0, CodeFacts
<1>2. \A name : Op(name).op = name /\ \A rs : OnRegs(name, rs).op = name /\ OnRegs(name, rs).regs = rs
  BY DEF Op, OnRegs
<1>3. \A k : [op |-> "pass", arg |-> k].op = "pass" /\ [op |-> "pass", arg |-> k].arg = k
  OBVIOUS
<1>4. i = 1 => h.op = IF b = First(f) THEN "prologue" ELSE "up"
  BY <1>1, <1>2 DEF IsCode
<1>5. i = 2 => h.op = "use" /\ h.regs = Returned(f, b) \cup (Entering(f, b) \ Leaving(f, b))
  BY <1>1, <1>2 DEF IsCode
<1>6. i = 3 => h.op = "def" /\ h.regs = Leaving(f, b) \ Entering(f, b)
  BY <1>1, <1>2 DEF IsCode
<1>7. i = 4 => h.op = IF b = Final(f) THEN "epilogue" ELSE "down"
  BY <1>1, <1>2 DEF IsCode
<1>8. ASSUME i > 4
      PROVE  IF b = Final(f) THEN i = 5 /\ n = 0 /\ h.op = "ret"
             ELSE IF i = n + 5 THEN h.op = "call"
             ELSE h.op = "pass" /\ h.arg = i - 4 /\ i - 4 \in 1 .. n
  <2>1. CASE b = Final(f)
    <3>1. n = 0
      BY <1>1, <2>1 DEF Arity
    <3>2. i = 5 /\ i = n + 5
      BY <1>1, <1>8, <3>1
    <3>. QED BY <1>1, <1>2, <2>1, <3>1, <3>2 DEF IsCode
  <2>2. CASE b # Final(f) /\ i = n + 5
    BY <1>1, <1>2, <2>2 DEF IsCode
  <2>3. CASE b # Final(f) /\ i # n + 5
    <3>1. i - 4 \in 1 .. n /\ (i - 4) + 4 = i
      BY <1>1, <1>8, <2>3
    <3>2. h = [op |-> "pass", arg |-> i - 4]
      BY <1>1, <3>1 DEF IsCode
    <3>. QED BY <1>3, <2>3, <3>1, <3>2
  <2>. QED BY <2>1, <2>2, <2>3
<1>9. Len(Code(f, b)) = n + 5
  BY <1>1 DEF IsCode
<1>10. b # Final(f) => n = Len(f.calls[b].args)
  BY <1>1 DEF Arity
<1>. QED BY <1>1, <1>4, <1>5, <1>6, <1>7, <1>8, <1>9, <1>10

----------------------------------------------------------------------------
(* What the pass leaves, at every moment of the pass and of the run.       *)
IsAt(f, p) == p \in Blocks(f) \X Nat /\ p[2] \in 1 .. Arity(f, p[1]) + 5

(* The invariant of the pass, which the machine does not touch.            *)
PassInv ==
    /\ func \in Functions /\ phase \in {"callinfo", "run", "returned"} /\ step \in Nat
    /\ phase = "callinfo" => IsAt(func, pos) \/ pos = <<Len(func.order) + 1, 1>>
    /\ phase # "callinfo" => IsAt(func, pos)
    /\ phase = "callinfo" => step = 0
    /\ Info(func, adjust, max_area, Visited(func, phase, pos))

(* It holds initially.                                                     *)
LEMMA PassStarts == Init => PassInv
<1> SUFFICES ASSUME Init PROVE PassInv
  OBVIOUS
<1>1. func \in Functions /\ phase = "callinfo" /\ pos = <<1, 1>> /\ step = 0 /\ max_area = 0
  BY DEF Init
<1>2. Info(func, adjust, 0, {})
  BY <1>1, InfoStarts DEF Init
<1>3. Blocks(func) = 1 .. Len(func.order) /\ Len(func.order) \in Nat \ {0}
  BY <1>1, OrderFacts
<1>4. 1 \in Blocks(func) /\ Blocks(func) \subseteq Nat
  BY <1>3
<1>5. IsAt(func, <<1, 1>>)
  <2>1. Arity(func, 1) \in Nat
    BY <1>1, <1>4, CodeFacts
  <2>. QED BY <1>4, <2>1 DEF IsAt
<1>6. Visited(func, "callinfo", <<1, 1>>) = {}
  <2>1. ASSUME NEW b \in Blocks(func), NEW i \in {1, 4} PROVE ~Before(<<b, i>>, <<1, 1>>)
    <3>1. b \in Nat \ {0}
      BY <1>3
    <3>. QED BY <3>1 DEF Before
  <2>2. ASSUME NEW at \in Places(func) PROVE ~Before(at, <<1, 1>>)
    <3>1. PICK b \in Blocks(func), i \in {1, 4} : at = <<b, i>>
      BY DEF Places
    <3>. QED BY <2>1, <3>1
  <2>. QED BY <2>2 DEF Visited
<1>. QED BY <1>1, <1>2, <1>5, <1>6 DEF PassInv

(* The next instruction of the pass.                                       *)
LEMMA PassMoves ==
  ASSUME NEW f \in Functions, NEW p, IsAt(f, p),
         NEW q, q = IF p[2] < Len(Code(f, p[1])) THEN <<p[1], p[2] + 1>> ELSE <<p[1] + 1, 1>>
  PROVE  /\ IsAt(f, q) \/ q = <<Len(f.order) + 1, 1>>
         /\ p \notin Visited(f, "callinfo", p)
         /\ \A at \in Places(f) : at \in Visited(f, "callinfo", q) <=>
                                 at \in Visited(f, "callinfo", p) \/ at = p
<1>1. PICK b \in Blocks(f), i \in Nat : p = <<b, i>> /\ i \in 1 .. Arity(f, b) + 5
  BY DEF IsAt
<1>2. PICK n \in Nat : n = Arity(f, b) + 5 /\ n = Len(Code(f, b)) /\ n >= 5
  <2>1. Arity(f, b) \in Nat /\ Len(Code(f, b)) = Arity(f, b) + 5
    BY CodeFacts DEF IsCode
  <2>. QED BY <2>1
<1>3. q = IF p[2] < n THEN <<p[1], p[2] + 1>> ELSE <<p[1] + 1, 1>>
  BY <1>1, <1>2
<1>4. p \in Blocks(f) \X Nat /\ p[2] \in 1 .. n
  BY <1>1, <1>2
<1>5. IsAt(f, q) \/ q = <<Len(f.order) + 1, 1>>
  <2>1. CASE i < n
    <3>1. q = <<b, i + 1>> /\ i + 1 \in 1 .. n
      BY <1>1, <1>2, <1>3, <2>1
    <3>. QED BY <1>2, <3>1 DEF IsAt
  <2>2. CASE ~(i < n)
    <3>1. q = <<b + 1, 1>>
      BY <1>1, <1>3, <2>2
    <3>2. PICK l \in Nat : l = Len(f.order) /\ b \in 1 .. l /\ Blocks(f) = 1 .. l
      BY OrderFacts
    <3>3. CASE b = l
      BY <3>1, <3>2, <3>3
    <3>4. CASE b # l
      <4>1. b + 1 \in Blocks(f) /\ b + 1 \in Blocks(f)
        BY <3>2, <3>4
      <4>2. Arity(f, b + 1) \in Nat
        BY <4>1, CodeFacts
      <4>. QED BY <3>1, <4>1, <4>2 DEF IsAt
    <3>. QED BY <3>3, <3>4
  <2>. QED BY <2>1, <2>2
<1>. QED BY <1>2, <1>3, <1>4, <1>5, VisitedGrows

(* Every visit keeps it.                                                   *)
LEMMA PassSteps == PassInv /\ InitializeAdjust => PassInv'
<1> SUFFICES ASSUME PassInv, InitializeAdjust PROVE PassInv'
  OBVIOUS
<1> DEFINE f == func
           seen == Visited(func, "callinfo", pos)
           now == Visited(func, "callinfo", pos')
<1>1. /\ f \in Functions /\ phase = "callinfo" /\ step = 0 /\ pos[1] \in Blocks(f)
      /\ Info(f, adjust, max_area, seen)
      /\ func' = f /\ phase' = phase /\ step' = step /\ pos' = NextInstruction
  BY DEF PassInv, InitializeAdjust
<1>2. IsAt(f, pos)
  <2>1. IsAt(f, pos) \/ pos = <<Len(f.order) + 1, 1>>
    BY <1>1 DEF PassInv
  <2>2. PICK l \in Nat : l = Len(f.order) /\ Blocks(f) = 1 .. l
    BY <1>1, OrderFacts
  <2>. QED BY <1>1, <2>1, <2>2
<1>3. /\ IsAt(f, pos') \/ pos' = <<Len(f.order) + 1, 1>>
      /\ pos \notin seen
      /\ \A at \in Places(f) : at \in now <=> at \in seen \/ at = pos
  BY <1>1, <1>2, PassMoves DEF NextInstruction
<1>4. PICK b \in Blocks(f), i \in Nat : pos = <<b, i>> /\ i \in 1 .. Arity(f, b) + 5
  BY <1>2 DEF IsAt
<1>5. Here = Code(f, b)[i]
  BY <1>4 DEF Here
<1>6. /\ i = 1 => Here.op = IF b = First(f) THEN "prologue" ELSE "up"
      /\ i = 2 => Here.op = "use"
      /\ i = 3 => Here.op = "def"
      /\ i = 4 => Here.op = IF b = Final(f) THEN "epilogue" ELSE "down"
      /\ i > 4 => Here.op \in {"ret", "call", "pass"}
  <2>1. /\ i = 2 => Here.op = "use"
        /\ i = 3 => Here.op = "def"
    BY <1>1, <1>4, <1>5, OpsOf
  <2>2. /\ i = 1 => Here.op = IF b = First(f) THEN "prologue" ELSE "up"
        /\ i = 4 => Here.op = IF b = Final(f) THEN "epilogue" ELSE "down"
    BY <1>1, <1>4, <1>5, OpsOf
  <2>3. i > 4 => Here.op \in {"ret", "call", "pass"}
    BY <1>1, <1>4, <1>5, OpsOf
  <2>. QED BY <2>1, <2>2, <2>3
<1>7. \A q \in Places(f) : q \in seen <=> Before(q, pos)
  BY DEF Visited
<1>8. now \subseteq Places(f) /\ seen \subseteq Places(f)
  BY DEF Visited
<1> SUFFICES Info(f, adjust', max_area', now)
  BY <1>1, <1>3 DEF PassInv
<1> HIDE DEF seen, now, f
<1>9. ASSUME NEW d \in Calling(f), pos \in {Down(d), Up(f, d)}, InitializeData(pos, d)
      PROVE  Info(f, adjust', max_area', now)
  <2>1. pos \in Places(f) /\ \A c \in Calling(f) : pos \in {Down(c), Up(f, c)} => c = d
    <3>1. Down(d) \in Places(f) /\ Up(f, d) \in Places(f)
      BY <1>1, <1>9, AroundCall
    <3>2. ASSUME NEW c \in Calling(f), pos \in {Down(c), Up(f, c)} PROVE c = d
      <4>1. Down(d) # Up(f, c) /\ Down(c) # Up(f, d)
            /\ (Down(d) = Down(c) \/ Up(f, d) = Up(f, c) => d = c)
        BY <1>1, AroundCall
      <4>. QED BY <1>9, <3>2, <4>1
    <3>. QED BY <1>9, <3>1, <3>2
  <2>2. now = seen \cup {pos}
    BY <1>3, <1>8, <2>1
  <2>3. CASE Reserved(f, d)
    <3> DEFINE area == IF AreaOf(f, d) > max_area THEN AreaOf(f, d) ELSE max_area
    <3>1. max_area' = area /\ adjust' = [adjust EXCEPT ![pos] = [regs |-> KeptOver(f, d),
                                                                 overflow |-> @.overflow + area]]
      BY <1>9, <2>3 DEF InitializeData, Reserved, f
    <3> HIDE DEF area
    <3>2. area = IF AreaOf(f, d) > max_area THEN AreaOf(f, d) ELSE max_area
      BY DEF area
    <3>. QED BY <1>1, <1>3, <1>7, <1>9, <2>2, <2>3, <3>1, <3>2, InfoVisits
  <2>4. CASE ~Reserved(f, d)
    <3>1. adjust' = adjust /\ max_area' = max_area
      BY <1>9, <2>4 DEF InitializeData, Reserved, f
    <3>2. adjust \in Adjusts(f) /\ InfoFrame(f, adjust) /\ InfoWhole(f, adjust, max_area)
      BY <1>1 DEF Info
    <3>3. \A c \in Calling(f) : Reserved(f, c) =>
            \A q \in {Down(c), Up(f, c)} : q \in now <=> q \in seen
      BY <2>1, <2>2, <2>4
    <3>4. \A q \in seen : q \in now
      BY <2>2
    <3>. QED BY <1>1, <3>1, <3>2, <3>3, <3>4, InfoSame
  <2>. QED BY <2>3, <2>4
<1>10. CASE i = 1 /\ b # First(f)
  <2>1. Preceding(f, b) \in Calling(f) /\ Following(f, Preceding(f, b)) = b
    BY <1>1, <1>10, OrderFacts
  <2>2. pos = Up(f, Preceding(f, b))
    BY <1>4, <1>10, <2>1 DEF Up
  <2>3. InitializeData(pos, Preceding(f, b))
    BY <1>4, <1>6, <1>10 DEF InitializeAdjust, f
  <2>. QED BY <1>9, <2>1, <2>2, <2>3
<1>11. CASE i = 4 /\ b # Final(f)
  <2>1. b \in Calling(f) /\ pos = Down(b)
    BY <1>4, <1>11 DEF Calling, Down
  <2>2. InitializeData(pos, b)
    BY <1>4, <1>6, <1>11 DEF InitializeAdjust, f
  <2>. QED BY <1>9, <2>1, <2>2
<1>12. CASE i = 4 /\ b = Final(f)
  <2>1. pos = EpilogueOf(f) /\ EpilogueOf(f) \in Places(f)
    BY <1>1, <1>4, <1>12, AdjustmentsAre DEF Places
  <2>2. InitializeFrame
    BY <1>4, <1>6, <1>12 DEF InitializeAdjust
  <2>3. max_area' = max_area /\ adjust' = [adjust EXCEPT ![EpilogueOf(f)].overflow = @ + max_area,
                                                         ![PrologueOf(f)].overflow = @ + max_area]
    BY <2>1, <2>2 DEF InitializeFrame, f
  <2>4. now = seen \cup {EpilogueOf(f)}
    BY <1>3, <1>8, <2>1
  <2>5. Info(f, adjust', max_area, seen \cup {EpilogueOf(f)})
    BY <1>1, <2>3, InfoEnds, Zenon
  <2>. QED BY <2>3, <2>4, <2>5
<1>13. CASE (i = 1 /\ b = First(f)) \/ i \notin {1, 4}
  <2>1. adjust' = adjust /\ max_area' = max_area
    <3>1. Here.op \notin {"up", "down", "epilogue"}
      <4>1. CASE i = 1
        BY <1>6, <1>13, <4>1
      <4>2. CASE i # 1
        <5>1. i = 2 \/ i = 3 \/ i > 4
          BY <1>4, <1>13, <4>2
        <5>. QED BY <1>6, <5>1
      <4>. QED BY <4>1, <4>2
    <3>. QED BY <3>1 DEF InitializeAdjust
  <2>2. \A c \in Calling(f) : pos \notin {Down(c), Up(f, c)}
    <3>1. CASE i = 1 /\ b = First(f)
      <4>1. pos = PrologueOf(f)
        BY <1>4, <3>1 DEF PrologueOf
      <4>. QED BY <1>1, <4>1, AroundCall
    <3>2. CASE i \notin {1, 4}
      BY <1>4, <3>2 DEF Down, Up
    <3>. QED BY <1>13, <3>1, <3>2
  <2>3. adjust \in Adjusts(f) /\ InfoFrame(f, adjust) /\ InfoWhole(f, adjust, max_area)
    BY <1>1 DEF Info
  <2>4. \A c \in Calling(f) : \A q \in {Down(c), Up(f, c)} : q \in now <=> q \in seen
    BY <1>1, <1>3, <2>2, AroundCall
  <2>5. \A q \in seen : q \in now
    BY <1>3, <1>8
  <2>. QED BY <1>1, <2>1, <2>3, <2>4, <2>5, InfoSame
<1>. QED BY <1>10, <1>11, <1>12, <1>13

(* Where the machine is.                                                   *)
StandsAt(b, i, n) ==
    /\ b \in Blocks(func) /\ n \in Nat /\ i \in 1 .. n + 5 /\ pos = <<b, i>>
    /\ n = Arity(func, b) /\ IsAt(func, pos)
    /\ b # Final(func) => b \in Calling(func) /\ n = Len(func.calls[b].args)
    /\ Here.op \in {"use", "def", "pass", "call", "ret"} \cup AdjustKinds
    /\ Here.op \in AdjustKinds <=> i \in {1, 4}
    /\ Here.op = "prologue" <=> i = 1 /\ b = First(func)
    /\ Here.op = "up" <=> i = 1 /\ b # First(func)
    /\ Here.op = "down" <=> i = 4 /\ b # Final(func)
    /\ Here.op = "epilogue" <=> i = 4 /\ b = Final(func)
    /\ Here.op = "use" <=> i = 2
    /\ Here.op = "def" <=> i = 3
    /\ Here.op = "pass" <=> b # Final(func) /\ i > 4 /\ i < n + 5
    /\ Here.op = "call" <=> b # Final(func) /\ i = n + 5
    /\ Here.op = "ret" <=> b = Final(func) /\ i = 5
    /\ b = Final(func) => n = 0
    /\ i = 2 => Here.regs = Returned(func, b) \cup (Entering(func, b) \ Leaving(func, b))
    /\ i = 3 => Here.regs = Leaving(func, b) \ Entering(func, b)
    /\ Here.op = "pass" => Here.arg = i - 4
    /\ Advance /\ i < n + 5 => pos' = <<b, i + 1>>
    /\ Advance /\ i = n + 5 => pos' = <<Following(func, b), 1>>
    /\ Advance /\ Here.op # "ret" => IsAt(func, pos')

(* Every position is one of these.                                         *)
LEMMA Standing ==
  ASSUME func \in Functions, IsAt(func, pos)
  PROVE  \E b \in Blocks(func), n \in Nat : \E i \in 1 .. n + 5 : StandsAt(b, i, n)
<1>1. PICK b \in Blocks(func), i \in Nat : pos = <<b, i>> /\ i \in 1 .. Arity(func, b) + 5
  BY DEF IsAt
<1>2. PICK n \in Nat : n = Arity(func, b) /\ Len(Code(func, b)) = n + 5
  BY CodeFacts DEF IsCode
<1>3. Here = Code(func, b)[i] /\ i \in 1 .. n + 5
  BY <1>1, <1>2 DEF Here
<1> DEFINE h == Here
<1>4. /\ i = 1 => h.op = IF b = First(func) THEN "prologue" ELSE "up"
      /\ i = 4 => h.op = IF b = Final(func) THEN "epilogue" ELSE "down"
  BY <1>1, <1>3, OpsOf
<1>5. /\ i = 2 => h.op = "use" /\ h.regs = Returned(func, b) \cup (Entering(func, b) \ Leaving(func, b))
      /\ i = 3 => h.op = "def" /\ h.regs = Leaving(func, b) \ Entering(func, b)
  BY <1>1, <1>3, OpsOf
<1>6. /\ i > 4 => IF b = Final(func) THEN i = 5 /\ n = 0 /\ h.op = "ret"
                  ELSE IF i = n + 5 THEN h.op = "call"
                  ELSE h.op = "pass" /\ h.arg = i - 4 /\ i - 4 \in 1 .. n
      /\ b # Final(func) => n = Len(func.calls[b].args)
  <2>1. /\ i > 4 => IF b = Final(func) THEN i = 5 /\ Arity(func, b) = 0 /\ h.op = "ret"
                    ELSE IF i = Arity(func, b) + 5 THEN h.op = "call"
                    ELSE h.op = "pass" /\ h.arg = i - 4 /\ i - 4 \in 1 .. Arity(func, b)
        /\ b # Final(func) => Arity(func, b) = Len(func.calls[b].args)
    BY <1>1, <1>3, OpsOf
  <2> HIDE DEF h
  <2>. QED BY <1>2, <2>1
<1>7. b # Final(func) => b \in Calling(func)
  BY DEF Calling
<1>8. b = Final(func) => n = 0
  BY <1>2 DEF Arity
<1>9. i = 1 \/ i = 2 \/ i = 3 \/ i = 4 \/ i > 4
  BY <1>1
<1>10. IsAt(func, pos) /\ Arity(func, b) = n
  BY <1>2
<1>11. ASSUME Advance PROVE /\ i < n + 5 => pos' = <<b, i + 1>>
                            /\ i = n + 5 => pos' = <<Following(func, b), 1>>
  BY <1>1, <1>2, <1>11 DEF Advance
<1>12. ASSUME Advance, h.op # "ret" PROVE IsAt(func, pos')
  <2>1. CASE i < n + 5
    BY <1>1, <1>2, <1>11, <1>12, <2>1 DEF IsAt
  <2>2. CASE i = n + 5
    <3>1. b \in Calling(func)
      <4>1. i > 4
        BY <2>2
      <4>. QED BY <1>6, <1>7, <1>12, <4>1
    <3>2. Following(func, b) \in Blocks(func)
      BY <3>1, OrderFacts
    <3>3. Arity(func, Following(func, b)) \in Nat
      BY <3>2, CodeFacts
    <3>. QED BY <1>11, <1>12, <2>2, <3>2, <3>3 DEF IsAt
  <2>. QED BY <1>3, <2>1, <2>2
<1> HIDE DEF h
<1>13. /\ h.op \in {"use", "def", "pass", "call", "ret"} \cup AdjustKinds
       /\ h.op \in AdjustKinds <=> i \in {1, 4}
       /\ h.op = "prologue" <=> i = 1 /\ b = First(func)
       /\ h.op = "up" <=> i = 1 /\ b # First(func)
       /\ h.op = "down" <=> i = 4 /\ b # Final(func)
       /\ h.op = "epilogue" <=> i = 4 /\ b = Final(func)
       /\ h.op = "use" <=> i = 2
       /\ h.op = "def" <=> i = 3
       /\ h.op = "pass" <=> b # Final(func) /\ i > 4 /\ i < n + 5
       /\ h.op = "call" <=> b # Final(func) /\ i = n + 5
       /\ h.op = "ret" <=> b = Final(func) /\ i = 5
       /\ h.op = "pass" => h.arg = i - 4
  <2>1. CASE i = 1
    BY <1>4, <2>1 DEF AdjustKinds
  <2>2. CASE i = 2
    BY <1>5, <2>2 DEF AdjustKinds
  <2>3. CASE i = 3
    BY <1>5, <2>3 DEF AdjustKinds
  <2>4. CASE i = 4
    BY <1>4, <2>4 DEF AdjustKinds
  <2>5. CASE i > 4
    <3>1. CASE b = Final(func)
      BY <1>6, <2>5, <3>1 DEF AdjustKinds
    <3>2. CASE b # Final(func) /\ i = n + 5
      BY <1>6, <2>5, <3>2 DEF AdjustKinds
    <3>3. CASE b # Final(func) /\ i # n + 5
      BY <1>3, <1>6, <2>5, <3>3 DEF AdjustKinds
    <3>. QED BY <3>1, <3>2, <3>3
  <2>. QED BY <1>9, <2>1, <2>2, <2>3, <2>4, <2>5
<1>14. StandsAt(b, i, n)
  BY <1>1, <1>2, <1>3, <1>5, <1>6, <1>7, <1>8, <1>10, <1>11, <1>12, <1>13 DEF StandsAt, h
<1>. QED BY <1>3, <1>14

(* No step of the machine disturbs it.                                     *)
LEMMA PassRuns ==
  ASSUME PassInv, Enter \/ RunAdjust \/ FinishAdjust \/ RunDefinition \/ RunUse
                  \/ RunPass \/ RunCall \/ RunReturn
  PROVE  PassInv'
<1> DEFINE f == func
<1>1. /\ f \in Functions /\ Info(f, adjust, max_area, Visited(f, phase, pos)) /\ step \in Nat
      /\ f' = f /\ adjust' = adjust /\ max_area' = max_area
  BY DEF PassInv, Enter, RunAdjust, FinishAdjust, RunDefinition, RunUse, RunPass, RunCall,
         RunReturn, Advance
<1>2. CASE Enter
  <2>1. /\ phase = "callinfo" /\ pos[1] \notin Blocks(f)
        /\ phase' = "run" /\ pos' = <<First(f), 1>> /\ step' = step
    BY <1>2 DEF Enter
  <2>2. First(f) \in Blocks(f) /\ Arity(f, First(f)) \in Nat
    BY <1>1, OrderFacts, CodeFacts
  <2>3. IsAt(f, pos')
    BY <2>1, <2>2 DEF IsAt
  <2>4. pos = <<Len(f.order) + 1, 1>>
    BY <2>1 DEF PassInv, IsAt
  <2>5. Visited(f, phase, pos) = Places(f)
    <3>1. PICK l \in Nat : l = Len(f.order) /\ Blocks(f) = 1 .. l
      BY <1>1, OrderFacts
    <3>2. ASSUME NEW at \in Places(f) PROVE Before(at, <<l + 1, 1>>)
      <4>1. PICK b \in 1 .. l, i \in {1, 4} : at = <<b, i>>
        BY <3>1 DEF Places
      <4>. QED BY <4>1 DEF Before
    <3>. QED BY <2>4, <3>1, <3>2 DEF Visited
  <2>6. Visited(f, phase', pos') = Places(f)
    BY <2>1 DEF Visited
  <2>7. Info(f, adjust, max_area, Visited(f, phase', pos'))
    BY <1>1, <2>5, <2>6
  <2>. QED BY <1>1, <2>1, <2>3, <2>7 DEF PassInv
<1>3. CASE ~Enter
  <2>1. phase = "run" /\ phase' \in {"run", "returned"}
    BY <1>3 DEF PassInv, RunAdjust, FinishAdjust, RunDefinition, RunUse, RunPass, RunCall,
                RunReturn, Advance
  <2>2. Visited(f, phase', pos') = Visited(f, phase, pos)
    BY <2>1 DEF Visited
  <2>3. IsAt(f, pos)
    BY <2>1 DEF PassInv
  <2>4. step' \in Nat
    <3>1. RunAdjust => step' = step + 1
      BY DEF RunAdjust
    <3>2. ~RunAdjust => step' = 0 \/ step' = step
      BY <1>3 DEF FinishAdjust, RunDefinition, RunUse, RunPass, RunCall, RunReturn, Advance
    <3>. QED BY <1>1, <3>1, <3>2
  <2>5. IsAt(f, pos')
    <3>1. PICK b \in Blocks(func), n \in Nat : \E i \in 1 .. n + 5 : StandsAt(b, i, n)
      BY <1>1, <2>3, Standing
    <3>0. PICK i \in 1 .. n + 5 : StandsAt(b, i, n)
      BY <3>1
    <3>2. (Advance /\ Here.op # "ret") \/ pos' = pos
      BY <1>3 DEF RunAdjust, FinishAdjust, RunDefinition, RunUse, RunPass, RunCall, RunReturn, AdjustKinds
    <3>. QED BY <2>3, <3>0, <3>2 DEF StandsAt
  <2>6. Info(f, adjust, max_area, Visited(f, phase', pos'))
    BY <1>1, <2>2
  <2>. QED BY <1>1, <2>1, <2>4, <2>5, <2>6 DEF PassInv
<1>. QED BY <1>2, <1>3

(* After the pass each adjustment of a call that reserves its area saves   *)
(* what the call keeps.                                                    *)
THEOREM PassInvariant == Spec => []PassInv
<1>1. PassInv /\ [Next]_vars => PassInv'
  <2> SUFFICES ASSUME PassInv, [Next]_vars PROVE PassInv'
    OBVIOUS
  <2>1. CASE UNCHANGED vars
    BY <2>1 DEF vars, PassInv
  <2>2. CASE InitializeAdjust
    BY <2>2, PassSteps
  <2>3. CASE Enter \/ RunAdjust \/ FinishAdjust \/ RunDefinition \/ RunUse
             \/ RunPass \/ RunCall \/ RunReturn
    BY <2>3, PassRuns
  <2>. QED BY <2>1, <2>2, <2>3 DEF Next
<1>. QED BY <1>1, PassStarts, PTL DEF Spec

----------------------------------------------------------------------------
(* The steps of the machine, each with the instruction it executes.        *)
Framed(f, adj) ==
    \/ adj[PrologueOf(f)].regs # {} \/ adj[PrologueOf(f)].overflow # 0 \/ f.local # 0

(* Within an adjustment, and to another place.                             *)
Stay == pos' = pos /\ step' = step + 1

GoTo(p) == pos' = p /\ step' = 0

(* One instruction of the prologue, of the epilogue, before and after a    *)
(* call.                                                                   *)
EnterFrame(s) ==
    /\ pos = PrologueOf(func) /\ Stay /\ Framed(func, adjust) /\ s = GpRegs(func.saved)
    /\ \/ step = 0 /\ Push("rbp")
       \/ step = 1 /\ SetFrame
       \/ step = 2 /\ MoveRsp(-FrameSize(func))
       \/ step - 2 \in 1 .. Len(s) /\ Push(s[step - 2])

LeaveFrame(s) ==
    /\ pos = EpilogueOf(func) /\ Stay /\ Framed(func, adjust) /\ s = GpRegs(func.saved)
    /\ \/ step \in 0 .. Len(s) - 1 /\ Pop(s[Len(s) - step])
       \/ step = Len(s) /\ Leave

GoDown(b, s) ==
    /\ b \in Calling(func) /\ pos = Down(b) /\ Stay /\ s = GpRegs(adjust[pos].regs)
    /\ \/ step = 0 /\ MoveRsp(-AdjustSize(adjust[pos]))
       \/ step \in 1 .. Len(s) /\ Push(s[Len(s) + 1 - step])

GoUp(b, s) ==
    /\ b \in Calling(func) /\ pos = Up(func, b) /\ Stay /\ s = GpRegs(adjust[pos].regs)
    /\ \/ step \in 0 .. Len(s) - 1 /\ Pop(s[step + 1])
       \/ step = Len(s) /\ MoveRsp(AdjustSize(adjust[pos]))

(* The end of each of them.                                                *)
EndPrologue ==
    /\ pos = PrologueOf(func) /\ GoTo(<<First(func), 2>>) /\ UNCHANGED <<reg, mem>>
    /\ IF Framed(func, adjust) THEN step = Len(GpRegs(func.saved)) + 3 ELSE step = 0

EndEpilogue ==
    /\ pos = EpilogueOf(func) /\ GoTo(<<Final(func), 5>>) /\ UNCHANGED <<reg, mem>>
    /\ IF Framed(func, adjust) THEN step = Len(GpRegs(func.saved)) + 1 ELSE step = 0

EndDown(b, s) ==
    /\ b \in Calling(func) /\ pos = Down(b) /\ s = GpRegs(adjust[pos].regs)
    /\ step = Len(s) + 1 /\ GoTo(<<b, 5>>) /\ UNCHANGED <<reg, mem>>

EndUp(b, s) ==
    /\ b \in Calling(func) /\ pos = Up(func, b) /\ s = GpRegs(adjust[pos].regs)
    /\ step = Len(s) + 1 /\ GoTo(<<Following(func, b), 2>>) /\ UNCHANGED <<reg, mem>>

(* The other instructions.                                                 *)
Uses(b) == b \in Blocks(func) /\ pos = <<b, 2>> /\ GoTo(<<b, 3>>) /\ UNCHANGED <<reg, mem>>

Defines(b) ==
    /\ b \in Blocks(func) /\ pos = <<b, 3>> /\ GoTo(<<b, 4>>) /\ UNCHANGED mem
    /\ reg' = [r \in DOMAIN reg |-> IF r \in Leaving(func, b) \ Entering(func, b) THEN Value(r)
                                    ELSE reg[r]]

Passes(b, n, to) ==
    /\ b \in Calling(func) /\ n \in 1 .. Len(func.calls[b].args)
    /\ pos = <<b, n + 4>> /\ GoTo(<<b, n + 5>>)
    /\ to = CallerPlace(func.calls[b].args, n)
    /\ IF to.base = "rsp"
       THEN /\ mem' = Written(mem, Rsp + to.offset, AlignUp(func.calls[b].args[n].size, 8),
                              <<"argument", n>>)
            /\ UNCHANGED reg
       ELSE /\ reg' = [reg EXCEPT ![to.base] = <<"argument", n>>]
            /\ UNCHANGED mem

Calls(b) ==
    /\ b \in Calling(func) /\ pos = <<b, Len(func.calls[b].args) + 5>> /\ GoTo(Up(func, b))
    /\ reg' = [r \in DOMAIN reg |->
                 IF r \in Results(func.calls[b].returns) THEN Value(r)
                 ELSE IF r \in CallerSaved THEN Junk ELSE reg[r]]
    /\ mem' = [a \in {c \in DOMAIN mem : c >= Rsp} |-> mem[a]]

(* A step of the function, and its end.                                    *)
Works ==
    /\ phase' = "run"
    /\ \/ \E s : EnterFrame(s) \/ LeaveFrame(s)
       \/ EndPrologue \/ EndEpilogue
       \/ \E b, s : GoDown(b, s) \/ GoUp(b, s) \/ EndDown(b, s) \/ EndUp(b, s)
       \/ \E b : Uses(b) \/ Defines(b) \/ Calls(b)
       \/ \E b, n, to : Passes(b, n, to)

Returns ==
    /\ phase' = "returned" /\ pos = <<Final(func), 5>>
    /\ UNCHANGED <<pos, step, reg, mem>>

(* An instruction of one name does what that name says.                    *)
LEMMA Executes ==
  /\ \A r : Execute(OnReg("push", r)) => Push(r)
  /\ \A r : Execute(OnReg("pop", r)) => Pop(r)
  /\ \A n : Execute(Move("sub", n)) => MoveRsp(-n)
  /\ \A n : Execute(Move("add", n)) => MoveRsp(n)
  /\ Execute(Op("frame")) => SetFrame
  /\ Execute(Op("leave")) => Leave
<1>1. /\ \A n, r : OnReg(n, r).op = n /\ OnReg(n, r).reg = r
      /\ \A n : Op(n).op = n
      /\ \A n, m : Move(n, m).op = n /\ Move(n, m).by = m
  BY DEF OnReg, Op, Move
<1>2. ASSUME NEW i, Execute(i)
      PROVE  /\ i.op = "push" => Push(i.reg)
             /\ i.op = "pop" => Pop(i.reg)
             /\ i.op = "sub" => MoveRsp(-i.by)
             /\ i.op = "add" => MoveRsp(i.by)
             /\ i.op = "frame" => SetFrame
             /\ i.op = "leave" => Leave
  BY <1>2 DEF Execute
<1>3. ASSUME NEW r PROVE (Execute(OnReg("push", r)) => Push(r)) /\ (Execute(OnReg("pop", r)) => Pop(r))
  BY <1>1, <1>2
<1>4. ASSUME NEW n PROVE (Execute(Move("sub", n)) => MoveRsp(-n)) /\ (Execute(Move("add", n)) => MoveRsp(n))
  BY <1>1, <1>2
<1>. QED BY <1>1, <1>2, <1>3, <1>4

(* Prologue and epilogue agree on whether there is a frame and on what it  *)
(* saves.                                                                  *)
LEMMA FrameOfAdjustments ==
  ASSUME PassInv
  PROVE  /\ PrologueOf(func) = <<First(func), 1>> /\ EpilogueOf(func) = <<Final(func), 4>>
         /\ adjust[PrologueOf(func)].regs = func.saved /\ adjust[EpilogueOf(func)].regs = func.saved
         /\ NeedsFrame(adjust[PrologueOf(func)]) <=> Framed(func, adjust)
         /\ NeedsFrame(adjust[EpilogueOf(func)]) <=> Framed(func, adjust)
<1>1. func \in Functions /\ InfoFrame(func, adjust)
  BY DEF PassInv, Info
<1>2. PrologueOf(func) = <<First(func), 1>> /\ EpilogueOf(func) = <<Final(func), 4>>
  BY <1>1, AdjustmentsAre DEF PrologueOf
<1>. QED BY <1>1, <1>2 DEF InfoFrame, NeedsFrame, Framed

(* A step within an adjustment is one of the four.                         *)
LEMMA AdjustRuns ==
  ASSUME PassInv, RunAdjust
  PROVE  Works
<1>1. /\ phase = "run" /\ Here.op \in AdjustKinds /\ step < Len(Emitted) /\ step \in Nat
      /\ Execute(Emitted[step + 1]) /\ Stay /\ phase' = "run" /\ func \in Functions
  BY DEF RunAdjust, Stay, PassInv
<1>2. PICK b \in Blocks(func), n \in Nat : \E i \in 1 .. n + 5 : StandsAt(b, i, n)
  BY Standing DEF PassInv, RunAdjust
<1>3. PICK i \in 1 .. n + 5 : StandsAt(b, i, n)
  BY <1>2
<1>4. i \in {1, 4} /\ pos = <<b, i>>
  BY <1>1, <1>3 DEF StandsAt
<1>5. PICK a : a = adjust[pos]
  OBVIOUS
<1>6. PICK s \in Seq(Gp) : s = GpRegs(a.regs)
  <2>1. GpRegs(a.regs) \in Seq(Gp \cap a.regs)
    BY GpRegsFacts
  <2>. QED BY <2>1
<1>7. PICK g \in Nat : g = Len(s)
  OBVIOUS
<1>8. CASE i = 1 /\ b = First(func)
  <2>1. pos = PrologueOf(func) /\ a.regs = func.saved /\ s = GpRegs(func.saved)
        /\ (NeedsFrame(a) <=> Framed(func, adjust))
    BY <1>4, <1>5, <1>6, <1>8, FrameOfAdjustments
  <2>2. Emitted = Prologue(a)
    BY <1>3, <1>5, <1>8 DEF StandsAt, Emitted
  <2>3. NeedsFrame(a)
    <3>1. CASE ~NeedsFrame(a)
      <4>1. Emitted = <<>>
        BY <2>2, <3>1 DEF Prologue
      <4>. QED BY <1>1, <4>1
    <3>. QED BY <3>1
  <2>4. /\ Len(Prologue(a)) = g + 3 /\ Prologue(a)[1] = OnReg("push", "rbp")
        /\ Prologue(a)[2] = Op("frame") /\ Prologue(a)[3] = Move("sub", FrameSize(func))
        /\ \A j \in 1 .. g : Prologue(a)[j + 3] = OnReg("push", s[j])
    BY <1>6, <1>7, <2>3, FrameCode
  <2>5. \/ step = 0 /\ Push("rbp")
        \/ step = 1 /\ SetFrame
        \/ step = 2 /\ MoveRsp(-FrameSize(func))
        \/ step - 2 \in 1 .. Len(s) /\ Push(s[step - 2])
    <3>1. step \in 0 .. g + 2
      BY <1>1, <2>2, <2>4
    <3>2. CASE step = 0
      BY <1>1, <2>2, <2>4, <3>2, Executes
    <3>3. CASE step = 1
      BY <1>1, <2>2, <2>4, <3>3, Executes
    <3>4. CASE step = 2
      BY <1>1, <2>2, <2>4, <3>4, Executes
    <3>5. CASE step > 2
      <4>1. step - 2 \in 1 .. g /\ (step - 2) + 3 = step + 1
        BY <3>1, <3>5
      <4>2. Emitted[step + 1] = OnReg("push", s[step - 2])
        BY <2>2, <2>4, <4>1
      <4>3. Push(s[step - 2])
        BY <1>1, <4>2, Executes
      <4>. QED BY <1>7, <4>1, <4>3
    <3>. QED BY <3>1, <3>2, <3>3, <3>4, <3>5
  <2>6. EnterFrame(s)
    BY <1>1, <2>1, <2>3, <2>5 DEF EnterFrame
  <2>. QED BY <1>1, <2>6 DEF Works
<1>9. CASE i = 4 /\ b = Final(func)
  <2>1. pos = EpilogueOf(func) /\ a.regs = func.saved /\ s = GpRegs(func.saved)
        /\ (NeedsFrame(a) <=> Framed(func, adjust))
    BY <1>4, <1>5, <1>6, <1>9, FrameOfAdjustments
  <2>2. Emitted = Epilogue(a)
    BY <1>3, <1>5, <1>9 DEF StandsAt, Emitted
  <2>3. NeedsFrame(a)
    <3>1. CASE ~NeedsFrame(a)
      <4>1. Emitted = <<>>
        BY <2>2, <3>1 DEF Epilogue
      <4>. QED BY <1>1, <4>1
    <3>. QED BY <3>1
  <2>4. /\ Len(Epilogue(a)) = g + 1 /\ Epilogue(a)[g + 1] = Op("leave")
        /\ \A j \in 1 .. g : Epilogue(a)[j] = OnReg("pop", s[g + 1 - j])
    BY <1>6, <1>7, <2>3, FrameCode
  <2>5. \/ step \in 0 .. Len(s) - 1 /\ Pop(s[Len(s) - step])
        \/ step = Len(s) /\ Leave
    <3>1. step \in 0 .. g
      BY <1>1, <2>2, <2>4
    <3>2. CASE step = g
      BY <1>1, <1>7, <2>2, <2>4, <3>2, Executes
    <3>3. CASE step # g
      <4>1. step + 1 \in 1 .. g /\ g + 1 - (step + 1) = g - step /\ step \in 0 .. g - 1
        BY <3>1, <3>3
      <4>2. Emitted[step + 1] = OnReg("pop", s[g - step])
        BY <2>2, <2>4, <4>1
      <4>3. Pop(s[g - step])
        BY <1>1, <4>2, Executes
      <4>. QED BY <1>7, <4>1, <4>3
    <3>. QED BY <3>2, <3>3
  <2>6. LeaveFrame(s)
    BY <1>1, <2>1, <2>3, <2>5 DEF LeaveFrame
  <2>. QED BY <1>1, <2>6 DEF Works
<1>10. /\ Len(DownStack(a)) = g + 1 /\ DownStack(a)[1] = Move("sub", AdjustSize(a))
       /\ \A j \in 1 .. g : DownStack(a)[j + 1] = OnReg("push", s[g + 1 - j])
       /\ Len(UpStack(a)) = g + 1 /\ UpStack(a)[g + 1] = Move("add", AdjustSize(a))
       /\ \A j \in 1 .. g : UpStack(a)[j] = OnReg("pop", s[j])
  BY <1>6, <1>7, AdjustCode
<1>11. CASE i = 4 /\ b # Final(func)
  <2>1. pos = Down(b) /\ b \in Calling(func)
    BY <1>3, <1>4, <1>11 DEF StandsAt, Down
  <2>2. Emitted = DownStack(a)
    BY <1>3, <1>5, <1>11 DEF StandsAt, Emitted
  <2>3. \/ step = 0 /\ MoveRsp(-AdjustSize(a))
        \/ step \in 1 .. Len(s) /\ Push(s[Len(s) + 1 - step])
    <3>1. step \in 0 .. g
      BY <1>1, <1>10, <2>2
    <3>2. CASE step = 0
      BY <1>1, <1>10, <2>2, <3>2, Executes
    <3>3. CASE step # 0
      <4>1. step \in 1 .. g
        BY <3>1, <3>3
      <4>2. Emitted[step + 1] = OnReg("push", s[g + 1 - step])
        BY <1>10, <2>2, <4>1
      <4>3. Push(s[g + 1 - step])
        BY <1>1, <4>2, Executes
      <4>. QED BY <1>7, <4>1, <4>3
    <3>. QED BY <3>2, <3>3
  <2>4. GoDown(b, s)
    BY <1>1, <1>5, <1>6, <2>1, <2>3 DEF GoDown
  <2>. QED BY <1>1, <2>4 DEF Works
<1>12. CASE i = 1 /\ b # First(func)
  <2>1. PICK c \in Calling(func) : pos = Up(func, c)
    <3>1. Preceding(func, b) \in Calling(func) /\ Following(func, Preceding(func, b)) = b
      BY <1>1, <1>12, OrderFacts
    <3>. QED BY <1>4, <1>12, <3>1 DEF Up
  <2>2. Emitted = UpStack(a)
    BY <1>3, <1>5, <1>12 DEF StandsAt, Emitted
  <2>3. \/ step \in 0 .. Len(s) - 1 /\ Pop(s[step + 1])
        \/ step = Len(s) /\ MoveRsp(AdjustSize(a))
    <3>1. step \in 0 .. g
      BY <1>1, <1>10, <2>2
    <3>2. CASE step = g
      BY <1>1, <1>7, <1>10, <2>2, <3>2, Executes
    <3>3. CASE step # g
      <4>1. step + 1 \in 1 .. g /\ step \in 0 .. g - 1
        BY <3>1, <3>3
      <4>2. Emitted[step + 1] = OnReg("pop", s[step + 1])
        BY <1>10, <2>2, <4>1
      <4>3. Pop(s[step + 1])
        BY <1>1, <4>2, Executes
      <4>. QED BY <1>7, <4>1, <4>3
    <3>. QED BY <3>2, <3>3
  <2>4. GoUp(c, s)
    BY <1>1, <1>5, <1>6, <2>1, <2>3 DEF GoUp
  <2>. QED BY <1>1, <2>4 DEF Works
<1>. QED BY <1>4, <1>8, <1>9, <1>11, <1>12

(* So is the end of one.                                                   *)
LEMMA AdjustEnds ==
  ASSUME PassInv, FinishAdjust
  PROVE  Works
<1>1. /\ phase = "run" /\ Here.op \in AdjustKinds /\ step = Len(Emitted) /\ Advance
      /\ phase' = "run" /\ func \in Functions /\ UNCHANGED <<reg, mem>> /\ step' = 0
  BY DEF FinishAdjust, Advance, PassInv
<1>2. PICK b \in Blocks(func), n \in Nat : \E i \in 1 .. n + 5 : StandsAt(b, i, n)
  BY Standing DEF PassInv, FinishAdjust
<1>3. PICK i \in 1 .. n + 5 : StandsAt(b, i, n)
  BY <1>2
<1>4. i \in {1, 4} /\ pos = <<b, i>> /\ pos' = <<b, i + 1>>
  <2>1. i \in {1, 4} /\ pos = <<b, i>>
    BY <1>1, <1>3 DEF StandsAt
  <2>2. i < n + 5
    BY <2>1
  <2>. QED BY <1>1, <1>3, <2>1, <2>2 DEF StandsAt
<1>5. PICK a : a = adjust[pos]
  OBVIOUS
<1>6. PICK s \in Seq(Gp) : s = GpRegs(a.regs)
  <2>1. GpRegs(a.regs) \in Seq(Gp \cap a.regs)
    BY GpRegsFacts
  <2>. QED BY <2>1
<1>7. PICK g \in Nat : g = Len(s)
  OBVIOUS
<1>8. CASE i = 1 /\ b = First(func)
  <2>1. pos = PrologueOf(func) /\ s = GpRegs(func.saved)
        /\ (NeedsFrame(a) <=> Framed(func, adjust))
    BY <1>4, <1>5, <1>6, <1>8, FrameOfAdjustments
  <2>2. Emitted = Prologue(a)
    BY <1>3, <1>5, <1>8 DEF StandsAt, Emitted
  <2>3. NeedsFrame(a) => Len(Prologue(a)) = g + 3
    BY <1>6, <1>7, FrameCode
  <2>4. ~NeedsFrame(a) => Len(Prologue(a)) = 0
    BY DEF Prologue
  <2>5. IF Framed(func, adjust) THEN step = Len(GpRegs(func.saved)) + 3 ELSE step = 0
    BY <1>1, <1>7, <2>1, <2>2, <2>3, <2>4
  <2>6. EndPrologue
    BY <1>1, <1>4, <1>8, <2>1, <2>5 DEF EndPrologue, GoTo
  <2>. QED BY <1>1, <2>6 DEF Works
<1>9. CASE i = 4 /\ b = Final(func)
  <2>1. pos = EpilogueOf(func) /\ s = GpRegs(func.saved)
        /\ (NeedsFrame(a) <=> Framed(func, adjust))
    BY <1>4, <1>5, <1>6, <1>9, FrameOfAdjustments
  <2>2. Emitted = Epilogue(a)
    BY <1>3, <1>5, <1>9 DEF StandsAt, Emitted
  <2>3. NeedsFrame(a) => Len(Epilogue(a)) = g + 1
    BY <1>6, <1>7, FrameCode
  <2>4. ~NeedsFrame(a) => Len(Epilogue(a)) = 0
    BY DEF Epilogue
  <2>5. IF Framed(func, adjust) THEN step = Len(GpRegs(func.saved)) + 1 ELSE step = 0
    BY <1>1, <1>7, <2>1, <2>2, <2>3, <2>4
  <2>6. EndEpilogue
    BY <1>1, <1>4, <1>9, <2>1, <2>5 DEF EndEpilogue, GoTo
  <2>. QED BY <1>1, <2>6 DEF Works
<1>10. Len(DownStack(a)) = g + 1 /\ Len(UpStack(a)) = g + 1
  BY <1>6, <1>7, AdjustCode
<1>11. CASE i = 4 /\ b # Final(func)
  <2>1. pos = Down(b) /\ b \in Calling(func)
    BY <1>3, <1>4, <1>11 DEF StandsAt, Down
  <2>2. Emitted = DownStack(a)
    BY <1>3, <1>5, <1>11 DEF StandsAt, Emitted
  <2>3. EndDown(b, s)
    BY <1>1, <1>4, <1>5, <1>6, <1>7, <1>10, <1>11, <2>1, <2>2 DEF EndDown, GoTo
  <2>. QED BY <1>1, <2>3 DEF Works
<1>12. CASE i = 1 /\ b # First(func)
  <2>1. PICK c \in Calling(func) : pos = Up(func, c) /\ Following(func, c) = b
    <3>1. Preceding(func, b) \in Calling(func) /\ Following(func, Preceding(func, b)) = b
      BY <1>1, <1>12, OrderFacts
    <3>. QED BY <1>4, <1>12, <3>1 DEF Up
  <2>2. Emitted = UpStack(a)
    BY <1>3, <1>5, <1>12 DEF StandsAt, Emitted
  <2>3. EndUp(c, s)
    BY <1>1, <1>4, <1>5, <1>6, <1>7, <1>10, <1>12, <2>1, <2>2 DEF EndUp, GoTo
  <2>. QED BY <1>1, <2>3 DEF Works
<1>. QED BY <1>4, <1>8, <1>9, <1>11, <1>12

(* And so are all other steps.                                             *)
LEMMA OtherRuns ==
  ASSUME PassInv, RunDefinition \/ RunUse \/ RunPass \/ RunCall
  PROVE  Works
<1>1. /\ phase = "run" /\ phase' = "run" /\ Advance /\ func \in Functions /\ step' = 0
  BY DEF RunDefinition, RunUse, RunPass, RunCall, Advance, PassInv
<1>2. PICK b \in Blocks(func), n \in Nat : \E i \in 1 .. n + 5 : StandsAt(b, i, n)
  BY <1>1, Standing DEF PassInv
<1>3. PICK i \in 1 .. n + 5 : StandsAt(b, i, n)
  BY <1>2
<1>4. pos = <<b, i>>
  BY <1>3 DEF StandsAt
<1>5. CASE RunUse
  <2>1. i = 2 /\ UNCHANGED <<reg, mem>>
    BY <1>3, <1>5 DEF StandsAt, RunUse
  <2>2. i < n + 5
    BY <2>1
  <2>3. pos' = <<b, 3>>
    BY <1>1, <1>3, <2>1, <2>2 DEF StandsAt
  <2>4. Uses(b)
    BY <1>1, <1>4, <2>1, <2>3 DEF Uses, GoTo
  <2>. QED BY <1>1, <2>4 DEF Works
<1>6. CASE RunDefinition
  <2>1. i = 3 /\ UNCHANGED mem /\ Here.regs = Leaving(func, b) \ Entering(func, b)
    BY <1>3, <1>6 DEF StandsAt, RunDefinition
  <2>2. i < n + 5
    BY <2>1
  <2>3. pos' = <<b, 4>>
    BY <1>1, <1>3, <2>1, <2>2 DEF StandsAt
  <2>4. Defines(b)
    BY <1>1, <1>4, <1>6, <2>1, <2>3 DEF Defines, GoTo, RunDefinition
  <2>. QED BY <1>1, <2>4 DEF Works
<1>7. CASE RunPass
  <2>1. /\ b # Final(func) /\ i > 4 /\ i < n + 5 /\ Here.arg = i - 4
        /\ b \in Calling(func) /\ n = Len(func.calls[b].args)
    BY <1>3, <1>7 DEF StandsAt, RunPass
  <2>2. PICK k \in 1 .. Len(func.calls[b].args) : k = i - 4 /\ i = k + 4 /\ i + 1 = k + 5
    BY <2>1
  <2>3. pos' = <<b, k + 5>> /\ pos = <<b, k + 4>> /\ pos[1] = b /\ Here.arg = k
    BY <1>1, <1>3, <1>4, <2>1, <2>2 DEF StandsAt
  <2>4. PICK to : to = CallerPlace(func.calls[b].args, k)
    OBVIOUS
  <2>5. IF to.base = "rsp"
        THEN /\ mem' = Written(mem, Rsp + to.offset, AlignUp(func.calls[b].args[k].size, 8),
                               <<"argument", k>>)
             /\ UNCHANGED reg
        ELSE /\ reg' = [reg EXCEPT ![to.base] = <<"argument", k>>]
             /\ UNCHANGED mem
    BY <1>7, <2>3, <2>4 DEF RunPass
  <2>6. Passes(b, k, to)
    BY <1>1, <2>1, <2>3, <2>4, <2>5 DEF Passes, GoTo
  <2>. QED BY <1>1, <2>6 DEF Works
<1>8. CASE RunCall
  <2>1. b # Final(func) /\ i = n + 5 /\ b \in Calling(func) /\ n = Len(func.calls[b].args)
    BY <1>3, <1>8 DEF StandsAt, RunCall
  <2>2. pos' = Up(func, b) /\ pos[1] = b
    BY <1>1, <1>3, <1>4, <2>1 DEF StandsAt, Up
  <2>3. Calls(b)
    BY <1>1, <1>4, <1>8, <2>1, <2>2 DEF Calls, GoTo, RunCall
  <2>. QED BY <1>1, <2>3 DEF Works
<1>. QED BY <1>5, <1>6, <1>7, <1>8

(* Every step of the machine is one of these.                              *)
LEMMA RunSteps ==
  ASSUME PassInv, Next, phase = "run"
  PROVE  func' = func /\ adjust' = adjust /\ (Works \/ Returns)
<1>1. CASE RunAdjust
  BY <1>1, AdjustRuns DEF RunAdjust
<1>2. CASE FinishAdjust
  BY <1>2, AdjustEnds DEF FinishAdjust, Advance
<1>3. CASE RunDefinition \/ RunUse \/ RunPass \/ RunCall
  BY <1>3, OtherRuns DEF RunDefinition, RunUse, RunPass, RunCall, Advance
<1>4. CASE RunReturn
  <2>1. func \in Functions /\ IsAt(func, pos)
    BY <1>4 DEF PassInv, RunReturn
  <2>2. PICK b \in Blocks(func), n \in Nat : \E i \in 1 .. n + 5 : StandsAt(b, i, n)
    BY <2>1, Standing
  <2>3. pos = <<Final(func), 5>>
    BY <1>4, <2>2 DEF StandsAt, RunReturn
  <2>. QED BY <1>4, <2>3 DEF RunReturn, Returns
<1>5. ~Enter /\ ~InitializeAdjust
  BY DEF Enter, InitializeAdjust
<1>. QED BY <1>1, <1>2, <1>3, <1>4, <1>5 DEF Next

----------------------------------------------------------------------------
(* The two adjustments of a call once the pass is over.                    *)
Pushed(adj, at) == Len(GpRegs(adj[at].regs))

(* How far below the ground rsp is in a call.                              *)
Deep(adj, at) == AdjustSize(adj[at]) + 8 * Pushed(adj, at)

(* AdjustSize is no less than the area and aligns what has been pushed     *)
(* with it, counted in all registers.                                      *)
LEMMA AdjustSizes ==
  ASSUME NEW a, a.overflow \in Nat, IsFiniteSet(a.regs)
  PROVE  /\ AdjustSize(a) \in Nat /\ a.overflow <= AdjustSize(a)
         /\ Len(GpRegs(a.regs)) \in Nat
         /\ a.overflow % 8 = 0 =>
              (AdjustSize(a) + 8 * Len(GpRegs(a.regs))) % 16
                = (8 * (Cardinality(a.regs) + Len(GpRegs(a.regs)))) % 16
<1>1. PICK c \in Nat, g \in Nat, o \in Nat :
        c = Cardinality(a.regs) /\ g = Len(GpRegs(a.regs)) /\ o = a.overflow
  <2>1. Cardinality(a.regs) \in Nat
    BY FS_CardinalityType
  <2>2. GpRegs(a.regs) \in Seq(Gp \cap a.regs)
    BY GpRegsFacts
  <2>3. Len(GpRegs(a.regs)) \in Nat
    BY <2>2
  <2>. QED BY <2>1, <2>3
<1>2. AdjustSize(a) = o + ((o + 8 * c) % 16)
  BY <1>1 DEF AdjustSize
<1>3. (o + 8 * c) % 16 \in Nat
  OBVIOUS
<1>4. PICK z \in Nat : z = AdjustSize(a) /\ z = o + ((o + 8 * c) % 16) /\ o <= z
  BY <1>2, <1>3
<1>5. o % 8 = 0 => (z + 8 * g) % 16 = (8 * (c + g)) % 16
  BY <1>4
<1>6. (AdjustSize(a) + 8 * Len(GpRegs(a.regs))) % 16 = (z + 8 * g) % 16
      /\ (8 * (Cardinality(a.regs) + Len(GpRegs(a.regs)))) % 16 = (8 * (c + g)) % 16
  BY <1>1, <1>4
<1>7. a.overflow % 8 = o % 8
  BY <1>1
<1>. QED BY <1>1, <1>4, <1>5, <1>6, <1>7, Zenon

(* The two adjustments of a call agree and reserve its area, unless the    *)
(* call was outgrown or nothing was recorded for it.                       *)
LEMMA AdjustFacts ==
  ASSUME PassInv, phase # "callinfo", NEW b \in Calling(func)
  PROVE  /\ adjust[Down(b)].regs = adjust[Up(func, b)].regs
         /\ ~Outgrown(func, b) => adjust[Down(b)] = adjust[Up(func, b)]
         /\ \A at \in {Down(b), Up(func, b)} :
              /\ adjust[at].regs \subseteq CallerSaved /\ IsFiniteSet(adjust[at].regs)
              /\ adjust[at].overflow \in Nat
              /\ WholeWords(func) => adjust[at].overflow % 8 = 0
              /\ IF Reserved(func, b)
                 THEN adjust[at].regs = KeptOver(func, b) /\ AreaOf(func, b) <= adjust[at].overflow
                 ELSE adjust[at].regs = {} /\ adjust[at].overflow = 0
<1>1. /\ func \in Functions /\ InfoCall(func, adjust, max_area, Visited(func, phase, pos), b)
      /\ adjust \in Adjusts(func) /\ InfoWhole(func, adjust, max_area)
  BY DEF PassInv, Info
<1>2. /\ Down(b) \in Places(func) /\ Up(func, b) \in Places(func)
      /\ {SeenFirst(func, b), SeenLast(func, b)} = {Down(b), Up(func, b)}
  BY <1>1, AroundCall
<1>3. Down(b) \in Visited(func, phase, pos) /\ Up(func, b) \in Visited(func, phase, pos)
  BY <1>2 DEF Visited
<1>4. ASSUME NEW at \in {Down(b), Up(func, b)}
      PROVE  IF Reserved(func, b)
             THEN adjust[at].regs = KeptOver(func, b) /\ AreaOf(func, b) <= adjust[at].overflow
             ELSE adjust[at].regs = {} /\ adjust[at].overflow = 0
  BY <1>1, <1>3 DEF InfoCall
<1>5. ASSUME NEW at \in {Down(b), Up(func, b)}
      PROVE  /\ adjust[at].regs \subseteq CallerSaved /\ IsFiniteSet(adjust[at].regs)
             /\ adjust[at].overflow \in Nat
             /\ WholeWords(func) => adjust[at].overflow % 8 = 0
             /\ adjust[at] \in [regs : SUBSET Registers, overflow : Nat]
  <2>1. adjust[at] \in [regs : SUBSET Registers, overflow : Nat]
    BY <1>1, <1>2 DEF Adjusts
  <2>2. adjust[at].regs \in SUBSET CallerSaved
    BY <1>4 DEF Reserved
  <2>3. IsFiniteSet(adjust[at].regs)
    BY <2>2, ConventionFacts, FS_Subset
  <2>. QED BY <1>1, <1>2, <2>1, <2>2, <2>3 DEF InfoWhole
<1>6. ASSUME ~Outgrown(func, b) PROVE adjust[Down(b)] = adjust[Up(func, b)]
  <2>1. CASE Reserved(func, b)
    <3>1. adjust[SeenFirst(func, b)].overflow = adjust[SeenLast(func, b)].overflow
      BY <1>1, <1>2, <1>3, <1>6, <2>1 DEF InfoCall
    <3>2. adjust[Down(b)].overflow = adjust[Up(func, b)].overflow
      BY <1>2, <3>1
    <3>3. adjust[Down(b)].regs = adjust[Up(func, b)].regs
      BY <1>4, <2>1
    <3>4. /\ adjust[Down(b)] \in [regs : SUBSET Registers, overflow : Nat]
          /\ adjust[Up(func, b)] \in [regs : SUBSET Registers, overflow : Nat]
      BY <1>5
    <3>. QED BY <3>2, <3>3, <3>4
  <2>2. CASE ~Reserved(func, b)
    BY <1>1, <1>3, <2>2 DEF InfoCall
  <2>. QED BY <2>1, <2>2
<1>. QED BY <1>4, <1>5, <1>6

----------------------------------------------------------------------------
(* Where rsp and rbp point.  Ground is where rsp is between calls; a call  *)
(* that has been outgrown leaves it off by some d.                         *)
Saved(f) == Len(GpRegs(f.saved))

(* Where rsp is between calls.                                             *)
Ground(f, adj) == IF Framed(f, adj) THEN Entry - 8 - FrameSize(f) - 8 * Saved(f) ELSE Entry

(* What a call that has been outgrown leaves it off by.                    *)
Drift(f, adj, d) ==
    /\ WholeWords(f) => d % 16 = 0
    /\ (\A b \in Calling(f) : ~Outgrown(f, b)) => d = 0

(* Where rsp is at instruction i of block b, k steps into what is emitted  *)
(* for it.                                                                 *)
Level(f, adj, b, i, k, d) ==
    IF i = 1 /\ b = First(f)
    THEN IF k = 0 THEN Entry ELSE IF k <= 2 THEN Entry - 8
         ELSE Entry - 8 - FrameSize(f) - 8 * (k - 3)
    ELSE IF i = 1
    THEN IF k <= Pushed(adj, <<b, 1>>)
         THEN Ground(f, adj) + d - Deep(adj, <<b, 1>>) + 8 * k
         ELSE Ground(f, adj) + d
    ELSE IF i \in {2, 3} THEN Ground(f, adj) + d
    ELSE IF b # Final(f)
    THEN IF i # 4 THEN Ground(f, adj) + d - Deep(adj, <<b, 4>>)
         ELSE IF k = 0 THEN Ground(f, adj) + d
         ELSE Ground(f, adj) + d - AdjustSize(adj[<<b, 4>>]) - 8 * (k - 1)
    ELSE IF Framed(f, adj) /\ (i # 4 \/ k > Saved(f)) THEN Entry
    ELSE Ground(f, adj) + d + 8 * k

(* rbp holds the frame.                                                    *)
Inside(f, b, i, k) ==
    /\ ~(i = 1 /\ b = First(f) /\ k < 2)
    /\ ~(b = Final(f) /\ ((i = 4 /\ k > Saved(f)) \/ i = 5))

(* rsp and rbp are where they are expected.                                *)
StackIs(f, adj, p, k, rg) ==
    /\ rg = [r \in Registers |-> rg[r]]
    /\ \E d \in Int : Drift(f, adj, d) /\ rg["rsp"] = Address(Level(f, adj, p[1], p[2], k, d))
    /\ Framed(f, adj) /\ Inside(f, p[1], p[2], k) => rg["rbp"] = Address(Entry - 8)

(* At every step of the run.                                               *)
StackInv == phase # "callinfo" => StackIs(func, adjust, pos, step, reg)

(* What the instructions do to the registers and the stack.                *)
Alike(rg, new, changed) ==
    new = [r \in Registers |-> new[r]] /\ \A r \in Registers \ changed : new[r] = rg[r]

(* Each instruction of the machine changes the registers and the stack     *)
(* only so.                                                                *)
LEMMA Machine ==
  ASSUME reg = [r \in Registers |-> reg[r]], NEW t \in Int, reg["rsp"] = Address(t)
  PROVE  /\ Rsp = t
         /\ \A n \in Int : MoveRsp(n) =>
              Alike(reg, reg', {"rsp"}) /\ reg'["rsp"] = Address(t + n) /\ mem' = mem
         /\ \A r \in Registers : Push(r) =>
              /\ Alike(reg, reg', {"rsp"}) /\ reg'["rsp"] = Address(t - 8)
              /\ mem' = Written(mem, t - 8, 8, reg[r])
         /\ \A r \in Registers \ {"rsp"} : Pop(r) =>
              /\ Alike(reg, reg', {"rsp", r}) /\ reg'["rsp"] = Address(t + 8)
              /\ reg'[r] = ReadAt(mem, t) /\ mem' = mem
         /\ SetFrame => /\ Alike(reg, reg', {"rbp"}) /\ reg'["rbp"] = Address(t) /\ mem' = mem
         /\ \A u \in Int : Leave /\ reg["rbp"] = Address(u) =>
              /\ Alike(reg, reg', {"rsp", "rbp"}) /\ reg'["rsp"] = Address(u + 8)
              /\ reg'["rbp"] = ReadAt(mem, u) /\ mem' = mem
<1>1. Rsp = t
  BY DEF Rsp, Address
<1>2. "rsp" \in Registers /\ "rbp" \in Registers
  BY ConventionFacts
<1>3. ASSUME NEW n \in Int, MoveRsp(n)
      PROVE  Alike(reg, reg', {"rsp"}) /\ reg'["rsp"] = Address(t + n) /\ mem' = mem
  BY <1>1, <1>2, <1>3 DEF MoveRsp, Alike
<1>4. ASSUME NEW r \in Registers, Push(r)
      PROVE  /\ Alike(reg, reg', {"rsp"}) /\ reg'["rsp"] = Address(t - 8)
             /\ mem' = Written(mem, t - 8, 8, reg[r])
  BY <1>1, <1>2, <1>4 DEF Push, Alike
<1>5. ASSUME NEW r \in Registers \ {"rsp"}, Pop(r)
      PROVE  /\ Alike(reg, reg', {"rsp", r}) /\ reg'["rsp"] = Address(t + 8)
             /\ reg'[r] = ReadAt(mem, t) /\ mem' = mem
  BY <1>1, <1>2, <1>5 DEF Pop, Alike
<1>6. ASSUME SetFrame
      PROVE  Alike(reg, reg', {"rbp"}) /\ reg'["rbp"] = Address(t) /\ mem' = mem
  BY <1>2, <1>6 DEF SetFrame, Alike
<1>7. ASSUME NEW u \in Int, Leave, reg["rbp"] = Address(u)
      PROVE  /\ Alike(reg, reg', {"rsp", "rbp"}) /\ reg'["rsp"] = Address(u + 8)
             /\ reg'["rbp"] = ReadAt(mem, u) /\ mem' = mem
  <2>1. reg["rbp"][2] = u
    BY <1>7 DEF Address
  <2>. QED BY <1>2, <1>7, <2>1 DEF Leave, Alike
<1>. QED BY <1>1, <1>3, <1>4, <1>5, <1>6, <1>7

(* The sizes of the frame are numbers.                                     *)
LEMMA Sizes ==
  ASSUME PassInv
  PROVE  /\ FrameSize(func) \in Nat /\ Saved(func) \in Nat /\ Ground(func, adjust) \in Int
         /\ Ground(func, adjust) <= Entry
         /\ WholeWords(func) => FrameSize(func) % 16 = 0
         /\ GpRegs(func.saved) \in Seq(func.saved) /\ Distinct(GpRegs(func.saved))
         /\ \A r \in func.saved : \E i \in 1 .. Saved(func) : GpRegs(func.saved)[i] = r
         /\ Saved(func) = Cardinality(func.saved)
<1>1. func \in Functions
  BY DEF PassInv
<1>2. func.local \in Nat /\ func.saved \subseteq Gp /\ IsFiniteSet(func.saved)
  BY <1>1, SavedFacts
<1>3. Gp \cap func.saved = func.saved
  BY <1>2
<1>4. PICK s \in Seq(func.saved) : /\ s = GpRegs(func.saved) /\ Distinct(s)
                                   /\ \A r \in func.saved : \E i \in 1 .. Len(s) : s[i] = r
  <2>1. /\ GpRegs(func.saved) \in Seq(Gp \cap func.saved) /\ Distinct(GpRegs(func.saved))
        /\ \A r \in Gp \cap func.saved :
             \E i \in 1 .. Len(GpRegs(func.saved)) : GpRegs(func.saved)[i] = r
    BY GpRegsFacts
  <2>. QED BY <1>3, <2>1
<1>5. PICK g \in Nat : g = Len(s) /\ Saved(func) = g
  BY <1>4 DEF Saved
<1>6. g = Cardinality(func.saved)
  BY <1>2, <1>3, <1>4, <1>5, GpRegsCount
<1>7. FrameSize(func) \in Nat
  BY <1>2 DEF FrameSize
<1>8. ASSUME WholeWords(func) PROVE FrameSize(func) % 16 = 0
  <2>1. func.local % 8 = 0
    BY <1>8 DEF WholeWords
  <2>2. PICK x \in Nat : x = func.local
    BY <1>2
  <2>3. x % 8 = 0 => (x + (x % 16)) % 16 = 0
    OBVIOUS
  <2>. QED BY <2>1, <2>2, <2>3 DEF FrameSize
<1>9. Ground(func, adjust) \in Int /\ Ground(func, adjust) <= Entry
  BY <1>5, <1>7 DEF Ground, Entry
<1>. QED BY <1>4, <1>5, <1>6, <1>7, <1>8, <1>9

(* Those of a call as well; what it pushes are caller-saved registers,     *)
(* each once.                                                              *)
LEMMA CallSizes ==
  ASSUME PassInv, phase # "callinfo", NEW b \in Calling(func), NEW at \in {Down(b), Up(func, b)}
  PROVE  /\ AdjustSize(adjust[at]) \in Nat /\ Pushed(adjust, at) \in Nat
         /\ Deep(adjust, at) = AdjustSize(adjust[at]) + 8 * Pushed(adjust, at)
         /\ Deep(adjust, at) \in Nat
         /\ adjust[at].overflow <= AdjustSize(adjust[at])
         /\ GpRegs(adjust[at].regs) \in Seq(CallerSaved \cap Registers)
         /\ Distinct(GpRegs(adjust[at].regs))
         /\ \A r \in Gp \cap adjust[at].regs :
              \E j \in 1 .. Pushed(adjust, at) : GpRegs(adjust[at].regs)[j] = r
         /\ WholeWords(func) =>
              Deep(adjust, at) % 16 = (8 * (Cardinality(adjust[at].regs) + Pushed(adjust, at))) % 16
<1>1. PICK a : a = adjust[at]
  OBVIOUS
<1>2. /\ a.regs \subseteq CallerSaved /\ IsFiniteSet(a.regs) /\ a.overflow \in Nat
      /\ WholeWords(func) => a.overflow % 8 = 0
  BY <1>1, AdjustFacts
<1>3. /\ AdjustSize(a) \in Nat /\ a.overflow <= AdjustSize(a) /\ Len(GpRegs(a.regs)) \in Nat
      /\ a.overflow % 8 = 0 =>
           (AdjustSize(a) + 8 * Len(GpRegs(a.regs))) % 16
             = (8 * (Cardinality(a.regs) + Len(GpRegs(a.regs)))) % 16
  BY <1>2, AdjustSizes
<1>4. PICK s \in Seq(Gp \cap a.regs) : /\ s = GpRegs(a.regs) /\ Distinct(s)
                                       /\ \A r \in Gp \cap a.regs : \E i \in 1 .. Len(s) : s[i] = r
  BY GpRegsFacts
<1>5. s \in Seq(CallerSaved \cap Registers)
  <2>1. Gp \cap a.regs \subseteq CallerSaved \cap Registers
    BY <1>2, ConventionFacts
  <2>. QED BY <1>4, <2>1
<1>6. Deep(adjust, at) = AdjustSize(a) + 8 * Len(s) /\ Pushed(adjust, at) = Len(s)
  BY <1>1, <1>4 DEF Deep, Pushed
<1>7. Deep(adjust, at) \in Nat
  BY <1>3, <1>4, <1>6
<1>. QED BY <1>1, <1>2, <1>3, <1>4, <1>5, <1>6, <1>7

(* rsp always holds an address, and that of its level.                     *)
LEMMA StackFacts ==
  ASSUME PassInv, StackInv, phase # "callinfo"
  PROVE  /\ reg = [r \in Registers |-> reg[r]]
         /\ \E d \in Int, t \in Int : /\ Drift(func, adjust, d) /\ reg["rsp"] = Address(t)
                                      /\ t = Level(func, adjust, pos[1], pos[2], step, d)
<1>1. func \in Functions /\ step \in Nat /\ IsAt(func, pos)
  BY DEF PassInv
<1>2. PICK b \in Blocks(func), i \in Nat : pos = <<b, i>>
  BY <1>1 DEF IsAt
<1>3. /\ reg = [r \in Registers |-> reg[r]]
      /\ \E d \in Int : /\ Drift(func, adjust, d)
                        /\ reg["rsp"] = Address(Level(func, adjust, b, i, step, d))
  BY <1>2 DEF StackInv, StackIs
<1>4. PICK d \in Int : /\ Drift(func, adjust, d)
                       /\ reg["rsp"] = Address(Level(func, adjust, b, i, step, d))
  BY <1>3
<1>5. Level(func, adjust, b, i, step, d) \in Int
  <2>1. PICK gr \in Int, fs \in Nat : gr = Ground(func, adjust) /\ fs = FrameSize(func)
    BY Sizes
  <2>2. CASE i = 1 /\ b = First(func)
    BY <1>1, <2>1, <2>2 DEF Level, Entry
  <2>3. CASE i = 1 /\ b # First(func)
    <3>1. Preceding(func, b) \in Calling(func) /\ Up(func, Preceding(func, b)) = <<b, 1>>
      BY <1>1, <2>3, OrderFacts DEF Up
    <3>2. Deep(adjust, <<b, 1>>) \in Nat
      BY <3>1, CallSizes
    <3>. QED BY <1>1, <2>1, <2>3, <3>2 DEF Level
  <2>4. CASE i \in {2, 3}
    BY <1>1, <2>1, <2>4 DEF Level
  <2>5. CASE i \notin {1, 2, 3} /\ b # Final(func)
    <3>1. b \in Calling(func) /\ Down(b) = <<b, 4>>
      BY <2>5 DEF Calling, Down
    <3>2. Deep(adjust, <<b, 4>>) \in Nat /\ AdjustSize(adjust[<<b, 4>>]) \in Nat
      BY <3>1, CallSizes
    <3>. QED BY <1>1, <2>1, <2>5, <3>2 DEF Level
  <2>6. CASE i \notin {1, 2, 3} /\ b = Final(func)
    BY <1>1, <2>1, <2>6 DEF Level, Entry
  <2>. QED BY <2>2, <2>3, <2>4, <2>5, <2>6
<1>. QED BY <1>2, <1>3, <1>4, <1>5

(* A step keeps rsp where it is expected.                                  *)
LEMMA StackAfter ==
  ASSUME NEW f, NEW adj, NEW b, NEW i, NEW k, NEW rg, NEW d \in Int,
         rg = [r \in Registers |-> rg[r]],
         Drift(f, adj, d), rg["rsp"] = Address(Level(f, adj, b, i, k, d)),
         Framed(f, adj) /\ Inside(f, b, i, k) => rg["rbp"] = Address(Entry - 8)
  PROVE  StackIs(f, adj, <<b, i>>, k, rg)
BY DEF StackIs

(* The instructions of prologue and epilogue keep it where it is expected. *)
LEMMA StackInFrame ==
  ASSUME PassInv, StackInv, phase = "run", NEW s, EnterFrame(s) \/ LeaveFrame(s)
  PROVE  StackIs(func, adjust, pos', step', reg')
<1>1. /\ func \in Functions /\ step \in Nat /\ pos' = pos /\ step' = step + 1 /\ Framed(func, adjust)
      /\ PrologueOf(func) = <<First(func), 1>> /\ EpilogueOf(func) = <<Final(func), 4>>
      /\ s = GpRegs(func.saved) /\ Entry = 1000
  BY FrameOfAdjustments DEF PassInv, EnterFrame, LeaveFrame, Stay, Entry
<1>2. PICK d \in Int, t \in Int : /\ Drift(func, adjust, d) /\ reg["rsp"] = Address(t)
                                  /\ t = Level(func, adjust, pos[1], pos[2], step, d)
  BY StackFacts
<1>3. reg = [r \in Registers |-> reg[r]]
  BY StackFacts
<1>4. "rsp" \in Registers /\ "rbp" \in Registers /\ "rsp" # "rbp"
  BY ConventionFacts
<1>5. PICK g \in Nat, fs \in Nat : /\ g = Len(s) /\ g = Saved(func) /\ fs = FrameSize(func)
                                   /\ Ground(func, adjust) = Entry - 8 - fs - 8 * g
  BY <1>1, Sizes DEF Ground, Saved
<1>6. \A j \in 1 .. g : s[j] \in Registers \ {"rsp", "rbp"}
  <2>1. func.saved \subseteq Registers \ {"rsp", "rbp"}
    BY <1>1, SavedFacts, ConventionFacts
  <2>2. s \in Seq(func.saved)
    BY <1>1, Sizes
  <2>3. \A j \in 1 .. Len(s) : s[j] \in func.saved
    BY <2>2
  <2>4. \A j \in 1 .. g : s[j] \in func.saved
    BY <1>5, <2>3
  <2>. QED BY <2>1, <2>4
<1>7. CASE EnterFrame(s)
  <2>1. pos = <<First(func), 1>>
    BY <1>1, <1>7 DEF EnterFrame
  <2>2. t = IF step = 0 THEN Entry ELSE IF step <= 2 THEN Entry - 8 ELSE Entry - 8 - fs - 8 * (step - 3)
    BY <1>2, <1>5, <2>1 DEF Level
  <2>3. \A k : Level(func, adjust, First(func), 1, k, d) =
                 IF k = 0 THEN Entry ELSE IF k <= 2 THEN Entry - 8 ELSE Entry - 8 - fs - 8 * (k - 3)
    BY <1>5 DEF Level
  <2>4. step >= 2 => reg["rbp"] = Address(Entry - 8)
    <3>1. step >= 2 => Inside(func, First(func), 1, step)
      BY <1>1 DEF Inside
    <3>. QED BY <1>1, <2>1, <3>1 DEF StackInv, StackIs
  <2>5. step + 1 < 2 => ~Inside(func, First(func), 1, step + 1)
    BY DEF Inside
  <2>6. CASE step = 0 /\ Push("rbp")
    <3>1. Alike(reg, reg', {"rsp"}) /\ reg'["rsp"] = Address(t - 8)
      BY <1>2, <1>3, <1>4, <2>6, Machine
    <3>2. t - 8 = Level(func, adjust, First(func), 1, 1, d)
      BY <2>2, <2>3, <2>6
    <3>3. ~Inside(func, First(func), 1, 1)
      BY DEF Inside
    <3>4. reg' = [r \in Registers |-> reg'[r]]
      BY <3>1 DEF Alike
    <3>5. StackIs(func, adjust, <<First(func), 1>>, 1, reg')
      BY <1>2, <3>1, <3>2, <3>3, <3>4, StackAfter
    <3>. QED BY <1>1, <2>1, <2>6, <3>5
  <2>7. CASE step = 1 /\ SetFrame
    <3>1. Alike(reg, reg', {"rbp"}) /\ reg'["rbp"] = Address(t)
      BY <1>2, <1>3, <2>7, Machine
    <3>2. t = Entry - 8 /\ t = Level(func, adjust, First(func), 1, 2, d)
      BY <2>2, <2>3, <2>7
    <3>3. reg' = [r \in Registers |-> reg'[r]] /\ reg'["rsp"] = Address(t)
      BY <1>2, <1>4, <3>1 DEF Alike
    <3>4. StackIs(func, adjust, <<First(func), 1>>, 2, reg')
      BY <1>2, <3>1, <3>2, <3>3, StackAfter
    <3>. QED BY <1>1, <2>1, <2>7, <3>4
  <2>8. CASE step = 2 /\ MoveRsp(-FrameSize(func))
    <3>0. -FrameSize(func) \in Int /\ -FrameSize(func) = 0 - fs
      BY <1>5
    <3>1. Alike(reg, reg', {"rsp"}) /\ reg'["rsp"] = Address(t - fs)
      <4>1. reg'["rsp"] = Address(t + (-FrameSize(func))) /\ Alike(reg, reg', {"rsp"})
        BY <1>2, <1>3, <2>8, <3>0, Machine
      <4>2. t + (-FrameSize(func)) = t - fs
        BY <3>0
      <4>. QED BY <4>1, <4>2
    <3>2. t - fs = Level(func, adjust, First(func), 1, 3, d)
      BY <1>1, <2>2, <2>3, <2>8
    <3>3. reg' = [r \in Registers |-> reg'[r]] /\ reg'["rbp"] = reg["rbp"]
      BY <1>4, <3>1 DEF Alike
    <3>4. reg["rbp"] = Address(Entry - 8)
      BY <2>4, <2>8
    <3>5. StackIs(func, adjust, <<First(func), 1>>, 3, reg')
      BY <1>2, <3>1, <3>2, <3>3, <3>4, StackAfter
    <3>. QED BY <1>1, <2>1, <2>8, <3>5
  <2>9. CASE step - 2 \in 1 .. Len(s) /\ Push(s[step - 2])
    <3>1. s[step - 2] \in Registers
      BY <1>5, <1>6, <2>9
    <3>2. Alike(reg, reg', {"rsp"}) /\ reg'["rsp"] = Address(t - 8)
      BY <1>2, <1>3, <2>9, <3>1, Machine
    <3>3. step >= 3 /\ step + 1 # 0 /\ ~(step + 1 <= 2)
      BY <1>1, <1>5, <2>9
    <3>4. t - 8 = Level(func, adjust, First(func), 1, step + 1, d)
      BY <1>1, <2>2, <2>3, <3>3
    <3>5. reg' = [r \in Registers |-> reg'[r]] /\ reg'["rbp"] = reg["rbp"]
      BY <1>4, <3>2 DEF Alike
    <3>6. reg["rbp"] = Address(Entry - 8)
      BY <1>1, <2>4, <3>3
    <3>7. StackIs(func, adjust, <<First(func), 1>>, step + 1, reg')
      BY <1>2, <3>2, <3>4, <3>5, <3>6, StackAfter
    <3>. QED BY <1>1, <2>1, <3>7
  <2>. QED BY <1>7, <2>6, <2>7, <2>8, <2>9 DEF EnterFrame
<1>8. CASE LeaveFrame(s)
  <2>1. pos = <<Final(func), 4>>
    BY <1>1, <1>8 DEF LeaveFrame
  <2>2. \A k : Level(func, adjust, Final(func), 4, k, d) =
                 IF k > g THEN Entry ELSE Ground(func, adjust) + d + 8 * k
    BY <1>1, <1>5 DEF Level
  <2>3. step <= g /\ Inside(func, Final(func), 4, step)
    <3>1. step <= g
      BY <1>1, <1>5, <1>8 DEF LeaveFrame
    <3>2. ~(step > g)
      BY <1>1, <3>1
    <3>. QED BY <1>5, <3>1, <3>2 DEF Inside
  <2>4. t = Ground(func, adjust) + d + 8 * step
    BY <1>1, <1>2, <2>1, <2>2, <2>3
  <2>5. reg["rbp"] = Address(Entry - 8)
    BY <1>1, <2>1, <2>3 DEF StackInv, StackIs
  <2>6. CASE step \in 0 .. Len(s) - 1 /\ Pop(s[Len(s) - step])
    <3>1. s[g - step] \in Registers \ {"rsp", "rbp"} /\ step + 1 <= g
      <4>1. g - step \in 1 .. g
        BY <1>1, <1>5, <2>6
      <4>. QED BY <1>1, <1>6, <4>1
    <3>2. Alike(reg, reg', {"rsp", s[g - step]}) /\ reg'["rsp"] = Address(t + 8)
      <4>1. Pop(s[g - step])
        BY <1>5, <2>6
      <4>. QED BY <1>2, <1>3, <3>1, <4>1, Machine
    <3>3. t + 8 = Level(func, adjust, Final(func), 4, step + 1, d)
      <4>1. ~(step + 1 > g)
        BY <1>1, <3>1
      <4>2. Level(func, adjust, Final(func), 4, step + 1, d) = Ground(func, adjust) + d + 8 * (step + 1)
        BY <2>2, <4>1
      <4>. QED BY <1>1, <1>5, <2>4, <4>2
    <3>4. reg' = [r \in Registers |-> reg'[r]] /\ reg'["rbp"] = Address(Entry - 8)
      BY <1>4, <2>5, <3>1, <3>2 DEF Alike
    <3>5. StackIs(func, adjust, <<Final(func), 4>>, step + 1, reg')
      BY <1>2, <3>2, <3>3, <3>4, StackAfter
    <3>. QED BY <1>1, <2>1, <3>5
  <2>7. CASE step = Len(s) /\ Leave
    <3>1. Alike(reg, reg', {"rsp", "rbp"}) /\ reg'["rsp"] = Address((Entry - 8) + 8)
      <4>1. Entry - 8 \in Int
        BY <1>1
      <4>. QED BY <1>2, <1>3, <2>5, <2>7, <4>1, Machine
    <3>2. step + 1 > g /\ (Entry - 8) + 8 = Entry
      <4>1. step = g
        BY <1>5, <2>7
      <4>2. step + 1 > g
        BY <4>1
      <4>3. (Entry - 8) + 8 = Entry
        BY <1>1
      <4>. QED BY <4>2, <4>3
    <3>3. Level(func, adjust, Final(func), 4, step + 1, d) = Entry
      BY <2>2, <3>2
    <3>4. ~Inside(func, Final(func), 4, step + 1)
      BY <1>5, <3>2 DEF Inside
    <3>5. reg' = [r \in Registers |-> reg'[r]]
      BY <3>1 DEF Alike
    <3>6. StackIs(func, adjust, <<Final(func), 4>>, step + 1, reg')
      BY <1>2, <3>1, <3>2, <3>3, <3>4, <3>5, StackAfter
    <3>. QED BY <1>1, <2>1, <3>6
  <2>. QED BY <1>8, <2>6, <2>7 DEF LeaveFrame
<1>. QED BY <1>7, <1>8

(* Where a call's adjustments are, and what rsp is there.                  *)
LEMMA CallPlaces ==
  ASSUME PassInv, phase # "callinfo", NEW b \in Calling(func)
  PROVE  /\ Down(b) = <<b, 4>> /\ Up(func, b) = <<Following(func, b), 1>>
         /\ b \in Blocks(func) /\ b # Final(func)
         /\ Following(func, b) \in Blocks(func) /\ Following(func, b) # First(func)
         /\ Preceding(func, Following(func, b)) = b
         /\ \A k, d : Level(func, adjust, b, 4, k, d) =
                        IF k = 0 THEN Ground(func, adjust) + d
                        ELSE Ground(func, adjust) + d - AdjustSize(adjust[Down(b)]) - 8 * (k - 1)
         /\ \A k, d : Level(func, adjust, Following(func, b), 1, k, d) =
                        IF k <= Pushed(adjust, Up(func, b))
                        THEN Ground(func, adjust) + d - Deep(adjust, Up(func, b)) + 8 * k
                        ELSE Ground(func, adjust) + d
         /\ \A i \in Nat : \A k, d : i > 4 =>
              Level(func, adjust, b, i, k, d) = Ground(func, adjust) + d - Deep(adjust, Down(b))
         /\ \A i, k : Inside(func, b, i, k) <=> ~(i = 1 /\ b = First(func) /\ k < 2)
         /\ \A k : Inside(func, Following(func, b), 1, k)
<1>1. /\ func \in Functions /\ b # Final(func) /\ b \in Blocks(func)
  BY DEF PassInv, Calling
<1>2. /\ Following(func, b) \in Blocks(func) /\ Following(func, b) # First(func)
      /\ Preceding(func, Following(func, b)) = b
  BY <1>1, OrderFacts
<1>3. Down(b) = <<b, 4>> /\ Up(func, b) = <<Following(func, b), 1>>
  BY DEF Down, Up
<1>4. ASSUME NEW k, NEW d
      PROVE  Level(func, adjust, b, 4, k, d) =
                        IF k = 0 THEN Ground(func, adjust) + d
                        ELSE Ground(func, adjust) + d - AdjustSize(adjust[Down(b)]) - 8 * (k - 1)
  BY <1>1, <1>3 DEF Level
<1>5. ASSUME NEW k, NEW d
      PROVE  Level(func, adjust, Following(func, b), 1, k, d) =
                        IF k <= Pushed(adjust, Up(func, b))
                        THEN Ground(func, adjust) + d - Deep(adjust, Up(func, b)) + 8 * k
                        ELSE Ground(func, adjust) + d
  BY <1>2, <1>3 DEF Level
<1>6. ASSUME NEW i \in Nat, NEW k, NEW d, i > 4
      PROVE  Level(func, adjust, b, i, k, d) = Ground(func, adjust) + d - Deep(adjust, Down(b))
  <2>1. i # 1 /\ i \notin {2, 3} /\ i # 4
    BY <1>6
  <2>. QED BY <1>1, <1>3, <2>1 DEF Level
<1>7. \A i, k : Inside(func, b, i, k) <=> ~(i = 1 /\ b = First(func) /\ k < 2)
  BY <1>1 DEF Inside
<1>8. \A k : Inside(func, Following(func, b), 1, k)
  BY <1>2 DEF Inside
<1>. QED BY <1>1, <1>2, <1>3, <1>4, <1>5, <1>6, <1>7, <1>8

(* So do those around a call.                                              *)
LEMMA StackInCall ==
  ASSUME PassInv, StackInv, phase = "run", NEW b, NEW s, GoDown(b, s) \/ GoUp(b, s)
  PROVE  StackIs(func, adjust, pos', step', reg')
<1>1. b \in Calling(func) /\ func \in Functions /\ step \in Nat /\ pos' = pos /\ step' = step + 1
      /\ s = GpRegs(adjust[pos].regs) /\ pos \in {Down(b), Up(func, b)}
  BY DEF PassInv, GoDown, GoUp, Stay
<1>2. PICK d \in Int, t \in Int : /\ Drift(func, adjust, d) /\ reg["rsp"] = Address(t)
                                  /\ t = Level(func, adjust, pos[1], pos[2], step, d)
  BY StackFacts
<1>3. reg = [r \in Registers |-> reg[r]]
  BY StackFacts
<1>4. "rsp" \in Registers /\ "rbp" \in Registers /\ "rsp" # "rbp"
  BY ConventionFacts
<1>5. PICK g \in Nat, z \in Nat, gr \in Int :
        /\ g = Len(s) /\ g = Pushed(adjust, pos) /\ z = AdjustSize(adjust[pos])
        /\ Deep(adjust, pos) = z + 8 * g /\ gr = Ground(func, adjust)
  BY <1>1, CallSizes, Sizes DEF Pushed
<1>6. \A j \in 1 .. Len(s) : s[j] \in Registers \ {"rsp", "rbp"}
  <2>1. s \in Seq(CallerSaved \cap Registers)
    BY <1>1, CallSizes
  <2>2. \A j \in 1 .. Len(s) : s[j] \in CallerSaved \cap Registers
    BY <2>1
  <2>. QED BY <2>2, ConventionFacts
<1>7. CASE GoDown(b, s)
  <2>1. pos = <<b, 4>> /\ pos = Down(b)
    BY <1>1, <1>7, CallPlaces DEF GoDown
  <2>2. \A k : Level(func, adjust, b, 4, k, d) = IF k = 0 THEN gr + d ELSE gr + d - z - 8 * (k - 1)
    BY <1>1, <1>5, <2>1, CallPlaces
  <2>3. \A k : Inside(func, b, 4, k)
    BY <1>1, CallPlaces
  <2>4. Framed(func, adjust) => reg["rbp"] = Address(Entry - 8)
    BY <2>1, <2>3 DEF StackInv, StackIs
  <2>5. t = IF step = 0 THEN gr + d ELSE gr + d - z - 8 * (step - 1)
    BY <1>2, <2>1, <2>2
  <2>6. CASE step = 0 /\ MoveRsp(-AdjustSize(adjust[pos]))
    <3>0. -AdjustSize(adjust[pos]) \in Int /\ -AdjustSize(adjust[pos]) = 0 - z
      BY <1>5
    <3>1. Alike(reg, reg', {"rsp"}) /\ reg'["rsp"] = Address(t - z)
      <4>1. reg'["rsp"] = Address(t + (-AdjustSize(adjust[pos]))) /\ Alike(reg, reg', {"rsp"})
        BY <1>2, <1>3, <2>6, <3>0, Machine
      <4>2. t + (-AdjustSize(adjust[pos])) = t - z
        BY <3>0
      <4>. QED BY <4>1, <4>2
    <3>2. t - z = Level(func, adjust, b, 4, 1, d)
      BY <2>2, <2>5, <2>6
    <3>3. reg' = [r \in Registers |-> reg'[r]] /\ reg'["rbp"] = reg["rbp"]
      BY <1>4, <3>1 DEF Alike
    <3>4. StackIs(func, adjust, <<b, 4>>, 1, reg')
      BY <1>2, <2>4, <3>1, <3>2, <3>3, StackAfter
    <3>. QED BY <1>1, <2>1, <2>6, <3>4
  <2>7. CASE step \in 1 .. Len(s) /\ Push(s[Len(s) + 1 - step])
    <3>1. s[g + 1 - step] \in Registers
      <4>1. g + 1 - step \in 1 .. g
        BY <1>1, <1>5, <2>7
      <4>. QED BY <1>5, <1>6, <4>1
    <3>2. Alike(reg, reg', {"rsp"}) /\ reg'["rsp"] = Address(t - 8)
      <4>1. Push(s[g + 1 - step])
        BY <1>5, <2>7
      <4>. QED BY <1>2, <1>3, <3>1, <4>1, Machine
    <3>3. t - 8 = Level(func, adjust, b, 4, step + 1, d)
      <4>1. step # 0 /\ step + 1 # 0
        BY <1>1, <1>5, <2>7
      <4>2. Level(func, adjust, b, 4, step + 1, d) = gr + d - z - 8 * ((step + 1) - 1)
        BY <2>2, <4>1
      <4>. QED BY <1>1, <1>5, <2>5, <4>1, <4>2
    <3>4. reg' = [r \in Registers |-> reg'[r]] /\ reg'["rbp"] = reg["rbp"]
      BY <1>4, <3>2 DEF Alike
    <3>5. StackIs(func, adjust, <<b, 4>>, step + 1, reg')
      BY <1>2, <2>4, <3>2, <3>3, <3>4, StackAfter
    <3>. QED BY <1>1, <2>1, <3>5
  <2>. QED BY <1>7, <2>6, <2>7 DEF GoDown
<1>8. CASE GoUp(b, s)
  <2>0. PICK c : c = Following(func, b)
    OBVIOUS
  <2>1. pos = <<c, 1>> /\ pos = Up(func, b)
    BY <1>1, <1>8, <2>0, CallPlaces DEF GoUp
  <2>2. \A k : Level(func, adjust, c, 1, k, d) = IF k <= g THEN gr + d - (z + 8 * g) + 8 * k ELSE gr + d
    BY <1>1, <1>5, <2>0, <2>1, CallPlaces
  <2>3. \A k : Inside(func, c, 1, k)
    BY <1>1, <2>0, CallPlaces
  <2>4. Framed(func, adjust) => reg["rbp"] = Address(Entry - 8)
    BY <2>1, <2>3 DEF StackInv, StackIs
  <2>5. t = IF step <= g THEN gr + d - (z + 8 * g) + 8 * step ELSE gr + d
    BY <1>2, <2>1, <2>2
  <2>6. CASE step = Len(s) /\ MoveRsp(AdjustSize(adjust[pos]))
    <3>0. step = g /\ ~(step + 1 <= g) /\ step <= g
      <4>1. step = g
        BY <1>5, <2>6
      <4>. QED BY <4>1
    <3>1. Alike(reg, reg', {"rsp"}) /\ reg'["rsp"] = Address(t + z)
      <4>1. AdjustSize(adjust[pos]) \in Int
        BY <1>5
      <4>. QED BY <1>2, <1>3, <1>5, <2>6, <4>1, Machine
    <3>2. t + z = Level(func, adjust, c, 1, step + 1, d)
      <4>1. Level(func, adjust, c, 1, step + 1, d) = gr + d
        BY <2>2, <3>0
      <4>. QED BY <2>5, <3>0, <4>1
    <3>3. reg' = [r \in Registers |-> reg'[r]] /\ reg'["rbp"] = reg["rbp"]
      BY <1>4, <3>1 DEF Alike
    <3>4. StackIs(func, adjust, <<c, 1>>, step + 1, reg')
      BY <1>2, <2>4, <3>1, <3>2, <3>3, StackAfter
    <3>. QED BY <1>1, <2>1, <3>4
  <2>7. CASE step \in 0 .. Len(s) - 1 /\ Pop(s[step + 1])
    <3>0. step <= g /\ step + 1 <= g /\ step + 1 \in 1 .. g
      BY <1>1, <1>5, <2>7
    <3>1. s[step + 1] \in Registers \ {"rsp", "rbp"}
      BY <1>5, <1>6, <3>0
    <3>2. Alike(reg, reg', {"rsp", s[step + 1]}) /\ reg'["rsp"] = Address(t + 8)
      BY <1>2, <1>3, <2>7, <3>1, Machine
    <3>3. t + 8 = Level(func, adjust, c, 1, step + 1, d)
      <4>1. Level(func, adjust, c, 1, step + 1, d) = gr + d - (z + 8 * g) + 8 * (step + 1)
        BY <2>2, <3>0
      <4>. QED BY <1>1, <2>5, <3>0, <4>1
    <3>4. reg' = [r \in Registers |-> reg'[r]] /\ reg'["rbp"] = reg["rbp"]
      BY <1>4, <3>1, <3>2 DEF Alike
    <3>5. StackIs(func, adjust, <<c, 1>>, step + 1, reg')
      BY <1>2, <2>4, <3>2, <3>3, <3>4, StackAfter
    <3>. QED BY <1>1, <2>1, <3>5
  <2>. QED BY <1>8, <2>6, <2>7 DEF GoUp
<1>. QED BY <1>7, <1>8

(* An instruction that leaves rsp and rbp alone.                           *)
LEMMA StackKept ==
  ASSUME PassInv, StackInv, phase = "run",
         NEW b, NEW i, GoTo(<<b, i>>), NEW e \in Int, Drift(func, adjust, e),
         reg["rsp"] = Address(Level(func, adjust, b, i, 0, e)),
         reg' = [r \in Registers |-> reg'[r]],
         reg'["rsp"] = reg["rsp"], reg'["rbp"] = reg["rbp"],
         Framed(func, adjust) /\ Inside(func, b, i, 0) => Inside(func, pos[1], pos[2], step)
  PROVE  StackIs(func, adjust, pos', step', reg')
<1>1. pos' = <<b, i>> /\ step' = 0
  BY DEF GoTo
<1>2. Framed(func, adjust) /\ Inside(func, b, i, 0) => reg["rbp"] = Address(Entry - 8)
  BY DEF StackInv, StackIs
<1>3. StackIs(func, adjust, <<b, i>>, 0, reg')
  BY <1>2, StackAfter
<1>. QED BY <1>1, <1>3

(* So do the ends of prologue and epilogue.                                *)
LEMMA StackBetween ==
  ASSUME PassInv, StackInv, phase = "run", EndPrologue \/ EndEpilogue
  PROVE  StackIs(func, adjust, pos', step', reg')
<1>1. /\ func \in Functions /\ step \in Nat /\ Entry = 1000 /\ reg' = reg
      /\ PrologueOf(func) = <<First(func), 1>> /\ EpilogueOf(func) = <<Final(func), 4>>
  BY FrameOfAdjustments DEF PassInv, EndPrologue, EndEpilogue, Entry
<1>2. PICK d \in Int, t \in Int : /\ Drift(func, adjust, d) /\ reg["rsp"] = Address(t)
                                  /\ t = Level(func, adjust, pos[1], pos[2], step, d)
  BY StackFacts
<1>3. reg = [r \in Registers |-> reg[r]]
  BY StackFacts
<1>4. PICK g \in Nat, fs \in Nat, gr \in Int :
        /\ g = Len(GpRegs(func.saved)) /\ g = Saved(func) /\ fs = FrameSize(func)
        /\ gr = Ground(func, adjust)
        /\ gr = IF Framed(func, adjust) THEN Entry - 8 - fs - 8 * g ELSE Entry
  BY Sizes DEF Ground, Saved
<1>5. CASE EndPrologue
  <2>1. pos = <<First(func), 1>> /\ GoTo(<<First(func), 2>>)
        /\ IF Framed(func, adjust) THEN step = g + 3 ELSE step = 0
    BY <1>1, <1>4, <1>5 DEF EndPrologue
  <2>2. t = IF step = 0 THEN Entry ELSE IF step <= 2 THEN Entry - 8 ELSE Entry - 8 - fs - 8 * (step - 3)
    BY <1>2, <1>4, <2>1 DEF Level
  <2>3. t = gr
    BY <1>1, <1>4, <2>1, <2>2
  <2>4. t = Level(func, adjust, First(func), 2, 0, 0)
    BY <1>4, <2>3 DEF Level
  <2>5. Drift(func, adjust, 0)
    BY DEF Drift
  <2>6. Framed(func, adjust) => Inside(func, First(func), 1, step)
    BY <1>1, <1>4, <2>1 DEF Inside
  <2>. QED BY <1>1, <1>2, <1>3, <2>1, <2>4, <2>5, <2>6, StackKept
<1>6. CASE EndEpilogue
  <2>1. pos = <<Final(func), 4>> /\ GoTo(<<Final(func), 5>>)
        /\ IF Framed(func, adjust) THEN step = g + 1 ELSE step = 0
    BY <1>1, <1>4, <1>6 DEF EndEpilogue
  <2>2. t = IF Framed(func, adjust) /\ step > g THEN Entry ELSE gr + d + 8 * step
    BY <1>2, <1>4, <2>1 DEF Level
  <2>3. Level(func, adjust, Final(func), 5, 0, d) = IF Framed(func, adjust) THEN Entry ELSE gr + d + 8 * 0
    BY <1>4 DEF Level
  <2>4. t = Level(func, adjust, Final(func), 5, 0, d)
    BY <1>4, <2>1, <2>2, <2>3
  <2>5. ~Inside(func, Final(func), 5, 0)
    BY DEF Inside
  <2>. QED BY <1>1, <1>2, <1>3, <2>1, <2>4, <2>5, StackKept
<1>. QED BY <1>5, <1>6

(* The registers of the values live over a call.                           *)
LEMMA LiveRegisters ==
  ASSUME NEW f \in Functions
  PROVE  /\ \A b \in Calling(f) : LiveOver(f, b) \subseteq CallerSaved \cup f.saved
         /\ \A b \in Blocks(f) : /\ Leaving(f, b) \subseteq Registers \ {"rsp", "rbp"}
                                 /\ Entering(f, b) \subseteq Registers \ {"rsp", "rbp"}
<1>1. \A b \in Calling(f) : LiveOver(f, b) \subseteq CallerSaved \cup f.saved
  BY CallFacts
<1>2. CallerSaved \cup f.saved \subseteq Registers \ {"rsp", "rbp"}
  BY SavedFacts, ConventionFacts
<1>3. \A b \in Blocks(f) : b # Final(f) => b \in Calling(f)
  BY DEF Calling
<1>4. \A b \in Blocks(f) : b # First(f) => Preceding(f, b) \in Calling(f)
  BY OrderFacts
<1>. QED BY <1>1, <1>2, <1>3, <1>4 DEF Leaving, Entering

(* Definitions and uses touch neither rsp nor rbp.                         *)
LEMMA StackInBlock ==
  ASSUME PassInv, StackInv, phase = "run", NEW b, Uses(b) \/ Defines(b)
  PROVE  StackIs(func, adjust, pos', step', reg')
<1>1. func \in Functions /\ step \in Nat /\ b \in Blocks(func)
  BY DEF PassInv, Uses, Defines
<1>2. PICK d \in Int, t \in Int : /\ Drift(func, adjust, d) /\ reg["rsp"] = Address(t)
                                  /\ t = Level(func, adjust, pos[1], pos[2], step, d)
  BY StackFacts
<1>3. reg = [r \in Registers |-> reg[r]]
  BY StackFacts
<1>4. PICK gr \in Int : gr = Ground(func, adjust)
  BY Sizes
<1>5. CASE Uses(b)
  <2>1. pos = <<b, 2>> /\ GoTo(<<b, 3>>) /\ reg' = reg
    BY <1>5 DEF Uses
  <2>2. t = Level(func, adjust, b, 3, 0, d)
    BY <1>2, <2>1 DEF Level
  <2>3. Inside(func, b, 2, step)
    BY DEF Inside
  <2>. QED BY <1>2, <1>3, <2>1, <2>2, <2>3, StackKept
<1>6. CASE Defines(b)
  <2>1. pos = <<b, 3>> /\ GoTo(<<b, 4>>)
        /\ reg' = [r \in DOMAIN reg |-> IF r \in Leaving(func, b) \ Entering(func, b) THEN Value(r)
                                        ELSE reg[r]]
    BY <1>6 DEF Defines
  <2>2. t = gr + d
    BY <1>2, <1>4, <2>1 DEF Level
  <2>3. t = Level(func, adjust, b, 4, 0, d)
    <3>1. CASE b = Final(func)
      <4>1. Saved(func) \in Nat
        BY Sizes
      <4>2. ~(0 > Saved(func))
        BY <4>1
      <4>3. Level(func, adjust, b, 4, 0, d) = gr + d + 8 * 0
        BY <1>4, <3>1, <4>2 DEF Level
      <4>. QED BY <2>2, <4>3
    <3>2. CASE b # Final(func)
      BY <1>4, <2>2, <3>2 DEF Level
    <3>. QED BY <3>1, <3>2
  <2>4. Inside(func, b, 3, step)
    BY DEF Inside
  <2>5. /\ "rsp" \in Registers \ Leaving(func, b) /\ "rbp" \in Registers \ Leaving(func, b)
    BY <1>1, LiveRegisters, ConventionFacts
  <2>6. reg' = [r \in Registers |-> reg'[r]] /\ reg'["rsp"] = reg["rsp"] /\ reg'["rbp"] = reg["rbp"]
    BY <1>3, <2>1, <2>5
  <2>. QED BY <1>2, <2>1, <2>3, <2>4, <2>6, StackKept
<1>. QED BY <1>5, <1>6

(* What a call leaves rsp off by.                                          *)
LEMMA DriftOverCall ==
  ASSUME PassInv, phase # "callinfo", NEW b \in Calling(func), NEW d \in Int, Drift(func, adjust, d)
  PROVE  Drift(func, adjust, d - Deep(adjust, Down(b)) + Deep(adjust, Up(func, b)))
<1>1. PICK x \in Nat, y \in Nat : x = Deep(adjust, Down(b)) /\ y = Deep(adjust, Up(func, b))
  BY CallSizes
<1>2. adjust[Down(b)].regs = adjust[Up(func, b)].regs
      /\ (~Outgrown(func, b) => adjust[Down(b)] = adjust[Up(func, b)])
  BY AdjustFacts
<1>3. Pushed(adjust, Down(b)) = Pushed(adjust, Up(func, b))
  BY <1>2 DEF Pushed
<1>4. ~Outgrown(func, b) => x = y
  BY <1>1, <1>2, <1>3 DEF Deep
<1>5. WholeWords(func) => x % 16 = y % 16
  BY <1>1, <1>2, <1>3, CallSizes
<1>6. x % 16 = y % 16 /\ d % 16 = 0 => (d - x + y) % 16 = 0
  OBVIOUS
<1>7. x = y /\ d = 0 => d - x + y = 0
  OBVIOUS
<1>8. Drift(func, adjust, d - x + y)
  BY <1>4, <1>5, <1>6, <1>7 DEF Drift
<1>. QED BY <1>1, <1>8

(* Nor do arguments and calls, and the two adjustments end where they      *)
(* should.                                                                 *)
LEMMA StackAtCall ==
  ASSUME PassInv, StackInv, phase = "run",
         \/ \E b, n, to : Passes(b, n, to)
         \/ \E b : Calls(b)
         \/ \E b, s : EndDown(b, s) \/ EndUp(b, s)
  PROVE  StackIs(func, adjust, pos', step', reg')
<1>1. PICK b : \/ \E n, to : Passes(b, n, to)
               \/ Calls(b)
               \/ \E s : EndDown(b, s) \/ EndUp(b, s)
  OBVIOUS
<1>2. b \in Calling(func) /\ func \in Functions /\ step \in Nat
  BY <1>1 DEF PassInv, Passes, Calls, EndDown, EndUp
<1>3. PICK d \in Int, t \in Int : /\ Drift(func, adjust, d) /\ reg["rsp"] = Address(t)
                                  /\ t = Level(func, adjust, pos[1], pos[2], step, d)
  BY StackFacts
<1>4. reg = [r \in Registers |-> reg[r]]
  BY StackFacts
<1>5. "rsp" \in Registers /\ "rbp" \in Registers /\ "rsp" # "rbp"
  BY ConventionFacts
<1>6. PICK gr \in Int, x \in Nat, y \in Nat :
        gr = Ground(func, adjust) /\ x = Deep(adjust, Down(b)) /\ y = Deep(adjust, Up(func, b))
  BY <1>2, Sizes, CallSizes
<1>7. \A i \in Nat : \A k, e : i > 4 => Level(func, adjust, b, i, k, e) = gr + e - x
  BY <1>2, <1>6, CallPlaces
<1>8. \A i, k : i # 1 => Inside(func, b, i, k)
  BY <1>2, CallPlaces
<1>9. PICK c : c = Following(func, b) /\ Up(func, b) = <<c, 1>>
  BY <1>2, CallPlaces
<1>10. CASE \E n, to : Passes(b, n, to)
  <2>1. PICK n, to : Passes(b, n, to)
    BY <1>10
  <2>2. PICK args \in Seq(Arguments) : args = func.calls[b].args
    BY <1>2, CallFacts
  <2>3. /\ n \in 1 .. Len(args) /\ pos = <<b, n + 4>> /\ GoTo(<<b, n + 5>>)
        /\ to = CallerPlace(args, n)
        /\ IF to.base = "rsp" THEN reg' = reg ELSE reg' = [reg EXCEPT ![to.base] = <<"argument", n>>]
    BY <2>1, <2>2 DEF Passes
  <2>4. to.base # "rsp" => to.base \in CallerSaved
    <3>1. IF InRegister(args, {args[n].class}, n)
          THEN to.base \in CallerSaved
          ELSE to = [base |-> "rsp", offset |-> CallerArea(args)[n - 1]]
      BY <2>3, PlaceFacts
    <3>. QED BY <3>1
  <2>5. reg' = [r \in Registers |-> reg'[r]] /\ reg'["rsp"] = reg["rsp"] /\ reg'["rbp"] = reg["rbp"]
    BY <1>4, <1>5, <2>3, <2>4, ConventionFacts
  <2>6. n + 4 \in Nat /\ n + 5 \in Nat /\ n + 4 > 4 /\ n + 5 > 4 /\ n + 5 # 1 /\ n + 4 # 1
    BY <2>3
  <2>7. t = Level(func, adjust, b, n + 5, 0, d)
    BY <1>3, <1>7, <2>3, <2>6
  <2>8. Inside(func, b, n + 4, step)
    BY <1>8, <2>6
  <2>. QED BY <1>3, <2>3, <2>5, <2>7, <2>8, StackKept
<1>11. CASE Calls(b)
  <2>1. PICK n \in Nat : n = Len(func.calls[b].args)
    BY <1>2, CallFacts
  <2>2. /\ pos = <<b, n + 5>> /\ GoTo(<<c, 1>>)
        /\ reg' = [r \in DOMAIN reg |->
                     IF r \in Results(func.calls[b].returns) THEN Value(r)
                     ELSE IF r \in CallerSaved THEN Junk ELSE reg[r]]
    BY <1>9, <1>11, <2>1 DEF Calls
  <2>3. "rsp" \notin CallerSaved /\ "rbp" \notin CallerSaved
        /\ Results(func.calls[b].returns) \subseteq CallerSaved
    BY <1>2, CallFacts, ConventionFacts
  <2>4. reg' = [r \in Registers |-> reg'[r]] /\ reg'["rsp"] = reg["rsp"] /\ reg'["rbp"] = reg["rbp"]
    BY <1>4, <1>5, <2>2, <2>3
  <2>5. n + 5 \in Nat /\ n + 5 > 4 /\ n + 5 # 1
    BY <2>1
  <2>6. t = gr + d - x
    BY <1>3, <1>7, <2>2, <2>5
  <2>7. PICK e \in Int : e = d - x + y
    OBVIOUS
  <2>8. Drift(func, adjust, e)
    BY <1>2, <1>3, <1>6, <2>7, DriftOverCall
  <2>9. 0 <= Pushed(adjust, Up(func, b))
    BY <1>2, CallSizes
  <2>10. Level(func, adjust, c, 1, 0, e) = gr + e - y + 8 * 0
    BY <1>2, <1>6, <1>9, <2>9, CallPlaces
  <2>11. t = Level(func, adjust, c, 1, 0, e)
    BY <2>6, <2>7, <2>10
  <2>12. Inside(func, b, n + 5, step)
    BY <1>8, <2>5
  <2>. QED BY <1>3, <2>2, <2>4, <2>8, <2>11, <2>12, StackKept
<1>12. CASE \E s : EndDown(b, s)
  <2>1. PICK s : EndDown(b, s)
    BY <1>12
  <2>2. /\ pos = <<b, 4>> /\ GoTo(<<b, 5>>) /\ reg' = reg /\ pos = Down(b)
        /\ step = Len(s) + 1 /\ s = GpRegs(adjust[pos].regs)
    BY <1>2, <2>1, CallPlaces DEF EndDown
  <2>3. PICK g \in Nat, z \in Nat : /\ g = Len(s) /\ z = AdjustSize(adjust[Down(b)])
                                    /\ x = z + 8 * g
    BY <1>2, <1>6, <2>2, CallSizes DEF Pushed
  <2>4. t = IF step = 0 THEN gr + d ELSE gr + d - z - 8 * (step - 1)
    <3>1. t = Level(func, adjust, b, 4, step, d)
      BY <1>3, <2>2
    <3>2. Level(func, adjust, b, 4, step, d) =
            IF step = 0 THEN Ground(func, adjust) + d
            ELSE Ground(func, adjust) + d - AdjustSize(adjust[Down(b)]) - 8 * (step - 1)
      BY <1>2, CallPlaces
    <3>. QED BY <1>6, <2>3, <3>1, <3>2
  <2>5. step = g + 1
    BY <2>2, <2>3
  <2>6. t = gr + d - x
    <3>1. step # 0 /\ step - 1 = g
      BY <2>5
    <3>2. t = gr + d - z - 8 * g
      BY <2>4, <3>1
    <3>. QED BY <2>3, <3>2
  <2>7. t = Level(func, adjust, b, 5, 0, d)
    BY <1>7, <2>6
  <2>8. Inside(func, b, 4, step)
    BY <1>8
  <2>. QED BY <1>3, <1>4, <2>2, <2>7, <2>8, StackKept
<1>13. CASE \E s : EndUp(b, s)
  <2>1. PICK s : EndUp(b, s)
    BY <1>13
  <2>2. /\ pos = <<c, 1>> /\ GoTo(<<c, 2>>) /\ reg' = reg /\ pos = Up(func, b)
        /\ step = Len(s) + 1 /\ s = GpRegs(adjust[pos].regs)
    BY <1>2, <1>9, <2>1 DEF EndUp
  <2>3. PICK g \in Nat : g = Len(s) /\ g = Pushed(adjust, Up(func, b))
    BY <1>2, <2>2, CallSizes DEF Pushed
  <2>4. ~(step <= g)
    <3>1. step = g + 1
      BY <2>2, <2>3
    <3>. QED BY <3>1
  <2>5. t = gr + d
    BY <1>2, <1>3, <1>6, <1>9, <2>2, <2>3, <2>4, CallPlaces
  <2>6. t = Level(func, adjust, c, 2, 0, d)
    BY <1>6, <2>5 DEF Level
  <2>7. Inside(func, c, 1, step)
    BY <1>2, <1>9, CallPlaces
  <2>. QED BY <1>3, <1>4, <2>2, <2>6, <2>7, StackKept
<1>. QED BY <1>1, <1>10, <1>11, <1>12, <1>13

(* While the function runs, rsp is where the adjustments put it and rbp    *)
(* at the frame.                                                           *)
LEMMA StackSteps ==
  ASSUME PassInv, StackInv, [Next]_vars
  PROVE  StackInv'
<1>1. CASE UNCHANGED vars
  BY <1>1 DEF vars, StackInv
<1>2. CASE Next /\ phase = "run"
  <2>1. func' = func /\ adjust' = adjust /\ (Works \/ Returns)
    BY <1>2, RunSteps
  <2>2. CASE Works
    <3>1. (\E s : EnterFrame(s) \/ LeaveFrame(s))
        => StackIs(func, adjust, pos', step', reg')
      BY <1>2, StackInFrame
    <3>2. (EndPrologue \/ EndEpilogue)
        => StackIs(func, adjust, pos', step', reg')
      BY <1>2, StackBetween
    <3>3. (\E b, s : GoDown(b, s) \/ GoUp(b, s))
        => StackIs(func, adjust, pos', step', reg')
      BY <1>2, StackInCall
    <3>4. (\E b : Uses(b) \/ Defines(b))
        => StackIs(func, adjust, pos', step', reg')
      BY <1>2, StackInBlock
    <3>5. (\/ \E b, n, to : Passes(b, n, to)
           \/ \E b : Calls(b)
           \/ \E b, s : EndDown(b, s) \/ EndUp(b, s))
        => StackIs(func, adjust, pos', step', reg')
      BY <1>2, StackAtCall
    <3>6. StackIs(func, adjust, pos', step', reg')
      BY <2>2, <3>1, <3>2, <3>3, <3>4, <3>5 DEF Works
    <3>. QED BY <2>1, <3>6 DEF StackInv
  <2>3. CASE Returns
    BY <1>2, <2>1, <2>3 DEF Returns, StackInv
  <2>. QED BY <2>1, <2>2, <2>3
<1>3. CASE InitializeAdjust
  BY <1>3 DEF InitializeAdjust, StackInv
<1>4. CASE Enter
  <2>1. /\ func' = func /\ adjust' = adjust /\ step' = step /\ step = 0
        /\ pos' = <<First(func), 1>>
        /\ reg' = [r \in Registers |-> IF r = "rsp" THEN Address(Entry) ELSE Outer(r)]
    BY <1>4 DEF Enter, PassInv
  <2>2. reg' = [r \in Registers |-> reg'[r]] /\ reg'["rsp"] = Address(Entry)
    BY <2>1, ConventionFacts
  <2>3. reg'["rsp"] = Address(Level(func, adjust, First(func), 1, 0, 0))
    BY <2>2 DEF Level
  <2>4. ~Inside(func, First(func), 1, 0)
    BY DEF Inside
  <2>5. Drift(func, adjust, 0)
    BY DEF Drift
  <2>6. StackIs(func, adjust, <<First(func), 1>>, 0, reg')
    BY <2>2, <2>3, <2>4, <2>5 DEF StackIs
  <2>. QED BY <2>1, <2>6 DEF StackInv
<1>5. CASE Next /\ phase # "run" /\ ~InitializeAdjust /\ ~Enter
  BY <1>5 DEF Next, RunAdjust, FinishAdjust, RunDefinition, RunUse, RunPass, RunCall, RunReturn
<1>. QED BY <1>1, <1>2, <1>3, <1>4, <1>5

(* In every run, at every instruction, rsp is where the adjustments so far *)
(* have put it, and rbp at the frame: between calls rsp is back on the     *)
(* ground of the frame but for the drift of a call that was outgrown.      *)
THEOREM StackInvariant == Spec => []StackInv
<1>1. Init => StackInv
  BY DEF Init, StackInv
<1>2. PassInv /\ StackInv /\ [Next]_vars => StackInv'
  BY StackSteps
<1>. QED BY <1>1, <1>2, PassInvariant, PTL DEF Spec

(* The machine at a call: its arguments have been passed.                  *)
LEMMA AtCall ==
  ASSUME PassInv, phase = "run", Here.op = "call"
  PROVE  \E n \in Nat : /\ pos = <<pos[1], n + 5>> /\ pos[1] \in Calling(func)
                        /\ n = Len(func.calls[pos[1]].args)
<1>1. func \in Functions /\ IsAt(func, pos)
  BY DEF PassInv
<1>2. PICK b \in Blocks(func), n \in Nat : \E i \in 1 .. n + 5 : StandsAt(b, i, n)
  BY <1>1, Standing
<1>. QED BY <1>2 DEF StandsAt

(* Where rsp is while arguments are passed and at the call.                *)
LEMMA StackAt ==
  ASSUME PassInv, StackInv, phase = "run", NEW b \in Calling(func), NEW i \in Nat, i > 4,
         pos = <<b, i>>
  PROVE  \E d \in Int : /\ Drift(func, adjust, d)
                        /\ Rsp = Ground(func, adjust) + d - Deep(adjust, Down(b))
<1>1. PICK d \in Int, t \in Int : /\ Drift(func, adjust, d) /\ reg["rsp"] = Address(t)
                                  /\ t = Level(func, adjust, pos[1], pos[2], step, d)
  BY StackFacts
<1>2. Level(func, adjust, b, i, step, d) = Ground(func, adjust) + d - Deep(adjust, Down(b))
  BY CallPlaces
<1>3. Rsp = t
  BY <1>1 DEF Rsp, Address
<1>. QED BY <1>1, <1>2, <1>3

(* What is pushed and reserved for a call is a multiple of 16 bytes unless *)
(* an odd number of xmm registers is to be saved.                          *)
LEMMA DeepAligned ==
  ASSUME PassInv, phase # "callinfo", NEW b \in Calling(func), WholeWords(func),
         Cardinality({r \in KeptOver(func, b) : IsXmm(r)}) % 2 # 1
  PROVE  Deep(adjust, Down(b)) % 16 = 0
<1>1. PICK regs : regs = adjust[Down(b)].regs
  OBVIOUS
<1>2. /\ IsFiniteSet(regs) /\ IF Reserved(func, b) THEN regs = KeptOver(func, b) ELSE regs = {}
  BY <1>1, AdjustFacts
<1>3. /\ {r \in regs : IsXmm(r)} = regs \ Gp /\ Cardinality(regs \ Gp) \in Nat
      /\ Cardinality(regs) = Len(GpRegs(regs)) + Cardinality(regs \ Gp)
  BY <1>2, GpRegsCount
<1>4. PICK p \in Nat, x \in Nat : p = Pushed(adjust, Down(b)) /\ x = Cardinality(regs \ Gp)
  BY <1>2, <1>3, CallSizes
<1>5. Cardinality(regs) = p + x
  BY <1>1, <1>3, <1>4 DEF Pushed
<1>6. x % 2 = 0
  <2>1. CASE Reserved(func, b)
    <3>1. {r \in KeptOver(func, b) : IsXmm(r)} = regs \ Gp
      BY <1>2, <1>3, <2>1
    <3>2. x % 2 # 1
      BY <1>4, <3>1, Zenon
    <3>. QED BY <3>2
  <2>2. CASE ~Reserved(func, b)
    <3>1. regs \ Gp = {}
      BY <1>2, <2>2
    <3>2. x = 0
      BY <1>4, <3>1, FS_EmptySet
    <3>. QED BY <3>2
  <2>. QED BY <2>1, <2>2
<1>7. Deep(adjust, Down(b)) % 16 = (8 * ((p + x) + p)) % 16
  BY <1>1, <1>4, <1>5, CallSizes
<1>8. x % 2 = 0 => (8 * ((p + x) + p)) % 16 = 0
  OBVIOUS
<1>. QED BY <1>6, <1>7, <1>8

(* rsp is a multiple of 16 at every call, with the exceptions CallsAligned *)
(* lists: what prologue() takes off rsp, the areas CallInfoInitialize      *)
(* records and what down_stack() pushes and pads add up, an outgrown call  *)
(* included.                                                               *)
THEOREM EveryCallIsAligned == Spec => []CallsAligned
<1>1. PassInv /\ StackInv => CallsAligned
  <2> SUFFICES ASSUME PassInv, StackInv, phase = "run", Here.op = "call",
                      NeedsFrame(adjust[PrologueOf(func)]),
                      ~(Cardinality(func.saved) % 2 = 1), WholeWords(func),
                      ~(Cardinality({r \in KeptOver(func, pos[1]) : IsXmm(r)}) % 2 = 1)
               PROVE  Rsp % 16 = 0
    BY DEF CallsAligned
  <2>1. PICK n \in Nat : /\ pos = <<pos[1], n + 5>> /\ pos[1] \in Calling(func)
    BY AtCall
  <2>2. n + 5 \in Nat /\ n + 5 > 4
    OBVIOUS
  <2>3. PICK d \in Int : /\ Drift(func, adjust, d)
                         /\ Rsp = Ground(func, adjust) + d - Deep(adjust, Down(pos[1]))
    BY <2>1, <2>2, StackAt
  <2>4. Deep(adjust, Down(pos[1])) % 16 = 0 /\ Deep(adjust, Down(pos[1])) \in Nat
    BY <2>1, DeepAligned, CallSizes
  <2>5. d % 16 = 0
    BY <2>3 DEF Drift
  <2>6. PICK g \in Nat, fs \in Nat : /\ g = Saved(func) /\ fs = FrameSize(func) /\ fs % 16 = 0
                                     /\ g % 2 # 1
    BY Sizes
  <2>7. Ground(func, adjust) = 1000 - 8 - fs - 8 * g
    BY <2>6, FrameOfAdjustments DEF Ground, Entry
  <2>8. PICK x \in Nat : x = Deep(adjust, Down(pos[1])) /\ x % 16 = 0
    BY <2>4
  <2>9. Rsp = (1000 - 8 - fs - 8 * g) + d - x
    BY <2>3, <2>7, <2>8
  <2>10. (g % 2 # 1 /\ fs % 16 = 0 /\ d % 16 = 0 /\ x % 16 = 0)
           => ((1000 - 8 - fs - 8 * g) + d - x) % 16 = 0
    <3>1. PICK a, h \in Int : (g % 2 # 1 => g = 2 * h) /\ a = fs \div 16
      OBVIOUS
    <3>. QED OBVIOUS
  <2>. QED BY <2>5, <2>6, <2>8, <2>9, <2>10
<1>. QED BY <1>1, PassInvariant, StackInvariant, PTL

----------------------------------------------------------------------------
(* What the stack holds after a store and after a call.                    *)
LEMMA StoreKeeps ==
  ASSUME NEW cells, NEW a \in Int, NEW size \in Nat, NEW x,
         NEW c \in Int, c + 8 <= a \/ c >= a + size
  PROVE  ReadAt(Written(cells, a, size, x), c) = ReadAt(cells, c)
<1> DEFINE words == {a + 8 * n : n \in 0 .. (size \div 8) - 1}
           after == words \cup (DOMAIN cells \ (a - 7) .. (a + size - 1))
<1>1. PICK w \in Nat : w = size \div 8 /\ 8 * w <= size
  OBVIOUS
<1>2. c \notin words
  <2>1. ASSUME NEW n \in 0 .. w - 1 PROVE c # a + 8 * n
    BY <1>1
  <2>. QED BY <1>1, <2>1
<1>3. c \notin (a - 7) .. (a + size - 1)
  OBVIOUS
<1>4. Written(cells, a, size, x) = [b \in after |-> IF b \in words THEN x ELSE cells[b]]
  BY DEF Written
<1>. HIDE DEF words
<1>5. c \in after <=> c \in DOMAIN cells
  BY <1>2, <1>3
<1>. HIDE DEF after
<1>. QED BY <1>2, <1>4, <1>5 DEF ReadAt

(* What was stored is read back.                                           *)
LEMMA StoreReads ==
  ASSUME NEW cells, NEW a \in Int, NEW size \in Nat, size >= 8, NEW x
  PROVE  ReadAt(Written(cells, a, size, x), a) = x
<1> DEFINE words == {a + 8 * n : n \in 0 .. (size \div 8) - 1}
           after == words \cup (DOMAIN cells \ (a - 7) .. (a + size - 1))
<1>1. a \in words
  <2>1. 0 \in 0 .. (size \div 8) - 1
    OBVIOUS
  <2>2. a = a + 8 * 0
    OBVIOUS
  <2>. QED BY <2>1, <2>2
<1>2. Written(cells, a, size, x) = [b \in after |-> IF b \in words THEN x ELSE cells[b]]
  BY DEF Written
<1>. HIDE DEF words
<1>3. a \in after
  BY <1>1
<1>. HIDE DEF after
<1>. QED BY <1>1, <1>2, <1>3 DEF ReadAt

(* A call keeps what lies above rsp.                                       *)
LEMMA CallKeeps ==
  ASSUME NEW cells, NEW t \in Int, NEW c \in Int, c >= t
  PROVE  ReadAt([a \in {b \in DOMAIN cells : b >= t} |-> cells[a]], c) = ReadAt(cells, c)
BY DEF ReadAt

(* Where the machine is between the instructions of an adjustment, and     *)
(* where it stops.                                                         *)
PlaceInv ==
    /\ phase # "callinfo" /\ pos[2] \notin {1, 4} => step = 0
    /\ phase = "returned" => pos = <<Final(func), 5>>

(* Nothing but an adjustment takes more than one step, and the machine     *)
(* stops at the return of the last block.                                  *)
THEOREM PlaceInvariant == Spec => []PlaceInv
<1>1. Init => PlaceInv
  BY DEF Init, PlaceInv
<1>2. PassInv /\ PlaceInv /\ [Next]_vars => PlaceInv'
  <2> SUFFICES ASSUME PassInv, PlaceInv, [Next]_vars PROVE PlaceInv'
    OBVIOUS
  <2>1. CASE UNCHANGED vars
    BY <2>1 DEF vars, PlaceInv
  <2>2. CASE Next /\ phase = "run"
    <3>1. func' = func /\ (Works \/ Returns)
      BY <2>2, RunSteps
    <3>2. CASE Works
      <4>1. \A s : EnterFrame(s) \/ LeaveFrame(s) => pos'[2] \in {1, 4}
        BY FrameOfAdjustments DEF EnterFrame, LeaveFrame, Stay
      <4>2. \A b, s : GoDown(b, s) \/ GoUp(b, s) => pos'[2] \in {1, 4}
        BY DEF GoDown, GoUp, Stay, Down, Up
      <4>3. EndPrologue \/ EndEpilogue => step' = 0
        BY DEF EndPrologue, EndEpilogue, GoTo
      <4>4. \A b, s : EndDown(b, s) \/ EndUp(b, s) => step' = 0
        BY DEF EndDown, EndUp, GoTo
      <4>5. \A b : Uses(b) \/ Defines(b) \/ Calls(b) => step' = 0
        BY DEF Uses, Defines, Calls, GoTo
      <4>6. \A b, n, to : Passes(b, n, to) => step' = 0
        BY DEF Passes, GoTo
      <4>7. phase' = "run" /\ (pos'[2] \in {1, 4} \/ step' = 0)
        BY <3>2, <4>1, <4>2, <4>3, <4>4, <4>5, <4>6 DEF Works
      <4>. QED BY <4>7 DEF PlaceInv
    <3>3. CASE Returns
      BY <2>2, <3>1, <3>3 DEF Returns, PlaceInv
    <3>. QED BY <3>1, <3>2, <3>3
  <2>3. CASE InitializeAdjust
    BY <2>3 DEF InitializeAdjust, PlaceInv
  <2>4. CASE Enter
    BY <2>4 DEF Enter, PlaceInv
  <2>5. CASE Next /\ phase # "run" /\ ~InitializeAdjust /\ ~Enter
    BY <2>5 DEF Next, RunAdjust, FinishAdjust, RunDefinition, RunUse, RunPass, RunCall, RunReturn
  <2>. QED BY <2>1, <2>2, <2>3, <2>4, <2>5
<1>. QED BY <1>1, <1>2, PassInvariant, PTL DEF Spec

----------------------------------------------------------------------------
(* What the frame holds for the caller, in a function none of whose calls  *)
(* has the exceptions of ReturnsToCaller: the return address, the caller's *)
(* rbp, and the callee-saved registers, each in its place once it has been *)
(* pushed and in its register until then and again from the pop on.        *)
Sound(f) == \A b \in Calling(f) : ~Outgrown(f, b) /\ ~Unreserved(f, b) /\ ~Overfull(f, b)

(* The epilogue has popped more than j.                                    *)
Left(f, p, k, j) == p = <<Final(f), 5>> \/ (p = EpilogueOf(f) /\ k > j)

(* What the frame holds: the return address, the caller's rbp and the      *)
(* callee-saved registers, in place until they are restored; and these     *)
(* registers, while they are not yet saved or restored again.              *)
FrameIs(f, adj, p, k, rg, mm) ==
    /\ ReadAt(mm, Entry) = <<"return", 0>>
    /\ \A r \in CalleeSaved \ (f.saved \cup {"rbp"}) : rg[r] = Outer(r)
    /\ ~Framed(f, adj) \/ (p = PrologueOf(f) /\ k < 2) \/ Left(f, p, k, Saved(f))
         => rg["rbp"] = Outer("rbp")
    /\ Framed(f, adj) /\ (p = PrologueOf(f) => k > 0) => ReadAt(mm, Entry - 8) = Outer("rbp")
    /\ \A j \in 1 .. Saved(f) :
         /\ (p = PrologueOf(f) => k > j + 2) =>
              ReadAt(mm, Entry - 8 - FrameSize(f) - 8 * j) = Outer(GpRegs(f.saved)[j])
         /\ p = PrologueOf(f) \/ Left(f, p, k, Saved(f) - j) =>
              rg[GpRegs(f.saved)[j]] = Outer(GpRegs(f.saved)[j])

(* At every step of a run of a sound function.                             *)
FrameInv == phase # "callinfo" /\ Sound(func) => FrameIs(func, adjust, pos, step, reg, mem)

(* What the body of the function leaves alone.                             *)
FrameKept(f, adj, rg, new, mm, after) ==
    /\ \A r \in CalleeSaved \ f.saved : new[r] = rg[r]
    /\ \A c \in Int : c >= Ground(f, adj) => ReadAt(after, c) = ReadAt(mm, c)

(* In a sound function rsp is back on the ground after every call.         *)
LEMMA SoundStack ==
  ASSUME PassInv, StackInv, phase = "run", Sound(func)
  PROVE  /\ reg = [r \in Registers |-> reg[r]]
         /\ \E t \in Int : /\ reg["rsp"] = Address(t) /\ Rsp = t
                           /\ t = Level(func, adjust, pos[1], pos[2], step, 0)
<1>1. PICK d \in Int, t \in Int : /\ Drift(func, adjust, d) /\ reg["rsp"] = Address(t)
                                  /\ t = Level(func, adjust, pos[1], pos[2], step, d)
  BY StackFacts
<1>2. d = 0
  BY <1>1 DEF Drift, Sound
<1>3. Rsp = t
  BY <1>1 DEF Rsp, Address
<1>. QED BY <1>1, <1>2, <1>3, StackFacts

(* In a sound function the arguments of a call on the stack are inside     *)
(* what was reserved for it.                                               *)
LEMMA AreaReserved ==
  ASSUME PassInv, phase # "callinfo", NEW b \in Calling(func), Sound(func)
  PROVE  StackArea(func.calls[b].args) <= Deep(adjust, Down(b))
<1>1. /\ ~Unreserved(func, b) /\ ~Overfull(func, b) /\ func \in Functions
  BY DEF Sound, PassInv
<1>2. /\ AreaOf(func, b) \in Nat /\ func.calls[b].args \in Seq(Arguments)
      /\ ~Reserved(func, b) => LiveOver(func, b) \cap CalleeSaved # {}
  BY <1>1, CallFacts
<1>3. PICK a \in Nat, s \in Nat, o \in Nat, z \in Nat, p \in Nat :
        /\ a = AreaOf(func, b) /\ s = StackArea(func.calls[b].args)
        /\ o = adjust[Down(b)].overflow /\ z = AdjustSize(adjust[Down(b)])
        /\ p = Pushed(adjust, Down(b)) /\ o <= z /\ Deep(adjust, Down(b)) = z + 8 * p
  <2>1. StackArea(func.calls[b].args) \in Nat
    BY <1>2, CallerAreaFacts
  <2>2. adjust[Down(b)].overflow \in Nat
    BY AdjustFacts
  <2>3. /\ AdjustSize(adjust[Down(b)]) \in Nat /\ Pushed(adjust, Down(b)) \in Nat
        /\ adjust[Down(b)].overflow <= AdjustSize(adjust[Down(b)])
        /\ Deep(adjust, Down(b)) = AdjustSize(adjust[Down(b)]) + 8 * Pushed(adjust, Down(b))
    BY CallSizes
  <2>. QED BY <1>2, <2>1, <2>2, <2>3
<1>4. s <= a
  BY <1>1, <1>3 DEF Overfull
<1>5. CASE Reserved(func, b)
  <2>1. a <= o
    BY <1>3, <1>5, AdjustFacts
  <2>. QED BY <1>3, <1>4, <2>1
<1>6. CASE ~Reserved(func, b)
  <2>1. a = 0
    BY <1>1, <1>2, <1>3, <1>6 DEF Unreserved
  <2>. QED BY <1>3, <1>4, <2>1
<1>. QED BY <1>5, <1>6

(* What is pushed for a call lies below the frame.                         *)
LEMMA DownKeepsFrame ==
  ASSUME PassInv, StackInv, phase = "run", Sound(func), NEW b, NEW s, GoDown(b, s)
  PROVE  FrameKept(func, adjust, reg, reg', mem, mem')
<1>1. b \in Calling(func) /\ pos = Down(b) /\ s = GpRegs(adjust[pos].regs) /\ step \in Nat
  BY DEF GoDown, PassInv
<1>2. PICK t \in Int : /\ reg["rsp"] = Address(t) /\ reg = [r \in Registers |-> reg[r]]
                       /\ t = Level(func, adjust, pos[1], pos[2], step, 0)
  BY SoundStack
<1>3. PICK gr \in Int, z \in Nat : gr = Ground(func, adjust) /\ z = AdjustSize(adjust[Down(b)])
  BY <1>1, Sizes, CallSizes
<1>4. t <= gr
  <2>1. t = IF step = 0 THEN gr + 0 ELSE gr + 0 - z - 8 * (step - 1)
    <3>1. pos[1] = b /\ pos[2] = 4
      BY <1>1, CallPlaces
    <3>2. Level(func, adjust, b, 4, step, 0) =
            IF step = 0 THEN Ground(func, adjust) + 0
            ELSE Ground(func, adjust) + 0 - AdjustSize(adjust[Down(b)]) - 8 * (step - 1)
      BY <1>1, CallPlaces
    <3>. QED BY <1>2, <1>3, <3>1, <3>2
  <2>. QED BY <1>1, <2>1
<1>5. /\ "rsp" \notin CalleeSaved /\ CalleeSaved \subseteq Registers
  BY ConventionFacts
<1>6. CASE step = 0 /\ MoveRsp(-AdjustSize(adjust[pos]))
  <2>1. -AdjustSize(adjust[pos]) \in Int
    BY <1>1, <1>3
  <2>2. Alike(reg, reg', {"rsp"}) /\ mem' = mem
    BY <1>2, <1>6, <2>1, Machine
  <2>. QED BY <1>5, <2>2 DEF Alike, FrameKept
<1>7. CASE step \in 1 .. Len(s) /\ Push(s[Len(s) + 1 - step])
  <2>0. PICK n \in Nat : n = Len(s) /\ s \in Seq(CallerSaved \cap Registers)
    BY <1>1, CallSizes
  <2>1. PICK q \in Registers : q = s[Len(s) + 1 - step]
    <3>1. n + 1 - step \in 1 .. n
      BY <1>1, <1>7, <2>0
    <3>. QED BY <2>0, <3>1
  <2>2. Alike(reg, reg', {"rsp"}) /\ mem' = Written(mem, t - 8, 8, reg[q])
    BY <1>2, <1>7, <2>1, Machine
  <2>3. ASSUME NEW c \in Int, c >= gr PROVE ReadAt(mem', c) = ReadAt(mem, c)
    <3>1. c >= (t - 8) + 8 /\ t - 8 \in Int
      BY <1>4, <2>3
    <3>2. ReadAt(Written(mem, t - 8, 8, reg[q]), c) = ReadAt(mem, c)
      BY <3>1, StoreKeeps
    <3>. QED BY <2>2, <3>2
  <2>. QED BY <1>3, <1>5, <2>2, <2>3 DEF Alike, FrameKept
<1>. QED BY <1>6, <1>7 DEF GoDown

(* What is popped after it was not saved by the frame.                     *)
LEMMA UpKeepsFrame ==
  ASSUME PassInv, StackInv, phase = "run", Sound(func), NEW b, NEW s, GoUp(b, s)
  PROVE  FrameKept(func, adjust, reg, reg', mem, mem')
<1>1. b \in Calling(func) /\ pos = Up(func, b) /\ s = GpRegs(adjust[pos].regs) /\ step \in Nat
  BY DEF GoUp, PassInv
<1>2. PICK t \in Int : /\ reg["rsp"] = Address(t) /\ reg = [r \in Registers |-> reg[r]]
                       /\ t = Level(func, adjust, pos[1], pos[2], step, 0)
  BY SoundStack
<1>3. /\ "rsp" \notin CalleeSaved /\ CalleeSaved \subseteq Registers
      /\ CalleeSaved \cap CallerSaved = {}
  BY ConventionFacts
<1>4. CASE step = Len(s) /\ MoveRsp(AdjustSize(adjust[pos]))
  <2>1. AdjustSize(adjust[pos]) \in Int
    <3>1. AdjustSize(adjust[pos]) \in Nat
      BY <1>1, CallSizes
    <3>. QED BY <3>1
  <2>2. Alike(reg, reg', {"rsp"}) /\ mem' = mem
    BY <1>2, <1>4, <2>1, Machine
  <2>. QED BY <1>3, <2>2 DEF Alike, FrameKept
<1>5. CASE step \in 0 .. Len(s) - 1 /\ Pop(s[step + 1])
  <2>0. PICK n \in Nat : n = Len(s) /\ s \in Seq(CallerSaved \cap Registers)
    BY <1>1, CallSizes
  <2>1. PICK q \in CallerSaved \cap Registers : q = s[step + 1]
    <3>1. step + 1 \in 1 .. n
      BY <1>1, <1>5, <2>0
    <3>. QED BY <2>0, <3>1
  <2>2. q # "rsp"
    BY <2>1, ConventionFacts
  <2>3. Alike(reg, reg', {"rsp", q}) /\ mem' = mem
    BY <1>2, <1>5, <2>1, <2>2, Machine
  <2>. QED BY <1>3, <2>1, <2>3 DEF Alike, FrameKept
<1>. QED BY <1>4, <1>5 DEF GoUp

(* In a sound function rsp at a call is a fixed distance below the ground. *)
LEMMA SoundStackAt ==
  ASSUME PassInv, StackInv, phase = "run", Sound(func), NEW b \in Calling(func),
         NEW i \in Nat, i > 4, pos = <<b, i>>
  PROVE  /\ reg = [r \in Registers |-> reg[r]]
         /\ \E t \in Int : /\ reg["rsp"] = Address(t) /\ Rsp = t
                           /\ t = Ground(func, adjust) - Deep(adjust, Down(b))
<1>1. PICK t \in Int : /\ reg["rsp"] = Address(t) /\ reg = [r \in Registers |-> reg[r]] /\ Rsp = t
                       /\ t = Level(func, adjust, pos[1], pos[2], step, 0)
  BY SoundStack
<1>2. Level(func, adjust, b, i, step, 0) = Ground(func, adjust) + 0 - Deep(adjust, Down(b))
  BY CallPlaces
<1>3. PICK gr \in Int, x \in Nat : gr = Ground(func, adjust) /\ x = Deep(adjust, Down(b))
  BY Sizes, CallSizes
<1>4. t = gr - x
  BY <1>1, <1>2, <1>3
<1>. QED BY <1>1, <1>3, <1>4

(* Arguments go below the frame.                                           *)
LEMMA PassKeepsFrame ==
  ASSUME PassInv, StackInv, phase = "run", Sound(func), NEW b, NEW n, NEW to, Passes(b, n, to)
  PROVE  FrameKept(func, adjust, reg, reg', mem, mem')
<1>1. b \in Calling(func) /\ func \in Functions
  BY DEF Passes, PassInv
<1>2. PICK args \in Seq(Arguments) : args = func.calls[b].args
  BY <1>1, CallFacts
<1>3. n \in 1 .. Len(args) /\ pos = <<b, n + 4>> /\ to = CallerPlace(args, n)
  BY <1>2 DEF Passes
<1>4. n + 4 \in Nat /\ n + 4 > 4
  BY <1>3
<1>5. PICK t \in Int : /\ reg["rsp"] = Address(t) /\ Rsp = t /\ reg = [r \in Registers |-> reg[r]]
                       /\ t = Ground(func, adjust) - Deep(adjust, Down(b))
  BY <1>1, <1>3, <1>4, SoundStackAt
<1>6. PICK gr \in Int, x \in Nat : gr = Ground(func, adjust) /\ x = Deep(adjust, Down(b))
  BY <1>1, Sizes, CallSizes
<1>7. CASE InRegister(args, {args[n].class}, n)
  <2>1. to.base \in CallerSaved /\ to.base # "rsp"
    BY <1>3, <1>7, PlaceFacts
  <2>2. reg' = [reg EXCEPT ![to.base] = <<"argument", n>>] /\ mem' = mem
    BY <2>1 DEF Passes
  <2>3. CalleeSaved \cap CallerSaved = {} /\ CalleeSaved \subseteq Registers
    BY ConventionFacts
  <2>. QED BY <1>5, <2>1, <2>2, <2>3 DEF FrameKept
<1>8. CASE ~InRegister(args, {args[n].class}, n)
  <2>1. PICK o \in Nat, z \in Nat, area \in Nat :
          /\ to = [base |-> "rsp", offset |-> o] /\ z = AlignUp(args[n].size, 8)
          /\ area = StackArea(args) /\ o + z <= area
    <3>1. /\ to = [base |-> "rsp", offset |-> CallerArea(args)[n - 1]]
          /\ CallerArea(args)[n - 1] \in Nat
          /\ CallerArea(args)[n - 1] + AlignUp(args[n].size, 8) <= StackArea(args)
      BY <1>3, <1>8, PlaceFacts
    <3>2. AlignUp(args[n].size, 8) \in Nat
      BY <1>3, ArgumentFacts
    <3>3. StackArea(args) \in Nat
      BY CallerAreaFacts
    <3>. QED BY <3>1, <3>2, <3>3
  <2>2. mem' = Written(mem, t + o, z, <<"argument", n>>) /\ reg' = reg
    BY <1>2, <1>5, <2>1 DEF Passes
  <2>3. area <= x
    BY <1>1, <1>2, <1>6, <2>1, AreaReserved
  <2>4. ASSUME NEW c \in Int, c >= gr PROVE ReadAt(mem', c) = ReadAt(mem, c)
    <3>1. c >= (t + o) + z /\ t + o \in Int
      BY <1>5, <1>6, <2>1, <2>3, <2>4
    <3>2. ReadAt(Written(mem, t + o, z, <<"argument", n>>), c) = ReadAt(mem, c)
      BY <3>1, StoreKeeps
    <3>. QED BY <2>2, <3>2
  <2>. QED BY <1>6, <2>2, <2>4 DEF FrameKept
<1>. QED BY <1>7, <1>8

(* A call keeps the frame.                                                 *)
LEMMA CallKeepsFrame ==
  ASSUME PassInv, StackInv, phase = "run", Sound(func), NEW b, Calls(b)
  PROVE  FrameKept(func, adjust, reg, reg', mem, mem')
<1>1. b \in Calling(func) /\ func \in Functions
  BY DEF Calls, PassInv
<1>2. PICK n \in Nat : n = Len(func.calls[b].args)
  BY <1>1, CallFacts
<1>3. /\ pos = <<b, n + 5>> /\ mem' = [a \in {c \in DOMAIN mem : c >= Rsp} |-> mem[a]]
      /\ reg' = [r \in DOMAIN reg |->
                   IF r \in Results(func.calls[b].returns) THEN Value(r)
                   ELSE IF r \in CallerSaved THEN Junk ELSE reg[r]]
  BY <1>2 DEF Calls
<1>4. n + 5 \in Nat /\ n + 5 > 4
  OBVIOUS
<1>5. PICK t \in Int : /\ Rsp = t /\ reg = [r \in Registers |-> reg[r]]
                       /\ t = Ground(func, adjust) - Deep(adjust, Down(b))
  BY <1>1, <1>3, <1>4, SoundStackAt
<1>6. PICK gr \in Int, x \in Nat : gr = Ground(func, adjust) /\ x = Deep(adjust, Down(b))
  BY <1>1, Sizes, CallSizes
<1>7. ASSUME NEW r \in CalleeSaved PROVE reg'[r] = reg[r]
  <2>1. /\ Results(func.calls[b].returns) \subseteq CallerSaved
        /\ CalleeSaved \cap CallerSaved = {} /\ CalleeSaved \subseteq Registers
    BY <1>1, CallFacts, ConventionFacts
  <2>. QED BY <1>3, <1>5, <2>1
<1>8. ASSUME NEW c \in Int, c >= gr PROVE ReadAt(mem', c) = ReadAt(mem, c)
  <2>1. c >= t
    BY <1>5, <1>6, <1>8
  <2>2. ReadAt([a \in {e \in DOMAIN mem : e >= t} |-> mem[a]], c) = ReadAt(mem, c)
    BY <2>1, CallKeeps
  <2>. QED BY <1>3, <1>5, <2>2
<1>. QED BY <1>6, <1>7, <1>8 DEF FrameKept

(* Definitions touch only registers that have been saved.                  *)
LEMMA DefineKeepsFrame ==
  ASSUME PassInv, StackInv, phase = "run", NEW b, Defines(b)
  PROVE  FrameKept(func, adjust, reg, reg', mem, mem')
<1>1. b \in Blocks(func) /\ func \in Functions /\ reg = [r \in Registers |-> reg[r]]
  BY StackFacts DEF Defines, PassInv
<1>2. Leaving(func, b) \subseteq CallerSaved \cup func.saved
  <2>1. b # Final(func) => b \in Calling(func)
    BY <1>1 DEF Calling
  <2>. QED BY <1>1, <2>1, LiveRegisters DEF Leaving
<1>3. CalleeSaved \cap CallerSaved = {} /\ CalleeSaved \subseteq Registers
  BY ConventionFacts
<1>4. \A r \in CalleeSaved \ func.saved : r \in Registers /\ r \notin Leaving(func, b)
  BY <1>2, <1>3
<1>5. mem' = mem /\ reg' = [r \in DOMAIN reg |-> IF r \in Leaving(func, b) \ Entering(func, b)
                                                 THEN Value(r) ELSE reg[r]]
  BY DEF Defines
<1>6. DOMAIN reg = Registers
  BY <1>1
<1>7. ASSUME NEW r \in CalleeSaved \ func.saved PROVE reg'[r] = reg[r]
  BY <1>4, <1>5, <1>6
<1>. QED BY <1>5, <1>7 DEF FrameKept

(* A function that saves registers has a frame; the places of prologue and *)
(* epilogue; the registers saved.                                          *)
LEMMA FrameFacts ==
  ASSUME PassInv
  PROVE  /\ PrologueOf(func) = <<First(func), 1>> /\ EpilogueOf(func) = <<Final(func), 4>>
         /\ PrologueOf(func) # EpilogueOf(func) /\ PrologueOf(func) # <<Final(func), 5>>
         /\ EpilogueOf(func) # <<Final(func), 5>>
         /\ Saved(func) \in Nat /\ Len(GpRegs(func.saved)) = Saved(func)
         /\ \A j \in 1 .. Saved(func) : /\ Framed(func, adjust)
                                        /\ GpRegs(func.saved)[j] \in func.saved
         /\ func.saved \subseteq Registers \ {"rsp", "rbp"}
         /\ func.saved \subseteq CalleeSaved
         /\ FrameSize(func) \in Nat
         /\ Ground(func, adjust) = IF Framed(func, adjust)
                                   THEN Entry - 8 - FrameSize(func) - 8 * Saved(func) ELSE Entry
<1>1. PrologueOf(func) = <<First(func), 1>> /\ EpilogueOf(func) = <<Final(func), 4>>
      /\ adjust[PrologueOf(func)].regs = func.saved
  BY FrameOfAdjustments
<1>2. /\ Saved(func) \in Nat /\ FrameSize(func) \in Nat /\ GpRegs(func.saved) \in Seq(func.saved)
  BY Sizes
<1>3. Len(GpRegs(func.saved)) = Saved(func)
  BY DEF Saved
<1>4. \A j \in 1 .. Len(GpRegs(func.saved)) : GpRegs(func.saved)[j] \in func.saved
  BY <1>2
<1>5. \A j \in 1 .. Saved(func) : GpRegs(func.saved)[j] \in func.saved
  BY <1>3, <1>4
<1>6. \A j \in 1 .. Saved(func) : Framed(func, adjust)
  BY <1>1, <1>5 DEF Framed
<1>7. /\ func.saved \subseteq Registers \ {"rsp", "rbp"} /\ func.saved \subseteq CalleeSaved
  BY SavedFacts, ConventionFacts DEF PassInv
<1>. QED BY <1>1, <1>2, <1>3, <1>5, <1>6, <1>7 DEF Ground

(* Between prologue and epilogue the frame stays as it is.                 *)
LEMMA FrameInBody ==
  ASSUME PassInv, FrameIs(func, adjust, pos, step, reg, mem),
         FrameKept(func, adjust, reg, reg', mem, mem'),
         pos = PrologueOf(func) =>
           IF Framed(func, adjust) THEN step = Saved(func) + 3 ELSE step = 0,
         pos' # PrologueOf(func), pos' # <<Final(func), 5>>,
         pos' = EpilogueOf(func) => step' = 0
  PROVE  FrameIs(func, adjust, pos', step', reg', mem')
<1>1. PICK g \in Nat, fs \in Nat, gr \in Int :
        /\ g = Saved(func) /\ fs = FrameSize(func) /\ gr = Ground(func, adjust)
        /\ gr = IF Framed(func, adjust) THEN Entry - 8 - fs - 8 * g ELSE Entry
  BY FrameFacts DEF Entry
<1>2. Entry = 1000
  BY DEF Entry
<1>3. \A c \in Int : c >= gr => ReadAt(mem', c) = ReadAt(mem, c)
  BY <1>1 DEF FrameKept
<1>4. ReadAt(mem', Entry) = <<"return", 0>>
  <2>1. Entry \in Int /\ Entry >= gr
    BY <1>1, <1>2
  <2>. QED BY <1>3, <2>1 DEF FrameIs
<1>5. \A r \in CalleeSaved \ (func.saved \cup {"rbp"}) : reg'[r] = Outer(r)
  BY DEF FrameIs, FrameKept
<1>6. \A k \in Nat : ~Left(func, pos', step', k)
  BY DEF Left
<1>7. ~Framed(func, adjust) => reg'["rbp"] = Outer("rbp")
  <2>1. "rbp" \in CalleeSaved \ func.saved
    BY FrameFacts, ConventionFacts
  <2>. QED BY <2>1 DEF FrameIs, FrameKept
<1>8. ASSUME Framed(func, adjust) PROVE ReadAt(mem', Entry - 8) = Outer("rbp")
  <2>1. pos = PrologueOf(func) => step > 0
    BY <1>1, <1>8
  <2>2. Entry - 8 \in Int /\ Entry - 8 >= gr
    BY <1>1, <1>2, <1>8
  <2>. QED BY <1>3, <1>8, <2>1, <2>2 DEF FrameIs
<1>9. ASSUME NEW j \in 1 .. g
      PROVE  ReadAt(mem', Entry - 8 - fs - 8 * j) = Outer(GpRegs(func.saved)[j])
  <2>1. Framed(func, adjust)
    BY <1>1, FrameFacts
  <2>2. pos = PrologueOf(func) => step > j + 2
    BY <1>1, <2>1
  <2>3. Entry - 8 - fs - 8 * j \in Int /\ Entry - 8 - fs - 8 * j >= gr
    BY <1>1, <1>2, <2>1
  <2>4. ReadAt(mem, Entry - 8 - fs - 8 * j) = Outer(GpRegs(func.saved)[j])
    BY <1>1, <2>2 DEF FrameIs
  <2>. QED BY <1>3, <2>3, <2>4
<1>10. \A j \in 1 .. g : g - j \in Nat
  OBVIOUS
<1>. QED BY <1>1, <1>4, <1>5, <1>6, <1>7, <1>8, <1>9, <1>10 DEF FrameIs

(* The prologue puts each of them in its place.                            *)
LEMMA FrameEnters ==
  ASSUME PassInv, StackInv, phase = "run", Sound(func),
         FrameIs(func, adjust, pos, step, reg, mem), NEW s, EnterFrame(s)
  PROVE  FrameIs(func, adjust, pos', step', reg', mem')
<1>1. /\ pos = PrologueOf(func) /\ pos' = pos /\ step' = step + 1 /\ Framed(func, adjust)
      /\ s = GpRegs(func.saved) /\ step \in Nat
  BY DEF EnterFrame, Stay, PassInv
<1>2. PICK t \in Int : /\ reg["rsp"] = Address(t) /\ reg = [r \in Registers |-> reg[r]]
                       /\ t = Level(func, adjust, pos[1], pos[2], step, 0)
  BY SoundStack
<1>3. PICK g \in Nat, fs \in Nat, e \in Int :
        /\ g = Saved(func) /\ fs = FrameSize(func) /\ g = Len(s) /\ e = Entry
  BY <1>1, FrameFacts DEF Entry
<1>4. t = IF step = 0 THEN e ELSE IF step <= 2 THEN e - 8 ELSE e - 8 - fs - 8 * (step - 3)
  BY <1>1, <1>2, <1>3, FrameFacts DEF Level
<1>5. /\ ReadAt(mem, e) = <<"return", 0>>
      /\ \A r \in CalleeSaved \ (func.saved \cup {"rbp"}) : reg[r] = Outer(r)
      /\ step < 2 => reg["rbp"] = Outer("rbp")
      /\ step > 0 => ReadAt(mem, e - 8) = Outer("rbp")
      /\ \A j \in 1 .. g : /\ step > j + 2 => ReadAt(mem, e - 8 - fs - 8 * j) = Outer(s[j])
                           /\ reg[s[j]] = Outer(s[j])
  BY <1>1, <1>3 DEF FrameIs
<1>6. \A k, j : ~Left(func, pos', k, j)
  BY <1>1, FrameFacts DEF Left
<1>7. ASSUME /\ ReadAt(mem', e) = <<"return", 0>>
             /\ \A r \in CalleeSaved \ (func.saved \cup {"rbp"}) : reg'[r] = Outer(r)
             /\ step + 1 < 2 => reg'["rbp"] = Outer("rbp")
             /\ ReadAt(mem', e - 8) = Outer("rbp")
             /\ \A j \in 1 .. g : step + 1 > j + 2 => ReadAt(mem', e - 8 - fs - 8 * j) = Outer(s[j])
             /\ \A j \in 1 .. g : reg'[s[j]] = Outer(s[j])
      PROVE  FrameIs(func, adjust, pos', step', reg', mem')
  BY <1>1, <1>3, <1>6, <1>7 DEF FrameIs
<1>8. /\ CalleeSaved \subseteq Registers \ {"rsp"} /\ "rbp" \in CalleeSaved
      /\ \A j \in 1 .. g : s[j] \in Registers \ {"rsp", "rbp"} /\ s[j] \in func.saved
  BY <1>1, <1>3, FrameFacts, ConventionFacts
<1>9. CASE step = 0 /\ Push("rbp")
  <2>1. Alike(reg, reg', {"rsp"}) /\ mem' = Written(mem, t - 8, 8, reg["rbp"])
    BY <1>2, <1>8, <1>9, Machine
  <2>2. t = e /\ t - 8 \in Int /\ e - 8 \in Int
    BY <1>4, <1>9
  <2>3. ReadAt(mem', e) = <<"return", 0>>
    <3>1. ReadAt(Written(mem, t - 8, 8, reg["rbp"]), e) = ReadAt(mem, e)
      BY <2>2, StoreKeeps
    <3>. QED BY <1>5, <2>1, <3>1
  <2>4. ReadAt(mem', e - 8) = Outer("rbp")
    <3>1. ReadAt(Written(mem, t - 8, 8, reg["rbp"]), t - 8) = reg["rbp"]
      BY <2>2, StoreReads
    <3>. QED BY <1>5, <1>9, <2>1, <2>2, <3>1
  <2>5. \A r \in Registers \ {"rsp"} : reg'[r] = reg[r]
    BY <2>1 DEF Alike
  <2>6. \A j \in 1 .. g : ~(step + 1 > j + 2)
    BY <1>9
  <2>. QED BY <1>5, <1>7, <1>8, <1>9, <2>3, <2>4, <2>5, <2>6
<1>10. CASE step = 1 /\ SetFrame
  <2>1. Alike(reg, reg', {"rbp"}) /\ mem' = mem
    BY <1>2, <1>10, Machine
  <2>2. \A r \in Registers \ {"rbp"} : reg'[r] = reg[r]
    BY <2>1 DEF Alike
  <2>3. ~(step + 1 < 2) /\ step > 0 /\ \A j \in 1 .. g : ~(step + 1 > j + 2)
    BY <1>10
  <2>. QED BY <1>5, <1>7, <1>8, <2>1, <2>2, <2>3
<1>11. CASE step = 2 /\ MoveRsp(-FrameSize(func))
  <2>1. -FrameSize(func) \in Int
    BY <1>3
  <2>2. Alike(reg, reg', {"rsp"}) /\ mem' = mem
    BY <1>2, <1>11, <2>1, Machine
  <2>3. \A r \in Registers \ {"rsp"} : reg'[r] = reg[r]
    BY <2>2 DEF Alike
  <2>4. ~(step + 1 < 2) /\ step > 0 /\ \A j \in 1 .. g : ~(step + 1 > j + 2)
    BY <1>11
  <2>. QED BY <1>5, <1>7, <1>8, <2>2, <2>3, <2>4
<1>12. CASE step - 2 \in 1 .. Len(s) /\ Push(s[step - 2])
  <2>1. PICK i \in 1 .. g : i = step - 2 /\ step = i + 2 /\ step > 2
    BY <1>1, <1>3, <1>12
  <2>2. PICK q \in Registers : q = s[i] /\ Push(q) /\ reg[q] = Outer(s[i])
    BY <1>5, <1>8, <1>12, <2>1
  <2>3. Alike(reg, reg', {"rsp"}) /\ mem' = Written(mem, t - 8, 8, Outer(s[i]))
    BY <1>2, <2>2, Machine
  <2>4. t - 8 = e - 8 - fs - 8 * i /\ t - 8 \in Int
    BY <1>3, <1>4, <2>1
  <2>5. \A r \in Registers \ {"rsp"} : reg'[r] = reg[r]
    BY <2>3 DEF Alike
  <2>6. ASSUME NEW c \in Int, c >= (t - 8) + 8 PROVE ReadAt(mem', c) = ReadAt(mem, c)
    <3>1. ReadAt(Written(mem, t - 8, 8, Outer(s[i])), c) = ReadAt(mem, c)
      BY <2>4, <2>6, StoreKeeps
    <3>. QED BY <2>3, <3>1
  <2>7. ReadAt(mem', t - 8) = Outer(s[i])
    <3>1. ReadAt(Written(mem, t - 8, 8, Outer(s[i])), t - 8) = Outer(s[i])
      BY <2>4, StoreReads
    <3>. QED BY <2>3, <3>1
  <2>8. ASSUME NEW j \in 1 .. g, step + 1 > j + 2
        PROVE  ReadAt(mem', e - 8 - fs - 8 * j) = Outer(s[j])
    <3>1. CASE j = i
      BY <2>4, <2>7, <3>1
    <3>2. CASE j # i
      <4>1. step > j + 2 /\ e - 8 - fs - 8 * j \in Int /\ e - 8 - fs - 8 * j >= (t - 8) + 8
        BY <1>3, <2>1, <2>4, <2>8, <3>2
      <4>. QED BY <1>5, <2>6, <4>1
    <3>. QED BY <3>1, <3>2
  <2>9. e >= (t - 8) + 8 /\ e - 8 >= (t - 8) + 8 /\ e \in Int /\ e - 8 \in Int
    BY <1>3, <2>1, <2>4
  <2>10. ReadAt(mem', e) = <<"return", 0>> /\ ReadAt(mem', e - 8) = Outer("rbp")
    BY <1>5, <2>1, <2>6, <2>9
  <2>11. ~(step + 1 < 2)
    BY <2>1
  <2>. QED BY <1>5, <1>7, <1>8, <2>5, <2>8, <2>10, <2>11
<1>. QED BY <1>9, <1>10, <1>11, <1>12 DEF EnterFrame

(* The epilogue takes each from its place.                                 *)
LEMMA FrameLeaves ==
  ASSUME PassInv, StackInv, phase = "run", Sound(func),
         FrameIs(func, adjust, pos, step, reg, mem), NEW s, LeaveFrame(s)
  PROVE  FrameIs(func, adjust, pos', step', reg', mem')
<1>1. /\ pos = EpilogueOf(func) /\ pos' = pos /\ step' = step + 1 /\ Framed(func, adjust)
      /\ s = GpRegs(func.saved) /\ step \in Nat /\ pos # PrologueOf(func) /\ pos # <<Final(func), 5>>
  BY FrameFacts DEF LeaveFrame, Stay, PassInv
<1>2. PICK t \in Int : /\ reg["rsp"] = Address(t) /\ reg = [r \in Registers |-> reg[r]]
                       /\ t = Level(func, adjust, pos[1], pos[2], step, 0)
  BY SoundStack
<1>3. PICK g \in Nat, fs \in Nat, e \in Int :
        /\ g = Saved(func) /\ fs = FrameSize(func) /\ g = Len(s) /\ e = Entry
  BY <1>1, FrameFacts DEF Entry
<1>4. /\ ReadAt(mem, e) = <<"return", 0>>
      /\ \A r \in CalleeSaved \ (func.saved \cup {"rbp"}) : reg[r] = Outer(r)
      /\ ReadAt(mem, e - 8) = Outer("rbp")
      /\ \A j \in 1 .. g : /\ ReadAt(mem, e - 8 - fs - 8 * j) = Outer(s[j])
                           /\ step > g - j => reg[s[j]] = Outer(s[j])
  BY <1>1, <1>3 DEF FrameIs, Left
<1>5. ASSUME /\ mem' = mem
             /\ \A r \in CalleeSaved \ (func.saved \cup {"rbp"}) : reg'[r] = Outer(r)
             /\ step + 1 > g => reg'["rbp"] = Outer("rbp")
             /\ \A j \in 1 .. g : step + 1 > g - j => reg'[s[j]] = Outer(s[j])
      PROVE  FrameIs(func, adjust, pos', step', reg', mem')
  BY <1>1, <1>3, <1>4, <1>5 DEF FrameIs, Left
<1>6. /\ CalleeSaved \subseteq Registers \ {"rsp"} /\ "rbp" \in CalleeSaved
      /\ \A j \in 1 .. g : s[j] \in Registers \ {"rsp", "rbp"} /\ s[j] \in func.saved
  BY <1>1, <1>3, FrameFacts, ConventionFacts
<1>7. CASE step \in 0 .. Len(s) - 1 /\ Pop(s[Len(s) - step])
  <2>1. PICK i \in 1 .. g : i = g - step /\ step = g - i /\ step + 1 <= g
    BY <1>1, <1>3, <1>7
  <2>2. PICK q \in Registers \ {"rsp", "rbp"} : q = s[i] /\ Pop(q) /\ q \in func.saved
    BY <1>3, <1>6, <1>7, <2>1
  <2>3. Alike(reg, reg', {"rsp", q}) /\ reg'[q] = ReadAt(mem, t) /\ mem' = mem
    BY <1>2, <2>2, Machine
  <2>4. t = e - 8 - fs - 8 * i
    <3>1. pos = <<Final(func), 4>>
      BY <1>1, FrameFacts
    <3>2. ~(step > g)
      BY <2>1
    <3>3. t = Ground(func, adjust) + 0 + 8 * step
      BY <1>1, <1>2, <1>3, <3>1, <3>2 DEF Level
    <3>4. Ground(func, adjust) = e - 8 - fs - 8 * g
      BY <1>1, <1>3, FrameFacts
    <3>. QED BY <1>3, <2>1, <3>3, <3>4
  <2>5. reg'[q] = Outer(s[i])
    BY <1>4, <2>3, <2>4
  <2>6. \A r \in Registers \ {"rsp", q} : reg'[r] = reg[r]
    BY <2>3 DEF Alike
  <2>7. ASSUME NEW j \in 1 .. g, step + 1 > g - j PROVE reg'[s[j]] = Outer(s[j])
    <3>1. CASE s[j] = q
      BY <2>2, <2>5, <3>1
    <3>2. CASE s[j] # q
      <4>1. j # i
        BY <2>2, <3>2
      <4>2. step > g - j
        BY <2>1, <2>7, <4>1
      <4>. QED BY <1>4, <1>6, <2>6, <3>2, <4>2
    <3>. QED BY <3>1, <3>2
  <2>8. \A r \in CalleeSaved \ (func.saved \cup {"rbp"}) : reg'[r] = Outer(r)
    BY <1>4, <1>6, <2>2, <2>6
  <2>9. ~(step + 1 > g)
    BY <2>1
  <2>. QED BY <1>5, <2>3, <2>7, <2>8, <2>9
<1>8. CASE step = Len(s) /\ Leave
  <2>1. step = g
    BY <1>3, <1>8
  <2>2. reg["rbp"] = Address(e - 8) /\ e - 8 \in Int
    <3>1. pos = <<Final(func), 4>>
      BY <1>1, FrameFacts
    <3>2. Inside(func, Final(func), 4, step)
      <4>1. ~(step > g)
        BY <2>1
      <4>. QED BY <1>3, <4>1 DEF Inside
    <3>. QED BY <1>1, <1>3, <3>1, <3>2 DEF StackInv, StackIs
  <2>3. /\ Alike(reg, reg', {"rsp", "rbp"}) /\ reg'["rbp"] = ReadAt(mem, e - 8) /\ mem' = mem
    BY <1>2, <1>8, <2>2, Machine
  <2>4. \A r \in Registers \ {"rsp", "rbp"} : reg'[r] = reg[r]
    BY <2>3 DEF Alike
  <2>5. \A j \in 1 .. g : step > g - j
    BY <2>1
  <2>. QED BY <1>4, <1>5, <1>6, <2>3, <2>4, <2>5
<1>. QED BY <1>7, <1>8 DEF LeaveFrame

(* The steps of the body of the function.                                  *)
LEMMA FrameInCalls ==
  ASSUME PassInv, StackInv, phase = "run", Sound(func),
         FrameIs(func, adjust, pos, step, reg, mem),
         \/ EndPrologue
         \/ \E b, s : GoDown(b, s) \/ GoUp(b, s) \/ EndDown(b, s) \/ EndUp(b, s)
         \/ \E b : Uses(b) \/ Defines(b) \/ Calls(b)
         \/ \E b, n, to : Passes(b, n, to)
  PROVE  FrameIs(func, adjust, pos', step', reg', mem')
<1>1. func \in Functions
  BY DEF PassInv
<1>2. PrologueOf(func) = <<First(func), 1>> /\ EpilogueOf(func) = <<Final(func), 4>>
  BY FrameFacts
<1>3. UNCHANGED <<reg, mem>> => FrameKept(func, adjust, reg, reg', mem, mem')
  BY DEF FrameKept
<1>4. ASSUME EndPrologue PROVE FrameIs(func, adjust, pos', step', reg', mem')
  <2>1. /\ pos' = <<First(func), 2>> /\ UNCHANGED <<reg, mem>>
        /\ IF Framed(func, adjust) THEN step = Saved(func) + 3 ELSE step = 0
    BY <1>4, FrameFacts DEF EndPrologue, GoTo
  <2>2. pos' # PrologueOf(func) /\ pos' # <<Final(func), 5>> /\ pos' # EpilogueOf(func)
    BY <1>2, <2>1
  <2>. QED BY <1>3, <2>1, <2>2, FrameInBody
<1>5. ASSUME NEW b \in Calling(func), NEW s, GoDown(b, s) \/ GoUp(b, s)
      PROVE  FrameIs(func, adjust, pos', step', reg', mem')
  <2>1. pos' = pos /\ (pos = <<b, 4>> \/ pos = <<Following(func, b), 1>>)
    BY <1>5, CallPlaces DEF GoDown, GoUp, Stay
  <2>2. /\ b # Final(func) /\ Following(func, b) # First(func)
    BY CallPlaces
  <2>3. pos # PrologueOf(func) /\ pos' # PrologueOf(func) /\ pos' # <<Final(func), 5>>
        /\ pos' # EpilogueOf(func)
    BY <1>2, <2>1, <2>2
  <2>4. FrameKept(func, adjust, reg, reg', mem, mem')
    BY <1>5, DownKeepsFrame, UpKeepsFrame
  <2>. QED BY <2>3, <2>4, FrameInBody
<1>6. ASSUME NEW b \in Calling(func), NEW s, EndDown(b, s) \/ EndUp(b, s)
      PROVE  FrameIs(func, adjust, pos', step', reg', mem')
  <2>1. /\ \/ pos = <<b, 4>> /\ pos' = <<b, 5>>
           \/ pos = <<Following(func, b), 1>> /\ pos' = <<Following(func, b), 2>>
        /\ UNCHANGED <<reg, mem>>
    BY <1>6, CallPlaces DEF EndDown, EndUp, GoTo
  <2>2. /\ b # Final(func) /\ Following(func, b) # First(func)
    BY CallPlaces
  <2>3. pos # PrologueOf(func) /\ pos' # PrologueOf(func) /\ pos' # <<Final(func), 5>>
        /\ pos' # EpilogueOf(func)
    BY <1>2, <2>1, <2>2
  <2>. QED BY <1>3, <2>1, <2>3, FrameInBody
<1>7. ASSUME NEW b, Uses(b) \/ Defines(b)
      PROVE  FrameIs(func, adjust, pos', step', reg', mem')
  <2>1. /\ \/ pos = <<b, 2>> /\ pos' = <<b, 3>>
           \/ pos = <<b, 3>> /\ pos' = <<b, 4>>
        /\ step' = 0
    BY <1>7 DEF Uses, Defines, GoTo
  <2>2. pos # PrologueOf(func) /\ pos' # PrologueOf(func) /\ pos' # <<Final(func), 5>>
    BY <1>2, <2>1
  <2>3. FrameKept(func, adjust, reg, reg', mem, mem')
    BY <1>3, <1>7, DefineKeepsFrame DEF Uses
  <2>. QED BY <2>1, <2>2, <2>3, FrameInBody
<1>8. ASSUME NEW b \in Calling(func), Calls(b)
      PROVE  FrameIs(func, adjust, pos', step', reg', mem')
  <2>1. PICK n \in Nat : n = Len(func.calls[b].args)
    BY <1>1, CallFacts
  <2>2. /\ pos = <<b, n + 5>> /\ pos' = <<Following(func, b), 1>> /\ step' = 0
    BY <1>8, <2>1, CallPlaces DEF Calls, GoTo
  <2>3. n + 5 # 1 /\ Following(func, b) # First(func)
    BY <2>1, CallPlaces
  <2>4. pos # PrologueOf(func) /\ pos' # PrologueOf(func) /\ pos' # <<Final(func), 5>>
    BY <1>2, <2>2, <2>3
  <2>5. FrameKept(func, adjust, reg, reg', mem, mem')
    BY <1>8, CallKeepsFrame
  <2>. QED BY <2>2, <2>4, <2>5, FrameInBody
<1>9. ASSUME NEW b, NEW n, NEW to, Passes(b, n, to)
      PROVE  FrameIs(func, adjust, pos', step', reg', mem')
  <2>1. /\ pos = <<b, n + 4>> /\ pos' = <<b, n + 5>> /\ step' = 0 /\ n \in Nat /\ b \in Calling(func)
    BY <1>9 DEF Passes, GoTo
  <2>2. n + 4 # 1 /\ n + 5 # 1 /\ b # Final(func)
    BY <2>1, CallPlaces
  <2>3. pos # PrologueOf(func) /\ pos' # PrologueOf(func) /\ pos' # <<Final(func), 5>>
    BY <1>2, <2>1, <2>2
  <2>4. FrameKept(func, adjust, reg, reg', mem, mem')
    BY <1>9, PassKeepsFrame
  <2>. QED BY <2>1, <2>3, <2>4, FrameInBody
<1>10. /\ \A b, s : GoDown(b, s) \/ GoUp(b, s) \/ EndDown(b, s) \/ EndUp(b, s) => b \in Calling(func)
       /\ \A b : Calls(b) => b \in Calling(func)
  BY DEF GoDown, GoUp, EndDown, EndUp, Calls
<1>. QED BY <1>4, <1>5, <1>6, <1>7, <1>8, <1>9, <1>10

(* Prologue and epilogue end with all saved, all restored.                 *)
LEMMA FrameEnds ==
  ASSUME PassInv, phase = "run", FrameIs(func, adjust, pos, step, reg, mem), EndEpilogue
  PROVE  FrameIs(func, adjust, pos', step', reg', mem')
<1>1. /\ pos = EpilogueOf(func) /\ pos' = <<Final(func), 5>> /\ reg' = reg /\ mem' = mem
      /\ pos # PrologueOf(func) /\ pos' # PrologueOf(func)
      /\ IF Framed(func, adjust) THEN step = Saved(func) + 1 ELSE step = 0
  BY FrameFacts DEF EndEpilogue, GoTo
<1>2. PICK g \in Nat : g = Saved(func)
  BY FrameFacts
<1>3. Framed(func, adjust) => step > g /\ \A j \in 1 .. g : step > g - j
  BY <1>1, <1>2
<1>4. \A j \in 1 .. g : Framed(func, adjust)
  BY <1>2, FrameFacts
<1>5. reg["rbp"] = Outer("rbp")
  BY <1>1, <1>2, <1>3 DEF FrameIs, Left
<1>6. \A j \in 1 .. g : reg[GpRegs(func.saved)[j]] = Outer(GpRegs(func.saved)[j])
  BY <1>1, <1>2, <1>3, <1>4 DEF FrameIs, Left
<1>. QED BY <1>1, <1>2, <1>5, <1>6 DEF FrameIs

(* At entry nothing has been touched.                                      *)
LEMMA FrameStarts ==
  ASSUME PassInv, Enter
  PROVE  FrameIs(func, adjust, pos', step', reg', mem')
<1>1. /\ pos' = PrologueOf(func) /\ step' = 0
      /\ reg' = [r \in Registers |-> IF r = "rsp" THEN Address(Entry) ELSE Outer(r)]
      /\ mem' = [a \in {Entry} |-> <<"return", 0>>]
  BY FrameFacts DEF Enter, PassInv
<1>2. ReadAt(mem', Entry) = <<"return", 0>>
  BY <1>1 DEF ReadAt
<1>3. \A r \in CalleeSaved : r \in Registers /\ r # "rsp"
  BY ConventionFacts
<1>4. \A r \in CalleeSaved : reg'[r] = Outer(r)
  BY <1>1, <1>3
<1>5. "rbp" \in CalleeSaved /\ \A j \in 1 .. Saved(func) : GpRegs(func.saved)[j] \in CalleeSaved
  BY FrameFacts, ConventionFacts
<1>6. ~(0 > 0) /\ \A j \in 1 .. Saved(func) : ~(0 > j + 2)
  BY FrameFacts
<1>. QED BY <1>1, <1>2, <1>4, <1>5, <1>6 DEF FrameIs

(* No step disturbs the frame.                                             *)
LEMMA FrameSteps ==
  ASSUME PassInv, StackInv, FrameInv, [Next]_vars
  PROVE  FrameInv'
<1>1. CASE UNCHANGED vars
  BY <1>1 DEF vars, FrameInv
<1>2. CASE Next /\ phase = "run"
  <2>1. func' = func /\ adjust' = adjust /\ (Works \/ Returns)
    BY <1>2, RunSteps
  <2>2. CASE Works /\ Sound(func)
    <3>1. FrameIs(func, adjust, pos, step, reg, mem)
      BY <1>2, <2>2 DEF FrameInv
    <3>2. (\E s : EnterFrame(s) \/ LeaveFrame(s)) => FrameIs(func, adjust, pos', step', reg', mem')
      BY <1>2, <2>2, <3>1, FrameEnters, FrameLeaves
    <3>3. EndEpilogue => FrameIs(func, adjust, pos', step', reg', mem')
      BY <1>2, <3>1, FrameEnds
    <3>4. (\/ EndPrologue
           \/ \E b, s : GoDown(b, s) \/ GoUp(b, s) \/ EndDown(b, s) \/ EndUp(b, s)
           \/ \E b : Uses(b) \/ Defines(b) \/ Calls(b)
           \/ \E b, n, to : Passes(b, n, to))
          => FrameIs(func, adjust, pos', step', reg', mem')
      BY <1>2, <2>2, <3>1, FrameInCalls
    <3>5. FrameIs(func, adjust, pos', step', reg', mem')
      BY <2>2, <3>2, <3>3, <3>4 DEF Works
    <3>. QED BY <2>1, <3>5 DEF FrameInv
  <2>3. CASE Returns
    BY <1>2, <2>1, <2>3 DEF Returns, FrameInv
  <2>4. CASE ~Sound(func)
    BY <2>1, <2>4 DEF FrameInv
  <2>. QED BY <2>1, <2>2, <2>3, <2>4
<1>3. CASE InitializeAdjust
  BY <1>3 DEF InitializeAdjust, FrameInv
<1>4. CASE Enter
  <2>1. func' = func /\ adjust' = adjust
    BY <1>4 DEF Enter
  <2>. QED BY <1>4, <2>1, FrameStarts DEF FrameInv
<1>5. CASE Next /\ phase # "run" /\ ~InitializeAdjust /\ ~Enter
  BY <1>5 DEF Next, RunAdjust, FinishAdjust, RunDefinition, RunUse, RunPass, RunCall, RunReturn
<1>. QED BY <1>1, <1>2, <1>3, <1>4, <1>5

(* In every run of a sound function, at every instruction, the frame holds *)
(* what the function found when it was entered.                            *)
THEOREM FrameInvariant == Spec => []FrameInv
<1>1. Init => FrameInv
  BY DEF Init, FrameInv
<1>2. PassInv /\ StackInv /\ FrameInv /\ [Next]_vars => FrameInv'
  BY FrameSteps
<1>. QED BY <1>1, <1>2, PassInvariant, StackInvariant, PTL DEF Spec

(* A function returns with rsp, rbp and the callee-saved registers as its  *)
(* caller left them, whatever it saves, passes and calls, but for the      *)
(* exceptions ReturnsToCaller names.                                       *)
THEOREM EveryFunctionReturns == Spec => []ReturnsToCaller
<1>1. PassInv /\ StackInv /\ PlaceInv /\ FrameInv => ReturnsToCaller
  <2> SUFFICES ASSUME PassInv, StackInv, PlaceInv, FrameInv, phase = "returned", Sound(func)
               PROVE  /\ reg["rsp"] = Address(Entry)
                      /\ ReadAt(mem, Entry) = <<"return", 0>>
                      /\ \A r \in CalleeSaved : reg[r] = Outer(r)
    BY DEF ReturnsToCaller, Sound
  <2>1. pos = <<Final(func), 5>> /\ step = 0
    BY DEF PlaceInv
  <2>2. PICK d \in Int, t \in Int : /\ Drift(func, adjust, d) /\ reg["rsp"] = Address(t)
                                    /\ t = Level(func, adjust, pos[1], pos[2], step, d)
    BY StackFacts
  <2>3. d = 0
    BY <2>2 DEF Drift, Sound
  <2>4. t = Entry
    <3>1. t = IF Framed(func, adjust) THEN Entry ELSE Ground(func, adjust) + 0 + 8 * 0
      BY <2>1, <2>2, <2>3 DEF Level
    <3>. QED BY <3>1 DEF Ground, Entry
  <2>5. FrameIs(func, adjust, pos, step, reg, mem)
    BY DEF FrameInv
  <2>6. \A k \in Int : Left(func, pos, step, k)
    BY <2>1 DEF Left
  <2>7. ASSUME NEW r \in CalleeSaved PROVE reg[r] = Outer(r)
    <3>1. CASE r \in func.saved
      <4>1. PICK j \in 1 .. Saved(func) : GpRegs(func.saved)[j] = r
        BY <3>1, Sizes
      <4>2. Saved(func) - j \in Int
        BY FrameFacts
      <4>. QED BY <2>5, <2>6, <4>1, <4>2 DEF FrameIs
    <3>2. CASE r = "rbp"
      BY <2>5, <2>6, <3>2, FrameFacts DEF FrameIs
    <3>3. CASE r \notin func.saved \cup {"rbp"}
      BY <2>5, <3>3 DEF FrameIs
    <3>. QED BY <3>1, <3>2, <3>3
  <2>. QED BY <2>2, <2>4, <2>5, <2>7 DEF FrameIs
<1>. QED BY <1>1, PassInvariant, StackInvariant, PlaceInvariant, FrameInvariant, PTL

----------------------------------------------------------------------------
(* Where caller and callee expect arguments of one class.                  *)
(* What never decreases from one index to the next never decreases.        *)
LEMMA Rises ==
  ASSUME NEW n \in Nat, NEW h \in [0 .. n -> Nat], \A k \in 1 .. n : h[k - 1] <= h[k],
         NEW m \in 0 .. n
  PROVE  \A j \in 0 .. m : h[j] <= h[m]
<1> DEFINE P == {k \in 0 .. n : \A j \in 0 .. k : h[j] <= h[k]}
<1>1. 0 \in P
  OBVIOUS
<1>2. ASSUME NEW k \in 1 .. n, k - 1 \in P PROVE k \in P
  <2>1. ASSUME NEW j \in 0 .. k PROVE h[j] <= h[k]
    <3>1. h[j] \in Nat /\ h[k] \in Nat /\ h[k - 1] \in Nat /\ h[k - 1] <= h[k]
      OBVIOUS
    <3>2. j # k => h[j] <= h[k - 1]
      BY <1>2
    <3>. QED BY <3>1, <3>2
  <2>. QED BY <2>1
<1> HIDE DEF P
<1>3. \A k \in 0 .. n : k \in P
  BY <1>1, <1>2, Base!UpTo
<1>. QED BY <1>3 DEF P

(* The registers of each class.                                            *)
LEMMA ClassFacts ==
  /\ \A c \in {"GP", "FP", "MEM"} : /\ ArgumentRegisters(c) \in Seq(CallerSaved)
                                    /\ Distinct(ArgumentRegisters(c))
  /\ ArgumentRegisters("MEM") = <<>> /\ Len(ArgumentRegisters("MEM")) = 0
<1>1. GpArguments \in Seq(Gp \cap CallerSaved) /\ Distinct(GpArguments)
      /\ XmmArguments \in Seq(CallerSaved \ Gp) /\ Distinct(XmmArguments)
  BY FrameAssumption DEF ConventionAssumption
<1>2. GpArguments \in Seq(CallerSaved)
  BY <1>1
<1>3. XmmArguments \in Seq(CallerSaved)
  BY <1>1
<1>4. <<>> \in Seq(CallerSaved) /\ Distinct(<<>>) /\ Len(<<>>) = 0
  BY DEF Distinct
<1>. QED BY <1>1, <1>2, <1>3, <1>4 DEF ArgumentRegisters

(* The callee's count of words on the stack, argument by argument.         *)
LEMMA CalleeAreaFacts ==
  ASSUME NEW args \in Seq(Arguments)
  PROVE  LET n == Len(args)
             area == CalleeArea(args)
         IN
         /\ area \in [0 .. n -> Nat] /\ area[0] = 0
         /\ \A k \in 1 .. n :
              area[k] = IF args[k].class = "MEM" \/ InRegister(args, Primitive, k) THEN area[k - 1]
                        ELSE area[k - 1] + 8
<1>1. PICK n \in Nat : n = Len(args)
  OBVIOUS
<1> DEFINE in(k) == args[k].class = "MEM" \/ InRegister(args, Primitive, k)
           d == [k \in 1 .. n |-> IF in(k) THEN 0 ELSE 8]
<1>2. CalleeArea(args) = Sums(d)
  BY <1>1 DEF CalleeArea
<1> HIDE DEF in
<1>3. d \in [1 .. n -> Nat] /\ \A k \in 1 .. n : d[k] = IF in(k) THEN 0 ELSE 8
  OBVIOUS
<1> HIDE DEF d
<1>4. PICK s \in [0 .. n -> Nat] : /\ s = Sums(d) /\ s[0] = 0
                                   /\ \A k \in 1 .. n : s[k] = s[k - 1] + d[k]
  BY <1>3, SumsFacts
<1>5. ASSUME NEW k \in 1 .. n PROVE s[k] = IF in(k) THEN s[k - 1] ELSE s[k - 1] + 8
  <2>1. k - 1 \in 0 .. n
    OBVIOUS
  <2>. QED BY <1>3, <1>4, <2>1
<1>. QED BY <1>1, <1>2, <1>4, <1>5 DEF in

(* The callee's count of what is passed by value, argument by argument.    *)
LEMMA ByValueFacts ==
  ASSUME NEW args \in Seq(Arguments)
  PROVE  LET area == ByValueArea(args) IN
         /\ area \in [0 .. Len(args) -> Nat] /\ area[0] = 0
         /\ \A k \in 1 .. Len(args) :
              area[k] = IF args[k].class = "MEM" THEN AlignUp(area[k - 1], 8) + args[k].size
                        ELSE area[k - 1]
<1>1. PICK n \in Nat : n = Len(args)
  OBVIOUS
<1> DEFINE by(k) == args[k].class = "MEM"
           size(k) == args[k].size
<1>2. \A k \in 1 .. n : size(k) \in Nat
  BY <1>1, ArgumentFacts
<1>3. \A x \in Nat : AlignUp(x, 8) \in Nat
  BY DEF AlignUp
<1> HIDE DEF by, size
<1> DEFINE next == [k \in 1 .. n |-> [x \in Nat |-> IF by(k) THEN AlignUp(x, 8) + size(k) ELSE x]]
<1>4. next \in [1 .. n -> [Nat -> Nat]]
  <2>1. ASSUME NEW k \in 1 .. n, NEW x \in Nat
        PROVE  (IF by(k) THEN AlignUp(x, 8) + size(k) ELSE x) \in Nat
    <3>1. AlignUp(x, 8) \in Nat /\ size(k) \in Nat
      BY <1>2, <1>3
    <3>. QED BY <3>1
  <2>. QED BY <2>1
<1>5. PICK g \in [0 .. n -> Nat] : Base!IsBuilt(g, n, 0, next)
  <2> HIDE DEF next
  <2>. QED BY <1>4, Base!BuiltExists
<1> DEFINE Is(h) == h = [k \in 0 .. n |-> IF k = 0 THEN 0
                                         ELSE IF by(k) THEN AlignUp(h[k - 1], 8) + size(k) ELSE h[k - 1]]
           f == CHOOSE h : Is(h)
<1>6. ASSUME NEW k \in 0 .. n
      PROVE  g[k] = IF k = 0 THEN 0 ELSE IF by(k) THEN AlignUp(g[k - 1], 8) + size(k) ELSE g[k - 1]
  <2>1. g[k] = IF k = 0 THEN 0 ELSE next[k][g[k - 1]]
    BY <1>5 DEF Base!IsBuilt
  <2>2. k # 0 => k \in 1 .. n /\ k - 1 \in 0 .. n
    OBVIOUS
  <2>3. k # 0 => next[k][g[k - 1]] = IF by(k) THEN AlignUp(g[k - 1], 8) + size(k) ELSE g[k - 1]
    BY <1>5, <2>2
  <2> HIDE DEF next
  <2>. QED BY <2>1, <2>3
<1>7. Is(g)
  BY <1>5, <1>6
<1>8. Is(f)
  BY <1>7
<1>9. ByValueArea(args) = f
  BY <1>1 DEF ByValueArea, by, size
<1> HIDE DEF f
<1>10. \A k \in 0 .. n : f[k] = IF k = 0 THEN 0
                                ELSE IF by(k) THEN AlignUp(f[k - 1], 8) + size(k) ELSE f[k - 1]
  BY <1>8
<1>11. f = [k \in 0 .. n |-> f[k]]
  BY <1>8
<1>12. \A k \in 0 .. n : f[k] \in Nat
  <2> DEFINE P == {k \in 0 .. n : f[k] \in Nat}
  <2>1. 0 \in P
    BY <1>10
  <2>2. ASSUME NEW k \in 1 .. n, k - 1 \in P PROVE k \in P
    <3>1. f[k - 1] \in Nat /\ size(k) \in Nat
      BY <1>2, <2>2
    <3>2. AlignUp(f[k - 1], 8) \in Nat
      BY <1>3, <3>1
    <3>3. k \in 0 .. n /\ k # 0
      OBVIOUS
    <3>4. f[k] = IF by(k) THEN AlignUp(f[k - 1], 8) + size(k) ELSE f[k - 1]
      BY <1>10, <3>3
    <3>. QED BY <3>1, <3>2, <3>4
  <2> HIDE DEF P
  <2>3. \A k \in 0 .. n : k \in P
    BY <2>1, <2>2, Base!UpTo
  <2>. QED BY <2>3 DEF P
<1>13. f \in [0 .. n -> Nat]
  BY <1>11, <1>12
<1>14. f[0] = 0 /\ \A k \in 1 .. n : f[k] = IF by(k) THEN AlignUp(f[k - 1], 8) + size(k) ELSE f[k - 1]
  BY <1>10
<1>. QED BY <1>1, <1>9, <1>13, <1>14 DEF by, size

(* Caller and callee count the registers alike if the arguments are of one *)
(* class.                                                                  *)
LEMMA CountsAgree ==
  ASSUME NEW args \in Seq(Arguments), NEW c \in Primitive,
         \A k \in 1 .. Len(args) : args[k].class = c
  PROVE  \A k \in 0 .. Len(args) : Taken(args, {c})[k] = Taken(args, Primitive)[k]
<1>1. PICK n \in Nat : n = Len(args)
  OBVIOUS
<1>2. PICK one \in [0 .. n -> Nat] :
        /\ one = Taken(args, {c}) /\ one[0] = 0
        /\ \A k \in 1 .. n :
             one[k] = IF one[k - 1] < Len(ArgumentRegisters(c)) THEN one[k - 1] + 1 ELSE one[k - 1]
  BY <1>1, TakenFacts
<1>3. PICK both \in [0 .. n -> Nat] :
        /\ both = Taken(args, Primitive) /\ both[0] = 0
        /\ \A k \in 1 .. n :
             both[k] = IF both[k - 1] < Len(ArgumentRegisters(c)) THEN both[k - 1] + 1 ELSE both[k - 1]
  BY <1>1, TakenFacts
<1> DEFINE P == {k \in 0 .. n : one[k] = both[k]}
<1>4. 0 \in P
  BY <1>2, <1>3
<1>5. ASSUME NEW k \in 1 .. n, k - 1 \in P PROVE k \in P
  <2>1. one[k - 1] = both[k - 1]
    BY <1>5
  <2>2. /\ one[k] = IF one[k - 1] < Len(ArgumentRegisters(c)) THEN one[k - 1] + 1 ELSE one[k - 1]
        /\ both[k] = IF both[k - 1] < Len(ArgumentRegisters(c)) THEN both[k - 1] + 1 ELSE both[k - 1]
    BY <1>2, <1>3
  <2>3. one[k] = both[k]
    <3>1. PICK x, l : x = one[k - 1] /\ x = both[k - 1] /\ l = Len(ArgumentRegisters(c))
      BY <2>1
    <3>2. one[k] = (IF x < l THEN x + 1 ELSE x) /\ both[k] = (IF x < l THEN x + 1 ELSE x)
      BY <2>2, <3>1
    <3>. QED BY <3>2
  <2>. QED BY <2>3
<1> HIDE DEF P
<1>6. \A k \in 0 .. n : k \in P
  BY <1>4, <1>5, Base!UpTo
<1>. QED BY <1>1, <1>2, <1>3, <1>6 DEF P

(* They count the words on the stack alike, if the arguments are of one    *)
(* primitive class.                                                        *)
LEMMA AreasAgree ==
  ASSUME NEW args \in Seq(Arguments), NEW c \in Primitive,
         \A k \in 1 .. Len(args) : args[k].class = c
  PROVE  /\ \A k \in 0 .. Len(args) : CalleeArea(args)[k] = CallerArea(args)[k]
         /\ \A k \in 1 .. Len(args) : InRegister(args, Primitive, k) <=> InRegister(args, {c}, k)
<1>1. PICK n \in Nat : n = Len(args)
  OBVIOUS
<1>2. ASSUME NEW k \in 1 .. n
      PROVE  InRegister(args, Primitive, k) <=> InRegister(args, {c}, k)
  <2>1. k - 1 \in 0 .. n
    OBVIOUS
  <2>2. Taken(args, {c})[k - 1] = Taken(args, Primitive)[k - 1]
    BY <1>1, <2>1, CountsAgree
  <2>. QED BY <2>2 DEF InRegister
<1>3. \A k \in 1 .. n : args[k].class = c /\ c # "MEM" /\ AlignUp(args[k].size, 8) = 8
  BY <1>1, ArgumentFacts DEF Primitive
<1>4. PICK a \in [0 .. n -> Nat] :
        /\ a = CalleeArea(args) /\ a[0] = 0
        /\ \A k \in 1 .. n :
             a[k] = IF args[k].class = "MEM" \/ InRegister(args, Primitive, k) THEN a[k - 1]
                    ELSE a[k - 1] + 8
  BY <1>1, CalleeAreaFacts
<1>5. PICK b \in [0 .. n -> Nat] :
        /\ b = CallerArea(args) /\ b[0] = 0
        /\ \A k \in 1 .. n :
             b[k] = IF InRegister(args, {args[k].class}, k) THEN b[k - 1]
                    ELSE b[k - 1] + AlignUp(args[k].size, 8)
  BY <1>1, CallerAreaFacts
<1> DEFINE P == {k \in 0 .. n : a[k] = b[k]}
<1>6. 0 \in P
  BY <1>4, <1>5
<1>7. ASSUME NEW k \in 1 .. n, k - 1 \in P PROVE k \in P
  <2>1. a[k] = IF InRegister(args, {c}, k) THEN a[k - 1] ELSE a[k - 1] + 8
    BY <1>2, <1>3, <1>4
  <2>2. b[k] = IF InRegister(args, {c}, k) THEN b[k - 1] ELSE b[k - 1] + 8
    BY <1>3, <1>5
  <2>3. a[k - 1] = b[k - 1]
    BY <1>7
  <2>. QED BY <2>1, <2>2, <2>3
<1> HIDE DEF P
<1>8. \A k \in 0 .. n : k \in P
  BY <1>6, <1>7, Base!UpTo
<1>. QED BY <1>1, <1>2, <1>4, <1>5, <1>8 DEF P

(* And what is passed by value, as long as it is of whole words.           *)
LEMMA ByValueAgrees ==
  ASSUME NEW args \in Seq(Arguments), \A k \in 1 .. Len(args) : args[k].class = "MEM",
         NEW m \in 0 .. Len(args), \A k \in 1 .. m : args[k].size % 8 = 0
  PROVE  ByValueArea(args)[m] = CallerArea(args)[m]
<1>1. PICK n \in Nat : n = Len(args) /\ m \in 0 .. n
  OBVIOUS
<1>2. \A k \in 1 .. n : ~InRegister(args, {args[k].class}, k)
  <2>1. ASSUME NEW k \in 1 .. n PROVE ~InRegister(args, {args[k].class}, k)
    <3>1. k - 1 \in 0 .. n /\ Taken(args, {args[k].class}) \in [0 .. n -> Nat]
      BY <1>1, TakenFacts
    <3>2. Taken(args, {args[k].class})[k - 1] \in Nat
      BY <3>1
    <3>. QED BY <1>1, <3>2, ClassFacts DEF InRegister
  <2>. QED BY <2>1
<1>3. PICK a \in [0 .. n -> Nat] :
        /\ a = ByValueArea(args) /\ a[0] = 0
        /\ \A k \in 1 .. n : a[k] = AlignUp(a[k - 1], 8) + args[k].size
  BY <1>1, ByValueFacts
<1>4. PICK b \in [0 .. n -> Nat] :
        /\ b = CallerArea(args) /\ b[0] = 0
        /\ \A k \in 1 .. n : b[k] = b[k - 1] + AlignUp(args[k].size, 8)
        /\ \A k \in 0 .. n : b[k] % 8 = 0
  BY <1>1, <1>2, CallerAreaFacts
<1> DEFINE P == {k \in 0 .. m : a[k] = b[k]}
<1>5. 0 \in P
  BY <1>1, <1>3, <1>4
<1>6. ASSUME NEW k \in 1 .. m, k - 1 \in P PROVE k \in P
  <2>1. k \in 1 .. n /\ k - 1 \in 0 .. n
    BY <1>1
  <2>2. PICK x \in Nat, y \in Nat : x = b[k - 1] /\ y = args[k].size /\ x % 8 = 0 /\ y % 8 = 0
    <3>1. k \in 1 .. Len(args) /\ args[k].size \in Nat /\ args[k].size % 8 = 0
      BY <1>1, <2>1, ArgumentFacts
    <3>2. b[k - 1] \in Nat /\ b[k - 1] % 8 = 0
      BY <1>4, <2>1
    <3>. QED BY <3>1, <3>2
  <2>3. AlignUp(x, 8) = x /\ AlignUp(y, 8) = y
    <3>1. x \in Int /\ y \in Int
      OBVIOUS
    <3>. QED BY <2>2, <3>1, Aligned, Zenon
  <2>4. a[k - 1] = x
    BY <1>6, <2>2
  <2>5. a[k] = x + y
    BY <1>3, <2>1, <2>2, <2>3, <2>4
  <2>6. b[k] = x + y
    BY <1>4, <2>1, <2>2, <2>3
  <2>. QED BY <2>5, <2>6
<1> HIDE DEF P
<1>7. m \in Nat /\ m \in 0 .. m
  BY <1>1
<1>8. m \in P
  BY <1>5, <1>6, <1>7, Base!UpTo
<1>. QED BY <1>3, <1>4, <1>8 DEF P

(* An argument of a call whose arguments are of one class: its register is *)
(* the same to both, its place on the stack the same word.                 *)
LEMMA PlacesAgree ==
  ASSUME NEW args \in Seq(Arguments), OfOneClass(args), NEW n \in 1 .. Len(args)
  PROVE  LET from == CalleePlace(args, n)
             to == CallerPlace(args, n)
         IN
         \/ from = to /\ to.base \in CallerSaved
         \/ from.base = "rbp" /\ to.base = "rsp" /\ to.offset \in Nat /\ from.offset = to.offset + 16
         \/ /\ from.base = "rsp" /\ to.base = "rsp" /\ to.offset \in Nat
            /\ from.offset = to.offset + 8 \/ \E i \in 1 .. n - 1 : args[i].size % 8 # 0
<1>1. PICK l \in Nat : l = Len(args) /\ n \in 1 .. l /\ n - 1 \in 0 .. l /\ n \in 0 .. l
  OBVIOUS
<1>2. PICK c \in {"GP", "FP", "MEM"} : c = args[n].class
  BY ArgumentFacts
<1>3. \A k \in 1 .. Len(args) : args[k].class = c
  <2>1. DOMAIN args = 1 .. Len(args)
    OBVIOUS
  <2>. QED BY <1>2, <2>1 DEF OfOneClass
<1>4. CASE c = "MEM"
  <2>1. ~InRegister(args, {c}, n)
    <3>1. Taken(args, {c})[n - 1] \in Nat
      BY <1>1, TakenFacts
    <3>. QED BY <1>2, <1>4, <3>1, ClassFacts DEF InRegister
  <2>2. CallerPlace(args, n) = [base |-> "rsp", offset |-> CallerArea(args)[n - 1]]
        /\ CallerArea(args)[n - 1] \in Nat
    BY <1>2, <2>1, PlaceFacts
  <2>3. CalleePlace(args, n) = [base |-> "rsp", offset |-> 8 + ByValueArea(args)[n - 1]]
    BY <1>2, <1>4 DEF CalleePlace
  <2>4. ASSUME \A i \in 1 .. n - 1 : args[i].size % 8 = 0
        PROVE  ByValueArea(args)[n - 1] = CallerArea(args)[n - 1]
    <3>1. n - 1 \in 0 .. Len(args)
      BY <1>1
    <3>. QED BY <1>3, <1>4, <2>4, <3>1, ByValueAgrees
  <2>5. 8 + CallerArea(args)[n - 1] = CallerArea(args)[n - 1] + 8
    BY <2>2
  <2>. QED BY <2>2, <2>3, <2>4, <2>5
<1>5. CASE c # "MEM"
  <2>0. c \in Primitive /\ args[n].class = c
    BY <1>2, <1>5 DEF Primitive
  <2>1. /\ Taken(args, {c})[n - 1] = Taken(args, Primitive)[n - 1]
        /\ InRegister(args, Primitive, n) <=> InRegister(args, {c}, n)
        /\ CalleeArea(args)[n] = CallerArea(args)[n]
    BY <1>1, <1>3, <2>0, CountsAgree, AreasAgree
  <2>2. CASE InRegister(args, {c}, n)
    <3>1. CalleePlace(args, n) = NextRegister(args, Primitive, n)
      BY <1>5, <2>0, <2>1, <2>2 DEF CalleePlace
    <3>2. CallerPlace(args, n) = NextRegister(args, {c}, n)
      BY <2>0, <2>2 DEF CallerPlace
    <3>3. CalleePlace(args, n) = CallerPlace(args, n)
      BY <2>1, <3>1, <3>2 DEF NextRegister
    <3>4. CallerPlace(args, n).base \in CallerSaved
      BY <2>0, <2>2, PlaceFacts
    <3>. QED BY <3>3, <3>4
  <2>3. CASE ~InRegister(args, {c}, n)
    <3>1. CallerPlace(args, n) = [base |-> "rsp", offset |-> CallerArea(args)[n - 1]]
          /\ CallerArea(args)[n - 1] \in Nat
      BY <2>0, <2>3, PlaceFacts
    <3>2. CalleePlace(args, n) = [base |-> "rbp", offset |-> 8 + CallerArea(args)[n]]
      BY <1>5, <2>0, <2>1, <2>3 DEF CalleePlace, StackArgument
    <3>3. CallerArea(args)[n] = CallerArea(args)[n - 1] + 8
      <4>1. CallerArea(args)[n] = CallerArea(args)[n - 1] + AlignUp(args[n].size, 8)
        BY <1>1, <2>0, <2>3, CallerAreaFacts
      <4>. QED BY <1>5, <2>0, <4>1, ArgumentFacts
    <3>. QED BY <3>1, <3>2, <3>3
  <2>. QED BY <2>2, <2>3
<1>. QED BY <1>4, <1>5

(* Two arguments of one class have different places.                       *)
LEMMA PlacesApart ==
  ASSUME NEW args \in Seq(Arguments), OfOneClass(args),
         NEW m \in 1 .. Len(args), NEW n \in 1 .. m - 1
  PROVE  LET here == CallerPlace(args, n)
             there == CallerPlace(args, m)
         IN  /\ here.base = "rsp" /\ there.base = "rsp" => here.offset + 8 <= there.offset
             /\ here.base # "rsp" => here.base # there.base
<1>1. PICK l \in Nat : l = Len(args) /\ m \in 1 .. l /\ n \in 1 .. l /\ n - 1 \in 0 .. l
                       /\ m - 1 \in 0 .. l /\ n \in 0 .. m - 1
  OBVIOUS
<1>2. PICK c \in {"GP", "FP", "MEM"} : c = args[n].class /\ c = args[m].class
  <2>1. DOMAIN args = 1 .. Len(args)
    OBVIOUS
  <2>2. args[n].class = args[m].class
    BY <1>1, <2>1 DEF OfOneClass
  <2>. QED BY <1>1, <2>2, ArgumentFacts
<1>3. /\ IF InRegister(args, {c}, n) THEN CallerPlace(args, n).base # "rsp"
         ELSE CallerPlace(args, n) = [base |-> "rsp", offset |-> CallerArea(args)[n - 1]]
      /\ IF InRegister(args, {c}, m) THEN CallerPlace(args, m).base # "rsp"
         ELSE CallerPlace(args, m) = [base |-> "rsp", offset |-> CallerArea(args)[m - 1]]
  BY <1>1, <1>2, PlaceFacts
<1>4. ASSUME ~InRegister(args, {c}, n)
      PROVE  CallerArea(args)[n - 1] + 8 <= CallerArea(args)[m - 1]
  <2>1. PICK a \in [0 .. l -> Nat] :
          /\ a = CallerArea(args)
          /\ \A k \in 1 .. l : a[k] = IF InRegister(args, {args[k].class}, k) THEN a[k - 1]
                                      ELSE a[k - 1] + AlignUp(args[k].size, 8)
    BY <1>1, CallerAreaFacts
  <2>2. ASSUME NEW k \in 1 .. l PROVE a[k - 1] <= a[k]
    <3>1. k - 1 \in 0 .. l /\ k \in 0 .. l
      OBVIOUS
    <3>2. a[k - 1] \in Nat /\ a[k] \in Nat /\ AlignUp(args[k].size, 8) \in Nat
      BY <1>1, <3>1, ArgumentFacts
    <3>3. a[k] = a[k - 1] \/ a[k] = a[k - 1] + AlignUp(args[k].size, 8)
      BY <2>1
    <3>. QED BY <3>2, <3>3
  <2>3. a[n] <= a[m - 1]
    BY <1>1, <2>2, Rises
  <2>4. a[n] = a[n - 1] + AlignUp(args[n].size, 8)
    BY <1>1, <1>2, <1>4, <2>1
  <2>5. AlignUp(args[n].size, 8) \in Nat /\ AlignUp(args[n].size, 8) >= 8
    BY <1>1, ArgumentFacts
  <2>6. a[n] \in Nat /\ a[n - 1] \in Nat /\ a[m - 1] \in Nat
    BY <1>1
  <2>. QED BY <2>1, <2>3, <2>4, <2>5, <2>6
<1>5. ASSUME InRegister(args, {c}, n), InRegister(args, {c}, m)
      PROVE  CallerPlace(args, n).base # CallerPlace(args, m).base
  <2>0. PICK s \in Seq(CallerSaved) : s = ArgumentRegisters(c) /\ Distinct(s)
    BY ClassFacts
  <2>1. PICK t \in [0 .. l -> Nat] :
          /\ t = Taken(args, {c})
          /\ \A k \in 1 .. l :
               t[k] = IF args[k].class \in {c} /\ t[k - 1] < Len(ArgumentRegisters(args[k].class))
                      THEN t[k - 1] + 1 ELSE t[k - 1]
    <3>1. PICK t \in [0 .. Len(args) -> Nat] :
            /\ t = Taken(args, {c})
            /\ \A k \in 1 .. Len(args) :
                 t[k] = IF args[k].class \in {c} /\ t[k - 1] < Len(ArgumentRegisters(args[k].class))
                        THEN t[k - 1] + 1 ELSE t[k - 1]
      BY TakenFacts
    <3>2. l = Len(args)
      BY <1>1
    <3>. QED BY <3>1, <3>2
  <2>2. \A k \in 1 .. l : t[k - 1] <= t[k]
    <3>1. ASSUME NEW k \in 1 .. l PROVE t[k - 1] <= t[k]
      <4>1. k - 1 \in 0 .. l /\ k \in 0 .. l
        OBVIOUS
      <4>2. t[k - 1] \in Nat
        BY <4>1
      <4>3. t[k] = t[k - 1] + 1 \/ t[k] = t[k - 1]
        BY <2>1
      <4>. QED BY <4>2, <4>3
    <3>. QED BY <3>1
  <2>3. t[n] <= t[m - 1]
    BY <1>1, <2>2, Rises
  <2>4. t[n - 1] < Len(s) /\ t[m - 1] < Len(s)
    BY <1>2, <1>5, <2>0, <2>1 DEF InRegister
  <2>5. t[n] = t[n - 1] + 1
    BY <1>1, <1>2, <2>0, <2>1, <2>4
  <2>6. PICK x \in Nat, y \in Nat : x = t[n - 1] /\ y = t[m - 1]
    BY <1>1
  <2>7. x + 1 \in 1 .. Len(s) /\ y + 1 \in 1 .. Len(s) /\ x + 1 # y + 1
    <3>1. PICK z \in Nat : z = Len(s)
      OBVIOUS
    <3>2. x + 1 <= y /\ x < z /\ y < z
      BY <2>3, <2>4, <2>5, <2>6, <3>1
    <3>. QED BY <3>1, <3>2
  <2>8. s[x + 1] # s[y + 1]
    BY <2>0, <2>7 DEF Distinct
  <2>9. CallerPlace(args, n).base = s[x + 1] /\ CallerPlace(args, m).base = s[y + 1]
    BY <1>2, <1>5, <2>0, <2>1, <2>6 DEF CallerPlace, NextRegister
  <2>. QED BY <2>8, <2>9
<1>. QED BY <1>3, <1>4, <1>5

(* The arguments passed so far are in their places.                        *)
ArgumentHeld(args, n, rg, mm) ==
    LET to == CallerPlace(args, n) IN
    IF to.base = "rsp" THEN ReadAt(mm, rg["rsp"][2] + to.offset) = <<"argument", n>>
    ELSE rg[to.base] = <<"argument", n>>

(* Those that have been passed so far are.                                 *)
ArgumentsAre(f, p, rg, mm) ==
    LET args == f.calls[p[1]].args IN
    p[1] \in Calling(f) /\ OfOneClass(args) /\ p[2] > 5 =>
        \A n \in 1 .. p[2] - 5 : ArgumentHeld(args, n, rg, mm)

(* At every step of the run.                                               *)
ArgumentsInv == phase = "run" => ArgumentsAre(func, pos, reg, mem)

(* Passing an argument leaves the earlier ones alone.                      *)
LEMMA ArgumentsPassed ==
  ASSUME PassInv, StackInv, phase = "run", ArgumentsAre(func, pos, reg, mem),
         NEW b, NEW m, NEW to, Passes(b, m, to)
  PROVE  ArgumentsAre(func, pos', reg', mem')
<1>1. b \in Calling(func) /\ func \in Functions
  BY DEF Passes, PassInv
<1>2. PICK args \in Seq(Arguments) : args = func.calls[b].args
  BY <1>1, CallFacts
<1>3. /\ m \in 1 .. Len(args) /\ pos = <<b, m + 4>> /\ pos' = <<b, m + 5>>
      /\ to = CallerPlace(args, m)
      /\ IF to.base = "rsp"
         THEN /\ mem' = Written(mem, Rsp + to.offset, AlignUp(args[m].size, 8), <<"argument", m>>)
              /\ reg' = reg
         ELSE reg' = [reg EXCEPT ![to.base] = <<"argument", m>>] /\ mem' = mem
  BY <1>2 DEF Passes, GoTo
<1>4. PICK t \in Int : reg["rsp"] = Address(t) /\ Rsp = t /\ reg = [r \in Registers |-> reg[r]]
                       /\ reg["rsp"][2] = t
  BY StackFacts DEF Rsp, Address
<1>5. IF InRegister(args, {args[m].class}, m)
      THEN to.base \in Registers /\ to.base # "rsp"
      ELSE to = [base |-> "rsp", offset |-> CallerArea(args)[m - 1]] /\ to.offset \in Nat
  BY <1>3, PlaceFacts, ConventionFacts
<1>6. SUFFICES ASSUME OfOneClass(args), NEW n \in 1 .. m PROVE ArgumentHeld(args, n, reg', mem')
  <2>1. (m + 5) - 5 = m
    BY <1>3
  <2>. QED BY <1>2, <1>3, <1>6, <2>1 DEF ArgumentsAre
<1>7. reg'["rsp"][2] = t
  <2>1. CASE to.base = "rsp"
    BY <1>3, <1>4, <2>1
  <2>2. CASE to.base # "rsp"
    <3>1. reg' = [reg EXCEPT ![to.base] = <<"argument", m>>] /\ to.base \in Registers
      BY <1>3, <1>5, <2>2
    <3>2. reg'["rsp"] = reg["rsp"]
      BY <1>4, <2>2, <3>1, ConventionFacts
    <3>. QED BY <1>4, <3>2
  <2>. QED BY <2>1, <2>2
<1>8. CASE n = m
  <2>1. CASE to.base = "rsp"
    <3>1. PICK a \in Int, size \in Nat : a = t + to.offset /\ size = AlignUp(args[m].size, 8) /\ size >= 8
      BY <1>3, <1>5, <2>1, ArgumentFacts
    <3>2. ReadAt(Written(mem, a, size, <<"argument", m>>), a) = <<"argument", m>>
      BY <3>1, StoreReads
    <3>3. ReadAt(mem', t + to.offset) = <<"argument", m>>
      BY <1>3, <1>4, <2>1, <3>1, <3>2
    <3>. QED BY <1>3, <1>7, <1>8, <2>1, <3>3 DEF ArgumentHeld
  <2>2. CASE to.base # "rsp"
    <3>1. reg'[to.base] = <<"argument", m>>
      BY <1>3, <1>4, <1>5, <2>2
    <3>. QED BY <1>3, <1>8, <2>2, <3>1 DEF ArgumentHeld
  <2>. QED BY <2>1, <2>2
<1>9. CASE n # m
  <2>0. n \in 1 .. m - 1 /\ n \in 1 .. Len(args) /\ m + 4 > 5
    BY <1>3, <1>9
  <2>1. ArgumentHeld(args, n, reg, mem)
    <3>1. n \in 1 .. (m + 4) - 5
      BY <1>3, <2>0
    <3>. QED BY <1>1, <1>2, <1>3, <1>6, <2>0, <3>1 DEF ArgumentsAre
  <2>2. PICK at : at = CallerPlace(args, n)
    OBVIOUS
  <2>3. IF InRegister(args, {args[n].class}, n)
        THEN at.base \in Registers /\ at.base # "rsp"
        ELSE at.base = "rsp" /\ at.offset \in Nat
    BY <2>0, <2>2, PlaceFacts, ConventionFacts
  <2>4. /\ at.base = "rsp" /\ to.base = "rsp" => at.offset + 8 <= to.offset
        /\ at.base # "rsp" => at.base # to.base
    BY <1>3, <1>6, <2>0, <2>2, PlacesApart
  <2>5. CASE at.base = "rsp"
    <3>1. ReadAt(mem, t + at.offset) = <<"argument", n>>
      BY <1>4, <2>1, <2>2, <2>5 DEF ArgumentHeld
    <3>2. ReadAt(mem', t + at.offset) = ReadAt(mem, t + at.offset)
      <4>1. CASE to.base = "rsp"
        <5>1. PICK a \in Int, size \in Nat, c \in Int :
                a = t + to.offset /\ size = AlignUp(args[m].size, 8) /\ c = t + at.offset /\ c + 8 <= a
          <6>1. AlignUp(args[m].size, 8) \in Nat /\ to.offset \in Nat
            BY <1>3, <1>5, <4>1, ArgumentFacts
          <6>2. at.offset \in Nat /\ at.offset + 8 <= to.offset
            BY <2>3, <2>4, <2>5, <4>1
          <6>. QED BY <6>1, <6>2
        <5>2. ReadAt(Written(mem, a, size, <<"argument", m>>), c) = ReadAt(mem, c)
          BY <5>1, StoreKeeps
        <5>. QED BY <1>3, <1>4, <4>1, <5>1, <5>2
      <4>2. CASE to.base # "rsp"
        BY <1>3, <4>2
      <4>. QED BY <4>1, <4>2
    <3>. QED BY <1>7, <2>2, <2>5, <3>1, <3>2 DEF ArgumentHeld
  <2>6. CASE at.base # "rsp"
    <3>1. reg[at.base] = <<"argument", n>>
      BY <2>1, <2>2, <2>6 DEF ArgumentHeld
    <3>2. reg'[at.base] = reg[at.base]
      BY <1>3, <1>4, <2>3, <2>4, <2>6
    <3>. QED BY <2>2, <2>6, <3>1, <3>2 DEF ArgumentHeld
  <2>. QED BY <2>5, <2>6
<1>. QED BY <1>8, <1>9

(* In every run, at every step of passing arguments of one class, each     *)
(* that has been passed is in its place.                                   *)
THEOREM ArgumentsInvariant == Spec => []ArgumentsInv
<1>1. Init => ArgumentsInv
  BY DEF Init, ArgumentsInv
<1>2. PassInv /\ StackInv /\ ArgumentsInv /\ [Next]_vars => ArgumentsInv'
  <2> SUFFICES ASSUME PassInv, StackInv, ArgumentsInv, [Next]_vars PROVE ArgumentsInv'
    OBVIOUS
  <2>0. \A p \in {1, 2, 3, 4, 5} : ~(p > 5)
    OBVIOUS
  <2>1. CASE UNCHANGED vars
    BY <2>1 DEF vars, ArgumentsInv
  <2>2. CASE Next /\ phase = "run"
    <3>1. func' = func /\ adjust' = adjust /\ (Works \/ Returns)
      BY <2>2, RunSteps
    <3>2. CASE Works
      <4>1. \A s : EnterFrame(s) \/ LeaveFrame(s) => pos'[2] \in {1, 2, 3, 4, 5}
        BY FrameOfAdjustments DEF EnterFrame, LeaveFrame, Stay
      <4>2. \A b, s : GoDown(b, s) \/ GoUp(b, s) => pos'[2] \in {1, 2, 3, 4, 5}
        BY DEF GoDown, GoUp, Stay, Down, Up
      <4>3. EndPrologue \/ EndEpilogue => pos'[2] \in {1, 2, 3, 4, 5}
        BY DEF EndPrologue, EndEpilogue, GoTo
      <4>4. \A b, s : EndDown(b, s) \/ EndUp(b, s) => pos'[2] \in {1, 2, 3, 4, 5}
        BY DEF EndDown, EndUp, GoTo
      <4>5. \A b : Uses(b) \/ Defines(b) \/ Calls(b) => pos'[2] \in {1, 2, 3, 4, 5}
        BY DEF Uses, Defines, Calls, GoTo, Up
      <4>6. CASE \E b, n, to : Passes(b, n, to)
        <5>1. ArgumentsAre(func, pos', reg', mem')
          BY <2>2, <4>6, ArgumentsPassed DEF ArgumentsInv
        <5>. QED BY <3>1, <5>1 DEF ArgumentsInv
      <4>7. CASE pos'[2] \in {1, 2, 3, 4, 5}
        BY <2>0, <4>7 DEF ArgumentsInv, ArgumentsAre
      <4>. QED BY <3>2, <4>1, <4>2, <4>3, <4>4, <4>5, <4>6, <4>7 DEF Works
    <3>3. CASE Returns
      BY <3>3 DEF Returns, ArgumentsInv
    <3>. QED BY <3>1, <3>2, <3>3
  <2>3. CASE InitializeAdjust
    BY <2>3 DEF InitializeAdjust, ArgumentsInv
  <2>4. CASE Enter
    <3>1. pos'[2] = 1
      BY <2>4 DEF Enter
    <3>. QED BY <2>0, <3>1 DEF ArgumentsInv, ArgumentsAre
  <2>5. CASE Next /\ phase # "run" /\ ~InitializeAdjust /\ ~Enter
    BY <2>5 DEF Next, RunAdjust, FinishAdjust, RunDefinition, RunUse, RunPass, RunCall, RunReturn
  <2>. QED BY <2>1, <2>2, <2>3, <2>4, <2>5
<1>. QED BY <1>1, <1>2, PassInvariant, StackInvariant, PTL DEF Spec

(* Arguments of one class arrive, however many there are, with the         *)
(* exceptions ArgumentsArrive names: the allocators of caller and callee   *)
(* number the same registers and the same words of the stack.              *)
THEOREM EveryArgumentArrives == Spec => []ArgumentsArrive
<1>1. PassInv /\ StackInv /\ ArgumentsInv => ArgumentsArrive
  <2> SUFFICES ASSUME PassInv, StackInv, ArgumentsInv, phase = "run", Here.op = "call",
                      OfOneClass(func.calls[pos[1]].args),
                      NEW n \in DOMAIN func.calls[pos[1]].args, NEW framed \in BOOLEAN
               PROVE  LET place == CalleePlace(func.calls[pos[1]].args, n) IN
                      \/ Found(place, framed) = <<"argument", n>>
                      \/ place.base = "rbp" /\ ~framed
                      \/ /\ place.base = "rsp"
                         /\ framed \/ \E i \in 1 .. n - 1 : func.calls[pos[1]].args[i].size % 8 # 0
    BY DEF ArgumentsArrive
  <2>1. PICK k \in Nat : /\ pos = <<pos[1], k + 5>> /\ pos[1] \in Calling(func)
                         /\ k = Len(func.calls[pos[1]].args)
    BY AtCall
  <2>2. PICK args \in Seq(Arguments) : args = func.calls[pos[1]].args
    BY <2>1, CallFacts DEF PassInv
  <2>3. n \in 1 .. Len(args) /\ k = Len(args)
    BY <2>1, <2>2
  <2>4. ArgumentHeld(args, n, reg, mem)
    <3>1. pos[2] = k + 5 /\ k + 5 > 5 /\ n \in 1 .. (k + 5) - 5
      BY <2>1, <2>3
    <3>. QED BY <2>1, <2>2, <3>1 DEF ArgumentsInv, ArgumentsAre
  <2>5. PICK from, to : from = CalleePlace(args, n) /\ to = CallerPlace(args, n)
    OBVIOUS
  <2>6. \/ from = to /\ to.base \in CallerSaved
        \/ from.base = "rbp" /\ to.base = "rsp" /\ to.offset \in Nat /\ from.offset = to.offset + 16
        \/ /\ from.base = "rsp" /\ to.base = "rsp" /\ to.offset \in Nat
           /\ from.offset = to.offset + 8 \/ \E i \in 1 .. n - 1 : args[i].size % 8 # 0
    BY <2>2, <2>3, <2>5, PlacesAgree
  <2>7. PICK t \in Int : Rsp = t /\ reg["rsp"][2] = t
    BY StackFacts DEF Rsp, Address
  <2>8. to.base = "rsp" => ReadAt(mem, t + to.offset) = <<"argument", n>>
    BY <2>4, <2>5, <2>7 DEF ArgumentHeld
  <2>9. CASE from = to /\ to.base \in CallerSaved
    <3>1. to.base # "rsp" /\ to.base # "rbp"
      BY <2>9, ConventionFacts
    <3>2. reg[to.base] = <<"argument", n>>
      BY <2>4, <2>5, <3>1 DEF ArgumentHeld
    <3>3. Found(from, framed) = reg[from.base]
      BY <2>9, <3>1 DEF Found
    <3>. QED BY <2>2, <2>5, <2>9, <3>2, <3>3
  <2>10. CASE from.base = "rbp" /\ to.base = "rsp" /\ to.offset \in Nat /\ from.offset = to.offset + 16
    <3>1. (t - 8) - 8 + from.offset = t + to.offset
      BY <2>10
    <3>2. framed => Found(from, framed) = ReadAt(mem, (t - 8) - 8 + from.offset)
      BY <2>7, <2>10 DEF Found
    <3>3. framed => Found(from, framed) = <<"argument", n>>
      BY <2>8, <2>10, <3>1, <3>2
    <3>. QED BY <2>2, <2>5, <2>10, <3>3
  <2>11. CASE /\ from.base = "rsp" /\ to.base = "rsp" /\ to.offset \in Nat
              /\ from.offset = to.offset + 8
    <3>1. (t - 8) + from.offset = t + to.offset
      BY <2>11
    <3>2. ~framed => Found(from, framed) = ReadAt(mem, (t - 8) + from.offset)
      BY <2>7, <2>11 DEF Found
    <3>3. ~framed => Found(from, framed) = <<"argument", n>>
      BY <2>8, <2>11, <3>1, <3>2
    <3>. QED BY <2>2, <2>5, <2>11, <3>3
  <2>12. CASE from.base = "rsp" /\ \E i \in 1 .. n - 1 : args[i].size % 8 # 0
    BY <2>2, <2>5, <2>12
  <2>. QED BY <2>6, <2>9, <2>10, <2>11, <2>12
<1>. QED BY <1>1, PassInvariant, StackInvariant, ArgumentsInvariant, PTL

----------------------------------------------------------------------------
(* Where the values that live over a call are while it is made.  Safe is a *)
(* value that no call of the function loses.                               *)
Safe(f, r) == \A b \in Calling(f) : ~LostOver(f, b, r)

(* A safe value is in its register, or at the address a of the stack.      *)
Held(f, r, rg) == Safe(f, r) => rg[r] = Value(r)

HeldAt(f, r, mm, a) == Safe(f, r) => ReadAt(mm, a) = Value(r)

(* After a call: what it returned, and what lived over it.                 *)
ResultsHeld(f, p, rg) ==
    p[2] = 2 \/ (p[2] = 1 /\ p[1] # First(f)) => \A r \in Returned(f, p[1]) : rg[r] = Value(r)

(* In the block after a call.                                              *)
EnteringHeld(f, p, rg) == p[2] \in {2, 3} => \A r \in Entering(f, p[1]) : Held(f, r, rg)

(* While it is popped again: the first k are in their registers, the rest  *)
(* is on the stack.                                                        *)
PoppedHeld(f, adj, p, k, rg, mm) ==
    LET s == GpRegs(adj[p].regs) IN
    p[2] = 1 /\ p[1] # First(f) =>
        /\ \A r \in Entering(f, p[1]) \cap f.saved : Held(f, r, rg)
        /\ \A j \in 1 .. Len(s) : s[j] \in Entering(f, p[1]) =>
             IF j <= k THEN Held(f, s[j], rg)
             ELSE HeldAt(f, s[j], mm, rg["rsp"][2] + 8 * (j - 1 - k))

(* Before the call: all in their registers, those beyond top on the stack  *)
(* as well; only the latter once arguments are passed.                     *)
PushedHeld(f, adj, p, k, rg, mm) ==
    LET s == GpRegs(adj[Down(p[1])].regs)
        top == IF p[2] = 4 THEN Len(s) + 1 - k ELSE 0
    IN
    p[1] # Final(f) /\ p[2] > 3 =>
        /\ \A r \in LiveOver(f, p[1]) : r \in f.saved \/ p[2] = 4 => Held(f, r, rg)
        /\ \A j \in 1 .. Len(s) : j > top /\ s[j] \in LiveOver(f, p[1]) =>
             HeldAt(f, s[j], mm, rg["rsp"][2] + 8 * (j - 1 - top))

(* All of it.                                                              *)
SaveIs(f, adj, p, k, rg, mm) ==
    /\ ResultsHeld(f, p, rg) /\ EnteringHeld(f, p, rg)
    /\ PoppedHeld(f, adj, p, k, rg, mm) /\ PushedHeld(f, adj, p, k, rg, mm)

(* At every step of the run.                                               *)
SaveInv == phase = "run" => SaveIs(func, adjust, pos, step, reg, mem)

(* Where no value is expected.                                             *)
LEMMA NothingHeld ==
  ASSUME NEW f, NEW adj, NEW p, NEW k, NEW rg, NEW mm,
         \/ p = <<First(f), 1>>
         \/ p = <<First(f), 2>>
         \/ p = <<Final(f), 4>>
         \/ p = <<Final(f), 5>>
  PROVE  SaveIs(f, adj, p, k, rg, mm)
<1>1. CASE p = <<First(f), 1>>
  <2>1. p[1] = First(f) /\ p[2] = 1 /\ p[2] # 2 /\ p[2] \notin {2, 3} /\ ~(p[2] > 3)
    BY <1>1
  <2>. QED BY <2>1 DEF SaveIs, ResultsHeld, EnteringHeld, PoppedHeld, PushedHeld
<1>2. CASE p = <<First(f), 2>>
  <2>1. p[1] = First(f) /\ p[2] = 2 /\ p[2] # 1 /\ ~(p[2] > 3)
    BY <1>2
  <2>2. Returned(f, p[1]) = {} /\ Entering(f, p[1]) = {}
    BY <2>1 DEF Returned, Entering
  <2>. QED BY <2>1, <2>2 DEF SaveIs, ResultsHeld, EnteringHeld, PoppedHeld, PushedHeld
<1>3. CASE p = <<Final(f), 4>> \/ p = <<Final(f), 5>>
  <2>1. p[1] = Final(f) /\ p[2] # 2 /\ p[2] # 1 /\ p[2] \notin {2, 3}
    BY <1>3
  <2>. QED BY <2>1 DEF SaveIs, ResultsHeld, EnteringHeld, PoppedHeld, PushedHeld
<1>. QED BY <1>1, <1>2, <1>3

(* A definition puts the value where it is expected before a call.         *)
LEMMA SaveInBlock ==
  ASSUME PassInv, StackInv, phase = "run", SaveIs(func, adjust, pos, step, reg, mem),
         NEW b, Uses(b) \/ Defines(b)
  PROVE  SaveIs(func, adjust, pos', step', reg', mem')
<1>1. b \in Blocks(func) /\ func \in Functions /\ reg = [r \in Registers |-> reg[r]]
  BY StackFacts DEF Uses, Defines, PassInv
<1>2. CASE Uses(b)
  <2>1. pos = <<b, 2>> /\ pos' = <<b, 3>> /\ reg' = reg
    BY <1>2 DEF Uses, GoTo
  <2>2. \A r \in Entering(func, b) : Held(func, r, reg)
    BY <2>1 DEF SaveIs, EnteringHeld
  <2>3. ResultsHeld(func, pos', reg') /\ EnteringHeld(func, pos', reg')
    BY <2>1, <2>2 DEF ResultsHeld, EnteringHeld
  <2>4. PoppedHeld(func, adjust, pos', step', reg', mem') /\ PushedHeld(func, adjust, pos', step', reg', mem')
    BY <2>1 DEF PoppedHeld, PushedHeld
  <2>. QED BY <2>3, <2>4 DEF SaveIs
<1>3. CASE Defines(b)
  <2>1. /\ pos = <<b, 3>> /\ pos' = <<b, 4>> /\ step' = 0
        /\ reg' = [r \in DOMAIN reg |-> IF r \in Leaving(func, b) \ Entering(func, b) THEN Value(r)
                                        ELSE reg[r]]
    BY <1>3 DEF Defines, GoTo
  <2>2. \A r \in Entering(func, b) : Held(func, r, reg)
    BY <2>1 DEF SaveIs, EnteringHeld
  <2>3. ResultsHeld(func, pos', reg') /\ EnteringHeld(func, pos', reg')
        /\ PoppedHeld(func, adjust, pos', step', reg', mem')
    BY <2>1 DEF ResultsHeld, EnteringHeld, PoppedHeld
  <2>4. CASE b = Final(func)
    BY <2>1, <2>4, NothingHeld
  <2>5. CASE b # Final(func)
    <3>1. b \in Calling(func) /\ Leaving(func, b) = LiveOver(func, b)
      BY <1>1, <2>5 DEF Calling, Leaving
    <3>2. ASSUME NEW r \in LiveOver(func, b) PROVE Held(func, r, reg')
      <4>1. r \in Registers /\ r \in DOMAIN reg
        BY <1>1, <3>1, LiveRegisters
      <4>2. reg'[r] = IF r \in Entering(func, b) THEN reg[r] ELSE Value(r)
        BY <2>1, <3>1, <4>1
      <4>. QED BY <2>2, <4>2 DEF Held
    <3>3. PICK l \in Nat : l = Len(GpRegs(adjust[Down(b)].regs))
      <4>1. Pushed(adjust, Down(b)) \in Nat
        BY <3>1, CallSizes
      <4>. QED BY <4>1 DEF Pushed
    <3>4. \A j \in 1 .. l : ~(j > l + 1 - 0)
      OBVIOUS
    <3>5. PushedHeld(func, adjust, pos', step', reg', mem')
      BY <2>1, <3>2, <3>3, <3>4 DEF PushedHeld
    <3>. QED BY <2>3, <3>5 DEF SaveIs
  <2>. QED BY <2>4, <2>5
<1>. QED BY <1>2, <1>3

(* What is pushed is the value, at the place where it will be popped.      *)
LEMMA SaveDown ==
  ASSUME PassInv, StackInv, phase = "run", SaveIs(func, adjust, pos, step, reg, mem),
         NEW b, NEW s, GoDown(b, s)
  PROVE  SaveIs(func, adjust, pos', step', reg', mem')
<1>1. /\ b \in Calling(func) /\ pos = <<b, 4>> /\ pos' = <<b, 4>> /\ step \in Nat /\ step' = step + 1
      /\ s = GpRegs(adjust[Down(b)].regs) /\ pos = Down(b) /\ func \in Functions /\ b \in Blocks(func)
  BY CallPlaces DEF GoDown, PassInv, Stay
<1>2. PICK t \in Int : reg["rsp"] = Address(t) /\ reg = [r \in Registers |-> reg[r]]
  BY StackFacts
<1>3. PICK l \in Nat : l = Len(s) /\ s \in Seq(CallerSaved \cap Registers)
  <2>1. s \in Seq(CallerSaved \cap Registers)
    BY <1>1, CallSizes
  <2>. QED BY <2>1
<1>4. reg["rsp"][2] = t /\ b # Final(func)
  BY <1>1, <1>2, CallPlaces DEF Address
<1>5. /\ \A r \in LiveOver(func, b) : Held(func, r, reg)
      /\ \A j \in 1 .. l : j > l + 1 - step /\ s[j] \in LiveOver(func, b) =>
           HeldAt(func, s[j], mem, t + 8 * (j - 1 - (l + 1 - step)))
  <2>1. PushedHeld(func, adjust, <<b, 4>>, step, reg, mem)
    BY <1>1 DEF SaveIs
  <2>2. /\ \A r \in LiveOver(func, b) : r \in func.saved \/ 4 = 4 => Held(func, r, reg)
        /\ \A j \in 1 .. Len(s) : j > Len(s) + 1 - step /\ s[j] \in LiveOver(func, b) =>
             HeldAt(func, s[j], mem, reg["rsp"][2] + 8 * (j - 1 - (Len(s) + 1 - step)))
    BY <1>1, <1>4, <2>1 DEF PushedHeld
  <2>. QED BY <1>3, <1>4, <2>2
<1>6. LiveOver(func, b) \subseteq Registers \ {"rsp"}
  BY <1>1, <1>4, LiveRegisters DEF Leaving
<1>7. ASSUME Alike(reg, reg', {"rsp"}), NEW u \in Int, reg'["rsp"] = Address(u),
             \A j \in 1 .. l : j > l + 1 - (step + 1) /\ s[j] \in LiveOver(func, b) =>
               HeldAt(func, s[j], mem', u + 8 * (j - 1 - (l + 1 - (step + 1))))
      PROVE  SaveIs(func, adjust, pos', step', reg', mem')
  <2>1. \A r \in LiveOver(func, b) : Held(func, r, reg')
    BY <1>5, <1>6, <1>7 DEF Alike, Held
  <2>2. reg'["rsp"][2] = u
    BY <1>7 DEF Address
  <2>3. PushedHeld(func, adjust, <<b, 4>>, step + 1, reg', mem')
    BY <1>1, <1>3, <1>7, <2>1, <2>2 DEF PushedHeld
  <2>4. ResultsHeld(func, pos', reg') /\ EnteringHeld(func, pos', reg')
        /\ PoppedHeld(func, adjust, pos', step', reg', mem')
    BY <1>1 DEF ResultsHeld, EnteringHeld, PoppedHeld
  <2>. QED BY <1>1, <2>3, <2>4 DEF SaveIs
<1>8. CASE step = 0 /\ MoveRsp(-AdjustSize(adjust[pos]))
  <2>1. PICK z \in Int : z = -AdjustSize(adjust[pos])
    <3>1. AdjustSize(adjust[pos]) \in Nat
      BY <1>1, CallSizes
    <3>. QED BY <3>1
  <2>2. Alike(reg, reg', {"rsp"}) /\ reg'["rsp"] = Address(t + z) /\ t + z \in Int
    BY <1>2, <1>8, <2>1, Machine
  <2>3. \A j \in 1 .. l : ~(j > l + 1 - (step + 1))
    BY <1>8
  <2>. QED BY <1>7, <2>2, <2>3
<1>9. CASE step \in 1 .. Len(s) /\ Push(s[Len(s) + 1 - step])
  <2>1. PICK i \in 1 .. l : i = l + 1 - step /\ step \in 1 .. l
    BY <1>3, <1>9
  <2>2. PICK q \in Registers : q = s[i] /\ Push(q)
    BY <1>3, <1>9, <2>1
  <2>3. /\ Alike(reg, reg', {"rsp"}) /\ reg'["rsp"] = Address(t - 8) /\ t - 8 \in Int
        /\ mem' = Written(mem, t - 8, 8, reg[q])
    BY <1>2, <2>2, Machine
  <2>4. ASSUME NEW j \in 1 .. l, j > l + 1 - (step + 1), s[j] \in LiveOver(func, b)
        PROVE  HeldAt(func, s[j], mem', (t - 8) + 8 * (j - 1 - (l + 1 - (step + 1))))
    <3>1. CASE j = i
      <4>1. (t - 8) + 8 * (j - 1 - (l + 1 - (step + 1))) = t - 8
        BY <2>1, <3>1
      <4>2. ReadAt(Written(mem, t - 8, 8, reg[q]), t - 8) = reg[q]
        BY <2>3, StoreReads
      <4>3. Held(func, q, reg)
        BY <1>5, <2>2, <2>4, <3>1
      <4>. QED BY <2>2, <2>3, <3>1, <4>1, <4>2, <4>3 DEF Held, HeldAt
    <3>2. CASE j # i
      <4>1. PICK c \in Int : /\ c = (t - 8) + 8 * (j - 1 - (l + 1 - (step + 1)))
                             /\ c = t + 8 * (j - 1 - (l + 1 - step)) /\ c >= (t - 8) + 8
                             /\ j > l + 1 - step
        BY <2>1, <2>4, <3>2
      <4>2. HeldAt(func, s[j], mem, c)
        BY <1>5, <2>4, <4>1
      <4>3. ReadAt(Written(mem, t - 8, 8, reg[q]), c) = ReadAt(mem, c)
        BY <2>3, <4>1, StoreKeeps
      <4>. QED BY <2>3, <4>1, <4>2, <4>3 DEF HeldAt
    <3>. QED BY <3>1, <3>2
  <2>. QED BY <1>7, <2>3, <2>4
<1>. QED BY <1>8, <1>9, <1>1 DEF GoDown

(* A value of a caller-saved register that is safe over a call is pushed,  *)
(* and no argument is passed on the stack.                                 *)
LEMMA SafeOver ==
  ASSUME PassInv, phase # "callinfo", NEW b \in Calling(func),
         NEW r \in LiveOver(func, b) \cap CallerSaved, Safe(func, r)
  PROVE  /\ StackArea(func.calls[b].args) = 0
         /\ \A at \in {Down(b), Up(func, b)} : r \in Gp \cap adjust[at].regs
<1>1. /\ func \in Functions /\ ~LostOver(func, b, r)
  BY DEF PassInv, Safe
<1>2. /\ ~IsXmm(r) /\ ~(r = "rdx" /\ func.calls[b].returns > 0)
      /\ LiveOver(func, b) \cap CalleeSaved = {} /\ ~(StackArea(func.calls[b].args) > 0)
  BY <1>1 DEF LostOver
<1>3. /\ func.calls[b].args \in Seq(Arguments) /\ func.calls[b].returns \in 0 .. 2
      /\ LiveOver(func, b) \subseteq func.lives[b]
      /\ ~Reserved(func, b) => LiveOver(func, b) \cap CalleeSaved # {}
  BY <1>1, CallFacts
<1>4. StackArea(func.calls[b].args) = 0
  <2>1. StackArea(func.calls[b].args) \in Nat
    BY <1>3, CallerAreaFacts
  <2>. QED BY <1>2, <2>1
<1>5. r \in Gp
  BY <1>2 DEF IsXmm
<1>6. r \in KeptOver(func, b)
  <2>1. r \in func.lives[b] /\ r \notin Results(func.calls[b].returns)
    BY DEF LiveOver
  <2>2. CASE func.calls[b].returns = 0
    BY <2>1, <2>2 DEF KeptOver, Kept
  <2>3. CASE func.calls[b].returns # 0
    <3>1. PICK n \in 1 .. 2 : n = func.calls[b].returns
      BY <1>3, <2>3
    <3>2. "rax" \in Results(n)
      <4>1. <<"rax", "rdx">>[1] = "rax" /\ 1 \in 1 .. n
        OBVIOUS
      <4>. QED BY <4>1 DEF Results
    <3>3. r # "rax" /\ r # "rdx" /\ r # "xmm0" /\ r # "xmm1"
      BY <1>2, <1>5, <2>1, <3>1, <3>2, ConventionFacts
    <3>. QED BY <2>1, <3>3 DEF KeptOver, Kept
  <2>. QED BY <2>2, <2>3
<1>7. \A at \in {Down(b), Up(func, b)} : adjust[at].regs = KeptOver(func, b)
  BY <1>2, <1>3, AdjustFacts
<1>. QED BY <1>4, <1>5, <1>6, <1>7

(* Arguments leave saved values alone.                                     *)
LEMMA SavePasses ==
  ASSUME PassInv, StackInv, phase = "run", SaveIs(func, adjust, pos, step, reg, mem),
         NEW b, (\E s : EndDown(b, s)) \/ (\E n, to : Passes(b, n, to))
  PROVE  SaveIs(func, adjust, pos', step', reg', mem')
<1>1. b \in Calling(func) /\ func \in Functions
  BY DEF EndDown, Passes, PassInv
<1>2. PICK t \in Int : reg["rsp"] = Address(t) /\ reg = [r \in Registers |-> reg[r]]
                       /\ reg["rsp"][2] = t /\ Rsp = t
  BY StackFacts DEF Address, Rsp
<1>3. PICK s \in Seq(CallerSaved \cap Registers) : s = GpRegs(adjust[Down(b)].regs)
  BY <1>1, CallSizes
<1>4. PICK l \in Nat : l = Len(s)
  OBVIOUS
<1>5. b # Final(func)
  BY <1>1, CallPlaces
<1>6. ASSUME NEW i \in Nat, i > 4, pos' = <<b, i>>, reg'["rsp"][2] = t,
             \A r \in LiveOver(func, b) \cap func.saved : Held(func, r, reg'),
             \A j \in 1 .. l : s[j] \in LiveOver(func, b) =>
               HeldAt(func, s[j], mem', t + 8 * (j - 1))
      PROVE  SaveIs(func, adjust, pos', step', reg', mem')
  <2>1. i # 1 /\ i # 2 /\ i # 4 /\ i \notin {2, 3} /\ i > 3
    BY <1>6
  <2>2. ASSUME NEW j \in 1 .. l, s[j] \in LiveOver(func, b)
        PROVE  HeldAt(func, s[j], mem', reg'["rsp"][2] + 8 * (j - 1 - 0))
    <3>1. reg'["rsp"][2] + 8 * (j - 1 - 0) = t + 8 * (j - 1)
      BY <1>6
    <3>. QED BY <1>6, <2>2, <3>1
  <2>3. PushedHeld(func, adjust, <<b, i>>, step', reg', mem')
    BY <1>3, <1>4, <1>6, <2>1, <2>2 DEF PushedHeld
  <2>4. ResultsHeld(func, <<b, i>>, reg') /\ EnteringHeld(func, <<b, i>>, reg')
        /\ PoppedHeld(func, adjust, <<b, i>>, step', reg', mem')
    BY <2>1 DEF ResultsHeld, EnteringHeld, PoppedHeld
  <2>. QED BY <1>6, <2>3, <2>4 DEF SaveIs
<1>7. CASE \E s1 : EndDown(b, s1)
  <2>1. pos = <<b, 4>> /\ pos' = <<b, 5>> /\ step = l + 1 /\ reg' = reg /\ mem' = mem
    BY <1>1, <1>3, <1>4, <1>7, CallPlaces DEF EndDown, GoTo
  <2>2. PushedHeld(func, adjust, <<b, 4>>, step, reg, mem)
    BY <2>1 DEF SaveIs
  <2>3. /\ \A r \in LiveOver(func, b) : r \in func.saved \/ 4 = 4 => Held(func, r, reg)
        /\ \A j \in 1 .. Len(s) : j > Len(s) + 1 - step /\ s[j] \in LiveOver(func, b) =>
             HeldAt(func, s[j], mem, reg["rsp"][2] + 8 * (j - 1 - (Len(s) + 1 - step)))
    BY <1>3, <1>5, <2>2 DEF PushedHeld
  <2>4. ASSUME NEW j \in 1 .. l, s[j] \in LiveOver(func, b)
        PROVE  HeldAt(func, s[j], mem', t + 8 * (j - 1))
    <3>1. j > l + 1 - step /\ t + 8 * (j - 1 - (l + 1 - step)) = t + 8 * (j - 1)
      BY <2>1
    <3>. QED BY <1>2, <1>4, <2>1, <2>3, <2>4, <3>1
  <2>5. \A r \in LiveOver(func, b) \cap func.saved : Held(func, r, reg')
    BY <2>1, <2>3
  <2>6. reg'["rsp"][2] = t /\ 5 \in Nat /\ 5 > 4 /\ pos' = <<b, 5>>
    BY <1>2, <2>1
  <2>7. \A j \in 1 .. l : s[j] \in LiveOver(func, b) => HeldAt(func, s[j], mem', t + 8 * (j - 1))
    BY <2>4
  <2>. QED BY <1>6, <2>5, <2>6, <2>7
<1>8. CASE \E n, to : Passes(b, n, to)
  <2>1. PICK n, to : Passes(b, n, to)
    BY <1>8
  <2>2. PICK args \in Seq(Arguments) : args = func.calls[b].args
    BY <1>1, CallFacts
  <2>3. n \in 1 .. Len(args) /\ pos = <<b, n + 4>> /\ pos' = <<b, n + 5>> /\ to = CallerPlace(args, n)
        /\ IF to.base = "rsp" THEN reg' = reg
           ELSE reg' = [reg EXCEPT ![to.base] = <<"argument", n>>] /\ mem' = mem
    BY <2>1, <2>2 DEF Passes, GoTo
  <2>4. n + 4 \in Nat /\ n + 4 > 3 /\ n + 4 # 4 /\ n + 5 \in Nat /\ n + 5 > 4
    BY <2>3
  <2>5. PushedHeld(func, adjust, <<b, n + 4>>, step, reg, mem)
    BY <2>3 DEF SaveIs
  <2>6. /\ \A r \in LiveOver(func, b) : r \in func.saved => Held(func, r, reg)
        /\ \A j \in 1 .. Len(s) : j > 0 /\ s[j] \in LiveOver(func, b) =>
             HeldAt(func, s[j], mem, reg["rsp"][2] + 8 * (j - 1 - 0))
    BY <1>3, <1>5, <2>4, <2>5 DEF PushedHeld
  <2>7. IF InRegister(args, {args[n].class}, n)
        THEN to.base \in CallerSaved /\ to.base # "rsp"
        ELSE /\ to = [base |-> "rsp", offset |-> CallerArea(args)[n - 1]]
             /\ CallerArea(args)[n - 1] \in Nat
             /\ CallerArea(args)[n - 1] + AlignUp(args[n].size, 8) <= StackArea(args)
    BY <2>3, PlaceFacts
  <2>8. /\ AlignUp(args[n].size, 8) \in Nat /\ AlignUp(args[n].size, 8) >= 8 /\ StackArea(args) \in Nat
    BY <2>3, ArgumentFacts, CallerAreaFacts
  <2>9. \A r \in Registers \ CallerSaved : reg'[r] = reg[r]
    <3>1. CASE to.base = "rsp"
      BY <2>3, <3>1
    <3>2. CASE to.base # "rsp"
      BY <1>2, <2>3, <2>7, <3>2
    <3>. QED BY <3>1, <3>2
  <2>10. reg'["rsp"][2] = t
    <3>1. "rsp" \in Registers \ CallerSaved
      BY ConventionFacts
    <3>2. reg'["rsp"] = reg["rsp"]
      BY <2>9, <3>1
    <3>. QED BY <1>2, <3>2
  <2>11. \A r \in LiveOver(func, b) \cap func.saved : Held(func, r, reg')
    <3>1. func.saved \subseteq Registers \ CallerSaved
      BY <1>1, SavedFacts, ConventionFacts
    <3>. QED BY <2>6, <2>9, <3>1 DEF Held
  <2>12. ASSUME NEW j \in 1 .. l, s[j] \in LiveOver(func, b), Safe(func, s[j])
         PROVE  ReadAt(mem', t + 8 * (j - 1)) = Value(s[j])
    <3>1. s[j] \in LiveOver(func, b) \cap CallerSaved
      BY <1>4, <2>12
    <3>2. StackArea(args) = 0
      BY <1>1, <2>2, <2>12, <3>1, SafeOver
    <3>3. InRegister(args, {args[n].class}, n)
      BY <2>7, <2>8, <3>2
    <3>4. mem' = mem
      BY <2>3, <2>7, <3>3
    <3>5. j > 0 /\ t + 8 * (j - 1 - 0) = t + 8 * (j - 1)
      OBVIOUS
    <3>6. HeldAt(func, s[j], mem, t + 8 * (j - 1))
      BY <1>2, <1>4, <2>6, <2>12, <3>5
    <3>. QED BY <2>12, <3>4, <3>6 DEF HeldAt
  <2>13. \A j \in 1 .. l : s[j] \in LiveOver(func, b) => HeldAt(func, s[j], mem', t + 8 * (j - 1))
    BY <2>12 DEF HeldAt
  <2>. QED BY <1>6, <2>3, <2>4, <2>10, <2>11, <2>13
<1>. QED BY <1>7, <1>8

(* So does the call, and it leaves its results.                            *)
LEMMA SaveCalls ==
  ASSUME PassInv, StackInv, phase = "run", SaveIs(func, adjust, pos, step, reg, mem),
         NEW b, Calls(b)
  PROVE  SaveIs(func, adjust, pos', step', reg', mem')
<1>1. b \in Calling(func) /\ func \in Functions
  BY DEF Calls, PassInv
<1>2. PICK c : /\ c = Following(func, b) /\ Up(func, b) = <<c, 1>> /\ Preceding(func, c) = b
               /\ c # First(func) /\ b # Final(func) /\ pos' = <<c, 1>> /\ step' = 0
  BY <1>1, CallPlaces DEF Calls, GoTo
<1>3. PICK t \in Int : /\ reg["rsp"] = Address(t) /\ reg = [r \in Registers |-> reg[r]]
                       /\ reg["rsp"][2] = t /\ Rsp = t
  BY StackFacts DEF Address, Rsp
<1>4. PICK s \in Seq(CallerSaved \cap Registers), l \in Nat :
        s = GpRegs(adjust[Down(b)].regs) /\ l = Len(s)
  <2>1. GpRegs(adjust[Down(b)].regs) \in Seq(CallerSaved \cap Registers)
    BY <1>1, CallSizes
  <2>. QED BY <2>1
<1>5. s = GpRegs(adjust[<<c, 1>>].regs)
  BY <1>1, <1>2, <1>4, AdjustFacts
<1>6. Returned(func, c) = Results(func.calls[b].returns) /\ Entering(func, c) = LiveOver(func, b)
  BY <1>2 DEF Returned, Entering
<1>7. PICK n \in Nat : n = Len(func.calls[b].args) /\ pos = <<b, n + 5>>
  <2>1. func.calls[b].args \in Seq(Arguments)
    BY <1>1, CallFacts
  <2>2. Len(func.calls[b].args) \in Nat
    BY <2>1
  <2>. QED BY <2>2 DEF Calls
<1>8. n + 5 > 3 /\ n + 5 # 4
  OBVIOUS
<1>9. PushedHeld(func, adjust, <<b, n + 5>>, step, reg, mem)
  BY <1>7 DEF SaveIs
<1>10. /\ \A r \in LiveOver(func, b) : r \in func.saved => Held(func, r, reg)
       /\ \A j \in 1 .. Len(s) : j > 0 /\ s[j] \in LiveOver(func, b) =>
            HeldAt(func, s[j], mem, reg["rsp"][2] + 8 * (j - 1 - 0))
  BY <1>2, <1>4, <1>8, <1>9 DEF PushedHeld
<1>11. /\ reg' = [r \in DOMAIN reg |->
                    IF r \in Results(func.calls[b].returns) THEN Value(r)
                    ELSE IF r \in CallerSaved THEN Junk ELSE reg[r]]
       /\ mem' = [a \in {e \in DOMAIN mem : e >= t} |-> mem[a]]
  BY <1>3 DEF Calls
<1>12. /\ Results(func.calls[b].returns) \subseteq CallerSaved
       /\ Results(func.calls[b].returns) \subseteq Registers
       /\ func.saved \subseteq Registers \ CallerSaved /\ "rsp" \in Registers \ CallerSaved
  <2>1. func.calls[b].returns \in 0 .. 2
    BY <1>1, CallFacts
  <2>. QED BY <1>1, <2>1, ConventionFacts, SavedFacts
<1>13. /\ \A r \in Results(func.calls[b].returns) : reg'[r] = Value(r)
       /\ \A r \in Registers \ CallerSaved : reg'[r] = reg[r]
  <2>1. DOMAIN reg = Registers
    BY <1>3
  <2>. QED BY <1>11, <1>12, <2>1
<1>14. reg'["rsp"][2] = t
  BY <1>3, <1>12, <1>13
<1>15. ASSUME NEW j \in 1 .. l, s[j] \in LiveOver(func, b)
       PROVE  HeldAt(func, s[j], mem', t + 8 * (j - 1 - 0))
  <2>1. j > 0 /\ t + 8 * (j - 1 - 0) >= t /\ t + 8 * (j - 1 - 0) \in Int
    OBVIOUS
  <2>2. HeldAt(func, s[j], mem, t + 8 * (j - 1 - 0))
    BY <1>3, <1>4, <1>10, <1>15, <2>1
  <2>3. ReadAt(mem', t + 8 * (j - 1 - 0)) = ReadAt(mem, t + 8 * (j - 1 - 0))
    BY <1>11, <2>1, CallKeeps
  <2>. QED BY <2>2, <2>3 DEF HeldAt
<1>16. \A r \in LiveOver(func, b) \cap func.saved : Held(func, r, reg')
  BY <1>10, <1>12, <1>13 DEF Held
<1>17. PoppedHeld(func, adjust, <<c, 1>>, 0, reg', mem')
  <2>1. \A j \in 1 .. l : ~(j <= 0)
    OBVIOUS
  <2>. QED BY <1>4, <1>5, <1>6, <1>14, <1>15, <1>16, <2>1 DEF PoppedHeld
<1>18. ResultsHeld(func, pos', reg') /\ EnteringHeld(func, pos', reg')
       /\ PushedHeld(func, adjust, pos', step', reg', mem')
  BY <1>2, <1>6, <1>13 DEF ResultsHeld, EnteringHeld, PushedHeld
<1>. QED BY <1>2, <1>17, <1>18 DEF SaveIs

(* What a call returns is not in a register that is popped after it.       *)
LEMMA ResultsUnpopped ==
  ASSUME PassInv, phase # "callinfo", NEW b \in Calling(func)
  PROVE  adjust[Up(func, b)].regs \cap Results(func.calls[b].returns) = {}
<1>1. PICK n \in 0 .. 2 : n = func.calls[b].returns
  BY CallFacts DEF PassInv
<1>2. adjust[Up(func, b)].regs \subseteq KeptOver(func, b)
  BY AdjustFacts
<1>3. CASE n = 0
  <2>1. Results(0) = {}
    BY DEF Results
  <2>. QED BY <1>1, <1>3, <2>1
<1>4. CASE n # 0
  <2>1. KeptOver(func, b) \cap {"rax", "rdx", "xmm0", "xmm1"} = {}
    BY <1>1, <1>4 DEF KeptOver, Kept
  <2>2. Results(n) \subseteq {"rax", "rdx"}
    <3>1. ASSUME NEW r \in Results(n) PROVE r \in {"rax", "rdx"}
      <4>1. PICK i \in 1 .. n : r = <<"rax", "rdx">>[i]
        BY DEF Results
      <4>2. i = 1 \/ i = 2
        OBVIOUS
      <4>. QED BY <4>1, <4>2
    <3>. QED BY <3>1
  <2>. QED BY <1>1, <1>2, <2>1, <2>2
<1>. QED BY <1>3, <1>4

(* What is popped is the value, and neither a result nor a value popped    *)
(* before is overwritten.                                                  *)
LEMMA SaveUp ==
  ASSUME PassInv, StackInv, phase = "run", SaveIs(func, adjust, pos, step, reg, mem),
         NEW b, NEW s, GoUp(b, s)
  PROVE  SaveIs(func, adjust, pos', step', reg', mem')
<1>1. PICK c : /\ b \in Calling(func) /\ c = Following(func, b) /\ Up(func, b) = <<c, 1>>
               /\ Preceding(func, c) = b /\ c # First(func) /\ pos = <<c, 1>> /\ pos' = <<c, 1>>
               /\ step \in Nat /\ step' = step + 1 /\ func \in Functions
               /\ s = GpRegs(adjust[<<c, 1>>].regs)
  BY CallPlaces DEF GoUp, PassInv, Stay
<1>2. PICK t \in Int : reg["rsp"] = Address(t) /\ reg = [r \in Registers |-> reg[r]]
  BY StackFacts
<1>3. PICK l \in Nat : l = Len(s) /\ s \in Seq(CallerSaved \cap Registers) /\ Distinct(s)
  <2>1. s \in Seq(CallerSaved \cap Registers) /\ Distinct(s)
    BY <1>1, CallSizes
  <2>. QED BY <2>1
<1>4. /\ reg["rsp"][2] = t
      /\ Returned(func, c) = Results(func.calls[b].returns) /\ Entering(func, c) = LiveOver(func, b)
  BY <1>1, <1>2 DEF Address, Returned, Entering
<1>5. \A r \in Results(func.calls[b].returns) : reg[r] = Value(r)
  BY <1>1, <1>4 DEF SaveIs, ResultsHeld
<1>6. /\ \A r \in LiveOver(func, b) \cap func.saved : Held(func, r, reg)
      /\ \A j \in 1 .. l : s[j] \in LiveOver(func, b) =>
           IF j <= step THEN Held(func, s[j], reg)
           ELSE HeldAt(func, s[j], mem, t + 8 * (j - 1 - step))
  <2>1. PoppedHeld(func, adjust, <<c, 1>>, step, reg, mem)
    BY <1>1 DEF SaveIs
  <2>. QED BY <1>1, <1>3, <1>4, <2>1 DEF PoppedHeld
<1>7. /\ Results(func.calls[b].returns) \subseteq Registers \ {"rsp"}
      /\ func.saved \subseteq Registers \ (CallerSaved \cup {"rsp"})
      /\ \A j \in 1 .. l : s[j] \in CallerSaved /\ s[j] \in Registers \ {"rsp"}
  <2>1. func.calls[b].returns \in 0 .. 2
    BY <1>1, CallFacts
  <2>2. \A j \in 1 .. l : s[j] \in CallerSaved \cap Registers
    BY <1>3
  <2>. QED BY <1>1, <2>1, <2>2, ConventionFacts, SavedFacts
<1>8. ASSUME \A r \in Results(func.calls[b].returns) \cup func.saved : reg'[r] = reg[r],
             NEW u \in Int, reg'["rsp"] = Address(u),
             \A j \in 1 .. l : s[j] \in LiveOver(func, b) =>
               IF j <= step + 1 THEN Held(func, s[j], reg')
               ELSE HeldAt(func, s[j], mem', u + 8 * (j - 1 - (step + 1)))
      PROVE  SaveIs(func, adjust, pos', step', reg', mem')
  <2>1. \A r \in LiveOver(func, b) \cap func.saved : Held(func, r, reg')
    BY <1>6, <1>8 DEF Held
  <2>2. reg'["rsp"][2] = u
    BY <1>8 DEF Address
  <2>3. PoppedHeld(func, adjust, <<c, 1>>, step + 1, reg', mem')
    BY <1>1, <1>3, <1>4, <1>8, <2>1, <2>2 DEF PoppedHeld
  <2>4. ResultsHeld(func, pos', reg') /\ EnteringHeld(func, pos', reg')
        /\ PushedHeld(func, adjust, pos', step', reg', mem')
    BY <1>1, <1>4, <1>5, <1>8 DEF ResultsHeld, EnteringHeld, PushedHeld
  <2>. QED BY <1>1, <2>3, <2>4 DEF SaveIs
<1>9. CASE step \in 0 .. Len(s) - 1 /\ Pop(s[step + 1])
  <2>1. PICK i \in 1 .. l : i = step + 1
    BY <1>1, <1>3, <1>9
  <2>2. PICK q \in Registers \ {"rsp"} : q = s[i] /\ Pop(q)
    BY <1>7, <1>9, <2>1
  <2>3. /\ Alike(reg, reg', {"rsp", q}) /\ reg'["rsp"] = Address(t + 8) /\ t + 8 \in Int
        /\ reg'[q] = ReadAt(mem, t) /\ mem' = mem
    <3>1. t + 8 \in Int
      OBVIOUS
    <3>2. \A r \in Registers \ {"rsp"} : Pop(r) =>
            /\ Alike(reg, reg', {"rsp", r}) /\ reg'["rsp"] = Address(t + 8)
            /\ reg'[r] = ReadAt(mem, t) /\ mem' = mem
      BY <1>2, Machine
    <3>. QED BY <2>2, <3>1, <3>2
  <2>4. q \notin Results(func.calls[b].returns) \cup func.saved
    <3>1. s \in Seq(Gp \cap adjust[<<c, 1>>].regs)
      BY <1>1, GpRegsFacts
    <3>2. q \in adjust[<<c, 1>>].regs
      BY <1>3, <2>2, <3>1
    <3>. QED BY <1>1, <1>7, <2>2, <3>2, ResultsUnpopped
  <2>5. \A r \in Results(func.calls[b].returns) \cup func.saved : reg'[r] = reg[r]
    BY <1>7, <2>3, <2>4 DEF Alike
  <2>6. ASSUME NEW j \in 1 .. l, s[j] \in LiveOver(func, b)
        PROVE  IF j <= step + 1 THEN Held(func, s[j], reg')
               ELSE HeldAt(func, s[j], mem', (t + 8) + 8 * (j - 1 - (step + 1)))
    <3>1. CASE j = i
      <4>1. j <= step + 1 /\ ~(j <= step) /\ t + 8 * (j - 1 - step) = t
        BY <1>1, <2>1, <3>1
      <4>2. HeldAt(func, s[j], mem, t)
        BY <1>6, <2>6, <4>1
      <4>. QED BY <2>2, <2>3, <3>1, <4>1, <4>2 DEF Held, HeldAt
    <3>2. CASE j # i /\ j <= step
      <4>1. j <= step + 1
        BY <3>2, <1>1
      <4>2. s[j] # q
        BY <1>3, <2>2, <3>2 DEF Distinct
      <4>3. reg'[s[j]] = reg[s[j]]
        BY <1>7, <2>3, <4>2 DEF Alike
      <4>. QED BY <1>6, <2>6, <3>2, <4>1, <4>3 DEF Held
    <3>3. CASE j # i /\ ~(j <= step)
      <4>1. /\ ~(j <= step + 1)
            /\ (t + 8) + 8 * (j - 1 - (step + 1)) = t + 8 * (j - 1 - step)
        BY <1>1, <2>1, <3>3
      <4>. QED BY <1>6, <2>3, <2>6, <3>3, <4>1
    <3>. QED BY <3>1, <3>2, <3>3
  <2>. QED BY <1>8, <2>3, <2>5, <2>6
<1>10. CASE step = Len(s) /\ MoveRsp(AdjustSize(adjust[pos]))
  <2>1. PICK z \in Nat : z = AdjustSize(adjust[pos])
    BY <1>1, CallSizes
  <2>2. Alike(reg, reg', {"rsp"}) /\ reg'["rsp"] = Address(t + z) /\ t + z \in Int
    BY <1>2, <1>10, <2>1, Machine
  <2>3. \A r \in Results(func.calls[b].returns) \cup func.saved : reg'[r] = reg[r]
    BY <1>7, <2>2 DEF Alike
  <2>4. ASSUME NEW j \in 1 .. l, s[j] \in LiveOver(func, b)
        PROVE  j <= step + 1 /\ Held(func, s[j], reg')
    <3>1. j <= step /\ j <= step + 1
      BY <1>3, <1>10
    <3>2. reg'[s[j]] = reg[s[j]]
      BY <1>7, <2>2 DEF Alike
    <3>. QED BY <1>6, <2>4, <3>1, <3>2 DEF Held
  <2>. QED BY <1>8, <2>2, <2>3, <2>4
<1>. QED BY <1>9, <1>10 DEF GoUp

(* When all is popped, every safe value is in its register.                *)
LEMMA SaveEndsUp ==
  ASSUME PassInv, StackInv, phase = "run", SaveIs(func, adjust, pos, step, reg, mem),
         NEW b, NEW s, EndUp(b, s)
  PROVE  SaveIs(func, adjust, pos', step', reg', mem')
<1>1. PICK c : /\ b \in Calling(func) /\ c = Following(func, b) /\ Up(func, b) = <<c, 1>>
               /\ Preceding(func, c) = b /\ c # First(func) /\ pos = <<c, 1>> /\ pos' = <<c, 2>>
               /\ func \in Functions /\ s = GpRegs(adjust[<<c, 1>>].regs)
               /\ reg' = reg /\ mem' = mem
  BY CallPlaces DEF EndUp, PassInv, GoTo
<1>2. PICK l \in Nat : l = Len(s) /\ step = l + 1
  <2>1. Pushed(adjust, Up(func, b)) \in Nat
    BY <1>1, CallSizes
  <2>. QED BY <1>1, <2>1 DEF EndUp, Pushed
<1>3. /\ Returned(func, c) = Results(func.calls[b].returns) /\ Entering(func, c) = LiveOver(func, b)
  BY <1>1 DEF Returned, Entering
<1>4. \A r \in Returned(func, c) : reg[r] = Value(r)
  BY <1>1 DEF SaveIs, ResultsHeld
<1>5. /\ \A r \in LiveOver(func, b) \cap func.saved : Held(func, r, reg)
      /\ \A j \in 1 .. l : s[j] \in LiveOver(func, b) => Held(func, s[j], reg)
  <2>1. PoppedHeld(func, adjust, <<c, 1>>, step, reg, mem)
    BY <1>1 DEF SaveIs
  <2>2. \A j \in 1 .. l : j <= step
    BY <1>2
  <2>. QED BY <1>1, <1>2, <1>3, <2>1, <2>2 DEF PoppedHeld
<1>6. ASSUME NEW r \in LiveOver(func, b), Safe(func, r) PROVE Held(func, r, reg)
  <2>1. CASE r \in func.saved
    BY <1>5, <2>1
  <2>2. CASE r \notin func.saved
    <3>1. r \in LiveOver(func, b) \cap CallerSaved
      BY <1>1, <2>2, LiveRegisters
    <3>2. r \in Gp \cap adjust[<<c, 1>>].regs
      BY <1>1, <1>6, <3>1, SafeOver
    <3>3. \E j \in 1 .. l : s[j] = r
      <4>1. \E j \in 1 .. Pushed(adjust, Up(func, b)) : GpRegs(adjust[Up(func, b)].regs)[j] = r
        BY <1>1, <3>2, CallSizes
      <4>. QED BY <1>1, <1>2, <4>1 DEF Pushed
    <3>. QED BY <1>5, <3>3
  <2>. QED BY <2>1, <2>2
<1>7. EnteringHeld(func, <<c, 2>>, reg)
  BY <1>3, <1>6 DEF EnteringHeld, Held
<1>8. ResultsHeld(func, <<c, 2>>, reg)
  BY <1>4 DEF ResultsHeld
<1>9. PoppedHeld(func, adjust, pos', step', reg', mem') /\ PushedHeld(func, adjust, pos', step', reg', mem')
  BY <1>1 DEF PoppedHeld, PushedHeld
<1>. QED BY <1>1, <1>7, <1>8, <1>9 DEF SaveIs

(* No step loses a safe value.                                             *)
LEMMA SaveSteps ==
  ASSUME PassInv, StackInv, SaveInv, [Next]_vars
  PROVE  SaveInv'
<1>1. CASE UNCHANGED vars
  BY <1>1 DEF vars, SaveInv
<1>2. CASE Next /\ phase = "run"
  <2>1. func' = func /\ adjust' = adjust /\ (Works \/ Returns)
    BY <1>2, RunSteps
  <2>2. SaveIs(func, adjust, pos, step, reg, mem)
    BY <1>2 DEF SaveInv
  <2>3. CASE Works
    <3>1. (\E s : EnterFrame(s) \/ LeaveFrame(s)) \/ EndPrologue \/ EndEpilogue
        => \/ pos' = <<First(func), 1>> \/ pos' = <<First(func), 2>>
           \/ pos' = <<Final(func), 4>> \/ pos' = <<Final(func), 5>>
      BY FrameOfAdjustments DEF EnterFrame, LeaveFrame, EndPrologue, EndEpilogue, Stay, GoTo
    <3>2. (\E s : EnterFrame(s) \/ LeaveFrame(s)) \/ EndPrologue \/ EndEpilogue
        => SaveIs(func, adjust, pos', step', reg', mem')
      BY <3>1, NothingHeld
    <3>3. (\E b, s : GoDown(b, s)) => SaveIs(func, adjust, pos', step', reg', mem')
      BY <1>2, <2>2, SaveDown
    <3>4. (\E b, s : GoUp(b, s)) => SaveIs(func, adjust, pos', step', reg', mem')
      BY <1>2, <2>2, SaveUp
    <3>5. (\E b, s : EndUp(b, s)) => SaveIs(func, adjust, pos', step', reg', mem')
      BY <1>2, <2>2, SaveEndsUp
    <3>6. (\E b, s : EndDown(b, s)) \/ (\E b, n, to : Passes(b, n, to))
        => SaveIs(func, adjust, pos', step', reg', mem')
      BY <1>2, <2>2, SavePasses
    <3>7. (\E b : Uses(b) \/ Defines(b)) => SaveIs(func, adjust, pos', step', reg', mem')
      BY <1>2, <2>2, SaveInBlock
    <3>8. (\E b : Calls(b)) => SaveIs(func, adjust, pos', step', reg', mem')
      BY <1>2, <2>2, SaveCalls
    <3>9. SaveIs(func, adjust, pos', step', reg', mem')
      BY <2>3, <3>2, <3>3, <3>4, <3>5, <3>6, <3>7, <3>8 DEF Works
    <3>. QED BY <2>1, <3>9 DEF SaveInv
  <2>4. CASE Returns
    BY <2>4 DEF Returns, SaveInv
  <2>. QED BY <2>1, <2>3, <2>4
<1>3. CASE InitializeAdjust
  BY <1>3 DEF InitializeAdjust, SaveInv
<1>4. CASE Enter
  <2>1. func' = func /\ pos' = <<First(func), 1>>
    BY <1>4 DEF Enter
  <2>2. SaveIs(func', adjust', pos', step', reg', mem')
    BY <2>1, NothingHeld
  <2>. QED BY <2>2 DEF SaveInv
<1>5. CASE Next /\ phase # "run" /\ ~InitializeAdjust /\ ~Enter
  BY <1>5 DEF Next, RunAdjust, FinishAdjust, RunDefinition, RunUse, RunPass, RunCall, RunReturn
<1>. QED BY <1>1, <1>2, <1>3, <1>4, <1>5

(* At every moment of a call, a value that no call loses is in its         *)
(* register or at its own place of what the adjustment pushed, and what    *)
(* the call returned is in its registers.                                  *)
THEOREM SaveInvariant == Spec => []SaveInv
<1>1. Init => SaveInv
  BY DEF Init, SaveInv
<1>2. PassInv /\ StackInv /\ SaveInv /\ [Next]_vars => SaveInv'
  BY SaveSteps
<1>. QED BY <1>1, <1>2, PassInvariant, StackInvariant, PTL DEF Spec

(* A value that is read after a call is the one that was computed before   *)
(* it, or returned by it, unless it is one of those LostOver names.        *)
THEOREM EverySavedValueSurvives == Spec => []SavedValuesSurvive
<1>1. PassInv /\ SaveInv => SavedValuesSurvive
  <2> SUFFICES ASSUME PassInv, SaveInv, phase = "run", Here.op = "use", NEW r \in Here.regs
               PROVE  reg[r] = Value(r) \/ \E b \in Calling(func) : LostOver(func, b, r)
    BY DEF SavedValuesSurvive
  <2>1. PICK c \in Blocks(func) :
          pos = <<c, 2>> /\ Here.regs = Returned(func, c) \cup (Entering(func, c) \ Leaving(func, c))
    <3>1. func \in Functions /\ IsAt(func, pos)
      BY DEF PassInv
    <3>2. PICK c \in Blocks(func), n \in Nat : \E i \in 1 .. n + 5 : StandsAt(c, i, n)
      BY <3>1, Standing
    <3>. QED BY <3>2 DEF StandsAt
  <2>2. SaveIs(func, adjust, <<c, 2>>, step, reg, mem)
    BY <2>1 DEF SaveInv
  <2>3. CASE r \in Returned(func, c)
    BY <2>2, <2>3 DEF SaveIs, ResultsHeld
  <2>4. CASE r \in Entering(func, c)
    <3>1. Held(func, r, reg)
      BY <2>2, <2>4 DEF SaveIs, EnteringHeld
    <3>. QED BY <3>1 DEF Held, Safe
  <2>. QED BY <2>1, <2>3, <2>4
<1>. QED BY <1>1, PassInvariant, SaveInvariant, PTL
=============================================================================
