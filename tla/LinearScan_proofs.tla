------------------------- MODULE LinearScan_proofs -------------------------
(***************************************************************************)
(* Theorems about the linear scan, for every set of functions.             *)
(***************************************************************************)
EXTENDS LinearScan, Intervals_proofs

LEMMA SeqWithin ==
    ASSUME NEW A, NEW B, A \subseteq B, NEW s \in Seq(A)
    PROVE  s \in Seq(B)
OBVIOUS

LEMMA AppendRange ==
    ASSUME NEW A, NEW s \in Seq(A), NEW x
    PROVE  Range(Append(s, x)) = Range(s) \cup {x}
<1>1. Len(s) \in Nat /\ DOMAIN s = 1 .. Len(s)
  OBVIOUS
<1> DEFINE t == Append(s, x)
<1>2. s \in Seq(A \cup {x})
  BY SeqWithin
<1>3. /\ DOMAIN t = 1 .. Len(s) + 1 /\ t[Len(s) + 1] = x
      /\ \A n \in 1 .. Len(s) : t[n] = s[n]
  BY <1>1, <1>2
<1> HIDE DEF t
<1>4. 1 .. Len(s) + 1 = (1 .. Len(s)) \cup {Len(s) + 1}
  BY <1>1
<1>5. Range(t) = Range(s) \cup {x}
  BY <1>1, <1>3, <1>4 DEF Range
<1>. QED BY <1>5 DEF t

LEMMA SlotArithmetic ==
    ASSUME NEW area \in Nat, NEW gen, gen.size \in Nat \ {0}, gen.align \in Nat \ {0},
           gen.size % gen.align = 0
    PROVE  /\ SlotBelow(area, gen) \in Nat
           /\ area <= SlotBelow(area, gen) - gen.size
           /\ SlotBelow(area, gen) % gen.align = 0
<1> DEFINE d == gen.align
           s == gen.size
           x == area + d - 1
           q == x \div d
<1>1. d \in Nat /\ d > 0 /\ s \in Nat /\ x \in Nat /\ s % d = 0
  OBVIOUS
<1>2. SlotBelow(area, gen) = q * d + s
  BY DEF SlotBelow
<1> HIDE DEF x, s, d
<1>3. q \in Nat /\ x = q * d + (x % d) /\ x % d \in 0 .. d - 1
  BY <1>1
<1>4. s = (s \div d) * d /\ s \div d \in Nat
  BY <1>1
<1>5. (q * d + s) % d = 0
  <2> DEFINE t == s \div d
  <2>1. q * d + s = (q + t) * d
    BY <1>1, <1>3, <1>4
  <2>2. ASSUME NEW m \in Nat PROVE (m * d) % d = 0
    BY <1>1
  <2>. QED BY <1>3, <1>4, <2>1, <2>2
<1>6. area <= q * d /\ q * d \in Nat
  <2>1. x = area + d - 1
    BY DEF x
  <2>. QED BY <1>1, <1>3, <2>1
<1>. QED
  <2>1. gen.size = s /\ gen.align = d
    BY DEF s, d
  <2>. QED BY <1>1, <1>2, <1>5, <1>6, <2>1

----------------------------------------------------------------------------
(* What may be in a group: no stack slot is.                               *)
RegisterValues == Vals(func) \ DOMAIN func.gens

GroupsFrom(S) ==
    [interval : S, members : Seq(RegisterValues), fixed : Range(func.fixed) \cup {NoRegister}]

GroupsTyped == \E S : groups \in Seq(GroupsFrom(S))

(* Every grouped value is a member of the group it is mapped to.           *)
MappingInv ==
    \A v \in DOMAIN mapping :
        mapping[v] \in 1 .. Len(groups) /\ v \in Range(groups[mapping[v]].members)

JoiningInv ==
    /\ func \in Functions
    /\ GroupsTyped
    /\ MappingInv
    /\ worklist \in Seq(RegisterValues)
    /\ pending \subseteq Vals(func)

LEMMA ArgsRegister ==
    ASSUME NEW f \in Functions
    PROVE  DOMAIN f.fixed \subseteq Vals(f) \ DOMAIN f.gens
BY LoweredAssumption DEF LoweredAssumption

LEMMA BlockCode ==
    ASSUME NEW f \in Functions, NEW b \in Block(f)
    PROVE  /\ Len(f.code[b]) \in Nat /\ DOMAIN f.code[b] = 1 .. Len(f.code[b])
           /\ \A n \in 1 .. Len(f.code[b]) :
                 /\ <<b, n>> \in Instructions(f)
                 /\ f.code[b][n].ins \in Seq(Vals(f))
                 /\ IsFiniteSet(f.code[b][n].outs)
                 /\ f.code[b][n].outs \subseteq Vals(f)
<1>1. f.code[b] \in Seq(Range(f.code[b]))
  BY FunctionsAssumption DEF FunctionsAssumption
<1>2. Len(f.code[b]) \in Nat /\ DOMAIN f.code[b] = 1 .. Len(f.code[b])
  BY <1>1
<1>3. ASSUME NEW n \in 1 .. Len(f.code[b])
      PROVE  /\ <<b, n>> \in Instructions(f)
             /\ f.code[b][n].ins \in Seq(Vals(f))
             /\ IsFiniteSet(f.code[b][n].outs)
             /\ f.code[b][n].outs \subseteq Vals(f)
  <2>1. <<b, n>> \in Instructions(f)
    BY <1>2, <1>3 DEF Instructions
  <2>2. Inst(f, <<b, n>>) = f.code[b][n]
    BY DEF Inst
  <2>3. f.code[b][n].ins \in Seq(Vals(f)) /\ IsFiniteSet(f.code[b][n].outs)
    BY <2>1, <2>2, FunctionsAssumption DEF FunctionsAssumption
  <2>4. f.code[b][n].outs \subseteq DefinedIn(f, b)
    BY <1>2, <1>3 DEF DefinedIn
  <2>5. DefinedIn(f, b) \subseteq Vals(f)
    BY DEF Vals
  <2>. QED BY <2>1, <2>3, <2>4, <2>5
<1>. QED BY <1>2, <1>3

(* A fixed group has the values with its register, and there is one.       *)
LEMMA FixedInType ==
    ASSUME func \in Functions, NEW r
    PROVE  /\ FixedIn(r) \in Seq({v \in DOMAIN func.fixed : func.fixed[v] = r})
           /\ FixedIn(r) \in Seq(RegisterValues)
           /\ r \in Range(func.fixed) => Len(FixedIn(r)) # 0
<1> DEFINE has == {v \in DOMAIN func.fixed : func.fixed[v] = r}
           From(code) == FlattenSeq([n \in 1 .. Len(code) |-> SetToSeq(code[n].outs \cap has)])
           parts == [b \in 1 .. Len(func.order) |-> From(func.code[b])]
           args == SetToSeq(func.args \cap has)
<1>1. has \subseteq RegisterValues
  BY ArgsRegister DEF RegisterValues
<1>0. r \in Range(func.fixed) => \E v \in has : TRUE
  BY DEF Range
<1>9. FixedIn(r) = args \o FlattenSeq(parts)
  BY DEF FixedIn
<1> HIDE DEF has
<1>2. ASSUME NEW S, IsFiniteSet(S)
      PROVE  SetToSeq(S \cap has) \in Seq(has) /\ (S \cap has # {} => Len(SetToSeq(S \cap has)) # 0)
  <2>1. IsFiniteSet(S \cap has)
    BY <1>2, FS_Intersection
  <2>2. SetToSeq(S \cap has) \in Seq(S \cap has)
    BY <2>1, SetToSeqType
  <2>. QED BY <2>1, <2>2, SetToSeqType
<1>3. ASSUME NEW b \in 1 .. Len(func.order)
      PROVE  /\ From(func.code[b]) \in Seq(has)
             /\ DefinedIn(func, b) \cap has # {} => Len(From(func.code[b])) # 0
  <2> DEFINE code == func.code[b]
             lists == [n \in 1 .. Len(code) |-> SetToSeq(code[n].outs \cap has)]
  <2>1. b \in Block(func)
    BY FunctionsAssumption DEF FunctionsAssumption
  <2>2. /\ Len(code) \in Nat /\ DOMAIN code = 1 .. Len(code)
        /\ \A n \in 1 .. Len(code) : IsFiniteSet(code[n].outs)
    BY <2>1, BlockCode
  <2>3. DefinedIn(func, b) = UNION {code[n].outs : n \in DOMAIN code}
    BY DEF DefinedIn
  <2> HIDE DEF code
  <2>4. lists \in Seq(Seq(has)) /\ Len(lists) = Len(code)
    BY <1>2, <2>2
  <2>5. \A n \in 1 .. Len(code) : code[n].outs \cap has # {} => Len(lists[n]) # 0
    BY <1>2, <2>2
  <2> HIDE DEF lists
  <2>6. FlattenSeq(lists) \in Seq(has)
        /\ \A n \in 1 .. Len(lists) : Len(lists[n]) <= Len(FlattenSeq(lists))
    BY <2>4, FlattenType
  <2>7. ASSUME DefinedIn(func, b) \cap has # {} PROVE Len(FlattenSeq(lists)) # 0
    <3>1. PICK n \in 1 .. Len(code) : code[n].outs \cap has # {}
      BY <2>2, <2>3, <2>7
    <3>2. PICK x, y \in Nat : x = Len(lists[n]) /\ y = Len(FlattenSeq(lists))
      BY <2>4, <2>6
    <3>3. x # 0 /\ x <= y
      BY <2>4, <2>5, <2>6, <3>1, <3>2
    <3>. QED BY <3>2, <3>3
  <2>. QED BY <2>6, <2>7 DEF code, lists
<1>4. Len(func.order) \in Nat /\ Block(func) = 1 .. Len(func.order)
  BY FunctionsAssumption DEF FunctionsAssumption
<1>5. parts \in Seq(Seq(has)) /\ Len(parts) = Len(func.order)
      /\ \A b \in 1 .. Len(func.order) : DefinedIn(func, b) \cap has # {} => Len(parts[b]) # 0
  <2> HIDE DEF From
  <2>. QED BY <1>3, <1>4
<1> HIDE DEF parts
<1>6. FlattenSeq(parts) \in Seq(has)
      /\ \A b \in 1 .. Len(parts) : Len(parts[b]) <= Len(FlattenSeq(parts))
  BY <1>5, FlattenType
<1>7. args \in Seq(has) /\ (func.args \cap has # {} => Len(args) # 0)
  BY <1>2, FunctionsAssumption DEF FunctionsAssumption
<1> HIDE DEF args
<1> DEFINE rest == FlattenSeq(parts)
<1>8. PICK x, y \in Nat : x = Len(args) /\ y = Len(rest)
  BY <1>6, <1>7
<1>10. FixedIn(r) \in Seq(has) /\ Len(FixedIn(r)) = x + y
  <2> HIDE DEF rest
  <2>1. rest \in Seq(has) /\ FixedIn(r) = args \o rest
    BY <1>6, <1>9 DEF rest
  <2>. QED BY <1>7, <1>8, <2>1, Concatenated
<1>11. ASSUME NEW v \in has PROVE x # 0 \/ y # 0
  <2>1. v \in Vals(func)
    BY <1>1 DEF RegisterValues
  <2>2. CASE v \in func.args
    BY <1>7, <1>8, <2>2
  <2>3. CASE v \notin func.args
    <3>1. PICK b \in 1 .. Len(func.order) : v \in DefinedIn(func, b)
      BY <1>4, <2>1, <2>3 DEF Vals
    <3>2. DefinedIn(func, b) \cap has # {}
      BY <3>1
    <3>3. Len(parts[b]) # 0
      BY <1>5, <3>2
    <3>4. parts[b] \in Seq(has) /\ Len(parts[b]) <= y
      BY <1>5, <1>6, <1>8
    <3>5. PICK z \in Nat : z = Len(parts[b])
      BY <3>4
    <3>. QED BY <3>3, <3>4, <3>5
  <2>. QED BY <2>2, <2>3
<1>12. FixedIn(r) \in Seq(RegisterValues)
  BY <1>1, <1>10, SeqWithin
<1>. QED BY <1>0, <1>10, <1>11, <1>12 DEF has

(* Groups are added behind the others, and the values in them mapped.      *)
LEMMA AddingKeeps ==
    ASSUME JoiningInv, NEW S, NEW added \in Seq(GroupsFrom(S)), AddGroups(added),
           func' = func, worklist' = worklist, pending' = pending
    PROVE  JoiningInv'
<1>0. PICK I : groups \in Seq(GroupsFrom(I))
  BY DEF JoiningInv, GroupsTyped
<1>1. groups' = groups \o added /\ mapping' = Mapped(mapping, groups')
  BY DEF AddGroups
<1>2. groups' \in Seq(GroupsFrom(I \cup S))
  <2>1. GroupsFrom(I) \subseteq GroupsFrom(I \cup S) /\ GroupsFrom(S) \subseteq GroupsFrom(I \cup S)
    BY DEF GroupsFrom
  <2> DEFINE G == GroupsFrom(I \cup S)
  <2>2. groups \in Seq(G) /\ added \in Seq(G)
    BY <1>0, <2>1, SeqWithin
  <2> HIDE DEF G
  <2>3. groups \o added \in Seq(G)
    BY <2>2
  <2>. QED BY <1>1, <2>3 DEF G
<1>3. GroupsTyped'
  BY <1>2 DEF GroupsTyped, GroupsFrom, RegisterValues
<1>4. Len(groups) \in Nat /\ Len(groups') \in Nat /\ Len(groups) <= Len(groups')
      /\ DOMAIN groups' = 1 .. Len(groups')
      /\ \A k \in 1 .. Len(groups) : groups'[k] = groups[k]
  BY <1>0, <1>1, <1>2
<1>5. MappingInv'
  <2> SUFFICES ASSUME NEW v \in DOMAIN mapping'
               PROVE  mapping'[v] \in 1 .. Len(groups') /\ v \in Range(groups'[mapping'[v]].members)
    BY DEF MappingInv
  <2>1. CASE v \in DOMAIN mapping
    <3>1. mapping'[v] = mapping[v]
      BY <1>1, <2>1 DEF Mapped, Extended
    <3>2. mapping[v] \in 1 .. Len(groups) /\ v \in Range(groups[mapping[v]].members)
      BY <2>1 DEF JoiningInv, MappingInv
    <3>. QED BY <1>4, <3>1, <3>2
  <2>2. CASE v \notin DOMAIN mapping
    <3> DEFINE Has(k) == k \in DOMAIN groups' /\ v \in Range(groups'[k].members)
               T == {k \in Nat : Has(k)}
    <3>1. v \in UNION {Range(groups'[k].members) : k \in DOMAIN groups'}
      BY <1>1, <2>2 DEF Mapped, Extended
    <3>2. T # {}
      BY <1>4, <3>1
    <3>3. PICK k \in T : \A l \in T : k <= l
      BY <3>2, LeastNat
    <3>4. /\ k \in DOMAIN groups' /\ v \in Range(groups'[k].members)
          /\ \A j \in 1 .. (k - 1) : v \notin Range(groups'[j].members)
      <4>1. k \in 1 .. Len(groups') /\ v \in Range(groups'[k].members)
        BY <1>4, <3>3
      <4>2. ASSUME NEW j \in 1 .. (k - 1) PROVE v \notin Range(groups'[j].members)
        <5>1. j \in DOMAIN groups' /\ j \in Nat /\ ~ (k <= j)
          BY <1>4, <4>1
        <5>. QED BY <3>3, <5>1
      <4>. QED BY <1>4, <4>1, <4>2
    <3>5. mapping'[v] = CHOOSE i \in DOMAIN groups' :
                            /\ v \in Range(groups'[i].members)
                            /\ \A j \in 1 .. (i - 1) : v \notin Range(groups'[j].members)
      BY <1>1, <2>2, <3>1 DEF Mapped, Extended
    <3>6. mapping'[v] \in DOMAIN groups' /\ v \in Range(groups'[mapping'[v]].members)
      BY <3>4, <3>5
    <3>. QED BY <1>4, <3>6
  <2>. QED BY <2>1, <2>2
<1>. QED BY <1>3, <1>5 DEF JoiningInv, RegisterValues

LEMMA FixedGroupsKeeps ==
    ASSUME JoiningInv, FixedGroups
    PROVE  JoiningInv'
<1> DEFINE regs == Selected(RegOrder, Range(func.fixed))
           added == [n \in 1 .. Len(regs) |-> NewGroup(FixedIn(regs[n]), regs[n])]
<1>1. AddGroups(added) /\ func' = func /\ worklist' = worklist /\ pending' = pending
  BY DEF FixedGroups
<1>2. Len(regs) \in Nat /\ \A n \in 1 .. Len(regs) : regs[n] \in Range(func.fixed)
  <2>1. RegOrder \in Seq(Range(RegOrder))
    BY RegOrderAssumption DEF RegOrderAssumption
  <2>2. regs \in Seq(Range(RegOrder) \cap Range(func.fixed))
    BY <2>1, SelectedType
  <2> HIDE DEF regs
  <2>. QED BY <2>2
<1> HIDE DEF regs
<1> DEFINE S == {JointInterval(FixedIn(regs[n])) : n \in 1 .. Len(regs)}
<1>3. ASSUME NEW n \in 1 .. Len(regs) PROVE NewGroup(FixedIn(regs[n]), regs[n]) \in GroupsFrom(S)
  <2>1. func \in Functions
    BY DEF JoiningInv
  <2>2. FixedIn(regs[n]) \in Seq(RegisterValues)
    BY <2>1, FixedInType
  <2>3. JointInterval(FixedIn(regs[n])) \in S
    OBVIOUS
  <2> HIDE DEF S
  <2>. QED BY <1>2, <2>2, <2>3 DEF NewGroup, GroupsFrom
<1>4. added \in Seq(GroupsFrom(S))
  <2> HIDE DEF S
  <2>. QED BY <1>2, <1>3
<1> HIDE DEF S, added
<1>. QED BY <1>1, <1>4, AddingKeeps

(* The parallel copies at the start of a block come one after another.     *)
LEMMA LeadingFirst ==
    ASSUME NEW code, Len(code) \in Nat
    PROVE  \E k \in 0 .. Len(code) : LeadingCopies(code) = 1 .. k
<1> DEFINE T == {m \in Nat : m > Len(code) \/ (m \in 1 .. Len(code) /\ code[m].kind # "pcopy")}
<1>1. Len(code) + 1 \in T
  OBVIOUS
<1>2. PICK m \in T : \A l \in T : m <= l
  BY <1>1, LeastNat
<1>3. m \in Nat /\ (m > Len(code) \/ (m \in 1 .. Len(code) /\ code[m].kind # "pcopy"))
      /\ m <= Len(code) + 1
  BY <1>1, <1>2
<1>4. m >= 1 /\ m - 1 \in 0 .. Len(code)
  BY <1>3
<1>5. ASSUME NEW n \in 1 .. Len(code), n < m PROVE code[n].kind = "pcopy"
  <2>1. n \in Nat /\ ~ (m <= n)
    BY <1>3, <1>5
  <2>2. n \notin T
    BY <1>2, <2>1
  <2>. QED BY <2>1, <2>2
<1>6. ASSUME NEW n \in 1 .. (m - 1) PROVE n \in LeadingCopies(code)
  <2>1. n \in 1 .. Len(code) /\ \A l \in 1 .. n : l \in 1 .. Len(code) /\ l < m
    BY <1>3, <1>4
  <2>. QED BY <1>5, <2>1 DEF LeadingCopies
<1>7. ASSUME NEW n \in LeadingCopies(code) PROVE n \in 1 .. (m - 1)
  <2>1. n \in 1 .. Len(code) /\ \A l \in 1 .. n : code[l].kind = "pcopy"
    BY DEF LeadingCopies
  <2>2. m \notin 1 .. n
    BY <1>3, <2>1
  <2>. QED BY <1>3, <1>4, <2>1, <2>2
<1>. QED BY <1>4, <1>6, <1>7

LEMMA CopyGroupsKeeps ==
    ASSUME JoiningInv, CopyGroups, pos \in Nat \ {0}
    PROVE  JoiningInv'
<1> DEFINE code == func.code[pos]
           added == [n \in LeadingCopies(code) |-> CopyGroup(code[n])]
<1>1. AddGroups(added) /\ func' = func /\ worklist' = worklist /\ pending' = pending
  BY DEF CopyGroups
<1>2. func \in Functions /\ pos \in Block(func)
  BY FunctionsAssumption DEF JoiningInv, FunctionsAssumption, CopyGroups
<1>3. Len(code) \in Nat
  BY <1>2, BlockCode
<1>4. PICK k \in 0 .. Len(code) : LeadingCopies(code) = 1 .. k
  BY <1>3, LeadingFirst
<1> DEFINE S == {CopyGroup(code[n]).interval : n \in 1 .. k}
<1>5. ASSUME NEW n \in 1 .. k PROVE CopyGroup(code[n]) \in GroupsFrom(S)
  <2>1. n \in 1 .. Len(code) /\ code[n].kind = "pcopy"
    <3>1. n \in LeadingCopies(code) /\ n \in 1 .. n
      BY <1>4
    <3>. QED BY <3>1 DEF LeadingCopies
  <2> DEFINE inst == code[n]
             phi == CHOOSE v \in inst.outs : TRUE
  <2>2. inst = Inst(func, <<pos, n>>) /\ <<pos, n>> \in Instructions(func)
        /\ inst.ins \in Seq(Vals(func)) /\ inst.outs \subseteq Vals(func)
    BY <1>2, <2>1, BlockCode DEF Inst
  <2>3. inst.outs # {} /\ inst.outs \cap DOMAIN func.gens = {} /\ func.copies \cap DOMAIN func.gens = {}
    BY <1>2, <2>1, <2>2, LoweredAssumption DEF LoweredAssumption
  <2>4. phi \in RegisterValues
    BY <2>2, <2>3 DEF RegisterValues
  <2>5. Selected(inst.ins, func.copies) \in Seq(Vals(func) \cap func.copies)
    BY <2>2, SelectedType
  <2>6. Selected(inst.ins, func.copies) \in Seq(RegisterValues)
    <3>1. Vals(func) \cap func.copies \subseteq RegisterValues
      BY <2>3 DEF RegisterValues
    <3>. QED BY <2>5, <3>1, SeqWithin
  <2>7. FixedRegister(phi) \in Range(func.fixed) \cup {NoRegister}
    BY DEF FixedRegister, Range
  <2> DEFINE members == Append(Selected(inst.ins, func.copies), phi)
  <2>8. members \in Seq(RegisterValues)
    BY <2>4, <2>6
  <2>9. CopyGroup(inst) = NewGroup(members, FixedRegister(phi))
    BY DEF CopyGroup
  <2> HIDE DEF members, phi, inst
  <2>10. CopyGroup(inst).interval \in S
    BY DEF inst
  <2> HIDE DEF S
  <2>. QED BY <2>7, <2>8, <2>9, <2>10 DEF NewGroup, GroupsFrom, inst
<1>6. added \in Seq(GroupsFrom(S))
  <2> HIDE DEF S, code
  <2>1. added = [n \in 1 .. k |-> CopyGroup(code[n])]
    BY <1>4
  <2>2. k \in Nat
    BY <1>3, <1>4
  <2>. QED BY <1>5, <2>1, <2>2
<1> HIDE DEF S, added
<1>. QED BY <1>1, <1>6, AddingKeeps

(* A grouped value is a member of its group, with values like it only.     *)
LEMMA GroupOfValue ==
    ASSUME GroupsTyped, MappingInv, NEW v \in DOMAIN mapping
    PROVE  /\ v \in Range(groups[mapping[v]].members)
           /\ Range(groups[mapping[v]].members) \subseteq RegisterValues
<1>1. PICK I : groups \in Seq(GroupsFrom(I))
  BY DEF GroupsTyped
<1>2. mapping[v] \in 1 .. Len(groups) /\ v \in Range(groups[mapping[v]].members)
  BY DEF MappingInv
<1>3. groups[mapping[v]] \in GroupsFrom(I)
  BY <1>1, <1>2
<1>4. groups[mapping[v]].members \in Seq(RegisterValues)
  BY <1>3 DEF GroupsFrom
<1>. QED BY <1>2, <1>4 DEF Range

LEMMA JoinValueKeeps ==
    ASSUME JoiningInv, JoinValue
    PROVE  JoiningInv'
<1> DEFINE v == Last(worklist)
<1>0. func \in Functions /\ worklist \in Seq(RegisterValues) /\ worklist # <<>>
      /\ func' = func /\ pending' = pending
  BY DEF JoiningInv, JoinValue
<1>1. v \in RegisterValues /\ Front(worklist) \in Seq(RegisterValues)
  BY <1>0 DEF Last, Front
<1>2. CASE Hosts(v) = {}
  BY <1>0, <1>1, <1>2 DEF JoiningInv, JoinValue, GroupsTyped, GroupsFrom, MappingInv, RegisterValues
<1>3. CASE Hosts(v) # {}
  <2> DEFINE k == CHOOSE j \in Hosts(v) : \A i \in Hosts(v) : j <= i
             map == Extended(mapping, [w \in {v} |-> k])
  <2>1. PICK I : groups \in Seq(GroupsFrom(I))
    BY DEF JoiningInv, GroupsTyped
  <2>2. Len(groups) \in Nat /\ DOMAIN groups = 1 .. Len(groups)
    BY <2>1
  <2>3. k \in 1 .. Len(groups)
    <3>1. Hosts(v) \in SUBSET Nat /\ Hosts(v) \subseteq 1 .. Len(groups)
      BY <2>2 DEF Hosts
    <3>2. \E j \in Hosts(v) : \A i \in Hosts(v) : j <= i
      BY <1>3, <3>1, LeastNat
    <3>. QED BY <3>1, <3>2
  <2>4. /\ groups' = [groups EXCEPT ![k].members = Append(@, v),
                                   ![k].interval = MergeWith(@, intervals[v])]
        /\ mapping' = map
        /\ worklist' = Front(worklist) \o InputsToJoin(v, map)
    BY <1>3 DEF JoinValue
  <2> HIDE DEF k, v
  <2> DEFINE new == MergeWith(groups[k].interval, intervals[v])
  <2>5. groups[k] \in GroupsFrom(I)
    BY <2>1, <2>3
  <2>6. /\ groups'[k] = [interval |-> new, members |-> Append(groups[k].members, v),
                         fixed |-> groups[k].fixed]
        /\ \A j \in 1 .. Len(groups) : j # k => groups'[j] = groups[j]
        /\ DOMAIN groups' = 1 .. Len(groups)
    BY <2>2, <2>3, <2>4, <2>5 DEF GroupsFrom
  <2>7. groups'[k] \in GroupsFrom(I \cup {new})
    <3> HIDE DEF new
    <3>1. Append(groups[k].members, v) \in Seq(RegisterValues)
      BY <1>1, <2>5 DEF GroupsFrom
    <3>. QED BY <2>5, <2>6, <3>1 DEF GroupsFrom
  <2>8. \A j \in 1 .. Len(groups) : groups'[j] \in GroupsFrom(I \cup {new})
    <3> HIDE DEF new
    <3>1. GroupsFrom(I) \subseteq GroupsFrom(I \cup {new})
      BY DEF GroupsFrom
    <3>2. \A j \in 1 .. Len(groups) : groups[j] \in GroupsFrom(I)
      BY <2>1
    <3>. QED BY <2>6, <2>7, <3>1, <3>2
  <2>9. GroupsTyped' /\ Len(groups') = Len(groups)
    <3> DEFINE G == GroupsFrom(I \cup {new})
    <3>1. groups' \in [1 .. Len(groups) -> G]
      BY <2>4, <2>6, <2>8, <2>1
    <3>2. groups' \in Seq(G) /\ Len(groups') = Len(groups)
      <4> HIDE DEF G
      <4>. QED BY <2>2, <3>1
    <3>. QED BY <1>0, <3>2 DEF GroupsTyped, GroupsFrom, RegisterValues
  <2>10. MappingInv'
    <3> SUFFICES ASSUME NEW w \in DOMAIN mapping'
                 PROVE  mapping'[w] \in 1 .. Len(groups) /\ w \in Range(groups'[mapping'[w]].members)
      BY <2>9 DEF MappingInv
    <3>1. CASE w \in DOMAIN mapping
      <4>1. mapping'[w] = mapping[w]
        BY <2>4, <3>1 DEF Extended
      <4>2. mapping[w] \in 1 .. Len(groups) /\ w \in Range(groups[mapping[w]].members)
        BY <3>1 DEF JoiningInv, MappingInv
      <4>3. Range(groups[k].members) \subseteq Range(groups'[k].members)
        BY <2>5, <2>6, AppendRange DEF GroupsFrom
      <4>. QED BY <2>6, <4>1, <4>2, <4>3
    <3>2. CASE w \notin DOMAIN mapping
      <4>1. w = v /\ mapping'[w] = k
        BY <2>4, <3>2 DEF Extended
      <4>2. v \in Range(groups'[k].members)
        BY <2>5, <2>6, AppendRange DEF GroupsFrom
      <4>. QED BY <2>3, <4>1, <4>2
    <3>. QED BY <3>1, <3>2
  <2>11. worklist' \in Seq(RegisterValues)
    <3>1. InputsToJoin(v, map) \in Seq(RegisterValues)
      <4>1. CASE v \in func.args
        BY <4>1 DEF InputsToJoin
      <4>2. CASE v \notin func.args
        <5> DEFINE at == DefinitionOf(func, v)
                   rest == Vals(func) \ (DOMAIN func.gens \cup DOMAIN map)
        <5>1. at \in Instructions(func)
          <6>1. PICK b \in Block(func) : v \in DefinedIn(func, b)
            BY <1>1, <4>2 DEF RegisterValues, Vals
          <6>2. PICK n \in DOMAIN func.code[b] : v \in func.code[b][n].outs
            BY <6>1 DEF DefinedIn
          <6>3. <<b, n>> \in Instructions(func) /\ v \in Inst(func, <<b, n>>).outs
            BY <6>2 DEF Instructions, Inst
          <6>. QED BY <6>3 DEF DefinitionOf
        <5>2. Inst(func, at).ins \in Seq(Vals(func))
          BY <1>0, <5>1, FunctionsAssumption DEF FunctionsAssumption
        <5> HIDE DEF at
        <5>3. Selected(Inst(func, at).ins, rest) \in Seq(Vals(func) \cap rest)
          BY <5>2, SelectedType
        <5>4. Vals(func) \cap rest \subseteq RegisterValues
          BY DEF RegisterValues
        <5>5. InputsToJoin(v, map) = Selected(Inst(func, at).ins, rest)
          BY <4>2 DEF InputsToJoin, at
        <5> HIDE DEF rest
        <5>. QED BY <5>3, <5>4, <5>5, SeqWithin
      <4>. QED BY <4>1, <4>2
    <3>. QED BY <1>1, <2>4, <3>1
  <2>. QED BY <1>0, <2>9, <2>10, <2>11 DEF JoiningInv, RegisterValues
<1>. QED BY <1>2, <1>3

----------------------------------------------------------------------------
(* What is on the stack: slots of the locals, each above the next.         *)
SlotsInv ==
    /\ local_area \in Nat
    /\ DOMAIN slots \subseteq DOMAIN func.gens
    /\ \A v \in DOMAIN slots : slots[v] \in Nat /\ slots[v] >= func.gens[v].size
    /\ SlotsApart

(* What has a register, and which of them are recorded.                    *)
RegistersInv ==
    /\ DOMAIN reg \subseteq RegisterValues
    /\ used_callee_saved = Range(reg) \cap CalleeSaved
    /\ unhandled \subseteq Vals(func)
    /\ Vals(func) \subseteq DOMAIN reg \cup DOMAIN slots \cup unhandled

Scanning == phase \in {"scan", "done", "died"}

AllocInv ==
    /\ JoiningInv
    /\ phase \in {"locals", "usages", "evaluated", "copies", "join", "scan", "done", "died"}
    /\ pos \in Nat \ {0}
    /\ SlotsInv
    /\ ~ Scanning => reg = <<>> /\ slots = <<>> /\ used_callee_saved = {}
    /\ Scanning => RegistersInv
    /\ phase = "done" => unhandled = {}

LEMMA AllocInitInv == AllocInit => AllocInv
<1> SUFFICES ASSUME AllocInit PROVE AllocInv
  OBVIOUS
<1> USE DEF AllocInit, JoinsInit, Init
<1>1. JoiningInv
  <2>1. groups \in Seq(GroupsFrom({}))
    OBVIOUS
  <2>. QED BY <2>1 DEF JoiningInv, GroupsTyped, MappingInv
<1>2. SlotsInv
  BY DEF SlotsInv, SlotsApart
<1>. QED BY <1>1, <1>2 DEF AllocInv, Scanning

LEMMA JoiningKeeps ==
    ASSUME AllocInv, JoinsNext, UNCHANGED avars
    PROVE  AllocInv'
<1>1. JoiningInv' /\ func' = func
  <2>0. JoiningInv /\ pos \in Nat \ {0}
    BY DEF AllocInv
  <2>1. CASE IntervalsNext /\ UNCHANGED jvars
    <3>1. func' = func
      BY <2>1 DEF IntervalsNext, SetupLocals, StartUsages, EvalUsages, Result
    <3>. QED BY <2>0, <2>1, <3>1 DEF jvars, JoiningInv, GroupsTyped, GroupsFrom, MappingInv, RegisterValues
  <2>2. CASE FixedGroups
    BY <2>0, <2>2, FixedGroupsKeeps DEF FixedGroups
  <2>3. CASE CopyGroups
    BY <2>0, <2>3, CopyGroupsKeeps DEF CopyGroups
  <2>4. CASE StartJoining
    BY <2>0, <2>4 DEF StartJoining, JoiningInv, GroupsTyped, GroupsFrom, MappingInv, RegisterValues
  <2>5. CASE PickValue
    <3>1. PICK v \in pending \ Skipped : pending' = pending \ {v} /\ worklist' = <<v>>
      BY <2>5 DEF PickValue
    <3>2. v \in RegisterValues
      BY <2>0, <3>1 DEF Skipped, RegisterValues, JoiningInv
    <3>3. worklist' \in Seq(RegisterValues)
      BY <3>1, <3>2
    <3>4. func' = func /\ groups' = groups /\ mapping' = mapping
      BY <2>5 DEF PickValue
    <3>. QED BY <2>0, <3>1, <3>3, <3>4 DEF JoiningInv, GroupsTyped, GroupsFrom, MappingInv, RegisterValues
  <2>6. CASE JoinValue
    BY <2>0, <2>6, JoinValueKeeps DEF JoinValue
  <2>. QED BY <2>1, <2>2, <2>3, <2>4, <2>5, <2>6 DEF JoinsNext
<1>2. /\ phase' \in {"locals", "usages", "evaluated", "copies", "join"}
      /\ phase \in {"locals", "usages", "evaluated", "copies", "join"}
      /\ pos' \in Nat \ {0}
  BY DEF AllocInv, JoinsNext, IntervalsNext, SetupLocals, StartUsages, EvalUsages, Result,
         FixedGroups, CopyGroups, StartJoining, PickValue, JoinValue, Evaluated
<1>3. SlotsInv'
  BY <1>1 DEF AllocInv, SlotsInv, SlotsApart, avars
<1>. QED BY <1>1, <1>2, <1>3 DEF AllocInv, Scanning, avars

(* A register lowering gave is not one the function must save.             *)
LEMMA SetupKeeps ==
    ASSUME AllocInv, SetupScan
    PROVE  AllocInv'
<1> DEFINE Held == {w \in DOMAIN mapping : Holders(w) # {}}
           fixed == [v \in Held |->
                       LET k == CHOOSE j \in Holders(v) : \A i \in Holders(v) : j <= i
                       IN  groups[k].fixed]
<1>1. /\ reg' = Extended(func.fixed, fixed)
      /\ used_callee_saved' = UNION {Saved(fixed[v]) : v \in DOMAIN fixed \ DOMAIN func.fixed}
      /\ unhandled' = Vals(func) \ func.args
      /\ phase = "join" /\ phase' = "scan"
      /\ func' = func /\ pos' = pos /\ slots' = slots /\ local_area' = local_area
      /\ groups' = groups /\ mapping' = mapping /\ worklist' = worklist /\ pending' = pending
  BY DEF SetupScan, Joined, jvars, ToBePlaced
<1>2. func \in Functions /\ slots = <<>>
  BY <1>1 DEF AllocInv, JoiningInv, Scanning
<1>3. PICK I : groups \in Seq(GroupsFrom(I))
  BY DEF AllocInv, JoiningInv, GroupsTyped
<1>4. Held \subseteq RegisterValues
  <2> SUFFICES ASSUME NEW v \in DOMAIN mapping PROVE v \in RegisterValues
    OBVIOUS
  <2>. QED BY GroupOfValue DEF AllocInv, JoiningInv
<1>5. ASSUME NEW v \in Held PROVE fixed[v] \in Range(func.fixed)
  <2> DEFINE k == CHOOSE j \in Holders(v) : \A i \in Holders(v) : j <= i
  <2>1. Holders(v) \in SUBSET Nat /\ Holders(v) # {}
    BY <1>3 DEF Holders
  <2>2. k \in Holders(v)
    BY <2>1, LeastNat
  <2> HIDE DEF k
  <2>3. groups[k].fixed # NoRegister /\ groups[k] \in GroupsFrom(I)
    BY <1>3, <2>2 DEF Holders
  <2>4. groups[k].fixed \in Range(func.fixed)
    BY <2>3 DEF GroupsFrom
  <2>. QED BY <2>4 DEF k
<1> HIDE DEF fixed
<1>6. DOMAIN fixed = Held
  BY DEF fixed
<1>7. Range(func.fixed) \cap CalleeSaved = {} /\ func.args \subseteq DOMAIN func.fixed
  BY <1>2, LoweredAssumption DEF LoweredAssumption
<1>8. DOMAIN reg' = DOMAIN func.fixed \cup Held /\ DOMAIN reg' \subseteq RegisterValues
  BY <1>1, <1>2, <1>4, <1>6, ArgsRegister DEF Extended, RegisterValues
<1>9. Range(reg') \subseteq Range(func.fixed)
  BY <1>1, <1>5, <1>6 DEF Extended, Range
<1>10. used_callee_saved' = {}
  BY <1>1, <1>5, <1>6, <1>7 DEF Saved
<1>11. JoiningInv' /\ SlotsInv'
  BY <1>1 DEF AllocInv, JoiningInv, GroupsTyped, GroupsFrom, MappingInv, RegisterValues, SlotsInv, SlotsApart
<1>12. RegistersInv'
  BY <1>1, <1>7, <1>8, <1>9, <1>10 DEF RegistersInv, RegisterValues
<1>. QED BY <1>1, <1>11, <1>12 DEF AllocInv, Scanning

(* A new slot lies below all others.                                       *)
LEMMA SlotKeeps ==
    ASSUME AllocInv, phase = "scan", NEW u \in unhandled \cap DOMAIN func.gens, StackAlloc(u),
           unhandled' = unhandled \ {u}, func' = func
    PROVE  SlotsInv' /\ RegistersInv'
<1> DEFINE gen == func.gens[u]
           new == SlotBelow(local_area, gen)
<1>1. local_area' = new /\ slots' = Extended(slots, [w \in {u} |-> new])
      /\ reg' = reg /\ used_callee_saved' = used_callee_saved
  BY DEF StackAlloc
<1>2. func \in Functions
  BY DEF AllocInv, JoiningInv
<1>3. /\ gen.size \in Nat \ {0} /\ gen.align \in Nat \ {0} /\ gen.size % gen.align = 0
  BY <1>2, LoweredAssumption DEF LoweredAssumption
<1>4. local_area \in Nat
  BY DEF AllocInv, SlotsInv
<1>5. new \in Nat /\ local_area <= new - gen.size /\ new % gen.align = 0
  BY <1>3, <1>4, SlotArithmetic
<1>6. DOMAIN slots' = DOMAIN slots \cup {u}
      /\ (\A v \in DOMAIN slots : slots'[v] = slots[v])
      /\ (u \notin DOMAIN slots => slots'[u] = new)
  <2> HIDE DEF new
  <2>. QED BY <1>1 DEF Extended
<1>7. /\ DOMAIN slots \subseteq DOMAIN func.gens
      /\ \A v \in DOMAIN slots : slots[v] \in Nat /\ slots[v] >= func.gens[v].size
      /\ \A v \in DOMAIN slots : /\ slots[v] % func.gens[v].align = 0
                                /\ slots[v] <= local_area
      /\ \A v, w \in DOMAIN slots : v # w =>
             \/ slots[v] <= slots[w] - func.gens[w].size
             \/ slots[w] <= slots[v] - func.gens[v].size
  BY DEF AllocInv, SlotsInv, SlotsApart
<1> HIDE DEF new
<1>8. \A v \in DOMAIN slots' : slots'[v] \in Nat /\ slots'[v] >= func.gens[v].size
                             /\ slots'[v] % func.gens[v].align = 0 /\ slots'[v] <= new
  <2> SUFFICES ASSUME NEW v \in DOMAIN slots'
               PROVE  slots'[v] \in Nat /\ slots'[v] >= func.gens[v].size
                      /\ slots'[v] % func.gens[v].align = 0 /\ slots'[v] <= new
    OBVIOUS
  <2>1. CASE v \in DOMAIN slots
    <3>1. slots[v] \in Nat /\ slots[v] <= local_area /\ slots'[v] = slots[v]
      BY <1>6, <1>7, <2>1
    <3>2. slots[v] <= new
      BY <1>3, <1>4, <1>5, <3>1
    <3>. QED BY <1>7, <2>1, <3>1, <3>2
  <2>2. CASE v \notin DOMAIN slots
    BY <1>3, <1>4, <1>5, <1>6, <2>2
  <2>. QED BY <2>1, <2>2
<1>9. ASSUME NEW v \in DOMAIN slots', NEW w \in DOMAIN slots' \ {v}
      PROVE  \/ slots'[v] <= slots'[w] - func.gens[w].size
             \/ slots'[w] <= slots'[v] - func.gens[v].size
  <2>1. CASE v \in DOMAIN slots /\ w \in DOMAIN slots
    BY <1>6, <1>7, <2>1
  <2>2. CASE v \notin DOMAIN slots
    <3>1. v = u /\ slots'[v] = new /\ w \in DOMAIN slots /\ slots'[w] = slots[w]
      BY <1>6, <2>2
    <3>2. slots[w] \in Nat /\ slots[w] <= local_area
      BY <1>7, <3>1
    <3>3. slots[w] <= new - gen.size
      BY <1>3, <1>4, <1>5, <3>2
    <3>. QED BY <3>1, <3>3
  <2>3. CASE w \notin DOMAIN slots
    <3>1. w = u /\ slots'[w] = new /\ v \in DOMAIN slots /\ slots'[v] = slots[v]
      BY <1>6, <2>3
    <3>2. slots[v] \in Nat /\ slots[v] <= local_area
      BY <1>7, <3>1
    <3>3. slots[v] <= new - gen.size
      BY <1>3, <1>4, <1>5, <3>2
    <3>. QED BY <3>1, <3>3
  <2>. QED BY <2>1, <2>2, <2>3
<1>10. SlotsInv'
  BY <1>1, <1>5, <1>6, <1>7, <1>8, <1>9 DEF SlotsInv, SlotsApart
<1>11. RegistersInv'
  BY <1>1, <1>6 DEF AllocInv, Scanning, RegistersInv, RegisterValues
<1>. QED BY <1>10, <1>11

(* Placing a value in a register puts the register on record.              *)
LEMMA RegisterKeeps ==
    ASSUME AllocInv, phase = "scan", NEW u \in unhandled \ DOMAIN func.gens,
           NEW near, NEW regs \in Selections(u, near), SelectRegister(u, near, regs),
           unhandled' = unhandled \ {u}, func' = func
    PROVE  /\ RegistersInv'
           /\ DOMAIN reg \subseteq DOMAIN reg' /\ \A v \in DOMAIN reg : reg'[v] = reg[v]
<1>1. /\ reg' = regs /\ slots' = slots
      /\ used_callee_saved' = IF u \in DOMAIN reg THEN used_callee_saved
                              ELSE used_callee_saved \cup Saved(regs[u])
  BY DEF SelectRegister
<1>2. /\ DOMAIN reg \subseteq RegisterValues
      /\ used_callee_saved = Range(reg) \cap CalleeSaved
      /\ unhandled \subseteq Vals(func)
      /\ Vals(func) \subseteq DOMAIN reg \cup DOMAIN slots \cup unhandled
  BY DEF AllocInv, Scanning, RegistersInv
<1>3. CASE u \in DOMAIN reg
  <2>1. regs = reg
    BY <1>3 DEF Selections
  <2>. QED BY <1>1, <1>2, <1>3, <2>1 DEF RegistersInv, RegisterValues
<1>4. CASE u \notin DOMAIN reg
  <2>1. PICK r : regs = Assign(Sharers(u), r)
    BY <1>4 DEF Selections
  <2>2. u \in Sharers(u) /\ Sharers(u) \subseteq RegisterValues
    <3>1. CASE u \in DOMAIN mapping
      <4>4. Sharers(u) = Range(groups[mapping[u]].members)
        BY <3>1 DEF Sharers, GroupOf
      <4>. QED BY <3>1, <4>4, GroupOfValue DEF AllocInv, JoiningInv
    <3>2. CASE u \notin DOMAIN mapping
      BY <1>2, <3>2 DEF Sharers, RegisterValues
    <3>. QED BY <3>1, <3>2
  <2>3. /\ DOMAIN regs = DOMAIN reg \cup Sharers(u)
        /\ \A v \in DOMAIN reg : regs[v] = reg[v]
        /\ \A v \in Sharers(u) \ DOMAIN reg : regs[v] = r
    BY <2>1 DEF Assign, Extended
  <2>4. regs[u] = r
    BY <1>4, <2>2, <2>3
  <2>5. Range(regs) = Range(reg) \cup {r}
    BY <1>4, <2>2, <2>3, <2>4 DEF Range
  <2>6. used_callee_saved' = Range(regs) \cap CalleeSaved
    BY <1>1, <1>2, <1>4, <2>4, <2>5 DEF Saved
  <2>. QED BY <1>1, <1>2, <2>2, <2>3, <2>6 DEF RegistersInv, RegisterValues
<1>. QED BY <1>3, <1>4

LEMMA AllocStepKeeps == AllocInv /\ [AllocNext]_avarsAll => AllocInv'
<1> SUFFICES ASSUME AllocInv, [AllocNext]_avarsAll PROVE AllocInv'
  OBVIOUS
<1> USE DEF JoiningInv, GroupsTyped, GroupsFrom, MappingInv, RegisterValues, SlotsInv, SlotsApart,
            RegistersInv, Scanning
<1>1. CASE JoinsNext /\ UNCHANGED avars
  BY <1>1, JoiningKeeps
<1>2. CASE SetupScan
  BY <1>2, SetupKeeps
<1>3. CASE Allocate
  <2>1. PICK u \in Earliest(unhandled) :
          /\ \/ u \in DOMAIN func.gens /\ StackAlloc(u)
             \/ /\ u \notin DOMAIN func.gens
                /\ \E near \in Neighbours(u, unhandled \ {u}) :
                     \E regs \in Selections(u, near) : SelectRegister(u, near, regs)
          /\ unhandled' = unhandled \ {u}
    BY <1>3 DEF Allocate
  <2>2. /\ phase = "scan" /\ phase' = "scan" /\ func' = func /\ pos' = pos /\ u \in unhandled
        /\ groups' = groups /\ mapping' = mapping /\ worklist' = worklist /\ pending' = pending
    BY <1>3, <2>1 DEF Allocate, jvars, Earliest
  <2>3. SlotsInv' /\ RegistersInv'
    <3>1. CASE u \in DOMAIN func.gens /\ StackAlloc(u)
      BY <2>1, <2>2, <3>1, SlotKeeps
    <3>2. CASE /\ u \notin DOMAIN func.gens
               /\ \E near \in Neighbours(u, unhandled \ {u}) :
                    \E regs \in Selections(u, near) : SelectRegister(u, near, regs)
      <4>0. PICK near \in Neighbours(u, unhandled \ {u}) :
                \E regs \in Selections(u, near) : SelectRegister(u, near, regs)
        BY <3>2
      <4>1. PICK regs \in Selections(u, near) : SelectRegister(u, near, regs)
        BY <4>0
      <4>2. RegistersInv'
        BY <2>1, <2>2, <3>2, <4>1, RegisterKeeps
      <4>3. SlotsInv'
        BY <2>2, <4>1 DEF AllocInv, SelectRegister
      <4>. QED BY <4>2, <4>3
    <3>. QED BY <2>1, <3>1, <3>2
  <2>. QED BY <2>2, <2>3 DEF AllocInv
<1>4. CASE OutOfRegisters
  BY <1>4 DEF OutOfRegisters, AllocInv, avars, jvars
<1>5. CASE CompleteScan
  BY <1>5 DEF CompleteScan, AllocInv, jvars
<1>6. CASE UNCHANGED avarsAll
  BY <1>6 DEF avarsAll, avars, ivars, jvars, AllocInv
<1>. QED BY <1>1, <1>2, <1>3, <1>4, <1>5, <1>6 DEF AllocNext

(* At every step of the scan, for every function, what has a register is no*)
(* stack slot, the callee-saved registers on record are exactly those that *)
(* were given out, and what is not placed yet is still to come.            *)
THEOREM AllocationInvariant == AllocSpec => []AllocInv
<1>. QED BY AllocInitInv, AllocStepKeeps, PTL DEF AllocSpec

(* Whatever objects a function has on the stack, and in whatever order they*)
(* are placed, the slots do not overlap and are aligned (stack_alloc()).   *)
THEOREM SlotsNeverOverlap == AllocSpec => []SlotsApart
<1>1. AllocInv => SlotsApart
  BY DEF AllocInv, SlotsInv
<1>. QED BY <1>1, AllocationInvariant, PTL

----------------------------------------------------------------------------
(* The pairs of clashing values that a stack slot is in.                   *)
SlotClashes == {p \in Clashes : p[1] \in DOMAIN func.gens \/ p[2] \in DOMAIN func.gens}

(* The abstract allocation, without what it says of two registers.         *)
Placement == INSTANCE Allocation WITH
    Preserved <- CalleeSaved \X {0},
    values <- Vals(func),
    clashes <- SlotClashes,
    place <- Places,
    saved <- used_callee_saved \X {0},
    status <- Status

LEMMA InterferencesOfValues ==
    ASSUME NEW f \in Functions
    PROVE  \A p \in Interferences(f) : p \in Vals(f) \X Vals(f) /\ p[1] # p[2]
<1>1. \A b \in Block(f) : DefinedIn(f, b) \subseteq Vals(f)
  BY DEF Vals
<1>2. ASSUME NEW b \in Block(f), NEW n \in 0 .. Len(f.code[b])
      PROVE  HeldAfter(f, b, n) \subseteq Vals(f) /\ Writes(f, b, n) \subseteq Vals(f)
  <2>1. /\ DOMAIN f.code[b] = 1 .. Len(f.code[b]) /\ Len(f.code[b]) \in Nat
        /\ \A m \in 1 .. Len(f.code[b]) : f.code[b][m].outs \subseteq Vals(f)
    BY BlockCode
  <2>2. PhisOf(f, b) \subseteq Vals(f)
    BY <2>1 DEF PhisOf
  <2>3. f.live_in[b] \subseteq Vals(f) /\ f.args \subseteq Vals(f)
    BY FunctionsAssumption DEF FunctionsAssumption, Vals
  <2>4. \A m \in 1 .. n : m \in 1 .. Len(f.code[b])
    BY <2>1
  <2>5. ASSUME NEW v \in HeldAfter(f, b, n) PROVE v \in Vals(f)
    <3>1. \/ v \in f.live_in[b] \/ v \in PhisOf(f, b)
          \/ \E m \in 1 .. n : v \in f.code[b][m].outs
          \/ v \in f.args
      BY DEF HeldAfter
    <3>. QED BY <2>1, <2>2, <2>3, <2>4, <3>1
  <2>6. HeldAfter(f, b, n) \subseteq Vals(f)
    BY <2>5
  <2>7. n = 0 \/ n \in 1 .. Len(f.code[b])
    BY <2>1
  <2>8. Writes(f, b, n) \subseteq Vals(f)
    BY <2>1, <2>2, <2>7 DEF Writes
  <2>. QED BY <2>6, <2>8
<1>. QED BY <1>2 DEF Interferences, Overwrites

LEMMA ClashesOfValues ==
    ASSUME NEW f \in Functions, f = func
    PROVE  \A p \in Clashes : p \in Vals(f) \X Vals(f) /\ p[1] # p[2]
<1>1. DOMAIN f.gens \subseteq Vals(f)
  BY LoweredAssumption DEF LoweredAssumption
<1>. QED BY <1>1, InterferencesOfValues DEF Clashes

(* The places of an allocation: slots and registers of different values.   *)
PlacesInv ==
    /\ DOMAIN Places = DOMAIN slots \cup DOMAIN reg
    /\ DOMAIN Places \subseteq Vals(func)
    /\ DOMAIN slots \cap DOMAIN reg = {}
    /\ \A v \in DOMAIN slots : Places[v] = <<"stack", slots[v]>>
    /\ \A v \in DOMAIN reg : Places[v] = <<reg[v], 0>>
    /\ \A v \in DOMAIN slots : slots[v] # 0
    /\ used_callee_saved \X {0} = Range(Places) \cap (CalleeSaved \X {0})

LEMMA PlacesShape == AllocInv => PlacesInv
<1> SUFFICES ASSUME AllocInv PROVE PlacesInv
  OBVIOUS
<1>1. func \in Functions /\ DOMAIN slots \subseteq DOMAIN func.gens
      /\ DOMAIN reg \subseteq Vals(func) \ DOMAIN func.gens
  <2>1. CASE Scanning
    BY <2>1 DEF AllocInv, JoiningInv, SlotsInv, RegistersInv, RegisterValues
  <2>2. CASE ~ Scanning
    BY <2>2 DEF AllocInv, JoiningInv, SlotsInv
  <2>. QED BY <2>1, <2>2
<1>2. DOMAIN func.gens \subseteq Vals(func)
  BY <1>1, LoweredAssumption DEF LoweredAssumption
<1>3. /\ DOMAIN Places = DOMAIN slots \cup DOMAIN reg
      /\ \A v \in DOMAIN slots : Places[v] = <<"stack", slots[v]>>
      /\ \A v \in DOMAIN reg : Places[v] = <<reg[v], 0>>
  BY <1>1 DEF Places, Extended
<1>4. \A v \in DOMAIN slots : slots[v] # 0
  <2> SUFFICES ASSUME NEW v \in DOMAIN slots PROVE slots[v] # 0
    OBVIOUS
  <2>1. slots[v] \in Nat /\ slots[v] >= func.gens[v].size /\ v \in DOMAIN func.gens
    BY <1>1 DEF AllocInv, SlotsInv
  <2>2. func.gens[v].size \in Nat \ {0}
    BY <1>1, <2>1, LoweredAssumption DEF LoweredAssumption
  <2>. QED BY <2>1, <2>2
<1>5. used_callee_saved = Range(reg) \cap CalleeSaved
  <2>1. CASE Scanning
    BY <2>1 DEF AllocInv, RegistersInv
  <2>2. CASE ~ Scanning
    BY <2>2 DEF AllocInv, Range
  <2>. QED BY <2>1, <2>2
<1>6. used_callee_saved \X {0} = Range(Places) \cap (CalleeSaved \X {0})
  <2>1. ASSUME NEW p \in Range(Places) \cap (CalleeSaved \X {0})
        PROVE  p \in used_callee_saved \X {0}
    <3>1. PICK v \in DOMAIN Places : p = Places[v]
      BY DEF Range
    <3>2. CASE v \in DOMAIN slots
      <4>1. p = <<"stack", slots[v]>> /\ p[2] = 0
        BY <1>3, <3>1, <3>2
      <4>. QED BY <1>4, <3>2, <4>1
    <3>3. CASE v \in DOMAIN reg
      <4>1. p = <<reg[v], 0>> /\ p[1] \in CalleeSaved
        BY <1>3, <3>1, <3>3
      <4>. QED BY <1>5, <3>3, <4>1 DEF Range
    <3>. QED BY <1>3, <3>1, <3>2, <3>3
  <2>2. ASSUME NEW p \in used_callee_saved \X {0}
        PROVE  p \in Range(Places) \cap (CalleeSaved \X {0})
    <3>1. PICK v \in DOMAIN reg : p[1] = reg[v]
      BY <1>5 DEF Range
    <3>2. p = <<reg[v], 0>> /\ p = Places[v] /\ v \in DOMAIN Places
      BY <1>3, <3>1
    <3>. QED BY <1>5, <3>2 DEF Range
  <2>. QED BY <2>1, <2>2
<1>. QED BY <1>1, <1>2, <1>3, <1>4, <1>6 DEF PlacesInv

(* A slot is apart from every other place.                                 *)
LEMMA SlotsApartPlaces == AllocInv => Placement!Apart(Places)
<1> SUFFICES ASSUME AllocInv, NEW c \in SlotClashes, {c[1], c[2]} \subseteq DOMAIN Places
             PROVE  Places[c[1]] # Places[c[2]]
  BY DEF Placement!Apart
<1>1. func \in Functions /\ c[1] # c[2]
  BY ClashesOfValues DEF AllocInv, JoiningInv, SlotClashes
<1>2. /\ DOMAIN Places = DOMAIN slots \cup DOMAIN reg
      /\ \A v \in DOMAIN slots : Places[v] = <<"stack", slots[v]>> /\ slots[v] # 0
      /\ \A v \in DOMAIN reg : Places[v] = <<reg[v], 0>>
      /\ DOMAIN slots \subseteq DOMAIN func.gens /\ DOMAIN reg \cap DOMAIN func.gens = {}
  <2>1. DOMAIN reg \cap DOMAIN func.gens = {} /\ DOMAIN slots \subseteq DOMAIN func.gens
    <3>1. CASE Scanning
      BY <3>1 DEF AllocInv, RegistersInv, RegisterValues, SlotsInv
    <3>2. CASE ~ Scanning
      BY <3>2 DEF AllocInv, SlotsInv
    <3>. QED BY <3>1, <3>2
  <2>. QED BY <2>1, PlacesShape DEF PlacesInv
<1>3. \A v, w \in DOMAIN slots : v # w => slots[v] # slots[w]
  <2> SUFFICES ASSUME NEW v \in DOMAIN slots, NEW w \in DOMAIN slots, v # w
               PROVE  slots[v] # slots[w]
    OBVIOUS
  <2>1. /\ slots[v] \in Nat /\ slots[w] \in Nat
        /\ slots[v] <= slots[w] - func.gens[w].size \/ slots[w] <= slots[v] - func.gens[v].size
    BY DEF AllocInv, SlotsInv, SlotsApart
  <2>2. func.gens[v].size \in Nat \ {0} /\ func.gens[w].size \in Nat \ {0}
    BY <1>1, <1>2, LoweredAssumption DEF LoweredAssumption
  <2>. QED BY <2>1, <2>2
<1>4. \A v \in DOMAIN slots : \A w \in DOMAIN reg : Places[v] # Places[w]
  <2> SUFFICES ASSUME NEW v \in DOMAIN slots, NEW w \in DOMAIN reg PROVE Places[v] # Places[w]
    OBVIOUS
  <2>1. Places[v] = <<"stack", slots[v]>> /\ slots[v] # 0 /\ Places[w] = <<reg[w], 0>>
    BY <1>2
  <2>. QED BY <2>1
<1>5. c[1] \in DOMAIN slots \/ c[2] \in DOMAIN slots
  BY <1>2 DEF SlotClashes
<1>6. CASE c[1] \in DOMAIN slots /\ c[2] \in DOMAIN slots
  <2>1. slots[c[1]] # slots[c[2]]
    BY <1>1, <1>3, <1>6
  <2>. QED BY <1>2, <1>6, <2>1
<1>7. CASE c[1] \in DOMAIN slots /\ c[2] \in DOMAIN reg
  BY <1>4, <1>7
<1>8. CASE c[2] \in DOMAIN slots /\ c[1] \in DOMAIN reg
  BY <1>4, <1>8
<1>. QED BY <1>2, <1>5, <1>6, <1>7, <1>8

Unmoved ==
    /\ func' = func
    /\ Places' = Places /\ used_callee_saved' = used_callee_saved

(* What a step of the allocator is for the abstract one.                   *)
LEMMA StepOfPlaces ==
    ASSUME AllocInv, AllocInv', [AllocNext]_avarsAll
    PROVE  \/ Unmoved /\ Status' = Status
           \/ Unmoved /\ Status = "working" /\ Status' = "failed"
           \/ Unmoved /\ Status = "working" /\ Status' = "done" /\ DOMAIN Places = Vals(func)
           \/ /\ func' = func
              /\ Status = "working" /\ Status' = "working"
              /\ DOMAIN Places \subseteq DOMAIN Places'
              /\ \A v \in DOMAIN Places : Places'[v] = Places[v]
<1>1. CASE JoinsNext /\ UNCHANGED avars
  <2>1. func' = func /\ phase \notin {"done", "died"} /\ phase' \notin {"done", "died"}
    BY <1>1 DEF AllocInv, JoinsNext, IntervalsNext, SetupLocals, StartUsages, EvalUsages, Result,
         FixedGroups, CopyGroups, StartJoining, PickValue, JoinValue, Evaluated
  <2>. QED BY <1>1, <2>1 DEF avars, Unmoved, Places, Status
<1>2. CASE SetupScan
  <2>1. func' = func /\ phase = "join" /\ phase' = "scan"
    BY <1>2 DEF SetupScan, Joined
  <2>2. DOMAIN Places = {}
    BY <2>1, PlacesShape DEF AllocInv, Scanning, PlacesInv
  <2>. QED BY <2>1, <2>2 DEF Status
<1>3. CASE Allocate
  <2>1. func' = func /\ phase = "scan" /\ phase' = "scan"
    BY <1>3 DEF Allocate
  <2>2. /\ DOMAIN slots \subseteq DOMAIN slots' /\ DOMAIN reg \subseteq DOMAIN reg'
        /\ \A v \in DOMAIN slots : slots'[v] = slots[v]
        /\ \A v \in DOMAIN reg : reg'[v] = reg[v]
    <3>1. PICK u \in Earliest(unhandled) :
            /\ \/ u \in DOMAIN func.gens /\ StackAlloc(u)
               \/ /\ u \notin DOMAIN func.gens
                  /\ \E near \in Neighbours(u, unhandled \ {u}) :
                       \E regs \in Selections(u, near) : SelectRegister(u, near, regs)
            /\ unhandled' = unhandled \ {u}
      BY <1>3 DEF Allocate
    <3>2. CASE StackAlloc(u)
      BY <3>2 DEF StackAlloc, Extended
    <3>3. CASE /\ u \notin DOMAIN func.gens
               /\ \E near \in Neighbours(u, unhandled \ {u}) :
                    \E regs \in Selections(u, near) : SelectRegister(u, near, regs)
      <4>1. PICK near \in Neighbours(u, unhandled \ {u}) :
                \E regs \in Selections(u, near) : SelectRegister(u, near, regs)
        BY <3>3
      <4>2. PICK regs \in Selections(u, near) : SelectRegister(u, near, regs)
        BY <4>1
      <4>3. u \in unhandled \ DOMAIN func.gens /\ slots' = slots
        BY <3>3, <4>2 DEF Earliest, SelectRegister
      <4>. QED BY <2>1, <3>1, <4>2, <4>3, RegisterKeeps
    <3>. QED BY <3>1, <3>2, <3>3
  <2>3. /\ DOMAIN Places = DOMAIN slots \cup DOMAIN reg
        /\ \A v \in DOMAIN slots : Places[v] = <<"stack", slots[v]>>
        /\ \A v \in DOMAIN reg : Places[v] = <<reg[v], 0>>
    BY PlacesShape DEF PlacesInv
  <2>4. /\ DOMAIN Places' = DOMAIN slots' \cup DOMAIN reg'
        /\ DOMAIN slots' \cap DOMAIN reg' = {}
        /\ \A v \in DOMAIN slots' : Places'[v] = <<"stack", slots'[v]>>
        /\ \A v \in DOMAIN reg' : Places'[v] = <<reg'[v], 0>>
    <3>1. PlacesInv'
      BY PlacesShape, PTL
    <3>. QED BY <3>1 DEF PlacesInv
  <2>. QED BY <2>1, <2>2, <2>3, <2>4 DEF Status
<1>4. CASE OutOfRegisters
  BY <1>4 DEF OutOfRegisters, avars, Unmoved, Places, Status
<1>5. CASE CompleteScan
  <2>1. Unmoved /\ phase = "scan" /\ phase' = "done" /\ unhandled = {}
    BY <1>5 DEF CompleteScan, Unmoved, Places
  <2>2. DOMAIN Places = Vals(func)
    BY <2>1, PlacesShape DEF AllocInv, Scanning, PlacesInv, RegistersInv
  <2>. QED BY <2>1, <2>2 DEF Status
<1>6. CASE UNCHANGED avarsAll
  BY <1>6 DEF avarsAll, avars, ivars, jvars, Unmoved, Places, Status
<1>. QED BY <1>1, <1>2, <1>3, <1>4, <1>5, <1>6 DEF AllocNext

LEMMA PlacesAtFirst ==
    ASSUME AllocInit
    PROVE  /\ Places = <<>> /\ Status = "working" /\ used_callee_saved \X {0} = {}
           /\ Clashes \subseteq Vals(func) \X Vals(func)
<1>1. func \in Functions /\ slots = <<>> /\ reg = <<>> /\ used_callee_saved = {} /\ phase = "locals"
  BY DEF AllocInit, JoinsInit, Init
<1>2. DOMAIN Places = {}
  BY <1>1 DEF Places, Extended
<1>3. Places = <<>>
  BY <1>2 DEF Places, Extended
<1>. QED BY <1>1, <1>3, ClashesOfValues DEF Status

(* A value is given a place in keeping with what is promised of one.       *)
LEMMA PlacingIsSound ==
    ASSUME AllocInv, AllocInv', func' = func, func \in Functions
    PROVE  /\ DOMAIN Places' \in SUBSET Vals(func)
           /\ used_callee_saved' \X {0} = Range(Places') \cap (CalleeSaved \X {0})
<1>1. PlacesInv'
  BY PlacesShape, PTL
<1>. QED BY <1>1 DEF PlacesInv

(* For every set of functions, what allocation promises, but for pairs of  *)
(* registers: slots are apart from one another, a place once given is kept,*)
(* the callee-saved registers on record are those in use, allocation ends  *)
(* only when all values are placed, and nothing happens after it gave up.  *)
THEOREM PlacesAreKept == AllocSpec => Placement!Spec
<1>1. AllocInit => Placement!Init
  BY PlacesAtFirst DEF Placement!Init, SlotClashes
<1>2. ASSUME AllocInv, AllocInv', [AllocNext]_avarsAll
      PROVE  [Placement!Next]_(Placement!vars)
  <2>1. Placement!Apart(Places)'
    BY <1>2, SlotsApartPlaces, PTL
  <2>2. CASE Unmoved /\ Status' = Status
    BY <2>2 DEF Unmoved, Placement!vars, SlotClashes, Clashes
  <2>3. CASE Unmoved /\ Status = "working" /\ Status' = "failed"
    BY <2>3 DEF Unmoved, Placement!Next, Placement!Fail, SlotClashes, Clashes
  <2>4. CASE Unmoved /\ Status = "working" /\ Status' = "done" /\ DOMAIN Places = Vals(func)
    BY <2>4 DEF Unmoved, Placement!Next, Placement!Finish, SlotClashes, Clashes
  <2>5. CASE /\ func' = func
             /\ Status = "working" /\ Status' = "working"
             /\ DOMAIN Places \subseteq DOMAIN Places'
             /\ \A v \in DOMAIN Places : Places'[v] = Places[v]
    <3>1. SlotClashes' = SlotClashes
      BY <2>5 DEF SlotClashes, Clashes
    <3>2. Placement!Apart(Places')
      BY <2>1, <3>1 DEF Placement!Apart
    <3>3. /\ DOMAIN Places' \in SUBSET Vals(func)
          /\ used_callee_saved' \X {0} = Range(Places') \cap (CalleeSaved \X {0})
      BY <1>2, <2>5, PlacingIsSound DEF AllocInv, JoiningInv
    <3>4. (used_callee_saved \X {0})' = Placement!Recorded(Places')
      BY <3>3 DEF Placement!Recorded, Placement!Range, Range
    <3>5. UNCHANGED <<Vals(func), SlotClashes>>
      BY <2>5, <3>1
    <3>. QED BY <2>5, <3>2, <3>3, <3>4, <3>5 DEF Placement!Next, Placement!Place
  <2>. QED BY <1>2, <2>2, <2>3, <2>4, <2>5, StepOfPlaces
<1>. QED BY <1>1, <1>2, AllocInitInv, AllocStepKeeps, PTL DEF AllocSpec, Placement!Spec

----------------------------------------------------------------------------
(* create_live_intervals() makes an interval.                              *)
LEMMA JointIsInterval ==
  ASSUME NEW values \in Seq(Vals(func)), Len(values) # 0,
         \A v \in Vals(func) : IsInterval(intervals[v])
  PROVE  IsInterval(JointInterval(values))
<1>0. PICK n \in Nat : n = Len(values) /\ n # 0
  OBVIOUS
<1> DEFINE parts == [k \in 1 .. Len(values) |-> intervals[values[k]].ranges]
<1>1. \A k \in 1 .. n : parts[k] \in Seq(LiveRanges) /\ Len(parts[k]) # 0
  <2>1. \A k \in 1 .. n : values[k] \in Vals(func)
    BY <1>0
  <2>. QED BY <1>0, <2>1 DEF IsInterval
<1>2. parts \in Seq(Seq(LiveRanges)) /\ Len(parts) = n
  BY <1>0, <1>1
<1> HIDE DEF parts
<1> DEFINE flat == FlattenSeq(parts)
<1>3. flat \in Seq(LiveRanges) /\ Len(parts[1]) <= Len(flat)
  <2>1. 1 \in 1 .. Len(parts)
    BY <1>0, <1>2
  <2>. QED BY <1>2, <2>1, FlattenType
<1> HIDE DEF flat
<1>4. Len(flat) # 0
  <2>1. 1 \in 1 .. n
    BY <1>0
  <2>2. PICK a, b \in Nat : a = Len(parts[1]) /\ b = Len(flat)
    BY <1>1, <1>3, <2>1
  <2>3. a # 0 /\ a <= b
    BY <1>1, <1>3, <2>1, <2>2
  <2>. QED BY <2>2, <2>3
<1>5. Canonical(flat) \in Seq(LiveRanges) /\ Len(Canonical(flat)) # 0
  BY <1>3, <1>4, CanonicalKeeps
<1>6. JointInterval(values).ranges = Canonical(flat)
  BY DEF JointInterval, NewInterval, flat, parts
<1>. QED BY <1>5, <1>6 DEF IsInterval

(* An interval holds its own ranges.                                       *)
LEMMA HoldsItself ==
  ASSUME NEW iv, IsInterval(iv)
  PROVE  Holds(iv, iv)
BY IntervalNumbers DEF Holds

(* What lies between two numbers lies between two further apart.           *)
LEMMA Stretched ==
  ASSUME NEW p \in Nat, NEW q \in Nat, NEW x \in Nat, NEW y \in Nat,
         x <= p, p < q, q <= y
  PROVE  x < y
<1>1. x < q
  OBVIOUS
<1>. QED BY <1>1

(* What meets an interval meets what holds it.                             *)
LEMMA HoldersMeet ==
  ASSUME NEW a, NEW b, NEW c, NEW d, IsInterval(a), IsInterval(b), IsInterval(c), IsInterval(d),
         Holds(c, a), Holds(d, b), Intersects(a, b)
  PROVE  Intersects(c, d)
<1>1. PICK i \in DOMAIN a.ranges, j \in DOMAIN b.ranges : RangesMeet(a.ranges[i], b.ranges[j])
  BY DEF Intersects
<1>2. PICK k \in DOMAIN c.ranges : /\ c.ranges[k].start <= a.ranges[i].start
                                  /\ a.ranges[i].end <= c.ranges[k].end
  BY DEF Holds
<1>3. PICK l \in DOMAIN d.ranges : /\ d.ranges[l].start <= b.ranges[j].start
                                  /\ b.ranges[j].end <= d.ranges[l].end
  BY DEF Holds
<1>4. RangesMeet(c.ranges[k], d.ranges[l])
  <2>1. PICK sa, ea, sb, eb \in Nat : /\ sa = a.ranges[i].start /\ ea = a.ranges[i].end
                                     /\ sb = b.ranges[j].start /\ eb = b.ranges[j].end
    BY IntervalNumbers
  <2>2. PICK sc, ec, sd, ed \in Nat : /\ sc = c.ranges[k].start /\ ec = c.ranges[k].end
                                     /\ sd = d.ranges[l].start /\ ed = d.ranges[l].end
    BY IntervalNumbers
  <2>3. sa < eb /\ ea > sb
    BY <1>1, <2>1 DEF RangesMeet
  <2>4. sc <= sa /\ ea <= ec /\ sd <= sb /\ eb <= ed
    BY <1>2, <1>3, <2>1, <2>2
  <2>5. sc < ed /\ sd < ec
    <3>1. sa < eb /\ sb < ea
      BY <2>3
    <3>. QED BY <2>4, <3>1, Stretched
  <2>. QED BY <2>2, <2>5 DEF RangesMeet
<1>5. ~ (Start(c) >= Finish(d) \/ Finish(c) <= Start(d))
  <2>1. PICK sa, ea, sb, eb \in Nat : /\ sa = Start(a) /\ ea = Finish(a)
                                     /\ sb = Start(b) /\ eb = Finish(b)
    BY IntervalNumbers
  <2>2. PICK sc, ec, sd, ed \in Nat : /\ sc = Start(c) /\ ec = Finish(c)
                                     /\ sd = Start(d) /\ ed = Finish(d)
    BY IntervalNumbers
  <2>3. ~ (sa >= eb \/ ea <= sb)
    BY <2>1 DEF Intersects
  <2>4. sc <= sa /\ ea <= ec /\ sd <= sb /\ eb <= ed
    BY <2>1, <2>2 DEF Holds
  <2>5. sc < ed /\ sd < ec
    <3>1. sa < eb /\ sb < ea
      BY <2>3
    <3>. QED BY <2>4, <3>1, Stretched
  <2>. QED BY <2>2, <2>5
<1>. QED BY <1>4, <1>5 DEF Intersects

----------------------------------------------------------------------------
(* What the groups are put together from, and what they keep apart, once   *)
(* NothingLost holds of them.                                              *)
Evaluating == phase \in {"locals", "usages", "evaluated"}

AllSeen ==
    \A p \in Interferences(func) :
        Shown(func, p) => Intersects(intervals[p[1]], intervals[p[2]])

AreApart(members) ==
    \A p \in Interferences(func) :
        Shown(func, p) => ~({p[1], p[2]} \subseteq Range(members))

GroupInv ==
    /\ Evaluating => SpansInvariant /\ IntervalsCover /\ groups = <<>>
    /\ ~ Evaluating => AllSeen /\ \A v \in Vals(func) : IsInterval(intervals[v])
    /\ \A k \in DOMAIN groups :
          IsInterval(groups[k].interval) /\ AreApart(groups[k].members)

(* What the groups are made of, when the first are made.                   *)
LEMMA EvaluatedIntervals ==
  ASSUME SpansInvariant, IntervalsCover, Evaluated
  PROVE  AllSeen /\ \A v \in Vals(func) : IsInterval(intervals[v])
<1>1. AllSeen
  BY SeenWhenEvaluated DEF InterferenceSeen, AllSeen
<1>2. \A v \in Vals(func) : Covers(intervals[v].ranges, SpanSet(v))
  BY DEF IntervalsCover
<1>. QED BY <1>1, <1>2, CoversInterval

(* There are no groups at first.                                           *)
LEMMA GroupInvAtFirst == AllocInit => GroupInv
<1> SUFFICES ASSUME AllocInit PROVE GroupInv
  OBVIOUS
<1>1. Init /\ groups = <<>> /\ phase = "locals"
  BY DEF AllocInit, JoinsInit, Init
<1>. QED BY <1>1, SpansAtFirst, CoverAtFirst DEF GroupInv, Evaluating

(* Lowering gave no two values that are apart one register.                *)
LEMMA FixedApart ==
  ASSUME AllocInv, GroupInv, FixedGroups
  PROVE  GroupInv'
<1> DEFINE regs == Selected(RegOrder, Range(func.fixed))
           added == [n \in 1 .. Len(regs) |-> NewGroup(FixedIn(regs[n]), regs[n])]
<1>1. /\ groups' = groups \o added /\ func' = func /\ intervals' = intervals
      /\ phase' = "copies" /\ Evaluated
  BY DEF FixedGroups, AddGroups
<1>2. func \in Functions /\ groups = <<>> /\ AllSeen
      /\ \A v \in Vals(func) : IsInterval(intervals[v])
  BY <1>1, EvaluatedIntervals DEF AllocInv, JoiningInv, GroupInv, Evaluating, Evaluated
<1>3. Len(regs) \in Nat /\ \A n \in 1 .. Len(regs) : regs[n] \in Range(func.fixed)
  <2>1. RegOrder \in Seq(Range(RegOrder))
    BY RegOrderAssumption DEF RegOrderAssumption
  <2>2. regs \in Seq(Range(RegOrder) \cap Range(func.fixed))
    BY <2>1, SelectedType
  <2> HIDE DEF regs
  <2>. QED BY <2>2
<1> HIDE DEF regs
<1>4. groups' = added /\ DOMAIN added = 1 .. Len(regs)
  BY <1>1, <1>2, <1>3
<1>5. ASSUME NEW n \in 1 .. Len(regs)
      PROVE  /\ IsInterval(JointInterval(FixedIn(regs[n])))
             /\ AreApart(FixedIn(regs[n]))
  <2> DEFINE has == {v \in DOMAIN func.fixed : func.fixed[v] = regs[n]}
  <2>1. /\ FixedIn(regs[n]) \in Seq(has) /\ Len(FixedIn(regs[n])) # 0
        /\ FixedIn(regs[n]) \in Seq(RegisterValues)
    BY <1>2, <1>3, FixedInType
  <2>2. FixedIn(regs[n]) \in Seq(Vals(func))
    BY <2>1, SeqWithin DEF RegisterValues
  <2>3. Range(FixedIn(regs[n])) \subseteq has
    <3> HIDE DEF has
    <3>. QED BY <2>1 DEF Range
  <2>4. AreApart(FixedIn(regs[n]))
    BY <1>2, <2>3, TogetherAssumption DEF TogetherAssumption, AreApart
  <2>5. IsInterval(JointInterval(FixedIn(regs[n])))
    BY <1>2, <2>1, <2>2, JointIsInterval
  <2>. QED BY <2>4, <2>5
<1>6. \A n \in 1 .. Len(regs) : /\ added[n].interval = JointInterval(FixedIn(regs[n]))
                               /\ added[n].members = FixedIn(regs[n])
  BY DEF NewGroup
<1> HIDE DEF added
<1>7. AllSeen' /\ \A v \in Vals(func)' : IsInterval(intervals[v])'
  BY <1>1, <1>2 DEF AllSeen, IsInterval
<1>8. \A k \in DOMAIN groups' : IsInterval(groups'[k].interval) /\ AreApart(groups'[k].members)
  BY <1>4, <1>5, <1>6
<1>. QED BY <1>1, <1>7, <1>8 DEF GroupInv, Evaluating, AreApart, IsInterval

(* Nor does a phi destroy what is copied for it.                           *)
LEMMA CopiesApart ==
  ASSUME AllocInv, GroupInv, CopyGroups
  PROVE  GroupInv'
<1> DEFINE code == func.code[pos]
           added == [n \in LeadingCopies(code) |-> CopyGroup(code[n])]
<1>1. /\ groups' = groups \o added /\ func' = func /\ intervals' = intervals
      /\ phase = "copies" /\ phase' = "copies"
  BY DEF CopyGroups, AddGroups
<1>2. func \in Functions /\ pos \in Block(func)
  BY FunctionsAssumption DEF AllocInv, JoiningInv, FunctionsAssumption, CopyGroups
<1>0. AllSeen /\ \A v \in Vals(func) : IsInterval(intervals[v])
  BY <1>1 DEF GroupInv, Evaluating
<1>3. Len(code) \in Nat
  BY <1>2, BlockCode
<1>4. PICK k \in 0 .. Len(code) : LeadingCopies(code) = 1 .. k
  BY <1>3, LeadingFirst
<1>5. ASSUME NEW n \in 1 .. k
      PROVE  IsInterval(CopyGroup(code[n]).interval) /\ AreApart(CopyGroup(code[n]).members)
  <2>1. n \in 1 .. Len(code) /\ code[n].kind = "pcopy"
    <3>1. n \in LeadingCopies(code) /\ n \in 1 .. n
      BY <1>4
    <3>. QED BY <3>1 DEF LeadingCopies
  <2> DEFINE inst == code[n]
             phi == CHOOSE v \in inst.outs : TRUE
             members == Append(Selected(inst.ins, func.copies), phi)
  <2>2. inst = Inst(func, <<pos, n>>) /\ <<pos, n>> \in Instructions(func)
        /\ inst.ins \in Seq(Vals(func)) /\ inst.outs \subseteq Vals(func)
    BY <1>2, <2>1, BlockCode DEF Inst
  <2>3. inst.outs # {} /\ phi \in inst.outs
    BY <1>2, <2>1, <2>2, LoweredAssumption DEF LoweredAssumption
  <2>4. CopyGroup(inst).interval = JointInterval(members) /\ CopyGroup(inst).members = members
    BY DEF CopyGroup, NewGroup
  <2>5. inst.ins \in Seq(Reads(inst)) /\ Reads(inst) \subseteq Vals(func)
    <3> HIDE DEF inst
    <3>. QED BY <2>2 DEF Reads, Range
  <2> DEFINE both == Reads(inst) \cup inst.outs
             picked == Selected(inst.ins, func.copies)
  <2>6. picked \in Seq(Reads(inst) \cap func.copies)
    BY <2>5, SelectedType
  <2> HIDE DEF inst, phi, picked
  <2>7. picked \in Seq(both) /\ phi \in both
    BY <2>3, <2>6, SeqWithin
  <2>8. members \in Seq(both) /\ Len(members) # 0
    <3> HIDE DEF both
    <3>1. members = Append(picked, phi)
      BY DEF picked
    <3>. QED BY <2>7, <3>1
  <2> HIDE DEF members
  <2>9. Range(members) \subseteq both /\ members \in Seq(Vals(func))
    <3>1. both \subseteq Vals(func)
      BY <2>2, <2>5
    <3>2. Range(members) \subseteq both
      <4> HIDE DEF both
      <4>. QED BY <2>8 DEF Range
    <3>. QED BY <2>8, <3>1, <3>2, SeqWithin
  <2>10. AreApart(members)
    <3>1. code[n] = inst
      BY DEF inst
    <3> SUFFICES ASSUME NEW p \in Interferences(func), Shown(func, p),
                        {p[1], p[2]} \subseteq Range(members)
                 PROVE  FALSE
      BY DEF AreApart
    <3>2. ~({p[1], p[2]} \subseteq both)
      BY <1>2, <2>1, <2>2, <3>1, TogetherAssumption DEF TogetherAssumption
    <3>. QED BY <2>9, <3>2
  <2>11. IsInterval(JointInterval(members))
    BY <1>0, <2>8, <2>9, JointIsInterval
  <2>. QED BY <2>4, <2>10, <2>11 DEF inst
<1>6. PICK I : groups \in Seq(GroupsFrom(I))
  BY DEF AllocInv, JoiningInv, GroupsTyped
<1>7. \A j \in DOMAIN groups' :
          IsInterval(groups'[j].interval) /\ AreApart(groups'[j].members)
  <2>1. PICK l \in Nat : l = Len(groups) /\ DOMAIN groups = 1 .. l
    BY <1>6
  <2>2. added = [n \in 1 .. k |-> CopyGroup(code[n])]
    BY <1>4
  <2> HIDE DEF code
  <2>3. k \in Nat /\ Len(added) = k /\ \A n \in 1 .. k : added[n] = CopyGroup(code[n])
    BY <1>3, <1>4, <2>2
  <2>4. added \in Seq({CopyGroup(code[n]) : n \in 1 .. k})
    BY <2>2, <2>3
  <2> HIDE DEF added
  <2> DEFINE A == GroupsFrom(I) \cup {CopyGroup(code[n]) : n \in 1 .. k}
  <2>5. groups \in Seq(A) /\ added \in Seq(A)
    BY <1>6, <2>4, SeqWithin
  <2> HIDE DEF A
  <2>6. /\ groups \o added \in Seq(A) /\ Len(groups \o added) = l + k
        /\ \A j \in 1 .. l + k : (groups \o added)[j] = IF j <= l THEN groups[j] ELSE added[j - l]
    BY <2>1, <2>3, <2>5, Concatenated
  <2>7. DOMAIN groups' = 1 .. l + k
    BY <1>1, <2>6
  <2>8. TAKE j \in DOMAIN groups'
  <2>9. CASE j <= l
    <3>1. j \in DOMAIN groups /\ groups'[j] = groups[j]
      BY <1>1, <2>1, <2>6, <2>7, <2>9
    <3>. QED BY <3>1 DEF GroupInv
  <2>10. CASE ~ (j <= l)
    <3>1. j - l \in 1 .. k /\ groups'[j] = added[j - l]
      BY <1>1, <2>1, <2>3, <2>6, <2>7, <2>10
    <3>2. groups'[j] = CopyGroup(code[j - l])
      BY <2>3, <3>1
    <3>. QED BY <1>5, <3>1, <3>2
  <2>. QED BY <2>9, <2>10
<1>8. AllSeen' /\ \A v \in Vals(func)' : IsInterval(intervals[v])'
  BY <1>0, <1>1 DEF AllSeen, IsInterval
<1>. QED BY <1>1, <1>7, <1>8 DEF GroupInv, Evaluating, AreApart, IsInterval

(* A value that meets no range of a group overwrites no member of it, and  *)
(* none overwrites it, as long as the group has kept all their ranges.     *)
LEMMA JoiningApart ==
  ASSUME AllocInv, GroupInv, NothingLost, JoinValue
  PROVE  GroupInv'
<1> DEFINE v == Last(worklist)
<1>1. /\ func' = func /\ intervals' = intervals /\ phase = "join" /\ phase' = "join"
      /\ worklist # <<>>
  BY DEF JoinValue
<1>2. /\ func \in Functions /\ v \in Vals(func)
      /\ AllSeen /\ \A w \in Vals(func) : IsInterval(intervals[w])
  <2>1. func \in Functions /\ worklist \in Seq(RegisterValues)
    BY DEF AllocInv, JoiningInv
  <2>2. v \in RegisterValues
    BY <1>1, <2>1 DEF Last
  <2>. QED BY <1>1, <2>1, <2>2 DEF GroupInv, Evaluating, RegisterValues
<1>3. AllSeen' /\ \A w \in Vals(func)' : IsInterval(intervals[w])'
  BY <1>1, <1>2 DEF AllSeen, IsInterval
<1> HIDE DEF v
<1>4. CASE Hosts(v) = {}
  <2>1. groups' = groups
    BY <1>4 DEF JoinValue, v
  <2>. QED BY <1>1, <1>3, <2>1 DEF GroupInv, Evaluating, AreApart, IsInterval
<1>5. CASE Hosts(v) # {}
  <2> DEFINE k == CHOOSE j \in Hosts(v) : \A i \in Hosts(v) : j <= i
  <2>1. groups' = [groups EXCEPT ![k].members = Append(@, v),
                                 ![k].interval = MergeWith(@, intervals[v])]
    BY <1>5 DEF JoinValue, v
  <2>2. PICK I : groups \in Seq(GroupsFrom(I))
    BY DEF AllocInv, JoiningInv, GroupsTyped
  <2>3. k \in Hosts(v) /\ k \in DOMAIN groups
    <3>1. Hosts(v) \subseteq DOMAIN groups /\ Hosts(v) \in SUBSET Nat
      BY <2>2 DEF Hosts
    <3>2. \E j \in Hosts(v) : \A i \in Hosts(v) : j <= i
      BY <1>5, <3>1, LeastNat
    <3>. QED BY <3>1, <3>2
  <2>4. Follows(intervals[v], groups[k].interval)
    BY <2>3 DEF Hosts
  <2> HIDE DEF k
  <2> DEFINE host == groups[k]
  <2>5. host \in GroupsFrom(I) /\ IsInterval(host.interval) /\ AreApart(host.members)
    BY <2>2, <2>3 DEF GroupInv
  <2>6. /\ groups'[k].interval = MergeWith(host.interval, intervals[v])
        /\ groups'[k].members = Append(host.members, v)
        /\ \A j \in DOMAIN groups : j # k => groups'[j] = groups[j]
        /\ DOMAIN groups' = DOMAIN groups
    BY <2>1, <2>3, <2>5 DEF GroupsFrom
  <2>7. IsInterval(MergeWith(host.interval, intervals[v]))
    BY <1>2, <2>5, MergedInterval
  <2>8. Range(Append(host.members, v)) = Range(host.members) \cup {v}
    BY <2>5, AppendRange DEF GroupsFrom
  <2>9. Range(host.members) \subseteq Vals(func)
    <3>1. host.members \in Seq(RegisterValues)
      BY <2>5 DEF GroupsFrom
    <3>. QED BY <3>1 DEF RegisterValues, Range
  <2>10. ASSUME NEW w \in Range(host.members) PROVE Holds(host.interval, intervals[w])
    BY <2>3 DEF NothingLost
  <2>11. ASSUME NEW w \in Range(host.members)
         PROVE  ~ Intersects(intervals[v], intervals[w]) /\ ~ Intersects(intervals[w], intervals[v])
    <3>1. w \in Vals(func) /\ Holds(host.interval, intervals[w])
      BY <2>9, <2>10
    <3>2. IsInterval(intervals[v]) /\ IsInterval(intervals[w])
      BY <1>2, <3>1
    <3>3. Holds(intervals[v], intervals[v])
      BY <3>2, HoldsItself
    <3>4. ~ Intersects(intervals[v], host.interval)
      BY <2>4 DEF Follows
    <3>5. ~ Intersects(intervals[v], intervals[w])
      BY <2>5, <3>1, <3>2, <3>3, <3>4, HoldersMeet
    <3>. QED BY <3>2, <3>5, IntersectsSymmetric
  <2>12. AreApart(Append(host.members, v))
    <3> SUFFICES ASSUME NEW p \in Interferences(func), Shown(func, p),
                        {p[1], p[2]} \subseteq Range(host.members) \cup {v}
                 PROVE  FALSE
      BY <2>8 DEF AreApart
    <3>1. p[1] # p[2] /\ Intersects(intervals[p[1]], intervals[p[2]])
      BY <1>2, InterferencesOfValues DEF AllSeen
    <3>2. CASE p[1] = v
      <4>1. p[2] \in Range(host.members)
        BY <3>1, <3>2
      <4>. QED BY <2>11, <3>1, <3>2, <4>1
    <3>3. CASE p[2] = v
      <4>1. p[1] \in Range(host.members)
        BY <3>1, <3>3
      <4>. QED BY <2>11, <3>1, <3>3, <4>1
    <3>4. CASE p[1] # v /\ p[2] # v
      BY <2>5, <3>4 DEF AreApart
    <3>. QED BY <3>2, <3>3, <3>4
  <2> HIDE DEF host
  <2>13. ASSUME NEW j \in DOMAIN groups'
         PROVE  IsInterval(groups'[j].interval) /\ AreApart(groups'[j].members)
    <3>1. CASE j = k
      BY <2>6, <2>7, <2>12, <3>1
    <3>2. CASE j # k
      BY <2>6, <3>2 DEF GroupInv
    <3>. QED BY <3>1, <3>2
  <2>. QED BY <1>1, <1>3, <2>13 DEF GroupInv, Evaluating, AreApart, IsInterval
<1>. QED BY <1>4, <1>5

(* No step of the allocator breaks it.                                     *)
LEMMA GroupInvStays ==
  AllocInv /\ GroupInv /\ NothingLost /\ [AllocNext]_avarsAll => GroupInv'
<1> SUFFICES ASSUME AllocInv, GroupInv, NothingLost, [AllocNext]_avarsAll PROVE GroupInv'
  OBVIOUS
<1>0. ASSUME func' = func, intervals' = intervals, groups' = groups,
             ~ Evaluating, ~ Evaluating'
      PROVE  GroupInv'
  <2>1. AllSeen' /\ \A v \in Vals(func)' : IsInterval(intervals[v])'
    BY <1>0 DEF GroupInv, AllSeen, IsInterval
  <2>. QED BY <1>0, <2>1 DEF GroupInv, AreApart, IsInterval
<1>1. CASE IntervalsNext /\ UNCHANGED jvars
  <2>1. Evaluating /\ Evaluating'
    BY <1>1 DEF IntervalsNext, SetupLocals, StartUsages, EvalUsages, Result, Evaluating
  <2>2. SpansInvariant' /\ IntervalsCover'
    BY <1>1, <2>1, SpansStay, CoverStays DEF GroupInv
  <2>3. groups = <<>> /\ groups' = groups
    BY <1>1, <2>1 DEF GroupInv, jvars
  <2>. QED BY <2>1, <2>2, <2>3 DEF GroupInv
<1>2. CASE FixedGroups
  BY <1>2, FixedApart
<1>3. CASE CopyGroups
  BY <1>3, CopiesApart
<1>4. CASE StartJoining
  BY <1>0, <1>4 DEF StartJoining, Evaluating
<1>5. CASE PickValue
  BY <1>0, <1>5 DEF PickValue, Evaluating
<1>6. CASE JoinValue
  BY <1>6, JoiningApart
<1>7. CASE SetupScan \/ Allocate \/ OutOfRegisters \/ CompleteScan
  BY <1>0, <1>7 DEF SetupScan, Joined, Allocate, OutOfRegisters, CompleteScan, jvars, Evaluating
<1>8. CASE UNCHANGED avarsAll
  <2>1. UNCHANGED ivars /\ groups' = groups /\ func' = func /\ intervals' = intervals
        /\ phase' = phase
    BY <1>8 DEF avarsAll, ivars, jvars
  <2>2. CASE Evaluating
    <3>1. SpansInvariant' /\ IntervalsCover'
      BY <2>1, <2>2, SpansStay, CoverStays DEF GroupInv
    <3>. QED BY <2>1, <2>2, <3>1 DEF GroupInv, Evaluating
  <2>3. CASE ~ Evaluating
    BY <1>0, <2>1, <2>3 DEF Evaluating
  <2>. QED BY <2>2, <2>3
<1>. QED BY <1>1, <1>2, <1>3, <1>4, <1>5, <1>6, <1>7, <1>8 DEF AllocNext, JoinsNext

(* It holds as long as no group loses a range.                             *)
LEMMA GroupInvAlways == AllocSpec /\ []NothingLost => []GroupInv
<1>. QED BY GroupInvAtFirst, GroupInvStays, AllocationInvariant, PTL DEF AllocSpec

(* For every set of functions, values put together by lowering, by a phi   *)
(* or by do_joining() are never needed at once - unless merge_with() lost a*)
(* range, as MCLostRange shows it may.                                     *)
THEOREM GroupsAreCompatible == AllocSpec /\ []NothingLost => []MembersCompatible
<1>1. GroupInv => MembersCompatible
  BY DEF GroupInv, AreApart, MembersCompatible
<1>. QED BY <1>1, GroupInvAlways, PTL

(* Under the same condition a group meets whatever must not share its      *)
(* register with one of its members: asking the group's interval instead of*)
(* the value's loses nothing.                                              *)
THEOREM GroupsMeetInterference == AllocSpec /\ []NothingLost => []GroupsSeeInterference
<1>1. AllocInv /\ GroupInv /\ NothingLost => GroupsSeeInterference
  <2> SUFFICES ASSUME AllocInv, GroupInv, NothingLost, Joined,
                      NEW p \in Interferences(func), Shown(func, p)
               PROVE  Intersects(RealInterval(p[1]), RealInterval(p[2]))
    BY DEF GroupsSeeInterference
  <2>1. /\ func \in Functions /\ AllSeen /\ \A v \in Vals(func) : IsInterval(intervals[v])
        /\ \A k \in DOMAIN groups : IsInterval(groups[k].interval)
    BY DEF AllocInv, JoiningInv, GroupInv, Evaluating, Joined
  <2>2. ASSUME NEW v \in Vals(func)
        PROVE  IsInterval(RealInterval(v)) /\ Holds(RealInterval(v), intervals[v])
    <3>1. CASE v \in DOMAIN mapping
      <4>1. mapping[v] \in DOMAIN groups /\ v \in Range(groups[mapping[v]].members)
        BY <3>1 DEF AllocInv, JoiningInv, GroupsTyped, MappingInv
      <4>2. Holds(groups[mapping[v]].interval, intervals[v])
        BY <4>1 DEF NothingLost
      <4>. QED BY <2>1, <3>1, <4>1, <4>2 DEF RealInterval
    <3>2. CASE v \notin DOMAIN mapping
      BY <2>1, <3>2, HoldsItself DEF RealInterval
    <3>. QED BY <3>1, <3>2
  <2>3. PICK v, w \in Vals(func) : v = p[1] /\ w = p[2]
    BY <2>1, InterferencesOfValues
  <2>4. Intersects(intervals[v], intervals[w])
    BY <2>1, <2>3 DEF AllSeen
  <2>5. Intersects(RealInterval(v), RealInterval(w))
    BY <2>1, <2>2, <2>4, HoldersMeet
  <2>. QED BY <2>3, <2>5
<1>. QED BY <1>1, GroupInvAlways, AllocationInvariant, PTL
=============================================================================
