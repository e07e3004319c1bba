------------------------------- MODULE Joins -------------------------------
(***************************************************************************)
(* LiveIntervalsJoinEval: values that will share one register are put in   *)
(* groups with a common interval.  First the values lowering gave the same *)
(* register, then every parallel copy with its inputs, then any value      *)
(* whose interval borders a group without meeting it.                      *)
(* Blocks are created in the order of their numbers.                       *)
(***************************************************************************)
EXTENDS Intervals

CONSTANT RegOrder   \* the registers in the order of their indices

RegOrderAssumption == RegOrder \in Seq(Range(RegOrder))
ASSUME RegOrderAssumption

(* What lowering puts in one register, by name or as a phi and what it is  *)
(* copied from, is not overwritten there while it is held: the lowered     *)
(* code is wrong otherwise, in whatever registers (ArgumentOverwritten and *)
(* PhiOverwritten of LoweredCode).                                         *)
TogetherAssumption ==
    \A f \in Functions : \A p \in Interferences(f) :
        Shown(f, p) =>
            /\ {p[1], p[2]} \subseteq DOMAIN f.fixed => f.fixed[p[1]] # f.fixed[p[2]]
            /\ \A at \in Instructions(f) :
                   Inst(f, at).kind = "pcopy" =>
                       ~({p[1], p[2]} \subseteq Reads(Inst(f, at)) \cup Inst(f, at).outs)
ASSUME TogetherAssumption

VARIABLES
    groups,     \* m_groups: sequence of [interval, members, fixed]
    mapping,    \* m_group_mapping: value -> index of its group
    pending,    \* the keys do_joining() has not visited yet
    worklist

jvars == <<groups, mapping, pending, worklist>>

NoRegister == "none"

(* The values that have a register before allocation, in the order         *)
(* collect_fixed_regs() meets them: the argument, then block after block.  *)
FixedIn(r) ==
    LET has == {v \in DOMAIN func.fixed : func.fixed[v] = r}
        From(code) == FlattenSeq([n \in 1 .. Len(code) |-> SetToSeq(code[n].outs \cap has)])
    IN  SetToSeq(func.args \cap has)
        \o FlattenSeq([b \in 1 .. Len(func.order) |-> From(func.code[b])])

(* create_live_intervals(): the ranges of the values in one interval.      *)
JointInterval(values) ==
    NewInterval(FlattenSeq([n \in 1 .. Len(values) |-> intervals[values[n]].ranges]),
                IF \A v \in Range(values) : intervals[v].hint = "CALL_LIVE_OUT"
                THEN "CALL_LIVE_OUT" ELSE "NOTHING")

NewGroup(values, r) ==
    [interval |-> JointInterval(values), members |-> values, fixed |-> r]

(* m_group_mapping.emplace(): the first group a value is put in counts.    *)
Mapped(map, all) ==
    Extended(map, [v \in UNION {Range(all[k].members) : k \in DOMAIN all} |->
                     CHOOSE k \in DOMAIN all :
                         /\ v \in Range(all[k].members)
                         /\ \A j \in 1 .. (k - 1) : v \notin Range(all[j].members)])

AddGroups(added) ==
    /\ groups' = groups \o added
    /\ mapping' = Mapped(mapping, groups')

JoinsInit ==
    /\ Init
    /\ groups = <<>> /\ mapping = <<>> /\ pending = {} /\ worklist = <<>>

(* collect_fixed_regs() and setup_fixed_reg_groups().                      *)
FixedGroups ==
    /\ Evaluated
    /\ LET regs == Selected(RegOrder, Range(func.fixed))
       IN  AddGroups([n \in 1 .. Len(regs) |-> NewGroup(FixedIn(regs[n]), regs[n])])
    /\ phase' = "copies" /\ pos' = 1
    /\ UNCHANGED <<func, inst_number, spans, call_live_out, intervals, pending, worklist>>

(* The parallel copies at the start of a block.                            *)
LeadingCopies(code) ==
    {n \in 1 .. Len(code) : \A m \in 1 .. n : code[m].kind = "pcopy"}

FixedRegister(v) == IF v \in DOMAIN func.fixed THEN func.fixed[v] ELSE NoRegister

CopyGroup(inst) ==
    LET phi == CHOOSE v \in inst.outs : TRUE
    IN  NewGroup(Append(Selected(inst.ins, func.copies), phi),
                 FixedRegister(phi))

(* setup_parallel_copy_groups(): the next block.                           *)
CopyGroups ==
    /\ phase = "copies" /\ pos <= Len(func.order)
    /\ AddGroups([n \in LeadingCopies(func.code[pos]) |-> CopyGroup(func.code[pos][n])])
    /\ pos' = pos + 1
    /\ UNCHANGED <<func, phase, inst_number, spans, call_live_out, intervals, pending, worklist>>

StartJoining ==
    /\ phase = "copies" /\ pos > Len(func.order)
    /\ phase' = "join" /\ pending' = Vals(func)
    /\ UNCHANGED <<func, pos, inst_number, spans, call_live_out, intervals, groups, mapping, worklist>>

(* What do_joining() passes over: stack slots and values in a group.       *)
Skipped == DOMAIN func.gens \cup DOMAIN mapping

(* do_joining(): the next key of the hash map, in an order nobody chose.   *)
PickValue ==
    /\ phase = "join" /\ worklist = <<>>
    /\ \E v \in pending \ Skipped :
         /\ pending' = pending \ {v}
         /\ worklist' = <<v>>
    /\ UNCHANGED <<func, phase, pos, inst_number, spans, call_live_out, intervals, groups, mapping>>

(* The groups a value may join.                                            *)
Hosts(v) == {k \in DOMAIN groups : Follows(intervals[v], groups[k].interval)}

(* add_to_worklist_if_not_in_group(), for the instruction that defines v;  *)
(* an argument has none.                                                   *)
InputsToJoin(v, map) ==
    IF v \in func.args THEN <<>>
    ELSE Selected(Inst(func, DefinitionOf(func, v)).ins,
                  Vals(func) \ (DOMAIN func.gens \cup DOMAIN map))

(* do_joining(): the value at the back of the worklist joins the first     *)
(* group that will have it.                                                *)
JoinValue ==
    /\ phase = "join" /\ worklist # <<>>
    /\ LET v == Last(worklist) IN
         IF Hosts(v) = {}
         THEN /\ worklist' = Front(worklist)
              /\ UNCHANGED <<groups, mapping>>
         ELSE LET k == CHOOSE j \in Hosts(v) : \A i \in Hosts(v) : j <= i
                  map == Extended(mapping, [w \in {v} |-> k])
              IN  /\ groups' = [groups EXCEPT
                                  ![k].members = Append(@, v),
                                  ![k].interval = MergeWith(@, intervals[v])]
                  /\ mapping' = map
                  /\ worklist' = Front(worklist) \o InputsToJoin(v, map)
    /\ UNCHANGED <<func, phase, pos, inst_number, spans, call_live_out, intervals, pending>>

Joined == phase = "join" /\ pending \subseteq Skipped /\ worklist = <<>>

JoinsNext ==
    \/ (IntervalsNext /\ UNCHANGED jvars)
    \/ FixedGroups \/ CopyGroups \/ StartJoining \/ PickValue \/ JoinValue

JoinsSpec == JoinsInit /\ [][JoinsNext]_<<ivars, jvars>>

----------------------------------------------------------------------------
(* Every range of a member is within a range of its group, which starts    *)
(* and finishes where it must.                                             *)
Holds(iv, other) ==
    /\ \A j \in DOMAIN other.ranges : \E k \in DOMAIN iv.ranges :
           /\ iv.ranges[k].start <= other.ranges[j].start
           /\ other.ranges[j].end <= iv.ranges[k].end
    /\ Start(iv) <= Start(other) /\ Finish(other) <= Finish(iv)

(* merge_with() and create() merge ranges and lose none of them, in        *)
(* whatever order the members of a group come together.                    *)
NothingLost ==
    \A k \in DOMAIN groups : \A v \in Range(groups[k].members) :
        Holds(groups[k].interval, intervals[v])

(* Values given the same register by lowering are never needed at the same *)
(* time, and a value that joins a group respects all its members.          *)
MembersCompatible ==
    Joined =>
        \A p \in Interferences(func) : \A k \in DOMAIN groups :
            Shown(func, p) => ~({p[1], p[2]} \subseteq Range(groups[k].members))

(* The interval that stands for a value once it is grouped.                *)
RealInterval(v) == IF v \in DOMAIN mapping THEN groups[mapping[v]].interval
                   ELSE intervals[v]

(* A group holds its register wherever a member needs it: whatever must    *)
(* not share a member's register meets the group.                          *)
GroupsSeeInterference ==
    Joined =>
        \A p \in Interferences(func) :
            \/ ~Shown(func, p)
            \/ p[1] \in DOMAIN mapping /\ p[2] \in DOMAIN mapping
               /\ mapping[p[1]] = mapping[p[2]]
            \/ Intersects(RealInterval(p[1]), RealInterval(p[2]))
=============================================================================
