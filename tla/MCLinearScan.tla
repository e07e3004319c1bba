---------------------------- MODULE MCLinearScan ----------------------------
(* Intervals and groups of two values over branches and loops, with and    *)
(* without a call, of phis beside another value, and of copies for phis    *)
(* that begin a block.                                                     *)
(* The scan goes on with two values over a branch or a loop that a call    *)
(* may split, or beside phis, and with three values and two stack slots    *)
(* over a branch, which may be too many: there are three caller-saved      *)
(* registers, two of which calls use, and two callee-saved ones.           *)
EXTENDS LinearScan

S == INSTANCE LIRShapes

Scanned ==
    S!TwoValueFunctions({S!Diamond, S!CallInLoop}, {0})
    \cup S!PhiFunctions({S!Diamond, S!DoLoop})
    \cup S!ThreeValueFunctions(S!Diamond, {1, 8})

MCFunctions ==
    Scanned
    \cup S!TwoValueFunctions({S!Diamond, S!Skewed, S!DoLoop, S!Irreducible, S!CallInLoop}, 0 .. 5)
    \cup {S!CopiesBegin("i", "j"), S!CopiesBegin("j", "i")}

(* The other functions end with their groups: the scan may hand out a      *)
(* register in use there (MCStolenRegister).                               *)
ScannedOnly == phase \in {"scan", "done", "died"} => func \in Scanned

MCGpPool == <<"rax", "rcx", "rbx", "rdi", "r12">>
MCXmmPool == <<"xmm0">>
MCCallerSaved == {"rax", "rcx", "rdi", "xmm0"}
MCCalleeSaved == {"rbx", "r12"}
MCRegOrder == <<"rax", "rcx", "rbx", "rdi", "r12", "xmm0">>
=============================================================================
