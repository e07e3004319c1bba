---------------------------- MODULE MCWitnesses ----------------------------
(* Functions on which the allocator does not do what is said of it.        *)
EXTENDS LinearScan

S == INSTANCE LIRShapes

StolenRegister == {S!TwoVoidCalls}

ReturnedEarly == {S!EarlyArgument}

LostRange == {S!TwoCallsOfValue}

MCGpPool == <<"rax", "rcx", "rdx", "rbx", "rsi", "rdi">>
MCXmmPool == <<"xmm0">>
MCCallerSaved == {"rax", "rcx", "rdx", "rsi", "rdi", "xmm0"}
MCCalleeSaved == {"rbx"}
MCRegOrder == <<"rax", "rcx", "rdx", "rbx", "rsi", "rdi", "xmm0">>
=============================================================================
