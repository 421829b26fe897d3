---------------------------- MODULE MCStackFrame ----------------------------
(* Small functions: a few accesses and calls, and a way out in the middle. *)
EXTENDS StackFrame

C(class, n) == [class |-> class, n |-> n]
O(kind, x, live, jmp) == [kind |-> kind, x |-> x, live |-> live, jmp |-> jmp]

Plain(kind) == O(kind, C("gp", 0), 0, 0)
On(kind, class, n) == O(kind, C(class, n), 0, 0)

CallWith(live, args) ==
    <<O("PREPARE", C("gp", 0), live, 0)>> \o [k \in DOMAIN args |-> Plain(args[k])]
      \o <<Plain("CALL")>>

(* A way out after what s does: the branch leads past the return. *)
Way(s, out) ==
    IF out = "OTHER" THEN <<>>
    ELSE <<O("BRANCH", C("gp", 0), 0, Len(s) + 4), Plain(out)>>

Body(s, out, t, ret) ==
    <<Plain("PROLOG")>> \o s \o Way(s, out) \o t \o <<Plain(ret)>>

F(gp, fp, params, allocas, saved, body) ==
    [gp |-> gp, fp |-> fp, params |-> params, allocas |-> allocas,
     saved |-> saved, body |-> body]

Simple == F(1, 0, <<>>, <<>>, 0, Body(<<>>, "OTHER", <<>>, "RET"))

-----------------------------------------------------------------------------
(* Calls with arguments in registers and on the stack, in functions with   *)
(* and without a frame, an argument read before and after them.            *)
P == "PUTARG"
FP == "FPUTARG"

Calls ==
    {CallWith(live, args) : live \in 0 .. 2,
       args \in {<<>>, <<P, P>>, <<P, P, FP, P>>, <<FP, P, FP, P, P>>}}

GetLast(params) == <<On("GETARG", "arg", Len(params) - 1)>>

CallUnits ==
    {<<F(gp, 0, params, allocas, saved, Body(call, out, GetLast(params) \o again, ret))>> :
       gp \in 1 .. 2, params \in {<<"gp", "gp">>, <<"fp", "gp", "gp", "fp">>},
       allocas \in {<<>>, <<8>>}, saved \in 0 .. 3, call \in Calls,
       again \in {<<>>, CallWith(1, <<P, P>>)}, out \in {"OTHER", "RET"},
       ret \in {"RET", "FRET"}}

(* Registers and blocks of memory: everything stored, a call, everything   *)
(* read back, in a unit of one or two functions.                           *)
Store(regs, fregs, blocks) ==
    [k \in 1 .. regs |-> On("UREG", "gp", k - 1)]
    \o [k \in 1 .. fregs |-> On("UREG", "fp", k - 1)]
    \o [k \in 1 .. blocks |-> On("ST", "mem", k)]

Read(regs, fregs, blocks) ==
    [k \in 1 .. regs |-> On("LREG", "gp", k - 1)]
    \o [k \in 1 .. fregs |-> On("LREG", "fp", k - 1)]
    \o [k \in 1 .. blocks |-> On("LD", "mem", k)]

SlotUnits ==
    {u \o <<F(gp, fp, <<"gp">>, allocas, saved,
              Body(Store(gp, fp, Len(allocas)), "OTHER",
                   CallWith(1, <<P, P>>) \o Read(gp, fp, Len(allocas)), "RET"))>> :
       u \in {<<>>, <<Simple>>}, gp \in 0 .. 3, fp \in 0 .. 2,
       allocas \in {<<>>, <<8>>, <<24, 16>>}, saved \in 0 .. 1}

(* Arguments kept in memory beside the last general register. *)
ArgSlotUnits ==
    {u \o <<F(gp, 0, <<"gp", "fp">>, allocas, 1,
              Body(<<On("UREG", "gp", gp - 1), On("UREG", "arg", 0), On("UREG", "arg", 1)>>, out,
                   CallWith(1, <<P, P>>) \o <<On("GETARG", "arg", 0), On("LREG", "arg", 1),
                                              On("LREG", "gp", gp - 1)>>, "RET"))>> :
       u \in {<<>>, <<Simple>>}, gp \in {1, 3}, allocas \in {<<>>, <<8>>},
       out \in {"OTHER", "RET"}}

FrameUnits == CallUnits \cup SlotUnits \cup ArgSlotUnits

-----------------------------------------------------------------------------
(* A return of a floating-point number before the last call. *)
ReturnUnits ==
    {<<F(2, 1, <<"gp">>, <<>>, saved,
         Body(<<>>, "FRET", CallWith(0, <<P>>), "RET"))>> : saved \in 0 .. 2}

(* An argument and the last register in memory at the same time. *)
ArgUnits ==
    {<<F(gp, 0, <<"gp">>, <<>>, 0,
         Body(<<On("UREG", "gp", gp - 1), On("UREG", "arg", 0)>>, "OTHER",
              <<On("GETARG", "arg", 0), On("LREG", "gp", gp - 1)>>, "RET"))>> :
       gp \in 1 .. 2}
=============================================================================
