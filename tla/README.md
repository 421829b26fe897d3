# Verification of MyJIT

MyJIT is a C library that generates machine code at run time. A program builds a
list of operations on virtual registers (`jit_addr`, `jit_call`, ...), calls
`jit_generate_code` once, and then runs the machine code. This directory holds
TLA+ models of the passes of `jit_generate_code`, of the list, the buffer and the
trees they work on, of the back ends for AMD64, i386, SPARC and ARM32 down to
instruction words, and of the code they produce; TLC configurations that check them
on families of small programs; and TLAPS proofs of facts that hold for every program.

Paths below are relative to the repository's `myjit/` directory unless they say
otherwise; operation lists are modelled as sequences, and an operation as its
position in the list.

## 1. The system

### 1.1 What one call of `jit_generate_code` does

The program is sequential: no threads, no callbacks, no I/O while compiling. What
makes it hard is order. More than a dozen passes walk one shared list; most of
them read what an earlier one computed (liveness sets, register maps, counts,
positions), some change what an earlier one relied on, and the result is run along
control-flow paths that no pass walks. The main line is:

    jit_generate_code (jitlib-core.c)
      jit_expand_patches_and_labels     LABEL, PATCH       -> CodeBuffer
      jit_correct_long_imms             immediates         -> Rewrites
      jit_correct_float_imms                               -> Backend
      jit_prepare_reg_counts            func_info          -> StackFrame
      jit_prepare_arguments             layout of arguments-> StackFrame
      jit_prepare_spills_on_jmpr_targets  FULL_SPILL       -> CodeBuffer
      jit_dead_code_analysis            in_use, deletion   -> DeadCode
      jit_flw_analysis                  live_in, live_out  -> FlowAnalysis
      jit_optimize_unused_assignments, _st_ops, _join_addmul, _join_addimm
                                        code, arg          -> Rewrites
      jit_flw_analysis                  again, if a join changed something
      jit_collect_statistics, jit_assign_regs
                                        regmap, moves      -> RegAlloc
      jit_optimize_frame_ptr            has_prolog         -> StackFrame
      the emitter (jit_gen_op)          instructions, push_count
                                                           -> StackFrame, Emitter,
                                                              CodeBuffer,
                                                              SparcEmitter, ArmEmitter
        the encoders (*-codegen.h)      bytes, words       -> X86Code, Amd64Code,
                                                              SparcEmitter, ArmCode
      external calls, copy to executable memory, addresses patched
                                                           -> CodeBuffer, Backend
    the generated code runs                                -> AllocatedCode, StackFrame,
                                                              Emitter, Backend
    jit_dump_ops lists it                                  -> SparcListing, ArmListing,
                                                              Udis86

### 1.2 Components, their state, and what makes them correct

| component | state | operations | what must hold | module |
|---|---|---|---|---|
| Liveness analysis (`flow-analysis.h`) | `live_in`, `live_out` of each operation; `changed` | scan for the end of a function, backward sweep, in-place update of one operation | ends; the sets solve the dataflow equations; they are the least such sets; they equal "read before written on some path" | `FlowAnalysis` |
| Dead-code analysis (`flow-analysis.h`) | `in_use`; the C stack of `mark_livecode`; the list | mark from PROLOGs and data references, mark directives, delete | marks are exactly the reachable operations; nothing reachable is deleted; the recursion is bounded | `DeadCode` |
| Register allocator (`reg-allocator.h`, `rmap.h`) | a register map and `r_arg` per operation; inserted moves | place operands of one operation; get-argument, prepare, call, return value, spills; reconcile maps at branches and jumps | one owner per register; operands of one operation do not displace each other; maps agree at both ends of a branch | `RegAlloc` |
| Generated code (`amd64-specific.h`, `common86-specific.h`) | registers, slots, pushed registers | one operation, one move, one branch, one call | every read finds the current value, whichever path led there | `AllocatedCode` |
| Stack frame (`amd64-specific.h`, `common86-specific.h`, `jitlib-core.c`, `x86-common-stuff.c`) | `func_info`, `push_count`, displacements; SP, BP and the words of the stack | count registers, arguments, omit frame pointers; emit and run prolog, accesses, calls, returns | calls are aligned; no two things share a word; saved registers and the return address come back | `StackFrame` |
| Preparation passes (`jitlib-core.c`) | targets, spills, counts | expand labels and patches, count, prepare arguments | labels and patches are in the list; a spill stands before every target of an address | parts of the modules above |
| Peephole optimisations (`x86-common-stuff.c`) and long immediates (`jitlib-core.c`) | opcodes and arguments of operations; live sets that may be stale | correct immediates, drop unused assignments, join stores, products and sums | the list computes, stores and branches as before, mod 2^w | `Operations`, `Rewrites` |
| Operation list, labels, patches (`jitlib-core.h`, `jitlib.h`) | doubly linked list, cached `last_op`, objects of the heap | append, prepend, delete, patch | the links and the cached end agree; an operation refers to no freed one | `Items`, `CodeBuffer` |
| Code buffer and patching (`jitlib-core.c`) | buffer, its size, `patch_addr`s | allocate, grow, emit, align, copy, patch | no operation overruns the spare bytes; the code keeps the promise of `Assembly` however often the buffer moves | `Assembly`, `CodeBuffer` |
| Register sets and maps (`llrb.c`, `set.h`, `rmap.h`) | left-leaning red-black trees | insert, delete, search, equality, union, copy | behaves as a set or map, stays balanced | `Dictionary`, `RegTrees` |
| Library life cycle (`jitlib-core.c`) | `struct jit` | init, add, generate, free | documented order of calls | in `CodeBuffer` |
| Instruction emitters (`common86-specific.h`, `sse2-specific.h`, `x86-specific.h`) | none of their own; the registers, flags and stack of the machine | instructions for one operation; borrow AX, DX, BX, CX and give them back | live registers hold the documented result for every choice of registers; the stack is left as it was | `Machine`, `Emitter` (integer operations) |
| Machine encoders of x86 (`x86-codegen.h`, `amd64-codegen.h`, parts of `sse2-specific.h`) | `jit->ip` | bytes of one instruction; short or long jumps; patches | the bytes are the instruction that was asked for; jumps land | `X86Code`, `Amd64Code`, `Encoding` |
| SPARC and ARM32 back ends (`sparc-*.h`, `arm32-*.h`) | frames, instruction words | emitters, encoders, prologs, calls, patches | the code computes what the instruction set documents and keeps the calling conventions | `Backend` and the modules it instantiates |
| Debugging and disassembly (`sparc-dis.c`, `arm32-dis.c`, `disasm/udis86`) | positions in the code | decode one instruction | the listing shows the instructions that are there | `SparcListing`, `ArmListing`, `Udis86` |
| Code checker (`code-check.c`) | none of its own | report | reads `live_in` and `in_use` | not modelled: reports only |
| CPU detection, utilities | none | preprocessor conditions, `uses_hw_reg` | none | `uses_hw_reg` is the field `saved` of `StackFrame` |
| Tests, demos, documentation | - | - | the intended behaviour | read as reference |

`PROJECT.json` lists the same components with the files of each.

### 1.3 How the components interact

* `jit_dead_code_analysis` runs before the liveness analysis, so live sets range
  over reachable code only. The emitter later reads `in_use` of the operation a
  PATCH belongs to (`common86-specific.h:1042`), which may have been freed (`PatchesItsOwn`).
* The joins decide by live sets computed before the other passes changed the list;
  the analysis runs again only if one of them changed something. `Rewrites` keeps
  the sets as they are at that moment.
* The emitter pushes a borrowed register when the live sets and the register map say
  that it is in use (`jit_reg_in_use`), and reads operands back from where it pushed
  them: `Emitter` runs the instructions it makes of that.
* The allocator trusts `live_in` and `live_out` for every decision to save a
  register or not. What it needs from them is proved of `FlowAnalysis`
  (`Soundness`, `Leastness`), and `RegAlloc` takes them as the path definition,
  which `LiveExact` compares with the computed sets.
* `regmap` is passed along the *list*; the code runs along *jumps*. The two
  adjustment passes are what closes the gap, and `AllocatedCode` walks the jumps.
* `push_count` is counted along the list as well, and used for a correction of SP
  that is executed along jumps. `StackFrame` keeps both.
* `jit->current_func` is a global that a pass before the emitter reads although it
  still names the last function of the unit (see 6.1).
* Operations name each other by pointers (`jmp_addr`, the argument of a PATCH, label
  arguments) that outlive deletions, and name code by offsets and addresses into a
  buffer that moves while it is filled. `CodeBuffer` has both, and a heap that hands
  out again what was freed.
* An emitter asks its encoder for an instruction and relies on nothing but its
  meaning. For x86 the two are joined at that meaning: `Emitter` runs instructions,
  `Encoding` shows that the bytes are those instructions. For SPARC and ARM32
  `Backend` runs the words themselves.

### 1.4 Hard behaviours

There is nothing concurrent, persistent or lossy, so the hazards are of these
kinds, each listed in `PROJECT.json` with its line: sets updated in place while
they are being compared; recursion and fixpoints that must end; state that follows
the list used for code that follows jumps; one register or word wanted by two
things; values valid in a register, a slot, both, or neither; the order of moves
into overlapping registers; parity and off-by-one in the layout of the frame;
operands that share a register with each other or with one an instruction needs for
itself; constants that do not fit where they are moved to; objects freed while
something still points to them; addresses kept while what they point into moves;
rotations and deletions that go wrong for certain shapes of a tree only; prefixes and
bit fields that depend on the number of a register; calling conventions of three
processors.

## 2. Modules

| module | extends | models |
|---|---|---|
| `FlowAnalysis` | - | `jit_flw_analysis`, `analyze_function`, `initialize_code_refs`, `flw_analyze_op` |
| `Iteration` | - | no code: induction over natural numbers, and what it says of definitions that walk a finite list or graph, for the proofs |
| `FlowAnalysisProofs` | `FlowAnalysis`, `Iteration` | 5 theorems |
| `DeadCode` | - | `mark_livecode`, `jit_dead_code_analysis` |
| `DeadCodeProofs` | `DeadCode` | 4 theorems |
| `RegAlloc` | - | `jit_assign_regs`: `assign_regs`, `branch_adjustment`, `jump_adjustment`, `rmap.h` |
| `AllocatedCode` | `RegAlloc` | the code the emitter makes of the allocator's output, executed; the system `SystemSpec` composes both |
| `AllocatedCodeProofs` | `AllocatedCode`, `Iteration` | 5 theorems about the allocator, one of them that the system implements it, the invariant about the inserted moves, and on it 5 theorems about the running code |
| `StackFrame` | - | layout passes, displacements, `push_count`, and the stack of running code |
| `StackFrameProofs` | `StackFrame`, `Iteration` | 5 theorems about the emitter's counters and the words of the stack |
| `Operations` | - | operation codes, operands and liveness of straight-line code; the documented meaning of an operation on words of W bits, as a reference |
| `Rewrites` | `Operations` | `jit_correct_long_imms`, `jit_optimize_unused_assignments`, `jit_optimize_st_ops`, `jit_optimize_join_addmul`, `jit_optimize_join_addimm` |
| `Machine` | `Operations` | x86 instructions for integers (external) |
| `Emitter` | `Rewrites`, `Machine` | `jit_gen_op` for integer operations, the `emit_..._op` functions, and their code executed |
| `EmitterProofs` | `Emitter` | 2 theorems about what the emitted code does to the stack |
| `Items` | - | what a program adds with the macros of `jitlib.h`, and which lists are well formed |
| `Assembly` | `Items` | abstract: the promise `jit_generate_code` makes about the code of such a list |
| `CodeBuffer` | `Items`, instance of `Assembly` | the list as linked heap objects, its passes, the buffer, the final patches |
| `CodeBufferProofs` | `CodeBuffer`, `Iteration` | 5 theorems about the list, the buffer and the patches |
| `LayoutProofs` | `CodeBufferProofs` | 3 theorems about the code in the buffer, the last that it keeps the promise of `Assembly` |
| `Dictionary` | - | abstract: finite maps that do not affect each other |
| `RegTrees` | instance of `Dictionary` | `llrb.c` |
| `RiscMeaning` | `Operations` | the documented meaning of memory, floating-point, call and argument operations; numbers in one or two words; 32-bit words made of fields |
| `SparcEmitter` | `RiscMeaning` | `sparc-codegen.h`: words of instructions, and `sparc-specific.h` |
| `ArmCode` | `RiscMeaning` | `arm32-codegen.h`: words of instructions |
| `ArmEmitter` | `ArmCode` | `arm32-specific.h` |
| `SparcMachine`, `ArmMachine` | `RiscMeaning` | the processors, running words (external) |
| `SparcListing`, `ArmListing` | the machine | `sparc-dis.c`, `arm32-dis.c`, and the texts of the manuals (external) |
| `SparcTarget`, `ArmTarget` | emitter and listing | frames, callers and callees of a target |
| `Backend` | `RiscMeaning`, instances of both targets | `jit_generate_code` for either target, and the code running |
| `X86Code` | - | `x86-codegen.h`, and the i386 half of `common86-codegen.h` and `sse2-specific.h` |
| `Amd64Code` | instance of `X86Code` | `amd64-codegen.h`, and the AMD64 half of the others |
| `Udis86` | - | the decoder of `disasm/udis86` for the opcodes those make |
| `Encoding` | instances of these three | a stretch of code assembled, patched and disassembled |
| `MC...` | the module named | families of programs for TLC, nothing else |

### 2.1 FlowAnalysis

State: `live_in` and `live_out` per operation; `pc`, `cur`, `first`, `last`,
`pos` and `changed` are the local variables of the three nested loops. One action
per iteration of a loop: `SkipOp`, `FoundProlog`, `ScanOp` and `BeginFunction`
(the outer walk and the search for the end of a function), `AnalyzeOp` (one
operation of a sweep), `SweepAgain` and `EndFunction` (the test of the
`do ... while`), `Finish`. `Sources` is `flw_analyze_op`'s choice of successors,
`NewOut` and `NewIn` its updates in place, `SameSize` its test of a change, which
compares the sizes of the sets before and after and never their elements.

The operands of an operation are two sets of registers, `use` and `def`. The
program `prog` is a variable that never changes, so one run covers a family of
programs and each theorem quantifies over all of them.

### 2.2 DeadCode

`mark_livecode` is recursive in C; the model keeps its activations in `stack` (the
local `op` of each). `SeekRoot` is the outer loop over PROLOGs and data references,
`MarkOp` one iteration of the inner walk with the recursive call as a push,
`MarkReturns` its return. `MarkDirectives` marks what is never code;
`DeleteOrKeep` is the deletion loop with its `goto` for FULL_SPILL, `Finish` its end.
`remove` is the argument of the same name. The emitter's walk over the list that is
left belongs to `CodeBuffer`.

### 2.3 RegAlloc

State: `regmap[o]` (the map after operation `o`), `r_arg[o]` (the registers its
operands were put into), `before[o]` (moves prepended to it), `inverted` and
`detour[o]` (branches turned around, and the moves between the turned branch and
the jump that replaced it). Phases follow the three passes of `jit_assign_regs`.
An operation with operands takes one action for each operand (`OperandAssociated`,
`OperandToRegister`), because a register given to one operand can be the one
another holds; operations with a case of their own take one action each.
`Candidates` is the set of registers the search can return: scores are abstracted,
so every choice among registers the code does not exclude is explored and a
property holds whatever heuristics are used.

`LiveIn` and `LiveOut` are the path definition of liveness, which `FlowAnalysis`
establishes for the sets the code computes.

### 2.4 AllocatedCode

The running function: `at` (the operation about to run, 0 before and -1 after),
`todo` (moves still to be done), `leaving` (on a detour), `inreg[h]` and `inmem`
(the virtual registers whose *current* value register `h`, or their slot, holds),
`saved` (the registers PREPARE pushed). Values are represented by who is current:
a definition makes every other copy outdated. That is what the allocator can get
wrong; the arithmetic is not. A branch may go either way. A call clobbers every
register that is neither callee-saved nor pushed.

`SystemSpec` is the allocator followed by the execution of its output.

### 2.5 StackFrame

The passes (`CountRegisters`, `PrepareArguments`, `OmitFramePointers`), the emitter
(`Emit...`), the call (`Call`) and the code (`Run...`). The emitter fills `code`
with the amounts by which each operation moves SP and the displacement it uses; the
running function applies them to `stack`, whose words remember what was put there.
The unit is the 8-byte word; word 0 holds the return address. `RegPos`, `Words`,
`StackPos` and `FrameSize` are the macros `GET_GPREG_POS`, `GET_FPREG_POS`,
`GET_ARG_SPILL_POS` and `stack_mem`, with the order and the off-by-one of the code.
`WellFormed` says what lists there are: a call is one piece of the list from its PREPARE
to its CALL that nothing branches into, and a function that reads an argument names the
register it reads it into (in one without registers the word of argument 0 would be the
caller's BP).

### 2.6 Operations and Rewrites

An operation is a record: `code` with the flags `sign` and `imm`, register operands
`r`, the immediate operand `k`, and `e`, the scale, constant or stored value of the
four operations only the optimiser makes (`arg_size`, `flt_imm`, or the second
immediate). Registers have W bits and the constants of instructions I bits, so that
what does not fit is a small number in TLC. `pass` and `pos` are the position of
`jit_generate_code` in its passes and loops, and one action is one iteration:
`CorrectLongImm`, `DropUnused`, `JoinStore`, `JoinAddMul`, `JoinAddImm`. `Leave` moves
on to the next operation or pass and runs the liveness analysis where the code does,
after the immediates and after a join; in between `live` may be stale. `Related` is
`get_related_op`; `JoinedMul` and `JoinedAdd` are the six and the four calls of
`join_2ops` with what the functions passed to it make of the two operations.

`Meaning` is not translated from the code: it is what the documentation of the
instruction set says ("O1 := O2 - O3"), and what the other modules are compared with.

### 2.7 Machine and Emitter

`Machine` is external: the registers, flags and stack of the processor, as far as
the emitter uses them. SETcc writes B bits, a shift uses the count modulo W, a
division traps when its quotient does not fit, `Short` is what remains of a number in
an instruction. `Emitter` has one operator for each `emit_..._op`, with the case
distinctions on equal registers of the code; the result is a sequence of
instructions, run one at a time. `InUse` is `jit_reg_in_use` and `UnusedReg`
`jit_get_unused_reg`. Each virtual register is a machine register of its own, so the
families of programs, not the allocator, choose which operands share one.

### 2.8 Items, Assembly and CodeBuffer

`Assembly` is what a program is promised, without a word about layout: it adds
items, one `Generate` makes code that is `Faithful`, one `Free` ends. Faithful
says that what is reached stands at one place each, goes on to its successor,
jumps and refers to its target, that data is aligned as asked, and that a block
transfer loops to its own head; fillers, inserted jumps and turned branches may stand in
between (`Lands`).

`CodeBuffer` is the code. Operations are heap objects with ids from `Ids`; `next`,
`prev`, `alive` and `last_op` are the list, and `Obtainable` lets the allocator return
any freed id again, contents intact. `AddOp` is one macro call of a program;
`ExpandPatchesAndLabels`, `PrepareSpill`/`NoSpill`, `MarkLiveCode`, `DeleteOp`,
`KeepOp`, `AdjustBranch`/`LeaveBranch` are the passes that change the list;
`AllocateBuffer`, `CheckRoom`, `RoomForData` and `Emit` are the emitter's loop, with
`JIT_REALLOC` returning the same or another address of `Heap`; `Move` copies to a page
of `Pages`; `PatchLocalAddr` and `AssignFunctions` end the call, `FreeAndInit` is
`jit_free`. A cell is the unit of addresses; the last cell of an operation holds its
displacement or address. `Implements` is the refinement: the variables of `Assembly`
are the calls made so far, the buffer read as addresses (`Image`), and where each
item begins.

### 2.9 Dictionary and RegTrees

`RegTrees` translates the recursive functions of `llrb.c` (`NodeInsert`, `DeleteNode`,
`DeleteMin`, `MoveRedLeft`, `MoveRedRight`, `Fixup`, with the code's deviations from
the published algorithm) and takes the functions of `set.h` and `rmap.h` as actions
on named trees. `Content` reads a tree back with the library's own search, and
`Implements` says that every action does to that content what `Dictionary` does.

### 2.10 The SPARC and ARM32 back ends

A program is a function, or a piece of one, with registers already assigned.
`CorrectLongImms` and `CorrectFloatImms` move what does not fit; `EmitOp` emits one
operation (`S!Gen` and `A!Gen` are `jit_gen_op`, one operator for each function it
calls) as 32-bit words made of bit fields, patching forward branches at their PATCH;
`Link` copies the code to `Base` and patches calls and references; `Step` runs one
instruction of the words; `CalleeReturns` is an external function, which checks
nothing, clobbers what the convention lets it, and returns. `Machine` modules decode
words from the manual's formats, independently of the encoders. Numbers are counted in
quarters and keep their sign bit and size in memory; register width is W, the
immediate fields have the width of the words, and opcodes, masks and rotations are
those of the real encodings.

The listings translate the two disassemblers, word by word; `SparcTexts` and
`ArmTexts` are the lines a manual allows for it. `Misprinted` names the words for which
the disassembler is known to print something else: among those of ARM32 the move to
the lower half of a double register, which EXT begins with.

### 2.11 X86Code, Amd64Code, Udis86 and Encoding

The emitters of i386 and AMD64 share `common86_...` and `sse_...` names for their
encoders. A *request* is one such call, a *unit* a mode (32 or 64) and a list of
requests. `Emit` appends the bytes the macros store, including the choice of short
forms, REX, ModRM, SIB and prefixes in the order the header has; `PatchJump` is
`x86_patch`/`amd64_patch`; `Disassemble` decodes one instruction with the tables and
operand rules of udis86. `Meaning` (external) is what the manual calls the instruction
that was requested. The bytes of every request of the run were compared with
those the compiled macros store, and the decoder with the compiled udis86, and
agree. That comparison is a test of these modules and not part of a run.

## 3. Runs

Every passing run takes less than three minutes and fires every action of its
next-state relation, together with the others of the same module. `buffer` and `trees`
are checked for deadlock, since a program can always go on; the others are not: a
call of the library ends, and so does a function.

| run | checks | states | shows |
|---|---|---|---|
| `flow` | `TypeOK` `Sound` `LiveExact` `Least` `Grows` `Terminates` | 176,893 | the analysis of every list of up to four operations is exact |
| `dead` | `TypeOK` `ExactlyReachable` `NothingSkipped` `DepthBounded` `Terminates` | 414,010 | marks of every list of six operations are exact, and what has none is deleted, FULL_SPILLs excepted |
| `alloc_calls` | `TypeOK` `RunTypeOK` `OneOwner` `ReadsCurrent` `CallsReadCurrent` `NoValueLost` | 123,895 | straight-line functions with calls keep every live value |
| `alloc_flow` | `OperandsStay` `ReadsCurrent` `NoValueLost` `MovesCurrent` | 1,354,396 | functions with loops, branches and jump tables keep every live value |
| `frame` | `CallsAligned` `ArgumentsArrive` `ReadsBack` `RegistersRestored` | 91,536 | the frame holds what was put there, and calls are aligned |
| `code` | `SameEffect` `AsDocumented` `Balanced` `OwnWords` | 613,463 | rewriting keeps the effect of a program, and emitted integer code computes what is documented, whatever registers are used |
| `buffer` | `TypeOK` `ListWhole` `InBuffer` `PatchesItsOwn` `Implements` | 49,399 | the list stays whole and the code keeps the promise of `Assembly` while the buffer grows and moves |
| `trees` | `Balanced` `Implements` | 10,847 | two trees under any sequence of operations are two maps |
| `backends` | `AsDocumented` `Listed` | 109,879 | SPARC and ARM32 code does what is documented, and its listing is right |
| `encoders` | `ReadBack` `JumpsLand` | 53,535 | the bytes of i386 and AMD64 code are the instructions asked for, jumps included |
| `flow_tables` | `TablesAnywhere`, violated | | finding 1 |
| `alloc_mask` | `BranchMapsAgree`, violated | | finding 2 |

### 3.1 Bounds

* `flow`: a PROLOG and three operations (or data, a PROLOG and two), over two
  registers and every target. Three operations after the PROLOG are enough for a
  loop with a body, a jump table with two entries, two functions that fall into or
  jump to each other, and the case that decides whether comparing sizes is enough,
  a register added and another killed in one sweep. The proofs need no bound.
* `dead`: PROLOG, label and four arbitrary operations, so that a backward and a
  forward jump, a table entry, data and a second function can meet. Bound: targets
  are the label and the last position. The proofs need no bound.
* `alloc_calls`: three pieces of a small alphabet (copies, updates, calls with none,
  one and two arguments, a call through a register) between the PROLOG and a last
  use, with an argument, two integer and two floating-point locals; one
  callee-saved register, one return register, and two argument registers, fewer
  than the locals, so that displacement happens in every program of interest.
* `alloc_flow`: three locals in *two* integer registers, so that every operation may
  displace something; a loop closed by a branch or an overflow branch, and a branch
  or jump out of or back into it; a JMP|REG with two possible targets and a loop
  around it. Four pieces per program, all combinations.
* `frame`: up to three integer and two floating-point registers, up to two blocks of
  memory, 0..3 saved registers, 0..2 live registers at a call, up to five arguments
  with one argument register of each class, so that every parity that enters the
  alignment occurs on both sides, with and without a frame pointer; arguments kept in
  memory next to the last register. The proofs need no bound.
* `code`: W = 8, I = 5 and B = 4, so that constants that fit a register and not an
  instruction, products of two registers and carries all occur; five registers, the
  four the emitter borrows or that shifts, products and quotients use, and SI, which
  has no low byte; BX is callee-saved. The families are: every shift, product and
  quotient with every choice of three of AX, BX, CX, DX and every set of live
  registers; the other operations with every choice of three of AX, BX, SI, with
  constants below, at and above what fits; pairs with a carry; pairs and triples that
  may be joined, with every set of registers live afterwards; stores of constants.
  Register contents are three files with small, large, positive, negative, zero and
  smallest values.
* `buffer`: every well-formed list of a PROLOG and four operations of control flow
  (two kinds of jumps, every target, labels, patches, returns) or three of data and
  references, and six longer ones placed so that the buffer grows between a jump and
  its target in either direction, between a call and its function, inside data and
  after a block transfer. A buffer of 8 cells with 4 spare ones grows in lists this
  short; `Heap` has two addresses of different alignment, so growing may or may not
  move it; With 14 ids for lists of up to twelve calls, freed operations come back.
* `trees`: five keys and two values for one of them, two trees that may be united with
  and copied to each other. All shapes of up to five keys occur, and with them every
  rotation, both moves of a red link, the deletion of an inner node with a successor
  deep in its right subtree, and deletions of absent keys. The two names are symmetric.
* `backends`: W = 14, I = 13 (as far as SPARC immediates go), bytes of 6 and half-words
  of 10 bits, so that sizes differ and products overflow. Each operation with operands
  that coincide and differ, constants around every limit of a field (0, 1, -1, 16, 255,
  256, 1024, 4095, 4096) and three register files; all accesses with offsets within,
  at and beyond what fits; functions with arguments of all kinds in every order of two
  and four long lists that leave the registers; calls with up to nine arguments, direct
  and through a register; frames of eight sizes.
* `encoders`: of each half of the register file the accumulator and its counterpart, one
  register with a byte of its own, one without, and the highest; as bases those that
  need a SIB byte (rsp, r12), a displacement (rbp) or neither; displacements and constants
  at 0, -128, 127, 128; jumps over 0, 1 and 120 to 129 bytes, on both sides of where
  the short form ends, whatever a REX byte moves.

Families leave out programs that the code translates wrongly; a property that fails
on a known case would say nothing about the others. Section 6 lists each with its line.
They are reproduced by giving a run's `Programs` or `Units` another family:
`ImmediatePrograms` of `MCAllocatedCode` (with `NoArgRegs`), `ReturnUnits` and `ArgUnits`
of `MCStackFrame`, `Differences` of `MCEmitter`, `DeadJumps` of `MCCodeBuffer`; for the
others by taking a conjunct out of `Bad` of `MCEmitter` or `MCBackend`.

### 3.2 Fairness

`FlowAnalysis` and `DeadCode` have `FairSpec == Spec /\ WF_vars(Next)`: the action
is a step of one C function that nothing preempts, so as long as a step is possible
one is taken. No choice is fair or unfair in these modules: after the program has
been chosen a state has at most one successor, and weak fairness of `Next` says
only that the machine executes instructions. The modules that run generated code
state safety only, since a running function may loop as its operands decide;
of `CodeBuffer`, `RegTrees` and `Encoding` no liveness is stated: a program owes the
library no next call, and between calls the loops run over lists of fixed length.

## 4. What is proved

All for every list of operations (every `Programs` that satisfies the named
assumption), every set of registers or addresses, and every state; no bound. 33
theorems are listed in `PROJECT.json`. Where a theorem needs a hypothesis about the
programs, a program without it is one the code translates wrongly (6.1), or one that
no library call could make.

**Iteration.** The theorems of the library about induction take an operator as an
argument, which the provers cannot supply. Induction over natural numbers can be
had with a *set* in the place of the operator: `InductionTo` (from the library's
well-foundedness of `<`, by way of `LeastElement`). With it the module shows that
the recursive functions of the models exist: `IterationExists` for a function
that applies one step again and again, `WalkExists` for one that walks along a list,
`ReadsExist` for one that extends paths. A chain of subsets that only grows has come to
rest after as many steps as there are elements: `ChainSettles`. `IndexedWalkExists` is the
same for a step that depends on its number, as a loop that counts down has it.

**FlowAnalysis** (assumptions: `RegAssumption`, the registers are a finite set;
`ProgramsAssumption`, jump targets are in the list).
`TypeCorrect`, `Soundness`, `Monotonicity`, `Leastness`, `Exactness`.
The inductive invariant is `TypeOK`, `Control` (what the positions of the nested
loops say about each other), `InEquation` (an operation a sweep has visited
satisfies the equation of `live_in`), `Swept` (as long as `changed` is false, what
this sweep has passed is closed) and `Finished` (functions analysed before are
closed). `Swept` is the heart: a size that did not change must mean a set that did
not change, which is lemma `SameSizeSameSet`, and it needs that an update never
removes an element (`AnalyzeOpFacts`). Without `InEquation` that is false: removing
`def` from a set that already holds one of its members would make it smaller.
`Leastness` fixes an arbitrary solution and shows `Inside`, that no set ever leaves
it, to be inductive. `Exactness` says what the result is in terms of
paths: `ReadOnPath`, a recursive function of the length of paths, is inside every solution
of the equations (`ReadChainInSolution`), and at the length of the list it has come to rest
and solves them itself (`ReadChainSettles`), so the least solution lies between what is
read on paths inside the function and what is read on paths of the whole list.

**DeadCode** (assumption: `ProgramsAssumption`, targets are in the list and a
conditional jump has its PATCH). `TypeCorrect`, `Unskipped`, `BoundedDepth`,
`Exactness`. The inductive invariant is `TypeOK`, `NothingSkipped`, `DepthBounded`,
`EntriesSeen` (what the outer loop has passed was marked or is still open),
`OnlyReachable` (marks and activations are reachable), `Marked` (after marking,
the marks are exact) and `Deleted` (what the deletion has passed is gone if it has no
mark and is no FULL_SPILL). `NothingSkipped` is what makes it safe to stop at a marked
operation: its continuation is marked or belongs to an activation further down the
stack. The stack is a sequence, so what a push or pop does to its elements is lemma
`Spliced`.

**RegAlloc and AllocatedCode** (assumptions: `RegisterAssumption`, finitely many
registers, argument registers of the right class without repetition, return
registers in the set; `ProgramsAssumption`).
* `TypeCorrect`: every map and every inserted move is well typed.
* `SystemImplementsAllocator`: `SystemSpec => Spec`, that is, the composition of
  allocator and running code refines the allocator; running never touches its state.
* `SingleOwner`: no register has two owners or one of the wrong class.
* `OperandsKeepRegisters`: the operands of one operation do not displace each other.

The inductive invariant adds to these `ReturnsFree` (the return register has no
owner after a call, which `assign_ret_reg` assumes without a test), `OperandLoop`,
`Placed` (operands before the current one are where `r_arg` says, and no other
operation has an `r_arg` that its map contradicts) and `Turned`. The proof has one
lemma for each kind of action and uses the candidates' exclusion of operands, so it
holds for any choice of scores. `ParamMap` is the only map that is not built step
by step from another; that it is injective is `RankIncreases`.

* `RunTypeCorrect`: running code leaves its function by a
  return only, and every move it executes names a virtual and a hardware register.
  It rests on the invariant above, and on `NotYet` (nothing runs before the allocator
  has ended) and `Detours` (the moves of an inserted JMP belong to a branch that was
  turned around, so `Turned` gives it a target).

The main result about the allocator is that the code it makes computes with the
right values:
* `ValuesKept`: whichever way control comes to an operation, every live value is where
  the map the operation inherits has it.
* `MovesCarryValues`: no move writes an outdated value of a live register to its slot,
  or reads one from there.
* `OperandsCurrent`: every operation finds the current value of each operand.
* `CallsPassValues`: so does every call for its arguments and its address.
* `EndsAgree`: the comment above `branch_adjustment`, that both ends of
  a conditional jump have the same map or the branch was turned around.

All five suppose `NoMasks`: no branches on bit masks, which the pass that reconciles
the ends of jumps does not know; with one, `EndsAgree` is false (finding 2).
`CallsPassValues` supposes also `NoLateImmediates`: no immediate that goes through the
return register while an earlier argument may still be in it (6.1,
`amd64-specific.h:134`). Everything else, loops, tables, calls, displacement, is
covered.

The argument has two halves. The first speaks of the allocator alone. `Ready(m, map,
L, S, R, I)` says of a list of moves `m` that, run where the registers hold `R` and the
slots of `I` are up to date, it brings each value of `L` to where `map` has it and leaves
those of `S` in memory too, storing and loading nothing outdated on the way.
`MInv` says that the moves before each operation are `Ready` from the map before to its own
(`Settled`, by `Fine`), that arguments and operands have registers (`Completed`,
`Partial`), that what a call passes in is free at its PREPARE (`Vacated`), and that where
a jump leads, the maps agree or the moves put there make them agree (`Agree`).
The second speaks of the run: `DInv` says that what is left of the moves is
still `Ready` in the state reached (`OnTheWay`), that everything is in place before the first
of them (`Arrived`, `AtProlog`) and that between PREPARE and CALL what was pushed is what
the registers hold (`CallSection`). One executed move takes `Ready` of a list to
`Ready` of its tail: `TailFacts`. That neither half is enough is the reason for the
composition: a map is only right relative to the code that ran before.

**CodeBuffer** (assumptions: `ProgramsAssumption`, the lists are those a program can
make; `IdsAssumption`, finitely many objects; `AddressesAssumption` and
`SizesAssumption`, addresses and sizes are numbers).
* `TypeCorrect`, and `ListIsInductive`, on which the others rest: there is a sequence of
  the allocated operations, without repetition, along which `next` leads forth and `prev`
  back (`Path`); while the program is read, each operation is that of its call
  (`Building`), afterwards the calls are still all there, in order, with only spills in
  between, and each points where the program says (`Laid`, `Resolved`). The sequence is what
  an insertion, a deletion or a walk along the list can be described by; that the walk the
  model defines by a recursive function gets to all of it is `WalkGetsEverywhere`.
* `ListStaysWhole`: the list has exactly the operations that were allocated and not
  freed, and leads back the way it leads forth, in whatever order freed memory is
  handed out again.
* `StaysInBuffer`: nothing is written past the end of the buffer, whatever its size and
  wherever `realloc` and `mmap` put it. The invariant is `RoomInv`: between the look at the
  room and the writing of an operation there is room for it. Hypothesis `Fits`: nothing
  but a block of bytes, for which the code looks again, takes more than
  `MINIMAL_BUF_SPACE`. The program that would not: a CODE_ALIGN of more than 1024.
* `PatchesAreTheirOwn`: a PATCH the emitter comes to names an operation that was neither
  freed nor freed and made another one, and that leads to this PATCH. Hypothesis
  `PatchedIsReached`: every forward jump is reached. Without it the statement is false
  (6.1, `common86-specific.h:1042`). The invariant `PatchInv` follows what a PATCH
  names through the passes; that marking spares what it needs is `MarkedIsClosed` (what is
  marked is closed under the flow of control) and `ReachedIsMarked` (what the
  program reaches is marked), so a reached jump is not deleted before its PATCH.

The main result about list and buffer, in `LayoutProofs`, is the refinement:
* `CodeIsFaithful`: the code of every call keeps the promise of `Assembly` (`Implements`):
  what is reached stands at one place, goes on to what follows, jumps, calls, refers
  and loops to what the program named, and data is aligned, whatever is deleted, turned
  around and put in between, and however often the buffer moves.

Its argument has three stages.
1. `ListStaysUsable`: what the emitter is handed. `KeptInv` says of every operation on the
   list that it stands for an item of the program or was made by a pass (`Stands`); that
   what refers leads to a LABEL or to the PATCH that leads back to it (`Wired`); that
   exactly the branches that were turned around have a made jump behind them, to the
   branch's target, and step over it (`TurnedRight`, `Aims`); that the jump back of a
   transfer knows its TRANSFER (`Loops`); that spills stand in front of what occupies
   cells (`Spilled`); and of the list that it is in order and nothing reached is missing.
   Its hard steps are deletion and `AdjustBranch`, which gives a branch a new PATCH and
   hands the old one to the jump it makes.
2. `CodeStaysLaidOut`: `LayoutInv` adds where each operation lies. There are positions
   `st` such that the first `m - 1` operations lie one behind the other (`LaidOut`), and
   of two of them that refer to each other the displacement or the noted address is
   right (`Linked`). A displacement forwards is wrong until its PATCH is emitted: `Linked`
   speaks of pairs of operations both of which are written, so it is the writing of
   either that has to establish it. `OpenLoops` is the same for the loops of transfers,
   `Addressed` for the addresses that are filled in after the code has moved to its pages.
3. At the end the promise is read off: control that goes on from an operation glides over
   what is not the program's, and takes a made jump where there is one (`Glides`,
   `LandsAhead`, `LandsAround`), so it lands where `Faithful` says.

Its hypotheses are that forward jumps are reached (`PatchedIsReached`, as above), and
* `TransfersReached`: no jump leads between a TRANSFER and its jump back, past the
  instructions that set the loop up;
* `Direct`: a reference to data, and a CODE_ALIGN of data, stand right before what they are
  about. If another CODE_ALIGN, or the target of a reference to code (in front of which
  registers are stored), is in between, the address is that of the filler, which is
  what the code does and not what is promised;
* `MemoryAligned`: no CODE_ALIGN asks for more than the alignment of the heap and of
  pages. Without it data loses its alignment (6.1, `common86-specific.h:1108`);
* `[][LoopStays]_vars`: the buffer does not move between the two parts of a
  transfer. The model lets it, as the code does, and without the hypothesis the statement
  is false (6.1, `common86-specific.h:866`). It is about the run and not the program,
  because where the buffer grows depends on everything in front of the transfer, and
  whether it moves then on `realloc`.
`MCCodeBuffer` states the four about its programs and addresses as assumptions, which TLC
evaluates; `[][LoopStays]_vars` holds in the run `buffer` too, whose transfers stand open
in some states.

**StackFrame** (assumptions: `CountAssumption`, the numbers of argument registers are
natural numbers; `UnitsAssumption`, every unit is `WellFormed`), for every number of
registers, arguments, blocks and functions.
* `StackIsLaidOut`, on which the others rest: `RunInv` is invariant.
* `RegistersAreRestored`: after a call and at a return everything that was pushed is taken
  from the word it was pushed to.
* `ArgumentsDoArrive`: an argument on the stack is where the callee looks for it.
* `CallsAreAligned`: SP is a multiple of 16 at every call. Hypothesis `CallsBeforeFrets`:
  no call is emitted after an FRET of a function that saves an odd number of registers.
* `ValuesReadBack`: what is read is what was stored or passed. Hypothesis `ValuesFound`,
  which has three parts: no argument is stored besides the register that shares its
  word (`StoresApart`), a function that stores arguments has as much memory of
  `jit_allocai` as the last one (`ArgumentsFound`), and no argument is read by way of SP
  after an FRET that miscounted (`GetargsBeforeFrets`).

The hypotheses exclude only programs with an operation of 6.1 (`amd64-specific.h:383`, `:39`,
`:59`); every unit of the run `frame` satisfies them. That `GetargsBeforeFrets` is needed was
found by attempting the proof without it.

The argument has three parts. What the operators compute: `stack_pos` of an argument is
the number of arguments on the stack before it (`StackPosFacts`), and `emit_arguments`,
which counts down, pushes it at just that depth (`OnStackFacts`); blocks lie one behind the
other (`BlockEnds`); no two cells of a frame share a word (`PlacesApart`). Then the emitter,
which goes down the list: `EmitInv` says what the code emitted so far is (`Expected`), and what
`push_count` (`Pushes`) and `prepared_args` (`Counted`) are when it comes to an operation.
After an FRET `push_count` is short by the saved registers, which is nothing if there are none
and does not change its parity if their number is even: `Pushes` has a case for each. Last
the running code, which follows branches: `RunInv` adds what is in every word of the stack
when control is at an operation, however it came there. A counter that follows the list and a
stack that follows branches agree because a call is one piece of the list; `ReadsBack` needs
besides them `Held`, that every stored cell is in its words.

**Emitter** (assumptions: `ProgramsAssumption`, a program is a list of operations;
`SlotsAssumption`), for every list, every width, every number of registers and every choice
of those the operands are in.
* `CodeIsBalanced`: between operations the stack pointer is where it was, and no
  instruction has written to a word of the caller.
* `ReadsItsOwnWords`: an instruction that reads the stack reads a word its own operation
  put there. Hypothesis `ShiftsApart`: no shift has its value and its count in CX (6.1,
  `common86-specific.h:659`), which is just when `emit_shift_op` reads a word of the
  caller. `MCEmitter` states it of its programs as an assumption.

`Walks(c, x, y)` says that the instructions `c` take the stack pointer from `x` to `y` and
that each finds it where it may be run (`Allowed`). Walks are put together (`WalkOn`) and
taken apart (`WalkRest`), so there is one lemma for each `emit_..._op`, and `GenWalks` says
that the code of every operation walks from 0 to 0. `StackInv`, that the code still to run
walks from `sp` to 0, is inductive with that. The shift is what ties the emitter to the passes
before it: the word it reads is there only if CX was pushed, CX is pushed only if the live
sets say that it is used, and those sets may be stale. `ListInv` says that they are not about
operands of shifts: no pass makes a shift after the sets were computed, so a shift is still the
one the analysis saw.

## 5. What is only model-checked, and why

* `Terminates` of both analyses: liveness under fairness.
* `SameEffect` and `AsDocumented` of `Rewrites` and `Emitter`. What a list computes is a
  fold over it, and that a rewritten list computes the same is an induction over that
  fold; and the arithmetic of both is modulo 2^w with variable w and about single bits,
  which the provers do not decide.
* `Implements` of `RegTrees`, the refinement of `Dictionary`. The trees
  are recursive data and `llrb.c` recursive functions (RECURSIVE operators here, with which
  the prover loses its SMT backend): what they compute for every tree is out of
  reach, and so is `Balanced` of `RegTrees`.
* The back ends and the encoders: their state is a program and a machine word, and
  what is to be shown is about each constant of the encoding, which enumeration does
  better than a proof.

## 6. Findings

Two are runs that fail with a property the documentation or the code itself states;
`PROJECT.json` quotes it.

1. `flow-analysis.h:97` A branch table placed at the end of the code, where the
   documentation recommends data, is not seen by the liveness analysis of the
   JMP|REG that uses it.
2. `jitlib-core.c:544` `is_cond_branch_op` leaves out the two branches on bit
   masks, so the register maps of their ends are not reconciled: what is in a hardware
   register where the branch leaves may be looked for in memory at its target.

### 6.1 Programs the runs leave out

The others were met while modelling and are kept out of the families by the names given
in 3.1 and in the modules; where it says *compiled*, a program compiled with the library
for AMD64 does the same. Paths are relative to `myjit/`.

Allocation and frame:

* `amd64-specific.h:134` A floating-point immediate argument is passed through RAX while
  an earlier argument still has its value there. Compiled.
* `amd64-specific.h:383` An FRET that is not the last operation takes its saved registers
  off `push_count`, although what follows in the list runs with them pushed; with an odd
  number of them later calls are misaligned. Compiled. In a function without a frame
  pointer a later GETARG of an argument on the stack, which is read by way of SP and
  `push_count`, reads the wrong word unless no register is saved. Compiled; found when
  `ValuesReadBack` could not be proved without excluding it.
* `amd64-specific.h:39` An argument that has to be written to memory shares its word with
  the last register of the function. Compiled.
* `amd64-specific.h:59` `spill_pos` of the arguments of *all* functions is computed with the
  `allocai_mem` of `jit->current_func`, the last function of the unit at that time: in
  a unit of two functions that ask `jit_allocai` for different amounts, an argument
  written to memory in the first is read from the wrong word. Compiled.

List and buffer:

* `common86-specific.h:1042` A PATCH of a jump that nothing reaches makes the emitter read
  an operation that was freed; in a compiled program the emitter stops at `assert(0)`.
* `common86-specific.h:866` The loop of a block transfer is an absolute address: when the
  buffer moves between TRANSFER and TRANSFER_CPY, the loop jumps into freed memory.
  Compiled.
* `common86-specific.h:1108` CODE_ALIGN aligns the address in the buffer; after the copy an
  alignment larger than that of `malloc` is lost (`test/t401-data-in-code.c` asks for
  32). Compiled.

Rewriting and integer code of x86:

* `x86-common-stuff.c:298` An addition of two registers followed by the subtraction of a
  constant is joined into an addition of the constant. Compiled.
* `x86-common-stuff.c:132` An addition of a constant is joined with an operation that does
  not read its result. Compiled.
* `x86-common-stuff.c:277`, `:284`, `common86-specific.h:412` A constant is negated or
  doubled after its size was checked, and may not fit. Compiled.
* `x86-common-stuff.c:36` A constant stored through its own register loses the address.
* `common86-specific.h:659` A shift with value and count both in CX, or with the count in
  AX, CX the destination and no free register.
* `common86-specific.h:578` Signed quotients and remainders of negative numbers by powers of
  two are those of a shift and a mask. Compiled.

SPARC and ARM32 (`BadSparc`, `BadArm`, `BadOffset`, `BadFrame`, `Overlapping` of `MCBackend`):

* `sparc-specific.h:453`, `:648`, `:911` Unsigned products of registers, unsigned quotients by 2,
  stores to a constant address; comparisons with constants below -4096; negative
  dividends and powers of two (`:630`); negations of numbers into another register.
* `sparc-specific.h:36` Slots lie 16 bytes lower than the frame accounts for, where callees
  save their first arguments.
* `arm32-specific.h:941`, `:976`, `:980` Borrows after a difference that overwrites an operand
  or is zero; upper halves of unsigned products; quotients by 1 and shifts right by 0; negative
  dividends and powers of two.
* `arm32-codegen.h:413` Offsets that need a rotation, frame slots beyond 255 bytes
  included.
* `arm32-specific.h:541`, `:1074` Calls with live VFP registers that are put on the stack;
  stack arguments of 4 modulo 8 bytes; MSG with an odd number of pushed registers; a
  value of single precision returned by a callee or stored while its register stays
  live.
* `arm32-specific.h:1030` FBLT and FBLE are taken on unordered operands.
* `arm32-specific.h:760` A MEMCPY of a constant length looks for a scratch register only
  if the length is *not* a constant when r0 to r3 are all in use, and goes on with a number
  nothing was stored in. `EmitMemcpy` stops there with `Abort`; the run's `Crowded` has
  only the copy whose length is in a register.
* Listings: `Misprinted` of `SparcListing` and `ArmListing`. One of them is the first
  instruction of EXT, `vmov.32 d<n>[0], rt`, which `disasm/arm32/arm32-dis.c:570` prints as
  `vmov.32 s<2n>, rt`, the name of half the register with the suffix of the other form.

Encoders (left out by `MCEncoding`, where a comment or a guard says so):

* `amd64-codegen.h:1325` `amd64_test_reg_imm` of r8 takes the short form, which tests rax.
  Compiled.
* `amd64-codegen.h:1328` `amd64_test_reg_reg` of a low and a high register has R and B
  exchanged. Compiled. (`:1296` has the same exchange and is only called with low
  registers.)
* `amd64-codegen.h:1356`, `:1360`, `:1383` In accesses of two bytes with an index the REX byte
  comes before the prefix 66 and does not count.
* `sse2-specific.h:228`, `:235` `emit_sse_div_op` calls the i386 encoder, without REX, for
  xmm8 to xmm15.
* `sse2-specific.h:36` The i386 form of the store of a number to an absolute address
  exchanges its arguments.
* i386 stores a byte of ESI and EDI with the number of DH and BH. Besides, the i386
  build does not compile at this commit (`x86-specific.h:150` adds a pointer to a `double`;
  `x86_movss_reg_membase` does not exist). The i386 half of the encoders is therefore
  compared with its macros, and not run with the rest of the library.
* `disasm/udis86/syn.c:91` The target of a short conditional jump is cut to 32 bits in
  code above 4 GB. The unit starts at address 0, where this does not show.

Outside the models, by reading: `sse2-specific.h:213` computes a difference whose
destination is its second operand as a sum with the negated operand, which gives -0.0
where the difference is 0.0; floating-point emitters of x86 are not modelled. `common86-specific.h:806`
and `:914` look for a scratch register the way `arm32-specific.h:760` does (the second
takes register 0 when it finds none); of block transfers of x86 only place, size and
loop are modelled.

## 7. Abstractions

* Scores of registers, and with them `FORCE_ASSOC`: any register that is not
  excluded may be chosen. More choices than the code has, so properties that hold
  here hold there; the failing runs were confirmed with the library.
* `RegAlloc`, `AllocatedCode` and `StackFrame` know values only by whose they are;
  `Rewrites` and `Emitter` know numbers, and no allocation, frame or branch back;
  `CodeBuffer` knows places and targets, and no values. TRANSFER operations are in
  `CodeBuffer` only, as a place and a loop, the aliases `R_FP` and `R_OUT` in none.
* In `Rewrites` the test of `get_related_op` that the next operation reads some
  register is left out: it is true of every operation that is joined. In `Emitter`
  the ADD of `jit_gen_op` compares the destination with an immediate operand as if it
  were a register; both outcomes compute the same and the model takes one. Flags of
  shifts, products and quotients are not modelled since no emitted code reads them.
* In `CodeBuffer` an operation occupies one to a few cells, and displacements always fit.
  The lengths of x86 instructions, and the choice between short and long jumps, are in
  `Encoding`, which in turn knows no buffer. SPARC and ARM32 words all have one length.
* No two trees of `RegTrees` share a node, so a tree is a value and not an object; the
  freeing of nodes is left out.
* In `Backend` registers are assigned by the program, one function at a time; numbers of
  floating point are multiples of a quarter of bounded size, without infinities and
  negative zero. `SparcMachine` and `ArmMachine` are the processors as their manuals
  have them, and what a callee may change is junk after a call.
* In `Encoding` an absolute address is one small number, and the values of immediates are
  those the encoders tell apart. An x86 processor is represented by the decoder, whose
  tables are those of udis86.

## 8. Plan, and what is not modelled

Next, in this order:

1. Loads, block transfers and the floating-point operations of `sse2-specific.h`, run on
   the instructions of `Encoding` (model).
2. That one join or one dropped assignment keeps what a list computes (proof), as far as it
   can be had without arithmetic on words.

Not modelled:

* The code checker and the dumps of lists and liveness: they report what other passes
  computed and change nothing.
* The spelling of x86 instructions (`syn-att.c`, `syn-intel.c`): layout of text. The
  macros of `x86-codegen.h` and `amd64-codegen.h` that no emitter calls, and the opcodes
  of udis86 that no encoder makes.
* JIT_TRACE and the x86 MSG: calls of `printf` between operations.
* The i386 frame and x87 paths of `x86-specific.h`, which do not compile at this commit,
  beyond their encoders.
* Detection of the CPU, tests, demos and documentation.

## 9. Running the checks

    tlc -config FlowAnalysis.cfg MCFlowAnalysis
    tlc -config AllocFlow.cfg MCAllocatedCode
    tlc -config Backend.cfg MCBackend
    tlapm AllocatedCodeProofs.tla

The module and configuration of each run are in `PROJECT.json`.
