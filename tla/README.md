# DEEPVSA's reverse execution in TLA+

`src/vsa` is a post-mortem analyser.  It reads the core dump of a crashed IA-32
process, the trace of the instructions executed before the crash and a log of
the registers these instructions named, and reconstructs backwards what every
operand held, memory included.  From the reconstruction it computes a backward
taint from the crash.  This directory models that program and proves parts of
it.

## Inventory

| component | code | state | operations | depends on |
|---|---|---|---|---|
| core list | `re_dsmanager.c` | the main list of instruction, define and use nodes | add a node, walk to the nearest node of the same place, compare places, assign or assert a value, check against the log | core dump, operand log |
| reverse execution | `reverse_instructions.c`, `re_dsmanager.c` | three work lists, `resolving`, `curinstid` | first round, initial registers, second round; `resolve_use`, `resolve_define`, `resolve_inst` | core list, handlers, alias analysis |
| alias analysis | `re_mem_alias.c`, `alias_manager.c`, `re_vsmanager.c` | `umemlist`, `rec_count`, `alias_offset`, `aliasret` | the walk over unknown writes; hypothesis test on a copy of `re_ds`; ground truth | reverse execution (recursively, on the copy) |
| instruction semantics | `handler_*.c`, `re_insttable.c` | none | one handler (creates nodes) and one resolver (relates their values) per instruction type | core list |
| heuristics | `heuristics.c`, `bin_alias.c` | `flist`, `maxfuncid` | registers at the start of the trace, frame pointers, function ids | core list |
| value sets | `re_valueset.c`, `re_vsmanager.c` | regions, one value set per node | strided intervals, a forward pass, alias verdicts | core list |
| taint | `analyze_result.c` | none | walk from the crash through defines and uses | core list |
| system calls | `handler_syscall.c`, `handler_system.c`, `re_systable.c` | the block of a call in the core list and in `umemlist` | enlist a block, replace it when the number of the call is known | core list, `umemlist` |
| dump and log access | `re_opdvalue.c`, `access_memory.c`, `process_*.c` | segments, registers, log | load, look up | files |
| tracers | `pintool/` | ring of instructions | write trace and log | Pin |
| scripts, network | `pin_parser/`, `dlvsa/` | - | training data, region prediction | - |

The program is sequential.  What makes it hard is the order in which
conclusions are drawn: a value travels in both directions along the list,
through instructions whose operands are partly known, past memory writes whose
address may not be known yet, and each conclusion queues further work.  An
alias question is answered by running the whole propagation on a copy of the
structure and waiting for a contradiction, which arrives as a `longjmp` out of
the middle of it.

Correctness, by component:

* reverse execution: what is recovered is what happened; nothing known is lost
  or replaced; work ends; when it ends nothing was left undone; a contradiction
  outside of a hypothesis never occurs.
* alias analysis: "no alias" is only said of accesses that did not meet; the
  list of unknown writes is complete and in order, which the early exit of the
  walk relies on; a hypothesis leaves no trace.
* instruction semantics: a resolver concludes only what the processor did,
  whichever of the values are known and in whatever order they came; every place
  that an instruction changes has a define; a wrong value that was only assumed is
  a contradiction and not a failed assertion.
* value sets: the set of a node contains the value it had, accesses said to be
  disjoint are, a load takes the set of the write that it reads.
* taint: a use is followed to the write it got its value from.
* system calls: what the kernel wrote stays covered by a define.
* function ids: nested calls get different ids, a return leads back.
* loading: instructions, log lines and regions stay in step.

The hazards, at their lines, are in `PROJECT.json`.

## Modules

| module | models |
|---|---|
| `Operands` | values as little-endian bytes, operands, `compare_two_targets` |
| `CoreList` | `re_ds`: nodes, walks, assertions, work lists, dump access |
| `Resolve` | memory bytes, addresses, instruction resolvers, the propagation of one entry of a work list |
| `ReverseExec` | the two rounds as a state machine, the handlers |
| `HypothesisAlias` | alias analysis by hypothesis test, as a function of `re_ds` |
| `GroundTruth` | alias analysis by the recorded addresses |
| `Machine` | external: the processor and the tracer that produced the trace |
| `ReverseProps` | the properties of reverse execution |
| `ReverseProps_proofs` | its proofs |
| `MCReverse` | traces for TLC |
| `Taint` | `taint_operand` over the core list that reverse execution leaves |
| `InstKnowledge` | what is known of one instruction's nodes; assign, assert, copy |
| `ArithmeticInst`, `LogicInst`, `MoveInst`, `ControlInst`, `StringInst` | handler, resolver and (external) effect of every mnemonic, by the files `handler_*.c` |
| `InstructionStep` | one instruction whose values arrive in any order, with its properties |
| `InstKnowledge_proofs` | lemmas: numbers and bytes, the nodes of a handler, the shapes of resolvers |
| `InstructionStep_proofs` | the proofs about `InstructionStep`, by kinds of instructions |
| `MCInstructions` | instructions, operand forms and values for TLC |
| `SystemCalls` | one `sysenter`, its handler and the resolver of every call |
| `SystemCalls_proofs` | its proofs |
| `MCSystemCalls` | calls for TLC |
| `StridedInterval` | strided intervals at the width of a C integer |
| `ValueSet` | one interval per region, and the operations on such sets |
| `ValueSetAnalysis` | the forward pass beside the processor, with its properties |
| `ValueSetAnalysis_proofs` | its proofs |
| `MCValueSets` | instructions for TLC |
| `UnknownWrites` | `umemlist` as an abstract machine |
| `UnknownWrites_proofs` | its proofs |
| `MCUmem` | its TLC instance |
| `IntrusiveList` | `list.h`: lists linked through the nodes, and what it means that such a list is well formed |
| `IntrusiveList_proofs` | lemmas: what adding, deleting, copying and moving a head do to a well-formed list |
| `HypothesisTest` | `ht_verify_alias` at the level of pointers: save, fork, `setjmp`, run, `longjmp`, delete, restore |
| `HypothesisProps` | its type invariant, safety invariants and action property |
| `AtomicQuery` | abstract: an alias question changes nothing but its own walk |
| `HypothesisQuery` | the refinement mapping to `AtomicQuery`, fairness and liveness |
| `HypothesisQuery_proofs` | the proofs about `HypothesisTest`, and of the refinement |

### How state and actions correspond to the code

The list head receives new nodes and ids count up, so `core[n]` is the node
with id `n`; a smaller id is later in the execution.  The C program mutates one
global `re_ds`; the model passes it as a record `S`, because the hypothesis test
runs the same functions on a copy.  `Resolve` has `check_alias_pair` as a
constant, the function that answers an alias question.  A `.cfg` gives it
`ht_verify_alias` (`HypothesisAlias`) or `gt_verify_alias` (`GroundTruth`), the two
that the tool can be built with, and the theorems leave it open.  `HypothesisAlias`
instantiates `Resolve` once more for the copy, where `REC_LIMIT` keeps
`resolve_alias` from asking.

One step of `ReverseExec` is one iteration of a loop of the program: `HandleInst`
(one handler call, up to its `re_resolve`), `ResolveUse`, `ResolveDefine`,
`ResolveInst` (one entry of a work list), `InitRegUse`, `NextInst`.
`Resolve` states a handler as the table of nodes it creates and a resolver as a
list of rules over the instruction's uses and defines (`conclusion` draws what
follows from one rule), because the C functions differ in just that; `give`
is the pattern "assign if unknown and enlist, else `assert_val`" that every
propagation step of the code ends with, and `resolve_node` is the common body of
`resolve_use` and `resolve_define`, which differ in the side of the node a value
is taken from.  `S.out` records how the C program would leave: `contra` is the `longjmp` out of
a hypothesis, `abort` a failed `assert`, `wild` a `longjmp` with no frame.

A trace is produced by running a small program forwards in `Machine`, so the
truth is known to the properties (and to nothing else): `Sound` compares
every recovered value and address with it.

`HypothesisTest` answers what `ReverseExec` takes for granted, that the copy is a
copy.  A cell of memory is a number: the head inside `re_ds` (`ReHead`), the head
in the copy of `re_ds` on the stack (`OldHead`), the heads of the work lists, the
`N` nodes and the `N` places where `fork_corelist` puts their copies.  Each family
of links (`list`, `umemlist`, and `worklist` for the three work lists, which are
alike) is a pair of functions from cells to cells.  `live`, `listed` and `queued`
are what the loops of `member_in_umemlist`, `check_node_in_list` and
`get_new_exp_copy` would find; that they agree with the links is part of
`WellLinked`.  One step is one iteration of a loop that follows pointers, or one
call between two loops.  `StartTest` is `save_re_ds` up to the first loop of
`init_alias_config`; `RunTest` is `setjmp` with its first return; `Conflict` is
`longjmp`, which may come at any point of the propagation under a test.  What the
propagation computes is left open: it adds a node, learns an address or a value,
lists and delists a write, queues a node and takes one off.  The contents of a
node are the set of what is known of it.  `discard` writes `LIST_POISON` over what
`free` and the end of a stack frame give up, so that a use of it afterwards shows.

`ReverseExec` has the propagation along the list and few instructions;
`InstructionStep` has all instructions and no list.  `x` is the instruction with
what the processor found, `K` the nodes of its handler with what is known of each:
`val` of a use, `bef` and `aft` of a define.  `Learn` is a right value that a
neighbour brings, `Suppose` a wrong one (at most one, as under a hypothesis),
`Resolve` is `re_resolve` calling the resolver once.  `fresh` says whether a value
has arrived since.  An operation that the C code does on a member of `valset_u`
is done on the bytes of that member, so that what one of another size leaves
behind shows (`Fit`, `clean_valset`).  `InstKnowledge!both_ways` is the pattern of
most resolvers, a copy in either direction or a comparison when both sides are
known.  The effect of the processor is stated from the architecture and shared
with nothing of the model of the code but the arithmetic on bytes.

`SystemCalls` has in `L` the defines of one `sysenter` in the order in which a walk
meets them, whether the block is in `umemlist`, and which arguments are known.
`LearnArgument` and `LearnNode` are values arriving, `Resolve` is
`sysenter_resolver` with the resolver of the call it finds.

`ValueSetAnalysis` runs the analysis and the processor side by side: `reg` is what
the registers hold, `aft` the value set of the latest define of each, `defs` the
writes to memory with their computed addresses (`addr`) and true ones (`at`).  An
address is a region with an offset, because that is all the analysis knows too;
a number that cannot be told from the bases of regions is `Garbage`.  `Execute(i)`
is one iteration of the loop of `one_round_of_vsa`: the operands' addresses and value
sets (`Found`), with the search for the define that a load reads
(`vs_find_prev_def_of_use`), then the handler.  `GiveUp` is an `assert` of a
value set operation.  Intervals are exact at `Bits` bits: every operation wraps as
the C code does at 32, and the walks of `si_contain` and `si_overlap_with_len`,
whose counter may wrap and never reach its end, have `Endless` as a third answer.

`Taint` is a function of the core list and is evaluated in the last state of
`ReverseExec`.

Abstractions of `ReverseExec`: a byte has `Radix` values and a double word `DW` bytes, all
arithmetic is modulo `Radix ^ DW`; the high byte register is the one at offset 1.
Left out of the core: 16-bit and vector operands (they are in `InstructionStep`),
the gs segment, system calls (in `SystemCalls`),
the post-resolution heuristics of the second round (they do nothing for `push`,
`pop` and `xchg`; for `mov`, `add` and `lea` only when the destination is `ebp`
or `esp`, which no program of the runs has).

## Runs

| run | expects | shows |
|---|---|---|
| `reverse_ht` | pass | hypothesis test, accesses equal or apart: `ListsReady`, `Sound`, `NoContradiction`, `UmemReady`, `VerdictsRight`, `Drains`, `Settled`, `NothingForgotten`, `ImplementsUnknownWrites`, `Terminates` |
| `reverse_gt` | pass | ground truth, accesses that also overlap in part: `Sound`, `TruthRight`, and of the taint that follows from the result `TaintReal` |
| `instructions` | pass | every mnemonic that `Supported` admits, values in every order, one possibly wrong: `Sound`, `NeverAborts`, `Settled`, `Covered`, `Addressed`, `Computed`, `Keeps` |
| `syscalls` | pass | every system call of the table: `WritesCovered`, `Consistent`, `NothingDropped`, `Unblocked` |
| `valueset` | pass | traces over a stack, a heap and numbers: `Sound`, `NoAliasRight`, `LastWrite` |
| `umem` | pass | `NothingSkipped` of the abstract list: the early exit of the walk passes by no write |
| `hypothesis` | pass | every list that can be walked stays closed (`WellLinked`), the main structure is untouched during a test (`Isolated`) and as before after it (`NothingLeft`), a question is atomic (`ImplementsAtomicQuery`), tests end (`TestEnds`) |
| `reverse_skewed` | violation | hypothesis test, partial overlap: `Sound` fails |
| `reverse_highbyte` | violation | a use of `ah` gets `al`: `NoContradiction` fails |
| `div` | violation | the low half of the dividend goes into the divisor: `DividendOrder` fails |
| `syscall_onebyte` | violation | a `read` of one byte is resolved twice: `ResolvedOnce` fails |
| `valueset_unknown` | violation | a write through an unknown register is passed by: `CorrectnessCheck` fails |

Bounds: `Radix = 4`, `DW = 2`, so 16 addresses, of which 2..13 are in the core
dump.  The programs load one or two pointers from memory, write through them (by
`mov`, `add`, `xchg`, `push`, with base, base + scaled index, a displaced byte),
read back and then overwrite the pointers, so that the writes are of unknown
address while the trace is read; the loaded pointers take values that make the
accesses meet or not.  Four to seven instructions reach every branch of
`re_alias_resolve` and `res_expression` that the model has, and two unknown
writes at a time make the order of `umemlist` matter.

`hypothesis` has `N = 2` nodes: an unknown write that is tested and one more that
comes before or after it in the walk, that may be learned, queued or delisted
meanwhile, and that the cursor kept across the test may point to.  The lists then
have zero, one or two members, which are the cases of pointer surgery at a head.
Every property but `TestEnds` is also proved, for every `N`.

`instructions` has bytes of two bits and the sizes of the code (byte, word, double
word, quad word, vector), where a vector is two double words and a quad word one,
so that its halves are still halves.  Each size has two values per operand, one
small and one with its highest bits set, so that carries, borrows, sign extension
and shifts across bytes occur; a repetition has a count of zero and of two.  Operand forms are those the handler's `switch` accepts.  All orders of
arrival are explored, with the resolver run or not run between any two, so every
subset of known values is one that some resolver call sees.  Carries and conditions
are an arbitrary bit (`flag`).  `MCSupported` has TLC confirm that the hypothesis of the
theorems, `Supported`, holds of every one of these instructions.

`syscalls` has every call of `sys_index_tab` and one that is not in it, receiving an
error, nothing, two or three bytes.  `getrusage` and `_llseek` are left out as calls
that write: their resolvers say they do not.  `ret = 1` is `syscall_onebyte`.

`valueset` has longs of six bits, four bytes per access, `MaxSteps = 4` instructions
out of about forty over two general registers and `esp`.  The first
instructions build pointers, strides and indices, the last one reads through them;
with four, a write, another write that overlaps it or does not, and a load are
reached with an address that was computed.  `Disciplined` keeps to what the
analysis takes for granted (`Ordinary`, spelled out there); without it the known
departures below would be found first.  `UnmaskedAssumption` has TLC confirm that the
hypotheses of the theorems hold of these instructions, all but the masks.

Fairness: the program is sequential and keeps running until it stops; that is
the only fairness assumed.  `FairSpec` spells weak fairness of `Next` out because
`Drains` shows that every step before the end changes the state.
`HypothesisQuery` has `WF_vars(Next)`: some step is taken as long as one can be,
and which one is open.  `TestEnds` therefore holds for every order of the steps;
it rests on the guards by which a value or an address is learned only once.

## Findings

* `reverse_skewed`: the hypothesis places an unknown write at each byte in
  question, but never below; a write that starts below and reaches into the
  cell is passed over.
* `reverse_highbyte`: `add_new_use` copies the value before a later define of
  the full register without the shift that `resolve_use` applies for `ah`.
* `div`: `div_resolver` (`handler_arithmetic.c:1045`) assigns the halves of the
  dividend to the first two uses; the first is the divisor.
* `syscall_onebyte`: `sysenter_resolver` tells a resolved call from a pending one by
  the number of its defines (`handler_system.c:212`), which is two again after one
  byte was received.
* `valueset_unknown`: `vs_compare_def_use` (`re_vsmanager.c:893`) says "no match" of a
  define without an address, so that the search for the define of a load goes past
  it.

## Where the instances stop

While modelling, the following was read in the code and kept out of the passing
instances, or excepted by name in a property, because the code does not do what the
properties say there.  They are stated by reading, not by a run.  What remains of the
instructions is the predicate `Supported` of `InstructionStep`, which says for each
mnemonic which operands its handler and resolver are right for; the theorems have it as
their hypothesis.  The proofs showed that it must also ask, of `add` and `sub`, for an
operand of at most a double word, and of an immediate that is shorter, that it is a byte.

* Arithmetic: one-operand `mul` takes the high half of a signed product; a product
  is inverted by a division without a test for zero or for a remainder;
  `[mem]` as its operand is not split; an 8-bit immediate of `imul`, `or` and `xor` is
  not sign-extended; `div` with quotient 0, and `div` by a byte, whose handler has other
  operands; `imul` of two or three operands that its handler does not list, or that are
  neither a word nor a double word (assertions of the handler and of the resolver);
  `shld` shifts by `32 + vs2` for want of parentheses; `shr_resolver` also sets the
  datatype of its count to a byte (`handler_arithmetic.c:1726`), which the model leaves
  out because it reads the count as a byte wherever that matters; `rol` of a word forwards and `ror` of one backwards assert.
* Vectors: `psubb` forwards and `pand` assert; `movq` of a quad word asserts; the
  assertion of `xor` lacks parentheses (`NeverAborts` excepts it); `pminub` with
  memory splits the destination.
* Others: `bsr` and `bsf` of zero; a `jmp` or `call` that is the latest instruction reads
  `instlist[-1]`; `rep lods` presets a count of zero; `rep stos` with the
  direction flag set asserts; `resolve_df` takes the flag to be clear before the
  trace; the x87 instructions and `in` define nothing; `cmovcc` has no use of its
  destination; `xchg` of a register with memory addressed by it.
* Value sets: sums that overflow at one end, overlaps and walks at the top of the
  range; `si_contain` looks at strides and not at bounds; `check_vs_in_list` and
  `valset_contain` test containment the wrong way round; an 8-bit immediate is not
  sign-extended by `add`, `sub`, `or`, `xor`; an index that holds a pointer;
  `neg` and `not` of an address; a second round adds to what the first one found;
  the absolute entry of a set of several regions is not compared.
* Taint: of an instruction with two defines only the second has sources, so that
  `push` loses the taint of what it stores; instructions after number 927 from the
  crash are not followed.
* The build with value sets does not compile in this commit (a brace is missing in
  `re_vsmanager.c:497-539`), and without the AST it never says that accesses alias.

## Proofs

`UnknownWrites_proofs` proves for any number of nodes that `umemlist` is in
strict order of age (`UmemOrdered`) and that the walk of `resolve_alias` may stop
where it does (`EarlyExitSafe`).  The inductive invariant adds to the order that a write not
yet listed is younger than all listed ones.

`ReverseProps_proofs` proves what reverse execution promises whatever it reads:
for any set of traces that meets `TracesAssumption` (instructions of the model, and a
log of registers with values of their width), any `Radix` and `DW`, and any function in the place of
`check_alias_pair`, right or wrong.

* `ListsAlwaysReady`: the work lists hold nodes of their kind, each once, with a value
  or an address, as the assertions of `resolve_use` and `resolve_define` ask.
* `LoopsDrain`: each turn of the loops of `re_resolve` learns something or leaves
  less work.  That this ends them (`Terminates`) is left to TLC.
* `KnownForever`: no address and no value is taken back or replaced.
* `UmemAlwaysReady`: `umemlist` is in order of age, and whenever no work waits it holds
  exactly the writes of unknown address.
* `UmemImplements`: reverse execution implements `UnknownWrites`, so that what is
  proved of the early exit holds of it.

What they assume of a run is stated as a formula that must hold throughout it, and
`TypeOK` checks the first two on every trace of `reverse_ht`:

* `BaseAsLogged`: `correctness_check` accepts as the base of an address the value that the log has
  for esp, and also that value less a word, which is what `push` leaves;
  `init_reg_use` would replace the second kind by the first.
* `AddressesNonZero` (for the two on `umemlist`): 0 stands for an unknown address, so a
  write whose address is computed as 0 leaves the list and is unknown still.
* `CoreBounded` (for the refinement): the main list has at most `MaxNodes` nodes, the
  bound that `UnknownWrites` is instantiated with.

The argument.  `Shape` says which records the nodes are and how uses, defines and the
node of their instruction lie in the list.  It does not suffice: a resolver gives a
value the width of its operand only if the values it was given have the width of
theirs (`Recorded`, `Addressed`), and only if the instruction has the uses and
defines that its rules name (`AllEnough`).  Together they are `Sane`.
`OneWriteEach` (an instruction writes memory once) and `Logged` (what the log says
of a place fits it) make `Standing`, and `Rounds`, which says what of the lists is
empty at which point of the two rounds, completes the inductive invariant `IInv`.
The functions of `Resolve` are called inside each other, some thirty deep, and each
has a lemma of one form: from a sane structure it makes one that is sane and
related to the old one.  `Grows` is that relation (nodes keep what is known, lists
gain only nodes that had no value before), it is transitive, and the lemmas compose
along it; `Tells` adds that a list which gained a node is a node that learned, from
which `LoopsDrain` counts what is unknown.  For `umemlist` the invariant is `UmInv`:
members are unknown writes in order of age, and an unknown write is missing only
while the newest instruction has not been worked off (`Waiting`).
The walks of the code that a RECURSIVE operator would model are folds or recursive
functions there; what a fold does is proved by induction on its length, stated for a
set of numbers (`SetInduction`) because a predicate cannot be passed to a library theorem.

`HypothesisQuery_proofs` proves, for any number of nodes, `TypeCorrect`,
`ListsWellFormed`, `TestLeavesNothing` and `TestIsolated`; the one assumption is
`N \in Nat \ {0}`.  The argument:

* `Ring(l, h, S)` says that `next` and `prev` undo each other on `S` and its head
  `h`, and that no proper subset of `S` is closed under `next` from the head.  The
  second part is what makes `S` the members of ONE list; without it a list could
  fall apart into two circles and the ghost sets would not be what a loop finds.
  The lemmas of `IntrusiveList_proofs` say what each operation of `list.h` does
  to a ring: `RingAdd`, `RingDel`, `RingEmpty`, `RingFrame` (writes elsewhere do
  not matter), `RingMove` (`REPLACE_HEAD` moves a list that is not empty; an empty
  one would keep a link to the old head, and `ht_verify_alias` is only called with
  an unknown write at hand).
* `WellLinked` is not inductive: which lists exist depends on where control is,
  and the loops are in the middle of them.  `IInv` adds `Levels` (`rec_count`,
  `aliasret` and what of them is on the stack, by control point), `Cursors` (the
  walk of `resolve_alias` stands on listed nodes of the main structure even while
  it waits for a test) and `Loops` (what a forking loop has behind it lies between
  its cursor and the end of the list, so that no node is copied twice and
  `list_add` is only used on cells that are on no list).
* One lemma per action shows `IInv'` and, on the way, that the links and contents
  of the original nodes are as before if a test is under way, which is `Isolated`.

The last part of `HypothesisQuery_proofs` proves `QueryAtomic`: an alias question with its forks,
jumps and frees implements one that reads `umemlist` entry by entry.  The mapping
collects the list along its links; that the collected sequence is the ring, each
member once and in order, is an induction over the numbers up to its length
(`SetInduction`).

`SystemCalls_proofs` proves, for any table of calls:

* `BlockConsistent`: the block is in `umemlist` exactly while its call is pending.
* `NothingPassed`: what the kernel wrote is covered at every step, if the kernel
  writes what the resolvers say (`KernelWrites`; `getrusage` and `_llseek` do not).
* `DefinesInOrder`, `NothingKnownDropped`: the block keeps its shape and what was known,
  if no call receives a single byte (`NoOneByte`).  Such a call is resolved twice, and
  the run `syscall_onebyte` shows it; the hypothesis is that finding.

`InstructionStep_proofs` proves `KnownIsKept`: no resolver replaces what is known, for any
set of instructions except the one-operand products and quotients (`NoPairs`).
Their resolvers assign two results when one of them may be known already.

The other theorems are about any set of instructions that are `Supported`, with any
values at the places they touch (`InstancesAssumption` asks only that these have the sizes
of the operands), for any byte of one to eight bits; a double word has four bytes, as in
the code (`WordAssumption`).

* `OnlyTruth`: a resolver concludes only what the processor did, and finds no contradiction,
  whatever is known and in whatever order it came (`Sound`).
* `NoAssertionFails`: a wrong value meets a contradiction or nothing (`NeverAborts`, which
  leaves out `xor` and `pxor`, whose assertion lacks its parentheses).
* `SaidAll`: a resolver that has run need not run again before a value arrives (`Settled`).
* `WritesComputed`: what is written is computed once all that is read is known (`Computed`).
* `ChangesDefined`, `MemoryAddressed`, `Typed`: `Covered`, `Addressed` and `TypeOK`.

The argument is a contract, `Good(i)`, of the handler and the resolver of one instruction.
Its handler's nodes define all that the instruction changes and are split (`AllDefined`,
`SplitAll`), and from any knowledge that is typed and grew from the handler's (`Live`) the
resolver makes knowledge that is typed, replaces nothing, is true if it was true before, and
has nothing to add (`Resolved`).  The contract, and not only `Sound`, is what is inductive:
under a wrong hypothesis values that no execution has are told, and must still have their
sizes and still agree with each other when the resolver looks again.  `AlwaysTaught` is the
invariant that follows from it, `AllGood` the contract for every supported instruction, by
one lemma for each kind (`GoodMov`, `GoodAdd`, ...).  These rest on
`InstKnowledge_proofs`:

* numbers: digits in any base and back (`Digits`, `Number`), by induction over their count,
  and from them sums, differences, shifts, rotations and masks of values, and the sign
  extension of a shorter one; what is done byte by byte or bit by bit undoes itself;
* nodes: which uses and defines the nodes of a handler are, put together one after another
  (`Complete`), because a resolver finds its operands by position;
* shapes of resolvers: one use and one define that are functions of each other (`OneTie`),
  defines that are only computed forwards (`OneComputed`), two uses and their define, any of
  which follows from the other two (`AllReversed`, `XorResolves`), and chains of such
  parts, none of which touches the nodes of another (`AllChained`): exchanges, the stack
  and the string instructions with their pointers, counter and datum.

What they do not say: `Supported` has no product, no quotient and no `shld` (of these only
`div` is in a run), and `Computed` excepts what `Silent` lists, since there the tool leaves
the result to other instructions on purpose.

`ValueSetAnalysis_proofs` proves `SoundAlways`, `NoAliasAlways`, `LastWriteAlways` and
`TypesKept` for longs of any width above two bits, traces of any length, any unknowns that are
places of regions, and any instructions but `and`, `or` and the `xor` of two different
operands (`Unmasked`), for traces that keep to `Ordinary`.  The layers of the argument:

* Two's complement: `Long` is the one long that differs by a multiple of `Words`
  (`LongIs`), and between two numbers that wrap together all others wrap with them
  (`LongBetween`).
* Intervals: each of `si_add_offset`, `si_add`, `si_sub`, `si_neg`, `si_not` and
  `si_mul_offset` keeps its interval well formed and the result of every pair of
  elements inside it; for `si_add` because a gcd divides both strides (`Gcd`).  A walk
  with a counter meets every element also when the counter wraps (`Walked`), so that an
  answer of `si_overlap_with_len` may be trusted (`OverlapNo`, `ContainYes`).
* Value sets: without masks a set never has a second region, and `AddSound`, `SubSound`,
  `AddressSound` and `LeaSound` carry the layer below over to values and addresses.
* The pass: the invariant `IInv` says that registers and defines are in their sets, that
  the address of a define is one place (`Placed`), and that an access of one size either
  goes to the place of the define that answers "exact" or "super" (`Hit`) or, if the
  search goes past the define, misses it (`Missed`).  `LoadRight` puts these together.

Powers of two are counted (`Power`: subsets of a set), as the provers know none.  The
masks are left out because what `minOR` and `maxOR` do is a sum over bits, a fold over
data; soundness of these rests on the instance.

Only model-checked:

* what depends on the truth of the values in reverse execution: `Sound`, `NoContradiction`,
  `VerdictsRight` (at every point of the second round, work in progress included),
  `TruthRight` and `TaintReal`;
* of value sets, the operations on bits (`si_or`, `si_and`, `si_xor`, `valset_and_offset`), and
  that an analysis without the discipline goes wrong (`CorrectnessCheck`);
* `Settled` of reverse execution, which says of every pair of nodes that a resolver would
  find nothing more;
* `Terminates`, `TestEnds` and `Unblocked`: liveness is out of the prover's reach.

## Not modelled

* The heuristics of the second round, frame pointer recovery and function ids
  (`heuristics.c`, `bin_alias.c`, `re_dsmanager.c`): they search the trace for the
  idioms of one compiler, and what makes them right is a property of compiled code.
* Loading of trace, log, regions and core dump: text and ELF parsing.
* The tracers: they run inside Pin; their output is `Machine`.
* The value set handlers with two results, `leave`, `movsx` and `bswap` (which adds to
  its source), region segments, gs, and the presets from logged calls.
* The constraint solver (compiled out), logging and timing, the data set scripts and
  the network.
* `assert_address` outside of a hypothesis jumps to a frame that is not there; the
  core stops with `out = "wild"`, and no program of the runs reads unmapped memory.

## Plan

1. done: core list, propagation, hypothesis test, ground truth, `umemlist`.
2. done: every instruction's handler and resolver, one at a time.
3. done: the hypothesis protocol (`save_re_ds`, fork, `longjmp`, restore), with
   proofs that the lists stay well formed and the main structure is untouched.
4. done: strided intervals, value sets, the forward pass; system calls; taint.
5. done: the shape of `re_ds`, its work lists, `NothingForgotten` and `umemlist` of
   `ReverseExec`; the refinement of the alias question; system calls; every property of
   `InstructionStep`, for the supported instructions; value sets without masks.
6. `InstructionStep` composed with `ReverseExec`: the rules of `Resolve` taken from
   the resolvers; system calls inside reverse execution.
