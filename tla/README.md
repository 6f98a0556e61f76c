# A TLA+ model of the C-minus/SysY compiler

The repository is an optimizing compiler from SysY (a subset of C) to LoongArch
assembly, written in C++17. This directory holds TLA+ modules that model its
algorithms, TLC configurations that check them on small instances, and proofs
that TLAPS checks.

A compiler is a sequential program: one thread runs one pass after the other, no
pass is interrupted, and nothing is persisted. What makes this one hard to test is

- *order*: many algorithms walk `std::set`s and `std::map`s keyed by pointers, so
  the order of a walk changes from build to build and from run to run. Wherever
  the code iterates over such a set the model takes the elements in any order;
- *the generated program*, which is a second system with its own steps: moves that
  overwrite each other, a branch that leaves a block in two ways, a call;
- *global invariants of the IR* that one pass establishes (SSA, no unreachable
  blocks, reducible graphs, contiguous loops) and a later one relies on silently;
- *work lists that refill themselves*, whose end is not obvious;
- *state kept by hand beside the structure it describes*: use lists, stack offsets,
  the growth of the stack in a call, per-register maps.

## 1. Inventory

| Component | State | Operations | Who calls it | Hard behaviour | Correct when |
|---|---|---|---|---|---|
| Front end (`parser/`, `common/ast.cpp`, `Builder/`) | AST, scopes, current block | visitors that emit IR | `compiler.cc` | short-circuit conditions, array initialisers | the IR means the program |
| IR (`MIR_new/`: Value, User, Instruction, BasicBlock, Function, Module) | operand lists, use lists, instruction lists, successor and predecessor sets | `set_operand`, `replace_all_use_with`, `remove_use`, block and edge removal | every pass | two structures that must mirror each other, `weak_ptr`s | use lists and operands agree; successor and predecessor sets agree |
| Dominators, PostDominators | `visited`, `visit_order`, `idom_`, `dom_frontier_`, `dom_tree_succ_blocks_` | number, prune, improve in passes, frontiers | Mem2Reg, DeadCode, LCE, LoopInvMotion | fixpoint, pruning the function under analysis | trees and frontiers are those of the definition |
| Mem2Reg | `bb_queue`, `all_bb_phi`, `var_to_val_stack` | insert phis, rename recursively | once, second pass | global stacks, phis without operand | the program computes the same |
| SCCP (`SCCPSolver.hh`, `SCCP.hh`) | lattice, edge flags, three work lists | visit instruction, mark edges, rewrite | twice | order of lists, monotonicity | constants are constants on every execution |
| DeadCode / ADCE, FuncInfo | marks, work list, purity | mark, sweep, redirect branches | several times | post-dominance with infinite loops, phis of redirected edges | only unobservable code goes |
| SimplifyCFG, RemoveUselessBr | IR only | merge blocks, fold branches and phis until a limit | several times | editing sets that are iterated over | executions unchanged, phis match predecessors |
| LCE, AliasAnalysis | tables of expressions per scope | walk the dominator tree | twice | scoping, calls that invalidate | an expression is replaced by an equal one that dominates it |
| LoopSearch | reserved bases, `base2loop`, `bb2base` | Tarjan, find base, remove it, repeat | loop passes, RegAlloc | pointer order, nested loops | loops are natural loops |
| Loop passes (LoopInvMotion, LoopUnrolling, LoopMerge, IVReduction) | IR, LoopInfo | hoist, unroll, merge | pipeline | trip counts, wrap-around | executions unchanged |
| Interprocedural (FuncInline, TailRecursionElim, GlobalVarLocal, DeadGlobalElim) | call graph | inline, rewrite, localise | pipeline | recursion, phis of split blocks | executions unchanged |
| Algebraic passes (ConstFold, AlgebraicSimplification, DivisionInvariant, MulWeaken ...) | none | rewrites of one expression | pipeline, SCCP | width, sign, zero | equal modulo 2^32 |
| RegAlloc (`codegen_new/regalloc.*`) | linear order, intervals, active/inactive/unhandled, `split_moves`, `move_mapping`, `call_saves` | linear order, build intervals, linear scan, resolve | Codegen, once | splitting refills the list; pointer order; holes | one live value per register, and copies where a value moves |
| Codegen (`codegen_new/codegen.*`, `instgen.*`) | `pos`, `stack_growth_since_entry`, output | `gen_bb`, `gen_br`, `gen_function_call`, `parallel_mov`, `topo_sort` ... | driver | cyclic moves, branch edges, scratch registers | the machine computes what the IR says |
| Driver (`compiler.cc`, `Pass.hh`) | the list of passes | run in order | user | passes rely on what earlier ones left | - |
| Runtime (`lib/`) | none | I/O | generated code | - | - |

How they interact: the driver builds the IR, runs the fixed list of passes of
`compiler.cc` over it (they communicate only through the IR; analyses are recomputed
by the pass that wants them) and hands the module to `Codegen`, which has `RegAlloc`
treat every function and then asks it (`get`, `get_loc`, `split_moves`,
`move_mapping`, `call_saves`) where each value is while it emits code.

The hazards of this code are listed with their lines in `PROJECT.json`, each with
the properties that would catch it; where a condition of section 3 or the bounds of a run keep
its own case out, a note says so.

## 2. Modules

### Back end

`RegAlloc` and `Codegen` as they follow one another:

| Module | Code | State | Actions |
|---|---|---|---|
| `Layout` | `RegAlloc::run`, up to linear scan | the four modules below, and the stage | their actions, and the hand-overs `EndSearch`, `Number` |
| - `Tarjan` | `traverse`, `scc` | `dfn`, `low`, the stack, the activations of the recursion | `Root`, `Descend`, `Look`, `Return` |
| - `LoopSearch` | `loop_search::run`, `find_loop_base`, `get_parent_loop` | the edges left, the components of the round, reserved bases, `base2loop`, `bb2base` | `Round`, `Record` |
| - `LinearOrder` | `construct_linear_order` and its recursion | the list so far, a frame for each activation | `Start`, `Recurse`, `Push`, `Return` |
| - `BuildIntervals` | `build_intervals` | ranges, use positions, `liveIn`, the block reached | `Start`, `Visit`, `Arrive` |
| `LinearScan` | `linear_scan_ssa`, `interval_ssa` | `unhandled`, `active`, `inactive`, `handled`, the keys of the two maps, `split_moves`, `sp_offset` | `Take` (pop, expire, wake), `Allocate` (fit, cut, spill, displace) |
| `BlockEdge` | `gen_br`, `resolve_moves`, `resolve_split`, `RegAlloc::resolve` | the emitted code of the end of a block, and its execution | `GenBr`; `Copy`, `Test`, `Leave` |
| `CallFrame` | `gen_function_call`, `prologue`, `epilogue`, parameter loading, `gen_ret`, `call_saves` | registers, stack words, `sp`, `fp`, `stack_growth_since_entry` | one for each stretch of emitted code |
| `ParallelMov` | `parallel_mov` | what each register and slot holds, the pass and its remaining moves | `StoreOne`, `MoveRegisters`, `LoadOne`, `Floats` |
| `InstSel` | `gen_bb` and the emit functions of `codegen.cc`; `Instgen` (`instgen.cc`), whose instructions are operators on a machine with registers twice as wide as a word, which refuses what the assembler refuses | the machine `m`; what every register should hold (`means`) and the memory (`cells`); the comparison in front (`cond`); where the branch went | one for each emit function, `GenBinary` to `GenLoad`, with the operands and the result in any register |
| `TopoSort` | `topo_sort` | the DFS stack, colours, edges, `temp_pool`, the movs emitted | `Start`, `Skip`, `Descend`, `Finish`, `BreakCycle`, `Return` |
| `ParallelCopy` | - | abstract: the moves pending and what registers hold | `Emit`, `Detour` |

They lean on each other as the code does. In `Layout` each part works on what the part
before it has left: the loops of `LoopSearch`, whose searches are runs of `Tarjan`, are
those `LinearOrder` goes by, and `BuildIntervals` walks the list `LinearOrder` made,
backwards. `LoopSearch!Round` takes the cycles from their definition; `Layout` has the
search take their place, and `SearchSpec` says that it implements `LoopSearch`.

`ParallelCopy` is the promise of the moves: all happen as if at once. `TopoSort`
implements it (`CopySpec`, with `pending <- {e \in edges : visited[e[1]] # 2}`).
`ParallelMov` takes `topo_sort` as one step with the result `TopoSort_proof!Delivers`
proves. `BlockEdge` and `CallFrame` take a `parallel_mov` as one simultaneous assignment,
which is what `Transfers_proof!Moves` proves. `LinearScan` takes as its input the sound shapes
of live ranges, which `Layout` shows `build_intervals` to produce. `InstSel` takes any
assignment of values to registers that keeps those alive apart, an operand and the result in
one register included, which is what `LinearScan` gives; the copies between instructions are
those of `BlockEdge` and `CallFrame`. `Transfers` checks `ParallelMov`, `BlockEdge` and
`CallFrame` side by side; a behaviour belongs to one of the three.

### Middle end

| Module | Code | State | Actions |
|---|---|---|---|
| `Flow` | - | none: the textbook definitions (reachability, dominance, natural loops, reducibility) that the algorithms are compared with, and the sets of graphs the runs go through | |
| `Dominators` | `Dominators`, `PostDominators` | blocks and edges, the activations of the search, `idom`, the rest of the pass | `Call`, `Number`, `Prune`, `Improve`, `Repeat`, `Generate` |
| `Mem2Reg` | `Mem2Reg::run`, `generate_phi`, `rename` | the state of `Dominators`; queues, phis, the activations of `rename`, `var_to_val_stack`, replaced loads, phi operands; then both programs | `ComputeDominators`, `Collect`, `InsertPhis`, `Start`, `Recur`, `Return`; `Load`, `Store`, `Goto` |
| `CleanUp` | the driver's sequences `SCCP, DeadCode, SimplifyCFG` and `SCCP, ADCE, SimplifyCFG` | the function given (`original`), the function as it is (`f`), the stage | those of the three passes below, and the hand-overs `EndPropagate`, `EndEliminate` |
| - `Ir` | `Value`, `User`, `Instruction`, `BasicBlock`, `Function`, as far as the passes use them | none: a function is a record of the order of its blocks, their code, `pre_bbs_`, `succ_bbs_` and the variables used; the operations that edit it | |
| - `Ssa` | - | none: what it means to execute a function without memory, on a modulus | |
| - `Sccp` | `SCCPSolver`, `SCCP` | the lattice, the three work lists, the blocks and edges found feasible | `Start`, `TakeValue`, `TakeBlock`, `ProcessUnknown`, `Rewrite` |
| - `DeadCode` | `DeadCode`, with and without ADCE | the iteration | `DeadCodeIteration`, `AdceIteration` |
| - `SimplifyCFG` | `SimplifyCFG` | the blocks of the round still to visit in post-order, whether the round changed anything | `Begin`, `RemoveUnreachable`, `Simplify`, `EndRound` |
| `Arithmetic` | the passes over expressions, in the order of `compiler.cc` | the block given, the pass, the code and the place reached, the forest of `AlgebraicSimplification`, whether a pass hangs | one for each pass (a step is one instruction), and `NextPass` |
| - `Words`, `Straight` | `ConstFold.hh` | none: words of two's complement; what a straight-line block computes | |
| - `DivisionInvariant` | `DivisionInvariant` | shares that of `Arithmetic` | `Next`: an instruction divided by a constant, `choose_multiplier` and its assertions |
| - `Algebraic` | `AlgebraicSimplification` | the same | `Next`: build the tree of an instruction, collect, emit |
| - `Strength` | `MulWeaken`, `UselessOperationEli`, the folding of SCCP, `fuse_mul_add` and `fuse_const_shift` of `LowerIR` | the same | one for each of them, and `Sweep` for `DeadCode` |
| `Interprocedural` | the passes on whole programs; `FuncInline` and `TailRecursionElim` with their rewritings | the module, the pass, the functions it has still to look at, what the program did at first | `RemoveGlobals`, `EliminateTails`, `InlineOne`, `InlineNext`, `LocalizeGlobals` |
| - `Program` | - | none: what a program with functions, globals and memory writes and returns, and how often it reads, in a bounded number of steps | |
| - `Globals` | `DeadGlobalElimination`, `GlobalVarLocal`, `FuncInfo` | none: their rewritings, and which functions are pure | |
| `LocalPasses` | the passes on the code of one function | the module, the pass, what it still has to look at, its walk, what the program did at first | `Unroll`; `Merge`; `Forward`; `Begin`, `Hoist`, `End` |
| - `Redundancy` | `LocalCommonExpression`, `AliasAnalysis`, `Peephole` | none: tables of expressions and what is known of the memory, along a walk | |
| - `Loops` | `LoopInfo`, `LoopUnrolling`, `LoopInvMotion` | none: induction variables, trip counts, cloning; variants of a loop, and what leaves it | |

`Mem2Reg` composes with `Dominators` as `Mem2Reg::run` does: it has the dominators
computed, and puts phis where they say. The same runs also go through the reversed graphs
of `PostDominators`, which end with the frontiers.

In `CleanUp` the passes edit one function in turn, each the one the pass before it has
left, with its lists of predecessors and successors as that pass has edited them.
`BehaviourKept` executes the function given and the function as it is, for every value
read, and compares the calls and the result; `ConstantsHold` compares the lattice
with those executions. `Interprocedural` and `LocalPasses` do the same for programs with
calls, globals and memory: `promised` is what the program given did for every input, and
`ProgramKept` compares it with what the program does now, after every single rewriting.
A pass can be switched off on the command line, hence a run may start with any pass; and what
one pass leaves is what the next one gets, in the order of the driver.

Recursion in the code is an explicit stack of activations in the model, because the
orders in which a recursion can unfold are what the properties are about. Loops over
pointer-ordered sets are `\E`.

`Mem2Reg` and `BlockEdge` and `CallFrame` model a translator *and* what it produced:
first the actions of the compiler run, then those of the generated program, and the
property says that the program sees what it should. In `Mem2Reg` both programs run
side by side; a value is named for the instruction that computes it, and `same[v]` is
the set of names of the new program that currently hold what variable `v` of the old
one holds.

`MC*` modules instantiate a module for TLC: sets of blocks with symmetry, the shapes of
live ranges, the instruction sequences of a block, the programs. Operators marked "faulty" are
variants of the operator they stand in front of, with one plausible mistake; no
specification uses them. They are what `PROJECT.json` replaces the right operator by, to
show that each property would notice the mistake.

## 3. Runs

### Passing

| Run | Instance | What it shows |
|---|---|---|
| `topo_sort` | registers 0..4 (the five the allocator has), pool of two, every set of moves; 92,122 states | delivers, emits nothing twice, ends, implements `ParallelCopy` |
| `transfers` | `ParallelMov` with 2+2 registers, 2+1 slots, a constant of each class; `BlockEdge` with 2 values, 3 places, 2 successors; `CallFrame` with 2 int and 1 float argument registers, up to 4 arguments; 2.6 million states | no source is overwritten before it is read, as long as no slot is both read and written; both ways out of a block deliver, under the conditions stated in `BothEdgesDeliver`; arguments, live registers, frame and result survive a call |
| `layout` | every reducible graph of 5 blocks, every order of the sets; live ranges on those of 4; 422,664 states | loops are the natural loops, one per header, in every order; the linear order has every block once, after its predecessors, loops contiguous; one backward pass finds exactly the path-based live range; the search implements `LoopSearch` |
| `linear_scan` | 3 values (one an argument), 2 registers, 3 blocks | one live value per register; every value has a place; every change of place has its copy; copies before an instruction spare its operands |
| `inst_sel` | two instructions of any kind, 2 int and 1 float register in any assignment, words of 6 bits, immediates of 3; 425,596 states | every emitted sequence leaves what the IR says in the registers and the memory, with operands and result in one register, and with constants on both sides of what an immediate holds; branches go the right way |
| `mem2reg` | every graph of 4 blocks, unreachable blocks included, and the reversed ones; 1 variable, or 3 in graphs of fewer blocks; 392,424 states | dominance and frontiers as defined; every replaced load has the right value on every path; stacks are scoped |
| `clean_up` | 5948 functions over six shapes of up to five blocks, words of one bit; 219,921 states | what SCCP finds holds in every execution; every pass keeps the calls, the result and the lists of predecessors and successors; the exits are met by no functions but those stated |
| `arithmetic` | 1983 blocks of two or three operations, words of 4 bits, every value of the argument; 115,363 states | division by every constant, reassociation, products to shifts and fused operations keep the value for every argument; the assertions of `choose_multiplier` hold; only the ends of the range make a pass hang |
| `interprocedural` | programs of main and two functions that call each other, a scalar and an array, words of 4 bits; 10,874 states | what a program writes and returns survives the removal of globals and functions, tail recursion, inlining and the globals that become locals; `FuncInfo` calls pure what is pure |
| `local_passes` | programs of main, a pure function and one that stores; loops counted up and down, a diamond, three accesses in any order; words of 5 bits, `MaxConstTimes` 4 and `BaseTimes` 2; 19,952 states | what a program writes and returns survives unrolling, merging, forwarding and motion, in sequence; the lists of blocks follow; every use is dominated by the one definition |

### Where the code and what is said of it part

Each of these runs checks one property taken from a comment or test, and TLC finds the
behaviour that breaks it. `PROJECT.json` quotes the line.

| Run | Property | In short |
|---|---|---|
| `sccp_stale` | `ConstantsHold` | a value that becomes constant does not have its users visited again, so a loop counter is taken to be constant |
| `peephole_stale` | `LastUpdateKnown` | `ptr2val` is said to have the update of an address in the block; where a load put the value there first, `insert` leaves it, and the later store is not known |

### Conditions of the passing runs

The passing runs hold under conditions, which are constants or antecedents in the modules.
They are real: outside of them the models show the code to go wrong as well.

| Condition | Where | What happens without it |
|---|---|---|
| no slot is both read and written by one set of moves | `ParallelMov!SlotsApart`, the antecedent `Apart` of the proof | slots are moved in the order given, so two spilled phis that exchange values lose one (the FIXME at `codegen.cc:1197`) |
| registers of the moves are below `PoolFloor` | `TopoSort_proof!LowRegs`, `TopoSort.cfg` | a finished argument register 10..16 joins the scratch pool (`codegen.cc:1479`) and may be overwritten to break a later cycle |
| an argument occupies a register the allocator's maps know | `MCLinearScan!MCArgReg` | `nextUsePos[r]` inserts 0 for a new register (`regalloc.cc:345`), splits cascade, and a copy at an output position overwrites what the instruction still reads |
| no value changes place at an integer branch | `BlockEdge!BothEdgesDeliver` | `resolve_split` stands behind the conditional jump (`codegen.cc:1005`), so the else way misses the copy |
| the first target of a float branch needs no copies | `BlockEdge!BothEdgesDeliver` | its copies stand before the test (`codegen.cc:1018`) and run on the way to the other target, too |
| the scratch registers pass no arguments | `Lhs`, `Rhs` in `Transfers.cfg`; `ScratchFree` of `Transfers_proof` | registers 11..13 are both (`codegen.cc:9`, `regalloc.hh:163`): the twelfth argument may be overwritten |
| live registers are among the saved ones | `IntRegs`, `FloatRegs` in `Transfers.cfg`; `LiveSaved` of `Transfers_proof` | float registers 16..29 are handed out (`regalloc.cc:832`) and saved by nobody |
| every block that is reached leads to the return | `CleanUp!Ends`, before ADCE | `PostDominators` deletes an endless loop and ADCE the branch to it, with the calls in the loop; `SimplifyCFG` exits, or replaces an empty block that jumps to itself for ever, hence the antecedent of `NoExit` |
| every phi has a pair for each predecessor | `Partial`, in `NoExit` | SCCP exits ("zero operand inst") when a variable left unset on the only feasible edge makes a phi without pairs, though the program may not read it |
| branches test what was computed in their block or read in the entry | `MCCleanUp!MCFunctions` | run `sccp_stale` |
| no float result | `Results` in `Transfers.cfg`; `LiveSaved` | the callee leaves it in an integer register, the caller reads a float register (`codegen.cc:930`, `881`) |
| `get_parent_loop` may answer "none" | `LoopSearch!ParentIsNoStranger` | it does for an inner loop entered from a sibling loop (`LoopSearch.cc:218`), although there is a parent |
| only code LoongArch has | `Ported` in `InstSel` | the port from ARM is not finished: a comparison used later than right behind it gets a register that is never written (`regalloc.cc:118`); a widened `eq` or `ne` is a difference (`codegen.cc:648`); a constant on the right of a select overwrites the condition (`codegen.cc:531`); the shift of an offset from a base in a register is dropped (`codegen.cc:1263`); the conditional moves of floats are ARM's |
| tail calls accumulate with one operator, or none does | `Interprocedural!Uniform` | the accumulator has no value on the call that does not accumulate (`TailRecursionElim.cc:108`) |
| only main owns a global that becomes a local | `Globals!RunsOnce` | a function that runs again finds the initial value (`GlobalVarLocal.cc:47`) |
| between two calls a block stores nowhere it has loaded from, nor reads what may be a place it stores to again | `Redundancy!Ordered` | run `peephole_stale` (`Peephole.cc:33`) |
| what leaves a loop lies in one block of it; a store that leaves is one every execution begins the loop with | `Loops!Movable`, with `ChainsInBlock` and `StoresFirst` | the blocks are visited in the order of a pointer set, so an instruction may leave before the one it uses; a store is made though the loop may not run (`LoopInvMotion.cc:145`) |
| a loop tests at its end, has a preheader and an exit, goes towards its bound and meets it, and does nothing else before the test | `Loops!Countable`, that is `Drawn`, `Closed`, `Counted`, `Repeatable` | the trip count rounds (`LoopUnrolling.cc:432`), and what is done before the test is done once more or less |
| no division by the least word and no product with the greatest | antecedent of the hang in `StopsAtExtremes` | `mylog2` never ends for a negative magnitude (`DivisionInvariant.hh:20`), nor does the search for the next power in `MulWeaken.hh:34` |

### Bounds, and why they are enough

- Graphs: 4 or 5 blocks hold a loop in a loop, two loops in a row inside a third, an
  irreducible pair with two entries, a diamond in a loop, a loop of one block. A graph has
  one entry without predecessors, and a block has at most two successors, as `br` does.
  Up to renaming the blocks other than the entry *all* graphs are visited; the symmetry is
  sound because no operator of these modules orders blocks.
- `MaxSearched`: of at most four nodes the search for cycles is taken step by step, in every
  order; on five nodes (the first round on a graph of five blocks) it is one step with the
  result it has by definition. `MaxIntervals`: orders of up to four blocks go on to live ranges.
- Live ranges: one value, since the pass treats values one by one; `MaxUse` of two uses shows one
  use above and one below a loop's end; one instruction per block beside its phis (`Length`).
- Moves: five registers hold a cycle of two beside a cycle of three, a cycle with a tail, a
  fan-out. A pool of two is the float pool, the smaller one.
- Linear scan: two registers and three values make one compete for a register with two others,
  three blocks give a hole in the middle of a range and a definition in each part. A use more
  than `MaxUse` only shortens the distance of the next use.
- Call: limits of two and one argument registers instead of 17 and 16: what matters is to
  have arguments on both sides of each limit; four arguments (`MaxArgs`) put an even and an odd
  number of words on the stack.
- Clean-up: a join with a phi, a value computed from it anywhere, a branch that tests either of
  them, a constant or something unknown, and a call that shows it are what the passes can tell
  apart; with words of one bit (`Modulus` 2) a value is a constant or it is not, and counts wrap
  around. `Fuel` follows an execution for ten blocks, three turns of the longest loop, after which states repeat.
  Of two branches at least one tests the value read (`Conds`). `MaxIter` is the limit of the code.
- Instruction selection: two instructions show a result that is an operand of the next and a temporary
  left over from the one before. Six bits and immediates of three have values below, at and above each
  bound of `instgen.cc` and of the halves a large constant is split into; a float is a number whose bits
  are another one, so no move between the classes goes unnoticed.
- Arithmetic: with four bits every divisor, every factor and every argument is tried, both ends of the range
  among them; `Inputs` has three values of the second argument. Two operations feed one another in each order,
  three make a sum of products that is shared or not.
- Whole programs: `Steps` of 60 follows a recursion from the inputs to its end, and a program that does not end in
  time has to agree only as far as it got. Two functions below main call each other or themselves, before
  or after the other's inlining; a global is used by one, by both or by neither, a scalar or an array.
- Loops: trip counts below, at and above `MaxConstTimes` and `BaseTimes`, which the code has as 105 and 4; loops of one block and of
  several, a loop in a loop, stores and calls at either side, an address that is invariant or is not.
- Mem2Reg: one variable is enough for phi placement and renaming, which treat variables
  separately; three are needed when loaded values are stored to other variables, and graphs of up
  to three blocks (two loops, a join) show phis that read each other.

### Fairness

Only `TopoSort!Terminates` needs it: `WF_vars(Next)`. The compiler is a single thread that
is never blocked, so if it can take a step it takes one. No fairness among the choices is
assumed: the order of the sets is arbitrary for ever. That the passes of `Dominators` end
follows from `OnlyClimbs`: every change moves an immediate dominator up the post-order.

`CHECK_DEADLOCK FALSE` stands in configurations whose specification ends: the function has
been processed, the call has returned.

## 4. Proofs

| Theorem | Says | Argument |
|---|---|---|
| `ParallelCopy!Intact` | while a move is pending, its value is where it will be read | an inductive invariant that says where each first value lives: at its source, or in the scratch register that took over its moves |
| `ParallelCopy!Promise` | at the end all moves happened at once, nothing else changed | the same invariant and `pending = {}` |
| `TopoSort_proof!Implements` | `topo_sort` implements `ParallelCopy` | `Finish` maps to `Emit`, `BreakCycle` to `Detour`, the others stutter; the invariant says that an unfinished node has no finished target that would still be read (the DFS order), that colours and stack agree and that the pool is unused |
| `TopoSort_proof!Delivers` | the movs in order deliver | the refinement, and `Promise` for the `ParallelCopy` it implements |
| `TopoSort_proof!TypeCorrect` | the search keeps its stack, colours, edges and output well formed | a conjunct of the invariant above |
| `TopoSort_proof!EmittedOnce` | no move is emitted twice, and the pool is never found empty | `OnceInv`: a register is the target of one edge, one scratch register is out of the pool at a time and waits at the bottom of the stack, and an emitted move belongs to a finished node or to one whose edges have left it for good |
| `Transfers_proof!Moves` | the three passes deliver and read every source in time | a location that is overwritten in a pass is no source of a later one |
| `LinearScan_proof!RegistersHoldOneValue` | no register holds two values at one position | `OneEach`, below |
| `LinearScan_proof!PlacesAreKnown` | wherever a value is live it has a register, waits for one or has a slot, and one place only | `Covered` and `Disjoint` |
| `LinearScan_proof!MovesAreComplete` | inside a block every change of place is in `split_moves`, and no other | `Recorded` and `SplitsInside` |
| `Transfers_proof!EdgesDeliver` | the code at the end of a block gives each successor what it reads | `EdgeInv`, below |
| `Transfers_proof!ParametersFound` | every parameter is where the callee looks for it | `CallBase` and `CallArgs`, below |
| `Transfers_proof!CallerRestored` | live registers, frame and result survive the call | `CallBase` and `CallResult` |
| `Mem2Reg_proof!Dominance` | `is_dominator` and the frontiers are those of the definition by paths, on every graph | `Dominators_proof!Inv`, below, and that nothing disturbs them until they are used |
| `Layout_proof!SearchIsCorrect` | on every graph, in every order of the sets and for every choice of the bases, each search finds the components that the definition by paths names: the refinement `SearchSpec` | `SInv`, below; `Mirrored`, which keeps an edge out of the nodes from being left behind when a base is taken out |
| `Layout_proof!LoopsFound` | what is recorded are the natural loops of the graph, each under its header, and in the end all of them | `RoundInv`, below |
| `Layout_proof!InnermostFound` | `bb2base` names the innermost loop of a block, and the parent of a loop is the next one around it, or nothing | `Innermost`, a part of `RoundInv`, and that a loop is entered over its header only |
| `Layout_proof!OrderIsLegal` | there is always a block to take, every block is listed once and behind its predecessors except over back edges, loops stand together, the returning block is last | `Walk`, below |
| `Layout_proof!LiveRangesExact` | the interval of a value holds every position where it is needed and no other, `liveIn` is right for every block, the uses lie in the interval and it begins with one | `IntervalInv`, below, and the graph by places (`LaidOut`), which follows from `Walk` |
| `Mem2Reg_proof!Climbs` | an immediate dominator only moves up the post-order | the same invariant: `RoundUp` |
| `Mem2Reg_proof!Scoped` | while `rename` recurses, the stack of a variable holds the stores and phis of the blocks whose calls are in progress, in their order, and nothing else | `WalkInv`, below |
| `Mem2Reg_proof!ValuesKept` | the name that took the place of a load holds what the variable holds, on every path through every graph; a phi has an operand for the edge taken | `WalkInv` and `Running`, below |

**What they assume.** They hold for every set of registers, slots, constants, values, places, blocks and
positions that satisfy the named assumptions: ids are numbers, scratch registers are not registers of the
moves (`IdAssumption`, `MovAssumption`, and the hypothesis `ScratchAssumption` of the first two, which
`IdAssumption` gives `TopoSort`); finished ids at or above `PoolFloor` are freed; `"none"` is no block
(`BranchAssumption`); the registers handed out are finitely many numbers, `temp_lhs_reg` and `temp_rhs_reg` not
among them, and argument slots lie in the caller's frame (`CallAssumption`); live ranges are non-empty sets of
positions with their uses inside, and two arguments never arrive in one register (`ShapeAssumption`,
`InputAssumption`); a function has finitely many blocks, the entry is one and `nullptr` is none (`GraphAssumption`,
which `Mem2Reg` assumes as `NullAssumption`; `Layout` the former as `BlockAssumption`); a block has a number of instructions (`LengthAssumption`). For `Mem2Reg` a function has finitely many variables (`VarAssumption`), and its blocks are sequences of loads and
stores, where a store writes a computed value or what a load before it in the block has read, with only loads in between (`CodesAssumption`): a value
that is copied after another store is not in the model. The conditions of section 3 are antecedents: `LowRegs` for what is said of `topo_sort`, `Apart` for `Moves`, `ScratchFree` (no argument of this call
is passed in a scratch register) for `ParametersFound`, `LiveSaved` (what is live is in registers that
`call_saves` saves, the result is no float) for `CallerRestored`; `BothEdgesDeliver` states its own. They are conditions
on the first state or on the constants, and the instances that TLC runs satisfy them.

**Parallel copies.** `Promise` alone would not be inductive: after some moves are emitted, what a target holds says nothing
unless one knows that the sources of the pending moves are intact, hence `Intact`. The type invariants
are conjuncts of the inductive invariants; that no register but the targets changes (`BystandersIntact`)
is proved and not checked again.

**Linear scan.** That two intervals with one register never overlap says nothing of what happens when an
interval is cut and its rest queued again, so the invariant has three parts. `Order`: the scan only
moves forward; nothing queued begins before the position, nothing handled lasts beyond it, and while an
interval is placed `active` and `inactive` are those that do and do not cover its start. `Kept`: the pieces
of a value are disjoint (`Disjoint`), cover its range until it is spilled (`Covered`), and where one piece ends inside
a block and the value lives on there is a split (`Recorded`), at such places only (`SplitsInside`). `OneEach` is then
kept by the four ways to give out a register: it is free for the whole interval; for a part, and the interval
is cut before the next use of the register; its holders are cut at the position or at their next
piece; or the interval is spilled. `MinOf` and `MaxOf` are the facts about starts and ends they all need. The model stops where the
code reads beyond the last segment (`stray`), and so does what is proved.

**Edges.** `EdgeInv` says what `gen_br` has emitted for each kind of branch, item by item, and with `Progress` what each place
holds when the execution has reached an item: the values where they are before the branch, after the split copies,
and after the copies of one edge. The label between the two halves is what makes it delicate: a jump to it
skips the copies that stand in front of it.

**Calls.** Everything is addressed from `sp`, which moves four times, so `CallBase` says at each step where `sp` and `fp` are:
`sp + growth = 0` on the caller's side, and `fp = - growth` in the callee; the words between are
the arguments and, above them, the saved registers, which stay what they are like the caller's frame. `CallArgs` says which of the
arguments have reached their words and registers when `k` of them are done, `CallResult` where the result is. The lemmas count: `Depths` that the arguments on the stack have the depths `0 .. NStack - 1`, each once, so that
the loop over them ends exactly when all are done; `Ranks` that saved registers have words of their own; both from `Counting`,
a finite set of numbers is numbered by how many of its elements are below.

**Dominators.** The proof is in `Dominators_proof`; `Mem2Reg_proof` carries it over to the module that uses the result.
`Up(idom, root, b)` are the blocks on the way up from `b` in the tree as far as it is known. The invariant has two
stages. While the search runs (`Searching`) the activations are a path from the root, and a block that has got its number has
a predecessor that is still active or has a larger one; hence, when what was not reached is gone, every block but the root has a
predecessor with a larger number (`Numbered`). While the passes run (`Improving`), `Core` holds of the blocks that have a place: numbers grow on
the way up (`Tree`), so two blocks that climb meet at the nearest block both are under (`Meet`) and a fold in any order ends
at the nearest above all (`Fold`); a block has no place above what its known predecessors share (`NotAbove`), so that a place
only moves up (`RoundUp`, which is `OnlyClimbs`); what is not above a block is avoided by some path to it (`Avoids`), so
all dominators are above it; and what is above a block is above the predecessors with larger numbers (`Follows`). The last of these is what is delicate: when `y`
moves up, the blocks under `y` lose what was between on their way, some of them long after the pass has been at them, and
`Follows` and `Descends` (a block can be reached from those above it without going up) bound what they lose. A pass that changes nothing has found every block above all its predecessors (`Settled`), and then
what is above a block are its dominators (`UpIsDominance`) and the frontiers are where dominance ends (`FrontierFound`). No
bound on the graph is needed, nor that it is reducible. `Flow_proof` is what this proof and the next have in common: `Recursion`, `Saturation` and `Growth` are what the definitions by recursive functions
(`intersect`, `Folded`, `Upward`, `Flow!Reach`) compute, as far as a counter that runs to the size of a finite set shows it, and `Reach` is
the least set that contains its start and is closed under the edges (`ReachIsLeast`); and the lemmas about dominance and loops.

**Mem2Reg.** What `Dominance` gives is fixed when the pass looks at the code (`Static`): the tree of `idom` (`Shape`), the frontiers in
terms of it, and `PhisOK`: a block that stores to a variable or has a phi for it is still queued, or its frontier has the phis. `rename` is a walk over that tree, and
`WalkInv` says of it that the activations are the way from the entry to the current block (`Walk`), that the stacks are what they
have pushed (`Stacked`), and that the work is done for every block but those under a child that still waits (`Left`, `Done`). What a
block has pushed is a fold over its phis in any order and then its instructions (`BlockRewritten`); `StacksAreScoped` is the second part.
It does not say that the right name is on top. `Name(rep, b, k, v, nm)` does, without stacks: `nm` is the last thing pushed for `v` by the nearest block on the way up from
`b` that pushes anything, with `k` instructions of `b` done. `NameOnStack` says that this is what `back()` returns when `b` is entered, so every load and every operand gets
its `Name` (`Loads`, `Operands`). `Running` is about the two programs, once the walk is over: a variable that was stored to has a `Name` at the present place, and it holds what the variable
holds (`Follows`). An instruction changes the `Name` of the variable it stores to only (`NameMoves`). An edge is where the frontiers count (`NameOverEdge`): if `c` has no phi for `v`, no block
on the way up from the predecessor that pushes for `v` is missing on the way up from `c`, since it would have `c` in its frontier; so the `Name`
stays. If `c` has one, the operand for the edge is the `Name` at the end of the predecessor. Two things are delicate. A name that is bound again must not be held by another variable
any more: `Founded` says that what replaces a load was bound before it, in the block or above it (`Before`), so a store does not
take the `Name` of another variable away, and neither does a phi. And a store that copies what a load has read writes what
replaced the load, which is the `Name` of the loaded variable at the load, and still at the store (`NameOverLoads`).

**Loop search.** The proof is in `Layout_proof`. A node has no number, is in progress (`Active`), is on the stack and returned from, or is closed
(`Shut`). What the code compares are numbers; what the result should be is about paths, so the invariant `SInv` relates the
two: an active node leads to everything above it on the stack, and everything on the stack leads to an active node below it (`Spine`);
the edges of a closed node end in closed ones, and an edge that was looked at ends in a node with a number (`Edges`); `low[b]` is the number
of a node on the stack that `b` leads to, and for the active node `g` it bounds the number of every node on the stack that an
edge out of what belongs to `g` was seen to enter (`Lows`, `Owns`). Without the second half of `Lows` a node could be closed
too early, without the first half too late. When the last active node has `low` equal to its number, the edges out of the stack from it on stay in there or end in closed
nodes, and with `Spine` it is one component (`ClosedIsComponent`); when they differ, an older active node is reached, which
takes over what belonged to it (`LeaveCore`). `Components` says that what was found are the components of the closed nodes that lie on a cycle. A second level of
the invariant (`SearchInv`) is about the rounds: a search begins with clean marks (`Idle`), and the nodes that are left have no
edge out of them, because a base leaves `next` of exactly those predecessors that it still has in `pre` (`Mirrored`). Reducibility is not used so far.

That the components are loops is a third level, `RoundInv`, and there the graph must be reducible. `Flow_proof` has what it needs of graphs: without
its back edges a reducible graph has a first block in every set (`First`), so a set whose blocks all lead to each other inside it
(`Strong`) has one that dominates the others (`Header`); a natural loop is such a set, entered over its header only
(`LoopStrong`, `LoopEntry`), and it holds every such set that its header dominates or that meets it elsewhere
(`LoopWhole`, `LoopInside`). `Remaining` says what the two structures have lost with the bases: `next` the edges into them, `pre` those out of them, which is
why a predecessor outside the component shows where an outermost loop is entered and an inner one may show none.
`Recorded` says that the loops around a base were found before it. Without that a component of what is left could be a
loop with a part cut out; with it no block of the loop is a base yet, and the component is all of it (`CyclicIsLoop`). So the loops of a block
are recorded from the outside in, and the last one, which `bb2base` keeps, is the innermost (`Innermost`). When a search finds nothing, no header is
left (`NoneLeft`).

**Linear order.** When the loops are known (`LoopsKnown`), `Walk` describes the activations of the recursive helper. Each after the first has a loop
inside that of its caller, and what leads into that loop is listed (`Activations`). A work list holds what follows the listed blocks and nothing
that is listed, except in the loop that is being listed below (`WorkLists`); so an activation with an empty list has
listed its whole loop, because the loop is one strong set (`AllListed`). A loop that is listed in part is open and
stands at the end of the list from its header on (`Together`, `Stands`): a block of it that is not the header has a predecessor in it,
and cannot be taken before one of them is (`EnteredLoop`). That is what keeps the loops together, and also
what keeps the outermost activation, which does not look at the list before it adds successors, from adding a listed block
(`PushFollowers`). A block can always be taken: the first of those that are left in the loop of the activation, along the edges that are not back edges,
has its predecessors listed, and so is on the work list (`AlwaysTaken`). That the returning block comes last
(`IsLast`) is a consequence: some edge leads from behind it to it or before it, as it is reached from there, and that edge goes back to
a loop that the block would belong to.

**Live ranges.** The order makes a graph of numbers (`LaidOut`, which `OrderGives` derives from what is known of the order; `CarriedWays` and
`CarriedStrong` of `Flow_proof` carry paths, dominance and loops over the renaming): what is no back edge leads up, and the
loop of a header is an interval that starts with it. The code visits the blocks from the last to the first and iterates nothing, so the invariant has to say what
`liveIn` is when only the blocks behind `t` are known. That is `LeastAlive(t, liveIn)`, the least set of those blocks that holds each one that uses the value and each one that leads to
a member, the block of the definition aside. A visit adds a block, and where it is a header its whole loop (`Grown`): every block
of the loop leads back to the header inside the loop, and the definition is not on the way, because it dominates the header and so lies before it (`LiveRing`); conversely
a block behind `t` that leads to `t` does so over a back edge, and is in that loop (`VisitAlive`). `Ranged` and `Marked` say the same of the positions; that a
range over a loop is one interval of positions is `EndOfRing`. When nothing is left to visit, the least set is liveness by paths (`AliveIsNeeded`), some way from the entry brings the
value to every block of it (`Arrives`), which passes the definition, and so the interval begins there, or at the entry for an argument
(`RangeBegins`).

**What stays with TLC.**
- Liveness (`Terminates`), and what recursive definitions compute (the execution of a program in `Ssa` and
  `Program`, the trees of `Algebraic`). With them the properties that compare with an execution:
  every property that a program keeps what it does, but for `LoadsKeepTheirValue`, which steps the two programs together.
- `LinearScan!OutputMovesSpareInputs`, which is true of the instance only: it depends on where argument registers are
  (see the conditions above), and no invariant of the algorithm implies it.
- `CodeComputes` and `BranchFollows`, whose width is a constant but whose arithmetic is powers of two and remainders.

## 5. What is not modelled

- Text: assembly as a string, labels, logging, the front end's parsing, the options of the driver, the runtime library.
- `Dominators` on the reversed graph is given functions with exactly one return block, which is
  what the builder makes (`PostDominators` takes the terminator block of the function). Blocks from
  which the return is not reached are removed by that search (`PostDominator.hh:185`), as modelled.
- `Mem2Reg`: `back()` of an empty stack is undefined in C++; it is the value `NoName`, which equals no
  variable. `LoadsKeepTheirValue` speaks of variables the program has stored to.
- `Layout` is about reducible graphs, which are the ones structured source yields.
  `LinearOrder!ReturnLast` is about functions in which every block reaches the return.
- `LinearScan`: that its work list empties is not stated as a property. An interval that ended
  exactly where its register is taken is cut at `lower_bound`, which is `end()` (`regalloc.cc:422`): the model
  stops there (`stray`). `init_func` (`regalloc.cc:828`) enters keys into the maps of positions and
  removes none, so a later function of a module also finds the registers an earlier one added; `Init` is what the first one
  finds. Float arguments that come on the stack are left out.
- `Ir`: use lists are not state, whoever has an operand uses it; and the order of a use list, in which
  SCCP visits, is any order. In `CleanUp` there is no memory, a load or call
  the compiler does not see through is `input`, a call with an effect is `out`; memory, arrays and calls are in
  `Program`. Floats are in `InstSel` only: `ConstFold` folds them with the host's arithmetic.
- `InstSel`: calls, returns and phis, which are `CallFrame` and `BlockEdge`; `memset`; the offsets of `fst.d` and `fld.d` that fit
  no immediate; `switch`. `GenBinary` has no op2 shift on `add` and `sub` (`codegen.cc:499`), which only `LowerIR` sets, and
  none of the exits for operators it does not know (`codegen.cc:513`): `rsub`, and `and` and shifts without a constant on the right.
- `BlockEdge`: a conditional branch with one target twice. `move_mapping` has one entry for the two edges, and
  `resolve_moves` (`codegen.cc:1129`) erases it after the first: the second would get no copies. `BlockEdge!Init` excludes it;
  the builder makes no such branch, and `try_replace_empty_jump` (`SimplifyCFG.hh:233`) refuses to make one.
- `TailRecursionElim` takes any instruction that is returned (`TailRecursionElim.cc:35`), the model (`ReturnsPhi`) only phis: what else
  uses the result of the call does so where the function gets there by calling itself, always.
- `Redundancy`: `AliasAnalysis::alias` exits for values of different pointer types (`AliasAnalysis.hh:105`); here there is one.
- `LocalPasses`: `LoopUnrolling` works out `LoopInfo` once (`LoopUnrolling.cc:380`), the model for each loop; the programs it unrolls have one.
- `Globals`: `GlobalVarLocal` makes a global local to whatever single function uses it; `RunsOnce` leaves only `main`.
- `Straight`: the multiplication by a reciprocal, which the build does not use; a block has no memory.
- `CallFrame`: which registers are live across a call is given. `regalloc.cc:461` takes those of the intervals that cover both the
  position in front of the call and that of the call; `LiveSaved` and `LinearScan!PlacesAreKnown` stand for the two sides of it.
- `CallFrame`: the callee's body is arbitrary below its frame; it respects the caller's
  frame, which is the business of its own register allocator and stack layout.
- `LoopMerge` acts only on a function named `spmv`, and `AdHocOptimization` and `InstructionSimplify` are patterns of particular
  programs: their general part is none. `IVReduction`, `GepElim`, `BranchOpt` with `switch`, `TransformSelect`,
  `RemoveUselessBr`, `fuse_br` and `fuse_memory_offset` of `LowerIR` are not modelled: each is a rewriting of a few
  instructions whose correctness is local.
- `LoopUnrolling`: the shape of loops it expects is the rotated one drawn in `LoopInfo.hh:61`. The builder of this
  build makes loops that test first, whose exit `LoopInfo.cc:58` does not find; the model takes the shape the code is written for.

## 6. Plan

1. *Done*: parallel moves (checked and proved), register allocation, edges and calls, instruction selection, loops,
   dominators, Mem2Reg; SCCP, `DeadCode`/ADCE and `SimplifyCFG`; the passes over expressions; whole programs;
   common expressions, forwarding, motion and unrolling, each family in the sequence the driver runs it.
2. Use lists (`Value`, `User`): operands and uses mirror each other under every operation, above all
   `set_operand`, which adds a use and removes none.
3. ADCE and `SimplifyCFG` on functions with endless loops; `BranchOpt` and `switch`; `RemoveUselessBr`.
4. `GepElim`, `TransformSelect`, `fuse_br` and `IVReduction`, on the programs of `LocalPasses`.
5. Proofs, of which the parallel moves, linear scan, edges, calls, dominators, the loop search, the linear order,
   the live ranges and Mem2Reg are *done*: `CleanUp!OnlyDown` and `ListsMirrored`.
