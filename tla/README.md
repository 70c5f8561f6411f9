# TLA+ models of Nany

[Nany](../src/readme.md) is a programming language: a compiler written in C++
(`src/bootstrap/libnanyc`) translates sources to an intermediate code, and a
virtual machine interprets it.  This directory models the parts of it whose
correctness depends on the order of many steps, checks the models with TLC and
proves the most important facts about them with TLAPS.

All paths below are relative to `src/bootstrap/libnanyc/details` unless they
start with `src/`.

## 1. The system

A source goes through `compiler/compiler.cpp`: parse, normalise the syntax tree,
translate it to IR (`pass/c-ast2ir`), map the IR to a tree of *atoms*
(`pass/d-object-map`), and, from the entry point on, *instantiate* every function
that is called (`semantic/*`), which resolves types and emits the final IR.  The
program is then run by a VM thread (`vm/*`).

| component | state | operations | how it meets the others | what makes it correct |
|---|---|---|---|---|
| register stack `vm/stack.*` | chain of chunks, one chunk in reserve | `push`, `pop` | the interpreter keeps raw pointers into it across calls | every frame is private and survives what is above it; no chunk lost; `current` is never null |
| interpreter `vm/thread.cpp` | code, cursor, `upperLabelID`, registers, pushed parameters, raised error, and what nested C++ calls hold | one handler per opcode, `call`, `destroy`, `entrypoint` | runs the IR; asks the tracker for every object; destructors are nested runs | jumps land; callers are restored; errors reach the right handler alive; each object is destroyed once |
| tracker, allocator `vm/allocator.h` | the owned pointers and their sizes | allocate, deallocate, reallocate, validate | called by the interpreter | no use of a freed object; failures keep the books right |
| stack trace `vm/stacktrace.*` | growing array of frames | push, pop | pushed and popped by calls | never written past its end |
| machine, input/output `vm/machine.cpp`, `vm/io.cpp`, `io/adapter` | mountpoints, handles | run, resolve paths, open, close | callbacks of the embedding program | the right adapter for a path; handles released |
| IR sequence `ir/sequence.*` | array of instructions | emit, erase, jump to a label, renumber registers | written by producer and analyzer, read by the interpreter | renumbering touches every later use |
| producer `pass/c-ast2ir` | nested scopes, the next register or label id, the handlers of a block | one visitor per syntax node | its labels are what the interpreter's jumps rely on | ids unique and ordered |
| analyzer `semantic/opcode-*.cpp` | frame of variables with their scopes, handlers in force | one visitor per IR opcode | decides the releases on every way out of a scope | every variable released once on every path |
| instances `semantic/atom-factory.cpp`, `atom/atom.cpp` | signature to instance | find, create, update, invalidate | recursive calls of the analyzer | an instance is translated once; a failure is remembered |
| overload resolution `semantic/overloaded-func-call-resolution.cpp`, `func-overload-match.cpp`, `type-check.cpp` | the arguments asked for, the result of the last validation | find a name, validate a function, choose one | asked by the analyzer at every call; may instantiate candidates | the choice does not depend on the order of the declarations; every argument at its parameter |
| class definitions `atom/classdef-table*.cpp` | layers of substitutes | add, substitute, merge | views opened per instantiation | a view changes its own layer only |
| compiler driver `compiler/compiler.cpp` | queue of sources, loaded collections | compile, callbacks | uses everything above | each source once, in order; callbacks paired |
| reporting, intrinsics, tools, C API | messages, tables | | | wording and I/O: not modelled |

There is no concurrency in this code: one thread compiles, one runs.  What is
hard here is *re-entrance* (a destructor is a nested run of the interpreter in the
middle of an opcode), *unwinding* (a raised error leaves several calls half done),
*order* (labels, scopes, handlers are numbered by one pass and relied upon by
another) and *raw pointers* kept across the growth and release of memory.
`PROJECT.json` lists these hazards one by one under `hazards`, with the properties
that would catch them or the reason why none does.

## 2. The modules

| module | models |
|---|---|
| `FrameStack` | what the register stack promises: a pile of private frames (abstract specification) |
| `VMStack` | `vm/stack.{h,hxx,cpp}`: chunks, reserve, cursors |
| `MCVMStack` | a small instance for TLC |
| `VMStackProofs` | invariants of `VMStack` and its refinement of `FrameStack`, proved |
| `Executor` | `vm/thread.cpp` with the label search of `ir/sequence.cpp` and the object checks of `vm/allocator.h` |
| `MCExecutor` | programs for `Executor`: every small control flow, and programs written as the compiler emits raise, handlers, scopes and destructors |
| `ExecutorProofs` | type correctness of `Executor` and the safety of its jumps, proved |
| `Producer` | `pass/c-ast2ir`: the translation of the body of a function to IR |
| `ProducerProofs` | type correctness and the order of the labels of `Producer`, proved; lemmas on what its operators read in the code, on the scopes of a sequence of marks |
| `ProducerCodeProofs` | what each visitor still has to do, where jumps land, and that the jumps of a visitor respect its scopes, proved; extends `ProducerProofs` |
| `ProducerRegisterProofs` | the registers, the handlers and the scopes of `Producer`, proved; extends `ProducerCodeProofs` |
| `Translation` | `pass/c-ast2ir` again, with complete opcodes, for given syntax trees |
| `Analyzer` | `semantic/opcode-*.cpp`: the analysis of one function |
| `Pipeline` | `semantic/atom-factory.cpp`: instantiation of the entry point and of all it needs, then the execution of what was emitted; composes `Translation`, `Analyzer` and `Executor` |
| `MCPipeline` | sources for `Pipeline` |
| `MountTable` | what the mount points promise (abstract specification) |
| `Mountpoints` | `vm/io.{h,cpp}`: the array of mount points and the adapters it owns |
| `VirtualIO` | `intrinsic/std.io.cpp`, `io/adapter/*`, strings handed over to programs; extends `Mountpoints` |
| `MCVirtualIO`, `VirtualIOProofs` | a small instance; invariants and refinement of `Mountpoints`, handles, buffers and listings of `VirtualIO`, proved |
| `Intrinsics` | `semantic/intrinsics-*.cpp` with the opcodes of `vm/thread.cpp` they emit |
| `MCIntrinsics`, `IntrinsicsProofs` | registers of three bits; the invariants of `Intrinsics` for every width, proved |
| `NameLookup` | `atom/atom.cpp`: which functions a name may stand for |
| `TypeChecks` | `semantic/type-check.cpp`: similar types |
| `OverloadChoice` | which function an overloaded call may call (abstract specification) |
| `Overloads` | name, arguments, validation and choice of a call |
| `MCOverloads`, `OverloadsProofs` | a small program; the refinement of `OverloadChoice`, the scope a name is found in and the place of every argument, proved |

### VMStack

A chunk is named by its address; `chunk[c]` has its `remains`, `capacity` and
`cursor`, `mem[c]` its registers.  `chain` lists the chunks from the first to
`current` (the code's `previous` links, read backwards); `reserve` is the chunk
kept aside.  `heap` is what malloc gave and free has not taken back.  `frames` is
the callers' side: the pointers and sizes `Executor::call` keeps in its C++ locals.
Every push is one of `PushInPlace`, `PushInReserve`, `PushInNewChunk`, every pop one
of `PopInPlace`, `PopToReserve`, `PopAndFree`; `Write` is any opcode that writes a
register; `Destroy` is `~Stack`, possibly with frames an exception has abandoned.
`GrownCapacity` says what the loop of `pushNewChunk` computes without running it.

### Executor

One action is one opcode, or the return of a call.  The C++ recursion of
`Executor::call` becomes the sequence `saved`: each entry has the locals of one
nested `call` (`ircode`, `cursor`, `upperLabelID`, `retlvid`) and, in `then`, what
remains to be done when it returns: nothing (`resume`), the rest of
`Executor::destroy` (`destroy`), the same followed by the rest of `jmperrhandler`
(`handle`), or the rest of `entrypoint` (`entry`).  `pile` is the pile of frames
`VMStack` is proved to implement.  An exception of the code is a final value of
`status`.  An instruction is a record of the operands its opcode uses; a program
is an element of the constant `Programs`, so that TLC and TLAPS range over programs,
or what `Pipeline` has just emitted.

Objects have a reference counter modulo `RefModulus` (2^64 in the code), a class,
which stands for the size they were allocated with, and one member.  Arithmetic,
comparisons and intrinsics give an unknown boolean: nothing here depends on more.
The debug build is modelled: asserts are active and a fresh frame is filled with
a value that is no pointer.

### Producer

`visitASTFunc` and the visitors under it are recursive C++ functions whose only
common state is the code emitted so far and a stack of `Scope` objects.  Each
visitor is written as the sequence of what it does (`While`, `IfElse`, `Switch`,
`ShortCircuit`, `OnScopeFail`...), and `todo` is what the visitors under way still
have to do: the C++ call stack.  An action does the first step of `todo`: it emits
an instruction (`EmitAlloc`, `EmitLabel`, `EmitJump`, `EmitJzraise`...), constructs
or destroys a `Scope` (`EnterScope`, `LeaveScope` with
`updateOnScopeFailExitLabels`), or visits a child (`VisitStmt`, `VisitExpr`,
`VisitStmts`), which is any node the grammar allows there.  So the behaviours are
the translations of *every* function body of the grammar's statements and
expressions with at most `MaxNodes` compound nodes.

`scopes` are the live `Scope` objects with their copies of `nextVarID` and the
handlers of their block.  `ircode` keeps of an instruction the register or label it
names.  `tag` is an annotation: it says which local variable of which visitor a
label was put in, so that one can ask whether a jump finds *the* label it was
emitted for.  An object's register and a plain boolean's are told apart
(`stackalloc`, `stackalloc bool`) because only the first is released.

Left out: operands that number nothing, debug positions, traces and pragmas; the
nodes that are rewritten to those modelled or have a blueprint of their own (`for`,
`switch` with other than two cases, arrays, strings, closures, classes).  A handler
whose parameter has no type does what a typed one does but visit the type.

### Translation, Analyzer, Pipeline

`Producer` ranges over all function bodies and keeps registers and labels only.
`Translation` is the same visitors with complete opcodes, for one given syntax
tree: a visitor is an operator from a state `ir` to the next.  Its output is what
`Analyzer` reads, one opcode at a time: `an` is the record of the analysis (the
types, names, scopes of the registers, the handlers in force, what was pushed, the
code emitted), and each `visit` of the C++ class is an operator on it.  A type is
void, a builtin, unknown, or a class.

`Pipeline` gives it its library.  `analyses` is the C++ recursion of
`instanciateAtomFunc`: when an opcode needs a function that has no instance, the
analysis stays where it is and that function is analysed first; a function met
again while it is in `analyses` is found with what is known of it so far (its
return type only when it is declared, its errors up to now).  When the entry point
is done, `checkForMissingErrorHandlers` refuses the program or `Executor` runs it:
its variables are those of `Executor`, instantiated over the program just emitted.

Overloads, generic types, captured variables and `typeof` are left out of
`Analyzer`: a function has one signature.

### Mountpoints, VirtualIO

A path is the sequence of its pieces between slashes.  `slot` is `m_mounts` with
`m_fallback` behind it, which is where an index one past the end leads; `made`,
`released` follow the adapters.  Open files and iterators keep the *address* of an
adapter in the code; they keep its index in the model, and use whatever entry is
there.  `interim` is the last string handed over to the program, with the size of
its block and of what was written.  The host's file system is external: every
request may succeed or fail, and a file may be of any size or change while it is
read.  The current folder is left out: only `io_get_cwd` reads its text.

### Intrinsics

A register is a word and a type; two registers are kept, and an action is one
intrinsic: the checks of the analyzer, the opcode emitted, what the interpreter
computes, the object made for the result.  `held` is the type that was really
written in a register and `mark` tells words known not to be brought back to their
width (`whole`) and those of `__reinterpret` (`raw`).  `Span` gives the number of
values of the four widths; `BitAnd`, `BitOr` and `BitXor` are parameters, so that the
proofs know of them only that they act bit by bit (`BitsAssumption`); `Literals` are
the words a program may write for each type.  Left out: `^fieldset`, `ref`
and `unref` (in `Analyzer`), the bytes behind a pointer, the rounding of floats.

### NameLookup, TypeChecks, Overloads

A program is a constant tree of atoms, a case is an order of declaration and a
call.  `Identify` is the `identify` opcode, `Call` the beginning of `emitFuncCall`
(or of the call of a property), `KnownCall` the validation of an only function;
`Match`, `Score` and `Instanciate` are one turn of each of the three loops of
`resolve`, `Matched`, `Scored`, `Choose`, `Instanciated` what follows them.
`result` is the member `FuncOverloadMatch::result`, which every validation reuses.
`works` says of each overload whether its body can be instantiated with the types
given: any answer is possible.  `candidates` is auxiliary: the functions found, as
they match, for `OverloadChoice`.  `isSimilarTo` is a parameter of the module, a
table computed once by `TypeChecks` in the run.  Left out: names of variables,
members, builtin types and captured variables, the qualifiers of types, error
reports.

## 3. What TLC checks

| run | shows | bounds, and why they are enough |
|---|---|---|
| `vmstack` | no chunk lost or linked twice (`NoChunkLost`), live frames in live chunks (`FramesInChain`), and the refinement (`ImplementsFrameStack`) | chunks of 2 registers growing by 1, frames of 1 to 3, 3 addresses, 4 live frames: a frame can fill a chunk, share one, or be larger than the reserve; the proofs lift all bounds |
| `executor_control` | for every function of 4 control instructions with ordered labels, after a raise, a call or a destructor with labels of its own, `upperLabelID` parts the labels (`LabelWindow`) and no jump fails (`JumpsLand`); includes programs that end by each exception | 4 instructions give a forward and a backward jump over two labels with a call in between; the proofs lift the bound |
| `executor_errors` | while an error unwinds its object is alive and referenced (`ErrorAlive`); a handler of one type finds an object of that type in its register (`HandlerGetsItsError`); an object is destroyed once (`DestroyedOnce`); a program that ends has released everything (`Released`); it ends (`Termination`) | ten programs in the shape the compiler emits, up to three calls deep, two types of errors, members released by destructors; malloc may fail anywhere |
| `executor_dtor` | **a disagreement**, see below | one program |
| `producer_handlers` | labels never decrease (`LabelsNeverDecrease`), registers are not shared (`RegistersUnique`), the registers other passes compute from a label are those declared (`SlotsReserved`), handlers are left in the reverse order of their registration (`HandlersMirrored`); in functions without handlers every jump, by the interpreter's search, finds the label it was emitted for (`MeantWithoutHandlers`); no jump leaves a scope that may hold an object nor enters one (`NoObjectLeftBehind`), none skips a declaration whose scope is still open (`NoDeclarationSkipped`) | three compound nodes: a loop in a block in a loop, a short circuit in a condition of a loop, a handler in a handler, two or three handlers of one block, a handler in a branch; the proofs lift the bound, of every property of this run |
| `producer_jumps` | **a disagreement**, see below | handlers of any error only |
| `pipeline` | what is emitted is a program `Executor` can rely on (`WellLinked`: ordered labels, existing functions, registers in the frame); an error that leaves a function was foreseen (`ErrorsForeseen`), nothing of the source runs while it unwinds (`ErrorHeeded`), none is left at the end (`NoErrorLeft`); everything is released (`Released`), once (`ReleasedOnce`), by its own destructor (`OwnDestructor`); a function is analysed once (`AnalysedOnce`); registers are written before they are read (`WrittenFirst`); pushed parameters reach their call (`ParametersKept`) | 23 sources: each statement and expression, each way out of a scope with objects alive, members and default values, copies, properties, short circuits, recursion, errors through three calls; 4 addresses, `MaxCalls` 6 nested calls, every boolean unknown |
| `pipeline_handled`, `pipeline_result` | **two disagreements**, see below | one source each |
| `io` | each adapter is released once (`OwnedOnce`), an open file stays on a live adapter (`HandleServed`), what is read fits in its buffer (`BufferBacked`), the full path given for an entry of a listing leads back to that entry (`EntryNamed`, of the steps that give one), the newest mount point serves a path (`ImplementsMountTable`) | a table of `Slots` 4 that `MaxAdapters` 5 overfill; files of no, a part of, one and two fragments of 4, a header of 1; one handle, one iterator, entries of two names |
| `intrinsics` | a bool stays 0 or 1 (`BoolsCanonical`), the object made for a result is of the type computed (`BoxesMatch`), narrow integers stay narrow but for the listed sources (`NarrowStaysNarrow`) | widths 1, 2, 2 and 3 bits: every pair of widths that widens, stays or narrows; least and greatest literals; four types of the catalogue's functions; the proofs lift the bounds |
| `overloads` | every argument is at its parameter and of a type it accepts (`ArgumentsAccepted`), the name is found in the scope the rules give (`LookupAsRuled`), the choice is the one of `OverloadChoice` (`ImplementsChoice`) | up to three overloads in every order and every set of workable ones, up to two arguments with named and generic ones, calls from a function, a method, a function inside a method; the proofs lift the bounds of `ImplementsChoice`, of `LookupAsRuled` and of the half of `ArgumentsAccepted` that is not about types |

`MaxNodes` bounds the syntax trees of `Producer`; there deadlock is checked, since
`Finished` is the only way to stop.  `MaxCalls` bounds the nested calls;
`RefModulus` is 4 so that a wrap is within reach.  `CHECK_DEADLOCK FALSE` elsewhere:
programs, analyses, calls and threads end.  Objects and chunks are symmetric, since
addresses are only compared for equality.  `Termination` is checked under
`FairSpec`, weak fairness of the whole step: the loop of `Sequence::each` never
waits for anything.  No other fairness is assumed.

The exceptions some properties make are facts of the code worth knowing:

- `NoErrorLeft`: among functions that call one another, the errors of one that is
  still being analysed are read before they are complete; its sources have no such
  recursion around an error.  `Thread::execute` then returns 0 (`vm/thread.cpp:791`).
- `BufferBacked`: a file that grows while it is read (no room for the header), that
  shrinks, the special files of `/proc` (`localfolder.cpp:227`), short default values
  (`std.internals.utils.h:51`) and variables that are set but empty, whose capacity
  wraps (`std.internals.utils.h:88`).
- `ImplementsMountTable`: when the table fills up, `Add` writes over `m_fallback`
  (`vm/io.cpp:93`), so that nothing is promised then to a path no mount point covers.
- `NarrowStaysNarrow`: sums, differences, products and quotients of narrow integers
  are not brought back to their width; `fsub` emits `igte`
  (`semantic/intrinsics-lang.cpp:791`).
- `ArgumentsAccepted`: a named argument given twice is accepted, and the last wins.
- In `EntryNamed`, what was listed must be a mount point itself: `io_folder_iterate`
  hands over a path it never set (`std.io.cpp:58`).  And nothing may have been mounted
  since: the iterator keeps the address of an entry of the array.

### Findings

`executor_dtor`: the analyzer emits the releases of a scope between `jzraise` and
`jmperrhandler`, so destructors run while `unwindRaisedError` is set.  When such a
destructor calls a function with a handler of any type, that function's own
`jzraise` takes the flag for a raise of its callee; its handler destroys the error
that is in flight and clears `raisedError`.  Back in the first function the
`jmperrhandler` of that error's type still matches `raisedErrorAtomid`, which is
never reset, and `assert(raisedError != nullptr)` (`vm/thread.cpp:653`) fails.

`producer_jumps`: `Scope::~Scope` gives `nextVarID` to the parent
(`pass/c-ast2ir/scope.hxx:23`) *before* it emits the exit label of its handlers
(`scope.cpp:74`), so that the parent's next label has the same number.  In

    if c { on scope fail { ... } ... } else { ... }

the label of the `else` is the twin of the exit label of the first block.  The jump
of a false condition is searched forward and finds the exit label, inside the block
to be skipped: the end of that block is run, with its releases, and the `else` never
is.  In a `while` the jump out of the loop lands before the jump back, and the loop
never ends.  `LabelsNeverDecrease` is what is left of the order of labels; it is also
why the hypothesis of `ExecutorProofs!LabelSafety` does not hold of such functions.

`pipeline_handled`: a handler leaves by a jump to a label before the `end` of its
block (`pass/c-ast2ir/scope.cpp:74`), and the releases of the block come with `end`.
`jzraise` and `raise` have already released, on the way to the handler, the variables
of the handler's scope.  In `{ on scope fail(e: E) {} var x = new X; f(); }` an error
of `f` releases `x` twice.

`pipeline_result`: the register of a call that returns an object is released at the
end of its scope, as acquired by the function called
(`semantic/atom-factory.cpp:511`).  The `jzraise` after the call releases it too when
the call has raised, and nothing was given then: `unref` of null throws
`UnknownPointer` instead of the error reaching its handler.

Met while modelling and covered by no run: with nested handlers the releases before
a jump start from the scope of the outermost one (`semantic-analysis.h:129`); no
`jzraise` follows the getter of a property, the default value of a member, the copy of
an assignment or `append` (`opcode-identify.cpp:137`); a handler of any type reserves
no register after its label (`scope-on-scope-fail.cpp:104`).

## 4. What is proved

For every value of the constants, under the named assumptions of the modules
(`StackAssumption`, `ExecutorAssumption`, `ProducerAssumption`, `SlotsAssumption`,
`PathAssumption`, `MaxAdaptersAssumption`, `FolderAssumption`, `SizeAssumption`,
`SpanAssumption`, `BitsAssumption`, `LiteralsAssumption`, `MaxScoreAssumption`,
`CallsAssumption`, `ParentAssumption`, `ParametersAssumption`), which TLC evaluates in the runs:

- `VMStackProofs!ChunkSafety`, `FramesSafety`: the inductive invariant says that
  the chunks of `chain` and the reserve are distinct and are the heap, that the
  frames of a chunk are laid one after the other from its start to its cursor, and
  that the first chunk keeps one register aside.  The order of the frames is what
  makes it inductive: without it, a pop could not know that the frame it removes is
  the last of the current chunk.
- `VMStackProofs!StackRefinement`: every step of `VMStack` is a step of `FrameStack`
  or leaves the pile as it was; the mapping reads each frame out of its chunk.
- `ExecutorProofs!ExecutorTypes`: every activation has a frame of the size its own
  function asks for, through calls, nested destructors and unwinding.
- `ExecutorProofs!LabelSafety`, `NoInvalidLabel`: if the labels of every function are
  strictly ordered, `upperLabelID` is the last label before the cursor in every
  function under way, and no jump throws `InvalidLabel`.  The inductive invariant is
  `Control`: `Window` says that the labels before the cursor are at most
  `upperLabelID` and those after it are above, for the running function *and for
  every suspended one* (`Suspended`), whose call is not itself a label; only then is
  it true again when the caller is resumed.
- `ProducerProofs!ProducerTypes`, `LabelOrder`, `StrictLabelOrder`: for syntax trees
  of any size, no label is below one before it, and without handlers labels are
  strictly ordered, which is the hypothesis of `LabelSafety`.  `LabelsOrdered` alone
  is not inductive: nothing says that the *next* label is higher.  The invariant
  `Ordered` adds that every label is at most the counter of the innermost `Scope`,
  plus one (`Slack`) when there are handlers: that one is the exit label which
  `~Scope` takes after it gave the counter back.  That only the innermost `Scope`
  matters is because `~Scope` overwrites the counter of its parent.  Most of the rest
  is type correctness: that each visitor is a sequence of steps.
- `ProducerCodeProofs!JumpsMeant`, `OrderWithoutHandlers`: without handlers, every
  jump lands on the label it was emitted for, by the interpreter's search.  What is to
  come matters here as much as the code: `TodoOK` says of `todo` what a visitor leaves
  there, that each local variable of a visitor is the label of one step only, that a
  jump back comes after its label and a jump forward before it.  `Moves` says how a
  step changes `todo`: it is consumed, or its visitor takes its place with local
  variables nobody else has.  Then `JInv`: a jump emitted has its label behind it or
  still in `todo`, and labels are strictly ordered, so that the interpreter looks in the
  right direction and meets no other label of that number.
- `ProducerRegisterProofs!RegistersNotShared`, `SlotsDeclared`: no two declarations
  share a register, and the registers that other passes *compute* from a label (the
  error of a handler, the two of a short circuit) are declared for that.  The
  invariant `Sound` relates the code, `todo` and the counter of the innermost `Scope`.
  A register either waits for the label its number will be computed from, which is
  still in `todo`, or has a number of its own, at most the counter and the number a
  short circuit is about to reserve (`Distinct`); once its label is emitted it waits no
  more (`Settled`), and the label leaves its place in the numbering to it
  (`Circuits`, `Errors`).  Local variables carry the place in the code where their
  visitor began, so that two visits never share one (`Dated`).  All of it holds because
  the counter never falls, though each `Scope` has its own copy.
- `ProducerRegisterProofs!HandlersKept`: the handlers in force by the code emitted are
  those the `Scope` objects under construction still have to unregister, in the same
  order.  Not between the code that registers a handler and the jump after its body:
  there the code is one handler ahead of its `Scope`, which is what `Mirror` says.
  Unregistering takes a handler away wherever it is; that it is the *last* one, as
  `~Scope` goes through its list backwards, needs the handlers to be distinct, hence
  that each comes from a label which is emitted or still in `todo` (`Started`) and
  which nothing else emits (`LabelsNumbered`, and the invariants above).  `HandlersIn`
  is a recursive function of the code: `Reads...` and `Exits...` say what one more
  instruction does to it, from `Induct`, induction on the natural numbers for one set,
  which comes from the well-foundedness of `<`.
- `ProducerRegisterProofs!NothingLeftBehind`, `DeclarationsKept`: without handlers no
  jump enters a scope of the IR, leaves one that may hold an object, or skips a
  declaration of a scope still open where it lands, which is what the analyzer, reading
  the code in order, relies on.  The properties are about code; what is inductive
  (`TidyState`) is about the *word* of the code emitted and the steps left in `todo`
  (`Word`), where a statement or expression still to visit is a hole that may declare
  anything.  The word is `Tidy`: a function from positions to depths follows its `scope`
  and `end` and comes back to 0, and jumps respect it (`Jumping`).  Emitting a step
  does not change the word (`WordEmit`).  Visiting a node puts the steps of its visitor
  in the place of a hole, and `Replaced` says when that keeps a word tidy: what is put
  there is tidy, its labels are its own (`Apart`), and where what stood there was not a
  hole, nothing is declared outside of the scopes put there.  That every visitor is tidy
  (`VisitorsTidy`) comes from the same lemma, its body being put in the place of a
  step: a `ScopeLocker` puts a `scope` and an `end` around steps that declare nothing
  outside, the jump out of a `case` leaves a scope whose objects are in inner scopes
  already ended, a short circuit visits its second operand in a scope of its own.  At the end the word is the code,
  and its depth is the length of what `OpenScopes` computes; a scope is a prefix of
  another exactly when the depth does not fall below it in between (`PrefixStays`).
- `VirtualIOProofs!AdaptersOwnedOnce`, `NewestMountServes`, `FilesServed`: the
  invariant `MInv` says that the first `count` entries of the array hold adapters
  that are made, alive and distinct (`Live`, `Unique`), that every adapter not yet
  released is in one of them (`Kept`), and what the rest of the array holds
  (`Rest`): `Add` shifts entries, so that each of these facts is needed of all
  entries to hold again of one.  `ImplementsMountTable` follows, the table being the
  entries read from the newest.  An open file keeps an index: since entries only
  move up by one and `count` grows with them, what is at the index remains an adapter
  of a local folder.
- `VirtualIOProofs!BuffersBacked`: for files and fragments of any size.  Most of it is
  arithmetic about rounding: the buffer is rounded to the *nearest* fragment, reads go
  up by whole ones, and what saves the last read is that a fragment is more than twice
  the header (`SizeAssumption`).
- `VirtualIOProofs!EntriesNamed`: the full path of an entry is the path the program
  asked for, followed by what the host's path has after the local one.  The invariant
  `IteratorIn` keeps of the iterator that what it lists is the local path of its
  adapter, which nothing changes, and that its request, written again by each answer,
  never becomes shorter than the `size` pieces it is cut to.
- `IntrinsicsProofs!IntrinsicsTypes`, `BoolsStayCanonical`, `ObjectsMatch`,
  `NarrowKept`: for every family of widths of which each divides the next.  The
  invariant `Sound` adds to the properties that every register of a builtin type had
  a builtin written in it: they are about what was written, and a call goes by the
  type.  The lemmas are arithmetic: extending a word of a narrow type again changes
  nothing, the remainder of two extended words is an extended word, whose sign is
  that of the first.
- `OverloadsProofs!Refinement`: `Overloads` implements `OverloadChoice` for every
  program, every call and every table of similarities.  The invariant `IInv` says of
  each of the three loops what it knows of the functions before `r`: the sets `M` of
  the suitable ones, `P` of the perfect matches, `B` of the one with the best score,
  `W` of those that can be instantiated.  `resolve` asks of its counters only whether
  they are 0, 1 or more, and `Counts` says just that, which spares all cardinalities.
  The score loop needs `unique` to be about *the* index kept so far, and `best = 0` to
  leave it meaningless.  `LeftIgnored` is the lemma that carries `result`: a
  validation does not depend on what the previous one left.  The functions found are
  distinct by `IdentifiedAs`, a lemma about the recursive lookup.
- `OverloadsProofs!LookupRuled`: for scopes of any depth and any order of the
  declarations.  An atom has a higher id than its parent (`ParentAssumption`:
  `AtomMap::createNewAtom` counts), so that a function defined at an atom from its
  value at the parent exists and is unique (`AlongParents`, `DownUnique`, by induction
  on ids).  `Meant` says without recursion which scope a chain of scopes prefers, the
  nearest class that declares the name, else the outermost scope; `MeantInside` says
  what one scope more, inside the others, changes to that.  The two orders in which a
  parent and its children are asked then agree with it (`LookupMeant`).
- `OverloadsProofs!ParametersPlaced`: every argument is at the parameter of its
  position or of its name, whatever the functions (`ArgumentsPlaced`).  The placements
  come in three rows, generic, by position, by name (`PlacementsAre`); what a slot
  holds in the end is the last argument placed there (`LastAt`, `PlacingLast`, by
  induction on the placements); an accepted overload has no slot left, and
  `findByName` looks after the parameters given by position, so that a name never
  takes the place of one.  The invariant `Handing` then says that the parameters kept
  for an overload are those of its own validation until one is called.

Only model-checked:

- liveness (`Termination`);
- what RECURSIVE operators compute: the similarity of types in `TypeChecks`, hence
  the half of `ArgumentsAccepted` about types, and the whole of `Translation` and
  `Analyzer`, hence `Pipeline`, whose visitors recurse.  The provers do not reason
  about these operators.  About recursive *functions* they do, one set of naturals at
  a time: they cannot use the library's induction theorems, which have an operator
  for parameter, and `Induct` is derived from the well-foundedness of `<` instead;
- the safety of raised errors (`ErrorAlive`, `HandlerGetsItsError`, `DestroyedOnce`,
  `Released`), which depends on what the compiler emits: `WellLinked` checks on the
  sources of `MCPipeline` that the order `StrictLabelOrder` proves of the producer is
  still there after the analyzer.

## 5. The plan

Done: the register stack, the interpreter, the producer; then the pipeline from
source to execution, the input and output of programs, the intrinsics, the
resolution of overloaded calls.  What would come next, in this order:

1. An abstract machine of private calls, implemented by `Executor`, and a contract on
   emitted programs from which the safety of raised errors would be proved.
2. `Analyzer` with several signatures for one function, hence `Overloads` inside
   `Pipeline`; captured variables.
3. The compiler driver: sources and collections found while compiling, callbacks.
4. `for`, classes and closures in `Producer`, and what the jumps of functions
   with handlers leave behind.

## 6. What is not modelled

The parser (generated), the wording of reports, the C API wrappers, the tools and
the library written in Nany are out of scope.  The rewriting of the syntax tree
(`pass/b-ast-normalize`) and the construction of the atoms from the IR
(`pass/d-object-map`) keep no state a property could relate: their results are what
`Translation` and `NameLookup` start from.  The stack trace is written and never
read.  Of the compiler driver, the queue of sources and the callbacks are left out;
of the machine, `Machine::run` starts one thread and waits for it.  Of the allocator,
`reallocate` and what follows a failed `realloc` are left out, as is the behaviour
after a null `malloc` in `vm/stack.cpp:73` (undefined).  Bytes behind raw pointers,
rounding of floats, console and process intrinsics are not modelled.
