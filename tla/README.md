# Wist, modelled in TLA+

Wist is a small, statically typed functional language: a C library (`lib/`,
`inc/wist/`, public header `wist.h`) that lexes, parses and typechecks source,
generates bytecode and runs it on a ZINC-style stack machine, and a command line
driver (`bin/wisti.c`). This directory models the part of the library that gives
a program its meaning, checks it with TLC and proves the core of it with TLAPS.

Paths below are relative to `src/`.

## 1. Inventory

| component | state | operations | interacts with |
|---|---|---|---|
| interpreter, `lib/vm.c` | code area, handles; per call of `wist_vm_interpret`: pc, accum, env, extra_args, argument stack and return stack of 128 slots each | one per opcode; `wist_vm_eval` | reads code placed by the generator, allocates through `vm_gc`, reads and writes the globals kept in the toplevel entries |
| code generator, `lib/vm_gen.c`, and LIR, `lib/lir.c` | none of its own: appends to the code area | `wist_compiler_vm_gen_expr`, `_gen_decl` | takes typed trees; its code assumes stack layouts that the interpreter must keep |
| type inference, `lib/sema.c` | pool of type variables, scope chain, list of non-generic types | `wist_sema_infer_expr`, `_infer_decl` | writes types and resolved entries into the tree, registers declarations in the toplevel |
| toplevel, `lib/toplevel.c`, `inc/wist/map.h` | hash map from symbols to type and value | insert, find | shared by inference, which registers and looks up, and the interpreter, which sets and gets |
| AST, scopes, types, `lib/ast.c` | trees; scopes as linked entries | constructors, scope push and find, destruction | all of the above |
| compiler object, `lib/compiler.c` | pools, indexes, diagnostics | `wist_compiler_parse_expr`, `wist_compiler_parse_decl`, results | drives lexer, parser, inference; releases results |
| lexer, parser, `lib/lexer.c`, `lib/parser.c` | position, lookahead | next token; recursive descent with error recovery by returning NULL | symbol index, source locations |
| symbol index, `lib/sym.c` | interned strings | search or add | symbols are compared by address everywhere |
| source locations, `lib/srcloc.c` | segments, table of wide locations, current base | add segment, add, combine, slice | made by lexer and parser, read by diagnostics |
| pools, vectors, context, `lib/objpool.c`, `inc/wist/vector.h`, `lib/ctx.c` | free list and chunks; data, used, alloc | alloc, free; push, index, fix_size | memory of everything else |
| VM objects and handles, `lib/vm_gc.c`, `lib/handle.c` | list of objects (never filled); frames of 32 handles | allocate, finish; push and pop a frame | interpreter and client |

A client hands texts to the compiler (`wist_compiler_parse_expr`,
`wist_compiler_parse_decl`): each is lexed as a whole into a vector of tokens,
parsed by recursive descent, and typed; errors of all three end as diagnostics in
one parse result, which the client keeps with the tree and releases when it
likes. A declaration registers its type in the toplevel. From typed trees the client
has code generated into the VM and evaluates it; what it gets is a handle.

There are no threads, no I/O besides printing and nothing persistent. What is
hard in this code is protocol and layout:

- The interpreter keeps frames and bare arguments in one union-typed stack, and
  variables partly there and partly in a heap array. Which it is depends on the
  instructions that ran before, so the meaning of `ACCESS n` is the outcome of a
  long sequence of calls, partial applications, lets and captures.
- It checks neither tags nor bounds. What keeps it from following an integer as
  a pointer is an agreement between five parts: inference, resolution of names,
  LIR, generator, interpreter.
- Handles and globals outlive the evaluation that made them.
- Token, symbol and location buffers are indexed by what an earlier phase left there,
  and each phase decides by itself whether an error keeps the next one from starting.
  The two calls of the compiler decide differently.
- A source location is packed into 48 bits relative to a base that later sources move.
- Trees share type objects, and copies of tuple types share a vector, while both are
  released part by part; type variables go with a pool at the end of an inference
  although diagnostics may name them.
- Sizes are the client's word to the allocator: a vector must know the true size
  of its block through every growth.
- Inference decides by object identity, after unification has changed what the
  object stands for, whether a type is generic; and it registers declarations
  for which it has reported errors.

What makes each part correct:

| component | property |
|---|---|
| interpreter | types; nothing dangles; RETURN and GRAB find their frame; CLOSURE, LET, ENDLET, GRAB keep every variable in its place; calls and returns keep the variables of every caller; every evaluation ends |
| generator with interpreter | compiled, well-typed source never faults, answers with its strict value, leaves the stacks as they were; answers do not change later |
| inference | accepts what is typable with the principal type, nothing else; resolves names as written; what is accepted does not go wrong |
| toplevel | what was registered is found again, whatever came in between |
| pools | an object is handed out once until it is freed |
| vectors | hold what was pushed, in order; the allocator is told true sizes; every push ends |
| handles | frames are a stack of handles that keep their values |
| types in memory | released once; what a client still has can be read and is what was found |
| locations | a location denotes the characters it was made from, and goes on to |
| lexer | tokens are disjoint, cover the text, are the longest there are; symbols stand for their text |
| parser | trees are those of the grammar; nothing is left out without a diagnostic |

## 2. The modules

| module | models | |
|---|---|---|
| `Bytecode` | `inc/wist/vm_ops.h`, operand widths; `inc/wist/vm_obj.h` | cells of the code area: an instruction sits in its first byte, the rest of its bytes are operands; and the objects an instruction handles |
| `ZincVM` | `lib/vm.c`, allocation in `lib/vm_gc.c`, handles | the state machine; one action per opcode (GRAB two, RETURN three, by their branches), and `Register`, `Generate`, `Eval` for the calls around it |
| `ZincFrames` | the same | extends `ZincVM` with history variables: where APPLY saved which frame; refinement mapping to `ZincMachine` |
| `ZincShapes` | what `lib/vm_gen.c` and `lib/vm.c` agree on | when code is well-formed: the shape of the argument stack and the number of variables at each instruction. Extends `ZincFrames` with a client that compiles and evaluates, in any order |
| `ZincMachine` | | abstract specification: a machine that keeps the running code's variables in one scope and its callers on a stack, with nothing to count and no slots to share |
| `CodeForms` | `lib/vm_gen.c` | the code of each kind of expression and place, put together from the code of its parts |
| `Ast`, `CodeGen` | `lib/lir.c`, `lib/vm_gen.c` | the translation of a resolved tree to de Bruijn indices and bytes: the recursion that chooses the forms, with tail positions |
| `Strict` | | reference: what an expression evaluates to, by an environment interpreter that knows no stack |
| `EvalSpec` | `wist.h:65`, `wist.h:149` | abstract specification: a handle answers, once, with the strict value of its source |
| `Session` | a client of `wist.h` from typed trees on | composes `CodeGen` with the client of `ZincShapes`; refinement mapping to `EvalSpec` |
| `Sema` | `lib/sema.c`, scopes in `lib/ast.c`, `inc/wist/map.h` | unification, inference, generalisation, the toplevel's buckets |
| `Typing` | | reference: principal simple types by collecting equations and substituting |
| `Front` | `lib/compiler.c` from the tree on | expressions and declarations typed one after the other against one toplevel |
| `TypeHeap` | `lib/sema.c` once more, `lib/ast.c` | inference on the objects in memory: which nodes and vectors are shared, what the pool takes along |
| `Release` | `lib/ast.c`, `lib/compiler.c` | a client that parses sources and releases expressions and results in any order; composes `TypeHeap` with `Sema`, whose answers it must agree with |
| `SymIndex` | `lib/sym.c` | interned strings, search and insertion |
| `SrcLoc` | `lib/srcloc.c`, `inc/wist/srcloc.h` | the index as a value: segments, bases, narrow and wide locations, combination, slices |
| `SrcLocs` | its use over a session | declarations and expressions read, locations made and combined |
| `Lexer` | `lib/lexer.c`, `inc/wist/lexer.h` | the state machine of `wist_lex`, one action per character class and state, with `SymIndex` and `SrcLoc`; and what tokens must be, stated of the text |
| `Parser` | `lib/parser.c` | the descent as operators on a token position, diagnostics and locations; NULL pointers and reads behind the tokens |
| `Grammar` | | reference: what each nonterminal derives from a range of tokens, by sets of trees |
| `Reader` | `lib/compiler.c` up to inference | composes `Lexer` and `Parser`: texts read one after the other by one compiler |
| `Vector` | `inc/wist/vector.h`, `lib/ctx.c` | one vector byte by byte, with the loop that looks for a size as steps of its own |
| `GrowingSeq` | | abstract specification: a sequence that grows at its end and is released once |
| `Handles` | `lib/handle.c`, `lib/vm.c:40`, `wist_vm_add_handle` | the frames and counters word by word, limits passed included |
| `HandleStack` | | abstract specification: a stack of frames of values |
| `Allocator` | | abstract specification: an object handed out is nobody else's until it is given back |
| `ObjPool` | `lib/objpool.c`, used as `lib/sema.c:89` and `:100` use it | chunks, the free list threaded through the objects, the client's writes to them; a pool left behind by a failed inference |
| `MCZinc`, `MCSession` (with the well-typed terms of a size), `MCFront`, `MCReader`, `MCSrcLocs`, `MCVector`, `MCHandles`, `MCRelease`, `MCObjPool` | | constants for TLC |
| `ZincProofs`, `ShapesProofs`, `CodeProofs`, `ObjPoolProofs`, `SrcLocProofs`, `LexerProofs`, `VectorProofs`, `HandlesProofs` | | theorems |

### How the model corresponds to the code

- `struct wist_vm_obj` is a record of a tag and a word. The word is an integer, an
  index of the heap or an offset of the code area. Heap objects are sequences of
  values and are never freed while the VM lives, as in the code.
- The 128-slot arrays are `astack` (a sequence up to `asp`) and `rslots` with `rsp`.
  `rslots` keeps the contents of the slots above `rsp`, because the code reads
  them: a bare argument written into a slot changes its `env` only and leaves the
  `pc` and `extra` of an earlier frame there.
- Undefined behaviour (a dereference of what is no object, a field that an object
  does not have, a slot outside the arrays, execution of an operand, a frame never
  written) leads to `status = "fault"` for good. Nothing is claimed about what the
  program does then; the properties say when it cannot get there.
- A closure made by CLOSURE carries its code address in a field whose tag the code
  leaves unset; the model calls that tag "undef".
- A type variable's node is a number with an instance; unification and pruning
  follow `lib/sema.c`, order included. Where the code would recurse without end
  through a cyclic type, the inference has the fate "never".
- A symbol is a record of name and length, because the map hashes a symbol by its
  length (`lib/toplevel.c`); its sixteen buckets are lists.
- In `TypeHeap` a heap is a value: type objects are numbered as they are made and vectors
  are numbered sequences of them, so that two tuple types with the same number share one
  vector. Pruning shortens no chains, which nobody can tell. An inference has one of
  three fates: "done", "failed" (it leaves its pool behind), "never".
- `SrcLoc` keeps a location as the fields of `struct wist_srcloc`; the 16 bits of its
  position and length are the constant `MaxNarrow`. A read of the table of wide locations behind its
  end may give anything in `Garbage`.
- The lexer's actions take one character each. The text ends in a zero byte, as the
  caller's strings do; one more character behind it is another zero. Reading on from
  there is bounded by `MaxOverrun`. An `int64_t` is one of
  -`IntHalf` .. `IntHalf` - 1 and wraps.
- The parser is a set of operators, each returning the node and the state
  (position, diagnostics, locations, whether NULL was followed), one for each
  function of `lib/parser.c`. They are declared RECURSIVE and stay out of proofs.
- The words of `Handles` are those of the arrays at the end of `struct wist_vm`: a handle
  is a tag and a value, the counter of a frame lies behind its handles, and `cur_frame`
  behind the frames. The padding of a tag is written or not, as the compiler likes.
- Some helpers take as parameters what could be a LET (`LetOf`, `FunNode`): TLC's
  coverage unfolds a LET at each of its uses.
- Ghosts: `deviant` (`Session`) is set by the three instructions in which the
  interpreter does the wrong thing (below), `astray` (`ZincShapes`) by two of them, by a call of what is
  no function, and by an evaluation of what the client had not compiled (a handle that holds an
  answer); neither is ever reset. `compiled` is the set of handles that hold compiled
  sources. `copied` (`Sema`) when a type variable
  is taken for generic that is not. `spoiled` (`Release`) when an
  expression is released that reads a declared tuple, or any after a tuple type was
  copied; `beyond` (`Handles`) counts from the call on that passes a limit. Properties
  hold unless a ghost is set (`HandlesHold` for one call more). That `deviant`, `copied` and `spoiled` are needed is what the violation runs
  show; `beyond` is a limit nothing in the code checks (`lib/vm.c:48`).

### Agreement with the built program

The models of this directory were compared with the library built from `src/` (with
AddressSanitizer) by evaluating both on the same programs. They agree on all of:

- the answer or the crash of the 2490 sources of `SmallSources` (`MCSession`);
- the outcome (type, diagnostics, failure without a diagnostic, crash) of the 5674 terms of
  `AloneTerms` (`MCFront`), and of 8000 random sessions of three of its declarations and
  expressions;
- tokens, locations, symbols, trees, diagnostics and crashes of all 12105 single texts
  of `ReaderPrograms` (`MCReader`), 2096 of which crash, with the same diagnostics up to there
  (integers compared modulo the model's width);
- whether releasing touches freed memory, for the 1269 single expressions of `MCRelease`:
  55 do, 1161 do not, and on 53 inference does not end.

## 3. The runs

| run | question | bounds |
|---|---|---|
| `zinc_bytes` | Does the interpreter keep its own state in order on any bytecode, and is it a machine with whole scopes and a stack of callers? | every body of three of 15 instructions, applied to two arguments under a let; argument stack 6, return stack 8, one-byte operands |
| `session` | Does compiled code compute the value of its source, end, and leave nothing behind? Is it well-formed, and does that keep the interpreter in order? And when declarations use one another, in every order of parsing, compiling and executing? | one of the 2490 well-typed expressions of int and pair type (up to 8 nodes; pairs up to 6 nodes with two variables in scope, brought there in three ways); or two declarations, one of them a partial application, and an expression that uses both; 6 handles; stacks of 4 slots |
| `front` | Does inference come back with principal types, resolve names, accept only what is safe, keep declarations? | 5674 terms alone: all closed ones up to 6 nodes over two names, those under an identity, a given identity and an alias of an argument, and those beside an application of one argument to another; sequences of three sources of up to 3 nodes over names two of which have one length |
| `pool_chunks` | Is an object of a pool handed out once, whatever its clients write into it? | three chunks of two objects; clients write the address of an object of the first chunk, which the symmetry leaves alone; pools finished or left behind in every order |
| `srclocs` | Does a location go on to stand for what it was made for? | three sources of 1 or 3 characters, declarations or expressions; three locations, made or combined; narrow up to 3, so that wide ones happen |
| `reader` | Are tokens, symbols and trees those of the text? Does anything get lost in silence, or the parser off its tokens? Does lexing end? | all strings up to 4 or 5 of three sets of characters; all terms up to 4 nodes written out, each with a word lost, replaced, or the rest cut off; terms of 5 nodes; declarations; pairs of texts; 10-bit integers, literals about the least and the greatest |
| `vectors` | Does a vector hold what was pushed, and say true sizes? | first blocks of 1 to 3 bytes, arrays of 0 to 2 and of 5 bytes, 9 bytes in all |
| `handles` | Are the frames a stack of handles? | two frames of three handles; up to two calls beyond a limit; values that look like counters, and one that does not |
| `release` | What of the types is left after releases, in any order? | 1269 expressions alone; declarations of a pair, an identity, and a function to pairs, with expressions that read them |
| `session_deep` | Is `wist.h:65` true of every program? No | one source, the real stack sizes |
| `front_unsafe` | Is README.md:3 true of every program? No | one source |
| `release_clean` | Is `wist.h:153` true of every expression? No | as `release` |

Why the bounds are enough for what is asked.

- An instruction of the interpreter looks at the accumulator, the environment, the
  extra area, the top of the argument stack and one frame. Three free instructions
  inside a call inside a let reach every branch of every opcode with every mixture of
  extra arguments and heap variables, including those the generator never makes. Stacks
  of 6 and 8 slots overflow in this run, so that the bounds checks of the model are
  exercised.
- Terms of 8 nodes include calls of known and unknown functions with too few, enough
  and too many arguments in tail and other positions, and captures under a let. The stacks
  have 4 slots each, exactly what these sources need (with 3 a well-typed one faults): the
  widest of them fill both, and a slot more that an instruction took or left behind is a fault there. A word of one byte only shortens the code. `MaxHandles` stays below the 32 handles of a frame.
- Three declarations over names of equal and of different length meet every case of
  the map.
- In the pool, a chunk of two objects has a first object, whose link is the rest of the
  list, and a last, which is handed out first; three chunks are one left behind, one of
  a pool in use and one to grow by.
- Two sources are enough for a second base, three for a read of the first one's locations after
  both; a combination needs two locations and makes the third. With `MaxNarrow` 3, positions
  0 to 4 lie on both sides of the limit.
- The lexer looks at one character and the one before; strings of four put every state
  before and after every class. Each function of the parser looks one token ahead, and
  damaged terms of 4 nodes bring every token to every place a function can be in.
  The widths of 10 bits let literals of three digits wrap, and 511, 512, 513 with their
  negatives lie on both sides of the two ends of the range.
- A vector's growth depends on whether what is pushed fits, exceeds the block, or
  exceeds the doubled block: 5 bytes do the last to blocks of 1 and 2.
- Two frames have a first one, a last one and a way between. A handle too many is tried on
  either, a frame too many on the last. What the second call beyond a limit does is left open, so
  that no third is needed.
- Releases that interact need two trees that share a type: by a declaration, or within
  one expression by a let or a lambda. Both are in the terms up to 4 nodes under a binder
  of a pair.

Fairness. `SessionSpec` assumes WF of `Run`, a step of the interpreter: nothing
can interrupt `wist_vm_interpret` (`lib/vm.c:76`), so a running evaluation goes on until it
returns or crashes. `ReaderSpec` assumes WF of `Lex`, because `wist_lex` calls
`lex_next` in a loop that only its end leaves. `Vector!Spec` assumes WF of `Grow` and
`Resize`, the loop within a push. Nothing is assumed of clients. Deadlock is not checked:
a client may stop, a crashed or hung program does, and the bounds end sessions.

### What they show

With the exception of three wrong steps, compiled programs compute what their source says.
The three steps, each confirmed by running the built library:

1. `ACCESS` behind the first field of a heap environment follows field 2 from object
   to object, but CLOSURE lays the environment out as one array
   (`lib/vm.c:193`, `lib/vm.c:84`).
2. `ENDLET` with an empty extra area moves two or more variables back in the wrong
   order (`lib/vm.c:112`).
3. `RETURN` with an argument left stores it one slot too high (`lib/vm.c:228`).

In inference: an alias of a lambda's argument can count as generic, so
that ill-typed programs are accepted (`lib/sema.c:317`); generic declarations are
used without instantiation and cannot be copied (`lib/sema.c:359`); the second symbol of a
bucket of the toplevel cannot be found or inserted (`inc/wist/map.h:51`).

In reading: tokens and trees are those of the grammar whenever no error is reported,
and whatever is left out was reported. After a lone dash the next character is
passed over without a look (`lib/lexer.c:230`). When the body of a
lambda or of a declaration has a syntax error, the parser follows NULL to its location (`lib/parser.c:113`, `lib/parser.c:231`),
and after an error at the end of the tokens it reads behind them (`lib/parser.c:73`): the result is
"crashed" in `Reader`. `CrashesExplained` tells the two apart: behind the tokens the parser is only
after it has taken the end of the input for another token, and that is the last it reported, at that
token's place (it may still come back from there, as from `x (`); and NULL it follows only after
it has told where an expression is missing. A declaration goes on
to inference whatever was reported (`lib/compiler.c:63`).

In locations: everything made in the first source keeps, combined ones included; beyond it a
second source's slice is wrong (`lib/srcloc.c:37`), a wide location's index is one too large
(`lib/srcloc.c:61`), and combining adds the base twice (`lib/srcloc.c:92`). These are the
conditions of `FirstSourceKept`.

In memory: a copy of a tuple type shares its vector with the original, so that
`let y = (1, 1) in y end` is released twice (`lib/sema.c:351`, run `release_clean`); and
an expression that reads a declared tuple takes the declaration's fields along, whose
type is an empty tuple from then on (`lib/ast.c:266`, excluded by `spoiled`). The types a diagnostic
names are gone when inference went on after the error (`lib/sema.c:100`, `lib/sema.c:400`;
`DiagnosticsSurvive` holds of the others). The 33rd handle of a frame is
written over its counter (`lib/vm.c:48`) and works: `HandlesHold` says that every handle is still
readable after it. What goes wrong does so in the calls that follow.

Further facts that the models contain and that no run is spent on: a term whose type
would be infinite, `\x -> x x`, is reported and then recursed on without end (fate
"never"); a declaration of a name that exists stores through NULL (`status =
"crashed"`, `lib/sema.c:112`); `let` is not polymorphic for functions, since only a
bare variable is copied (`lib/sema.c:317`); a tuple of more than 128 fields overruns
the argument stack (`Defined`, PUSH).

## 4. What is proved

For all constants that satisfy the assumptions. Those of the interpreter are about
arbitrary code and not only compiled code, but for the two that assume it well-formed and the
three about what the generator puts together; those of the lexer are about texts of any length and content, of one source after the other:

| theorem | states | argument |
|---|---|---|
| `TypeCorrect` | `Spec => []TypeOK` | inductive as it stands. The work is in the helpers: `Field`, `FullEnv`, a capture and a slot update stay in their types; every new `rsp` is within its array because `Defined` demands what the code assumes |
| `NothingDangles` | `Spec => []NoDangling` | inductive together with `TypeOK`. It must include the free slots of the return stack, because RETURN may read them, and the heap itself. Allocation only extends the heap, so references stay live; each instruction writes values from places the invariant covers |
| `FramesAreFound` | `FSpec => []FramesFound` | over the history variables. The invariant is `Layout` (each frame lies exactly its own extra arguments above the one before) together with `Intact` (no bare argument has overwritten it): every write of a bare argument goes to a slot at or above `CurBase`, and every frame lies below it. It ends with the first `ReturnToArg`, the step with the misplaced argument; `leftover` says so |
| `IsMachine` | `FSpec => MachineSpec` | `FramesInv` (types, nothing dangles, the empty environment is empty, frames are found) tells what the slots mean: the running code's `Scope` is its slots down to `CurBase` and then its heap environment, and each caller's lies between two frames. `Names` finds a variable's place in a scope; `CallersStay` says that an allocation, or a write at or above `CurBase`, changes no caller; `ScopeBinds`, `ScopeDrops` and `ScopeSpills` say what one slot more, one less, and an array moved back do to a scope. One lemma maps each instruction to its own of `ZincMachine`. The machine says what the code does, so it has the first two wrong steps of section 3 in it: it promises nothing of a variable read beyond the first captured one, and its ENDLET turns the order when no variable was bound since. With the third, `lost`, its promises end |
| `FaultsAreExplained` | `ShSpec /\ CompilesWellFormed => []FaultsExplained` (`ZincShapes`) | a shape is what the running code itself has on the argument stack and how many variables it has; well-formed code has one at every instruction, and they agree wherever control goes (`Fits`). The invariant `ShapesInv` says that the machine lies in such shapes: the argument stack is what the running code owns, then the arguments it was called with down to a mark, then what each caller owns and was called with, layer by layer, ending with the code of the client's source (`Suspended`); each layer has the frame that returns to it, whose place `FramesInv` knows; each closure, partial application included, is entered at a shape of its own with the variables it captured (`Objects`). Code appended behind code moves no shape (`FitsTogether`), allocation no object (`HeapGrows`). One lemma for each instruction: what it needs is there, and the next instruction's shape holds afterwards |
| `ReturnsBalanced` | `ShSpec /\ CompilesWellFormed => []BalancedAtReturn` | the last layer is the source's, which RETURN meets with nothing left of its own |
| `EmittedIsShaped` | everything in `Emitted` has shapes (`CodeProofs`) | `Generated` is the least family of pieces of code that is closed under the forms of `CodeForms` (`HasForms`): expressions, code in tail position, pushed arguments, each where some number of variables is bound; `Emitted` are the whole sources made of them, of any size. By induction over the forms: the pieces that work (`Good`) are closed under them, so that `Generated` is within. A piece works if it leads from every shape it can begin in to the one its kind promises (`Leads`): an expression to the same, arguments to as many values more, code in tail position to some shape with nothing of its own. `OneLeads` is about one instruction, `LeadsOn` about code behind code, `ClosureLeads` about code that is passed over; one lemma for each instruction and one for each form |
| `EmittedCodeIsSafe`, `EmittedCodeReturnsBalanced` | `ShSpec => []FaultsExplained`, `ShSpec => []BalancedAtReturn`, for `Chunks \subseteq Emitted` | what a client has compiled has shapes, by the theorem above; the rest is the invariant of `FaultsAreExplained`, which needs no more of the code (`ShapesStay`) |
| `ClosureScope` | `Spec => ClosureKeepsScope` | `FullEnv'` after CLOSURE is the new heap array, which is `FullEnv` |
| `EndLetScope` | `Spec => EndLetDropsInnermost` | by whether the extra area is empty; with the spill it needs that `emptyEnv` refers to an object without fields, an invariant of its own (`EmptyEnvStays`, from `HeapOnlyGrows`) |
| `FreeListStaysIntact` | `Spec => []FreeListIntact` (`ObjPool`) | inductive together with `TypeOK`. The history variable `free` is the list in order; a client's write goes to a live object, and no live object is in the list. That a new chunk's objects are nobody's needs `NothingLost`: all that is live lies in chunks the context has handed out. `PushedChunk` and `ThreadedChunk` say what the loop of `new_chunk` builds |
| `PoolTypes` | `Spec => []TypeOK` (`ObjPool`) | a part of the same invariant |
| `PoolIsAllocator` | `Spec => HandsOutOnce` | every step of the pool is one of `Allocator` or leaves `owners` alone, which counts how often an object was handed out and not given back (a second hand-out would be no step of `Allocator`, and no stutter); alloc needs the invariant (the head is not live), growing needs `NewChunk` |
| `IndexTypes` | `Spec => []TypeOK` (`SrcLocs`) | part of the next invariant: a narrow location's fields are below 2^16 because of the test before it is packed |
| `FirstSourceStays` | `Spec => []FirstSourceKept` (`SrcLocs`) | `TypeOK`, `Based` (while there is one segment the base is 0, and what is read is the last segment or in none) and `InFirst` (a location of the first source that is neither empty nor beyond the limit is its own position, and lies within the segment). Segments are only added behind the first, and a narrow location is resolved by the first segment that reaches it, so no later step moves it; combining keeps to base 0 |
| `NarrowStays` | `Spec => NarrowIsStable` (`SrcLocs`) | a narrow location is read without the table of wide ones; segments only grow at the end (`SegmentsGrow`); and the segment found is the first that reaches the start, which exists by the least-number principle and, with the text before it, depends on the segments up to it alone (`SameSegment`, `SameBefore`) |
| `TokensTileTheText` | `Spec => []TokensTile` (`Lexer`) | the invariant adds `Forward` (`start` does not overtake `end`, and a word or number that has begun begins in the text with a character of its class) and `Behind` (tokens and passed characters lie behind the position). One lemma per kind of step: a token appended, a character passed, white space, a step inside a word or number |
| `SymbolsStandForTheirText` | `Spec => []SymbolsAreTheirText` (`Lexer`) | `SInv`: the strings of the index differ pairwise, the keywords are the first three, and every word's token refers to its text. A search finds the string or shows that it is new |
| `EveryMatchIsLongest` | `Spec => []LongestMatch` (`Lexer`) | `LInv`: every token ended where the next character is none of its class (`LongestWord`, `LongestInt`, `LongestMark`, `LongerToken`); `ClassInPlace` says of positions in the text what `InClass` says of the text cut out |
| `EachRunIsReportedOnce` | `Spec => []OneReport` (`Lexer`) | `OInv`: the lexer's flag is set exactly if an unexpected character was passed since the last token; so a report is made for the first of a run and for no other (`RunGoesOn`, `TokenReports`) |
| `LiteralsHaveTheirValue` | `Spec => []LiteralsFit` (`Lexer`) | `VInv`: inside a number `total` is the value of the digits read while that is below `IntHalf`, and the least integer when it is `IntHalf` itself, whose negation it is (`Keeps`; larger values are larger with every further digit, so nothing needs to be known of them). The value is a recursive function of the text; what holds of it for every number of digits follows from the least counterexample (`Counting`, by the library's `WFMin`). `KeepsOn` adds a digit, `WrapFits` says what wrapping does in range |
| `SizesStayTrue` | `Spec => []SizesAreTrue` (`Vector`) | `TypeOK` and `Fits`: the block has the size the vector remembers, and use stays below; a fixed block has the size that is used |
| `VectorIsGrowingSeq` | `Spec => IsGrowingSeq` | each step is one of `GrowingSeq` or leaves `items` alone: a copy behind what is used leaves the items before it, and a resized block begins with the old one, both lemmas about `SubSeq` |
| `HandlesStayTrue` | `Spec => []HandlesHold` (`Handles`) | `Held`: below the limits each frame's counter says how many handles the client has of it, and their cells read back their values. It rests on `Places`: the words of two handles, of two counters, and of a handle and a counter never meet, because a frame's words end where the next frame's begin (`Steps`, the one fact about multiplication). Of the first call that passes a limit: a handle too many lies on the counter of its frame and the word behind it, where no handle has its own (`BeforeOverrun`, `OneTooMany`), and a frame too many begins outside the memory (`FrameTooMany`). Of later calls nothing is claimed |
| `MemoryIsHandleStack` | `Spec => IsHandleStack` | below the limits the mapped memory is `Kept`, the values the client was given and has not popped; each call does to `Kept` what `HandleStack` does to its stack. Its last disjunct allows anything once a limit was passed, and the step that passes it is `PassLimit` |

Assumptions, all named in the modules that declare the constants: `ChunksAssumption`
(code consists of cells), `SymsAssumption`, `SizesAssumption` (stacks have
slots), `WordBytesAssumption`; `LenAssumption`, `NullAssumption`, `WordsAssumption` for the
pool; `SrcLocAssumption` (a width of locations, what a stray read gives) and
`SourcesAssumption` (lengths and spans) for locations; `HandlesAssumption` (frames and handles
exist; a tag is less than the padding above it); `LexerAssumption` (texts are sequences of characters; widths);
`VectorAssumption` (arrays of bytes, blocks that are not empty).

Only model-checked, because the provers reach neither liveness nor `RECURSIVE` operators:

- `Terminates`, `LexingEnds`, `PushEnds`: liveness.
- `KeepsPromise` (the refinement of `EvalSpec`) and `CompilesWellFormed`, which rest on the recursive
  `CodeGen` and `Strict`. The latter is the one hypothesis of `FaultsAreExplained` and
  `ReturnsBalanced`. What is proved of it is `EmittedIsShaped`, about all that is put together from
  the forms. That `CodeGen` does put its code together from them, and nothing else, is no theorem, since
  it recurs over terms: each of its cases applies one form to the code of the parts, and the session run
  checks the outcome for its sources. Two premises in `HasForms` are the code's own: a variable is
  one of those bound, which `lib/sema.c` sees to, and no operand is cut (`Uncut`), which nothing sees to
  (`lib/vm_gen.c:193`, `:211`): for a body of 64 KiB, a tuple of as many fields or 257 nested
  variables nothing is claimed.
- `FaultsOnlyWhenDeviant`. The part of it that needs no types is `FaultsExplained`; what is
  checked only is that a well-typed program calls nothing but functions, fits the stacks, has
  registered what it reads, and goes astray by nothing but a wrong step.
- Everything of `Sema`, `Front`, `TypeHeap` and `Release`, whose definitions recur over terms and
  types; `ParsesGrammar`, `NoSilentHole` and `CrashesExplained`, over the recursive descent.

Induction over a number is within reach where the recursion is a function (`Counting`); a
definition that recurs over terms, types or sets of them is not one.

## 5. Not modelled, and the plan

Not modelled, and why:

- printing (`lib/vm_obj.c` and the print functions of `lib/ast.c`, `lib/lir.c`,
  `lib/lexer.c`), the driver `bin/wisti.c`, the build: output and a fixed demonstration.
- `wist_ast_decl_destroy`, which does nothing, and `wist_compiler_destroy`: nothing
  happens after it. (It leaves the vector of segments behind.)
- blocks that the error paths of `lib/compiler.c` leave behind (tokens, trees): nothing refers
  to them again, so that no state tells the difference.
- `let.scope` and the lists of scopes, which form trees; the renamer's block and
  the lists of `fresh_type_rec`, which live within one call.
- the list of objects of `lib/vm_gc.c`: no object is ever linked into it (`lib/vm_gc.c:28`).
- the growth of a bucket of the toplevel: a second symbol of a bucket is not reached
  (`inc/wist/map.h:51`).
- failing allocation, which the code does not look at (`lib/ctx.c:46`).
- finishing a vector twice: no caller does. (The second call would ask for a block of no bytes.)

What was planned, in order, and is done:

1. `ZincVM` with its proofs: the machine everything rests on.
2. `CodeGen`, `Session`, `EvalSpec`: the compiled program against its meaning.
3. `ZincFrames` and the proof about frames.
4. `Sema`, `Typing`, `Front`: types against a reference; sessions of declarations.
5. `ObjPool`, `Allocator` and the proof that one implements the other, for every chunk size.
6. `SrcLoc`, `SrcLocs`: what a location denotes, with the proof for the first source.
7. `SymIndex`, `Lexer`, with two proofs; `Parser`, `Grammar`, `Reader`.
8. `Vector`, `GrowingSeq` and `Handles`, `HandleStack`, with both refinements proved.
9. `TypeHeap`, `Release`: who owns types and vectors, and what releases take along.
10. `ZincMachine` and the proof that the interpreter implements it; the other three
    properties of the lexer.

11. `ZincShapes` and the proof that well-formed code keeps the interpreter within its stacks, objects and
    code; `CodeForms` and the proof that what the generator puts together is such code.

What is left:

12. `Pipeline`: texts to answers through `Reader`, `Front`, `CodeGen` and `ZincVM` in one state
    machine, with types from `InferExpr` and not from the terms of `MCSession`. Its parts are checked against
    one another now: `Reader`'s trees against the grammar, `Front`'s types against
    `Typing`, `Session`'s answers against `Strict`.
13. A proof of `DeclarationsAreFound`. It needs the buckets of the toplevel apart from the
    recursive operators of `Sema`.
