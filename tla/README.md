# A verification project for LuaDemo

LuaDemo is an Android application that talks to smart lamps. What the bytes on
the wire mean is not compiled into it: every device model has a *profile*, a
Lua script in the application's assets (usually encrypted) with two functions,
`jsonToData` and `dataToJson`. The application calls them through a small host,
`LuaManager`, which keeps one Lua virtual machine per script, on a Lua 5.1.5
interpreter built into a native library with `bit.c` and `lua_cjson.c` added.

This directory holds TLA+ modules of the parts where that can go wrong, TLC
configurations that check them on small instances, and proofs of the main
results for all instances, checked by TLAPS.

## 1. The system

    MainActivity --setDataKey--> LuaManager --cache--> LuaState objects
        |  encodeJsonToBytes         |  (Java monitor)       | finalize
        |  decodeBytesToJson         v                       v
        +----------------------> createLuaState        JNI: LuaState.c
                                     | AESCrypt              |
                                     v                       v
                                  assets (*.lua)       lua_State: stack, frames,
                                                       collector, libraries
                                                             |
                                                    the device profile script
                                                    (cjson, bit, string, table)

| component | state it keeps | operations | what is hard | what makes it correct |
|---|---|---|---|---|
| `LuaManager.java` | `mLuaStateCacheMap`, `mDecodeKey` | `encodeJsonToBytes`, `decodeBytesToJson`, `setDataKey` | threads; a reentrant monitor that not every access takes; exceptions; a finalizer on its own thread | one thread per machine, nothing used after it is closed, one loaded machine per file, callers get their own answers, the monitor is always released |
| `LuaState.java`, `LuaState.c` | `luaStatePointer` | open, run, push, pcall, tostring, pop, close | unchecked pushes, what a failed call leaves | the Lua stack is what it was before a call, with one message per failure |
| the profile script | `cmdTypeValue`, `powerValue`, `brightnessValue`, `timeValue` | `jsonToData`, `dataToJson` | state that outlives a call, failure in the middle of an update, 32-bit signed arithmetic, tables with holes | what is sent is the profile, and decodes to it |
| Lua stack and calls (`ldo.c`, `lapi.c`) | `stack`, `top`, `base_ci .. ci` | `luaD_precall`, `luaD_poscall`, `lua_pcall`, `luaD_throw` | reallocation, varargs, tail calls, errors, limits | every frame's slots lie in the stack; calls are balanced |
| Lua VM (`lvm.c`, `ltm.c`, `ldo.c`) | registers, frames, threads, `nCcalls` | the instructions, metamethods, coroutines, errors | open results, upvalues of frames that go, caches of absent metamethods, limits with a margin for their own error | code answers what its program means; counts are restored on every way out |
| collector (`lgc.c`) | colours, lists, `gcstate` | steps, barriers | incremental marking while the program runs, finalizers, weak tables, threads | nothing reachable is freed; everything else is, in time; finalizers run once |
| strings, tables, upvalues (`lstring.c`, `ltable.c`, `lfunc.c`) | hash chains, nodes, open upvalue lists | intern, get, set, next, close | dead strings that come back, dead keys, shared upvalues | maps are maps; a variable is one variable |
| compiler, chunk format (`lparser.c`, `lcode.c`, `lundump.c`, `ldump.c`) | `FuncState` | parse, dump, load | jump lists, registers | the code means the text |
| `lua_cjson.c`, `strbuf.c` | configuration, the encoding buffer | `encode`, `decode` | nesting limits, a buffer kept across errors | a round trip; no half-written buffer is seen |
| libraries (`lbaselib.c`, `loadlib.c`, `lstrlib.c`, `ltablib.c`, ...) | `package.loaded`, the matcher's captures, what a function that calls back has read | many | a match that gives up, callbacks in the middle of a sort, modules that require each other | a pattern matches what it means, a sort loses nothing, a module is loaded once |
| activity, resources, build files | none of their own | | | |

The threads are the application's: nothing in the Lua library locks
(`lua_lock` is empty in this build), so the monitor in `LuaManager` is all that
keeps two callers apart. Within one machine everything is sequential, but the
collector runs a step at a time between the program's instructions, and any
call can end in a `longjmp`. Nothing is written to disk and nothing goes over a
network inside this code: there is no crash recovery and no message loss to
model. The list under "hazards" in `PROJECT.json` names each difficulty at the
line where it bites and the properties that watch it.

## 2. The modules

| module | models |
|---|---|
| `ScriptHost` | the abstract host: what `LuaManager` promises its callers |
| `LuaManager` | `LuaManager.java`, `AESCrypt.java`'s outcomes, `LuaState.java`, the native calls of `LuaState.c`, the Java finalizer, the activity |
| `MCLuaManager` | its instances for TLC |
| `LuaManagerProofs` | its theorems |
| `LuaStack` | the value stack and the frames of one machine: `ldo.c`, parts of `lapi.c`, `lvm.c`, `lgc.c` |
| `LuaStackProofs` | its theorems |
| `DeviceProfile` | the profile script, `bit.c`'s three operations, what `cjson` and `#` can answer it |
| `MCDeviceProfile` | its instance for TLC |
| `DeviceProfileProofs` | its theorems |
| `LuaGC` | the incremental collector (`lgc.c`) and the program between its steps: barriers, upvalues (`lfunc.c`), strings found again (`lstring.c`), finalizers, weak tables |
| `MCLuaGC` | its instances for TLC |
| `LuaGCProofs` | its theorems |
| `CJson` | `decode`, `encode` and the settings of `lua_cjson.c` |
| `JsonGrammar` | what JSON texts mean, stated without a parser, and that `decode` agrees |
| `JsonTrees` | the JSON texts of a Lua value, stated without an encoder, and what they read back as |
| `JsonProofs` | the theorems of `CJson` and of both |
| `InductionFacts` | induction and recursion over natural numbers, in a form the provers can use |
| `MCCJson` | its instance for TLC |
| `LuaValue` | Lua values, coercions, comparison, numerals in strings (`lobject.h`, parts of `lvm.c`, `lobject.c`) |
| `LuaTable` | `ltable.c`: array part, node chains, rehash, border, traversal, and the cache of absent metamethods (`ltm.h`) |
| `LuaTableProofs` | its theorems |
| `LuaCode` | `lcode.c` with the operand modes of `lopcodes.c`: registers, constants, jump lists, code for expressions |
| `LuaParser` | `lparser.c`: blocks, scopes, expressions, statements, calling `LuaCode` as the parser calls `lcode.c` |
| `LuaCheck` | the verifier of bytecode in `ldebug.c` |
| `LuaMachine` | the state of the virtual machine: threads, frames, registers, upvalues (`lstate.h`, `lfunc.c`, `ltm.c`) |
| `LuaBaseLib` | the functions of `lbaselib.c` that run without the machine's help |
| `LuaDo` | calls, returns, metamethods, errors and coroutines (`ldo.c`, `lvm.c`, `lapi.c`, the rest of `lbaselib.c`) |
| `LuaTableLib` | `ltablib.c`: insertion, removal, `foreach`, `concat`, and `auxsort` one comparison at a time |
| `LuaText` | characters and their codes, and the captures of a match |
| `LuaMatch` | the pattern matcher of `lstrlib.c`, with its recursion |
| `LuaStringLib` | the rest of `lstrlib.c` but for `format` and `dump`: `find`, `match`, `gmatch`, `gsub`, the simple functions |
| `LuaPackageLib` | `require` of `loadlib.c`, its loaders and its sentinel |
| `LuaVM` | `luaV_execute`, one action for each kind of instruction, and what the machine promises |
| `LuaVMProofs` | the theorems of the machine, with `LuaMachine` and `LuaDo` |
| `LuaMeaning` | the reference: what a chunk means, without code or registers |
| `LuaPatterns` | the reference for patterns: all the ways a pattern matches, in order of preference |
| `LuaPrograms`, `LuaLibPrograms` | the chunks that are compiled and run |
| `MCLuaVM`, `MCLuaForList` | their instances for TLC |

### LuaManager

One step is one access to shared state. `pc[t]` names the next statement of
thread `t`; `owner` and `depth` are the Java monitor with its hold count;
`cache` and `key` are `mLuaStateCacheMap` and `mDecodeKey`; `state[t]` and
`text[t]` are the locals of `createLuaState` and of the method that called it.
A `LuaState` object and the machine behind its pointer are one member of `Obj`,
whose life is `vm[o]`: unborn, none (a null pointer), open, ready (its script
ran) or broken (it failed), closed. `stack[o]` holds a tagged slot for each
value on its Lua stack.

`encodeJsonToBytes` and `decodeBytesToJson` differ in the name of a global
function and are one action, `Call`. `createLuaState` is reached while the
monitor is held and takes it again (`CreateHit`, `CreateMiss`); the
`RuntimeException` of `readLuaStringFromAssets` leaves both levels at once
(`ReadThrows`). `mDecodeKey` is read twice (`CheckKey`, `Decrypt`), and
`SetDataKey`, which takes no lock, can fall in between. Each native call is an
action, so that a missing monitor would show as two threads in one machine.
`Finalize` runs when no local variable that is still to be read, and no cache
of a manager that is still reachable, refers to the object; liveness of locals
is what a compiled method keeps, not their scope.

`ScriptHost` has none of this: a thread asks for a file, one at a time is
served, a script is loaded at most once between restarts, and a result needs a
loaded script. `RefinesHost` maps the cache to the loaded files, the monitor's
owner to the thread being served and each answer to the reply.

### LuaStack

Positions are offsets from `L->stack`, which makes `correctstack` the identity;
stale pointers are therefore out of its reach. `frames` is `base_ci .. ci`, and
`host` says where `LuaManager`'s sequence of calls is. `Checked` is
`luaD_checkstack` with `luaD_growstack`, `Shrunk` is `checkstacksizes`.
`EnterLua`, `EnterVararg` and `EnterC` are the branches of `luaD_precall`, and
`CallTM` is what `tryfuncTM` does before them for an object with `__call`.
`VarargSizes` has the collection and the second check of `adjust_varargs`, which
only a function that wants the old-style `arg` table makes. `MetaCall` is a call
of a metamethod, for an instruction or for a C function;
`TailCall`, `Vararg` and `CloseList` are the instructions that move `top`;
`Return` is `luaD_poscall` with each way the caller may take the results;
`Error` is `luaD_throw` up to the innermost `lua_pcall`, with the pieces of the
message pushed first. `Collect` and `MayCollect` stand for the collector at
each point where the code calls `luaC_checkGC`; the finalizers it may call are
`LuaGC`'s.

### DeviceProfile

JSON and hexadecimal text stand for what they denote. A byte is a digit in base
`Base`, so that 32-bit words have four. `jsonToData` merges the command, then
checks it, as the script does; `dataToJson` reads the length with `#`, which
may answer any border of a table with holes. A value `tonumber` accepts from a
string is kept apart from a number, because only one of them survives `type`.
Numbers that are not integers are left out.

Large numbers lose something in two places, and not the same on every ABI. What
`string.char` takes as a byte is what `luaL_checkint` makes of the brightness:
64-bit builds keep the low 32 bits of it, so that 2^32 + b is accepted and sent
as b, while on ARM with 32 bits the conversion is one that C leaves undefined;
`Truncated` stands for whatever becomes of a number that no int holds. `bit.c` adds 2^52 + 2^51 to a
double and reads the low bits of the sum, which is exact within `Exact` = 2^51;
`Rounded` is the word it takes any other number for. Nothing is assumed of
either but that `Rounded` answers a word.

### LuaGC

`color[o]` is the mark bits: `white` is the current white, `dead` the other
one, so that flipping `currentwhite` renames the two. `phase` is `gcstate`,
where `atomic` is cut at its calls of `propagateall`; the program does not run
in between. `gray`, `grayagain`, `weak` and `tmudata` are the lists, as sets;
the sweep's position is the set `toSweep` of what it has not seen. `full` is
where `luaC_fullgc` is: the program runs inside it too, from the first
finalizer on.

`refs[o]` holds what an object refers to, with the key for a table's entries. A
thread's `refs` is its stack; the slot an open upvalue points to is held by the
upvalue, `open[w]` names the thread, and `Slots` puts both together. That is
how the thread's own assignments (`SetLocal`, with no barrier) and the closures'
(`SetUpval`) reach one slot. A collector step is one object where the code takes
as many as the pacing asks for, so that every interleaving with the program is
covered. Environments, metatables and the registry are ordinary references; C
closures and prototypes add none that behave differently. A metatable of a
basic type is a root of its own (`basic`), because it is set without a barrier.
What `atomic` marks as the running thread is any thread there may be (`Threads`),
and a finalizer is called on any of their stacks. Metatables of tables are no
objects of the model: `SetMode`, which sets one, may or may not find it white, and
so may or may not go through the barrier.

The program takes objects from what it can reach (`Get`), keeps a few on stacks
(`Give`, `Drop`) and stores them. `Owners` is the object whose color decides the
barrier of an upvalue's assignment: with `DebugLibrary` it may be the closure,
as `lua_setupvalue` has it.

### CJson

A text is a sequence of tokens. Null, booleans and numbers take the same way
through the code and are one token; strings are model values. `pc` says which
token `decode` reads next, `open` is the recursion of its two container
functions, `stack` the Lua stack with tables as sets of entries, `reserved` is
`L->ci->top`. A text is chosen token by token while it is read, so all texts
up to `MaxTokens` are tried and `read` keeps what they were.

`encode` works on `heap`, tables that may refer to each other; `frames` are the
calls of `json_append_array` and `json_append_object`. `kept` is the buffer in
the configuration and `local` the private one, either a text or `NoBuffer`.
`Raise` is the way out by `longjmp`, on which buffers have to be freed, and
`RefuseCall` the checks of arguments (and for UTF-16) before there are any. `T_END`
is the end of a text or a NUL in it, behind which the code does not look. Errors
leave a message on the stack, as one string: the pieces it is made of are
pushed by code that grows the stack itself. `Finish` ends a call and forgets
what was in the kept buffer except that there was something.

`JsonGrammar` and `JsonTrees` are no translations: the first enumerates the JSON
texts of a length together with the values they stand for, as a recursive
function of the length, the second gives the texts of the tables nested no deeper
than `d`, as one of `d`: a table that contains itself has none at any depth.

### Tables

A table is a record and each function of `ltable.c` an operator from one to the
next. A node's `next` is the number of a node, as the code's is a pointer, and a
search along a chain (`OnChain`) is a recursive function, not a RECURSIVE
operator, so that something can be proved of it. `HashOf` is a parameter: the
code's hash of a pointer is its address, and no property may depend on it.

### The compiler

`lparser.c` compiles in one pass and `lcode.c` patches what has been emitted, so
each of their functions is an operator from a compiler `x` to the next one:
`x.fs` is the function being compiled (its `FuncState`), `x.prev` those around it,
`x.t` the tokens that are left. An
`expdesc` is a record `Exp` and keeps its two jump lists; a list of jumps, which
the code threads through the instructions' operands, is the set of their
positions. Positions count from 1, registers from 0 as in the code. Constants go
to the pool and an operand holds either one (`RKASK`) or a register; only
`MaxIndexRK` constants fit. `bad` collects the `lua_assert`s that fail, which
this build compiles out. The syntax of numbers and strings is the lexer's and is
left out; so are names that are not needed after the parse. The sizes of a
constructor's table are rounded as `luaO_int2fb` does (`Int2fb`, `Fb2int`). What comes out
(`ProtoOf`) is run through `CheckAll`, the verifier that the code applies to
precompiled chunks.

### The virtual machine

A machine `m` is a record (`LuaMachine`), and `LuaVM` has a variable for each of
its fields. An action executes one instruction of the thread that runs. What an
instruction cannot do on its own it leaves in `todo`: a call, a C function, a
return, an error on its way to its handler, the next link of a chain of `__index`
tables, the rest of a concatenation. So a C function that calls back
(`pcall`, `tostring`, a metamethod) is cut where the code recurses, and the
results of a call say in their `Ret` where they go. A register that a call has
left behind holds `Dead` and not an old value, so that reading one is seen.

Frames that run on a C stack of their own (`luaD_call` from a metamethod, an
iterator, `pcall`, a resume) count in `nC`, as `nCcalls` does, and limit yields.
An error goes to the innermost frame with a handler, closes the upvalues of all
frames above and restores `nC` from where it was saved (`Unwind`); with none
left in the thread, the thread is dead and the one that resumed it has the
message. An open upvalue names a thread, a frame and a register; a closed one
holds a value.

`LuaMeaning` is not a translation of any code: it evaluates the syntax tree over
a store of variables, so a wrong jump, register, upvalue or constant has nothing
to hide behind. It knows no metatables, coroutines or limits: the programs that
use those come with their answers. `LuaPrograms` is built in families, so that
each construct meets each context: a condition of two connectives and three
operands in every place that takes one; every kind of loop left in every way
while a closure outlives its variables; each operator with constants (folded or
not), variables, and constants that do not fit an operand; open calls and varargs
in every place that takes a list. Then come single programs for the rest, with a
comment that has their Lua text, and two that the compiler refuses.

### The libraries

A library function is an operator from a machine and its arguments to an
`Answer`: values, an error, or a call to make first. A function that calls back
keeps its locals in the field `k` of its frame and goes on in `GoOn` when the
call returns, so that what the called function does to the table, an error in
it or an attempt to yield falls between two of its statements, as it would in
C. `LuaTableLib` cuts `auxsort` at each comparison: `k.l .. k.u` is the range at
hand, `k.rest` the halves it has put off, `k.x` and `k.y` the elements read
before the call that will be written after it. Where the code loops without
calling back (a comparison of two numbers, a round of `gsub` whose replacement is
a string) the function asks for another turn (`Again`), which is a step of its
own, `DoAgain`. `LuaStringLib` takes the matcher as a parameter, `MatchOf` and
`ExpandOf`, so that the machine has no RECURSIVE operator and can be proved
about; the runs give it `Match` and `Expand` of `LuaMatch`, which keeps the
matcher's recursion: where the code changes the captures in place and undoes
that on failure, a failing match answers the captures it leaves, which is what
the next alternative starts from. `LuaPackageLib` has `package.loaded` with the
sentinel, and `LibsOpen` (in `LuaDo`) the tables `luaL_openlibs` makes, the
metatable of strings among them.

`LuaPatterns` has no captures to undo: it lists every way a pattern can match
from a place and takes the first. The programs of `LuaLibPrograms` compare the
two over twelve kinds of character under five quantifiers with four tails, and
over seventeen patterns with captures, references back, balances and frontiers,
for `gsub`, `find` and `gmatch`. Sorts are checked against the multiset they
were given, with the default order, a callback, duplicates, an inconsistent
order and one that raises an error or changes the table. The single programs at
its end have their Lua text in a comment and the answers Lua 5.1 gives.

## 3. What is checked

Run `tlc -config X.cfg M` with the modules and configurations named in
`PROJECT.json`.

| run | question |
|---|---|
| `manager` | Two threads, three calls, four assets (encrypted, plain, empty, missing), a key that changes at any moment, a finalizer and an activity that come and go. |
| `manager_live` | Is the monitor always given back? |
| `stack` | Calls three frames deep on a stack scaled down to a few slots, so that it grows and shrinks all the time. |
| `stack_api` | The real sizes: does the host keep to the 20 slots it is promised? It does not. |
| `stack_vararg` | The real sizes: does a vararg frame always fit when two parameters are left out? It does not. |
| `profile` | All sequences of commands and statuses over small values. |
| `gc_tables` | A table of any weakness, a userdata with a finalizer, a string and the main stack, all orders of collector and program. |
| `gc_live` | Two threads, a closure and one upvalue, open, shared, closed or dead: is what is reachable kept, and garbage freed in the end? |
| `gc_setupvalue` | `debug.setupvalue` on a shared upvalue: does it keep its value alive? It does not. |
| `cjson` | All texts of up to nine tokens, valid or not, and tables that may be cyclic, sparse or impossible to write, under all settings, one call after another: is what either returns what JSON means, and is what `encode` returns read back? |
| `lua_programs` | Does what the compiler emits, on the machine, do what each program means, down to both overflows and errors in error handlers, and do patterns, sorts and `require` do what they should? |
| `lua_forlist` | Do the compiler's own assertions hold for a generic `for` with four expressions? They do not. |

The properties, by what they exclude:

- `VMExclusive`, `NoUseAfterClose`: two threads in one machine; a native call on
  a closed machine.
- `CachedIsReady`, `NoOrphanMachine`, `CacheStable`: a half-loaded machine in
  the cache; a second machine for a file, with its own copy of the profile; a
  cached machine that is lost.
- `StackAccounting`, `AnswerIsOwn`: the stack between calls is exactly one
  message per failure and what the chunk left, and still every caller reads the
  result of its own call.
- `RefinesHost`, `MonitorReleased`: the callers see the abstract host; no
  thread keeps the monitor.
- `FramesFit`, `HostRoom`: the reserved slots of all frames, and the host's two
  unchecked pushes, are inside the stack, whatever was reallocated.
- `FramesNested`, `CallBalance`: frames are stacked, an error removes exactly
  those above its handler, and a call leaves one value where its function was.
- `RoundTrip`: the device was sent the profile, whatever failed or was decoded in
  between: the time modulo the word and signed, if `bit.c` is exact for it, and the
  brightness, or the byte that became of one that is no int.
- `StatusIsCommand`: a status that is decoded and given back as a command restores
  every property it has a known value of, leaves the others, and gives all four
  bytes of its time or none of them; a status with holes decodes to any of its
  borders, and one with a hole in the time it was thought to have is refused.
- `FailureSticks`: a command that fails is merged all the same and makes the next
  ones fail, exactly until the profile can be encoded again, as it can after a
  good one.
- `NoDangling`: anything the program, a finalizer or the collector can come to
  by references is allocated and not condemned.
- `GCInv`: why that is so, in three parts. While objects are marked no black one
  refers to a white one (`TriColor`); every gray one is in exactly one list
  (`GrayIsListed`); no mark is left over when a cycle ends (`PauseIsWhite`).
- `FinalizedOnce`: no finalizer runs twice, and nothing is freed before its own.
- `FullIsComplete`, `GarbageCollected`: a full collection leaves no garbage, and
  without one garbage still goes in the end.
- `WeakKept`: of an entry that a weak table loses, the key or the value was an object,
  no string, that nothing but weak references led to, waiting finalizers included; or
  the value was a userdata that had been handed to its finalizer.
- `DecodesGrammar`, `EncodesTree`: `decode` accepts exactly the JSON texts, with
  their values, and refuses others at the first wrong token; `encode` writes a
  text of its argument, nothing of an earlier one, and refuses exactly what has
  none. Both refuse what is nested too deep, there and nowhere else.
- `EncodedReadsBack`: what `encode` returns is a JSON text, which `decode` accepts
  within its own limit of depth, and it means the value again, with `null` for nil and for the holes of an array.
  It says nothing of a number that was a key of an object: `encode` writes it as
  a string (`lua_cjson.c:642-645`), which is none of the model's.
- `SlotsReserved`, `DepthBalanced`, `BuffersOwned`: every push is within what
  `lua_checkstack` gave; the depth counts open containers; each buffer is freed
  on every way out, and only by its owner.
- `CodeMeansProgram`: a chunk answers what its program means, or the error it
  calls for, and nothing else; with the libraries' programs, a pattern finds and
  captures what it means, a sort keeps every element, a module is loaded once.
- `CodeVerifies`: what the compiler emits is what the verifier asks of
  precompiled code, with no assertion of the compiler failing on the way.
  `AssertionsHold` is the second half, for the run where it does not hold.
- `UpvaluesLive`: an open upvalue points to a register that is there, and there
  is one for each register, whichever way a frame was left.
- `AbsenceTrue`: a metatable remembered to lack an event lacks it.
- `TablesSound`: each key is found where it is, chains start at home and do not
  merge, and no free node is above `lastfree`.
- `CallsNest`: the count of C calls is right after every return, error, resume
  and yield; while a handler of `xpcall` runs, it still has the calls that failed;
  nothing nests in a coroutine that waits, and none runs twice.
- `DeadStaysDead`: a dead coroutine and what an error left on it stay as they are.
- `Terminates`: every program of the corpus comes to an answer.

### Bounds

- `manager`: `MaxCalls = 3` with two threads is what it takes for a call to
  fail, a second one to find or not find the machine, and a third to run at
  the same time; one `Obj` for each call. `Key` has the blank first value and
  one key, and null is always possible. Threads and objects are symmetric.
- `stack`: `MinStack = 3` and `ExtraStack = 1` keep the proportions of the code
  (a function needs 2 registers, a C function 3 slots) and make every size
  within `MaxSize = 34` reachable by growth (which doubles) and halving, twice
  each. `MaxLeft = 9` is three failed calls beyond the host's own slots.
  `MaxArgs = 0`: a function is called with no arguments, or with the object whose
  `__call` it is, and a metamethod with two or three; the host passes one. One
  missing parameter, for the reason given under findings.
- `profile`: `Base = 4` has the word's four digits and a sign bit; the times
  include one whose digits all differ, the sign bit alone, a negative
  number and one beyond `Exact` (512, two words); the brightnesses a byte, the
  next number, and one that is a byte only in its low bits; the statuses include
  too short, too long and those with a hole in the brightness and at either end of
  the time.
- `gc_*`: one object of each kind, since an identity is used again when it is
  freed and a table may refer to itself; two threads for upvalues of a dead one,
  and in `gc_setupvalue` two closures that share one. `MaxStack = 2` lets the
  program hold two objects at once, a table and what it stores; `MaxRefs = 1` is
  one entry for a table, array or hash. `gc_live` has a closure, an upvalue and
  both threads, and leaves the other kinds to `gc_tables`: of upvalues
  `gc_live` shows `NoDangling` and `GarbageCollected`, and that `GCInv` and
  `FullIsComplete` hold with them is known from the proofs alone.
- `cjson`: nine tokens and the end allow two members with the same key or with
  different ones, nested containers, and an error in every state. Depths 1 and 3 with a stack of
  `MaxCStack = 6` reach both refusals of nesting, and `MinStack = 2` makes the
  reservations necessary. The outer table has an array, sparse arrays on both
  sides of the limit (`SparseRatio = SparseSafe = 2`), mixed, number, string and
  boolean keys; the inner one may refer back to it. A refused call has up to two
  arguments. `lua_array_length` keeps the largest key in an `int`
  (`lua_cjson.c:501`); what a key above `INT_MAX` becomes there is undefined in C,
  so `KeysAssumption` excludes it, in the runs and in the proofs.
- `lua_programs`: a program is the input, so the corpus is the bound. Constants
  of the code are scaled down so that programs of a line reach them:
  `MaxIndexRK = 3` (constants in an operand, 255), `MaxStack = 30` (registers,
  250), `FieldsPerFlush = 3` (50), `MaxCCalls = 16` and `MaxCalls = 40` (200 and
  20000), `BasicCI = 8`, `MaxTagLoop = 3` (100). `MaxCStack = 8000` is the code's. Strings are ordered as in
  `Collation`, their hash is their length, so that keys collide; numerals in
  strings go from -99 to 99. `MaxCaptures = 4` (32), so that patterns have too
  many; the characters are printable ASCII without the backquote.
- `lua_forlist`: one chunk is the counterexample; the run has the same sizes.

### Fairness

`FairSpec` has weak fairness of each thread's steps inside the monitor: a
thread that holds it waits for no one, only for its own native calls, which
return if the script does. Entering the monitor is not fair, because Java's
monitors are not, and no property asks for it.

`GCFairSpec` has weak fairness of the collector as a whole: `luaC_checkGC` gives
it a step whenever enough has been allocated, so it assumes a program that goes
on allocating, or calls `collectgarbage`. The program itself is not fair, and
nothing is said of a program that stops.

`GoesOn` is weak fairness of the machine: the host waits in `lua_pcall`, so it
takes steps until it has an answer. It is written without ENABLED, which would
evaluate every step twice; `tick` alternates so that `while true do end` would
be an infinite behaviour and not a stutter.

## 4. What is proved

All proofs are in modules named `*Proofs` and are checked by `tlapm`.

**LuaManager** (any threads, files, keys, assets and objects). `IInv` is the
types with `MonitorInv` (who is inside, and how deep, by its `pc`: one level
outside `createLuaState` and two within), `LocalsInv` (a thread outside the
monitor holds no machine), `LoadingInv` (the machine a thread is loading is in
no cache, and the state its `pc` says), `UsingInv` (the machine it calls is the
cached one of its file), `CachedIsReady`, `StackInv` (the top slots are the ones
the thread pushed) and `ReplyInv`. None of the safety properties is inductive
alone: exclusion of two threads in a machine needs the monitor, the monitor
needs the depth, and that the finalizer closes nothing in use needs to know who
refers to what. From `IInv` follow `TypeCorrect`, `MachinesExclusive`,
`NeverUsedAfterClose`, `CacheIsReady`, `NoOrphans`, `AnswersAreOwn`,
`CacheNeverReplaced` and, one step at a time, `ImplementsHost`. `StacksAccounted`
adds `AccountInv`: under the slots a call has pushed, and on the whole stack of a
machine that is not in a call, there is what the chunk left and one message for
each failure, and a machine that has not run its script has an empty stack.

**LuaStack** (all sizes, any frame sizes and depths). `StackInv` adds to the
types, `FramesFit` and `FramesNested` that `top` is within the current frame or
just above open results, that the sizes never fall below the initial one, and
that the function of the first frame is the host's. `StackInductive` gives
`FramesAlwaysFit`, `HostAlwaysHasRoom`, `FramesAlwaysNested` and
`CallsAreBalanced`. It assumes `FewMissing`: no call leaves out more than one
fixed parameter of a vararg function. With two, `FramesFit` is false (run
`stack_vararg`).

**DeviceProfile** (any base, commands and statuses, any `Truncated` and
`Rounded`). `ProfileInv` gives `ProfileTypeCorrect` and `FailuresStick`.
`ProfileRoundTrips` proves `RoundTrip` for the real width, assumption
`RealWidth == Base = 256`: the four digits of a 32-bit word, joined with signed
shifts and additions, are the signed word (`FourDigits`, `ShiftedByte`,
`TimeRoundTrip`). It says of every brightness what was sent for it, and that it
is the brightness itself only if that is an int. `StatusesAreCommands` goes the
other way for the same width, for any statuses made of bytes and of characters
that are no digits: holes included, what a status has is what jsonToData sends.

**CJson** (all texts, tables, limits and stack sizes). `SlotsReserved` is not
inductive: a container that ends leaves its parent with the slots the parent
asked for, which says something only if the height of the stack under every open
container is known. `ResourceInv` therefore adds to the three properties
`ControlInv` (what each place in the code means for the containers and the
buffer), `HeightInv` (the height is that of the containers' kinds from the bottom
up, `Tall`, and the same for the encoder's frames) and `TextInv` (which buffers
there are). `ResourcesInductive` gives `AllSlotsReserved`,
`DepthAlwaysBalanced` and `BuffersAlwaysOwned`. It assumes `CJsonAssumption`
only, of which `MinStack >= 2` matters, the two slots every C function has for
the message of an error, and that a C function may have more than those and the
message of a refused call.

**JsonGrammar** (all strings, limits and lengths of texts). A parser and a
grammar that is a function of the length of a text have no step in common, so
the invariant speaks of the rest of the text. For each open container there is
a set of outcomes, triples of a value, a rest and a result: with this value in
this place and this rest behind it, the whole text means this result. `Shape`
says how these sets, the open containers and the Lua stack hang together, and
`Residue` what rest each place of the parser still asks for, in terms of the
innermost set. `Understood` then is: what was read, followed by any `s`, means
`r` exactly if `s` and `r` are a residue. After a syntax error the text is
`Refuted`: no continuation of it means anything. `GrammarInv` has these
(`MeaningInv`) and how deep the text is nested (`ReadInv`). The lemmas named
`...Means` are the grammar's side of one token, for example that a value in an
array is followed by a comma and a value, or by the bracket; those on `Shape`
are the stack's side. With `ResourceInv`, which says where on the stack a
container's table is, `GrammarInductive` follows, and from it
`DecodeMeansGrammar`. The grammar recurs over the length of texts: what has
to be shown by induction (that `Grammar` is well defined, that it is made of
tokens and values, that every list of entries has a text) uses the lemma
`SetInduction` of `InductionFacts`, which is the least counterexample put as a fact
about sets.

**JsonTrees** (all values, graphs of tables, limits and stack sizes). `EncodesTree`
speaks of the end of a call; `TreeInv` says what the tables that are open still
allow. `Chain` knows for every frame what was in the buffer before it, and that the
frame around it allows (`Allowed`) any text of this frame's table to follow; a
frame between two entries has written a text of the entries it has taken,
followed by any texts of the ones it has `Left`. So that `refused` says
something as well, `Fits` also goes the other way: if what comes next has no
text, the argument has none. `ChainEnters`, `ChainTakes` and `ChainCloses` are the
three things that can happen to a frame, `StepKeepsTree` has a lemma for each
step of `encode`, and `EncodeMeansTree` follows. `OrdersCover` is why one order
of a table's members suffices to refuse: an entry without a text spoils them all.
That the two recursive functions are what they are defined to be (`FirstDefined`,
`NestedDefined`) is `Recursion` of `InductionFacts`. Besides `CJsonAssumption`
it assumes `HeapsAssumption`: tables are finite, have one value for a key, and
refer to tables that are in the heap.

**Round trip** (the same, and texts of any length). `EncodedReadsBack` needs no
step of either function. `ReadBack` unfolds the heap from a value, without texts;
`TextsReadBack` shows by induction on the depth that a text of the value is one of
the grammar with `ReadBack` of it. For one table it is an induction on the entries
in the order they are written in: `ListExtends` appends an entry to a list of the
grammar, which `JsonGrammar` builds from the other end, `ItemsRead` and
`MembersRead` follow the list of items or members, and `TableReads` closes it.
`EncodeReadsBack` then follows from `TreeInv`. That the value is all the text
means is `OneMeaning`: by induction on the length, a value, or a list of
entries, that starts a text ends at one place in it and means one thing
(`AllUnambiguous`). With `DecodeMeansGrammar` it gives `DecodeReturnsMeaning`, and
so `decode(encode(v))` is `ReadBack(v)`, unless `decode`'s own limit of depth or
the C stack is too small for it.

**LuaGC** (any objects of any kinds, any program). `NoDangling` alone says
nothing of how it is kept; `IInv` has a part for each way in which the collector
knows that something is in use:

- `AliveInv`, which is `NoDangling` with references written out (`Refers`);
- `MarkInv`: while objects are marked, everything black has been traversed
  (`BlackInv`, but for userdata in `tmudata`), every gray object is in one list
  (`GrayIsListed`), and between cycles everything is white (`PauseIsWhite`);
- `HeapInv`: what is free has nothing, open upvalues belong to a thread that is
  there and are never swept on their own, which kinds refer to which, and which
  can be gray or black. Without the kinds the marking of an upvalue, two levels
  deep in one step, would leave something unmarked;
- `AtomicInv`: what each call of `propagateall` inside `atomic` has brought up
  to date: open upvalues that stay gray, the roots, the values of tables weak
  by their keys, the threads in `grayagain`, the userdata that wait. It is what
  makes the flip of the white safe;
- `SweepInv`: all that is not white is still to come in the sweep, and nothing
  is dead outside of one;
- `FinalInv`: a userdata with a finalizer that is dead, or white when `atomic`
  has separated them, had its own called.

`NothingDangles` and `MarksInOrder` follow, `FinalizersRunOnce` and
`OnlyDeadFreed` from the same invariant step by step. All of them assume
`DebugLibrary = FALSE`: `debug.setupvalue`, which the profile scripts do not use,
breaks them (finding 3), and no other step is excluded. `FullCollectionsComplete`
needs another invariant, that no more is marked than has to be: `CompleteInv`
says that during a full collection all that is marked is in `Reached`, the
least set with the roots and what was kept that contains what is traversed from
its members. That `ReachableFrom`, which takes as many steps as there are
objects, is closed needs a finite heap, and is counted (`InductionFacts`'
`Iterates`, `SetInduction`). `WeakEntriesKept` follows from `IInv`: when `atomic` clears weak tables, the
objects that are not white include the roots and the waiting userdata and
whatever is traversed from them, so that a white one is `Forgotten`. `GarbageCollected` is a liveness property and stays
with TLC.

**LuaTable** (all keys and values, any hash). That a table is a map is an
invariant of its operations, so the theorems have the form: a table that
`IsTable` stays one, and what can be read from it changes as it should.
`NewTableIsEmpty` is the start. `SetIsUpdate` (`luaH_set`) and
`SetKnownIsUpdate` (`luaH_setnum`, `luaH_setstr`) say that the key then has the
value and every other key the value it had; `ResizeArrayKeeps` that a resize
changes no entry. All give `TableSound`, and the latter two `AbsentTrue`: these
are what the run checks of every table, as `TablesSound` and `AbsenceTrue`.
They assume `AreKeys` (no key is nil, hashes are natural numbers, keys of type
number are integers) and, for assignments, fewer than 2^26 entries, at which
`resize` raises "table overflow".

`TableSound` is not inductive: to move a node one has to know that the search for
its predecessor ends, and finds it. `Sound` therefore says that every taken node
is reached from its home (`Reached`) along links that come to an end
(`Acyclic`), without a path: a node is reached if it is in every set of nodes
that has the home and that no link leaves, and `Acyclic` is a rank that goes down
along every link. `Search` is the fact about `OnChain` that everything uses: it
stops at a node it looks for, or there is a set that has the start and none of
these nodes, and that no link leaves. It comes from the lemmas `WalkDefined` and
`WalkEnds` of `InductionFacts`: a recursive function along links that go down
exists, and ends where one has to stop. There is a lemma for each way a key gets in
(`InsertsInPlace`, `InsertsAfter`, `InsertsAway`, `StoresInArray`,
`StoresInNode`). For a rehash, `Filled` says what the new table has after `n` of the
old entries (`RefillKeeps`), and `NumbersCounted` that its parts have room for
all of them: what `rehash` leaves out of the hash part's size are exactly the keys
that will be in the array part.

`LengthIsBorder` says that `luaH_getn` answers a number that has a value, or 0,
before one that has none, whether the binary search, the doubling or the linear
search found it. `NextIsNearest` says that `luaH_next` goes to the nearest place
that has a value, and that keys with values have places of their own; the key
itself may have lost its value. With `AssignKeepsPlaces` (an assignment to a key
the table has had moves nothing), a traversal that clears or overwrites as it
goes meets every entry that is left once.

**LuaVM** (any chunks of code, limits, strings, hash and matcher). The machine
does not care who wrote its code, and the theorems do not either: they hold for
any instructions, jumps and registers that `Chunks` may have, and assume only that no
chunk is `<<>>`, which is what the machine has before it is loaded
(`ChunksAssumption`). `MachineSound` is the inductive invariant `Inv`. It has three shapes.
In a machine that is `Going` the last thread of `running` runs, all below it
wait in the call that resumed the next, and what is left to do (`TodoSound`) is
something its frames can take: a result for a frame that waits for that kind of
result, an error with nothing more to do first. In one that is `Leaving`, the
thread on top has yielded, returned or failed, and its resumer is to be told. In
one that has `Ended` there is an answer. All have `Live`'s parts:

- `ThreadSound`: which frames a thread may have in which order. The kinds of
  `Ret` say what a frame's results are for, so `FrameSound` says of each frame what
  the one under it is: that an instruction waits for what it asked, a C function
  for a call it made, and that only the first frame of a thread is the
  host's or a resume's. A suspended thread is `Parked` where `resume` can go on;
  a dead one has no frames, or those the error left.
- `Level` and `AtLeast`: `nC` is the level the thread was entered with and the
  frames with a C stack of their own, or no less while a handler runs; so it is again what it was when a frame goes or an error unwinds.
- `Running`: which threads are active and each one's `baseC`, which is the
  depth of the one that resumed it.
- `UpvalsSound`: an open upvalue is of a thread and a frame that are there, of a
  Lua function, and is listed once. A frame may be popped when it has none
  (`NoOpen`), and `TodoSound` knows when that is.

Most operators of the machine and all of its libraries leave all of this alone, which
is one relation, `Keeps`: threads, frames, what they return to and open
upvalues are the same, only registers, tables and `todo` change. A library's
function answers values, an error, a call to make or another turn, and `Plain`
says that; there is a lemma for each, and for each kind of instruction. The rest of the proof
is about what enters a frame, leaves one, switches threads or unwinds.
`Calm` rides along: no step changes a dead coroutine. From `Inv` follow
`CallsNestAlways`, `DeadStaysDeadAlways` and `UpvaluesInFramesAlways`, the half of
`UpvaluesLive` that is about frames.

The proof found four mistakes in earlier forms of the model, which no chunk of the corpus showed,
and four chunks were added for them. A store through `OP_SETTABLE` clears the
cache of absent metamethods *after* the entry is written (`lvm.c:145`), not
before. An error does not go to a `pcall` that is still checking its arguments.
And `CallsNest` said that the depth is exact always, which the code does not
promise: `luaD_throw` restores it only when it unwinds, so the handler of `xpcall`
runs at the depth of the failure; and a coroutine that has yielded has the level it was
last refused at, if a resume failed for the depth of the C stack (`ldo.c:423`).

Left to TLC:

- `CodeMeansProgram` and `CodeVerifies`: the compiler, its verifier, the
  reference and the matcher are recursive, and their properties are inductions over
  programs and patterns.
- The half of `UpvaluesLive` about registers (`UpvaluesInRegs`): that a closed
  scope's registers have no open upvalue is a promise of the compiler (it
  emits `OP_CLOSE`, and jumps that leave a scope go through one), not of the machine, and is false
  for other code.
- `TablesSound` and `AbsenceTrue`: the theorems on `LuaTable` say of each
  operation what these say of every table. To put them together one needs the
  types of all values in registers, upvalues and frames (a key that is a number is an
  integer), which is again what the compiler promises, and fewer than 2^26 entries.
- `Terminates`, `MonitorReleased`, `GarbageCollected`: liveness, which the
  prover cannot do.

## 5. Findings

1. **Failed calls use up the host's slots** (`stack_api`). `LuaManager` pops
   nothing after a failed `pcall`, and `LuaState.c` pushes without
   `lua_checkstack`. After 19 failures `top` has reached `L->ci->top`, the end of the slots
   the API reserves (`lua.h:86-87`, `api_incr_top` at `lapi.c:45`). `HostRoom`
   shows why nothing breaks: entering a function checks for more than the host
   then pushes.
2. **A vararg frame can end past `stack_last`** (`stack_vararg`).
   `luaD_precall` checks before `adjust_varargs` adds a nil for each missing
   parameter; `ldo.c:293` asserts that the frame fits. The excess falls in
   `EXTRA_STACK`.
3. **`lua_setupvalue` protects the wrong object** (`gc_setupvalue`). It writes
   the shared upvalue and calls the barrier for the closure (`lapi.c:1082`), where
   the instruction `OP_SETUPVAL` calls it for the upvalue (`lvm.c:454`). If the
   upvalue is black and closed and this closure is not yet black, the value is
   freed while the upvalue refers to it, which `checkliveness`
   (`lobject.h:111-113`) asserts never happens. Only `debug.setupvalue` leads
   there, and the profile scripts do not use it.
4. **A generic `for` keeps the registers of expressions it drops**
   (`lua_forlist`). `forlist` adjusts its expressions to three and, with four or
   more, leaves `freereg` above the control variables (`lparser.c:1104`), where
   assignment and `local` reset it. `enterblock` asserts that none are in use
   (`lparser.c:292`). In a build without assertions a variable declared in the
   body gets a register other than the one its value was put in: in
   `for i, v in next, t, nil, 99 do local z = 7; r = z end`, `r` is not 7.

Besides, an assertion of the collector fails with no consequence, and no run is
made of it. `luaC_barrierf` asserts that no cycle is at its end (`lgc.c:664`). A
userdata that waits for its finalizer is black until its turn comes; if the
finalizer of another one has found it, giving it a new metatable or environment
calls the barrier in the phase that the assertion excludes. The code then makes it white
(`makewhite`), as it does during a sweep, and so does `BarrierF`: the properties
of the collector hold all the same.

## 6. What is not modelled

- Allocation failure (`LUA_ERRMEM`) and hooks.
- `initWithFile`, `call` and a direct `destroy` of `LuaState.java`: nothing in
  the repository calls them, and `finalize` calls `destroy` once.
- Pointers into the Lua stack that a reallocation makes stale: positions are
  offsets in every module.
- In the compiler: the lexer, line numbers and with them the check for "ambiguous
  syntax" (`lparser.c:616`), the limits on local variables, upvalues and syntax
  levels, a `SETLIST` whose batch does not fit its operand (`lcode.c:823`: more than
  511 batches of 50 items).
- In the virtual machine: numbers that are no integers (so no `/`, no negative
  zero, no NaN), numerals in strings beyond two digits, order of strings
  by locale (`Collation` stands for it), environments of functions, and collection: tables have no dead keys. `LuaGC` has the collector
  without instructions, this machine the instructions without a collector.
- In the base library: `print`, `load`, `loadstring`, `loadfile`, `dofile`,
  `getfenv`, `setfenv`, `collectgarbage`, `gcinfo`, `newproxy`, `tonumber` with
  a base; `module`, `package.seeall`, `loadlib` and the loaders that look for
  files; references and buffers of `lauxlib.c`; the refusal of a resume that passes
  or returns more values than a stack may have (`lbaselib.c:520`, `531`).
- In the string library: `format`, `dump`, `gsub` with a table that has a
  metatable, strings with NULs or beyond ASCII: a `%` that ends a replacement of
  `gsub` adds the NUL behind it in the code (`lstrlib.c:599`) and nothing in
  `Expand`. The format of precompiled
  chunks, of which only the verifier is modelled.
- How `lua_cjson.c` makes tokens of characters and back (escapes, UTF-16,
  `fpconv.c`), memory errors in it, which leak the token buffer, and finalizers
  that call `cjson` from inside `cjson.encode`.
- `liolib.c`, `loslib.c`, `ldblib.c`, `lmathlib.c`, `print.c`: thin layers over
  the C library, which the script does not use.
- `Utils.kt` (formats JSON for display), layouts, build files and the compiled
  objects that are checked in.

## 7. Plan

Done: `ScriptHost`, `LuaManager`, `LuaStack`, `DeviceProfile`, `LuaGC` and
`CJson`, with proofs; the compiler with the virtual machine and its libraries,
with proofs about tables and about the machine's frames, threads and upvalues.

Next, in this order:

1. Tables under the collector: dead keys of `lua_next`, resizing between steps.
2. `luaL_ref`'s free list and the buffers of `lauxlib.c`; `module`; `format`.
3. `LuaString`: the string table, with resizing between steps of the sweep.
4. `StrBuf`: how `strbuf.c` grows its buffer, and the escapes of strings in
   both directions.
5. `lua_close`: finalizers called with everything condemned, then everything
   freed; the order of a thread's open upvalues.
6. A round trip of `ldump.c` and `lundump.c`, in the machine's run.
7. `HostedProfile`: two callers of one `ScriptHost` whose machine runs
   `DeviceProfile`.

