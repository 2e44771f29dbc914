# Verification of libportable (pcxfirefox, `tmemutil-3rd`)

The repository builds *libportable*, a DLL that Firefox and Thunderbird for Windows load
at start.  It redirects the browser's profile folders, watches which processes the browser
starts, keeps a proxy program alongside it, and does all this by overwriting the first bytes
of Windows functions while the browser's threads run.  This directory holds TLA+ models of
that program, the TLC configurations that check them, and TLAPS proofs.

Paths below are relative to `src/tmemutil-3rd/src`.

## 1. The system

| part | state | operations | what is hard about it |
|---|---|---|---|
| **trampoline allocator** (`mhook-lib/mhook.c`) | two linked lists through the same fields: `g_pHooks`, `g_pFreeList`; blocks of memory | `TrampolineAlloc`, `BlockAlloc`, `FindTrampolineInRange`, `TrampolineGet`, `TrampolineFree` | stale link fields, failures between two list operations, entries a thread may still execute |
| **hook engine, threads** (`mhook.c`) | `g_cs`, `g_bVarsInitialized`, `g_hThreadHandles`; suspend counts of all threads | `Mhook_SetHook`, `Mhook_Unhook`, `SuspendOtherThreads`, `SuspendOneThread`, `ResumeOtherThreads` | lazy initialisation, threads that run, start and exit meanwhile, the heap lock of a suspended thread, the loader lock |
| **hook engine, addresses** (`mhook.c`) | instruction lengths, displacements, windows | `DisassembleAndSkip`, `TrampolineAlloc`, `BlockAlloc`, `FixupIPRelativeAddressing`, `EmitJump` | 32-bit displacements, limits that are off by a few bytes |
| **hook engine, jumps** (`mhook.c` and its callers) | first bytes of functions, trampolines, the `True...` variables | `SkipJumps`, jump directly or by the reverse trampoline, removal | several hooks on one function, hooks removed while they run |
| **process start** (`portable.c`) | section `.shrd` shared by all processes: `RunOnce`, `RunPart`, `appdata_path`, `localdata_path` | `DllMain`, `do_it`, `init_global_env` | no lock, processes that are killed half-way |
| folder redirection (`portable.c`) | the two shared paths | three hook functions | reads paths another process completed |
| process whitelist (`safe_ex.c`) | `white_list`, filled on first use, completed entry by entry by whoever reads it | hooks of process creation and library loading, `in_whitelist` | several threads fill and rewrite the list without a lock, first call differs from later ones |
| injection (`inject.c`) | a suspended child process, memory in it | `InjectDll`, `pic_inject` | time limit of 1.5 s, early returns, memory freed while in use |
| proxy process (`inipara.c`, `portable.c`) | `g_handle`, static `h_num` | `run_process`, `search_process`, `undo_it` | six seconds of sleep, stale process identifiers, tables of ten |
| user.js (`prefjs.c`) | two files, `NamedEntities` | `gmpservice_check`, `PrefsRewrite`, `gmp_write` | interrupted or failing rewrites, which lines are copied |
| boss key (`bosskey.c`) | `ff_info` | `bosskey_thread`, `set_hotkey` | unload from another thread |
| exception filter (`ice_error.c`) | its hook | `init_exeception`, `jmp_end` | runs on a thread of its own |
| ini and path helpers (`inipara.c`) | cached ini path | `read_appkey`, `PathToCombineW`, ... | sizes of buffers |
| **instruction decoder** (`mhook-lib/disasm_x86.c` and its tables) | the instruction being decoded: `INSTRUCTION`, `X86_INSTRUCTION` | `X86_GetInstruction`, `SetOperands` | prefixes in any order and number, three thousand lines of tables |
| assembly, patches | none | vendored or not part of the program | - |

How they interact.  `DllMain` calls `do_it` in every process, under the loader lock.  `do_it`
completes the shared paths (by `init_portable` calling `init_global_env`), sets three hooks, and
sets those of `safe_ex.c` if the ini file asks for it; the first process then starts one thread for
each of the parts user.js, processor affinity, exception filter, boss key, plugin path and proxy.
The exception filter's thread also calls `Mhook_SetHook`, so two threads of a process may be in the
hook engine.  The hook engine asks the decoder how long the instructions are that it moves.  The
program that `run_process` starts comes to life through the hook of process creation in `safe_ex.c`,
which asks `in_whitelist` and has `InjectDll` put the library into programs it does not trust.
`undo_it` ends the proxy and calls `Mhook_Unhook` for every hook; it is called when the process ends,
when the other threads are already gone, wherever they were.

## 2. The modules

| module | models | shape |
|---|---|---|
| `TrampolineList` | the allocator, one action per loop step or assignment to a list | a sequential call in progress (`pc`, `fn`, `cursor`) over the link fields; `Pool` maps it to `TrampolinePool` by following `next` from both heads |
| `TrampolinePool` | what the allocator promises: a pool that hands each trampoline to one hook and never reuses one that was live | abstract specification |
| `MCTrampolineList` | instance | which windows contain which |
| `HookEngine` | threads, critical section, suspension, overwriting | `pc` per caller; workers act when not suspended |
| `Displacement` | the addresses of one `Mhook_SetHook` on x64 | straight-line `pc` with a search loop |
| `MCDisplacement` | instance with a reach of sixteen bytes | |
| `HookChain` | what runs when a hooked function is called | one action per call; `SkipJumps` and `Run` are recursive functions |
| `CallTable` | promise of hooking: newest hook first, then the function | abstract specification |
| `MCHookChain` | instance with two thunks in a row | |
| `SharedStartup` | start, end and death of processes over `.shrd` | `pc` per process, one action per access to the section |
| `DecoderTables` | the opcode tables, as far as length, operands and prefixes go | constant operators |
| `Decoder` | `X86_GetInstruction` and `DisassembleAndSkip` on one instruction, and the properties | one action per prefix and per operand |
| `InstructionFormat` | the encoding by the processor manuals: how long an instruction is and what is relative in it | the reference the decoder is compared with |
| `MCDecoder` | instance: which bytes are decoded | |
| `ProxyTree` | `run_process`, `search_process`, `undo_it` and the processes of the system | one action per call of the system; the recursion is a stack of frames |
| `UserJs` | the rewriting of user.js over several runs | one action per line or file operation |
| `BossKey` | hot key, message queue, windows | one action per window that `EnumWindows` comes to |
| `Policy` | hooks of process creation and library loading, whitelist, injection, the child | one record per thread with the call it makes |
| `Session` | composes the four above as `do_it` and `undo_it` do | one action per component and for each interaction |
| `MCSession` | instance | |
| `*_proofs` | theorems; `Threads_proofs` those of `ProxyTree`, `UserJs` and `BossKey`, `Session_proofs` those of `Policy` and of the composition | |

### Correspondence and abstractions

**TrampolineList.**  `gHooks`, `gFree`, `prev`, `next`, `sys` are the C variables and fields;
`pHookFunction` is set with `pSystemFunction` and stands for the same function.  An entry is
`<<r, i>>`, the i-th of the block in region r, and `Reach[f]` is the set of regions inside the
window of f: a block is inside a window or outside it.  `jumped` is the code of the functions, not a
field.  `where` is a history variable that says which list an entry ought to be on; no action reads
it.  All calls run in the critical section, so one is in progress at a time (`HookEngine` shows when
that is so).  `StartUnhook(h)` takes the function whose hook is looked up, or none: the program's own
callers always look up an address that is none (section 5), users of the engine pass the
hook.  The assertion in `ListRemove` is compiled out by the makefiles and not modelled.
`FairSpec`: weak fairness of the steps inside a call, because a thread that is in the critical section
with top priority keeps running.  It does not promise that anyone makes a call.

*NestedReach.*  The theorems about the lists assume that the windows of any two functions are
comparable.  On x86 every window is the whole user address space; on x64 the system libraries that
the program hooks are loaded within a few hundred megabytes of each other, and their windows differ
only in how much IP-relative operands narrow them.  `trampolines_apart` shows what happens otherwise.

**HookEngine.**  `InitCritSec` is `InitializeCriticalSection`: it makes the section free, also when it
is owned.  `code[f]` is torn between the first and the last byte written.  `ip[w]` says in the first
bytes of which function a worker is; callers are never in them.  A thread moves when its suspend count
is zero; the heap has one lock.  `locked` is the loader lock: `main` holds it in `DllMain`, other
threads can neither start calls before `DllMain` has returned nor pass `GetModuleHandleW` while it is
held.  `Accept`/`Reject` choose what the disassembler or `TrampolineGet` say.  `loose` is a history
variable: the threads the code could not stop, for one of the reasons its comments give or because the
last `SuspendThread` of a retry failed, whose result nobody looks at (`SuspendAgain`, `mhook.c:451`).
Fairness: strong fairness of each caller's steps (a ready thread is scheduled again and again, and a
lock that is free again and again is obtained in the end), weak fairness of releasing the heap
lock and of leaving `DllMain`.  Workers need not run, start or exit otherwise.

**Displacement.**  Addresses are integers.  The constants appear as parameters with the inequalities
between them that the code's values satisfy (`DisplacementAssumption`; with the values of the code:
`Half` 2^31, `Reach` 0x7fff0000, `Above` 0x7ff80000, `Granularity` 0x10000, `JmpSize` 5, `LongJmp`
14, `MaxIns` 15, `StubAt` 24, `CodeAt` 56, `MaxCode` 32).  An instruction with a 32-bit displacement
is longer than the jump, so there is at most one among the moved ones.  A free trampoline may be at
any address of the window.  `tried` is a history variable for `NearestBlock`.

**HookChain.**  A call of `Mhook_SetHook` or `Mhook_Unhook` is one step, as the critical section makes
it.  A trampoline is used once and named by the hook function it serves, since every hook function in
`portable.c`, `safe_ex.c` and `ice_error.c` is installed once.  `true[h]` is the `True...` variable of
h; it is set to `Moved(h)` (`codeTrampoline`).  `ChainAssumption` has every import jump table lead,
through however many others, to a function: `SkipJumps` would not return otherwise.  `UnhookByHook` is
the call with the hook function's address, `UnhookVariable` the call the program makes.  `removed` is a
history variable.

**SharedStartup.**  A path is its form (empty, relative, absolute) and the number of directory names
appended to it.  Each read or write of the section is a step.  `Leave` ends or kills a process
anywhere; `LeaveLast` takes the section with it.  `envRuns` and `partRuns` are history variables.
`Together = FALSE` says that the first process is out of `DllMain` before another one starts: the
browser's child processes are started by its main process, which loads the library first.

**Decoder.**  A text is a sequence of bytes with zeros behind it; it never changes.  `ins` is the
`INSTRUCTION` and `X86_INSTRUCTION` together, with the fields that decide length, acceptance or what
`DisassembleAndSkip` does.  Each prefix is an action, then the opcode, ModRM with its SIB byte and
displacement, each operand, and the last checks.  `AnomalyOccurred` is kept as far as it rejects a
prefix.  Values of operands, target addresses and text are not kept.  Only 32-bit and 64-bit modes
occur, since `DisassembleAndSkip` asks for no other.  The rows of `DecoderTables` hold an operand's
kind and size and the restrictions on prefixes; rows of the C tables that agree in these are one
definition or one range.  `InstructionFormat` is written from the manuals' description of the
encoding (opcode map, which opcodes have ModRM, immediate sizes) and shares nothing with the tables.

**ProxyTree.**  A process is its identifier, which may be used again when the process is gone and
nobody has a handle of it (Windows keeps an identifier while there are handles).  `gHandle` holds the
identifiers of the processes the handles are of.  `frames` is the stack of calls of `search_process`,
each with the children it listed; `hNum` is shared by them, as the static variable is.  The snapshot is
one step, opening a child another, and processes come and go in between.  `Decide` stands for
`get_parameters`, the test for a pre-start, the last error and the search by name, which has two
outcomes whatever they find.  Histories: `lineage` (what the proxy started, directly or not), `before`
(what of it was there when the search began), `missed`.

**UserJs.**  A file is the sequence of its lines, and a file that is not there is an empty one.  A line
is what `fgets` reads at once, at most 127 characters, so that a longer one is several lines of the
model: `name` is the preference it sets, if any, `value` whose value that is, and `form` what the test
of `PrefsRewrite` (`prefjs.c:157`) tells apart: begins with white space, begins with `/` or `*`, has the
name of a managed preference somewhere in it, or is none of these.  `Keep` is that test.  It drops a
user's preference that is indented, a longer name such as `media.gmp-manager.url.override`, and a line
whose value or remark quotes a managed name, in a run in which nothing fails.  The user may write any
line of `Typed`, at the beginning or the end of the file, and take any line out; nothing is asked of
`Typed` but that its lines are the user's.  `KeepsOthers` therefore says which lines are safe: those
that `Keep` keeps.

`tmp` is opened without being truncated, and `Write` overwrites bytes: behind the line written any number of
whole lines of an interrupted run may stay, at first perhaps the rest of one that was cut (`Remains`).
`AppendManaged` writes the path of this run or, when `unicode_ansi` found no memory for it, "(null)"
(`Null`), which is no failing write; a path that is longer than a line leaves a piece for the next run to
read.  `path` is `NamedEntities[0].value`.  The stream it writes to reaches the disk when it is
closed, its first lines only if that fails; a `WriteFile` of a line writes all of it or nothing.  `held` says
that the stream of user.js is still open, which keeps `MoveFileExW` from replacing the file.  `mine` is
what the user has put into the file for other preferences.

**BossKey.**  A setting of the hot key is the sequence of its numbers.  A message is taken when the
thread is `ready`; then `FindChwnd` visits one window per step while programs create, show, hide and
destroy windows, each at most once since the key was registered (`touched`), because a window that
somebody else changed is no longer spoken of.

**Policy.**  `call[c]` is the call thread c makes, with a place for each statement that reads or writes
something shared.  An entry of `white_list` has a text: empty, a relative path as the section gives it
(`raw`), the absolute one or the pattern it should be (`full`), one that is being written (`mixed`), or
one of which nothing is known because two calls wrote different things there at once, or one combined a
text that was not whole (`spoilt`).  Every write of an entry is a beginning and an end, and every other
thread may come in between: `Fill` and `FillSection` (entry by entry), `ClearSection` (all of the
section at once), and `Combine`, the `PathToCombineW` by which every check makes the relative entries it
passes absolute in place (`safe_ex.c:73`).  `Check` takes one entry per step, in order: passes over an
empty one, combines one that is not absolute, and has `Compare` look at it again, for as many characters
as it has by then; so an entry that was emptied meanwhile matches, and of a text that is not whole any
outcome is possible.  `disturbed` records that a call met an entry that some call was writing or had yet
to fill, or that is spoilt or had not the text the call left there.  A file is named by the entry that
matches it: the program itself, plugin-container (by which a filled list is known), another built-in
one, one of the section, or none. EnableWhiteList is read from the file at every call, so a windows
program that is on no list may pass or not. `GetOsVersion` is computed as the code does, with its three
characters.  A child has a suspend count, memory and a remote thread.  What is history in a call is
named in the module.

**Session.**  `DoIt` and `UndoIt` start and end what the ini file asks for; the components' own actions
are used unchanged, and `ProxyAsks`/`ProxyReturns` put `CreateProcessW` of `run_process` through the hook.
`UndoIt` may come at every step of every thread.

## 3. What TLC checks

| run | instance | shows |
|---|---|---|
| `trampolines` | 2 functions, 3 blocks of 2, nested windows | list invariant, no walk leaves its list, honest result, exact table, calls end, `TrampolinePool` implemented |
| `engine` | 2 callers, 1 worker, 1 function, 2 calls each, 1 retry | mutual exclusion, quiet overwriting, everyone resumed, calls return |
| `displacement` | 46 addresses, 4 functions, 6 hooks, all displacements | relocation and jumps in reach, nearest block |
| `hook_chain` | 2 functions, 3 hook functions, 2 thunks | original always reached, `CallTable` implemented |
| `startup` | 3 processes | run once, paths complete |
| `decoder` | every one-byte and two-byte opcode with ModRM bytes of all kinds; 61 opcodes behind 30 combinations of prefixes; too many prefixes; x86 and x64 | length is what the manuals say, assertions hold, nothing relative is moved unnoticed, displacements lie where they are corrected |
| `session` | 4 processes, table of 3; 2 runs and 2 edits of user.js, 4 lines to write; 3 windows, 2 presses; 2 threads, 2 calls, 3 files, one relative entry in the section | safety and liveness of the four components and of the two that meet |
| `trampolines_apart`, `engine_first_use`, `jump_boundary`, `unhook`, `startup_together` | as above | one disagreement each, section 5 |

Bounds, and why they are enough.

* Blocks of two entries give a first, a last and (with three blocks) inner entries of the free list,
  and lists of up to six; two functions of nested windows and a lookup for nothing reach
  every branch, including a search that skips entries, a second block, an exhausted window and a lost
  list.  For more functions, blocks and entries there is the proof.
* `MaxTries = 1` instead of 3: a thread may collide, be looked at again, and be given up; further tries
  repeat the second.  `MaxCalls = 2` lets a thread hook and unhook, and each call meet each other one.
  One worker suffices for the lock it can hold and the code it can be in, and the second caller is
  another thread to suspend.  The theorems hold for any number of all of these.
* The scaled addresses keep the order of the constants and put functions at the bottom, on both sides
  of the line where the lower window is cut off, and above it; hooks are near, at the limit and far.
* Three hooks on two functions give chains of three, with a removal at any place in them.
* Three processes: one that leaves, one that starts and one that keeps the section.  `MaxRuns = 4`
  stops the counters when they are already wrong.

* The texts of `decoder` have every opcode and, where prefixes matter, one or more of each kind of
  operand; the opcodes that share a row behave alike.  The model was compared with the compiled C
  decoder on 35670 texts, the bytes of these and others, with the same length and the same verdict on
  each.
* `session`: three entries in the table are one for the proxy, one for a child and one that is the last;
  of four processes one cannot be opened (`Guarded`; it stays, since nobody waits for it) and one
  identifier is used twice (`Reused`).  The processes of the system move while `run_process` sleeps and
  searches, when it reads what they are.  Each feature runs alone, and the proxy with the hooks: the
  others share nothing.  Without the proxy threads are alike, so the first to call is fixed; beside it
  the other thread asks for modules only, as all the two share is the list.  The next process
  (`Restart`) is followed where only user.js is on, since nothing else is left to it.  Two runs leave
  one interrupted copy to the second, with whole lines and pieces; two edits before, between or behind
  them are a line that is kept and one that is dropped, in either order, two that are kept, or a line
  and its removal. Two calls are enough for each of: two that fill the list, one that checks while the
  other fills, two that combine one entry, one that compares what the other combines.  Two presses may
  both be in the queue.  Windows 8 and 10 are the two outcomes of `AfterWin7`.

Fairness of `session`: weak fairness of the steps of `run_process` and of each thread in a hook,
because the system lets threads run; none for the user, other processes, the thread in the child (whose
wait has a limit), `undo_it` or the browser's further calls.

`CHECK_DEADLOCK FALSE` is given where the system stops by itself: all calls made (`engine`), placement
done (`displacement`), each hook installed and removed (`hook_chain`), the process ended (`session`). In
`decoder` what was decided stays (`Next` has that step), so it is checked there.  `engine` also stops in
the one way `CallsReturn` excludes by name, `LoaderDeadlock`: the library is unloaded, `main` waits in
`DllMain` for `g_cs`, and the thread that owns it waits for the loader lock in `SuspendOtherThreads`.
The property says that this is the only way.

## 4. What is proved

The theorems hold for every value of the constants that satisfies the named assumptions.

* `TrampolineList_proofs`, under `NestedReach`: `TypeCorrect`, `ListCorrect`, `FreeListIsFree`,
  `ResultIsHonest`, `TableIsExact`, `ListsWhole`, `PoolImplemented`.  The inductive invariant is
  `ListInv`, which TLC checks too. Its core is `FreeLinked`: the free list is unshared and closed under
  `next`, and a back link is missing only at a splice, where whoever can reach the later entry could
  have taken the earlier one (`SpliceSafe`).  `FindNext` then keeps the fact that the predecessor of the
  cursor was out of range, so that an entry whose back link is missing is only ever removed as the head.
  `WalksOwnList` alone is not inductive, since it says nothing of the links between the calls.
  `ListsWhole` adds that no entry is cut off from its head: what can be reached, by `next` and from the
  head or from the entry a removal is about to link in again, is all there is on that list.  The mapping
  of `PoolImplemented` says "on the list" by following the links, so each step of the allocator is shown
  to link in or out exactly the one entry that a step of the pool takes or returns, or to change nothing
  that can be reached.
* `HookEngine_proofs`, under `DllMainHooks` (the first call is made by `DllMain`): `InvCorrect`,
  `EngineTypeCorrect`, `CallsExclude`, `OverwriteIsQuiet`, `EverybodyResumed`.  The invariant
  `EngineInv` says that a thread is suspended exactly while it is recorded in `handles` or is the one
  being looked at, that only the owner's locals are in use, and that until the section is initialised
  only `main` is at its door.
* `Displacement_proofs`: `DisplacementTypeCorrect`, `PlaceCorrect`, `RelocationExact`,
  `TrampolineReached`, `BlockIsNearest`, in particular for the constants of the code, which no run could
  count up to.  The invariant `PlaceInv` relates the window's limits to the displacement that was moved.
  `Spiralled` says that after 2k steps the spiral is k blocks above its start and after 2k+1 steps k+1
  below, with every block in between tried, from which `NearestBlock` follows.
* `SharedStartup_proofs`, under `~Together`: `StartCorrect`, `TypeCorrect`, `RunsOnce`,
  `PathsAreComplete`.  The invariant gives the contents of the section at each step of the first
  process, and says that afterwards everybody only looks.
* `HookChain_proofs`, under `ChainAssumption`: `Invariant`, `TypeCorrect`, `OriginalAlwaysReached`,
  `CallTableImplemented`.  `ChainInv` says that a hook in use is what the code it was installed on jumps
  to, that nothing else is jumped to, and that neither the code below a hook nor the hooks above it go
  on for ever.  `SkipJumps` and `Run` are recursive functions over relations that end; `Recursion` shows
  that such functions exist and satisfy their equations, from the least set of pairs that the equations
  close.  `Downwards` and `Upwards` carry a fact along a chain in either direction.
* `Threads_proofs`, of `ProxyTree`: `ProxyCorrect`, `ProxyTypeCorrect`, `HandlesReached`; `TreeCorrect`,
  `OnlyOwnEnded`, `SearchFindsAll`.  `HandleTable` is not inductive, since entry 0 is filled without
  `h_num`; `ProxyInv` says that the entries from 1 below `hNum` are filled and the others not, that
  entry 0 is filled from the launch on, and that every frame's list is shorter than the table.
  `EndsOnlyOwn` and `AllFound` speak of lines of parents of any length.  A line is stated as the least
  set closed under `parent`, so that induction along it is the choice of a closed set: the processes of
  a line that are in the lineage (or in `before`, or found) are one.  `TreeInv` adds to `ProxyInv` that
  the lineage is closed downwards and parents make no circle, as long as identifiers are fresh
  (`LineageInv`), that a process has one handle and one call about it, and none yet when it waits to be
  opened (`HandlesInv`), and that a child not yet in the table whose parent is there belongs to a call
  that has not listed its children or has it in its list (`SearchInv`).
* `Threads_proofs`, of `BossKey` and `UserJs`: `BossKeyCorrect`, `BossTypeCorrect`, `TurnedCorrect`;
  `UserCorrect`, `UserTypeCorrect`, `UserJsKept`, `CopyCorrect`, `FileRewritten`.  `BossInv` says of the
  middle of a round which windows it has been to. `UserInv` says that every line of the user's that is
  kept and was already read is among the lines written to the copy in this run, unless a write failed,
  and that a copy that can be moved has them all; `WriteOK` shows that overwriting bytes leaves the
  lines before alone, however much of an older copy stays behind.  `CopyInv` says where in the copy each
  of them is: line i of the old file at the place that the number of lines kept up to i gives
  (`CopyPlace`), the appended lines behind all of them, in their order; and, over a copy left behind,
  that the last line to name a managed preference is the appended one. Both hold for any set `Typed` of
  lines, and so for files with every form of line.
* `Session_proofs`, of `Policy`: `PolicyCorrect`, `PolicyTypeCorrect`, `AnswersCorrect`,
  `SuspensionKept`, `CodeKept`. `PolicyInv` says, for any threads, files, entries and relative entries,
  where a call is in the list and what it is writing there (`WhereOK`), that a list which passes for
  filled has no empty entry but one that some call is about to fill or that belongs to a section which
  is not there or was not read (`Awaited`), and that a call that has passed the entry of its file was
  disturbed unless the section could not be read (`MayPass`). It is needed because the property speaks
  of answers alone, while an answer rests on entries other calls have written and go on writing.
  `BeginOK` and `FillOK` show once what the beginning and the end of a write, by whichever call, leave
  of this for all the others; each action is then a case of them. `PolicyInv` also has the child's
  suspend count at each place of the injection.
* `Session_proofs`, of `Session`: `Composition`: every behaviour of `Session` is one of `ProxySpec`,
  `UserSpec`, `BossSpec` and `PolicySpec`, since each of its steps is a step of each component or leaves
  it alone.  From it and the theorems above, `SessionCorrect` (every safety property that the run
  `session` checks) and `SessionTypeCorrect`.

* `Decoder_proofs`, under `DecoderAssumption` (the texts are sequences of bytes, of any length):
  `Invariant`, `TypeCorrect`, `LengthsBounded`, `NoAssertionFails`.  The assertions rest on the tables,
  so the first part of the module is about these: which lists of operands occur in them, that every
  opcode whose operands ModRM encodes is one that `ModRM_1` or `ModRM_2` reads it for, that no list has
  two operands in memory, and that the rows chosen by a prefix never look at the operand size again.
  `DecoderInv` then says what holds at each stage: while prefixes are read, that the operand size is 2
  under 66 and that no more prefixes are listed than bytes were taken (`OpeningOK`); behind the opcode,
  that the row is one of the tables and ModRM was read if it needs it (`RowOK`, `ChecksOK`); at an
  operand, what those before it have set (`OperandsOK`).  A lemma per action shows that it is kept;
  `PrefixTaken`, `Selected`, `OpcodeTaken` and `OperandTaken` hold what several of them share.

* `Decoder_proofs`, second part: `EncodingMatched`, `LengthsRight`, `NoRelativeMoved`, `PatchesFound`.
  The first invariant knows nothing of the manuals; that the length found is the right one needs, at
  every stage, that what has been read agrees with `InstructionFormat` and that what the row will still take
  (`Rest`) is what is missing.  `IsaInv` says so.  While prefixes are read (`PrefixesRead`), the bytes
  read are prefixes by the manuals too, and 66, 67 and rex have set the sizes they should.  Behind
  the opcode, the row fits the instruction (`RowFits`: ModRM where the manuals have it, operands of as many
  bytes, a branch where they have a branch), and its bytes and those read add up (`OpcodeRead`, before the
  operands; `OperandsRead`, at each of them).  `Marked` says that `OP_IPREL` is set, or will be,
  for what is relative to rip or a branch, and for nothing else.
  All this holds but for the instructions of `Misread` (`Excused`), none of which is a mov or lea, the
  two that may be patched.  The tables are compared with the manuals row by row, in lemmas by the
  shape of the operands: lists with an immediate of one byte, of the operand size, with an offset,
  with none.

Only model-checked: liveness (`CallsReturn`, both of them, `SearchEnds`, `ChildRuns`), which rests on
fairness.  Every safety invariant and action property that a passing run checks is a theorem.

## 5. Where the code disagrees with its comments

1. `BlockAlloc` links a new block to the old free list in one direction only (`mhook.c:311`); the list
   is said to be doubly linked (`mhook.c:335`).  Functions whose windows are not comparable then
   get the lists joined (`trampolines_apart`).
2. `EnterCritSec` initialises the section behind an unprotected test (`mhook.c:157`), although
   `Mhook_SetHook` says it ensures thread-safety (`engine_first_use`).
3. `Mhook_SetHook` and `EmitJump` measure the distance from different places, so that a direct jump may
   be a long one (`mhook.c:779`, `jump_boundary`).
4. `Mhook_Unhook` is called with the variable that `Mhook_SetHook` pointed at the trampoline, and looks
   it up among the hook functions: nothing is removed (`mhook.c:394`, `unhook`).  Because of this, the
   hooks stay in place when the library is unloaded.
5. `RunOnce` and `RunPart` are tested and set without a lock, although they are to ensure that things
   run once (`portable.c:31`, `startup_together`).

The following the models show as exceptions, which the properties name.

*Decoder* (`mhook-lib`).  The fences of 0F AE and 0F B9 have no operands in the tables, so their ModRM
is not read (`disasm_x86.c:1828`).  For 3DNow! the length of the operands is added twice
(`disasm_x86.c:1597`).  A rex prefix behind a rex prefix is taken for the inc or dec it once was.  The
prefix removed for an SSE opcode is the first one, whichever it is (`disasm_x86.c:1338`).  loopcc and
jecxz are moved on x86 without relocation (`mhook.c:641`).  The place of a displacement is taken to be
three bytes behind the start, which holds with one rex prefix and a one-byte opcode (`mhook.c:705`).

*Proxy.*  When its snapshot fails, the search by name finds nothing and a second proxy is started.
Identifiers used again may bring foreign processes into the table (`inipara.c:641`), and, with a larger
table than the one checked, one process twice.

*user.js.*  The stream is closed twice after a complete copy (`prefjs.c:182`, `prefjs.c:232`).  A copy
left behind is not truncated and leaves its tail (`prefjs.c:139`).  A preference of the user's that is
indented, or whose line has a managed name anywhere in it, is dropped (`prefjs.c:159`, `prefjs.c:165`).
The path becomes "(null)" when there is no memory to convert it (`prefjs.c:86`).  No write is checked.
A user.js that is there but cannot be opened is taken for none and replaced (`prefjs.c:219`).
`NamedEntities` keeps a pointer to memory that was freed (`prefjs.c:101`).  Lines of more than 127
characters are read in parts, each of which is kept or dropped by itself (`prefjs.c:153`); what a kept
part then means to Firefox is beyond the model, as is a block comment whose first or last line is
dropped.

*Boss key.*  `undo_it` calls `UnregisterHotKey` from another thread and `GlobalDeleteAtom` with the
number less 0xC000: neither has an effect (`portable.c:307`).  Windows that the program itself keeps
hidden are shown. A setting with three plus signs fills a fourth entry of arrays of three
(`bosskey.c:102`).

*Policy.*  The first call answers yes to every file when there is no section, later ones check
(`safe_ex.c:52`).  Each check completes relative entries in place, without a lock, and another one may
meet them half written, answer wrongly, or leave a wrong text there for good (`safe_ex.c:71`).  A
section that could not be read is not read again.  `GetOsVersion` makes 100 of 10.0 and keeps three
characters (`inipara.c:424`).  `InjectDll` returns without resuming the child when a first step fails
(`inject.c:157`), resumes a child that was asked for suspended, does not look whether `VirtualAllocEx`
failed (`inject.c:184`), and frees the code after 1.5 seconds whether it has been run or not
(`inject.c:200`).  `pic_inject` hands `NtFreeVirtualMemory` the address where a pointer to it is
expected, so that nothing is freed (`inject.c:138`).

## 6. What could follow

1. `HookChain` with the moment between overwriting a function and assigning the variable, composed with
   the threads of `HookEngine` (`mhook.c:825`).
2. The lengths of paths in `init_global_env` and the path helpers of `inipara.c` (`portable.c:136`).

## 7. Not modelled

The ini and path helpers but for `foreach_section`, `GetOsVersion` and `get_parameters`: wrappers of
Windows calls whose results the models take as inputs.  The bodies of the folder hooks (they hand out
the paths `SharedStartup` completes) and of the exception filter (it writes a dump and ends the
process).  In user.js, the end of the last line: when it has none, it is kept, and an older copy lies
behind it, the rest of that copy continues the line.  A write that stores a part of a line.
`HookNtWriteVirtualMemory`, which refuses writes to the own process and keeps no state.
`SetPluginPath` and `SetCpuAffinity_tt`, one call each.  The text output of the decoder, `cpu.c` and
`misc.c`.  The assembly routines and `asmlibSrc` (vendored, without state), the patches (text for other
source trees), the contents of log and dump files, and Windows itself beyond what the code relies on:
loader lock, suspension, shared sections, process identifiers, windows, and the failure of any call.
