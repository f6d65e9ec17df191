# TLA+ models of ucpp / ucxxrt

The repository is a C++ runtime for Windows kernel drivers (and a user-mode
build of the same runtime for testing): a hardware abstraction layer (HAL) in
two variants, the VCRuntime and the AppCRT taken over from Microsoft and cut
down to run on it, and an experimental exception dispatcher. These modules
model what it does about state, order and failure - who holds which lock, which
thread owns which data, what is built on what, which object is destroyed when,
what is left behind when something fails - and its larger algorithms against
definitions of what they should compute. Paths below are relative to `src/`.

## 1. Inventory

### Hardware abstraction layer

| Part | State | Operations | Correct when |
|---|---|---|---|
| Mutex (`HalKernel/Mutex.c`, `HalUser/Mutex.c`) | `lSpinLock`; the user build adds `dwThreadId` | Create, Lock, UnLock, Destroy | one owner at a time; the owner stamp is right for whoever compares it; progress of the group |
| Per-context data (`HalKernel/PerContextData.c`) | a list of entries (thread id, thread object, data, release function) and its mutex | Create, GetContext, SetContext, ReleaseContext, Destroy | data belongs to the thread that asks, although ids are reused; references balance on every failure path |
| Per-context data (`HalUser/PerContextData.c`) | a TLS index and slot values | the same | a slot holds what its thread stored; nothing is lost by a failure |
| Allocator (`HalKernel/Allocator.c`, `HalUser/Allocator.c`) | a pool; each block carries its size | Allocate, Free, Realloc, Msize | sizes do not wrap; the contract of `realloc` |
| Entry points (`HalKernel/SysMain.c`, `HalUser/SysMain.c`) | the saved unload routine | load, unload | every load is undone by the unload |

### VCRuntime and AppCRT

| Part | State | Operations | Correct when |
|---|---|---|---|
| Startup and shutdown (`sys_common.inl`, `utility.cpp`, `initialization.cpp` twice, `shared_initialization.cpp`) | which layer exists | initialize, roll back, run initializers, `ModuleMain`, terminate, uninitialize | a layer stands only on complete layers; a failure undoes exactly what was done |
| Lock tables (`locks.cpp` twice) | the locks of a layer | initialize, uninitialize, lock, unlock | all or none exist |
| Per-thread data (`per_thread_data.cpp` twice) | `g_hPcd`, a PTD per thread | initialize, getptd, freeptd | created once per thread, also when allocation fails or getptd is entered again |
| Exit functions (`exit.cpp`, `onexit.cpp`) | the exit lock, `c_termination_complete`, two tables of functions | atexit, exit and its variants, execute table | terminators once, each registered function once and in reverse |
| Heap functions (`ucrt/heap`) | the new handler, the new mode | malloc, calloc, realloc, recalloc, aligned variants | sizes, retries, what a failure leaves |
| C++ exceptions (`frame.cpp`, `risctrnsctrl.cpp`, `ehstate.cpp`, `throw.cpp`) | per thread: current exception, list of handled exceptions, processing count, `CatchStateInParent`; per frame: `UNWINDHELP` | throw, find handler, unwind, catch, rethrow | the handler the program text selects; every constructed object destroyed once; the exception object last |
| Exception dispatch (`CppExceptions/exdsptch.c`, a user-mode experiment) | the dispatcher and unwind contexts | dispatch, unwind, nested exception, collided unwind | handlers run in order, none twice |
| `exception_ptr` (`excptptr.cpp`) | counted control blocks with a copy of an exception | create, copy, assign, swap, destroy, current exception, rethrow | exact counts; every copy destroyed once; every failure keeps some exception |
| Array iterators (`ehvec*.cpp`, `ehvcc*.cpp`, `ehvecc*.cpp`) | how much of an array exists | construct, copy-construct, destroy, unwind | an array is constructed as a whole or not at all |
| Run-time type information (`rtti.cpp`) | none | `__RTDynamicCast` | the subobject C++ prescribes |
| Name undecoration (`undname.cxx`) | cursor, flags and back-reference tables, all static | one parser operation for each kind of name and type | the declaration the name was made of |
| STL algorithms and numbers (`vector_algorithms.cpp`, `xsto*.cpp`, `multprec.cpp`) | none | swap, reverse, find, count, minmax; number recognition; multiprecision remainder | the same as the scalar definition, for every length, alignment and instruction set |
| STL synchronization (`crt/stl`) | none left: the callers are commented out | - | - |

### How they interact

Every lock is a HAL mutex. `getptd` goes through the per-context data, whose
list is guarded by such a mutex and whose entries come from the HAL allocator.
`malloc` sets `errno` when it fails, `errno` is in the PTD, and the PTD comes
from `calloc`: the failure of an allocation can enter `getptd` again from
inside itself. `atexit` and the exit functions share one lock through
`__acrt_lock_and_call`. Startup calls the layers in order and rolls back in
reverse; shutdown goes through `_cexit`, so it depends on the exit lock.
The dispatcher calls the frame handler of every frame with a search or unwind
request; the frame handler calls `RtlUnwindEx` back, handlers and destructors of
the program, which may raise again, and keeps what it must remember in the frame
and in the PTD. `exception_ptr` copies the exception in the PTD. The array
iterators are one kind of frame with a filter of its own. The other algorithms
are called by the program and by nothing of the above; undecoration keeps its
state from one call to the next.

The hard behaviours are therefore the interleaving of lock words and owner
stamps, thread-id reuse, re-entrance on allocation failure, the use of freed
memory between two steps of a release, partial failure during startup,
shutdown against program threads, exceptions raised while others are searched
for, unwound or copied, and the boundaries of registers, words and tables.
`PROJECT.json` lists each at its line.

## 2. The modules

| Module | What it is |
|---|---|
| `HalMutex` | both mutexes, one step per interlocked instruction or access to `dwThreadId` |
| `LockSpec` | abstract: a lock with an owner, which `HalMutex` implements |
| `HalMutexProofs` | theorems about `HalMutex` |
| `PcdKernel` | kernel per-context data with the two `per_thread_data.cpp` on top |
| `PerThreadSpec` | abstract: one private slot per thread, which `PcdKernel` implements |
| `PcdKernelProofs` | theorems about `PcdKernel` |
| `PcdUser` | user per-context data with the same two `per_thread_data.cpp` |
| `PcdUserProofs` | theorems about `PcdUser` |
| `CrtLifecycle` | startup, roll back, exit functions and shutdown of one image |
| `CrtLifecycleProofs` | theorems about `CrtLifecycle` |
| `EhTables` | the compiler's tables of a function and what the frame handler reads from them |
| `EhFrame` | dispatcher, unwinder and C++ frame handler (FH3 and FH4) over a stack of frames |
| `EhFrameProofs` | the inductive invariants of the frames of `EhFrame` and of its exception objects, and theorems about them |
| `EhStateProofs` | FH4: the state each frame is found in, the objects that exist, and theorems about them |
| `EhHandlerProofs` | FH4: the handler each search finds, and the refinement of `CxxScopes` |
| `CxxScopes` | abstract: objects, handlers and exception objects as C++ has them, which `EhFrame` implements |
| `ExceptionPtr` | `exception_ptr` with its control blocks under several threads |
| `ExceptionPtrProofs` | theorems about `ExceptionPtr` |
| `EhArrays` | the iterators over arrays whose constructors and destructors throw |
| `Rtti` | `dynamic_cast` over base class arrays, and what C++ prescribes |
| `VectorAlgorithms` | the vectorised algorithms, each path, and their scalar definitions |
| `HeapFunctions` | aligned blocks, the retry loops around the new handler |
| `NumberParsing` | recognition of integers and floating-point fields, and their grammar |
| `MultiPrecision` | remainders by long division in half words, and the exact value |
| `Undname` | the parser of decorated names |
| `Decoration` | the compiler's side of it: how a declaration is decorated, how it is written |
| `MC...` | the instances TLC checks |

### HalMutex

`lSpinLock` and `dwThreadId` are the fields of the mutex; `pc[t]` is where
thread `t` is in `MUTEX_Lock` (`check`, `spin`, `stamp`) or `MUTEX_UnLock`
(`wipe`, `release`); `held[t]` is what `t` was told. `hal` selects the file that
is linked and never changes. A failed compare-and-swap changes nothing and is
not a step. `Nesting` says in which build callers lock a mutex they hold; the
user build refuses them (and the callers in the runtime ignore that), the
kernel build would spin for ever, which is what `CrtLifecycle` shows for the
exit lock. `MUTEX_UnLock` looks at nothing, so `CallUnLock` asks that the
caller has the lock.

### PcdKernel

`Objs` are thread objects (`ETHREAD`), `Cids` thread ids; an id is given to a
new thread only when no existing object has it, and an exited thread's object
exists until its last reference goes: that, and other users of the pool, is the
external part. `entries` is `PCD.stList` without its order, each entry with the
block it lives in (`at`). A critical section of `PCD.hMutex` that calls the heap
in the middle is split there. `calls[o]` is the stack of `getptd` calls
interrupted by their own failing allocation (`StackDepth` bounds it; at the
bound the stack overflows and the machine stops). In the AppCRT the failing
`malloc`, then `calloc`, set `errno`; in the VCRuntime the null PTD is
written through (the build for x86, where `_tiddata` is laid out differently and
the write is guarded, is left out), which stops the machine or reaches an
exception handler that needs the PTD.

`ReleaseEntry` frees the data, the reference and the entry; `RemoveEntryList` then
reads the links of the freed block. As long as nobody has allocated the block since
(`Untouched`: it is free and still holds the thread's data) the links are there and the
entry is unlinked (`Unlink`). Once somebody has, even one who has freed it again, the
write goes through what that owner left (`UnlinkBreaks`). What the pool itself
may write into a free block is left out.

The comment in `crt/vcruntime/per_thread_data.cpp:75-82` speaks of a sentinel
that keeps `getptd` from being entered again; the code has none, so the model
has none.

### PcdUser

`slot` is the TLS value, `ptPtd` and `ptEntry` the locals that hold blocks
between steps. `TlsGetValue` of a slot that was never set succeeds with null,
so only the thread that initializes ever gets a PTD. `PCD_ReleaseContext`
takes the PTD in the slot for an entry; the first word of a PTD is zero, so no
release function is called and just the PTD is freed. Calls before `TlsAlloc`
or after `TlsFree` are left out.

### CrtLifecycle

The entry thread's `pc` walks through `__scrt_initialize_crt`, the initializers,
`ModuleMain`, `_cexit` and `__scrt_uninitialize_crt`; `it` is the position in
`__acrt_initializers`. Every allocation that startup makes may fail: the locks
one at a time, each PCD and each PTD. Worker threads call `atexit` and every
exit function at any time the program runs. `exitLock` is the owner of
`__acrt_exit_lock` with `HalMutex`'s interface: the kernel build waits also for
itself, the user build refuses and the caller goes on.

Abstractions: the functions in the quick-exit table are not counted; the
pre-terminators and terminators are one step; functions in the table register no
more functions; the crash that `PCD_Destroy` of the kernel build leads to
(`RemoveHeadList` of an empty list gives the head itself, which is then released
as an entry) is one step `halted`. A user-mode `main` that returns a positive
status is never shut down, nor is a module that nobody unloads: the model stays
in `up`.

### EhFrame and EhTables

`stack` holds the frames of the program, the funclets of catch blocks, and
those of the runtime: `raise` (`RtlDispatchException` and the handler it has
called), `unw` (`RtlUnwindEx` likewise) and `ccb` (`CxxCallCatchBlock`). One
step is one call of a frame's handler, one destructor, one entry or exit of a
catch block, or one thing the program does: enter a scope or a function, throw,
rethrow, raise something that is not C++. `cur`, `chain`, `pt`, `csp` and
`rethr` are `_pCurrentException`, the `FRAMEINFO` list, `__ProcessingThrow`,
`CatchStateInParent` and `cxxReThrow`; `us` and `ut` in a frame are the two
halves of `UNWINDHELP`. `mode` is the handler's version and the compiler's
switch for asynchronous exceptions. When an unwind reaches its handler,
`RtlRestoreContext` makes the frames in between invisible, but they stay on the
machine's stack until the catch block is left: `Visible` tells the two apart,
and a nested search that meets an unwind in progress collides with it.
`thrown`, `live`, `alive`, `lost` and `stale` are history for the properties (`lost`
has the exceptions that were replaced in flight, `stale` those for which FH4 took
the ip of a frame for its state); `want` records, when an exception is raised, the
handler that the program text selects. A destructor that runs destroys the newest
object of `live` if it is its own; any other is left there for `CxxScopes` to see.

What the code does in unexpected ways is in the model as it is: a collided
search calls the frame's handler again from its first scope, although the
comment above (`exdsptch.c:404-406`) speaks of the next one; FH4 sets
`CatchStateInParent` before it destroys the exception object; `cxxReThrow` stays
set when the unwind of a rethrow is replaced by a foreign exception.

`CxxScopes` knows nothing of frames: objects go in the reverse of their
construction, handlers nest, an exception object lives while somebody handles
it. `ImplementsScopes` maps `live`, `chain`, `alive` and `thrown` to it; only an
`__except` may leave objects as they are.

`ObjectsExist` speaks of an object as long as no other exception has been replaced
in flight. The restriction is needed, and the proof of section 4 found it: without
it the statement holds in every run of this size and fails with five exceptions.
A handler of object o calls a function that catches o again after `throw;`, and
that handler executes `throw;` too. Its search passes the first handler, which sets
the flag `rethrow` there, and reaches the filter of an `__except`. The filter calls
a function with an `__except` of its own, whose `try` throws a further object, and
the search for that one passes the first handler as well: `ExFilterRethrow` does
`*rethrow = 0` for an exception that is not the handler's own (`frame.cpp:1629`).
A foreign exception raised further up replaces that object and is taken by the inner
`__except`. When the unwind for o now leaves the first handler, its flag is clear and
the `__finally` of `CxxCallCatchBlock` destroys o, which is in flight and will be
handled.

A frame handler has to know the state of a frame that it did not stop in.
`StateTrusted` says when it does; both versions have defects there, and
`RightHandlerIfTrusted`, `LiveIsActive` and the objects of `ImplementsScopes` except
them.

- FH3 keeps the state of a search in the frame (`UNWINDHELP`), and when the unwind is
  replaced by a foreign exception that an inner `__except` takes, nobody resets it.
  The run `stale_try_block` shows it. `StateTrusted` of FH3: no exception was replaced.
- FH4 is told the state by the scope index of an interrupted unwind or by
  `CatchStateInParent`, and otherwise takes the ip of the frame. Two cases are missed;
  the proof of `RightHandlers` failed on them, and TLC confirmed the first (with five
  frames, in 37 steps):
  - The `__except` of `CxxCallCatchBlock` sets `CatchStateInParent` once
    (`frame.cpp:1476`), for the exception it raises again, and the first search that
    looks at a frame takes it back (`frame.cpp:514-517`). A filter below raises a
    second exception. Its search passes the same `CxxCallCatchBlock`, which has no filter
    any more, and searches the frame below from its ip: inside the `try` that was
    left. A handler of that `try` takes an exception that was raised outside of it.
  - A destructor that runs in an unwind raises a foreign exception. The search collides
    with the unwind and calls the frame's handler with the scope index it had; then
    `RtlDispatchException` goes on from the context it was given, which is that
    of the same frame (`exdsptch.c:404-425`), and calls the handler again with index 0. This
    second call searches from the ip, and a `catch (...)` of a `try` that the unwind has
    left may take the exception (asynchronous exceptions only).

  `StateTrusted` of FH4: no search went on into one of these two calls (`RunsAgain`,
  `SeesIp`), whether or not it found a wrong handler there.

### ExceptionPtr

A pointer is used by one thread at a time; control blocks are shared. Every
interlocked change of a count is a step, and so are the destructor and the free
that follow the last one. A copy constructor is a call that returns or throws
(`call[t].at` is `copy`, `recopy` for what it threw, `raise` for the copy on the
stack that `rethrow_exception` makes). `bad_alloc` and `bad_exception` have static
control blocks, named by the exception. `shared_ptr` and `_Ref_count_base` are
not in the repository and are modelled from their use.

### The algorithms

`EhArrays`, `Rtti`, `VectorAlgorithms`, `HeapFunctions`, `NumberParsing`,
`MultiPrecision` and `Undname` have no processes: each is a set of operators from
input to result, with the reference next to it. Where the code has state (the
live elements of an array, the parser's statics), it is a record that the
operators take and return.

Three defects are named by a passing property as its exceptions:

- `CastRight`. The attribute `BCD_NOTVISIBLE` comes from the compiler (`Attributed`).
  The comments at `rtti.cpp:832-856` and `897-919` say that it is wrong for a class
  inherited both virtually and not, that one visible instance makes all of them look
  visible, and that the searches work around some of the cases only. The casts are checked
  with exact flags, where every result is what C++ prescribes, and with the flags of
  such a compiler. `Mixed` reads the comments as widely as they allow: an object with several
  instances of the class, one of them inside of a virtual base. With these flags a cast from an
  instance of a mixed class may succeed where C++ has it fail ("will still incorrectly
  allow the cast to succeed"), but not if every class directly above the instance inherits
  it non-publicly, which is the workaround; a cast that C++ allows still gives the
  prescribed subobject, and casts from all other classes are right.
- `VectorisedRight`, elements of 4 bytes. `_V_pos * 16` is computed in `uint32_t`
  (`vector_algorithms.cpp:886`, `927`), although a portion may have 2^32 registers (on
  x64; x86 has neither portions nor ranges of that size): an extreme element that lies 4 GiB
  or more behind the start is given at a multiple of 4 GiB less. In front of that the
  result is exact. The comment at line 838 has the vector of indices wrap only at the end
  of a portion, and it does; it is the offset that wraps earlier. With its exception
  taken out of `Agrees` the property is violated by a range of 70 elements.
- `VectorisedRight`, the search without an end, is right only if no match in front of
  the range shares a register with it (`PadHasNone`); `unsized_find` shows why.

`Undname` keeps the parser's structure: one operator for each function, the
back-reference tables `zn`, `args` and `targs`, the flags, and a result that is
valid, truncated or invalid. `undname.inl` is not in the repository; the `DName`
operators are modelled from their use. Some of what it prints is odd and kept:
an anonymous namespace read through a back-reference gives the raw name; an
empty pack in front of other arguments gives a leading comma; the scope of an
explicit interface implementation drops the scopes before it; the text of a
virtual call thunk ends with "}'" twice; the const of a pointer inside another
declarator is dropped (line 4405), which `Decoration` describes in `CAround`.

`Decoration` is external: the compiler that decorates, with the same tables, and
the declaration as a programmer writes it. `NameIsRight` composes the two sides.

`MCLibrary` drives all of these: a first state chooses a seed and the second
completes it. `NamesRight` is stated on the step that completes a name, because
TLC evaluates an action property without the preliminary analysis of levels that
does not end on the parser's mutually recursive operators. The same run holds
the life of `ExceptionPtr`.

## 3. What is checked

| Run | Instance | Shows |
|---|---|---|
| `hal_mutex` | 3 threads, both builds | mutual exclusion, the owner stamp, no self-spin in the nesting user build, refinement of `LockSpec`, progress of the group |
| `pcd_kernel` | 3 thread objects, 2 ids, 4 blocks, stack of 2 | nobody gets another thread's or freed data, references balance, one entry per id, no PTD lost by a failure in the VCRuntime, the same PTD on every call, refinement of `PerThreadSpec` |
| `pcd_user` | 3 threads, 4 blocks | slots hold live data of their own thread, a failure loses no PTD |
| `crt_lifecycle` | entry thread and one worker, 1 and 3 locks, 2 static objects | layers nest on every path, nothing is left after any failure, terminators once, the entry thread ends unless the exit lock is taken |
| `cxx_exceptions` | a function with three try blocks, one of them inside a handler; plain destructors and one that runs code with a try block; copy constructors; a `noexcept` function; one with `__except`; 3 exceptions, 4 frames; FH3 and FH4, `/EHs` and `/EHa` | the handler the text selects; live objects are those of the scopes; the `FRAMEINFO` list, the count and `CatchStateInParent`; exception objects; refinement of `CxxScopes`; the runtime always comes back |
| `library_algorithms` | see Bounds | `dynamic_cast`, vectorised algorithms, heap functions, array iterators, numbers, remainders and names agree with their references, but for the exceptions named under The algorithms; `exception_ptr` counts and destroys right whatever fails |
| `exit_lock_released` | the same, one worker | violated: `__acrt_lock_and_call` never unlocks |
| `statics_destroyed` | entry thread alone | violated: no static object is ever destroyed, the onexit table cannot grow from empty |
| `detach_is_safe` | 2 thread objects | violated: the freed entry is allocated by somebody else before it is unlinked |
| `attach_gives_ptd` | as `pcd_user` | violated: an attached thread gets no PTD in the user build |
| `stale_try_block` | as `cxx_exceptions` | violated: after a replaced unwind FH3 enters the handler of a try block that was left |
| `unsized_find` | as `library_algorithms` | violated: a search without an end returns an element in front of the range |

Bounds. Three threads are the smallest number where a stamp or a wipe of one
falls between two steps of another while a third waits. Two ids for three
thread objects make an id be reused while an older object may still exist; four
blocks hold an entry and a PTD of two threads, so allocation succeeds, fails and
hands out a block just freed; depth 2 is the first at which both layers of
re-entrance (`malloc`'s and `calloc`'s errno) are open at once and then
exceeded. `VcrtLocks` is the code's 1; the AppCRT's lock count is cut to 3 so
that a first, a middle and a last lock can fail. Two static objects are enough
for the table to hold more than one function. One worker is enough to hold the exit lock, to
race the entry thread into `common_exit` and to end the process from outside.
Three exceptions are what it takes to replace an unwind and then to be misled
by it; four frames hold a function, its callee, a handler and what that calls.

The algorithms: hierarchies of up to four classes, the fewest with a diamond
below another class; registers of their real width, 32 and 16 bytes, with ranges
around one, two and three registers at every alignment, and bytes of one or two bits where
values are compared: a range is then longer than a portion for elements of 1, 2 and 4
bytes (the vector of indices wraps within it, and the portions follow one another), and for
elements of 4 bytes also longer than what an offset of their width counts; pointers of 2
bytes, a `size_t` that wraps at 128 and requests of up to 120, so that sizes
overflow; retry loops of up to four failing attempts; arrays, also of arrays, of
up to six elements of which up to three constructors or destructors throw; integers
of four and six bits, strings of up to five characters (eight binary digits), fields of up to seven
digits read in one or two words; half words of two bits, all values, and of three
bits at the edges; names with types of up to two levels of indirection in every
place a type can have, repeated names and types, and eight to twelve of them for
tables of ten. For `exception_ptr`: two threads, two pointers and
one block besides the two static ones, so that an allocation fails whenever the
block is in use; a small and a larger exception with a copy constructor and a
destructor, one copied as bytes, one that is not C++ and a managed one. With the one
block every path of `__ExceptionPtrCopyException` and of its fallbacks is taken.

Deadlock checking is off where the system may stop: a machine that crashed, a
runtime that has ended, threads that wait on the exit lock for ever, or a
completed input.

Symmetry is used in the per-context data runs, whose threads, ids and blocks
are interchangeable; the properties there are all about safety.

Fairness. `HalMutex!FairSpec`: a thread inside `MUTEX_Lock` or `MUTEX_UnLock`
keeps running and a thread that has the lock unlocks it; preemptive scheduling
gives weak fairness per thread and the loop gives nobody a turn, so only the
progress of the group is stated. `CrtLifecycle!FairSpec`: the entry thread
runs (weak fairness of its own steps), `ModuleMain` returns however often it
calls into the runtime and somebody unloads the image (strong fairness, because
calls from inside `ModuleMain` disable these steps over and over). Nothing is
asked of the workers. `EhFrame!RuntimeGoesOn`: while the dispatcher, the
unwinder or the frame handler runs, it goes on; it is the only code of its
thread, and nothing is asked of the program. It is written out because only
steps of the runtime are enabled then.

The kernel unload never gets past `_cexit`: `common_exit` takes the exit lock
and `_execute_onexit_table` takes it again (`EndsUnlessExitLockTaken` has
this as its exception). What `EndsClean` and `LayersNest` say of the kernel
build is therefore said of its failing startups; the whole way down is walked in
the user build.

Every property has a mutant in `PROJECT.json`: a plausible slip in one of the
translated operations, defined next to it, under which the property fails.

## 4. What is proved

`HalMutexProofs`, for any set of threads, both builds and any nesting of calls,
from `HalMutexAssumption` (`NoThread` is no thread; `Nesting` is a set of
builds). The properties are not inductive: nothing in `MutualExclusion` says
that an owner implies a taken `lSpinLock`, nor where the stamp is while it is
being written. `LockInv` adds that an owner has set the lock word, that `held` is
down inside the two functions' critical halves, and that the stamp names
the holder or the thread about to wipe it. From it follow `TypeOK`,
`MutualExclusion`, `StampTruthful`, the refinement of `LockSpec`, and
`NoSelfSpin` under the hypothesis that kernel callers do not nest
(`"kernel" \notin Nesting`): that is the discipline the exit functions break.

`PcdKernelProofs`, for any sets of threads, ids and blocks and any depth of nested
`getptd` calls, from `PcdAssumption` (the null values are not among the blocks
and ids). The properties lean on each other in a circle: an entry pins its thread
because of its reference, the reference is balanced because ids identify
entries, and ids do so because entries pin threads. `PcdInv` closes it by
adding that existing thread objects have different ids, that only a running
thread is inside the functions, that the blocks of a live entry were allocated by
the entry's thread (so two entries never share a block, and one thread's failure
path frees nothing of another's), that the PTD being stored is the thread's own
and on no entry, that no thread whose entry is being created has one, and that
what `getptd` returned is in the thread's own entry. For the VCRuntime it adds
that a failed allocation leaves no inner `getptd` behind, which is why
no entry appears between the lookup and the store there; in the AppCRT one does,
its PTD is overwritten and lost, and `NoPtdLost` does not speak of it. From
`PcdInv` follow all seven invariants of the run, `SamePtdAgain` and the
refinement of `PerThreadSpec` (`SlotFacts` replaces the `CHOOSE` in the mapping by
the unique entry of the thread).

`PcdUserProofs`, for any sets of threads and blocks, in either layer, from
`PcdUserAssumption`. `SlotIsOwn` speaks of threads that have not detached, and an
initialization that starts over must not find a slot filled by an earlier one.
`UserInv` adds that only the entry thread's slot is ever filled, and only while the
runtime is up, and that the PTD which is about to be stored is a live one of that
thread. `SlotIsOwn` and `NoPtdLostByFailure` follow.

`CrtLifecycleProofs`, for any number of workers, locks and static objects, in both
builds, from `CrtAssumption`. `LayersNest` and `EndsClean` say what may stand on
what, not where the entry thread is and what its next step takes away. `LifeInv`
gives for every phase and position in the initializer table exactly what has been
built: `TakenAway` shows that a round of either loop down takes what its entry had
made, and no more. `TerminatedOnce` needs another part: who is past the test of
`c_termination_complete` owns the exit lock, and until it has run the terminators
nobody has. In this code the owner keeps the lock for ever, and the proof says
so; an owner that calls again (user build) turns back at the flag.

`ExceptionPtrProofs`, for any finite sets of threads and pointers and any sets of
blocks and exceptions, from `PtrAssumption` (threads and pointers are finite so that
holders can be counted; `None` is no exception; sizes are natural numbers).
`PointersRight` is about blocks at rest; the steps in between make it inductive: a
block that is being filled or ended belongs to one call alone and nobody holds
it (`Alone`), a copying call is the only one that will set its null pointer
(`Targets`), and the count of a block is the cardinality of its holders, which each
step changes by one element (`CountsExact`). The property of the run
`library_algorithms` is the same formula, for the part of that run that holds the
life of `ExceptionPtr`.

`EhFrameProofs`, for every program, any number of exceptions and any depth of calls,
both frame handlers and both switches of the compiler. Two assumptions are made, here
and in the two modules that build on it. `EhAssumption`: there is a function to start
with and one for the code of destructors and filters, and `"none"`, which stands for
an exception that is not C++, is not a type that is thrown. `TablesAssumption` is what
the compiler's numbering of states provides and the frame handler relies on when it
compares states (`ehdata.h:133-150` describes `tryLow`, `tryHigh` and `catchHigh`;
`__CatchTryBlock` and `GetRangeOfTrysToCheck` in `risctrnsctrl.cpp` tell by those
ranges where a funclet is, `risctrnsctrl.cpp:447-481` which of two try blocks is
the inner one):

- unwinding leads to a smaller state of the function or out of it;
- the states of a try block and of its handlers are consecutive, and each state
  lies in the same try and catch blocks as the state around it, except the first of a
  `try` and the first of its handlers; these two destroy nothing and lie in the same
  scope;
- try blocks with their handlers are apart or inside each other, and none starts where
  a funclet does;
- the tables list an inner `try` before the one around it, and an inner handler after
  the one around it.

TLC checks both of the program in the run.

`ChainIsHandlers`, `CountBalanced` and `ParentStateFresh` all depend on which
frames a collided unwind has made invisible, and that is no property of single
variables: every unwind on the stack hides the frames between itself and where
it is. `EhInv` therefore describes the stack. Each frame is well formed (`Own`)
and fits what is below it (`Down`): a handler stands on its `CxxCallCatchBlock`, and
that on a frame of the same function whose try block it is; a dispatcher stands on
code that can raise or on the `__except` of `CxxCallCatchBlock`, and an unwind on its
dispatcher; where a search or an unwind is never lies strictly inside the range that
an older unwind hides (`Respects`); and an unwind's target can take it (`Lands`). From
that follows the lemma everything rests on (`HandlersOfUnwind`): the handlers visible
from an unwind are those visible from where it is, so one step down changes them by
the frame stepped over and nothing else. With `SavedRight` (what a catch block
saved is the exception of the handler around it) the step lemmas then follow the
`FRAMEINFO` list, `__ProcessingThrow` and `_pCurrentException` through each action.
`ParentInv` ties `CatchStateInParent` to the frame handled next. Collided unwinds,
exceptions in filters, destructors and copy constructors, and FH3 states that
are out of date are all included: none of these theorems needs `StateTrusted`.

The second half of `EhFrameProofs` is about exception objects. `ObjectsExist` says that an
exception object exists while it is in flight or handled and no longer, and the code
decides that when a handler is left: the `__finally` of `CxxCallCatchBlock`
destroys the object unless another entry of the `FRAMEINFO` list has it or the flag
`rethrow` is set. `ObjInv` says why that is right. An object that is thrown again,
or handled while it is in flight, is held by a handler further down the stack
(`Backed`), so leaving a handler while something below still needs the object
always finds another one in the list. The search for an object that has gone past a
handler of it has set the flag there, and no search for another exception has cleared
it except one that was replaced (`Passed`): the unwind that follows finds it set.
In the other direction a handler with the flag set has its object in flight above it,
or its exception was replaced (`Flagged`), so no object is forgotten. What the top
of the stack cannot see may be gone; what it can see exists (`AliveOK`), and what
exists is in flight, handled or was replaced (`LeakOK`). Most actions move the
frame at the top, push frames or cut frames away, and each of the three has one
lemma for all of `ObjInv` (`MovedOK`, `PushedFlights`, `CutFlights`); the unwinds
need in addition that their target sees what they see (`TargetSees`).

`HandlersAreNested` is the refinement of `CxxScopes` without the objects on the
stack (`HandlersNest`: `live` stays empty, the rest is mapped as in
`ImplementsScopes`). It needs no `StateTrusted`. `ChainInv` gives the nesting,
since a handler that is left is the first of the list, and `ObjInv` gives the
objects: one whose handler is entered exists, and one that is destroyed exists
and is in no other entry (`CatchDoneLeaves`, `UnwindCatchBlockLeaves`).

`EhStateProofs`, for FH4, from the same assumptions, `EhInv` and as long as `stale` is
empty. FH4 keeps no state in the frame, so everything depends on where a handler is
told the state from. `Cur` is the state a frame is in: where the unwind that covers it
has got to, else that of the try block whose handler stands on it, else its ip.
`From` is the state that FH4 takes: the scope index, else `CatchStateInParent`, else the
ip. `StateInv` says that the two agree wherever a handler is about to be called
(`Told`), also in a search that has collided with an unwind and in an unwind that takes
over another; that an unwind never starts below the state it has to stop at (`ArrivedOK`);
and which objects exist: those of the scopes around the states of the visible frames
(`LiveOK`). `Sorted` makes the order right: objects are in the order of the frame and
the state they belong to, so the one an unwind destroys next is the newest, and the ones an
`__except` leaves behind are the last of the list. `ObjectsOfScopesLive` follows:
whenever the program runs, the objects are exactly those of the scopes it is in. The
states around a state, `Around`, are a recursive function; `AroundIsUps` shows by the
least counterexample that they are the smallest set closed under unwinding, and the
proofs use that.

`EhHandlerProofs`, under the same conditions. `Want` is computed on the stack when an
exception is raised; the search ends many steps later, with filters, other searches and
unwinds in between. `HandInv` relates the two through `WantOK`: if none of the frames
above frame a could end the search (`GoneDown`), and a can, then `want` names a and
the innermost of its try blocks that take the exception. The frames that a search has
gone past are such frames, so `WantOK` remains true while the search moves, and at the
frame that takes the exception it gives the handler; that the first hit of the
table is the innermost try block is the order of the tables (`TwoTries`,
`PlainFunclet` for searches inside a handler). `RightHandlers` follows.
`ScopesImplemented` is the full refinement of `CxxScopes`: objects as well as handlers
and exception objects. It combines `LiveOK` and `Sorted` (the object a step destroys is
the newest one) with `HandlersAreNested`.

Only model-checked:
- `SomeoneGetsIn`, `EndsUnlessExitLockTaken` and `ComesBack`: liveness is out of the
  prover's reach.
- What `RightHandlerIfTrusted`, `LiveIsActive` and `ImplementsScopes` say of FH3. There the
  state of a frame is in `UNWINDHELP` of its establisher, which a catch funclet shares
  with its function; `StateInv` would need a second description of every frame.
- The algorithms, which are recursive definitions or folds over data and would
  need induction (`CastRight`, `VectorisedRight`, `HeapRight`, `ArraysRight`,
  `NumbersRight`, `EngineRight`, `NamesRight`).

## 5. What is not modelled

`PROJECT.json` gives the reason for each component. In short:

- Exceptions: translators from structured to C++ exceptions, `longjmp`,
  `__finally` of the program, `EXCEPTION_CONTINUE_EXECUTION`, exception
  specifications, destructors of exception objects that throw, managed
  exceptions in the frame handler, registers and prologues, the lookup of
  function entries, the bases of the images that throw (for the exception
  that a copy constructor throws, `__ExceptionPtrCopyException` passes the base of the
  first one); the chain of registrations of x86, which serves the same
  protocol in assembler (`riscchandler.cpp` is under `#if 0`).
- Exit functions: the quick-exit table, and the growth of a table with callbacks
  that register while it runs. It never happens: a table cannot grow from nothing
  (`statics_destroyed`).
- Heap: functions that only call the HAL, the setters of handler and mode, the
  debug heap.
- Numbers: floating-point arithmetic and the functions on the bits of a double,
  which TLC cannot compute.
- Undecoration: the names a caller supplies for template parameters, the length
  of the output buffer, spaces.
- The threads of the AppCRT, `mutex.cpp` and `cond.cpp` are commented out in the
  source, which leaves the condition variable of `primitives.hpp` without a caller;
  `_Mtxlock` and its kin are empty.
- The security cookie, control-flow guard, error tables, `memory_resource`,
  `random_device`, headers, drivers and tests: straight-line code or wrappers.

## 6. Plan

1. Done: the HAL, the runtime's life, per-thread data, C++ exceptions with
   their dispatcher, `exception_ptr`, array iterators, heap functions, and the
   algorithms above, with their abstract specifications; the proofs of section 4.
2. Done: the theorems about the frames of `EhFrame`, the `FRAMEINFO` list, the
   count of exceptions being processed, exception objects and the nesting of handlers.
3. `ExceptionPtr` on the exceptions of `EhFrame`: a copy in a handler that is
   itself left by an exception.
4. Translators and `__finally` as further kinds of frames in `EhFrame`.
5. Done for FH4: the state of every frame, the objects of its scopes, the handler each
   search finds and the refinement of `CxxScopes`, for every program. Left: the same for
   FH3.
