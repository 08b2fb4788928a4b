# Models and proofs beside the audit corpus

## What the repository is

The repository is a corpus of audits of 37 programs and libraries. Each finding
is a pair of files: a write-up (`NNN-*.md`) that shows the code concerned, and a
patch (`NNN-*.patch`) that corrects it. Some directories also hold programs that
reproduce findings: `apache-httpd/pocs/run_pocs.py`, the Go programs of
`go/crypto/pocs`, the Rust programs of `rust-stdlib/pocs`, WebAssembly guests in
`viceroy/pocs`, and a few others.

The audited programs themselves are not here. What is here of them is the code
of the patches: what a hunk adds, what it removes, and its context. So this
project models

- **the patched code** of the findings that are about state and concurrency:
  the hunks are the source of the actions, one action per lock section, atomic
  operation or message; and
- **the programs that are complete in the repository**: the harness of
  `apache-httpd`, and the Rust reproducers of `rust-stdlib`, `pushpin` and
  `lol-html`.

Everything the hunks rely on and do not show (a kernel, a server, a library, the
rest of a function) is modelled from how the hunks use it, as weakly as they
allow, and is marked external in `PROJECT.json`. The code *before* a patch gives
the natural mutants: a property worth having is violated by it.

The properties are about correctness: who may be in a critical section, what a
counter counts, what a caller is told, what is left behind.

## Components

`PROJECT.json` lists every audited project. The modelled ones:

| Component | Module | Source | State | Operations |
| --- | --- | --- | --- | --- |
| WASIX task control plane | `TaskControlPlane` | `wasmer-wasix/045` | one atomic count, guards of threads | `register_task`, drop of a guard |
| DProxy instance factory | `DProxyFactory` | `wasmer-wasix/015` | under one mutex: runners and start-up reservations per shard | `acquire`, end of a runner, drop of the future |
| ITRON spin mutex | `SpinMutex` | `rust-stdlib/107` | lock word, dispatch state and running task of each core | `with_locked`, dispatching |
| Xous condition variable | `XousCondvar` | `rust-stdlib/111`, `112` | atomics `counter` and `timed_out`, a mutex, the ticktimer server | `wait`, `wait_timeout`, `notify_one`, `notify_all`, `drop` |
| TLS client handshake | `HandshakeContext` | `go/crypto/005` and its reproducer | completion flag, error, connection, `handshakeMutex`, contexts and their callbacks | `HandshakeContext`, cancel |
| KV object store | `KvAtomic`, `KvStore` | `viceroy/012`, `013` | map under a write lock, with generations and expiry | `insert`, `lookup` |
| Reproducer harness | `PocHarness` | `apache-httpd/pocs/run_pocs.py` | main thread, httpd process, backend server, handler threads, verdicts | `main`, `Httpd`, `tcp_server` |
| Reproducers with threads | `UnixSocket`, `ListenerRebind`, `TimedWait`, `InterruptedRead`, `InheritWindow` | `pushpin/poc/001`, `rust-stdlib/pocs` 041, 067, 123, 066 | places of two threads, sockets, atomics, mutex and stopwatches, a signal | each lock, atomic operation, call that blocks, and the verdicts |
| Reproducers with descriptors | `Descriptors`, `Ledger` | `rust-stdlib/pocs` 025, 026, 122; 010, 030, 031, 032 | a table of descriptors; what was opened, closed and is owned | `dup`, `dup2`, `open`, `close`, `mmap`, drops, verdicts |
| Reproducers of lengths and words | `Lengths`, `Words` | `rust-stdlib/pocs` 004, 006, 008, 009, 021 to 023, 040, 042, 062, 100, 121, 141; 043 to 046, 090, 091, 099, 105, 106, 182 | none | functions of their inputs |
| Reproducers of single functions | `DevicePath`, `Calendar`, `RemoveDirAll`, `VariantOrder`, `MetaVars`, `AllocFamily`, `SimdFeatures`, `ContentLength`, `RssProbe` | `rust-stdlib/pocs` 005, 143 and 144, 020, 162, 065, 061 and 102, 063; `pushpin/poc/012`; `lol-html/pocs` | a loop's, if any | functions of their inputs |
| HPKE `Seal` | `SealNonce` | `go/crypto/008`, `009` | sequence number, mutex, nonces | `Seal` |
| Yubikey counter | `CounterFile` | `openbsd-libexec/004` | counter file and its lock, processes | `yubikey_login` |
| WASI descriptors | `RenumberFd` | `wasmtime-wasi/001` | descriptors in use and free, resources of the host | `fd_renumber`, open, close |
| Binary factory | `BinFactory` | `wasmer-wasix/011` | cache entry under a lock, loads | `get_executable`, `set_binary` |

They interact with what is external to them through shared memory (atomics and
mutexes: `TaskControlPlane`, `SpinMutex`, `XousCondvar`, `KvStore`, `SealNonce`,
`TimedWait`, `ListenerRebind`, `InheritWindow`), a file (`CounterFile`),
wake-ups (`DProxyFactory` with tokio's `Notify`, `XousCondvar` with the server),
callbacks in threads of their own (`HandshakeContext`), and processes, signals
and joins (`PocHarness`, `UnixSocket`, `InterruptedRead`). They do not interact
with each other: they belong to different programs.

What is hard in them, and what makes them correct:

- **Task control plane.** Increment, test and decrement are three steps. Correct:
  live guards never exceed the maximum; no path loses or keeps an increment.
- **DProxy factory.** The lock is released over `spin_up().await`, which may
  fail, or be dropped; a runner may end at any time, and its clean-up removes an
  entry by shard. Correct: one runner per shard; a reservation stays until its
  starter takes it out; waiters wake.
- **Spin mutex.** Two mechanisms at once: dispatching within a core, a lock word
  between cores. Correct: exclusion, no preempted holder, dispatch state given
  back.
- **Condition variable.** Two counters updated by separate relaxed operations
  of notifiers and of waiters that time out; a server that may not have seen a
  counted waiter yet; messages that fail. Correct: exact accounting; a guard
  means a held mutex; a registered waiter is not passed over.
- **Handshake.** The callback of a context races the completion of the
  handshake, and several callers share both. Correct: answers agree with the
  connection; a late cancellation does no harm; an early one frees its caller.
- **KV store.** Read, check, build and write with other writers about, and time
  passing. Correct: inserts are atomic.
- **Harness.** Three time-outs in a row around a process that may hang, and
  threads that wait for that process. Correct: nothing is left over; `[PASS]`
  means a clean end; every run ends.

- **Reproducers with threads.** What they print is read as evidence, and depends
  on the schedule. Correct: no interleaving prints what is not so, and they end,
  unless a thread comes too late for the other.
- **Reproducers with descriptors.** Calls of the kernel fail half way. Correct:
  a verdict comes with everything given back but what is leaked on purpose.
- **Lengths, words and single functions.** Inputs at the ends of ranges. Correct:
  a check accepts nothing outside what was given; a program calls "triggered"
  exactly the inputs on which the code it reproduces goes wrong; the fixed form
  does what the write-up says for all inputs.
- **Seal.** Correct: no nonce is used twice, by goroutines at once or by a counter
  that wraps.
- **Yubikey counter.** Concurrent logins, and a file that is emptied before it is
  written. Correct: what was accepted is never accepted again.
- **WASI descriptors.** Correct: each resource has one descriptor, in any sequence
  of calls, and none is left behind.
- **Binary factory.** The lock is given up over the load. Correct: callers share
  one package.

The other components are listed in `PROJECT.json` with the reason: see *Not
modelled*.

## Modules

Each component has a module with its state and actions. An `MC` module supplies
what a `.cfg` cannot; `MCThreads` and `MCSuite` instantiate several components that
do not interact, so that one run starts each of them. Theorems are in modules
`...Proofs`, one for each passing run. A definition whose comment begins with
*Mutant* is not part of the specification: it is what the code was before its patch,
or a likely mistake.

### TaskControlPlane

`FetchAdd`, `Admit`, `Refuse` are the `fetch_add` and the two outcomes of the
test; `DropGuard` gives a count back. A maximum is configured; without one
nothing is ever refused. `max_task_count` is compared with the value *before*
the increment.

### DProxyFactory

One action per section of the mutex: `Hit`, `Join`, `Reserve` are the three ways
through the first one, `Publish` is the second. `Subscribe` is the call of
`notified()`, which is after the lock is released: a `notify_waiters()` in
between does not reach the caller. `Spawn` and `SpinUpOk` are separate because
the runner's task starts before the future of `spin_up` resolves, so a runner may
end (`TaskExit`) before it is published; one that fails is taken to have spawned
nothing. `Cancel` drops the future at one of its
two awaits; only callers in `Cancellers` are ever dropped.

The patch uses `result` after moving out of it; the model takes it as meant. The
write-up (line 41) also says that clean-up is tied to the cached instance. The
patch does not touch clean-up, so the model removes by shard, and
`CleanupOwnEntry` shows that with the reservations this removes nothing else.

### SpinMutex

`Sense`, `Disable`, `Swap`, `Release`, `Restore` are the steps of `with_locked`
in order; `Dispatch` is the kernel, which switches a core only while its
dispatching is on; `CallerSwitches` lets a task call with dispatching off.

### XousCondvar

Every atomic operation and every message is a step. `notify_some` is
`SwapTimedOut`, `SubTimedOut`, `LoadWaiters`, then per try `NotifyCondition`,
`SubNotified`, `SwapTimedOut`, `SubLateTimedOut`. `wait_ms` is `WaitMs`,
`Unlock`, `Register`, then `Timeout` and `CountTimeout` or a notification, then
`Return`; `WaitError` and `RelockAndPanic` are the path of 112. A comment in the
code assumes that the mutex is locked while `notify_some` runs; `Condvar` does
not ask for that, and the model does not assume it.

`witness` and `woke` are history variables: waiters that were with the server
during a whole call of `notify_some`, and whether the call woke somebody.

Patch 113 puts waiters back on `counter` when a message fails. It is written
against the code that took them off beforehand; 111 no longer does. The two
overlap, and the model has 111.

### HandshakeContext

`CheckComplete` and `Close` are the two steps of the callback, `Stop` and
`ReturnNotStopped` the two of the deferred function. `LockMutex`, `Exchange`,
`Complete`, `Fail`, `UnlockMutex` stand for the rest of the function and for
`handshakeFn`. `early` is a history variable: contexts cancelled before the
handshake completed.

### KvAtomic and KvStore

`KvAtomic` is the promise: `Call`, then one instant `Effect` at which the
preconditions are judged and the entry is replaced, then `Return`. `KvStore` is
the code as 013 leaves it, which includes what 012 does: `Call` computes the
expiry, `Lock`, `Examine` (read, removal of an expired object, checks, new
object), `Insert`, `Unlock`. Time passes at any step. The refinement mapping shows
an expired object as absent, and an object that passed its checks as stored. A
body is the sequence of its writers, which is what append and prepend are about;
a generation is the number of the insert that made it.

### PocHarness

`Main` is the main thread: the loop over the cases, the server, `httpd -t`, the
process, `wait_port`, the body of a case, and the way out, with its exceptions.
What a case says to httpd and checks is one step, `Body`, which passes or raises.
`Collected`, `Terminate`, `Kill`, `Expired` are `collect()`. `Handlers` says what
kind of backend a case has: none, handlers that leave at the end of their input,
or those of case 116, which do not before the header is complete. A case with
two backends is modelled with one. Time-outs may expire at any step.

### MCThreads

`MCThreads` instantiates `TaskControlPlane`, `SpinMutex`, `HandshakeContext` and
`PocHarness`. A behaviour of it is one of the four (`program`), from its start; the
variables of the others do not move. The counterexamples about the handshake
and the harness have `MC` modules of their own.

### The suite

`MCSuite` instantiates the 22 modules that follow, which are small and do not
interact. A behaviour of it is one of the programs (`program`), from its start;
the variables of the others do not move. A program that computes one thing has no
step: `input` is any of a set, chosen in `Init`, and the property is about the
functions of it. `BuggyX` and `PatchedX` or `FixedX` carry the source's names, and
`TriggeredNNN` is the conclusion of `main()` of NNN.

- **`UnixSocket`**: `Bind`, `Tell`, `Chmod`, `Accept`, `Receive`, `Serve`,
  `ReadBack`, `Attempt`, `Judge` are `main()` in order, `Connect` and `Send` the
  client. The kernel checks the mode at `connect`, except for root.
- **`ListenerRebind`**: the two atomic operations of `alloc_fd`, the store and
  `close_fd`, each a step.
- **`TimedWait`**: `wait_timeout_while` of 067, with `Tick` for time: it advances
  every stopwatch that runs, between any two steps, as often as it likes. `Wake`
  is a return of `wait_timeout` for any reason. `met` is a history variable.
- **`InterruptedRead`**: the signal is sent to the process, so `Handle` may run
  in either thread.
- **`InheritWindow`**: the two spins of 066. What `main()` calls inheritable is a bit
  of the number it loads, which nothing ever changes; `inheritable` is what is so.
- **`Descriptors`**, **`Ledger`**: three and four programs, chosen by `Exec` and
  `Begin`. The process may begin with any descriptors open beyond 2.
- **`Lengths`**, **`Words`**, **`DevicePath`**, **`Calendar`**, **`RemoveDirAll`**,
  **`VariantOrder`**, **`MetaVars`**, **`AllocFamily`**, **`SimdFeatures`**,
  **`ContentLength`**: the functions, and properties that hold them against a
  reference of their own (the Gregorian calendar, exact integers, a flattened
  stream of tokens, and so on). `ContentLength` stops where `main()` parses what is
  left of its buffer and judges it.
- **`RssProbe`**: the loops of both `lol-html` programs and the lines they print; the
  write of 002 in front of its loop succeeds.
- **`SealNonce`**: under 008 `Lock`, `NextNonce`, `Raise`, `AeadSeal` by several
  goroutines; under 009 `SealLimited`, `RaiseLimited` by one, since 009 adds no
  lock. The two change the same lines of `Seal`. If 009's test were put before
  008's lock, as its hunk has it, several goroutines could pass it before any
  raises the counter.
- **`CounterFile`**: each call of `yubikey_login` from `fopen` on, and its failure.
  What `fprintf` prints reaches the file in `Flush`, a part of `fclose`. `Kill`
  may take any process at any time; the kernel then releases its lock.
- **`RenumberFd`**: `FdRenumber` moves the descriptor, and `DropResource` may fail,
  which traps the guest. `from = to` and descriptors that are not in use change
  nothing and have no step.
- **`BinFactory`**: callers of one name. `Load` may give a package, a module or an
  error; a name that is not absolute is an error too. `Missing` is what the line
  "// NAK" after the hunk stores.

## Runs

| Run | Bounds | States | Shows |
| --- | --- | ---: | --- |
| `threads` | 4 threads, 2 tasks; 2 tasks on one core, 1 on another; 3 callers; 2 cases of any kind, 2 connections | 136,872 | the limit and the count; exclusion, no preempted holder, dispatch state; answers, late cancellation, one handshake, a cancelled caller returns; nothing left over, `[PASS]`, the end of main; no deadlock |
| `dproxy_factory` | 3 callers (1 may be dropped), 2 shards, 2 start-ups | 273,035 | one runner per shard, reservations, clean-up, wake-up of waiters |
| `dproxy_lost_wakeup` | 2 callers, 1 shard | | a counterexample: a caller that waits for ever |
| `xous_condvar` | 2 waiters, 2 notifiers, 2 tries, 3 waits, 1 failure | 1,179,933 | accounting, guard and mutex, no waiter passed over |
| `condvar_drop_after_error` | the same | | a counterexample to the assertion of `drop` |
| `handshake_late_close` | 2 callers | | a counterexample: a completed connection closed |
| `kv_store` | 2 writers, 1 key, 3 inserts, clock 0..1 | 661,496 | the stepwise insert implements the atomic one |
| `harness_scgi_hang` | 1 case, 1 connection | | a counterexample: a case without a verdict |
| `suite` | see below | 63,401 | the verdicts of the reproducers, their ends, and four patched operations |
| `exponent_panics` | as `suite` | | a counterexample: an exponent that is too large and does not panic |
| `widening_differs` | as `suite` | | a counterexample: two widenings that agree |
| `wasm_cached` | as `suite` | | a counterexample: a module that was loaded and is not cached |

`suite` checks twelve invariants and one temporal property. Each is about some of
the programs and is true of the others:

| Property | Programs | Says |
| --- | --- | --- |
| `SocketVerdicts` | `UnixSocket` | "vulnerable" is printed of a real race only, "did not reproduce" to root only |
| `WaitVerdicts` | `TimedWait` | "timed out" is said past the deadline only, "not" with the predicate only; the assertions of 067 hold once `main()` meets the waiter in its loop |
| `ThreadVerdicts` | `ListenerRebind`, `InterruptedRead`, `InheritWindow` | one leak for each accept; no end of file; the window seen from inside |
| `ThreadsEnd` | all with two threads but 041 | they end, or a thread came too late |
| `DescriptorsKept` | `Descriptors`, `Ledger` | what is restored, closed, seen and lost |
| `LengthsSound` | `Lengths` | checks accept nothing outside; triggers are exact |
| `ArithmeticExact` | `Words` but 182, `Calendar` | results at the ends of words; which exponents panic; dates |
| `AllocatorsMatch` | `AllocFamily` | blocks and allocators over sequences of `realloc` |
| `LoopsExact` | `DevicePath`, `RemoveDirAll`, `ContentLength`, `MetaVars`, `VariantOrder`, `SimdFeatures`, `RssProbe` | loops over what others give |
| `NoncesDistinct` | `SealNonce` | no nonce twice |
| `CounterKept` | `CounterFile` | no counter twice, unless a process that had emptied the file could not write it |
| `ResourcesOwned` | `RenumberFd` | one descriptor for each resource |
| `BinaryShared` | `BinFactory` | callers share a package |

Bounds of `suite`: two accepting threads, two accepts each; three goroutines,
processes or callers (one that works, one that meets it, one that comes late);
four sequence numbers, so that the counter wraps; three counter values; three
descriptors and five opens, so that one is used again and one renumbered over;
time-outs of 4 units, a first sleep of 1, a hold of 16 and an asserted 10 (the
proportions of 067), with stopwatches that stop at 17; a table of 8 descriptors,
of which 122 scans up to 5 and 026 leaks 3; three directories for the ten of 031
and 032; 14 tags with lines every 2 chunks of 3 or every 3 tags; device paths in
4 addresses; entries, headers, keys and digits in sequences of up to 3 or 4; words
of 64 values with pages of 4 (of 8 values, all of them, for 182); buffers of 4 to
16 bytes for those of thousands, with every constant of the code in its order;
all years 1900 to 2104, which have a century with a leap day and two without.
The constants are in `suite.cfg`; the theorems of `SuiteProofs` do not depend on these
numbers.

`Given(p)` in `MCSuite` is what a program that computes one thing may be given at
all: any sequence of headers, any memory, any word. `Inputs[p]` is the part of it
that `Init` chooses from, and `InputsAssumption` says it is a part. The run gives it
the sets of `SmallInputs`; a theorem holds for whatever `Inputs` is, up to all of
`Given`. The streams of tokens of `MetaVars` are given by the depth of their groups,
`Levels[d]` for `d` up to `Nesting`; `SmallLevels` has groups of up to three tokens
one deep, of four tokens, two of them identifiers.

Why the bounds are enough to see the interesting cases: four threads and two
tasks let two be refused while the others are live or going. Three callers are a
starter, one that joins it and one that comes late or is dropped; two start-ups
are a failure and its retry, or a runner that ends and its successor; the
theorems hold for any numbers. Two tasks on one core and a third on another give
both kinds of contention. Two notifiers and two waiters are the least that
interleave swaps and subtractions of both kinds; three waits let a waiter come
again. Three inserts are one that is read, one that reads it and one that comes
between. Two connections are one handler that ends and one that does not, and
two cases are enough for something to be left over. `MaxStarts`, `MaxWaits`,
`MaxErrors`, `MaxInserts` and `MaxTime` bound counters in the guards of
`Reserve`, `WaitMs`, `WaitError`, `Call` and `Tick` and stand for nothing in the
code.

`TypeOK` of `TaskControlPlane` and of `DProxyFactory` is proved (`TypeHolds`) and
not checked again by a run.

Deadlock is checked in `threads`, for the task control plane and the spin mutex,
where nothing ever has to stop; the handshake and the harness come to an end, which
is the disjunct `MayStop` of its `Next`. It is switched off elsewhere: bounds run
out, programs return, or a dropped starter leaves its waiters.

### Fairness

- `DProxyFactory`: the executor polls callers that can go on; the mutex is held
  for no await; a spin-up ends. Nothing makes a runner end, a caller call again,
  or a future be dropped.
- `SpinMutex`: a core goes on executing its task, and the closure returns. The
  kernel need not dispatch any given task, and a swap may lose any number of
  times, so only *some* task is shown to enter.
- `HandshakeContext`: goroutines that can run do; reading from a closed
  connection fails. The peer need not answer.
- `PocHarness`: main goes on when it can; a process sent SIGKILL ends; a
  connection reaches its end when its process has ended. A live httpd need not
  listen, obey SIGTERM or close anything.
- `MCThreads`: the conjunction of the fairness of the three above. The harness's main
  could go on in a behaviour that is not its own, so its conjunct says `program =
  "harness"`.
- `MCSuite`: the scheduler runs each thread of a program, and time passes. The
  kernel delivers a signal that is pending, but need not deliver it to a thread
  in `read()`; no root and no early client is assumed.

All of it is weak fairness.

### Counterexamples

1. **`dproxy_lost_wakeup`.** A caller clones the `Notify` and releases the lock;
   the starter publishes and calls `notify_waiters()`, which stores nothing; the
   caller then calls `notified()`, and nobody will wake it. 015.md line 41:
   "Other concurrent callers join that startup and reuse its result."
2. **`condvar_drop_after_error`.** `wait_ms` raises `counter`; its message
   fails; it locks the mutex and panics as 112 has it, and `counter` stays
   raised, so the assertion of `drop`, `remaining_count == timed_out` in 111, is
   false when nobody waits.
3. **`handshake_late_close`.** The callback loads the flag, the handshake
   completes, the callback closes. 005.md line 39: "After the handshake
   finishes, cancellation cleanup must not close the connection". What does hold
   is `LateCancelHarmless`: only a context cancelled *before* completion closes.
4. **`harness_scgi_hang`.** The SCGI handler of case 116 reads in a loop that
   does not look for the end of its input (lines 922-923), and
   `server_close()` joins it; a case that has raised "SCGI backend did not receive
   request" (line 963) never gets to its `[FAIL]`.
5. **`exponent_panics`.** The header of 045 says that an exponent above `u32::MAX`
   panics under overflow checks. The product saturates, and a last digit of 0 adds
   nothing to it: 4294967300 is such a number, or 70 with the run's words of 64
   values. What does hold is in `ArithmeticExact`: some exponents panic, none that
   fits does, and the fixed form never does.
6. **`widening_differs`.** The last assertion of 182 (line 28) is that its two
   widenings of -1, -1, 0 and 0 differ, and its header says that one gives wrong
   bits. They agree, as `as u128` extends the sign and both products wrap alike; the
   theorem `Widens` shows it for all operands and words.
7. **`wasm_cached`.** 011.md says on lines 40 and 50 that the patch caches
   executables of the kind `Executable::Wasm` too. Lines 66-69 of the patch cache
   packages only: a caller is given a module, and the name still has no entry.
   `BinaryShared` is therefore about packages.

### What else the models show

These are no counterexamples: the properties above state them, and they hold.

- `pushpin/poc/001`: "race did not reproduce on this run" cannot be printed to any
  user but root; a client that is late makes `accept()` wait for ever instead.
- `rust-stdlib/pocs` 041: the leak it prints is the same with one thread: it comes
  from `accept` and not from the lost store.
- 123: the branch "read returned EOF" cannot be reached, as `main()` holds the
  write end; and a signal that is handled early leaves the read without an end.
  30 is the number of `SIGUSR1` on macOS, on Linux it is another signal's.
- 025: the process exits with 0 whichever way its verdict goes; a table of
  descriptors that is full shows as a panic.
- 045: without overflow checks it also calls small exponents "triggered". 105 panics
  on every `i64` below the negative of the largest `i32`, with checks or without.
  044's slice can only be reached with a size that 043 does not round to 0.
- 061's fix leaves a block with `malloc` after it was made smaller than its
  alignment; 102's does not. Neither misuses a block.
- 005: the patched iterator yields nothing for a path whose first node is too
  short, where its header comment speaks of one. 143 and 144 add the zone 2047, which
  means "unspecified", as if it were an offset, and take days that do not exist as
  those of the next month.
- `lol-html`: a progress line counts one write less than was made.
- `openbsd-libexec/004`: `fclose`, which writes the number, is not looked at, and a
  process that is killed or whose write fails after `ftruncate` leaves the file
  empty: every counter is then accepted again. `CounterKept` excludes just that.
- `wasmer-wasix/011`: if another caller has stored that the name is missing by the
  time a module is loaded, the caller that loaded it is given nothing.

## Proofs

All theorems are checked by TLAPS for every value of the constants that their
assumptions allow. Each safety theorem is proved from an inductive invariant:
`Init` implies it, every action keeps it (one step per action), it implies the
property.

- **`ThreadsProofs`**: the invariants of `threads`, for all values of its constants
  that its assumptions allow. The step of one program leaves the variables of the
  others alone, so each has its own invariant.
  - `TaskLimitHolds`, `CountExactHolds` (`TaskLimit`, `CountExact`), for any finite
    `Threads` and natural `MaxTasks`. `TaskLimit` is not inductive: two threads may have
    passed `fetch_add` and both be about to be admitted. The invariant adds
    `CountExact` and `AdmittedBounded`, which also counts threads that will be admitted
    when they test. The cardinality lemmas come first.
  - `Exclusion`, `HolderRuns`, `LockWord` (`MutualExclusion`, `NeverPreempted`,
    `LockWordExact`) and the action property `Restores` (`DispatchRestored`), for any
    binding of tasks to cores. `SenseFresh` is the addition: what `sns_dsp()` said is
    still true when the task acts on it, because only the running task changes it.
  - `ResultsAgree`, `LateCancelClosesNothing`, `HandshakeOnce` (`ResultAgrees`,
    `LateCancelHarmless`, `OneHandshake`). `Decided` says that the answer is fixed before
    the mutex is given back, `Callbacks` that a callback about to close belongs to an
    early cancellation, `Holds` who has the mutex.
  - `NothingLeftRunning`, `PassIsClean`, `HandlersAreJoined` (`LeftoverIsKilled`,
    `PassMeansReaped`, `NoHandlerLeft`). `ProcInv` says at which places of main a
    process may be alive without SIGKILL, `ReapedInv` and `VerdictInv` carry that on to
    the verdicts.
- **`DProxyFactoryProofs`** (`OneRunner`, `ReservationIsKept`, `RunnerIsShared`,
  `CleanupIsOwn`). The strengthening says that a live runner is cached or
  reserved under its shard (`Tracked`), that a shard has never both
  (`OwnEntries`), that starters have distinct reservations (`Starters`), that
  unused numbers name nothing (`Fresh`), and that what has been returned is no
  longer being started (`Published`). The action property follows from the same
  invariant.
- **`XousCondvarProofs`** (`Types`, `Accounting`, `NothingSaturated`,
  `GuardedMutex`, `Reached`), for any finite sets of waiters and notifiers.
  `Conservation` sums over the notifiers; the lemmas in front say what a sum
  becomes when one of its numbers changes (`Total` is a fold, and the proof gives
  it an equation of its own, see below). `NotifierInv` says which of a notifier's
  steps have something taken out and that it never asks the server for more than it
  may subtract, `MutexInv` that the guard goes with the mutex both ways, and
  `WitnessInv` what is left of the waiters that were there when a call began. With
  `Conservation` this gives `NothingSaturates`: no `saturating_sub` of 111 ever
  saturates. `Reached` is an action property from the same invariant.
- **`KvStoreProofs`** (`NotStale`, `Refinement`). `Refinement` goes step by step:
  `Examine` is the instant of the abstract insert; `Call`, `Return`, `Lookup` and
  `Tick` map to themselves; `Lock`, `Insert` and `Unlock` are stutters. It needs
  `LockInv` (one writer is between `Lock` and `Unlock`), `FreshInv` (the object it
  read is still stored), which alone is `NotStale`, and `DatedInv`: every expiry can
  be held against the clock, so that the mapping and `lookup` drop the same objects.
- **`SuiteProofs`**: the twelve invariants of `suite`, for all values of its
  constants that its assumptions allow, each with its own invariant or, where a
  program has no step, for every input that it may be given (`InputsKept`: an input
  stays the one that was chosen).
  - `NoncesNeverReused` (`NoncesDistinct`). `NumberInv` ties the number under the
    mutex to the numbers handed out, `PlaceInv` the mutex to its holder, and
    `NonceInv` says of each number that it was sealed with, is held by one
    goroutine, or was not handed out. Without `NumberInv` the counter could be
    behind, and the property would not be inductive.
  - `CountersRise` (`CounterKept`). `FlockInv`: who is at the file has its lock;
    `OrderInv` also orders the counter of a login that is under way: above all that
    were accepted from its comparison on.
  - `ResourcesHaveOwners` (`ResourcesOwned`). `ResourceInv` says that the table of
    descriptors is injective, `TrapInv` that one drop at most has failed; the
    property's cardinalities follow.
  - `PackageShared` (`BinaryShared`): `EntryInv` says what an entry and a load
    can be, and the property is nearly inductive with it.
  - `SocketVerdictsHold` (`SocketVerdicts`). `ModeInv` ties the mode to the place
    of `main()`, `MadeInv` says under which modes a connection can have been made,
    `BacklogInv` that until the late attempt the backlog has only the client's
    connection, `ServerInv` and `AttemptInv` carry that on to the verdict.
  - `WaitVerdictsHold` (`WaitVerdicts`). `HoldingInv`: while `main()` holds the
    mutex it met, the waiter stays in its loop, and its stopwatch and what is left
    of the hold make up the whole of it.
  - `ThreadVerdictsHold` (`ThreadVerdicts`), for any finite set of accepting
    threads. `CountInv` counts: `LIVE_FDS` is one, plus the threads with an open
    stream, plus every listener rebound. `HandedInv` says that a number about to be
    stored is nobody else's. `ReadInv` and `InheritInv` follow the other two programs.
  - `DescriptorsAreKept` (`DescriptorsKept`), for tables of any size with any
    descriptors inherited. `SpawnInv`, `RestoreInv` and `ScanInv` count the
    descriptors that each step of 025, 026 and 122 has added, with the case in which
    the table is full; that the kernel gives the lowest one is what 122 depends on.
    `LedgerInv` says which owners are left at each step of the other four.
  - `LengthsHold` (`LengthsSound`) is about functions of the input: a lemma for
    each reproducer, and `Division`, `Remainder` and `RemainderOnceMore` for what wraps.
  - `AllocatorsAlwaysMatch` (`AllocatorsMatch`), for blocks of any size and any
    sequence of `realloc`. `ReallocsWalk` and `BlockWalk` turn the recursion over the
    calls into a walk with a block before and after each call; `Kept061`, `Kept102`
    and `MisusedBefore` are inductions along it.
  - `ArithmeticHolds` (`ArithmeticExact`), for words of any width and all years that
    the code accepts. `Quotients`, `SameRemainder` and `Multiples` say what division
    does at the ends of a period, `SignedIs` and `SignedFits` what a word with a sign
    holds; on them rest a lemma for each of `Words`' reproducers (`Stack`, `Advance`,
    `Exponent`, `Lanes`, `Cached`, `Negates`). `Exponent` walks along the digits with
    the number read so far in both programs; `Widens` is 182. For the calendar,
    `MonthsFollow`, `NextYear` and `DayAfter` say that the day number goes up by one
    from each day to the next, also over the ends of months and years; `LastMinute`
    carries that on to the clock.
  - `LoopsHold` (`LoopsExact`) has one lemma per loop.
    - `lol-html` has steps, and an invariant: in `RssInv`, `RssCounts` says that
      lines are a whole number of periods apart and that no line is more than a
      period behind the counter.
    - 005: `PatchedEnds` and `BuggyStays` follow the addresses of a path. Patched,
      each is a header beyond the one before, so they stay below the cap; the two
      iterators agree up to the first node that is too short. Unpatched, they rise too
      unless a node has length 0, where they stay up to the cap.
    - 020: `TreeLeft` and `DotsAreLeft` go by levels of depth: at each, what the
      fixed traversal logs is what the other logs without the dot entries, and has no
      dot entry in it; with dot entries alone the other exhausts the depth.
    - 012: `LastLengthWins` looks for the last `Content-Length`, by its distance from
      the end, and goes on from there.
    - 065: `AnyRuns` is about a function that recurses over streams *and* into their
      groups. `GatherAllExists` builds it in rounds, of which a depth needs one
      more than the depth before; `GatherAllUnique` shows that there is no other;
      `GatherAllJoined` that a run of "$" collects what is behind it.
    - 162 and 063: `FirstSome` and `Gated` need no more than the equations of their
      loops, and what is in the sets.

Recursion. The library's induction theorems take a predicate as a parameter and cannot
be used. `SetInduction`, `Upwards` and `LowestIs` here take a *set* of numbers, and
can. A loop over a sequence is a recursive function in the modules, which is a
`CHOOSE` of a function that satisfies its equation: a proof has to show first that
there is one. `WalkExists` does that for any loop whose step stays in a set, and gives
a walk: the values before and after each place. Each loop has a lemma that its
equation is a walk's (`BlocksExist`, `BothExist`, `RoundsExist`, `PathWalkExists`) and
inductions along the walk. The one fold left is `Total` in `XousCondvarProofs`, over
a set; its proof gives it an equation of its own in the same way.

What the proofs changed in the models. A formula that has to be proved for all inputs
is read more closely than one that TLC evaluates on some:

- `OneHeader` of 012 had cases that overlapped, and took the first where `CASE` may
  take any; its cases now exclude each other.
- `AnyRunCollects` of 065 said "odd" and "even" by listing numbers up to 5, and so
  said nothing of longer runs.
- Sizes of words, pages and nesting were numbers in the text of `Words` and
  `MetaVars`. They are constants now, and what is assumed of them is written down.
- Folds over sequences became recursive functions, and the steps of the loops of
  005, 020 and 065 operators of their own, which the proofs can name.

Assumptions, and why the code justifies them. `CondvarAssumption`: finitely many
threads, and nobody is called as the one that is not there; 111 tries at least once
(`NotifyTries` is a positive literal). `KvAssumption`: an absent value is none of the
numbers. `ThreadsAssumption`: finitely many threads and a natural maximum; each task is
bound to a core; nobody is called as a caller is not; a kind of handlers is one of the
three. `SuiteAssumption`: the same for processes and threads; stopwatches reach as far
as what 067 compares them with; a sequence number has some value.
`DescriptorsAssumption`: descriptors 0 to 2 exist, since every one of these programs
starts with them, and 122 scans descriptors of the table. `LengthsAssumption`: a word
holds a header and what the reproducers call huge (2^32 and more in 2^64), a handle is
not empty, and the length of a string is kept modulo an even number (2^16).
`LoopsAssumption`: the programs that print now and then do so after a positive number of
rounds; a header of 005 is not empty, and the cap on its nodes is beyond its memory
(`main()` passes 1,000,000 for a path of one node); "target" is a name.
`WordsAssumption`: a word has a sign and is of whole pages, four or more (2^64 and
4096). `StreamsAssumption`: a group of a stream is a stream of the depth before, as
tokens are nested finitely deep. `InputsAssumption`: inputs are of the types the
functions take; years are 1900 to 9999, all that 143 and 144 accept. TLC evaluates all
of them in the passing runs.

Only model-checked:

- `SubscriberWakes`, `SomeoneEnters`, `CancelReturns`, `MainEnds` and `ThreadsEnd`:
  liveness is out of the prover's reach.
- The violated properties of the counterexamples. That `WideningDiffers` is false is the
  theorem `Widens`.

## Limits

- The model of a patch is no model of the program around it. What a hunk does
  not show is external and named so.
- `XousCondvar` and `TaskControlPlane` treat atomics as sequentially consistent.
  The orders of 111 are relaxed; its counters are read and written by
  read-modify-write operations, whose order on one location is total, but an
  order across the two is not promised by the code.
- `KvStore` has no metadata and no poisoned lock; generations never collide.
- A dropped starter leaves its reservation for ever, and a runner that ends
  before it is published is cached dead. The model of the factory has both
  steps; nothing in the repository says what should happen, so no property does.
- An interrupt in `wait_port` is no `Exception` and leaves httpd running; the
  harness ends as well, so it is not modelled.
- `SealNonce` is bounded by as many calls as there are numbers under 008, which
  has no limit of its own (2^64 in the code).
- `CounterFile` has one user and reads an empty file as 0, as the code does.
- The suite does not compose its programs: they never run together.

## Not modelled

- **The rest of `rust-stdlib/pocs`** (002, 003, 007, 029, 047 to 050, 060, 068 to
  071, 093, 098, 103, 108, 142, 161, 163, 181, 183, 184): one call that aborts,
  panics or touches memory, or two constants compared. Nothing in them changes or
  is decided.
- **Patches that are one test or one bound**: most of the corpus. The state they
  guard, and whoever changes it, is not in the repository; a model of it would be
  made up. That holds for those that look like state as well: `tigerbeetle/010`
  (when a slot becomes free again), `wasmtime-wasi/004` (who else sees a socket
  that connects), `h2o/011` (when the targets are freed), `zlib/001` (whose lock is
  abandoned), `openbsd-bin/109` (what else raises the quota), `viceroy/008`, `010`,
  `011` and `014`, `go/crypto/027`, `032`, `033`, `044`, and 113 of `rust-stdlib`,
  which conflicts with 111.
- **The audited programs.**

## Plan

1. *Done*: the seven components with modules of their own, `KvAtomic` as abstract
   specification, the programs and operations of the suite, and the theorems above.
2. *Done*: the theorems about `XousCondvar`, the refinement of `KvStore`, and all
   invariants of the suite, so that every invariant of a passing run is a theorem.
3. Abstract specifications for the suite's operations: a source of distinct nonces
   that `SealNonce` implements, a monotonic counter that `CounterFile` implements, a
   cache of one entry that `BinFactory` and `DProxyFactory` share.
4. Components of *Not modelled*, once the code around their hunks is here.
