----------------------------- MODULE MCThreads -----------------------------
(***************************************************************************)
(* Four systems of threads side by side: the limit of wasmer-wasix/045     *)
(* (control), the mutex of rust-stdlib/107 (spin), the TLS handshake of    *)
(* go/crypto/005 (handshake) and the harness of the apache-httpd           *)
(* reproducers (harness).  A behaviour is one of them, from its start.     *)
(***************************************************************************)
EXTENDS Integers, FiniteSets, TLC

CONSTANTS
    Threads, MaxTasks,          \* of TaskControlPlane
    Tasks, Cores, core,         \* of SpinMutex
    Callers,                    \* of HandshakeContext
    Cases, Conns, Handlers,     \* of PocHarness
    a1, a2, b1, coreA, coreB    \* the tasks and cores of threads.cfg

VARIABLES
    program,  \* which one runs
    task_count, thread, count,
    running, dispatching, locked, task, dsp_enabled,
    isHandshakeComplete, handshakeErr, closed, handshakeMutex, goroutine, ret, cancelled,
    callback, early,
    main, todo, case, backend, failed, proc, killed, reaped, serving, handler, verdict, failures

Control == INSTANCE TaskControlPlane WITH pc <- thread
Spin == INSTANCE SpinMutex WITH pc <- task
Handshake == INSTANCE HandshakeContext WITH pc <- goroutine
Harness == INSTANCE PocHarness WITH pc <- main

\* What each of the four assumes of its constants.
ASSUME ThreadsAssumption ==
    /\ Control!ControlPlaneAssumption
    /\ Spin!CoreAssumption
    /\ Handshake!NobodyAssumption
    /\ Harness!HandlersAssumption

controlVars == <<task_count, thread, count>>
spinVars == <<running, dispatching, locked, task, dsp_enabled>>
handshakeVars == <<isHandshakeComplete, handshakeErr, closed, handshakeMutex, goroutine, ret,
                   cancelled, callback, early>>
harnessVars == <<main, todo, case, backend, failed, proc, killed, reaped, serving, handler,
                 verdict, failures>>
vars == <<program, controlVars, spinVars, handshakeVars, harnessVars>>

-----------------------------------------------------------------------------
\* Of a system that does not run one initial state is enough.
AnyStart == CHOOSE r \in Spin!Started : TRUE
AnyCase == CHOOSE c \in Cases : TRUE

Init ==
    /\ program \in {"control", "spin", "handshake", "harness"}
    /\ Control!Init /\ Spin!Init /\ Handshake!Init /\ Harness!Init
    /\ program # "spin" => running = AnyStart
    /\ program # "harness" => case = AnyCase

Step ==
    /\ UNCHANGED program
    /\ IF program = "control" THEN Control!Next ELSE UNCHANGED controlVars
    /\ IF program = "spin" THEN Spin!Next ELSE UNCHANGED spinVars
    /\ IF program = "handshake" THEN Handshake!Next ELSE UNCHANGED handshakeVars
    /\ IF program = "harness" THEN Harness!Next ELSE UNCHANGED harnessVars

\* The handshake and the harness come to an end; the other two may not stop.
MayStop == program \in {"handshake", "harness"} /\ UNCHANGED vars

Next == Step \/ MayStop

\* The fairness of each; of the harness main alone has something to do when
\* another of the four runs.
Fairness ==
    /\ Spin!Fairness
    /\ Handshake!Fairness
    /\ WF_harnessVars(program = "harness" /\ Harness!Main)
    /\ Harness!ChildrenEnd

Spec == Init /\ [][Next]_vars /\ Fairness

-----------------------------------------------------------------------------
\* The constants of threads.cfg: two tasks on the first core and one on the
\* second, and cases of every kind.
MCTasks == {a1, a2, b1}
MCCores == {coreA, coreB}
MCcore == a1 :> coreA @@ a2 :> coreA @@ b1 :> coreB
AllHandlers == {"plain", "until_eof", "header_first"}

-----------------------------------------------------------------------------
\* register_task never lets more live guards be than max_task_count, whatever
\* comes between a fetch_add and the test of its result.
TaskLimit == Control!TaskLimit

\* task_count is the number of registrations not yet undone, refused ones too.
CountExact == Control!CountExact

\* with_locked gives out one &mut T at a time, on one core or on two.
MutualExclusion == Spin!MutualExclusion

\* A task that spins on the lock or holds it is not switched away from.
NeverPreempted == Spin!NeverPreempted

\* The lock word says whether a task is in the closure.
LockWordExact == Spin!LockWordExact

\* with_locked gives dispatching back as it found it.
DispatchRestored == Spin!DispatchRestored

\* While a task spins, some task enters.
SomeoneEnters == Spin!SomeoneEnters

\* HandshakeContext returns nil only if the handshake is complete, and an error
\* only if it failed, however late the context is cancelled.
ResultAgrees == Handshake!ResultAgrees

\* A context cancelled after the handshake completed closes nothing.
LateCancelHarmless == Handshake!LateCancelHarmless

\* One caller at most runs handshakeFn, which fails or completes once for all.
OneHandshake == Handshake!OneHandshake

\* A caller whose context is cancelled returns, though the peer never answers.
CancelReturns == Handshake!CancelReturns

\* No httpd outlives its case without a SIGKILL pending.
LeftoverIsKilled == Harness!LeftoverIsKilled

\* [PASS] is printed only for a case whose httpd was reaped, and main returns 0
\* only if it was printed for all.
PassMeansReaped == Harness!PassMeansReaped

\* A handler that main no longer waits for does not go on into the next case.
NoHandlerLeft == Harness!NoHandlerLeft

\* The harness comes to its end, unless a handler of 116 waits for its header.
MainEnds == program = "harness" => Harness!MainEnds
=============================================================================
