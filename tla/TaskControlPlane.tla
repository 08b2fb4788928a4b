-------------------------- MODULE TaskControlPlane --------------------------
(***************************************************************************)
(* The task limit of the WASIX control plane: register_task() as patched   *)
(* by wasmer-wasix/045.  task_count is one shared atomic; a registration   *)
(* is a fetch_add, a test of the value it returned and, past the limit, a  *)
(* fetch_sub.  The three are separate steps, so registrations and drops of *)
(* other threads fall between them.                                        *)
(***************************************************************************)
EXTENDS Integers, FiniteSets

CONSTANTS
    Threads,   \* callers of register_task, each with at most one guard
    MaxTasks   \* config.max_task_count, configured (Some(max))

\* The threads can be counted, and so can the tasks.
ControlPlaneAssumption ==
    /\ IsFiniteSet(Threads)
    /\ MaxTasks \in Nat

VARIABLES
    task_count,  \* self.state.task_count
    pc,          \* where each thread is in register_task
    count        \* the value fetch_add returned to each thread

vars == <<task_count, pc, count>>

Idle == "idle"        \* no guard, not registering
Counted == "counted"  \* fetch_add done, the limit not yet tested
Live == "live"        \* register_task returned Ok: the thread holds a guard
Refused == "refused"  \* the last register_task returned TaskLimitReached

TypeOK ==
    /\ task_count \in Nat
    /\ pc \in [Threads -> {Idle, Counted, Live, Refused}]
    /\ count \in [Threads -> Int]

Init ==
    /\ task_count = 0
    /\ pc = [t \in Threads |-> Idle]
    /\ count = [t \in Threads |-> 0]

\* let count = task_count.fetch_add(1, SeqCst)
FetchAdd(t) ==
    /\ pc[t] \in {Idle, Refused}
    /\ count' = [count EXCEPT ![t] = task_count]
    /\ task_count' = task_count + 1
    /\ pc' = [pc EXCEPT ![t] = Counted]

\* Mutant: the test before the patch, which lets one task too many in.
AtLimitOffByOne(c) == c > MaxTasks

\* The test of the value read before the increment.
AtLimit(c) == c >= MaxTasks

\* Below the limit: Ok(TaskCountGuard).
Admit(t) ==
    /\ pc[t] = Counted
    /\ ~AtLimit(count[t])
    /\ pc' = [pc EXCEPT ![t] = Live]
    /\ UNCHANGED <<task_count, count>>

\* Mutant: the refused registration keeps its increment.
RefuseKeepsCount(t) ==
    /\ pc[t] = Counted
    /\ AtLimit(count[t])
    /\ pc' = [pc EXCEPT ![t] = Refused]
    /\ UNCHANGED <<task_count, count>>

\* At the limit: fetch_sub(1) and Err(TaskLimitReached).
Refuse(t) ==
    /\ pc[t] = Counted
    /\ AtLimit(count[t])
    /\ task_count' = task_count - 1
    /\ pc' = [pc EXCEPT ![t] = Refused]
    /\ UNCHANGED count

\* The thread is torn down and its guard gives the count back.
DropGuard(t) ==
    /\ pc[t] = Live
    /\ task_count' = task_count - 1
    /\ pc' = [pc EXCEPT ![t] = Idle]
    /\ UNCHANGED count

Next ==
    \E t \in Threads : FetchAdd(t) \/ Admit(t) \/ Refuse(t) \/ DropGuard(t)

Spec == Init /\ [][Next]_vars

-----------------------------------------------------------------------------
Holders == {t \in Threads : pc[t] = Live}

\* The threads that raised task_count and have not lowered it again.
Registered == {t \in Threads : pc[t] \in {Counted, Live}}

\* Never more live guards than the configured maximum, whatever registrations
\* and drops come between a fetch_add and the test of its result.
TaskLimit == Cardinality(Holders) <= MaxTasks

\* task_count is exactly the number of registrations not yet undone: no path,
\* the refused one included, loses or keeps an increment.
CountExact == task_count = Cardinality(Registered)
=============================================================================
