----------------------------- MODULE SpinMutex -----------------------------
(***************************************************************************)
(* ITRON's SpinMutex::with_locked as patched by rust-stdlib/107.  Tasks of *)
(* one core are kept apart by disabling dispatching on it, tasks of        *)
(* different cores by an atomic spin lock.  A caller may itself have       *)
(* disabled dispatching; with_locked then leaves it disabled, and takes    *)
(* the spin lock all the same.                                             *)
(***************************************************************************)
CONSTANTS
    Tasks,   \* the tasks that use the mutex
    Cores,   \* the processor cores
    core     \* the core each task is bound to

\* Every task is bound to a core.
CoreAssumption == core \in [Tasks -> Cores]

VARIABLES
    running,      \* the task each core executes
    dispatching,  \* whether each core may switch to another task
    locked,       \* SpinMutex.locked
    pc,           \* where each task is in with_locked
    dsp_enabled   \* what each task's sns_dsp() said

vars == <<running, dispatching, locked, pc, dsp_enabled>>

Outside == "outside"    \* not in with_locked
Sensed == "sensed"      \* sns_dsp() read
Spinning == "spinning"  \* in the loop on locked.swap
Inside == "inside"      \* the closure has its &mut T
Released == "released"  \* locked is stored, dispatching not yet restored

TypeOK ==
    /\ running \in [Cores -> Tasks]
    /\ \A t \in Tasks : core[running[core[t]]] = core[t]
    /\ dispatching \in [Cores -> BOOLEAN]
    /\ locked \in BOOLEAN
    /\ pc \in [Tasks -> {Outside, Sensed, Spinning, Inside, Released}]
    /\ dsp_enabled \in [Tasks -> BOOLEAN]

\* Each core executes one of its tasks.
Started == {r \in [Cores -> Tasks] : \A t \in Tasks : core[r[core[t]]] = core[t]}

Init ==
    /\ running \in Started
    /\ dispatching = [k \in Cores |-> TRUE]
    /\ locked = FALSE
    /\ pc = [t \in Tasks |-> Outside]
    /\ dsp_enabled = [t \in Tasks |-> FALSE]

OnCpu(t) == running[core[t]] = t

\* The kernel switches a core whose dispatching is enabled to another task.
Dispatch(t) ==
    /\ dispatching[core[t]]
    /\ ~OnCpu(t)
    /\ running' = [running EXCEPT ![core[t]] = t]
    /\ UNCHANGED <<dispatching, locked, pc, dsp_enabled>>

\* A task outside with_locked disables or enables dispatching for itself.
CallerSwitches(t) ==
    /\ OnCpu(t)
    /\ pc[t] = Outside
    /\ dispatching' = [dispatching EXCEPT ![core[t]] = ~@]
    /\ UNCHANGED <<running, locked, pc, dsp_enabled>>

\* let dsp_enabled = sns_dsp() == 0
Sense(t) ==
    /\ OnCpu(t)
    /\ pc[t] = Outside
    /\ dsp_enabled' = [dsp_enabled EXCEPT ![t] = dispatching[core[t]]]
    /\ pc' = [pc EXCEPT ![t] = Sensed]
    /\ UNCHANGED <<running, dispatching, locked>>

\* Mutant: before the patch a caller with dispatching disabled went on without
\* the spin lock.

DisableOrBypass(t) ==
    /\ OnCpu(t)
    /\ pc[t] = Sensed
    /\ dispatching' = [dispatching EXCEPT ![core[t]] = FALSE]
    /\ pc' = [pc EXCEPT ![t] = IF dsp_enabled[t] THEN Spinning ELSE Inside]
    /\ UNCHANGED <<running, locked, dsp_enabled>>

\* Mutant: the spin lock alone, dispatching left as it is.
SpinOnly(t) ==
    /\ OnCpu(t)
    /\ pc[t] = Sensed
    /\ pc' = [pc EXCEPT ![t] = Spinning]
    /\ UNCHANGED <<running, dispatching, locked, dsp_enabled>>

\* if dsp_enabled { dis_dsp() }
Disable(t) ==
    /\ OnCpu(t)
    /\ pc[t] = Sensed
    /\ IF dsp_enabled[t]
       THEN dispatching' = [dispatching EXCEPT ![core[t]] = FALSE]
       ELSE UNCHANGED dispatching
    /\ pc' = [pc EXCEPT ![t] = Spinning]
    /\ UNCHANGED <<running, locked, dsp_enabled>>

\* The swap that finds the lock free; one that does not changes nothing.
Swap(t) ==
    /\ OnCpu(t)
    /\ pc[t] = Spinning
    /\ ~locked
    /\ locked' = TRUE
    /\ pc' = [pc EXCEPT ![t] = Inside]
    /\ UNCHANGED <<running, dispatching, dsp_enabled>>

\* Mutant: dispatching is enabled again while the lock is still held.
EnableFirst(t) ==
    /\ OnCpu(t)
    /\ pc[t] = Inside
    /\ dispatching' = [dispatching EXCEPT ![core[t]] = dsp_enabled[t]]
    /\ pc' = [pc EXCEPT ![t] = Released]
    /\ UNCHANGED <<running, locked, dsp_enabled>>

\* The closure returned or unwound: the guard's drop stores false.
Release(t) ==
    /\ OnCpu(t)
    /\ pc[t] = Inside
    /\ locked' = FALSE
    /\ pc' = [pc EXCEPT ![t] = Released]
    /\ UNCHANGED <<running, dispatching, dsp_enabled>>

\* Mutant: the drop before the patch, which enables dispatching always.
RestoreAlways(t) ==
    /\ OnCpu(t)
    /\ pc[t] = Released
    /\ dispatching' = [dispatching EXCEPT ![core[t]] = TRUE]
    /\ pc' = [pc EXCEPT ![t] = Outside]
    /\ UNCHANGED <<running, locked, dsp_enabled>>

\* if self.1 { ena_dsp() }
Restore(t) ==
    /\ OnCpu(t)
    /\ pc[t] = Released
    /\ IF dsp_enabled[t]
       THEN dispatching' = [dispatching EXCEPT ![core[t]] = TRUE]
       ELSE UNCHANGED dispatching
    /\ pc' = [pc EXCEPT ![t] = Outside]
    /\ UNCHANGED <<running, locked, dsp_enabled>>

Next ==
    \E t \in Tasks :
        \/ Dispatch(t) \/ CallerSwitches(t)
        \/ Sense(t) \/ Disable(t) \/ Swap(t) \/ Release(t) \/ Restore(t)

\* A core goes on executing the task it runs, and the closure returns.  The
\* kernel need not ever switch to a given task, and a swap may lose any number
\* of times to those of other cores.
Fairness ==
    /\ WF_vars(\E t \in Tasks : Swap(t))
    /\ \A t \in Tasks : WF_vars(Disable(t)) /\ WF_vars(Release(t)) /\ WF_vars(Restore(t))

Spec == Init /\ [][Next]_vars
FairSpec == Spec /\ Fairness

-----------------------------------------------------------------------------
\* &mut T is exclusive: two tasks are never both in the closure, on one core or
\* on two, whatever dispatching was when they called.
MutualExclusion == \A t, u \in Tasks : pc[t] = Inside /\ pc[u] = Inside => t = u

\* A task that spins on the lock or holds it cannot be switched away from: a
\* preempted holder would leave the other tasks of its core spinning for ever.
NeverPreempted ==
    \A t \in Tasks : pc[t] \in {Spinning, Inside, Released} => OnCpu(t) /\ ~dispatching[core[t]]

\* The lock word says whether a task is in the closure.
LockWordExact == locked <=> \E t \in Tasks : pc[t] = Inside

\* with_locked gives dispatching back as it found it: no step of it ends with
\* the caller's own dis_dsp() undone, or dispatching left off.
DispatchRestored ==
    [][\A t \in Tasks : pc[t] = Released /\ pc'[t] = Outside
                        => dispatching'[core[t]] = dsp_enabled[t]]_vars

\* While a task spins, some task enters: the mutex is free of deadlock.
SomeoneEnters == (\E t \in Tasks : pc[t] = Spinning) ~> (\E t \in Tasks : pc[t] = Inside)
=============================================================================
