---------------------------- MODULE ThreadsProofs ----------------------------
(***************************************************************************)
(* Proofs about the four systems of MCThreads for all values of their      *)
(* constants: any threads and limit, any tasks on any cores, any callers,  *)
(* and any cases and connections.  Each has an inductive invariant of its  *)
(* own, about its own variables; a step of another of the four keeps it    *)
(* because it changes none of them.                                        *)
(***************************************************************************)
EXTENDS MCThreads, FiniteSetTheorems, TLAPS

\* A step of the four is for each of them one of its own or none.
LEMMA Parts ==
    [Next]_vars =>
        /\ [Control!Next]_(Control!vars)
        /\ [Spin!Next]_(Spin!vars)
        /\ [Handshake!Next]_(Handshake!vars)
        /\ [Harness!Next]_(Harness!vars)
<1> USE DEF vars, controlVars, spinVars, handshakeVars, harnessVars, Control!vars,
       Spin!vars, Handshake!vars, Handshake!callerVars, Handshake!contextVars,
       Harness!vars, Harness!caseVars, Harness!procVars, Harness!serverVars,
       Harness!outcomeVars
<1>1. ASSUME Step
      PROVE  /\ [Control!Next]_(Control!vars)
             /\ [Spin!Next]_(Spin!vars)
             /\ [Handshake!Next]_(Handshake!vars)
             /\ [Harness!Next]_(Harness!vars)
  BY <1>1 DEF Step
<1>2. ASSUME UNCHANGED vars
      PROVE  /\ UNCHANGED Control!vars
             /\ UNCHANGED Spin!vars
             /\ UNCHANGED Handshake!vars
             /\ UNCHANGED Harness!vars
  BY <1>2
<1> QED
  BY <1>1, <1>2 DEF Next, MayStop

-----------------------------------------------------------------------------
(***************************************************************************)
(* The task limit.                                                         *)
(***************************************************************************)

\* What TaskControlPlane assumes.
LEMMA ControlConstants == IsFiniteSet(Threads) /\ MaxTasks \in Nat
  BY ThreadsAssumption DEF Control!ControlPlaneAssumption, Control!IsFiniteSet, IsFiniteSet

\* An instance has its own Cardinality, with the same definition.
LEMMA SameSize == \A S : Control!Cardinality(S) = Cardinality(S)
  BY DEF Control!Cardinality, Cardinality

USE DEF Control!Idle, Control!Counted, Control!Live, Control!Refused

\* A set of threads is finite and its size a natural number; so are sets that
\* differ from it by one thread, whose sizes differ by one.
LEMMA SubsetSize ==
    ASSUME NEW S \in SUBSET Threads
    PROVE  /\ IsFiniteSet(S)
           /\ Cardinality(S) \in Nat
           /\ \A t \in Threads \ S : Cardinality(S \cup {t}) = Cardinality(S) + 1
           /\ \A t \in S : Cardinality(S \ {t}) = Cardinality(S) - 1
  BY ControlConstants, FS_Subset, FS_CardinalityType, FS_AddElement, FS_RemoveElement

\* A smaller set of threads has the smaller size.
LEMMA SubsetMonotone ==
    ASSUME NEW T \in SUBSET Threads, NEW S \in SUBSET T
    PROVE  Cardinality(S) <= Cardinality(T)
  BY ControlConstants, FS_Subset

\* task_count is the number of registered threads.
Exact == task_count = Cardinality(Control!Registered)

\* Registered threads that hold a guard or are bound to be given one.
Admitted ==
    {t \in Threads :
        \/ thread[t] = Control!Live
        \/ thread[t] = Control!Counted /\ ~Control!AtLimit(count[t])}

\* The limit counts a thread from its fetch_add on, so it holds of the threads
\* that will be admitted as well as of those that were.
AdmittedBounded == Cardinality(Admitted) <= MaxTasks

ControlInv == Control!TypeOK /\ Exact /\ AdmittedBounded

\* The inductive step, action by action.
LEMMA ControlStep == ControlInv /\ [Control!Next]_(Control!vars) => ControlInv'
  <1> SUFFICES ASSUME ControlInv, [Control!Next]_(Control!vars) PROVE ControlInv'
    OBVIOUS
  <1> USE DEF ControlInv, Control!TypeOK, Exact, AdmittedBounded
  <1>0. MaxTasks \in Nat
    BY ControlConstants
  <1>1. ASSUME NEW t \in Threads, Control!FetchAdd(t) PROVE ControlInv'
    <2>1. Control!TypeOK'
      BY <1>1 DEF Control!FetchAdd
    <2>2. Control!Registered' = Control!Registered \cup {t} /\ t \notin Control!Registered
      BY <1>1 DEF Control!FetchAdd, Control!Registered
    <2>3. Exact'
      BY <2>2, <1>1, SubsetSize DEF Control!FetchAdd, Control!Registered
    <2>4. CASE Control!AtLimit(task_count)
      <3>1. Admitted' = Admitted
        BY <1>1, <2>4 DEF Control!FetchAdd, Admitted, Control!AtLimit
      <3>2. QED
        BY <2>1, <2>3, <3>1
    <2>5. CASE ~Control!AtLimit(task_count)
      <3>1. Admitted' = Admitted \cup {t} /\ t \notin Admitted
        BY <1>1, <2>5 DEF Control!FetchAdd, Admitted, Control!AtLimit
      <3>2. Cardinality(Admitted) <= Cardinality(Control!Registered)
        BY SubsetMonotone DEF Admitted, Control!Registered
      <3>3. Cardinality(Admitted) < MaxTasks
        BY <3>2, <2>5, <1>0, SubsetSize DEF Control!AtLimit, Admitted, Control!Registered
      <3>4. AdmittedBounded'
        BY <3>1, <3>3, <1>0, SubsetSize DEF Admitted
      <3>5. QED
        BY <2>1, <2>3, <3>4
    <2>6. QED
      BY <2>4, <2>5
  <1>2. ASSUME NEW t \in Threads, Control!Admit(t) PROVE ControlInv'
    <2>1. Control!Registered' = Control!Registered /\ Admitted' = Admitted
      BY <1>2 DEF Control!Admit, Control!Registered, Admitted
    <2>2. QED
      BY <1>2, <2>1 DEF Control!Admit
  <1>3. ASSUME NEW t \in Threads, Control!Refuse(t) PROVE ControlInv'
    <2>1. Control!Registered' = Control!Registered \ {t} /\ t \in Control!Registered
      BY <1>3 DEF Control!Refuse, Control!Registered
    <2>2. Admitted' = Admitted
      BY <1>3 DEF Control!Refuse, Admitted
    <2>3. Exact'
      BY <2>1, <1>3, SubsetSize DEF Control!Refuse, Control!Registered
    <2>4. Cardinality(Control!Registered \ {t}) \in Nat
      BY SubsetSize DEF Control!Registered
    <2>5. QED
      BY <1>3, <2>1, <2>2, <2>3, <2>4 DEF Control!Refuse
  <1>4. ASSUME NEW t \in Threads, Control!DropGuard(t) PROVE ControlInv'
    <2>1. Control!Registered' = Control!Registered \ {t} /\ t \in Control!Registered
      BY <1>4 DEF Control!DropGuard, Control!Registered
    <2>2. Admitted' = Admitted \ {t} /\ t \in Admitted
      BY <1>4 DEF Control!DropGuard, Admitted
    <2>3. Exact'
      BY <2>1, <1>4, SubsetSize DEF Control!DropGuard, Control!Registered
    <2>4. AdmittedBounded'
      BY <2>2, <1>0, SubsetSize DEF Admitted
    <2>5. Cardinality(Control!Registered \ {t}) \in Nat
      BY SubsetSize DEF Control!Registered
    <2>6. QED
      BY <1>4, <2>1, <2>3, <2>4, <2>5 DEF Control!DropGuard
  <1>5. CASE UNCHANGED Control!vars
    BY <1>5 DEF Control!vars, Control!Registered, Admitted
  <1>6. QED
    BY <1>1, <1>2, <1>3, <1>4, <1>5 DEF Control!Next

\* The invariant holds of every behaviour.
LEMMA ControlInvariance == Spec => []ControlInv
  <1>1. Control!Init => ControlInv
    <2> SUFFICES ASSUME Control!Init PROVE ControlInv
      OBVIOUS
    <2>1. Control!Registered = {} /\ Admitted = {}
      BY DEF Control!Init, Control!Registered, Admitted
    <2>2. QED
      BY <2>1, FS_EmptySet, ControlConstants
      DEF Control!Init, ControlInv, Control!TypeOK, Exact, AdmittedBounded
  <1>0. Init => Control!Init
    BY DEF Init
  <1>2. ControlInv /\ [Next]_vars => ControlInv'
    BY ControlStep, Parts
  <1>3. QED
    BY <1>0, <1>1, <1>2, PTL DEF Spec

\* register_task never leaves more live guards than max_task_count.
THEOREM TaskLimitHolds == Spec => []TaskLimit
  <1>1. ControlInv => TaskLimit
    <2> SUFFICES ASSUME ControlInv PROVE TaskLimit
      OBVIOUS
    <2>1. Cardinality(Control!Holders) <= Cardinality(Admitted)
      BY SubsetMonotone DEF Control!Holders, Admitted
    <2>2. QED
      BY <2>1, SubsetSize, ControlConstants, SameSize
      DEF ControlInv, AdmittedBounded, TaskLimit, Control!TaskLimit, Control!Holders, Admitted
  <1>2. QED
    BY <1>1, ControlInvariance, PTL

\* task_count stays the number of registrations in force.
THEOREM CountExactHolds == Spec => []CountExact
  <1>1. ControlInv => CountExact
    BY SameSize DEF ControlInv, Exact, CountExact, Control!CountExact
  <1>2. QED
    BY <1>1, ControlInvariance, PTL

\* The shared count is a natural number: no drop takes it below zero (the
\* fetch_sub of line 12 and that of the guards).
THEOREM TypeHolds == Spec => []Control!TypeOK
  <1>1. ControlInv => Control!TypeOK
    BY DEF ControlInv
  <1>2. QED
    BY <1>1, ControlInvariance, PTL

HIDE DEF Control!Idle, Control!Counted, Control!Live, Control!Refused

-----------------------------------------------------------------------------
(***************************************************************************)
(* The mutex.  Exclusion across cores needs only the lock word.  That a    *)
(* holder is never preempted also needs what sns_dsp() returned to be true *)
(* still when with_locked acts on it.                                      *)
(***************************************************************************)

\* What SpinMutex assumes.
LEMMA SpinConstants == core \in [Tasks -> Cores]
  BY ThreadsAssumption DEF Spin!CoreAssumption

\* Between sns_dsp() and dis_dsp(): a task that read "disabled" still runs with
\* dispatching disabled, and one that read "enabled" runs only with it enabled.
SenseFresh ==
    \A t \in Tasks :
        task[t] = Spin!Sensed =>
            /\ dsp_enabled[t] /\ Spin!OnCpu(t) => dispatching[core[t]]
            /\ ~dsp_enabled[t] => Spin!OnCpu(t) /\ ~dispatching[core[t]]

SpinInv ==
    /\ Spin!TypeOK
    /\ SenseFresh
    /\ Spin!NeverPreempted
    /\ Spin!LockWordExact
    /\ Spin!MutualExclusion

-----------------------------------------------------------------------------
\* The initial state: every core enabled, nobody in with_locked.
LEMMA SpinInit == Spin!Init => SpinInv
BY SpinConstants DEF Spin!Init, Spin!Started, SpinInv, Spin!TypeOK, SenseFresh,
   Spin!NeverPreempted, Spin!LockWordExact, Spin!MutualExclusion, Spin!Outside,
   Spin!Sensed, Spin!Spinning, Spin!Inside, Spin!Released

\* Every step keeps the invariant.
LEMMA SpinStep == SpinInv /\ [Spin!Next]_(Spin!vars) => SpinInv'
<1> SUFFICES ASSUME SpinInv, [Spin!Next]_(Spin!vars) PROVE SpinInv'
  OBVIOUS
<1> USE SpinConstants DEF SpinInv, Spin!OnCpu, Spin!Outside, Spin!Sensed, Spin!Spinning,
                         Spin!Inside, Spin!Released
<1>1. ASSUME NEW t \in Tasks, Spin!Dispatch(t) PROVE SpinInv'
  BY <1>1 DEF Spin!Dispatch, Spin!TypeOK, SenseFresh, Spin!NeverPreempted,
     Spin!LockWordExact, Spin!MutualExclusion
<1>2. ASSUME NEW t \in Tasks, Spin!CallerSwitches(t) PROVE SpinInv'
  <2>1. Spin!TypeOK'
    BY <1>2 DEF Spin!CallerSwitches, Spin!TypeOK
  <2>2. SenseFresh'
    BY <1>2 DEF Spin!CallerSwitches, Spin!TypeOK, SenseFresh, Spin!NeverPreempted
  <2>3. Spin!NeverPreempted'
    BY <1>2 DEF Spin!CallerSwitches, Spin!TypeOK, SenseFresh, Spin!NeverPreempted
  <2>4. Spin!LockWordExact' /\ Spin!MutualExclusion'
    BY <1>2 DEF Spin!CallerSwitches, Spin!TypeOK, Spin!LockWordExact, Spin!MutualExclusion
  <2> QED BY <2>1, <2>2, <2>3, <2>4
<1>3. ASSUME NEW t \in Tasks, Spin!Sense(t) PROVE SpinInv'
  BY <1>3 DEF Spin!Sense, Spin!TypeOK, SenseFresh, Spin!NeverPreempted,
     Spin!LockWordExact, Spin!MutualExclusion
<1>4. ASSUME NEW t \in Tasks, Spin!Disable(t) PROVE SpinInv'
  <2>1. Spin!TypeOK'
    BY <1>4 DEF Spin!Disable, Spin!TypeOK
  <2>2. SenseFresh'
    BY <1>4 DEF Spin!Disable, Spin!TypeOK, SenseFresh, Spin!NeverPreempted
  <2>3. Spin!NeverPreempted'
    BY <1>4 DEF Spin!Disable, Spin!TypeOK, SenseFresh, Spin!NeverPreempted
  <2>4. Spin!LockWordExact' /\ Spin!MutualExclusion'
    BY <1>4 DEF Spin!Disable, Spin!TypeOK, Spin!LockWordExact, Spin!MutualExclusion
  <2> QED BY <2>1, <2>2, <2>3, <2>4
<1>5. ASSUME NEW t \in Tasks, Spin!Swap(t) PROVE SpinInv'
  BY <1>5 DEF Spin!Swap, Spin!TypeOK, SenseFresh, Spin!NeverPreempted, Spin!LockWordExact,
     Spin!MutualExclusion
<1>6. ASSUME NEW t \in Tasks, Spin!Release(t) PROVE SpinInv'
  <2>1. Spin!TypeOK'
    BY <1>6 DEF Spin!Release, Spin!TypeOK
  <2>2. SenseFresh'
    BY <1>6 DEF Spin!Release, Spin!TypeOK, SenseFresh, Spin!NeverPreempted
  <2>3. Spin!NeverPreempted'
    BY <1>6 DEF Spin!Release, Spin!TypeOK, SenseFresh, Spin!NeverPreempted
  <2>4. Spin!LockWordExact' /\ Spin!MutualExclusion'
    BY <1>6 DEF Spin!Release, Spin!TypeOK, Spin!LockWordExact, Spin!MutualExclusion
  <2> QED BY <2>1, <2>2, <2>3, <2>4
<1>7. ASSUME NEW t \in Tasks, Spin!Restore(t) PROVE SpinInv'
  <2>1. Spin!TypeOK'
    BY <1>7 DEF Spin!Restore, Spin!TypeOK
  <2>2. SenseFresh'
    BY <1>7 DEF Spin!Restore, Spin!TypeOK, SenseFresh, Spin!NeverPreempted
  <2>3. Spin!NeverPreempted'
    BY <1>7 DEF Spin!Restore, Spin!TypeOK, SenseFresh, Spin!NeverPreempted
  <2>4. Spin!LockWordExact' /\ Spin!MutualExclusion'
    BY <1>7 DEF Spin!Restore, Spin!TypeOK, Spin!LockWordExact, Spin!MutualExclusion
  <2> QED BY <2>1, <2>2, <2>3, <2>4
<1>8. CASE UNCHANGED Spin!vars
  BY <1>8 DEF Spin!vars, Spin!TypeOK, SenseFresh, Spin!NeverPreempted, Spin!LockWordExact,
     Spin!MutualExclusion
<1> QED
  BY <1>1, <1>2, <1>3, <1>4, <1>5, <1>6, <1>7, <1>8 DEF Spin!Next

\* The invariant holds of every behaviour.
LEMMA SpinInvariance == Spec => []SpinInv
<1>1. Init => SpinInv
  BY SpinInit DEF Init
<1>2. SpinInv /\ [Next]_vars => SpinInv'
  BY SpinStep, Parts
<1> QED
  BY <1>1, <1>2, PTL DEF Spec

\* The mutable reference is exclusive, on one core and across cores.
THEOREM Exclusion == Spec => []MutualExclusion
<1>1. SpinInv => MutualExclusion
  BY DEF SpinInv, MutualExclusion
<1> QED BY <1>1, SpinInvariance, PTL

\* A task that spins or holds the lock is never switched away from.
THEOREM HolderRuns == Spec => []NeverPreempted
<1>1. SpinInv => NeverPreempted
  BY DEF SpinInv, NeverPreempted
<1> QED BY <1>1, SpinInvariance, PTL

\* with_locked ends with dispatching as it found it.
THEOREM Restores == Spec => DispatchRestored
<1>1. SpinInv /\ [Spin!Next]_(Spin!vars) =>
        [\A t \in Tasks : task[t] = Spin!Released /\ task'[t] = Spin!Outside
                          => dispatching'[core[t]] = dsp_enabled[t]]_(Spin!vars)
  <2> SUFFICES ASSUME SpinInv, Spin!Next, NEW t \in Tasks,
                      task[t] = Spin!Released, task'[t] = Spin!Outside
               PROVE  dispatching'[core[t]] = dsp_enabled[t]
    OBVIOUS
  <2>1. Spin!Restore(t)
    <3> USE DEF SpinInv, Spin!TypeOK, Spin!Outside, Spin!Sensed, Spin!Spinning,
           Spin!Inside, Spin!Released
    <3>1. ASSUME NEW u \in Tasks, Spin!Dispatch(u) \/ Spin!CallerSwitches(u) PROVE FALSE
      BY <3>1 DEF Spin!Dispatch, Spin!CallerSwitches
    <3>2. ASSUME NEW u \in Tasks,
                 Spin!Sense(u) \/ Spin!Disable(u) \/ Spin!Swap(u) \/ Spin!Release(u)
          PROVE  FALSE
      BY <3>2 DEF Spin!Sense, Spin!Disable, Spin!Swap, Spin!Release
    <3>3. ASSUME NEW u \in Tasks, Spin!Restore(u) PROVE u = t
      BY <3>3 DEF Spin!Restore
    <3> QED BY <3>1, <3>2, <3>3 DEF Spin!Next
  <2>2. ~dispatching[core[t]]
    BY DEF SpinInv, Spin!NeverPreempted
  <2>3. core[t] \in Cores
    BY SpinConstants
  <2>4. dispatching \in [Cores -> BOOLEAN] /\ dsp_enabled[t] \in BOOLEAN
    BY DEF SpinInv, Spin!TypeOK
  <2>5. CASE dsp_enabled[t]
    <3>1. dispatching'[core[t]] = TRUE
      BY <2>1, <2>3, <2>4, <2>5 DEF Spin!Restore
    <3>2. dsp_enabled[t] = TRUE
      BY <2>4, <2>5
    <3> QED BY <3>1, <3>2
  <2>6. CASE ~dsp_enabled[t]
    <3>1. dispatching' = dispatching
      BY <2>1, <2>6 DEF Spin!Restore
    <3>2. dispatching[core[t]] = FALSE /\ dsp_enabled[t] = FALSE
      BY <2>2, <2>3, <2>4, <2>6
    <3> QED BY <3>1, <3>2
  <2> QED BY <2>5, <2>6
<1>2. SpinInv /\ [Next]_vars =>
        [\A t \in Tasks : task[t] = Spin!Released /\ task'[t] = Spin!Outside
                          => dispatching'[core[t]] = dsp_enabled[t]]_(Spin!vars)
  BY <1>1, Parts
<1> QED BY <1>2, SpinInvariance, PTL DEF Spec, DispatchRestored, Spin!DispatchRestored

\* The lock word is set for just as long as a task is inside (lines 36 to 41, 12 to 15).
THEOREM LockWord == Spec => []LockWordExact
<1>1. SpinInv => LockWordExact
  BY DEF SpinInv, LockWordExact
<1> QED BY <1>1, SpinInvariance, PTL

-----------------------------------------------------------------------------
(***************************************************************************)
(* The handshake.  What a caller is told is decided before it gives        *)
(* handshakeMutex back and never changed by cancellation; a close always   *)
(* goes back to an early cancellation.                                     *)
(***************************************************************************)

\* What HandshakeContext assumes.
LEMMA HandshakeConstants == Handshake!Nobody \notin Callers
  BY ThreadsAssumption DEF Handshake!NobodyAssumption

\* A caller past the handshake already has the answer the connection gives, one
\* before that has none.
Decided ==
    \A c \in Callers :
        /\ goroutine[c] \in {Handshake!Idle, Handshake!Locking, Handshake!Handshaking,
                             Handshake!Exchanged} => ret[c] = Handshake!Nil
        /\ goroutine[c] \in {Handshake!Unlocking, Handshake!Stopping, Handshake!NotStopped} =>
               \/ ret[c] = Handshake!Nil /\ isHandshakeComplete
               \/ ret[c] = Handshake!HandshakeError /\ handshakeErr

\* Only the caller in handshakeFn, or leaving it, holds the mutex.
Holds ==
    \A c \in Callers :
        goroutine[c] \in {Handshake!Handshaking, Handshake!Exchanged, Handshake!Unlocking}
        <=> handshakeMutex = c

\* A callback runs only after a cancellation, and one that is about to close
\* found the handshake incomplete then.
Callbacks ==
    /\ ~isHandshakeComplete => early = {c \in Callers : cancelled[c]}
    /\ \A c \in Callers :
        /\ callback[c] = Handshake!Started => cancelled[c]
        /\ callback[c] = Handshake!Closing => c \in early

HandshakeInv ==
    /\ Handshake!TypeOK
    /\ Handshake!OneHandshake
    /\ Decided
    /\ Holds
    /\ Callbacks
    /\ Handshake!ResultAgrees
    /\ Handshake!LateCancelHarmless

-----------------------------------------------------------------------------
\* The initial state: nothing called, nothing cancelled.
LEMMA HandshakeInit == Handshake!Init => HandshakeInv
<1> SUFFICES ASSUME Handshake!Init PROVE HandshakeInv
  OBVIOUS
<1> USE HandshakeConstants DEF Handshake!Init, Handshake!Nobody, Handshake!Idle,
                              Handshake!Locking, Handshake!Handshaking,
                              Handshake!Exchanged, Handshake!Unlocking,
                              Handshake!Stopping, Handshake!NotStopped,
                              Handshake!Returned, Handshake!Nil, Handshake!HandshakeError,
                              Handshake!CtxError, Handshake!Unarmed, Handshake!Armed,
                              Handshake!Started, Handshake!Closing, Handshake!Done,
                              Handshake!Stopped
<1>1. Handshake!TypeOK
  BY DEF Handshake!TypeOK
<1>2. Handshake!OneHandshake /\ Decided /\ Holds
  BY DEF Handshake!OneHandshake, Decided, Holds
<1>3. {c \in Callers : cancelled[c]} = {}
  OBVIOUS
<1>4. Callbacks /\ Handshake!ResultAgrees /\ Handshake!LateCancelHarmless
  BY <1>3 DEF Callbacks, Handshake!ResultAgrees, Handshake!LateCancelHarmless
<1> QED BY <1>1, <1>2, <1>4 DEF HandshakeInv

\* Every step keeps the invariant.
LEMMA HandshakeStep == HandshakeInv /\ [Handshake!Next]_(Handshake!vars) => HandshakeInv'
<1> SUFFICES ASSUME HandshakeInv, [Handshake!Next]_(Handshake!vars) PROVE HandshakeInv'
  OBVIOUS
<1> USE HandshakeConstants DEF HandshakeInv, Handshake!Idle, Handshake!Locking,
                              Handshake!Handshaking, Handshake!Exchanged,
                              Handshake!Unlocking, Handshake!Stopping,
                              Handshake!NotStopped, Handshake!Returned, Handshake!Nil,
                              Handshake!HandshakeError, Handshake!CtxError,
                              Handshake!Unarmed, Handshake!Armed, Handshake!Started,
                              Handshake!Closing, Handshake!Done, Handshake!Stopped
<1>1. ASSUME NEW c \in Callers, Handshake!Cancel(c) PROVE HandshakeInv'
  <2>1. Handshake!TypeOK'
    BY <1>1 DEF Handshake!Cancel, Handshake!TypeOK, Handshake!callerVars, Handshake!contextVars
  <2>2. Handshake!OneHandshake' /\ Holds'
    BY <1>1 DEF Handshake!Cancel, Handshake!TypeOK, Handshake!OneHandshake, Holds,
       Handshake!callerVars, Handshake!contextVars
  <2>3. Decided' /\ Handshake!ResultAgrees'
    BY <1>1 DEF Handshake!Cancel, Handshake!TypeOK, Handshake!OneHandshake, Decided,
       Handshake!ResultAgrees, Handshake!callerVars, Handshake!contextVars
  <2>4. Callbacks' /\ Handshake!LateCancelHarmless'
    BY <1>1 DEF Handshake!Cancel, Handshake!TypeOK, Callbacks,
       Handshake!LateCancelHarmless, Handshake!callerVars, Handshake!contextVars
  <2> QED BY <2>1, <2>2, <2>3, <2>4
<1>2. ASSUME NEW c \in Callers, Handshake!StartCallback(c) PROVE HandshakeInv'
  <2>1. Handshake!TypeOK'
    BY <1>2 DEF Handshake!StartCallback, Handshake!TypeOK, Handshake!callerVars,
       Handshake!contextVars
  <2>2. Handshake!OneHandshake' /\ Holds'
    BY <1>2 DEF Handshake!StartCallback, Handshake!TypeOK, Handshake!OneHandshake, Holds,
       Handshake!callerVars, Handshake!contextVars
  <2>3. Decided' /\ Handshake!ResultAgrees'
    BY <1>2 DEF Handshake!StartCallback, Handshake!TypeOK, Handshake!OneHandshake,
       Decided, Handshake!ResultAgrees, Handshake!callerVars, Handshake!contextVars
  <2>4. Callbacks' /\ Handshake!LateCancelHarmless'
    BY <1>2 DEF Handshake!StartCallback, Handshake!TypeOK, Callbacks,
       Handshake!LateCancelHarmless, Handshake!callerVars, Handshake!contextVars
  <2> QED BY <2>1, <2>2, <2>3, <2>4
<1>3. ASSUME NEW c \in Callers, Handshake!CheckComplete(c) PROVE HandshakeInv'
  <2>1. Handshake!TypeOK'
    BY <1>3 DEF Handshake!CheckComplete, Handshake!TypeOK, Handshake!callerVars,
       Handshake!contextVars
  <2>2. Handshake!OneHandshake' /\ Holds'
    BY <1>3 DEF Handshake!CheckComplete, Handshake!TypeOK, Handshake!OneHandshake, Holds,
       Handshake!callerVars, Handshake!contextVars
  <2>3. Decided' /\ Handshake!ResultAgrees'
    BY <1>3 DEF Handshake!CheckComplete, Handshake!TypeOK, Handshake!OneHandshake,
       Decided, Handshake!ResultAgrees, Handshake!callerVars, Handshake!contextVars
  <2>4. Callbacks' /\ Handshake!LateCancelHarmless'
    BY <1>3 DEF Handshake!CheckComplete, Handshake!TypeOK, Callbacks,
       Handshake!LateCancelHarmless, Handshake!callerVars, Handshake!contextVars
  <2> QED BY <2>1, <2>2, <2>3, <2>4
<1>4. ASSUME NEW c \in Callers, Handshake!Close(c) PROVE HandshakeInv'
  <2>1. Handshake!TypeOK'
    BY <1>4 DEF Handshake!Close, Handshake!TypeOK, Handshake!callerVars, Handshake!contextVars
  <2>2. Handshake!OneHandshake' /\ Holds'
    BY <1>4 DEF Handshake!Close, Handshake!TypeOK, Handshake!OneHandshake, Holds,
       Handshake!callerVars, Handshake!contextVars
  <2>3. Decided' /\ Handshake!ResultAgrees'
    BY <1>4 DEF Handshake!Close, Handshake!TypeOK, Handshake!OneHandshake, Decided,
       Handshake!ResultAgrees, Handshake!callerVars, Handshake!contextVars
  <2>4. Callbacks' /\ Handshake!LateCancelHarmless'
    BY <1>4 DEF Handshake!Close, Handshake!TypeOK, Callbacks,
       Handshake!LateCancelHarmless, Handshake!callerVars, Handshake!contextVars
  <2> QED BY <2>1, <2>2, <2>3, <2>4
<1>5. ASSUME NEW c \in Callers, Handshake!Enter(c) PROVE HandshakeInv'
  <2>1. Handshake!TypeOK'
    BY <1>5 DEF Handshake!Enter, Handshake!TypeOK, Handshake!callerVars, Handshake!contextVars
  <2>2. Handshake!OneHandshake' /\ Holds'
    BY <1>5 DEF Handshake!Enter, Handshake!TypeOK, Handshake!OneHandshake, Holds,
       Handshake!callerVars, Handshake!contextVars
  <2>3. Decided' /\ Handshake!ResultAgrees'
    BY <1>5 DEF Handshake!Enter, Handshake!TypeOK, Handshake!OneHandshake, Decided,
       Handshake!ResultAgrees, Handshake!callerVars, Handshake!contextVars
  <2>4. Callbacks' /\ Handshake!LateCancelHarmless'
    BY <1>5 DEF Handshake!Enter, Handshake!TypeOK, Callbacks,
       Handshake!LateCancelHarmless, Handshake!callerVars, Handshake!contextVars
  <2> QED BY <2>1, <2>2, <2>3, <2>4
<1>6. ASSUME NEW c \in Callers, Handshake!LockMutex(c) PROVE HandshakeInv'
  <2>1. Handshake!TypeOK'
    BY <1>6 DEF Handshake!LockMutex, Handshake!TypeOK, Handshake!callerVars,
       Handshake!contextVars
  <2>2. Handshake!OneHandshake' /\ Holds'
    BY <1>6 DEF Handshake!LockMutex, Handshake!TypeOK, Handshake!OneHandshake, Holds,
       Handshake!callerVars, Handshake!contextVars
  <2>3. Decided' /\ Handshake!ResultAgrees'
    BY <1>6 DEF Handshake!LockMutex, Handshake!TypeOK, Handshake!OneHandshake, Decided,
       Handshake!ResultAgrees, Handshake!callerVars, Handshake!contextVars
  <2>4. Callbacks' /\ Handshake!LateCancelHarmless'
    BY <1>6 DEF Handshake!LockMutex, Handshake!TypeOK, Callbacks,
       Handshake!LateCancelHarmless, Handshake!callerVars, Handshake!contextVars
  <2> QED BY <2>1, <2>2, <2>3, <2>4
<1>7. ASSUME NEW c \in Callers, Handshake!Exchange(c) PROVE HandshakeInv'
  <2>1. Handshake!TypeOK'
    BY <1>7 DEF Handshake!Exchange, Handshake!TypeOK, Handshake!callerVars,
       Handshake!contextVars
  <2>2. Handshake!OneHandshake' /\ Holds'
    BY <1>7 DEF Handshake!Exchange, Handshake!TypeOK, Handshake!OneHandshake, Holds,
       Handshake!callerVars, Handshake!contextVars
  <2>3. Decided' /\ Handshake!ResultAgrees'
    BY <1>7 DEF Handshake!Exchange, Handshake!TypeOK, Handshake!OneHandshake, Decided,
       Handshake!ResultAgrees, Handshake!callerVars, Handshake!contextVars
  <2>4. Callbacks' /\ Handshake!LateCancelHarmless'
    BY <1>7 DEF Handshake!Exchange, Handshake!TypeOK, Callbacks,
       Handshake!LateCancelHarmless, Handshake!callerVars, Handshake!contextVars
  <2> QED BY <2>1, <2>2, <2>3, <2>4
<1>8. ASSUME NEW c \in Callers, Handshake!Complete(c) PROVE HandshakeInv'
  <2>1. Handshake!TypeOK'
    BY <1>8 DEF Handshake!Complete, Handshake!TypeOK, Handshake!callerVars,
       Handshake!contextVars
  <2>2. Handshake!OneHandshake' /\ Holds'
    BY <1>8 DEF Handshake!Complete, Handshake!TypeOK, Handshake!OneHandshake, Holds,
       Handshake!callerVars, Handshake!contextVars
  <2>3. Decided' /\ Handshake!ResultAgrees'
    BY <1>8 DEF Handshake!Complete, Handshake!TypeOK, Handshake!OneHandshake, Decided,
       Handshake!ResultAgrees, Handshake!callerVars, Handshake!contextVars
  <2>4. Callbacks' /\ Handshake!LateCancelHarmless'
    BY <1>8 DEF Handshake!Complete, Handshake!TypeOK, Callbacks,
       Handshake!LateCancelHarmless, Handshake!callerVars, Handshake!contextVars
  <2> QED BY <2>1, <2>2, <2>3, <2>4
<1>9. ASSUME NEW c \in Callers, Handshake!Fail(c) PROVE HandshakeInv'
  <2>1. Handshake!TypeOK'
    BY <1>9 DEF Handshake!Fail, Handshake!TypeOK, Handshake!callerVars, Handshake!contextVars
  <2>2. Handshake!OneHandshake' /\ Holds'
    BY <1>9 DEF Handshake!Fail, Handshake!TypeOK, Handshake!OneHandshake, Holds,
       Handshake!callerVars, Handshake!contextVars
  <2>3. Decided' /\ Handshake!ResultAgrees'
    BY <1>9 DEF Handshake!Fail, Handshake!TypeOK, Handshake!OneHandshake, Decided,
       Handshake!ResultAgrees, Handshake!callerVars, Handshake!contextVars
  <2>4. Callbacks' /\ Handshake!LateCancelHarmless'
    BY <1>9 DEF Handshake!Fail, Handshake!TypeOK, Callbacks, Handshake!LateCancelHarmless,
       Handshake!callerVars, Handshake!contextVars
  <2> QED BY <2>1, <2>2, <2>3, <2>4
<1>10. ASSUME NEW c \in Callers, Handshake!UnlockMutex(c) PROVE HandshakeInv'
  <2>1. Handshake!TypeOK'
    BY <1>10 DEF Handshake!UnlockMutex, Handshake!TypeOK, Handshake!callerVars,
       Handshake!contextVars
  <2>2. Handshake!OneHandshake' /\ Holds'
    BY <1>10 DEF Handshake!UnlockMutex, Handshake!TypeOK, Handshake!OneHandshake, Holds,
       Handshake!callerVars, Handshake!contextVars
  <2>3. Decided' /\ Handshake!ResultAgrees'
    BY <1>10 DEF Handshake!UnlockMutex, Handshake!TypeOK, Handshake!OneHandshake, Decided,
       Handshake!ResultAgrees, Handshake!callerVars, Handshake!contextVars
  <2>4. Callbacks' /\ Handshake!LateCancelHarmless'
    BY <1>10 DEF Handshake!UnlockMutex, Handshake!TypeOK, Callbacks,
       Handshake!LateCancelHarmless, Handshake!callerVars, Handshake!contextVars
  <2> QED BY <2>1, <2>2, <2>3, <2>4
<1>11. ASSUME NEW c \in Callers, Handshake!Stop(c) PROVE HandshakeInv'
  <2>1. Handshake!TypeOK'
    BY <1>11 DEF Handshake!Stop, Handshake!TypeOK, Handshake!callerVars, Handshake!contextVars
  <2>2. Handshake!OneHandshake' /\ Holds'
    BY <1>11 DEF Handshake!Stop, Handshake!TypeOK, Handshake!OneHandshake, Holds,
       Handshake!callerVars, Handshake!contextVars
  <2>3. Decided' /\ Handshake!ResultAgrees'
    BY <1>11 DEF Handshake!Stop, Handshake!TypeOK, Handshake!OneHandshake, Decided,
       Handshake!ResultAgrees, Handshake!callerVars, Handshake!contextVars
  <2>4. Callbacks' /\ Handshake!LateCancelHarmless'
    BY <1>11 DEF Handshake!Stop, Handshake!TypeOK, Callbacks,
       Handshake!LateCancelHarmless, Handshake!callerVars, Handshake!contextVars
  <2> QED BY <2>1, <2>2, <2>3, <2>4
<1>12. ASSUME NEW c \in Callers, Handshake!ReturnNotStopped(c) PROVE HandshakeInv'
  <2>1. Handshake!TypeOK'
    BY <1>12 DEF Handshake!ReturnNotStopped, Handshake!TypeOK, Handshake!callerVars,
       Handshake!contextVars
  <2>2. Handshake!OneHandshake' /\ Holds'
    BY <1>12 DEF Handshake!ReturnNotStopped, Handshake!TypeOK, Handshake!OneHandshake,
       Holds, Handshake!callerVars, Handshake!contextVars
  <2>3. Decided' /\ Handshake!ResultAgrees'
    BY <1>12 DEF Handshake!ReturnNotStopped, Handshake!TypeOK, Handshake!OneHandshake,
       Decided, Handshake!ResultAgrees, Handshake!callerVars, Handshake!contextVars
  <2>4. Callbacks' /\ Handshake!LateCancelHarmless'
    BY <1>12 DEF Handshake!ReturnNotStopped, Handshake!TypeOK, Callbacks,
       Handshake!LateCancelHarmless, Handshake!callerVars, Handshake!contextVars
  <2> QED BY <2>1, <2>2, <2>3, <2>4
<1>13. CASE UNCHANGED Handshake!vars
  BY <1>13 DEF Handshake!vars, Handshake!callerVars, Handshake!contextVars,
     Handshake!TypeOK, Handshake!OneHandshake, Decided, Holds, Callbacks,
     Handshake!ResultAgrees, Handshake!LateCancelHarmless
<1> QED
  BY <1>1, <1>2, <1>3, <1>4, <1>5, <1>6, <1>7, <1>8, <1>9, <1>10, <1>11, <1>12, <1>13 DEF
     Handshake!Next

\* The invariant holds of every behaviour.
LEMMA HandshakeInvariance == Spec => []HandshakeInv
<1>1. Init => HandshakeInv
  BY HandshakeInit DEF Init
<1>2. HandshakeInv /\ [Next]_vars => HandshakeInv'
  BY HandshakeStep, Parts
<1> QED
  BY <1>1, <1>2, PTL DEF Spec

\* nil is returned only for a complete handshake and an error only for a failed
\* one, by any number of callers and whenever their contexts are cancelled.
THEOREM ResultsAgree == Spec => []ResultAgrees
<1>1. HandshakeInv => ResultAgrees
  BY DEF HandshakeInv, ResultAgrees
<1> QED BY <1>1, HandshakeInvariance, PTL

\* A context cancelled after the handshake completed closes nothing.
THEOREM LateCancelClosesNothing == Spec => []LateCancelHarmless
<1>1. HandshakeInv => LateCancelHarmless
  BY DEF HandshakeInv, LateCancelHarmless
<1> QED BY <1>1, HandshakeInvariance, PTL

\* handshakeFn is run by one caller at a time and decided once.
THEOREM HandshakeOnce == Spec => []OneHandshake
<1>1. HandshakeInv => OneHandshake
  BY DEF HandshakeInv, OneHandshake
<1> QED BY <1>1, HandshakeInvariance, PTL

-----------------------------------------------------------------------------
(***************************************************************************)
(* The harness: what a case has started it has ended, and [PASS] says so.  *)
(***************************************************************************)

\* What PocHarness assumes.
LEMMA HarnessConstants ==
    Handlers \subseteq {Harness!Plain, Harness!UntilEof, Harness!HeaderFirst}
  BY ThreadsAssumption DEF Harness!HandlersAssumption

\* Places at which the current case's httpd may run without SIGKILL.
Attended == {Harness!Waiting, Harness!Talking, Harness!Leaving, Harness!Comm1, Harness!Comm2}

\* Places past the cleanup of httpd.
CleanedUp == {Harness!Shutdown, Harness!Joining, Harness!Judging}

\* A live httpd is attended to or killed; a reaped one is dead, and was not
\* reaped before its case began, nor before its end.
ProcInv ==
    \A c \in Cases :
        /\ Harness!Alive(c) => \/ c \in killed
                               \/ c = case /\ main \in Attended
        /\ c \in reaped => /\ proc[c] = "dead"
                           /\ c \notin todo
                           /\ c = case =>
                                main \in CleanedUp \cup {Harness!Looping, Harness!Over}

\* A case that reaches its verdict without an exception was reaped.
ReapedInv == main \in CleanedUp /\ ~failed => case \in reaped

\* Verdicts so far: none for a case not begun, and fail only if it was counted.
VerdictInv ==
    /\ \A c \in Cases : verdict[c] = "pass" => c \in reaped
    /\ failures = 0 => \A c \in Cases : verdict[c] # "fail"
    /\ \A c \in Cases \ todo : \/ verdict[c] # "none"
                               \/ c = case /\ main \notin {Harness!Looping, Harness!Over}
    /\ main \notin {Harness!Looping, Harness!Over} => case \notin todo
    /\ main = Harness!Over => todo = {}

HarnessInv == Harness!TypeOK /\ ProcInv /\ ReapedInv /\ VerdictInv

\* Nothing has been started yet.
LEMMA HarnessInit == Harness!Init => HarnessInv
<1> SUFFICES ASSUME Harness!Init
             PROVE  HarnessInv
  OBVIOUS
<1>1. Harness!TypeOK
  BY DEF Harness!Init, Harness!TypeOK
<1>2. ProcInv
  BY DEF Harness!Init, ProcInv, Harness!Alive
<1>3. ReapedInv
  BY DEF Harness!Init, ReapedInv, CleanedUp, Harness!Looping, Harness!Shutdown,
     Harness!Joining, Harness!Judging
<1>4. VerdictInv
  BY DEF Harness!Init, VerdictInv, Harness!Looping, Harness!Over
<1> QED
  BY <1>1, <1>2, <1>3, <1>4 DEF HarnessInv

\* Every step keeps the invariant.
LEMMA HarnessStep == HarnessInv /\ [Harness!Next]_(Harness!vars) => HarnessInv'
<1> SUFFICES ASSUME HarnessInv, [Harness!Next]_(Harness!vars)
             PROVE  HarnessInv'
  OBVIOUS
<1> USE DEF HarnessInv, Harness!TypeOK, ProcInv, ReapedInv, VerdictInv, Harness!Alive,
       Attended, CleanedUp, Harness!caseVars, Harness!procVars, Harness!serverVars,
       Harness!outcomeVars, Harness!Looping, Harness!Binding, Harness!Testing,
       Harness!Spawning, Harness!Waiting, Harness!Talking, Harness!Leaving, Harness!Comm1,
       Harness!Comm2, Harness!Comm3, Harness!Shutdown, Harness!Joining, Harness!Judging,
       Harness!Over, Harness!Plain, Harness!UntilEof, Harness!HeaderFirst
<1>1. ASSUME NEW c \in Cases, NEW k \in Handlers, Harness!StartCase(c, k) PROVE HarnessInv'
  BY <1>1, HarnessConstants DEF Harness!StartCase
<1>2. CASE Harness!TcpServer
  BY <1>2 DEF Harness!TcpServer
<1>3. CASE Harness!ConfigTest
  BY <1>3 DEF Harness!ConfigTest, Harness!Unwound
<1>4. CASE Harness!Popen
  BY <1>4 DEF Harness!Popen
<1>5. CASE Harness!WaitPort
  BY <1>5 DEF Harness!WaitPort
<1>6. CASE Harness!Body
  BY <1>6 DEF Harness!Body
<1>7. CASE Harness!Exit
  BY <1>7 DEF Harness!Exit
<1>8. CASE Harness!Collected
  BY <1>8 DEF Harness!Collected, Harness!Unwound
<1>9. CASE Harness!Terminate
  BY <1>9 DEF Harness!Terminate
<1>10. CASE Harness!Kill
  BY <1>10 DEF Harness!Kill
<1>11. CASE Harness!Expired
  BY <1>11 DEF Harness!Expired, Harness!Unwound
<1>12. CASE Harness!ServerShutdown
  BY <1>12 DEF Harness!ServerShutdown
<1>13. CASE Harness!ServerClose
  BY <1>13 DEF Harness!ServerClose
<1>14. CASE Harness!Judge
  BY <1>14 DEF Harness!Judge
<1>15. CASE Harness!Return
  BY <1>15 DEF Harness!Return
<1>16. ASSUME NEW c \in Cases, Harness!Listen(c) PROVE HarnessInv'
  BY <1>16 DEF Harness!Listen
<1>17. ASSUME NEW c \in Cases, Harness!Die(c) PROVE HarnessInv'
  BY <1>17 DEF Harness!Die
<1>18. ASSUME NEW h \in Conns, Harness!Connect(h) PROVE HarnessInv'
  BY <1>18 DEF Harness!Connect
<1>19. ASSUME NEW h \in Conns, Harness!Receive(h) PROVE HarnessInv'
  BY <1>19 DEF Harness!Receive
<1>20. ASSUME NEW h \in Conns, Harness!Eof(h) PROVE HarnessInv'
  BY <1>20 DEF Harness!Eof
<1>21. CASE UNCHANGED Harness!vars
  BY <1>21 DEF Harness!vars
<1> QED
  BY <1>1, <1>2, <1>3, <1>4, <1>5, <1>6, <1>7, <1>8, <1>9, <1>10, <1>11, <1>12, <1>13,
     <1>14, <1>15, <1>16, <1>17, <1>18, <1>19, <1>20, <1>21 DEF Harness!Next, Harness!Main

\* The invariant is what the three properties below follow from.
LEMMA HarnessInvariant == Spec => []HarnessInv
<1>1. Init => HarnessInv
  BY HarnessInit DEF Init
<1>2. HarnessInv /\ [Next]_vars => HarnessInv'
  BY HarnessStep, Parts
<1> QED
  BY <1>1, <1>2, PTL DEF Spec

\* An httpd that outlives its case has SIGKILL pending, however the case ended.
THEOREM NothingLeftRunning == Spec => []LeftoverIsKilled
<1>1. HarnessInv => LeftoverIsKilled
  BY DEF LeftoverIsKilled, HarnessInv, ProcInv, Harness!LeftoverIsKilled, Attended,
     Harness!Looping, Harness!Over, Harness!Waiting, Harness!Talking, Harness!Leaving,
     Harness!Comm1, Harness!Comm2
<1> QED
  BY <1>1, HarnessInvariant, PTL

\* [PASS] is printed only when httpd was reaped, and main returns 0 only when
\* [PASS] was printed of every case.
THEOREM PassIsClean == Spec => []PassMeansReaped
<1>1. HarnessInv => PassMeansReaped
  <2>1. ASSUME HarnessInv, NEW c \in Cases, verdict[c] = "pass"
        PROVE  c \in reaped /\ ~Harness!Alive(c)
    BY <2>1 DEF HarnessInv, ProcInv, VerdictInv, Harness!Alive
  <2>2. ASSUME HarnessInv, main = Harness!Over, failures = 0, NEW c \in Cases
        PROVE  verdict[c] = "pass"
    BY <2>2 DEF HarnessInv, Harness!TypeOK, VerdictInv
  <2> QED
    BY <2>1, <2>2 DEF PassMeansReaped, Harness!PassMeansReaped
<1> QED
  BY <1>1, HarnessInvariant, PTL

-----------------------------------------------------------------------------
\* Between tcp_server's bind and its shutdown() only there may be handlers at
\* work, and for a case without a backend there are none.
Unserved == {Harness!Looping, Harness!Binding, Harness!Joining, Harness!Judging, Harness!Over}
ServerInv ==
    /\ serving => main \notin Unserved /\ backend # Harness!Plain
    /\ main \in {Harness!Binding, Harness!Shutdown, Harness!Joining} => backend # Harness!Plain
    /\ backend = Harness!Plain \/ main \in Unserved \ {Harness!Joining} =>
        \A h \in Conns : handler[h] \in {"none", "done"}

\* Every step keeps it: only server_close() leads on, and it waits for them all.
LEMMA ServerStep == Harness!TypeOK /\ ServerInv /\ [Harness!Next]_(Harness!vars) => ServerInv'
<1> SUFFICES ASSUME Harness!TypeOK, ServerInv, [Harness!Next]_(Harness!vars)
             PROVE  ServerInv'
  OBVIOUS
<1> USE DEF Harness!TypeOK, ServerInv, Unserved, Harness!caseVars, Harness!procVars,
       Harness!serverVars, Harness!outcomeVars, Harness!Looping, Harness!Binding,
       Harness!Testing, Harness!Spawning, Harness!Waiting, Harness!Talking,
       Harness!Leaving, Harness!Comm1, Harness!Comm2, Harness!Comm3, Harness!Shutdown,
       Harness!Joining, Harness!Judging, Harness!Over
<1>1. ASSUME NEW c \in Cases, NEW k \in Handlers, Harness!StartCase(c, k) PROVE ServerInv'
  BY <1>1 DEF Harness!StartCase
<1>2. CASE Harness!TcpServer
  BY <1>2 DEF Harness!TcpServer
<1>3. CASE Harness!ConfigTest
  BY <1>3 DEF Harness!ConfigTest, Harness!Unwound
<1>4. CASE Harness!Popen
  BY <1>4 DEF Harness!Popen
<1>5. CASE Harness!WaitPort
  BY <1>5 DEF Harness!WaitPort
<1>6. CASE Harness!Body
  BY <1>6 DEF Harness!Body
<1>7. CASE Harness!Exit
  BY <1>7 DEF Harness!Exit
<1>8. CASE Harness!Collected
  BY <1>8 DEF Harness!Collected, Harness!Unwound
<1>9. CASE Harness!Terminate
  BY <1>9 DEF Harness!Terminate
<1>10. CASE Harness!Kill
  BY <1>10 DEF Harness!Kill
<1>11. CASE Harness!Expired
  BY <1>11 DEF Harness!Expired, Harness!Unwound
<1>12. CASE Harness!ServerShutdown
  BY <1>12 DEF Harness!ServerShutdown
<1>13. CASE Harness!ServerClose
  BY <1>13 DEF Harness!ServerClose
<1>14. CASE Harness!Judge
  BY <1>14 DEF Harness!Judge
<1>15. CASE Harness!Return
  BY <1>15 DEF Harness!Return
<1>16. ASSUME NEW c \in Cases, Harness!Listen(c) \/ Harness!Die(c) PROVE ServerInv'
  BY <1>16 DEF Harness!Listen, Harness!Die
<1>17. ASSUME NEW h \in Conns, Harness!Connect(h) PROVE ServerInv'
  BY <1>17 DEF Harness!Connect
<1>18. ASSUME NEW h \in Conns, Harness!Receive(h) PROVE ServerInv'
  BY <1>18 DEF Harness!Receive
<1>19. ASSUME NEW h \in Conns, Harness!Eof(h) PROVE ServerInv'
  BY <1>19 DEF Harness!Eof
<1>20. CASE UNCHANGED Harness!vars
  BY <1>20 DEF Harness!vars
<1> QED
  BY <1>1, <1>2, <1>3, <1>4, <1>5, <1>6, <1>7, <1>8, <1>9, <1>10, <1>11, <1>12, <1>13,
     <1>14, <1>15, <1>16, <1>17, <1>18, <1>19, <1>20 DEF Harness!Next, Harness!Main

\* No handler of a case goes on into the next one (server_close(), line 311).
THEOREM HandlersAreJoined == Spec => []NoHandlerLeft
<1>1. Init => ServerInv
  BY DEF Init, Harness!Init, ServerInv, Unserved, Harness!Looping, Harness!Binding,
     Harness!Shutdown, Harness!Joining, Harness!Judging, Harness!Over
<1>2. HarnessInv => Harness!TypeOK
  BY DEF HarnessInv
<1>3. ServerInv => NoHandlerLeft
  BY DEF NoHandlerLeft, ServerInv, Harness!NoHandlerLeft, Unserved, Harness!Looping,
     Harness!Binding, Harness!Joining, Harness!Judging, Harness!Over
<1>4. Harness!TypeOK /\ ServerInv /\ [Next]_vars => ServerInv'
  BY ServerStep, Parts
<1> QED
  BY <1>1, <1>2, <1>3, <1>4, HarnessInvariant, PTL DEF Spec
=============================================================================
