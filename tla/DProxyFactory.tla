--------------------------- MODULE DProxyFactory ---------------------------
(***************************************************************************)
(* DProxyInstanceFactory.acquire() as patched by wasmer-wasix/015: one     *)
(* cache of runners and one table of start-up reservations per shard, both *)
(* behind one mutex.  A caller that finds neither a runner nor a           *)
(* reservation becomes the starter: it reserves, releases the lock, spins  *)
(* a runner up, and publishes it.  Any other caller clones the             *)
(* reservation's Notify, releases the lock and only then waits on it.      *)
(*                                                                         *)
(* A critical section of the mutex is one action.  A start-up, its Notify  *)
(* and the runner it makes are all named by the number of the start-up.    *)
(***************************************************************************)
EXTENDS Integers

CONSTANTS
    Callers,     \* tasks that call acquire
    Shards,      \* the shards they ask for
    Cancellers,  \* callers whose acquire future may be dropped
    NoShard,     \* stands for no shard
    MaxStarts    \* bound on the number of start-ups

ASSUME FactoryAssumption ==
    /\ Cancellers \subseteq Callers
    /\ NoShard \notin Shards
    /\ MaxStarts \in Nat \ {0}

Starts == 1..MaxStarts
None == 0

VARIABLES
    instance,  \* state.instance: the runner cached for each shard
    starting,  \* state.starting: the Notify of each shard's start-up
    task,      \* what the dedicated task of each start-up is doing
    started,   \* the number of start-ups so far
    home,      \* the shard of each start-up
    pc,        \* where each caller is in acquire
    shard,     \* the shard each caller asks for
    notify,    \* the Notify each caller made or cloned
    result     \* what each caller's last acquire returned

vars == <<instance, starting, task, started, home, pc, shard, notify, result>>

\* A caller's places in acquire.
Idle == "idle"          \* not in acquire
Lock == "lock"          \* at the top of the loop
Spinning == "spinning"  \* starter, awaiting spin_up
SpunUp == "spun_up"     \* starter, spin_up returned Ok
Failed == "failed"      \* starter, spin_up returned Err
Joined == "joined"      \* cloned the Notify, not yet in notified()
Waiting == "waiting"    \* in notified().await

Starting == {Spinning, SpunUp, Failed}

TypeOK ==
    /\ instance \in [Shards -> Starts \cup {None}]
    /\ starting \in [Shards -> Starts \cup {None}]
    /\ task \in [Starts -> {"none", "running", "exited"}]
    /\ started \in 0..MaxStarts
    /\ home \in [Starts -> Shards \cup {NoShard}]
    /\ pc \in [Callers -> {Idle, Lock, Joined, Waiting} \cup Starting]
    /\ shard \in [Callers -> Shards \cup {NoShard}]
    /\ notify \in [Callers -> Starts \cup {None}]
    /\ \A c \in Callers : pc[c] \notin {Idle, Lock} => notify[c] # None
    /\ result \in [Callers -> Starts \cup {None}]

Init ==
    /\ instance = [s \in Shards |-> None]
    /\ starting = [s \in Shards |-> None]
    /\ task = [n \in Starts |-> "none"]
    /\ started = 0
    /\ home = [n \in Starts |-> NoShard]
    /\ pc = [c \in Callers |-> Idle]
    /\ shard = [c \in Callers |-> NoShard]
    /\ notify = [c \in Callers |-> None]
    /\ result = [c \in Callers |-> None]

\* acquire(handler, s) is called.
Acquire(c, s) ==
    /\ pc[c] = Idle
    /\ pc' = [pc EXCEPT ![c] = Lock]
    /\ shard' = [shard EXCEPT ![c] = s]
    /\ result' = [result EXCEPT ![c] = None]
    /\ UNCHANGED <<instance, starting, task, started, home, notify>>

\* The cache has a runner: return it.
Hit(c) ==
    /\ pc[c] = Lock
    /\ instance[shard[c]] # None
    /\ result' = [result EXCEPT ![c] = instance[shard[c]]]
    /\ pc' = [pc EXCEPT ![c] = Idle]
    /\ UNCHANGED <<instance, starting, task, started, home, shard, notify>>

\* A start-up is under way: clone its Notify and release the lock.
Join(c) ==
    /\ pc[c] = Lock
    /\ instance[shard[c]] = None
    /\ starting[shard[c]] # None
    /\ notify' = [notify EXCEPT ![c] = starting[shard[c]]]
    /\ pc' = [pc EXCEPT ![c] = Joined]
    /\ UNCHANGED <<instance, starting, task, started, home, shard, result>>

\* Mutant: acquire before the patch never looks for a start-up under way.
ReserveAnyway(c) ==
    /\ pc[c] = Lock
    /\ instance[shard[c]] = None
    /\ started < MaxStarts
    /\ started' = started + 1
    /\ home' = [home EXCEPT ![started'] = shard[c]]
    /\ starting' = [starting EXCEPT ![shard[c]] = started']
    /\ notify' = [notify EXCEPT ![c] = started']
    /\ pc' = [pc EXCEPT ![c] = Spinning]
    /\ UNCHANGED <<instance, task, shard, result>>

\* Neither: reserve the start-up under the lock and become its starter.
Reserve(c) ==
    /\ pc[c] = Lock
    /\ instance[shard[c]] = None
    /\ starting[shard[c]] = None
    /\ started < MaxStarts
    /\ started' = started + 1
    /\ home' = [home EXCEPT ![started'] = shard[c]]
    /\ starting' = [starting EXCEPT ![shard[c]] = started']
    /\ notify' = [notify EXCEPT ![c] = started']
    /\ pc' = [pc EXCEPT ![c] = Spinning]
    /\ UNCHANGED <<instance, task, shard, result>>

\* spin_up spawns the runner's dedicated task, which starts at once; the
\* future that spin_up returned resolves later.
Spawn(c) ==
    /\ pc[c] = Spinning
    /\ task[notify[c]] = "none"
    /\ task' = [task EXCEPT ![notify[c]] = "running"]
    /\ UNCHANGED <<instance, starting, started, home, pc, shard, notify, result>>

SpinUpOk(c) ==
    /\ pc[c] = Spinning
    /\ task[notify[c]] # "none"
    /\ pc' = [pc EXCEPT ![c] = SpunUp]
    /\ UNCHANGED <<instance, starting, task, started, home, shard, notify, result>>

\* A spin_up that fails is taken to leave no task behind: it fails before it
\* spawns one.  What it does inside is not in the patch.
SpinUpErr(c) ==
    /\ pc[c] = Spinning
    /\ task[notify[c]] = "none"
    /\ pc' = [pc EXCEPT ![c] = Failed]
    /\ UNCHANGED <<instance, starting, task, started, home, shard, notify, result>>

\* notify_waiters() wakes the callers in notified() and stores nothing for
\* those that have yet to call it.
Notified(n) == {w \in Callers : pc[w] = Waiting /\ notify[w] = n}

\* Mutant: a failed start-up returns early, as `?` did, and wakes nobody.
PublishOkOnly(c) ==
    /\ pc[c] \in {SpunUp, Failed}
    /\ IF pc[c] = SpunUp
       THEN /\ starting' = [starting EXCEPT ![shard[c]] = None]
            /\ instance' = [instance EXCEPT ![shard[c]] = notify[c]]
            /\ result' = [result EXCEPT ![c] = notify[c]]
            /\ pc' = [w \in Callers |-> IF w = c THEN Idle
                                        ELSE IF w \in Notified(starting[shard[c]]) THEN Lock
                                        ELSE pc[w]]
       ELSE /\ pc' = [pc EXCEPT ![c] = Idle]
            /\ UNCHANGED <<starting, instance, result>>
    /\ UNCHANGED <<task, started, home, shard, notify>>

\* Lock again, take the reservation out, cache the runner if there is one,
\* wake the waiters and return.
Publish(c) ==
    /\ pc[c] \in {SpunUp, Failed}
    /\ starting' = [starting EXCEPT ![shard[c]] = None]
    /\ IF pc[c] = SpunUp
       THEN /\ instance' = [instance EXCEPT ![shard[c]] = notify[c]]
            /\ result' = [result EXCEPT ![c] = notify[c]]
       ELSE UNCHANGED <<instance, result>>
    /\ pc' = [w \in Callers |-> IF w = c THEN Idle
                                ELSE IF w \in Notified(starting[shard[c]]) THEN Lock
                                ELSE pc[w]]
    /\ UNCHANGED <<task, started, home, shard, notify>>

\* notify.notified(): from here on a notify_waiters() reaches the caller.
Subscribe(c) ==
    /\ pc[c] = Joined
    /\ pc' = [pc EXCEPT ![c] = Waiting]
    /\ UNCHANGED <<instance, starting, task, started, home, shard, notify, result>>

\* The runner's task ends and its clean-up removes the shard's entry, whatever
\* runner the entry names.
TaskExit(n) ==
    /\ task[n] = "running"
    /\ task' = [task EXCEPT ![n] = "exited"]
    /\ instance' = [instance EXCEPT ![home[n]] = None]
    /\ UNCHANGED <<starting, started, home, pc, shard, notify, result>>

\* The future of acquire is dropped at one of its two awaits.  Nothing runs
\* but destructors, and a reservation has none.
Cancel(c) ==
    /\ c \in Cancellers
    /\ pc[c] \in {Spinning, Waiting}
    /\ pc' = [pc EXCEPT ![c] = Idle]
    /\ UNCHANGED <<instance, starting, task, started, home, shard, notify, result>>

Next ==
    \/ \E c \in Callers :
        \/ \E s \in Shards : Acquire(c, s)
        \/ Hit(c) \/ Join(c) \/ Reserve(c)
        \/ Spawn(c) \/ SpinUpOk(c) \/ SpinUpErr(c) \/ Publish(c)
        \/ Subscribe(c) \/ Cancel(c)
    \/ \E n \in Starts : TaskExit(n)

\* The executor polls every caller that can go on, the mutex is held for no
\* await, and a spin-up that began ends.  Nothing makes a runner exit, a caller
\* call again or a future be dropped.
Fairness ==
    \A c \in Callers :
        /\ WF_vars(Hit(c) \/ Join(c) \/ Reserve(c))
        /\ WF_vars(Spawn(c) \/ SpinUpOk(c) \/ SpinUpErr(c))
        /\ WF_vars(Publish(c))
        /\ WF_vars(Subscribe(c))

Spec == Init /\ [][Next]_vars
FairSpec == Spec /\ Fairness

-----------------------------------------------------------------------------
Running(s) == {n \in 1..started : home[n] = s /\ task[n] = "running"}

\* The patch's aim: overlapping acquire calls for a shard never leave two of
\* its runners alive, failures, exits and dropped futures included.
OneRunnerPerShard == \A s \in Shards : \A m, n \in Running(s) : m = n

\* .expect("missing shard startup reservation") never fails, and finds the
\* starter's own Notify: nobody else removes or replaces a reservation.
ReservationKept ==
    \A c \in Callers : pc[c] \in Starting => starting[shard[c]] = notify[c]

\* The entry a runner's clean-up removes is its own: the clean-up compares
\* nothing, so this rests on there being one runner at a time.
CleanupOwnEntry ==
    [][\A n \in Starts :
          task[n] = "running" /\ task'[n] = "exited"
          => instance[home[n]] \in {n, None}]_vars

\* Shard affinity: as long as the runner a caller was given lives, it is the
\* one the factory hands to everybody else.
SharedRunner ==
    \A c \in Callers :
        result[c] # None /\ task[result[c]] = "running"
        => instance[home[result[c]]] = result[c]

\* A caller in notified() before the starter publishes leaves it, whether the
\* start-up works or fails, if the starter's future is one nobody drops.
SubscriberWakes ==
    \A c \in Callers, s \in Callers \ Cancellers :
        pc[c] = Waiting /\ pc[s] \in Starting /\ notify[s] = notify[c]
        ~> pc[c] # Waiting

\* "Other concurrent callers join that startup and reuse its result" (015, line
\* 41): a caller that joined a start-up does not wait for ever.
JoinerReturns == \A c \in Callers : pc[c] = Joined ~> pc[c] \in {Idle, Lock}
=============================================================================
