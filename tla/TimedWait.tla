----------------------------- MODULE TimedWait -----------------------------
(***************************************************************************)
(* rust-stdlib/pocs/067: a thread in wait_timeout_while, which discards    *)
(* what wait_timeout says, and a main thread that holds the mutex past the *)
(* deadline before it makes the predicate hold.  Times are in one unit;    *)
(* stopwatches stop at Cap, beyond all they are compared with.             *)
(***************************************************************************)
EXTENDS Integers

CONSTANTS
    Dur,         \* the waiter's time-out
    Delay,       \* the main thread's first sleep
    Hold,        \* its sleep with the mutex held
    MinElapsed,  \* what main() asserts of the waiter's elapsed time
    Cap

Durations ==
    /\ Dur \in Nat /\ Delay \in Nat /\ Hold \in Nat /\ MinElapsed \in Nat /\ Cap \in Nat
    /\ Dur < Cap /\ MinElapsed <= Hold /\ MinElapsed <= Cap

VARIABLES
    waiter,     \* the waiting thread's place
    setter,     \* the main thread's place
    owner,      \* who holds the mutex
    done,       \* the bool in it
    elapsed,    \* the closure's stopwatch, stopped when it returns
    inner,      \* wait_timeout_while's stopwatch
    left,       \* what is left of the timeout of wait_timeout
    pause,      \* what is left of the main thread's sleep
    timed_out,  \* what wait_timeout_while returned
    met         \* whether main() took the mutex while the waiter was in its loop

vars == <<waiter, setter, owner, done, elapsed, inner, left, pause, timed_out, met>>

Nobody == "nobody"
InLoop == {"waiting", "woken"}

Init ==
    /\ waiter = "start" /\ setter = "asleep"
    /\ owner = Nobody /\ done = FALSE
    /\ elapsed = 0 /\ inner = 0 /\ left = 0 /\ pause = Delay
    /\ timed_out = FALSE /\ met = FALSE

Inc(t) == IF t < Cap THEN t + 1 ELSE Cap
Dec(t) == IF t > 0 THEN t - 1 ELSE 0

\* A unit of time passes; only stopwatches that have been started run.
Tick ==
    /\ elapsed' = IF waiter \in {"start", "returned"} THEN elapsed ELSE Inc(elapsed)
    /\ inner' = IF waiter \in {"check"} \cup InLoop THEN Inc(inner) ELSE inner
    /\ left' = IF waiter = "waiting" THEN Dec(left) ELSE left
    /\ pause' = Dec(pause)
    /\ UNCHANGED <<waiter, setter, owner, done, timed_out, met>>

\* let start = Instant::now() of the closure.
Start ==
    /\ waiter = "start"
    /\ waiter' = "lock"
    /\ UNCHANGED <<setter, owner, done, elapsed, inner, left, pause, timed_out, met>>

\* m.lock(), and only then start = Instant::now().
Lock ==
    /\ waiter = "lock"
    /\ owner = Nobody
    /\ owner' = "waiter"
    /\ waiter' = "check"
    /\ UNCHANGED <<setter, done, elapsed, inner, left, pause, timed_out, met>>

Return(result) ==
    /\ waiter = "check"
    /\ waiter' = "returned"
    /\ timed_out' = result
    /\ owner' = Nobody
    /\ UNCHANGED <<setter, done, elapsed, inner, left, pause, met>>

\* Mutant: any return from the loop says that the predicate holds.
DeadlineSatisfied == inner > Dur /\ Return(FALSE)

\* condition(&mut *guard) is false.
Satisfied == done /\ Return(FALSE)

\* dur.checked_sub(start.elapsed()) is None: past the deadline, not at it.
DeadlinePassed == ~done /\ inner > Dur /\ Return(TRUE)

\* wait_timeout gives the mutex up and waits for what is left, perhaps nothing.
Wait ==
    /\ waiter = "check"
    /\ ~done /\ inner <= Dur
    /\ waiter' = "waiting"
    /\ left' = Dur - inner
    /\ owner' = Nobody
    /\ UNCHANGED <<setter, done, elapsed, inner, pause, timed_out, met>>

\* wait_timeout ends: by time or spuriously, a difference that is discarded.
Wake ==
    /\ waiter = "waiting"
    /\ waiter' = "woken"
    /\ UNCHANGED <<setter, owner, done, elapsed, inner, left, pause, timed_out, met>>

Relock ==
    /\ waiter = "woken"
    /\ owner = Nobody
    /\ owner' = "waiter"
    /\ waiter' = "check"
    /\ UNCHANGED <<setter, done, elapsed, inner, left, pause, timed_out, met>>

\* main() wakes from its first sleep and takes the mutex.
SetterLock ==
    /\ setter = "asleep"
    /\ pause = 0
    /\ owner = Nobody
    /\ owner' = "setter"
    /\ setter' = "holding"
    /\ pause' = Hold
    /\ met' = (waiter \in InLoop)
    /\ UNCHANGED <<waiter, done, elapsed, inner, left, timed_out>>

\* *g = true; drop(g)
Set ==
    /\ setter = "holding"
    /\ pause = 0
    /\ done' = TRUE
    /\ owner' = Nobody
    /\ setter' = "released"
    /\ UNCHANGED <<waiter, elapsed, inner, left, pause, timed_out, met>>

\* cv.notify_all()
NotifyAll ==
    /\ setter = "released"
    /\ setter' = "joining"
    /\ waiter' = IF waiter = "waiting" THEN "woken" ELSE waiter
    /\ UNCHANGED <<owner, done, elapsed, inner, left, pause, timed_out, met>>

\* The two assertions about what the waiter returned.
Judge ==
    /\ setter = "joining"
    /\ waiter = "returned"
    /\ setter' = IF elapsed >= MinElapsed /\ ~timed_out THEN "triggered" ELSE "failed"
    /\ UNCHANGED <<waiter, owner, done, elapsed, inner, left, pause, timed_out, met>>

WaiterStep ==
    Start \/ Lock \/ Satisfied \/ DeadlinePassed \/ Wait \/ Wake \/ Relock
SetterStep == SetterLock \/ Set \/ NotifyAll \/ Judge
Next == WaiterStep \/ SetterStep \/ Tick
Spec == Init /\ [][Next]_vars

-----------------------------------------------------------------------------
\* wait_timeout_while says "not timed out" only when the predicate was made to
\* hold, and "timed out" only past its deadline, under the mutex in both cases.
ResultSound ==
    waiter = "returned" => IF timed_out THEN inner > Dur ELSE done

\* If main() takes the mutex at any time at which the waiter is in its loop,
\* both assertions hold, though the time-out has elapsed: the bug of line 33.
AssertionsHold == met => setter # "failed"

\* What wait_timeout_while returns is so, and main() asserts nothing else of it.
WaitVerdicts == ResultSound /\ AssertionsHold

\* wait_timeout_while returns, however often it is woken for nothing.
WaiterReturns == <>(waiter = "returned")
=============================================================================
