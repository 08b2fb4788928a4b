---------------------------- MODULE XousCondvar ----------------------------
(***************************************************************************)
(* The Xous Condvar as patched by rust-stdlib/111 and 112.  Waiters are    *)
(* counted in two relaxed atomics: counter, raised before the mutex is     *)
(* released, and timed_out, raised by a waiter the ticktimer server gave   *)
(* up on.  notify_some reconciles the two and asks the server to wake      *)
(* waiters, a bounded number of times, since a waiter may have been        *)
(* counted and not yet have reached the server.                            *)
(*                                                                         *)
(* Every atomic operation and every message to the server is a step of its *)
(* own.  A notifier does not hold the mutex: Condvar does not ask for it.  *)
(***************************************************************************)
EXTENDS Integers, FiniteSets, FiniteSetsExt

CONSTANTS
    Waiters,      \* threads that call wait and wait_timeout
    Notifiers,    \* threads that call notify_one and notify_all
    NotifyTries,  \* NOTIFY_TRIES
    MaxWaits,     \* bound on the calls of wait_ms
    MaxErrors     \* bound on the WaitForCondition messages that fail

Nobody == "nobody"   \* no holder of the mutex

ASSUME CondvarAssumption ==
    /\ IsFiniteSet(Waiters) /\ IsFiniteSet(Notifiers)
    /\ NotifyTries \in Nat \ {0}
    /\ MaxWaits \in Nat /\ MaxErrors \in Nat
    /\ Nobody \notin Waiters

VARIABLES
    counter,    \* Condvar.counter
    timed_out,  \* Condvar.timed_out
    mutex,      \* the waiter that holds the mutex, or Nobody
    wpc,        \* where each waiter is
    timed,      \* whether each waiter's wait has a timeout
    waits,      \* calls of wait_ms so far
    errors,     \* WaitForCondition messages that failed
    npc,        \* where each notifier is in notify_some
    remaining,  \* each notifier's to_notify, then its remaining_to_wake
    amount,     \* what each notifier is about to subtract from counter
    tries,      \* each notifier's _wake_tries
    witness,    \* waiters that were with the server since the call began
    woke        \* whether the call woke a waiter

waiterVars == <<wpc, timed, waits, errors>>
notifierVars == <<npc, remaining, amount, tries, woke>>
vars == <<counter, timed_out, mutex, waiterVars, notifierVars, witness>>

\* A waiter's places.
Out == "out"              \* not using the condvar
Guard == "guard"          \* holds the MutexGuard
Counted == "counted"      \* counter raised, mutex still held
Unlocked == "unlocked"    \* mutex released, the server not yet told
Blocked == "blocked"      \* with the server
Late == "late"            \* the server replied that the time is over
Relock == "relock"        \* about to lock the mutex and return
Unwind == "unwind"        \* the message failed: about to lock and panic
Panicking == "panicking"  \* unwinding, the guard about to be dropped

\* A notifier's places, beside Out.
Swap0 == "swap0"  \* notify_some entered
Sub0 == "sub0"    \* timed_out swapped, counter not yet lowered
Load == "load"    \* about to read the number of waiters
Send == "send"    \* about to send NotifyCondition
Sub1 == "sub1"    \* the server answered, counter not yet lowered
Swap2 == "swap2"  \* about to swap timed_out again
Sub2 == "sub2"    \* swapped, counter not yet lowered

TypeOK ==
    /\ counter \in 0..MaxWaits
    /\ timed_out \in 0..MaxWaits
    /\ mutex \in Waiters \cup {Nobody}
    /\ wpc \in [Waiters -> {Out, Guard, Counted, Unlocked, Blocked, Late, Relock,
                            Unwind, Panicking}]
    /\ timed \in [Waiters -> BOOLEAN]
    /\ waits \in 0..MaxWaits
    /\ errors \in 0..MaxErrors
    /\ npc \in [Notifiers -> {Out, Swap0, Sub0, Load, Send, Sub1, Swap2, Sub2}]
    /\ remaining \in [Notifiers -> Nat]
    /\ amount \in [Notifiers -> 0..MaxWaits]
    /\ tries \in [Notifiers -> 0..NotifyTries]
    /\ witness \in [Notifiers -> SUBSET Waiters]
    /\ woke \in [Notifiers -> BOOLEAN]

Init ==
    /\ counter = 0 /\ timed_out = 0
    /\ mutex = Nobody
    /\ wpc = [w \in Waiters |-> Out]
    /\ timed = [w \in Waiters |-> FALSE]
    /\ waits = 0 /\ errors = 0
    /\ npc = [n \in Notifiers |-> Out]
    /\ remaining = [n \in Notifiers |-> 0]
    /\ amount = [n \in Notifiers |-> 0]
    /\ tries = [n \in Notifiers |-> 0]
    /\ witness = [n \in Notifiers |-> {}]
    /\ woke = [n \in Notifiers |-> FALSE]

\* usize::saturating_sub
SaturatingSub(a, b) == IF b <= a THEN a - b ELSE 0

Registered == {w \in Waiters : wpc[w] = Blocked}

\* The waiters in ws are no longer with the server.
Leave(ws) == witness' = [n \in Notifiers |-> witness[n] \ ws]

-----------------------------------------------------------------------------
\* The caller locks the mutex, and drops its guard again.
LockMutex(w) ==
    /\ wpc[w] = Out
    /\ mutex = Nobody
    /\ mutex' = w
    /\ wpc' = [wpc EXCEPT ![w] = Guard]
    /\ UNCHANGED <<counter, timed_out, timed, waits, errors, notifierVars, witness>>

DropMutexGuard(w) ==
    /\ wpc[w] \in {Guard, Panicking}
    /\ mutex' = Nobody
    /\ wpc' = [wpc EXCEPT ![w] = Out]
    /\ UNCHANGED <<counter, timed_out, timed, waits, errors, notifierVars, witness>>

\* wait_ms: counter.fetch_add(1); d says whether ms is not the 0 of wait().
WaitMs(w, d) ==
    /\ wpc[w] = Guard
    /\ waits < MaxWaits
    /\ waits' = waits + 1
    /\ counter' = counter + 1
    /\ timed' = [timed EXCEPT ![w] = d]
    /\ wpc' = [wpc EXCEPT ![w] = Counted]
    /\ UNCHANGED <<timed_out, mutex, errors, notifierVars, witness>>

\* mutex.unlock()
Unlock(w) ==
    /\ wpc[w] = Counted
    /\ mutex' = Nobody
    /\ wpc' = [wpc EXCEPT ![w] = Unlocked]
    /\ UNCHANGED <<counter, timed_out, timed, waits, errors, notifierVars, witness>>

\* WaitForCondition reaches the server.
Register(w) ==
    /\ wpc[w] = Unlocked
    /\ wpc' = [wpc EXCEPT ![w] = Blocked]
    /\ UNCHANGED <<counter, timed_out, mutex, timed, waits, errors, notifierVars, witness>>

\* The server's time for the waiter is over.
Timeout(w) ==
    /\ wpc[w] = Blocked
    /\ timed[w]
    /\ wpc' = [wpc EXCEPT ![w] = Late]
    /\ Leave({w})
    /\ UNCHANGED <<counter, timed_out, mutex, timed, waits, errors, notifierVars>>

\* A timed-out waiter says so, with the mutex still free.
CountTimeout(w) ==
    /\ wpc[w] = Late
    /\ timed_out' = timed_out + 1
    /\ wpc' = [wpc EXCEPT ![w] = Relock]
    /\ UNCHANGED <<counter, mutex, timed, waits, errors, notifierVars, witness>>

\* mutex.lock() and return.
Return(w) ==
    /\ wpc[w] = Relock
    /\ mutex = Nobody
    /\ mutex' = w
    /\ wpc' = [wpc EXCEPT ![w] = Guard]
    /\ UNCHANGED <<counter, timed_out, timed, waits, errors, notifierVars, witness>>

\* WaitForCondition cannot be sent.
WaitError(w) ==
    /\ wpc[w] = Unlocked
    /\ errors < MaxErrors
    /\ errors' = errors + 1
    /\ wpc' = [wpc EXCEPT ![w] = Unwind]
    /\ UNCHANGED <<counter, timed_out, mutex, timed, waits, notifierVars, witness>>

\* Mutant: wait_ms before the patch, where the failed expect() unwound at once.
PanicUnlocked(w) ==
    /\ wpc[w] = Unwind
    /\ wpc' = [wpc EXCEPT ![w] = Panicking]
    /\ UNCHANGED <<counter, timed_out, mutex, timed, waits, errors, notifierVars, witness>>

\* unwrap_or_else: mutex.lock(), then panic!.  counter stays raised.
RelockAndPanic(w) ==
    /\ wpc[w] = Unwind
    /\ mutex = Nobody
    /\ mutex' = w
    /\ wpc' = [wpc EXCEPT ![w] = Panicking]
    /\ UNCHANGED <<counter, timed_out, timed, waits, errors, notifierVars, witness>>

-----------------------------------------------------------------------------
\* notify_one is notify_some(1); notify_all is notify_some(counter).
NotifySome(n, k) ==
    /\ npc[n] = Out
    /\ k \in {1, counter}
    /\ npc' = [npc EXCEPT ![n] = Swap0]
    /\ remaining' = [remaining EXCEPT ![n] = k]
    /\ tries' = [tries EXCEPT ![n] = 0]
    /\ witness' = [witness EXCEPT ![n] = Registered]
    /\ woke' = [woke EXCEPT ![n] = FALSE]
    /\ UNCHANGED <<counter, timed_out, mutex, waiterVars, amount>>

\* let timed_out = self.timed_out.swap(0)
SwapTimedOut(n) ==
    /\ npc[n] \in {Swap0, Swap2}
    /\ amount' = [amount EXCEPT ![n] = timed_out]
    /\ timed_out' = 0
    /\ npc' = [npc EXCEPT ![n] = IF npc[n] = Swap0 THEN Sub0 ELSE Sub2]
    /\ UNCHANGED <<counter, mutex, waiterVars, remaining, tries, woke, witness>>

\* counter.try_update(|counter| Some(counter.saturating_sub(timed_out)))
SubTimedOut(n) ==
    /\ npc[n] = Sub0
    /\ counter' = SaturatingSub(counter, amount[n])
    /\ amount' = [amount EXCEPT ![n] = 0]
    /\ npc' = [npc EXCEPT ![n] = Load]
    /\ UNCHANGED <<timed_out, mutex, waiterVars, remaining, tries, woke, witness>>

\* Mutant: notify_some before the patch took the waiters it was about to try
\* to wake off the counter beforehand.

PreDecrement(n) ==
    /\ npc[n] = Load
    /\ remaining' = [remaining EXCEPT ![n] = Min({counter, @})]
    /\ counter' = counter - Min({counter, remaining[n]})
    /\ npc' = [npc EXCEPT ![n] = IF remaining'[n] = 0 THEN Out ELSE Send]
    /\ UNCHANGED <<timed_out, mutex, waiterVars, amount, tries, woke, witness>>

\* waiter_count = counter.load(); remaining_to_wake = waiter_count.min(to_notify)
LoadWaiters(n) ==
    /\ npc[n] = Load
    /\ remaining' = [remaining EXCEPT ![n] = Min({counter, @})]
    /\ npc' = [npc EXCEPT ![n] = IF remaining'[n] = 0 THEN Out ELSE Send]
    /\ UNCHANGED <<counter, timed_out, mutex, waiterVars, amount, tries, woke, witness>>

\* NotifyCondition: the server wakes as many of its waiters as it is asked to,
\* or all it has, and answers how many that was.
NotifyCondition(n) ==
    /\ npc[n] = Send
    /\ \E ws \in kSubset(Min({remaining[n], Cardinality(Registered)}), Registered) :
        /\ wpc' = [w \in Waiters |-> IF w \in ws THEN Relock ELSE wpc[w]]
        /\ amount' = [amount EXCEPT ![n] = Cardinality(ws)]
        /\ woke' = [woke EXCEPT ![n] = @ \/ ws # {}]
        /\ Leave(ws)
    /\ npc' = [npc EXCEPT ![n] = Sub1]
    /\ UNCHANGED <<counter, timed_out, mutex, timed, waits, errors, remaining, tries>>

\* NotifyCondition cannot be sent: expect() panics.
NotifyError(n) ==
    /\ npc[n] = Send
    /\ npc' = [npc EXCEPT ![n] = Out]
    /\ witness' = [witness EXCEPT ![n] = {}]
    /\ UNCHANGED <<counter, timed_out, mutex, waiterVars, remaining, amount, tries, woke>>

\* Mutant: the notified waiters stay on the counter.
SubNotifiedNever(n) ==
    /\ npc[n] = Sub1
    /\ remaining' = [remaining EXCEPT ![n] = @ - amount[n]]
    /\ amount' = [amount EXCEPT ![n] = 0]
    /\ npc' = [npc EXCEPT ![n] = Swap2]
    /\ UNCHANGED <<counter, timed_out, mutex, waiterVars, tries, woke, witness>>

\* The waiters that were notified leave counter and remaining_to_wake.
SubNotified(n) ==
    /\ npc[n] = Sub1
    /\ counter' = SaturatingSub(counter, amount[n])
    /\ remaining' = [remaining EXCEPT ![n] = @ - amount[n]]
    /\ amount' = [amount EXCEPT ![n] = 0]
    /\ npc' = [npc EXCEPT ![n] = Swap2]
    /\ UNCHANGED <<timed_out, mutex, waiterVars, tries, woke, witness>>

\* Mutant: the late time-outs are subtracted without saturation.
SubLateUnsaturated(n) ==
    /\ npc[n] = Sub2
    /\ counter' = SaturatingSub(counter, amount[n])
    /\ remaining' = [remaining EXCEPT ![n] = @ - amount[n]]
    /\ amount' = [amount EXCEPT ![n] = 0]
    /\ tries' = [tries EXCEPT ![n] = @ + 1]
    /\ npc' = [npc EXCEPT ![n] =
                  IF remaining'[n] = 0 \/ tries'[n] = NotifyTries THEN Out ELSE Send]
    /\ UNCHANGED <<timed_out, mutex, waiterVars, woke, witness>>

\* So do those that timed out meanwhile.  Return if nobody is left to wake or
\* the tries are used up, else try again.
SubLateTimedOut(n) ==
    /\ npc[n] = Sub2
    /\ counter' = SaturatingSub(counter, amount[n])
    /\ remaining' = [remaining EXCEPT ![n] = SaturatingSub(@, amount[n])]
    /\ amount' = [amount EXCEPT ![n] = 0]
    /\ tries' = [tries EXCEPT ![n] = @ + 1]
    /\ npc' = [npc EXCEPT ![n] =
                  IF remaining'[n] = 0 \/ tries'[n] = NotifyTries THEN Out ELSE Send]
    /\ UNCHANGED <<timed_out, mutex, waiterVars, woke, witness>>

-----------------------------------------------------------------------------
WaiterStep(w) ==
    \/ LockMutex(w) \/ DropMutexGuard(w)
    \/ \E d \in BOOLEAN : WaitMs(w, d)
    \/ Unlock(w) \/ Register(w) \/ Timeout(w) \/ CountTimeout(w) \/ Return(w)
    \/ WaitError(w) \/ RelockAndPanic(w)

\* Mutant: notify_some before the patch, which lowered the counter in advance.
UnpatchedNotifierStep(n) ==
    \/ \E k \in 0..MaxWaits : NotifySome(n, k)
    \/ SwapTimedOut(n) \/ SubTimedOut(n) \/ PreDecrement(n) \/ NotifyCondition(n)
    \/ NotifyError(n) \/ SubNotifiedNever(n) \/ SubLateTimedOut(n)

NotifierStep(n) ==
    \/ \E k \in 0..MaxWaits : NotifySome(n, k)
    \/ SwapTimedOut(n) \/ SubTimedOut(n) \/ LoadWaiters(n) \/ NotifyCondition(n)
    \/ NotifyError(n) \/ SubNotified(n) \/ SubLateTimedOut(n)

Next ==
    \/ \E w \in Waiters : WaiterStep(w)
    \/ \E n \in Notifiers : NotifierStep(n)

Spec == Init /\ [][Next]_vars

-----------------------------------------------------------------------------
\* Waiters that were counted and neither woken nor accounted as timed out.
Uncounted == {w \in Waiters : wpc[w] \in {Counted, Unlocked, Blocked, Late}}

Total(f) == MapThenSumSet(LAMBDA n : f[n], Notifiers)

\* The accounting is exact at every step of every interleaving: counter is the
\* waiters still to be woken, plus what timed_out holds, plus what notifiers
\* have taken out and are about to subtract, plus the waits that failed.
Conservation ==
    counter = Cardinality(Uncounted) + timed_out + Total(amount) + errors

\* saturating_sub never has anything to saturate.
NothingSaturates == \A n \in Notifiers : amount[n] <= counter

\* Whoever has a guard, back from wait_ms by a return or by a panic, holds the
\* mutex: dropping the guard never unlocks somebody else's.
GuardHoldsMutex == \A w \in Waiters : wpc[w] \in {Guard, Counted, Panicking} => mutex = w

\* A notification is not lost on a waiter the server knew all along: unless it
\* fails or wakes somebody, notify_some does not return past such a waiter.
RegisteredReached ==
    [][\A n \in Notifiers :
          npc[n] # Out /\ npc'[n] = Out /\ ~woke[n] => witness'[n] = {}]_vars

\* The assertion of Condvar's drop, which runs when no thread is using it.
DropAssertion ==
    (\A w \in Waiters : wpc[w] = Out) /\ (\A n \in Notifiers : npc[n] = Out)
    => counter = timed_out
=============================================================================
