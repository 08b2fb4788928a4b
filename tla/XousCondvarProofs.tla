-------------------------- MODULE XousCondvarProofs --------------------------
(***************************************************************************)
(* The accounting of the patched Condvar is exact, for any number of       *)
(* waiters and notifiers and in any interleaving.  It sums over the        *)
(* notifiers, so the first half is about sums; there the induction is over *)
(* sets of naturals and of subsets, which needs no predicate variable.     *)
(***************************************************************************)
EXTENDS XousCondvar, FiniteSetTheorems, WellFoundedInduction, TLAPS

\* The order of the naturals as a relation.
Less == {p \in Nat \X Nat : p[1] < p[2]}

\* There is no descent for ever among the naturals.
LEMMA LessWellFounded == IsWellFoundedOn(Less, Nat)
BY NatLessThanWellFounded DEF OpToRel, Less

\* Induction, for a set in the place of a predicate.
LEMMA NatSetInduction ==
    ASSUME NEW A, 0 \in A, \A k \in Nat : k \in A => k + 1 \in A
    PROVE  Nat \subseteq A
<1> DEFINE bad == {k \in Nat : k \notin A}
<1> SUFFICES ASSUME bad # {} PROVE FALSE
  OBVIOUS
<1>1. PICK k \in bad : \A j \in bad : <<j, k>> \notin Less
  <2>1. bad \subseteq Nat
    OBVIOUS
  <2> HIDE DEF bad
  <2> QED BY <2>1, LessWellFounded, WFMin
<1>2. k # 0 /\ k - 1 \in Nat /\ <<k - 1, k>> \in Less
  BY DEF Less
<1>3. k - 1 \in A
  BY <1>1, <1>2
<1> QED BY <1>2, <1>3

-----------------------------------------------------------------------------
\* The sum of f over S, unfolded as MapThenSumSet does: by taking out picked elements.
Pick(s) == CHOOSE x \in s : TRUE
Sum(f, S) == MapThenSumSet(LAMBDA n : f[n], S)
IsIter(g, f, S) == g = [s \in SUBSET S |-> IF s = {} THEN 0 ELSE f[Pick(s)] + g[s \ {Pick(s)}]]

\* If the recursion has a solution, the sum is the value of one.
LEMMA SumIsIter == ASSUME NEW f, NEW S, \E g : IsIter(g, f, S)
  PROVE \E g : IsIter(g, f, S) /\ Sum(f, S) = g[S]
<1> DEFINE it == CHOOSE g : IsIter(g, f, S)
<1>1. IsIter(it, f, S)
  OBVIOUS
<1>2. Sum(f, S) = it[S]
  BY DEF Sum, MapThenSumSet, MapThenFoldSet, IsIter, Pick
<1> QED BY <1>1, <1>2

\* What can be taken apart by Pick is a subset.
LEMMA SubsetInduction ==
    ASSUME NEW S, IsFiniteSet(S), NEW B, {} \in B,
           \A s \in SUBSET S : s # {} /\ s \ {Pick(s)} \in B => s \in B
    PROVE  SUBSET S \subseteq B
<1> DEFINE A == {k \in Nat : \A s \in SUBSET S : Cardinality(s) = k => s \in B}
<1>1. \A s \in SUBSET S : IsFiniteSet(s) /\ Cardinality(s) \in Nat
  BY FS_Subset, FS_CardinalityType
<1>2. 0 \in A
  BY <1>1, FS_EmptySet
<1>3. ASSUME NEW k \in Nat, k \in A PROVE k + 1 \in A
  <2> SUFFICES ASSUME NEW s \in SUBSET S, Cardinality(s) = k + 1 PROVE s \in B
    OBVIOUS
  <2>1. s # {}
    BY FS_EmptySet
  <2>2. Pick(s) \in s
    BY <2>1 DEF Pick
  <2>3. Cardinality(s \ {Pick(s)}) = k
    BY <1>1, <2>2, FS_RemoveElement
  <2>4. s \ {Pick(s)} \in B
    BY <1>3, <2>3
  <2> QED BY <2>1, <2>4
<1>4. Nat \subseteq A
  <2> HIDE DEF A
  <2> QED BY <1>2, <1>3, NatSetInduction
<1> QED BY <1>1, <1>4

\* It has one over a finite set: solutions up to some cardinality extend to the next.
LEMMA IterExists == ASSUME NEW S, IsFiniteSet(S), NEW f PROVE \E g : IsIter(g, f, S)
<1> DEFINE Val(g, s) == IF s = {} THEN 0 ELSE f[Pick(s)] + g[s \ {Pick(s)}]
           UpTo(g, k) == \A s \in SUBSET S : Cardinality(s) <= k => g[s] = Val(g, s)
           A == {k \in Nat : \E g : UpTo(g, k)}
<1>1. \A s \in SUBSET S : Cardinality(s) \in Nat /\ Cardinality(s) <= Cardinality(S)
  BY FS_Subset, FS_CardinalityType
<1>2. \A s \in SUBSET S : s # {} => Cardinality(s \ {Pick(s)}) = Cardinality(s) - 1
  <2> SUFFICES ASSUME NEW s \in SUBSET S, s # {}
               PROVE  Cardinality(s \ {Pick(s)}) = Cardinality(s) - 1
    OBVIOUS
  <2> QED BY FS_Subset, FS_RemoveElement DEF Pick
<1>3. 0 \in A
  <2>1. \A s \in SUBSET S : Cardinality(s) <= 0 => s = {}
    BY <1>1, FS_EmptySet, FS_Subset
  <2>2. UpTo([s \in SUBSET S |-> 0], 0)
    BY <2>1
  <2> HIDE DEF UpTo
  <2> QED BY <2>2
<1>4. ASSUME NEW k \in Nat, k \in A PROVE k + 1 \in A
  <2>1. PICK g : UpTo(g, k)
    BY <1>4
  <2> DEFINE h == [s \in SUBSET S |-> IF Cardinality(s) = k + 1 THEN Val(g, s) ELSE g[s]]
  <2>2. ASSUME NEW s \in SUBSET S, Cardinality(s) <= k + 1 PROVE h[s] = Val(h, s)
    <3>1. s # {} => s \ {Pick(s)} \in SUBSET S /\ h[s \ {Pick(s)}] = g[s \ {Pick(s)}]
      BY <1>1, <1>2, <2>2
    <3>2. h[s] = Val(g, s)
      <4>1. CASE Cardinality(s) = k + 1
        BY <4>1
      <4>2. CASE Cardinality(s) # k + 1
        <5>1. Cardinality(s) <= k
          BY <1>1, <2>2, <4>2
        <5>2. g[s] = Val(g, s)
          BY <2>1, <5>1
        <5> QED BY <4>2, <5>2
      <4> QED BY <4>1, <4>2
    <3> QED BY <3>1, <3>2
  <2>3. UpTo(h, k + 1)
    BY <2>2
  <2> HIDE DEF UpTo
  <2> QED BY <2>3
<1>5. Nat \subseteq A
  <2> HIDE DEF A
  <2> QED BY <1>3, <1>4, NatSetInduction
<1>6. PICK g : UpTo(g, Cardinality(S))
  BY <1>1, <1>5
<1> DEFINE h == [s \in SUBSET S |-> g[s]]
<1>7. \A s \in SUBSET S : h[s] = Val(h, s)
  <2> SUFFICES ASSUME NEW s \in SUBSET S PROVE h[s] = Val(h, s)
    OBVIOUS
  <2>1. g[s] = Val(g, s)
    BY <1>1, <1>6
  <2>2. s \ {Pick(s)} \in SUBSET S
    OBVIOUS
  <2> QED BY <2>1, <2>2
<1>8. IsIter(h, f, S)
  BY <1>7 DEF IsIter
<1> QED BY <1>8

\* A sum of naturals: its type, its summands, and what a changed summand does.
LEMMA SumUpdate ==
    ASSUME NEW S, IsFiniteSet(S), NEW f \in [S -> Nat], NEW e \in [S -> Nat], NEW n \in S,
           \A m \in S \ {n} : e[m] = f[m]
    PROVE  /\ Sum(f, S) \in Nat /\ f[n] <= Sum(f, S)
           /\ Sum(e, S) = Sum(f, S) - f[n] + e[n]
<1>1. PICK g : IsIter(g, f, S) /\ Sum(f, S) = g[S]
  BY IterExists, SumIsIter
<1>2. PICK h : IsIter(h, e, S) /\ Sum(e, S) = h[S]
  BY IterExists, SumIsIter
<1> DEFINE B == {s \in SUBSET S :
                   /\ g[s] \in Nat /\ (n \in s => f[n] <= g[s])
                   /\ h[s] = g[s] + (IF n \in s THEN e[n] - f[n] ELSE 0)}
<1>3. {} \in B
  <2>1. g[{}] = 0 /\ h[{}] = 0
    BY <1>1, <1>2 DEF IsIter
  <2> QED BY <2>1
<1>4. ASSUME NEW s \in SUBSET S, s # {}, s \ {Pick(s)} \in B PROVE s \in B
  <2>1. Pick(s) \in s
    BY <1>4 DEF Pick
  <2>2. g[s] = f[Pick(s)] + g[s \ {Pick(s)}] /\ h[s] = e[Pick(s)] + h[s \ {Pick(s)}]
    BY <1>1, <1>2, <1>4 DEF IsIter
  <2>3. f[Pick(s)] \in Nat /\ f[n] \in Nat /\ e[n] \in Nat
    BY <2>1
  <2>4. CASE Pick(s) = n
    <3>1. h[s \ {Pick(s)}] = g[s \ {Pick(s)}] /\ g[s \ {Pick(s)}] \in Nat
      BY <1>4, <2>4
    <3> QED BY <2>1, <2>2, <2>3, <2>4, <3>1
  <2>5. CASE Pick(s) # n
    <3>1. e[Pick(s)] = f[Pick(s)]
      BY <2>1, <2>5
    <3>2. n \in s <=> n \in s \ {Pick(s)}
      BY <2>5
    <3> QED BY <1>4, <2>1, <2>2, <2>3, <3>1, <3>2
  <2> QED BY <2>4, <2>5
<1>5. SUBSET S \subseteq B
  <2> HIDE DEF B
  <2> QED BY <1>3, <1>4, SubsetInduction
<1> QED BY <1>1, <1>2, <1>5

\* Nothing is summed up to nothing.
LEMMA SumZero ==
    ASSUME NEW S, IsFiniteSet(S) PROVE Sum([n \in S |-> 0], S) = 0
<1> DEFINE f == [n \in S |-> 0]
<1>1. PICK g : IsIter(g, f, S) /\ Sum(f, S) = g[S]
  BY IterExists, SumIsIter
<1> DEFINE B == {s \in SUBSET S : g[s] = 0}
<1>2. {} \in B
  BY <1>1 DEF IsIter
<1>3. ASSUME NEW s \in SUBSET S, s # {}, s \ {Pick(s)} \in B PROVE s \in B
  <2>1. Pick(s) \in s
    BY <1>3 DEF Pick
  <2>2. g[s] = f[Pick(s)] + g[s \ {Pick(s)}]
    BY <1>1, <1>3 DEF IsIter
  <2>3. f[Pick(s)] = 0 /\ g[s \ {Pick(s)}] = 0
    BY <1>3, <2>1
  <2> QED BY <2>2, <2>3
<1>4. SUBSET S \subseteq B
  <2> HIDE DEF B
  <2> QED BY <1>2, <1>3, SubsetInduction
<1> QED BY <1>1, <1>4

-----------------------------------------------------------------------------
\* What a notifier has taken out and not subtracted; it still has a try; it only
\* asks for somebody.
NotifierInv ==
    \A n \in Notifiers :
        /\ npc[n] \notin {Sub0, Sub1, Sub2} => amount[n] = 0
        /\ npc[n] = Sub1 => amount[n] <= remaining[n]
        /\ npc[n] # Out => tries[n] < NotifyTries
        /\ npc[n] = Send => remaining[n] > 0

\* The guard goes with the mutex.
MutexInv == \A w \in Waiters : wpc[w] \in {Guard, Counted, Panicking} <=> mutex = w

\* counter is raised once for each wait, and otherwise lowered.
CounterInv == Conservation /\ counter <= waits

\* The waiters the server has had since the call began are with it, and there are
\* none left once the call found nobody to wake.
WitnessInv ==
    \A n \in Notifiers :
        /\ witness[n] \subseteq Registered
        /\ npc[n] \in {Swap0, Sub0, Load} /\ remaining[n] = 0 => witness[n] = {}
        /\ npc[n] \in {Sub1, Swap2, Sub2} /\ ~woke[n] => witness[n] = {}

IInv == TypeOK /\ NotifierInv /\ MutexInv /\ CounterInv /\ WitnessInv

-----------------------------------------------------------------------------
\* The smaller of two numbers.
LEMMA MinOfTwo ==
    ASSUME NEW a \in Nat, NEW b \in Nat
    PROVE  Min({a, b}) \in {a, b} /\ Min({a, b}) <= a /\ Min({a, b}) <= b
<1>1. \E x \in {a, b} : \A y \in {a, b} : x <= y
  OBVIOUS
<1>2. Min({a, b}) \in {a, b} /\ \A y \in {a, b} : Min({a, b}) <= y
  BY <1>1 DEF Min
<1> QED BY <1>2

\* The total over the notifiers is such a sum.
LEMMA TotalUpdate ==
    ASSUME NEW f \in [Notifiers -> Nat], NEW e \in [Notifiers -> Nat], NEW n \in Notifiers,
           \A m \in Notifiers \ {n} : e[m] = f[m]
    PROVE  /\ Total(f) \in Nat /\ f[n] <= Total(f)
           /\ Total(e) = Total(f) - f[n] + e[n]
<1>1. \A g : Total(g) = Sum(g, Notifiers)
  BY DEF Total, Sum
<1>2. IsFiniteSet(Notifiers)
  BY CondvarAssumption
<1>3. Sum(f, Notifiers) \in Nat /\ f[n] <= Sum(f, Notifiers)
  BY <1>2, SumUpdate
<1>4. Sum(e, Notifiers) = Sum(f, Notifiers) - f[n] + e[n]
  BY <1>2, SumUpdate
<1> QED BY <1>1, <1>3, <1>4

LEMMA TotalZero == Total([n \in Notifiers |-> 0]) = 0
<1>1. \A g : Total(g) = Sum(g, Notifiers)
  BY DEF Total, Sum
<1> QED BY <1>1, SumZero, CondvarAssumption

\* The sets of waiters are finite.
LEMMA WaitersFinite ==
    /\ IsFiniteSet(Uncounted) /\ Cardinality(Uncounted) \in Nat
    /\ IsFiniteSet(Registered) /\ Cardinality(Registered) \in Nat
<1>1. Uncounted \in SUBSET Waiters /\ Registered \in SUBSET Waiters
  BY DEF Uncounted, Registered
<1> QED BY <1>1, CondvarAssumption, FS_Subset, FS_CardinalityType

\* What the summands of the accounting are, and what they leave for each other.
LEMMA Accounts ==
    ASSUME TypeOK, Conservation
    PROVE  /\ Cardinality(Uncounted) \in Nat /\ timed_out \in Nat /\ errors \in Nat
           /\ counter \in Nat /\ timed_out <= counter /\ Cardinality(Uncounted) <= counter
           /\ \A n \in Notifiers :
                /\ amount[n] \in Nat /\ amount[n] <= counter
                /\ Total(amount) \in Nat /\ amount[n] <= Total(amount)
           /\ Total(amount) \in Nat
<1>1. amount \in [Notifiers -> Nat] /\ timed_out \in Nat /\ errors \in Nat /\ counter \in Nat
  BY CondvarAssumption DEF TypeOK
<1>2. \A n \in Notifiers : Total(amount) \in Nat /\ amount[n] <= Total(amount)
  BY <1>1, TotalUpdate
<1>3. Total(amount) \in Nat
  <2>1. CASE Notifiers = {}
    <3>1. amount = [n \in Notifiers |-> 0]
      BY <1>1, <2>1
    <3> QED BY <3>1, TotalZero
  <2> QED BY <1>2, <2>1
<1>4. counter = Cardinality(Uncounted) + timed_out + Total(amount) + errors
  BY DEF Conservation
<1> QED BY <1>1, <1>2, <1>3, <1>4, WaitersFinite

\* So nothing is ever saturated: what is taken out is on the counter.
LEMMA Nothing == ASSUME IInv PROVE NothingSaturates
BY Accounts DEF IInv, CounterInv, NothingSaturates

-----------------------------------------------------------------------------
\* At the start nobody waits and nobody notifies.
LEMMA InitInv == Init => IInv
<1> SUFFICES ASSUME Init PROVE IInv
  OBVIOUS
<1> USE CondvarAssumption
     DEF Init, Out, Guard, Counted, Unlocked, Blocked, Late, Relock, Unwind, Panicking,
         Swap0, Sub0, Load, Send, Sub1, Swap2, Sub2
<1>1. TypeOK
  BY DEF TypeOK
<1>2. NotifierInv /\ MutexInv /\ WitnessInv
  BY DEF NotifierInv, MutexInv, WitnessInv
<1>3. Uncounted = {} /\ Total(amount) = 0
  BY TotalZero DEF Uncounted
<1>4. CounterInv
  BY <1>3, FS_EmptySet DEF CounterInv, Conservation
<1> QED BY <1>1, <1>2, <1>4 DEF IInv

-----------------------------------------------------------------------------
\* A waiter that moves between places that count alike changes no account.
LEMMA SameUncounted ==
    ASSUME TypeOK, NEW w \in Waiters, NEW place, wpc' = [wpc EXCEPT ![w] = place],
           place \in {Counted, Unlocked, Blocked, Late}
               <=> wpc[w] \in {Counted, Unlocked, Blocked, Late}
    PROVE  Uncounted' = Uncounted
BY DEF TypeOK, Uncounted

\* Steps that leave the notifiers alone keep what is said of them.
LEMMA NotifiersUntouched ==
    ASSUME NotifierInv, UNCHANGED notifierVars
    PROVE  NotifierInv'
BY DEF NotifierInv, notifierVars

\* Every step of a waiter keeps the invariant.
LEMMA WaiterInv == ASSUME IInv, NEW w \in Waiters, WaiterStep(w) PROVE IInv'
<1> USE CondvarAssumption
     DEF Out, Guard, Counted, Unlocked, Blocked, Late, Relock, Unwind, Panicking,
         Swap0, Sub0, Load, Send, Sub1, Swap2, Sub2
<1> USE Accounts DEF IInv, CounterInv
<1>1. NotifierInv'
  <2>1. UNCHANGED notifierVars
    BY DEF WaiterStep, LockMutex, DropMutexGuard, WaitMs, Unlock, Register, Timeout,
           CountTimeout, Return, WaitError, RelockAndPanic
  <2> QED BY <2>1, NotifiersUntouched
<1>2. MutexInv'
  BY DEF TypeOK, MutexInv, WaiterStep, LockMutex, DropMutexGuard, WaitMs, Unlock, Register,
         Timeout, CountTimeout, Return, WaitError, RelockAndPanic
<1>3. WitnessInv'
  BY DEF TypeOK, WitnessInv, Registered, Leave, notifierVars, WaiterStep, LockMutex,
         DropMutexGuard, WaitMs, Unlock, Register, Timeout, CountTimeout, Return, WaitError,
         RelockAndPanic
<1>4. TypeOK' /\ CounterInv'
  <2>1. CASE \/ LockMutex(w) \/ DropMutexGuard(w) \/ Unlock(w) \/ Register(w) \/ Timeout(w)
             \/ Return(w) \/ RelockAndPanic(w)
    <3>1. TypeOK'
      BY <2>1 DEF TypeOK, notifierVars, Leave, LockMutex, DropMutexGuard, Unlock, Register,
                  Timeout, Return, RelockAndPanic
    <3>2. Uncounted' = Uncounted
      BY <2>1 DEF TypeOK, Uncounted, MutexInv, LockMutex, DropMutexGuard, Unlock, Register,
                  Timeout, Return, RelockAndPanic
    <3>3. UNCHANGED <<counter, timed_out, amount, errors, waits>>
      BY <2>1 DEF notifierVars, LockMutex, DropMutexGuard, Unlock, Register, Timeout, Return,
                  RelockAndPanic
    <3> QED BY <3>1, <3>2, <3>3 DEF Conservation
  <2>2. ASSUME NEW d \in BOOLEAN, WaitMs(w, d) PROVE TypeOK' /\ CounterInv'
    <3>1. Uncounted' = Uncounted \cup {w} /\ w \notin Uncounted
      BY <2>2 DEF WaitMs, TypeOK, Uncounted
    <3>2. Cardinality(Uncounted') = Cardinality(Uncounted) + 1
      BY <3>1, WaitersFinite, FS_AddElement
    <3>3. Conservation' /\ counter' <= waits'
      BY <2>2, <3>2 DEF WaitMs, notifierVars, Conservation, TypeOK
    <3>4. TypeOK'
      BY <2>2 DEF WaitMs, notifierVars, TypeOK
    <3> QED BY <3>3, <3>4
  <2>3. CASE CountTimeout(w)
    <3>1. Uncounted' = Uncounted \ {w} /\ w \in Uncounted
      BY <2>3 DEF CountTimeout, TypeOK, Uncounted
    <3>2. Cardinality(Uncounted') = Cardinality(Uncounted) - 1
      BY <3>1, WaitersFinite, FS_RemoveElement
    <3>3. Conservation' /\ counter' <= waits'
      BY <2>3, <3>2 DEF CountTimeout, notifierVars, Conservation, TypeOK
    <3>4. Cardinality(Uncounted \ {w}) \in Nat
      BY WaitersFinite, FS_RemoveElement, FS_CardinalityType
    <3>5. timed_out + 1 <= counter
      BY <3>1, <3>2, <3>4 DEF Conservation, TypeOK
    <3>6. TypeOK'
      BY <2>3, <3>5 DEF CountTimeout, notifierVars, TypeOK
    <3> QED BY <3>3, <3>6
  <2>4. CASE WaitError(w)
    <3>1. Uncounted' = Uncounted \ {w} /\ w \in Uncounted
      BY <2>4 DEF WaitError, TypeOK, Uncounted
    <3>2. Cardinality(Uncounted') = Cardinality(Uncounted) - 1
      BY <3>1, WaitersFinite, FS_RemoveElement
    <3>3. Conservation' /\ counter' <= waits'
      BY <2>4, <3>2 DEF WaitError, notifierVars, Conservation, TypeOK
    <3>4. TypeOK'
      BY <2>4 DEF WaitError, notifierVars, TypeOK
    <3> QED BY <3>3, <3>4
  <2> QED BY <2>1, <2>2, <2>3, <2>4 DEF WaiterStep
<1> QED BY <1>1, <1>2, <1>3, <1>4

-----------------------------------------------------------------------------
\* A notifier that takes k out, or has subtracted what it took, keeps the accounts
\* if the rest of them changes by as much.
LEMMA Taken ==
    ASSUME TypeOK, NEW n \in Notifiers, amount' \in [Notifiers -> 0 .. MaxWaits],
           \A m \in Notifiers \ {n} : amount'[m] = amount[m]
    PROVE  Total(amount') = Total(amount) - amount[n] + amount'[n] /\ Total(amount) \in Nat
<1>1. amount \in [Notifiers -> Nat] /\ amount' \in [Notifiers -> Nat]
  BY CondvarAssumption DEF TypeOK
<1> QED BY <1>1, TotalUpdate

\* The subtractions from counter: never saturated, they settle what was taken.
LEMMA Settled ==
    ASSUME TypeOK, CounterInv, NEW n \in Notifiers,
           counter' = SaturatingSub(counter, amount[n]), amount' = [amount EXCEPT ![n] = 0],
           UNCHANGED <<timed_out, wpc, errors, waits>>
    PROVE  /\ CounterInv' /\ counter' \in 0 .. MaxWaits
           /\ amount' \in [Notifiers -> 0 .. MaxWaits]
<1> USE CondvarAssumption
<1>1. /\ amount[n] \in Nat /\ amount[n] <= counter /\ counter \in Nat /\ timed_out \in Nat
      /\ errors \in Nat /\ Cardinality(Uncounted) \in Nat
  BY Accounts DEF CounterInv
<1>2. counter' = counter - amount[n]
  BY <1>1 DEF SaturatingSub
<1>3. Total(amount') = Total(amount) - amount[n] /\ Total(amount) \in Nat
  <2>1. amount' \in [Notifiers -> 0 .. MaxWaits] /\ amount'[n] = 0
    BY DEF TypeOK
  <2>2. \A m \in Notifiers \ {n} : amount'[m] = amount[m]
    BY DEF TypeOK
  <2>3. Total(amount') = Total(amount) - amount[n] + amount'[n] /\ Total(amount) \in Nat
    BY <2>1, <2>2, Taken
  <2> QED BY <1>1, <2>1, <2>3
<1>4. Uncounted' = Uncounted
  BY DEF Uncounted
<1>5. Conservation'
  BY <1>1, <1>2, <1>3, <1>4 DEF CounterInv, Conservation
<1>6. counter' <= waits' /\ counter' \in 0 .. MaxWaits
  BY <1>1, <1>2 DEF CounterInv, TypeOK
<1>7. amount' \in [Notifiers -> 0 .. MaxWaits]
  BY DEF TypeOK
<1> QED BY <1>5, <1>6, <1>7 DEF CounterInv

\* The mutex is the waiters' own.
LEMMA MutexUntouched ==
    ASSUME MutexInv, UNCHANGED <<wpc, mutex>> PROVE MutexInv'
BY DEF MutexInv

LEMMA NotifySomeInv ==
    ASSUME IInv, NEW n \in Notifiers, NEW k \in 0 .. MaxWaits, NotifySome(n, k) PROVE IInv'
<1> USE CondvarAssumption
     DEF IInv, NotifySome, Out, Swap0, Sub0, Load, Send, Sub1, Swap2, Sub2
<1>1. TypeOK'
  BY DEF TypeOK, waiterVars, Registered
<1>2. NotifierInv'
  BY DEF NotifierInv, TypeOK
<1>3. MutexInv' /\ CounterInv'
  BY MutexUntouched DEF waiterVars, CounterInv, Conservation, Uncounted
<1>4. WitnessInv'
  <2>1. counter = 0 => Registered = {}
    <3>1. Registered \subseteq Uncounted
      BY DEF Registered, Uncounted
    <3>2. counter = 0 => Cardinality(Uncounted) = 0
      BY Accounts DEF CounterInv
    <3> QED BY <3>1, <3>2, WaitersFinite, FS_EmptySet
  <2>2. Registered' = Registered
    BY DEF waiterVars, Registered
  <2> QED BY <2>1, <2>2 DEF WitnessInv, TypeOK
<1> QED BY <1>1, <1>2, <1>3, <1>4

LEMMA SwapTimedOutInv ==
    ASSUME IInv, NEW n \in Notifiers, SwapTimedOut(n) PROVE IInv'
<1> USE CondvarAssumption
     DEF IInv, SwapTimedOut, Out, Swap0, Sub0, Load, Send, Sub1, Swap2, Sub2
<1>1. TypeOK'
  BY DEF TypeOK, waiterVars
<1>2. NotifierInv'
  BY DEF NotifierInv, TypeOK
<1>3. MutexInv'
  BY MutexUntouched DEF waiterVars
<1>4. CounterInv'
  <2>1. amount[n] = 0 /\ timed_out \in 0 .. MaxWaits
    BY DEF NotifierInv, TypeOK
  <2>2. Total(amount') = Total(amount) + timed_out /\ Total(amount) \in Nat
    <3>1. amount' \in [Notifiers -> 0 .. MaxWaits] /\ amount'[n] = timed_out
      BY DEF TypeOK
    <3>2. \A m \in Notifiers \ {n} : amount'[m] = amount[m]
      BY DEF TypeOK
    <3>3. Total(amount') = Total(amount) - amount[n] + amount'[n] /\ Total(amount) \in Nat
      BY <3>1, <3>2, Taken
    <3> QED BY <2>1, <3>1, <3>3
  <2>3. /\ counter \in Nat /\ errors \in Nat /\ Cardinality(Uncounted) \in Nat
    BY Accounts DEF CounterInv
  <2>4. Uncounted' = Uncounted
    BY DEF waiterVars, Uncounted
  <2> QED BY <2>1, <2>2, <2>3, <2>4 DEF waiterVars, CounterInv, Conservation
<1>5. WitnessInv'
  BY DEF WitnessInv, TypeOK, waiterVars, Registered
<1> QED BY <1>1, <1>2, <1>3, <1>4, <1>5

LEMMA SubTimedOutInv ==
    ASSUME IInv, NEW n \in Notifiers, SubTimedOut(n) PROVE IInv'
<1> USE CondvarAssumption
     DEF IInv, SubTimedOut, Out, Swap0, Sub0, Load, Send, Sub1, Swap2, Sub2
<1>1. CounterInv' /\ counter' \in 0 .. MaxWaits /\ amount' \in [Notifiers -> 0 .. MaxWaits]
  BY Settled DEF waiterVars
<1>2. TypeOK'
  BY <1>1 DEF TypeOK, waiterVars
<1>3. NotifierInv'
  BY DEF NotifierInv, TypeOK
<1>4. MutexInv'
  BY MutexUntouched DEF waiterVars
<1>5. WitnessInv'
  BY DEF WitnessInv, TypeOK, waiterVars, Registered
<1> QED BY <1>1, <1>2, <1>3, <1>4, <1>5

LEMMA LoadWaitersInv ==
    ASSUME IInv, NEW n \in Notifiers, LoadWaiters(n) PROVE IInv'
<1> USE CondvarAssumption
     DEF IInv, LoadWaiters, Out, Swap0, Sub0, Load, Send, Sub1, Swap2, Sub2
<1>1. /\ remaining'[n] = Min({counter, remaining[n]}) /\ remaining'[n] \in Nat
      /\ remaining' = [remaining EXCEPT ![n] = remaining'[n]]
  BY MinOfTwo DEF TypeOK
<1>2. TypeOK'
  BY <1>1 DEF TypeOK, waiterVars
<1>3. NotifierInv'
  BY <1>1 DEF NotifierInv, TypeOK
<1>4. MutexInv' /\ CounterInv'
  BY MutexUntouched DEF waiterVars, CounterInv, Conservation, Uncounted
<1>5. WitnessInv'
  BY <1>1 DEF WitnessInv, TypeOK, waiterVars, Registered
<1> QED BY <1>2, <1>3, <1>4, <1>5

LEMMA NotifyErrorInv ==
    ASSUME IInv, NEW n \in Notifiers, NotifyError(n) PROVE IInv'
<1> USE DEF IInv, NotifyError, Out, Swap0, Sub0, Load, Send, Sub1, Swap2, Sub2
<1>1. TypeOK' /\ NotifierInv'
  BY DEF TypeOK, NotifierInv, waiterVars
<1>2. MutexInv' /\ CounterInv'
  BY MutexUntouched DEF waiterVars, CounterInv, Conservation, Uncounted
<1>3. WitnessInv'
  BY DEF WitnessInv, TypeOK, waiterVars, Registered
<1> QED BY <1>1, <1>2, <1>3

LEMMA SubNotifiedInv ==
    ASSUME IInv, NEW n \in Notifiers, SubNotified(n) PROVE IInv'
<1> USE CondvarAssumption
     DEF IInv, SubNotified, Out, Swap0, Sub0, Load, Send, Sub1, Swap2, Sub2
<1>1. CounterInv' /\ counter' \in 0 .. MaxWaits /\ amount' \in [Notifiers -> 0 .. MaxWaits]
  BY Settled DEF waiterVars
<1>2. TypeOK'
  BY <1>1 DEF TypeOK, NotifierInv, waiterVars
<1>3. NotifierInv'
  BY DEF NotifierInv, TypeOK
<1>4. MutexInv'
  BY MutexUntouched DEF waiterVars
<1>5. WitnessInv'
  BY DEF WitnessInv, TypeOK, waiterVars, Registered
<1> QED BY <1>1, <1>2, <1>3, <1>4, <1>5

LEMMA SubLateTimedOutInv ==
    ASSUME IInv, NEW n \in Notifiers, SubLateTimedOut(n) PROVE IInv'
<1> USE CondvarAssumption
     DEF IInv, SubLateTimedOut, Out, Swap0, Sub0, Load, Send, Sub1, Swap2, Sub2
<1>1. CounterInv' /\ counter' \in 0 .. MaxWaits /\ amount' \in [Notifiers -> 0 .. MaxWaits]
  BY Settled DEF waiterVars
<1>2. remaining'[n] \in Nat /\ tries[n] < NotifyTries
  BY DEF TypeOK, NotifierInv, SaturatingSub
<1>3. TypeOK'
  BY <1>1, <1>2 DEF TypeOK, waiterVars
<1>4. NotifierInv'
  BY <1>2 DEF NotifierInv, TypeOK
<1>5. MutexInv'
  BY MutexUntouched DEF waiterVars
<1>6. WitnessInv'
  BY DEF WitnessInv, TypeOK, waiterVars, Registered
<1> QED BY <1>1, <1>3, <1>4, <1>5, <1>6

\* The server wakes waiters: what they were on the counter, the notifier has taken
\* out, and where nobody was woken nobody was with the server.
LEMMA NotifyConditionInv ==
    ASSUME IInv, NEW n \in Notifiers, NotifyCondition(n) PROVE IInv'
<1> USE CondvarAssumption
     DEF Out, Guard, Counted, Unlocked, Blocked, Late, Relock, Unwind, Panicking,
         Swap0, Sub0, Load, Send, Sub1, Swap2, Sub2
<1> DEFINE k == Min({remaining[n], Cardinality(Registered)})
<1>1. PICK ws \in kSubset(k, Registered) :
        /\ wpc' = [w \in Waiters |-> IF w \in ws THEN Relock ELSE wpc[w]]
        /\ amount' = [amount EXCEPT ![n] = Cardinality(ws)]
        /\ woke' = [woke EXCEPT ![n] = @ \/ ws # {}]
        /\ Leave(ws)
  BY DEF NotifyCondition
<1>2. /\ npc[n] = Send /\ npc' = [npc EXCEPT ![n] = Sub1]
      /\ UNCHANGED <<counter, timed_out, mutex, timed, waits, errors, remaining, tries>>
  BY DEF NotifyCondition
<1>3. ws \subseteq Registered /\ ws \subseteq Uncounted /\ Cardinality(ws) = k
  BY DEF kSubset, Registered, Uncounted
<1>4. /\ k \in Nat /\ k <= remaining[n] /\ (k = 0 => Registered = {})
  <2>1. remaining[n] \in Nat /\ remaining[n] > 0
    BY <1>2 DEF IInv, TypeOK, NotifierInv
  <2>2. k \in {remaining[n], Cardinality(Registered)} /\ k <= remaining[n]
    BY <2>1, MinOfTwo, WaitersFinite
  <2>3. Cardinality(Registered) = 0 => Registered = {}
    BY WaitersFinite, FS_EmptySet
  <2> QED BY <2>1, <2>2, <2>3, WaitersFinite
<1> HIDE DEF k
<1>5. k <= Cardinality(Uncounted) /\ k \in 0 .. MaxWaits
  <2>1. k <= Cardinality(Uncounted)
    BY <1>3, WaitersFinite, FS_Subset
  <2> QED BY <1>4, <2>1, WaitersFinite, Accounts DEF IInv, TypeOK, CounterInv
<1>6. TypeOK'
  BY <1>1, <1>2, <1>3, <1>5 DEF IInv, TypeOK, Leave
<1>7. NotifierInv'
  BY <1>1, <1>2, <1>3, <1>4 DEF IInv, TypeOK, NotifierInv
<1>8. MutexInv'
  BY <1>1, <1>2, <1>3 DEF IInv, TypeOK, MutexInv, Registered
<1>9. CounterInv'
  <2>1. amount' \in [Notifiers -> 0 .. MaxWaits] /\ amount'[n] = k /\ amount[n] = 0
    BY <1>1, <1>2, <1>3, <1>5 DEF IInv, TypeOK, NotifierInv
  <2>2. \A m \in Notifiers \ {n} : amount'[m] = amount[m]
    BY <1>1 DEF IInv, TypeOK
  <2>3. Total(amount') = Total(amount) - amount[n] + amount'[n] /\ Total(amount) \in Nat
    BY <2>1, <2>2, Taken DEF IInv
  <2>4. Total(amount') = Total(amount) + k /\ Total(amount) \in Nat
    BY <1>4, <2>1, <2>3
  <2>5. Uncounted' = Uncounted \ ws
    BY <1>1, <1>3 DEF Uncounted
  <2>6. Uncounted \cap ws = ws
    BY <1>3
  <2>7. Cardinality(Uncounted') = Cardinality(Uncounted) - k
    BY <1>3, <2>5, <2>6, WaitersFinite, FS_Difference
  <2>8. counter \in Nat /\ timed_out \in Nat /\ errors \in Nat /\ Cardinality(Uncounted) \in Nat
    BY Accounts DEF IInv, CounterInv
  <2> HIDE DEF Uncounted
  <2>9. Conservation'
    BY <1>2, <1>4, <2>4, <2>7, <2>8 DEF IInv, CounterInv, Conservation
  <2> QED BY <1>2, <2>9 DEF IInv, CounterInv
<1>10. WitnessInv'
  <2>1. Registered' = Registered \ ws
    BY <1>1, <1>3 DEF Registered
  <2>2. \A m \in Notifiers : witness'[m] = witness[m] \ ws
    BY <1>1 DEF Leave
  <2>3. \A m \in Notifiers : witness'[m] \subseteq Registered'
    BY <2>1, <2>2 DEF IInv, WitnessInv
  <2>4. ~woke'[n] => witness'[n] = {}
    <3>1. ~woke'[n] => ws = {}
      BY <1>1 DEF IInv, TypeOK
    <3>2. ws = {} => Registered = {}
      BY <1>3, <1>4, FS_EmptySet
    <3> QED BY <2>2, <3>1, <3>2 DEF IInv, WitnessInv
  <2>5. \A m \in Notifiers \ {n} : /\ npc'[m] = npc[m] /\ woke'[m] = woke[m]
                                   /\ remaining'[m] = remaining[m]
    BY <1>1, <1>2 DEF IInv, TypeOK
  <2>6. npc'[n] = Sub1
    BY <1>2 DEF IInv, TypeOK
  <2> QED BY <2>2, <2>3, <2>4, <2>5, <2>6 DEF IInv, WitnessInv
<1> QED BY <1>6, <1>7, <1>8, <1>9, <1>10 DEF IInv

-----------------------------------------------------------------------------
\* Every step keeps the invariant.
LEMMA StepInv == IInv /\ [Next]_vars => IInv'
<1> SUFFICES ASSUME IInv, [Next]_vars PROVE IInv'
  OBVIOUS
<1>1. ASSUME NEW w \in Waiters, WaiterStep(w) PROVE IInv'
  BY <1>1, WaiterInv
<1>2. ASSUME NEW n \in Notifiers, NotifierStep(n) PROVE IInv'
  <2>1. ASSUME NEW k \in 0 .. MaxWaits, NotifySome(n, k) PROVE IInv'
    BY <2>1, NotifySomeInv
  <2>2. CASE SwapTimedOut(n) \/ SubTimedOut(n) \/ LoadWaiters(n) \/ NotifyCondition(n)
    BY <2>2, SwapTimedOutInv, SubTimedOutInv, LoadWaitersInv, NotifyConditionInv
  <2>3. CASE NotifyError(n) \/ SubNotified(n) \/ SubLateTimedOut(n)
    BY <2>3, NotifyErrorInv, SubNotifiedInv, SubLateTimedOutInv
  <2> QED BY <1>2, <2>1, <2>2, <2>3 DEF NotifierStep
<1>3. CASE UNCHANGED vars
  BY <1>3 DEF vars, waiterVars, notifierVars, IInv, TypeOK, NotifierInv, MutexInv, CounterInv,
              Conservation, Uncounted, WitnessInv, Registered
<1> QED BY <1>1, <1>2, <1>3 DEF Next

\* The inductive invariant holds throughout.
THEOREM Invariance == Spec => []IInv
<1>1. Init => IInv
  BY InitInv
<1>2. IInv /\ [Next]_vars => IInv'
  BY StepInv
<1> QED BY <1>1, <1>2, PTL DEF Spec

\* Every variable keeps its type; counter and timed_out stay within the waits.
THEOREM Types == Spec => []TypeOK
<1>1. IInv => TypeOK
  BY DEF IInv
<1> QED BY <1>1, Invariance, PTL

\* counter is what it should be in every interleaving of any number of threads.
THEOREM Accounting == Spec => []Conservation
<1>1. IInv => Conservation
  BY DEF IInv, CounterInv
<1> QED BY <1>1, Invariance, PTL

\* No saturating_sub of notify_some ever saturates.
THEOREM NothingSaturated == Spec => []NothingSaturates
<1>1. IInv => NothingSaturates
  BY Nothing
<1> QED BY <1>1, Invariance, PTL

\* A guard is dropped by the thread that holds the mutex only.
THEOREM GuardedMutex == Spec => []GuardHoldsMutex
<1>1. IInv => GuardHoldsMutex
  BY DEF IInv, MutexInv, GuardHoldsMutex
<1> QED BY <1>1, Invariance, PTL

\* A call that wakes nobody, and whose message does not fail, leaves behind no waiter
\* that was with the server from its beginning to its end.
THEOREM Reached == Spec => RegisteredReached
<1> DEFINE Step == \A n \in Notifiers :
                      npc[n] # Out /\ npc'[n] = Out /\ ~woke[n] => witness'[n] = {}
<1>1. IInv /\ [Next]_vars => [Step]_vars
  <2> SUFFICES ASSUME IInv, Next, NEW n \in Notifiers,
                      npc[n] # Out, npc'[n] = Out, ~woke[n]
               PROVE  witness'[n] = {}
    OBVIOUS
  <2> USE DEF Out, Swap0, Sub0, Load, Send, Sub1, Swap2, Sub2, IInv
  <2>1. ASSUME NEW w \in Waiters, WaiterStep(w) PROVE FALSE
    BY <2>1 DEF WaiterStep, LockMutex, DropMutexGuard, WaitMs, Unlock, Register, Timeout,
                CountTimeout, Return, WaitError, RelockAndPanic, notifierVars
  <2>2. ASSUME NEW m \in Notifiers, NotifierStep(m) PROVE m = n
    BY <2>2 DEF TypeOK, NotifierStep, NotifySome, SwapTimedOut, SubTimedOut, LoadWaiters,
                NotifyCondition, NotifyError, SubNotified, SubLateTimedOut
  <2>3. NotifierStep(n)
    BY <2>1, <2>2 DEF Next
  <2>4. LoadWaiters(n) \/ NotifyError(n) \/ SubLateTimedOut(n)
    BY <2>3 DEF TypeOK, NotifierStep, NotifySome, SwapTimedOut, SubTimedOut, NotifyCondition,
                SubNotified
  <2>5. CASE LoadWaiters(n)
    <3>1. Min({counter, remaining[n]}) = 0 /\ witness' = witness
      BY <2>5 DEF LoadWaiters, TypeOK
    <3>2. counter = 0 \/ remaining[n] = 0
      BY <3>1, MinOfTwo, CondvarAssumption DEF TypeOK
    <3>3. counter = 0 => Registered = {}
      <4>1. Registered \subseteq Uncounted
        BY DEF Registered, Uncounted
      <4>2. counter = 0 => Cardinality(Uncounted) = 0
        BY Accounts DEF CounterInv
      <4> QED BY <4>1, <4>2, WaitersFinite, FS_EmptySet
    <3>4. npc[n] = Load
      BY <2>5 DEF LoadWaiters
    <3> QED BY <3>1, <3>2, <3>3, <3>4 DEF WitnessInv
  <2>6. CASE NotifyError(n)
    BY <2>6 DEF NotifyError, TypeOK
  <2>7. CASE SubLateTimedOut(n)
    BY <2>7 DEF SubLateTimedOut, WitnessInv
  <2> QED BY <2>4, <2>5, <2>6, <2>7
<1>2. [][Step]_vars => RegisteredReached
  BY DEF RegisteredReached
<1> QED BY <1>1, <1>2, Invariance, PTL DEF Spec
=============================================================================
